SPECIFICATION Spec
CONSTANTS
    EventTypes = {"d.A", "d.B", "e.C"}
    Domains = {"d", "e"}
    DomainOf <- MCDomainOf
    Correlations = {"k"}
    Aggregates = {}
    NoAggregate = "none"
    Consumers = {"c1"}
    Deliveries <- MCDeliveries
    Polled <- PollTwo
    AckTopics = {"d.A", "e.C"}
    MaxEvents = 3
    MaxAppends = 3
    ClockStepsBack = FALSE
    MaxTime = 1
    BatchSize = 2
    MaxRetries = 2
    CountCap = 2
    MaxRepeats = 1
    CanSeek = FALSE
    CanLeave = TRUE
INVARIANTS
    NoSilentLoss
PROPERTIES
    OneFailurePerDelivery
    BatchHasNoHoles
    KeepsContract
CHECK_DEADLOCK FALSE
