SPECIFICATION FairSpec
CONSTANTS
    EventTypes = {"d.A"}
    Domains = {"d"}
    DomainOf <- MCDomainOf
    Correlations = {"k"}
    Aggregates = {}
    NoAggregate = "none"
    Consumers = {"c1"}
    Deliveries <- MCDeliveries
    Polled <- PollWildcard
    AckTopics = {"d"}
    MaxEvents = 2
    MaxAppends = 3
    ClockStepsBack = FALSE
    MaxTime = 0
    BatchSize = 1
    MaxRetries = 2
    CountCap = 2
    MaxRepeats = 1
    CanSeek = TRUE
    CanLeave = TRUE
INVARIANTS
    NoSilentLoss
PROPERTIES
    AtLeastOnce
CHECK_DEADLOCK FALSE
