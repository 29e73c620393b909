SPECIFICATION FairSpec
CONSTANTS
    EventTypes = {"d.A", "d.B"}
    Domains = {"d"}
    DomainOf <- MCDomainOf
    Correlations = {"k"}
    Aggregates = {}
    NoAggregate = "none"
    Consumers = {"c1"}
    Deliveries <- MCDeliveries
    Polled <- PollOne
    AckTopics = {"d.B"}
    MaxEvents = 3
    MaxAppends = 3
    ClockStepsBack = FALSE
    MaxTime = 0
    BatchSize = 1
    MaxRetries = 2
    CountCap = 2
    MaxRepeats = 1
    CanSeek = FALSE
    CanLeave = FALSE
PROPERTIES
    AtLeastOnce
