SPECIFICATION FairSpec
CONSTANTS
    EventTypes = {"d.A"}
    Domains = {"d"}
    DomainOf <- MCDomainOf
    Correlations = {"k"}
    Aggregates = {}
    NoAggregate = "none"
    Consumers = {"c1", "c2"}
    Webhooks = {"c1", "c2"}
    Subscriptions = {"s1", "s2"}
    TopicSets = {{"d.A"}, {"d"}}
    Deliveries <- MCDeliveries
    MaxEvents = 3
    MaxAppends = 1
    ClockStepsBack = FALSE
    MaxTime = 0
    MaxAttempts = 2
    MaxRetries = 2
    CountCap = 4
    MaxManualRetries = 1
INVARIANTS
    StatusMatchesCount
    FailuresAreStartedTasks
    StartedIsAccounted
PROPERTIES
    ReopenedByRunningTask
    KeepsContract
    EveryTaskEnds
CHECK_DEADLOCK FALSE
