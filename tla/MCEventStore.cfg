SPECIFICATION StoreSpec
CONSTANTS
    EventTypes = {"requests.CREATED"}
    Domains = {"requests"}
    DomainOf <- MCDomainOf
    Correlations = {"c1"}
    Aggregates = {"a1", "a2"}
    NoAggregate = "none"
    MaxEvents = 3
    MaxAppends = 5
    ClockStepsBack = TRUE
    MaxTime = 1
INVARIANTS
    RetainsNewestRun
    IndexAgreesWithLog
    ReadsAreGapless
