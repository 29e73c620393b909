SPECIFICATION FairSpec
CONSTANTS
    Agents = {"a1", "a2"}
    Stars = {"a1"}
    MinAgents = 2
    MaxAgents = 2
    MaxAttempts = 2
    BenchFallback = TRUE
    PeakSingle = FALSE
    PublishFails = TRUE
    Overrides = {"FORCE_REMATCH", "CANCEL_MATCHING"}
    Flows = {"f1", "f2"}
    MaxObjects = 2
    MaxEvents = 3
INVARIANTS
    SettledWhenIdle
    AttemptsAreFew
PROPERTIES
    EveryHandlerEnds
CHECK_DEADLOCK FALSE
