SPECIFICATION FairSpec
CONSTANTS
    Requests = {"r1", "r2"}
    OldRows = {"r1"}
    Workers = {"w1", "w2"}
    Sweepers = {"s1"}
    OpenLimit = 1
    TodayLimit = 2
    SweepSize = 1
    MaxCalls = 2
    MaxLosses = 1
INVARIANTS
    CapsHold
    CancellerOfCancelled
    StateIsPublished
    OneEnding
PROPERTIES
    Lifecycle
    OverdueIsClosed
CHECK_DEADLOCK FALSE
