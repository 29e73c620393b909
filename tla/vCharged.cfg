SPECIFICATION Spec
CONSTANTS
    Charges = {"p1", "p2", "p3"}
    Verified = {"p1", "p2"}
    Unbooked = {"p2"}
    AuditEnabled = TRUE
    Refunds = {"r1"}
    Orders = {"o1"}
    Bookings = {"b1", "b2"}
    Headers = {"h1"}
    NoHeader = NoHeader
    Workers = {"w1", "w2"}
    MaxCalls = 2
    MaxKeys = 2
    MaxLosses = 2
INVARIANTS
    ChargedOnce
CHECK_DEADLOCK FALSE
