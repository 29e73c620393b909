SPECIFICATION ReviewSpec
CONSTANTS
    Callers = {c1, c2, c3}
    Texts = {t1, t2}
    MaxRequests = 4
SYMMETRY Interchangeable
INVARIANTS
    PublishedIsCleared
    SubmittedIsUnderWay
CHECK_DEADLOCK FALSE
