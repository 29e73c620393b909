SPECIFICATION FairSpec
CONSTANTS
    Ids = {"d1"}
    Workers = {"w1", "w2"}
    MaxEvidence = 2
    MaxRestarts = 1
INVARIANTS
    OneVerdict
    EvidenceMovesOn
PROPERTIES
    PaymentIsApproved
CHECK_DEADLOCK FALSE
