SPECIFICATION Spec
CONSTANTS
    c1 = c1
    c2 = c2
    c3 = c3
    Calls = {c1, c2, c3}
    EventKeys = {"event"}
    ReplayKeys = {"replay"}
    Bodies = {"a", "b"}
    Confirming = {"b"}
    Secrets = {"old", "new"}
    GraceUntil <- MCGraceUntil
    Requests <- MCRequests
    Skew = 0
    GuardLife = 1
    RecordLife = 2
    MaxTime = 2
    MaxChanges = 1
    MaxFaults = 1
SYMMETRY MCSymmetry
CHECK_DEADLOCK FALSE
INVARIANTS
    TypeOK
    CreatedOnce
    AnswersAgree
    ConflictExplained
