SPECIFICATION Spec
CONSTANTS
    Workers = {w1,w2}
    Messages = {m1,m2}
    w1 = w1
    w2 = w2
    m1 = m1
    m2 = m2
    NoWorker = NoWorker
    NoMessage = NoMessage
    MaxAttempts = 2
    MaxReceives = 2
    Refusals = {"disabled", "rate"}
    CancelOps = {"finalize"}
    EarlyRedelivery = FALSE
    MaxFaults = 2
    MaxDeferrals = 1
SYMMETRY InterchangeableIds
CHECK_DEADLOCK FALSE
INVARIANTS
    WakeUp
