SPECIFICATION Spec
CONSTANTS
    Workers = {w1,w2}
    Messages = {m1}
    w1 = w1
    w2 = w2
    m1 = m1
    m2 = m2
    NoWorker = NoWorker
    NoMessage = NoMessage
    MaxAttempts = 2
    MaxReceives = 2
    Refusals = {"disabled", "circuit", "rate"}
    CancelOps = {"lease", "defer", "start", "finalize", "recover"}
    EarlyRedelivery = TRUE
    MaxFaults = 2
    MaxDeferrals = 1
SYMMETRY InterchangeableIds
CHECK_DEADLOCK FALSE
INVARIANTS
    TypeOK
    AttemptAccounting
    OutcomeMatchesAttempts
    SendsOnce
    LeaseExclusive
PROPERTIES
    OutcomeFinal
    ImplementsContract
