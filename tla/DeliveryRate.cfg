SPECIFICATION FairSpec
CONSTANTS
    Workers = {w1}
    Messages = {m1}
    w1 = w1
    w2 = w2
    m1 = m1
    m2 = m2
    NoWorker = NoWorker
    NoMessage = NoMessage
    MaxAttempts = 2
    MaxReceives = 3
    Refusals = {"rate"}
    CancelOps = {}
    EarlyRedelivery = FALSE
    MaxFaults = 0
    MaxDeferrals = 1

CHECK_DEADLOCK FALSE
PROPERTIES
    DeferredResumes
