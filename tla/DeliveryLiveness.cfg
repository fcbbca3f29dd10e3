SPECIFICATION FairSpec
CONSTANTS
    Workers = {w1}
    Messages = {m1,m2}
    w1 = w1
    w2 = w2
    m1 = m1
    m2 = m2
    NoWorker = NoWorker
    NoMessage = NoMessage
    MaxAttempts = 2
    MaxReceives = 4
    Refusals = {"disabled", "circuit"}
    CancelOps = {"finalize"}
    EarlyRedelivery = FALSE
    MaxFaults = 1
    MaxDeferrals = 1

CHECK_DEADLOCK FALSE
PROPERTIES
    DeliveryEnds
