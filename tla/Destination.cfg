SPECIFICATION FairSpec
CONSTANTS
    w1 = w1
    w2 = w2
    w3 = w3
    d1 = d1
    d2 = d2
    d3 = d3
    NoWorker = NoWorker
    NoDelivery = NoDelivery
    Workers = {w1, w2}
    Deliveries = {d1, d2}
    Threshold = 2
    Interval = 3
    Requests = 2
    Burst = 4
    MaxAttempts = 2
    MaxTries = 2
    Answers = {"success", "failure", "uncounted"}
    MaxTime = 1
    MaxFaults = 1
CHECK_DEADLOCK FALSE
INVARIANTS
    TypeOK
    PermitsFollowCircuit
    
PROPERTIES
    ImplementsContract
    CircuitLetsGo
