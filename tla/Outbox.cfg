SPECIFICATION FairSpec
CONSTANTS
    Records = {1,2,3}
    MaybeMalformed = {1,2}
    Wait <- MCWait
    Delivery <- MCDelivery
    ShardOf <- MCShardOf
    ShardCount = 2
    Page = 2
    Second = 2
    MaxDelay = 1
    Stale = 1
    LastCommit = 0
    MaxTime = 4
    MaxFaults = 1
CHECK_DEADLOCK FALSE
INVARIANTS
    TypeOK
    NothingLost
    
    
PROPERTIES
    QueuedUnlessCrowdedOut
