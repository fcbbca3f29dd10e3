SPECIFICATION FairSpec
CONSTANTS
    r1 = r1
    r2 = r2
    d1 = d1
    d2 = d2
    d3 = d3
    Routers = {r1, r2}
    Destinations = {d1, d2}
    Broken = {d2}
    NoDestination = NoDestination
    MaxTries = 2
    MaxFaults = 2
    MaxChanges = 1
CHECK_DEADLOCK FALSE
INVARIANTS
    TypeOK
    CountersMatchDeliveries
    RoutedCoversDestinations
PROPERTIES
    FinalStatusKept
    ImplementsContract
    EventSettles
