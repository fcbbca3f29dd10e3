SPECIFICATION Spec
CONSTANTS
    r1 = r1
    r2 = r2
    d1 = d1
    d2 = d2
    d3 = d3
    Routers = {r1}
    Destinations = {d1, d2}
    Broken = {}
    NoDestination = NoDestination
    MaxTries = 2
    MaxFaults = 0
    MaxChanges = 0
CHECK_DEADLOCK FALSE
INVARIANTS
    IndexFindsEvent
