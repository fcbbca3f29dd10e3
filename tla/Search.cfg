SPECIFICATION Spec
CONSTANTS
    Deliveries = {1, 2}
    Filters <- MCFilters
    Clients = {"script", "console", "count"}
    Page = 1
    ResumePage = 1
    CursorLife = 2
    MaxTime = 4
CHECK_DEADLOCK FALSE
INVARIANTS
    TypeOK
    
    
