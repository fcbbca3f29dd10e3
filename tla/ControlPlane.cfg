SPECIFICATION ImportSpec
CONSTANTS
    Slots = {"api1", "api2", "import"}
    Clients = {"api1", "api2"}
    Operations <- MCOperations
    Ids = {1,2,3,4,5,6,7,8,9,10,11}
    Initial <- MCInitial
    PartnerLimit = 2
    DestinationLimit = 2
    VersionPage = 2
    Aliases = {"s", "n"}
    Bound = {"s"}
    MaxFaults = 1
    Bundles <- MCBundles
    MaxPlans = 2
CHECK_DEADLOCK FALSE
INVARIANTS
    TypeOK
    ViewsAgree
    
    
    
PROPERTIES
    VersionsAdvance
    ResumeRequested
    
