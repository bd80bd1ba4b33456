SPECIFICATION ServicesSpec
CONSTANTS
    GcMaxPids = 3
    GcClients = {c1}
    GcMain = main
    GcMaxRequests = 3
    GcMaxFaults = 1
    HkCapacity = 1
    HkMaxPresses = 2
    MaxTransitions = 3
    MaxImpactSets = 1
    SmMaxSessions = 3
    SmMaxRequests = 2
    SmMaxBackoff = 4
    SmQueue = 1
    SlotCallers = {c1, c2}
    SlotMaxLoads = 3
CHECK_DEADLOCK FALSE
INVARIANTS
    ServicesTypeOK
    LauncherOwned
    HostSafe
    SessionsKeptApart
PROPERTIES
    CallersReturn
    EmbedderLoadedOnce
