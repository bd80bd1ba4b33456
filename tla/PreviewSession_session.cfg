SPECIFICATION FairSpec
CONSTANTS
    Pids = {p1, p2}
    NoPid = NoPid
    MaxRequests = 2
    MaxEvents = 2
    Capacity = 1
    Ops = {"show", "hide", "scroll", "parent", "unparent", "geometry"}
    Env = {"slow", "spawnfail", "builderror", "crash", "toggle", "launch", "nav"}
    Animated = TRUE
CHECK_DEADLOCK FALSE
INVARIANTS
    TypeOK
    OneWindow
    ProcessIsWatched
PROPERTY LauncherReturns
