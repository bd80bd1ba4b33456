SPECIFICATION PSpec
CONSTANTS
    Ids <- OneFile
    Instances <- FsInstances
    InstanceOf <- FsInstanceOf
    Mtimes = {1, 2}
    Bodies = {1, 2}
    NoBody = NoBody
    NoDoc = NoDoc
    NoMtime = NoMtime
    ChannelCapacity = 1
    InitialContents <- NoneOrRecognised
    Menu <- PipelineMenu
    MaxSends = 3
    Faults = {"crash"}
    TextLayer = {}
    Unreadable = {}
    MaxAttempts = 1
    Resolvers = {r1, r2}
    Env = {"boot", "write", "unlink", "rescan", "idle", "pressure"}
    InitialFiles <- AnyDisk
    LastReindex = 1
    LastCrash = 1
    Free = Free
    NoRow = NoRow
    NoJob = NoJob
CHECK_DEADLOCK FALSE
SYMMETRY ResolverSymmetry
INVARIANTS
    PTypeOK
    InFlightRowStays
    WriteBackIsOfItsBytes
 
