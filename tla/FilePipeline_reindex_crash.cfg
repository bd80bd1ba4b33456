SPECIFICATION PSpec
CONSTANTS
    Ids <- OneFile
    Instances <- FsInstances
    InstanceOf <- FsInstanceOf
    Mtimes = {1, 2}
    Bodies = {1, 2}
    NoBody = NoBody
    NoDoc = NoDoc
    NoMtime = NoMtime
    ChannelCapacity = 2
    InitialContents <- Scanned
    Menu <- PipelineMenu
    MaxSends = 6
    Faults = {"crash"}
    TextLayer = {}
    Unreadable = {}
    MaxAttempts = 2
    Resolvers = {}
    Env = {"write", "reindex"}
    InitialFiles <- AllFiles
    LastReindex = 1
    LastCrash = 6
    Free = Free
    NoRow = NoRow
    NoJob = NoJob
CHECK_DEADLOCK FALSE
INVARIANT SkippedIsCurrent
