SPECIFICATION PSpec
CONSTANTS
    Ids <- OneFile
    Instances <- FsInstances
    InstanceOf <- FsInstanceOf
    Mtimes = {1}
    Bodies = {1}
    NoBody = NoBody
    NoDoc = NoDoc
    NoMtime = NoMtime
    ChannelCapacity = 2
    InitialContents <- Recognised
    Menu <- PipelineMenu
    MaxSends = 7
    Faults = {}
    TextLayer = {}
    Unreadable = {}
    MaxAttempts = 2
    Resolvers = {}
    Env = {"reindex", "idle"}
    InitialFiles <- AllFiles
    LastReindex = 1
    LastCrash = 0
    Free = Free
    NoRow = NoRow
    NoJob = NoJob
CHECK_DEADLOCK FALSE
INVARIANT NoTextForgotten
