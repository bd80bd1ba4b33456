SPECIFICATION PFairSpec
CONSTANTS
    Ids <- OneFile
    Instances <- FsInstances
    InstanceOf <- FsInstanceOf
    Mtimes = {1, 2}
    Bodies = {1, 2}
    NoBody = NoBody
    NoDoc = NoDoc
    NoMtime = NoMtime
    ChannelCapacity = 2
    InitialContents <- NoneOrScanned
    Menu <- PipelineMenu
    MaxSends = 7
    Faults = {"crash"}
    TextLayer = {}
    Unreadable = {2}
    MaxAttempts = 2
    Resolvers = {}
    Env = {"boot", "write", "reindex", "idle", "pressure"}
    InitialFiles <- AnyDisk
    LastReindex = 0
    LastCrash = 0
    Free = Free
    NoRow = NoRow
    NoJob = NoJob
CHECK_DEADLOCK FALSE
PROPERTIES
    RowsDrain
    CrawlEnds
