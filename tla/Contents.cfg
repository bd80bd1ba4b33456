SPECIFICATION ContentsSpec
CONSTANTS
    SrDocs = {1, 2, 3}
    SrBm25 <- Bm25Scores
    SrCategory <- OneMail
    SrAnnText <- TextAnswers
    SrAnnImage <- ImageAnswers
    SrRequests <- Requests
    SrEvents = 1
    CtWorkers = {w1, w2}
    CrSearchers = {w1, w2}
    CrQueries = {"a", "b"}
    CrCapacity = 2
    CrPermits = 2
    CrMaxReloads = 2
    RsDocs = {1, 2}
    RsClients = {w1, w2}
    RsRing = 2
    RsLatchMax = 1
    RsLogMax = 1
    RsDays = 5
    RsMaxRequests = 2
    RsMaxBoots = 2
    PvPages <- TwoPdfs
    PvTopBucket <- TopBuckets
    PvFound <- FoundIn
    PvFit <- TopBuckets
    PvFirst = "two"
    PvBudget = 3
    PvSingle = 2
    PvSlots = 2
    PvReplaceMax = 1
    PvTypeMax = 1
    PvQueueMax = 2
    PvScenes <- Scenes
    IvPictures <- Pictures
    IvView <- CanvasView
    IvUnit = 2
    IvGrains = 4
    IvMinZoom = 1
    IvMaxZoom = 4
    IvZoomStep = 2
    IvPoints <- Points
    IvDrags <- Drags
    IvClick = 2
    IvScenes <- CanvasScenes
    PwMonitors <- Monitors
    PwPercent = 20
    PwMaxPx = 12
    PwMinWidth = 9
    PwEdge = 1
    PwGap = 1
    PwLauncherMin = 3
    PwLauncherWidth = 4
    PwUserSizes = {10, 13}
    PwForced = 14
    PwScenes <- WindowScenes
    PwBound = 2
    DpFiles <- Files
    DpScenes <- Walks
    DpSoffice = TRUE
    DpRowCap = 2
    DpTextCap = 3
    DpSizeCap = 5
    DpShows = 3
    DpEdits = 1
    ExWorkers = {w1, w2}
    ExKinds <- Kinds
    ExTools = {"pdftotext"}
    ExWrites = 2
    ExBoots = 2
    ExClock = 1
    ExEntryBytes = 2
    ExCacheBytes = 3
    ExStreamBytes = 2
    ExRtf <- RtfLimits
    ExZip <- ZipLimits
    ExArchives <- Archives
    ExBase = 3
    ExScans <- Scans
    ExImages <- Images
    MsMax = 2
    MsLimit = 1
    MsBackoffs = 1
    MsPaths = {"new", "cur"}
    MsQueueMax = 3
    MsChanges = 3
    MsMboxes <- Mboxes
    MsConfigs <- Configs
    CfDocs <- SettingsFiles
    CfWriters = {w1, w2}
    CfEdits <- SettingsEdits
    CfCpus = 6
    CfMaxSteps = 3
    Ids <- CrawledFiles
    Instances <- FsInstances
    InstanceOf <- FsInstanceOf
    Mtimes = {1, 2}
    Bodies = {1, 2}
    NoBody = NoBody
    NoDoc = NoDoc
    NoMtime = NoMtime
    ChannelCapacity = 2
    InitialContents <- NothingIndexed
    Menu <- PipelineMenu
    MaxSends = 7
    Faults = {"crash", "commit"}
    TextLayer = {}
    Unreadable = {}
    MaxAttempts = 2
    Resolvers = {}
    Env = {"boot", "write", "unlink"}
    InitialFiles <- FilesOnDisk
    LastReindex = 1
    LastCrash = 7
    Free = Free
    NoRow = NoRow
    NoJob = NoJob
    ClScenes <- ClientScenes
    ClPage = 2
    ClHeight = 2
    ClLogMax = 3
    ClResults = {0, 1, 4}
    ClAttempts = 1
    ClCommands <- CommandLines
    ClMaxEvents = 3
SYMMETRY WorkerSymmetry
CHECK_DEADLOCK FALSE
INVARIANTS
    ContentsTypeOK
    ResultsHonest
    MemoryKept
    ViewersSound
    SourcesSound
    ManifestNotAhead
    CacheNotStale
