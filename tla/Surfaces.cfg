SPECIFICATION SurfacesSpec
CONSTANTS
    WaFiles = {"f", "g"}
    WaRawCap = 2
    WaJobCap = 2
    WaCtrlCap = 1
    WaResolvers = {w1, w2}
    WaMaxVer = 2
    WaMaxEvents = 3
    EwDocs = {d1}
    EwChannelsOf <- OneDocOfEveryChannel
    EwMaxVer = 2
    EwMaxCommits = 2
    EwMaxFaults = 1
    EwMaxBackfills = 1
    EwWireCap = 1
    EwJobCap = 1
    EwBatch = 2
    LwTexts = {"a", "b"}
    LwMaxEpoch = 4
    LwBudgets <- Budgets
    LwAnimated = TRUE
    RwRows = {w1, w2}
    RwHit <- Hits
    RwMenuOf <- RowMenus
    RwAnswers <- RowAnswers
    RwMaxAnswers = 2
    RwMaxPopovers = 1
    RwIcons <- IconFiles
    RwMaxQueue = 3
    RwActions <- HitActions
    RwChildren = {k1, k2}
    RwMaxShown = 4
    RwTexts <- Titles
    RwTokens <- QueryTokens
    RwLists <- CategoryLists
    RwScenes = {"rows", "icons", "status", "launch"}
SYMMETRY WorkerSymmetry
CHECK_DEADLOCK FALSE
INVARIANTS
    SurfacesTypeOK
    NothingUnnoticed
    VectorsSafe
    LauncherSound
