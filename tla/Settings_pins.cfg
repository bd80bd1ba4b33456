SPECIFICATION CfSpec
CONSTANTS
    CfDocs <- SettingsFiles
    CfWriters = {w1}
    CfEdits <- SettingsEdits
    CfCpus = 6
    CfMaxSteps = 3
CHECK_DEADLOCK FALSE
INVARIANT PinnedOcrKeysHold
