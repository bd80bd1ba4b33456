SPECIFICATION SsFairSpec
CONSTANTS
    MaxEpoch = 2
    MaxSends = 2
    MaxConns = 2
    MaxFaults = 1
    WriteCap = 1
    Hybrid = TRUE
CHECK_DEADLOCK FALSE
INVARIANTS
    SsTypeOK
    SearchesInOrder
PROPERTY EverySearchReported
