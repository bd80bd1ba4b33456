SPECIFICATION FairSpec
CONSTANTS
    Ids <- SmallIds
    Instances <- SmallInstances
    InstanceOf <- SmallInstanceOf
    Mtimes = {1, 2}
    Ocr = Ocr
    Text = Text
    Bodies = {Ocr, Text}
    NoBody = NoBody
    NoDoc = NoDoc
    NoMtime = NoMtime
    ChannelCapacity = 2
    InitialContents <- StartEither
    Menu <- FaultMenu
    MaxSends = 4
    Faults = {"commit", "reload", "crash"}
CHECK_DEADLOCK FALSE
INVARIANT CleanIsPublished
PROPERTIES
    AckMeansVisible
    ImplementsSnapshotIndex
    BarrierReturns
