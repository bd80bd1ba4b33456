SPECIFICATION FairSpec
CONSTANTS
    Ids <- SmallIds
    Instances <- SmallInstances
    InstanceOf <- SmallInstanceOf
    Mtimes = {1, 2}
    Ocr = Ocr
    Text = Text
    Bodies = {Ocr, Text}
    NoBody = NoBody
    NoDoc = NoDoc
    NoMtime = NoMtime
    ChannelCapacity = 2
    InitialContents <- StartEither
    Menu <- MutationMenu
    MaxSends = 4
    Faults = {"read"}
CHECK_DEADLOCK FALSE
INVARIANTS
    TypeOK
    TombstonedIsGone
    StagedIsKnown
PROPERTIES
    ChangesAreAnnounced
    AnnouncedIsVisible
    BarrierReturns
