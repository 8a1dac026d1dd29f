SPECIFICATION FairSpec
CONSTANTS
    Devices <- HotPlugged
    LoopbackNames = {}
    BaseSlug <- Slugs
    MaxSlots = 3
    RingSize = 0
    SleepLen = 2
    MaxMono = 1
    MaxSlept = 0
    MaxLostFiles = 1
    GapIdle = 1
    GapTolerance = 0
    StallWarn = 9
    SleepJumpMin = 1
    ReopenWindow = 1
    IdleSilent = FALSE
INVARIANTS
    TypeOK
    UniqueFiles
    PendingWatched
    SegmentChain
PROPERTIES
    JoinsOnce
    ClosedBeforeTeardown
    StopEnds
