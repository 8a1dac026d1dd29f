SPECIFICATION Spec
CONSTANTS
    Devices <- Fixed
    LoopbackNames <- SystemAudio
    BaseSlug <- FixedSlugs
    MaxSlots = 2
    RingSize = 1
    SleepLen = 2
    MaxMono = 2
    MaxSlept = 2
    MaxLostFiles = 0
    GapIdle = 1
    GapTolerance = 0
    StallWarn = 1
    SleepJumpMin = 1
    ReopenWindow = 1
    IdleSilent = FALSE
INVARIANTS
    FilesComplete
    SuspendedWillClose
    WarningsTrue
    CutHolds
    HolesExplained
