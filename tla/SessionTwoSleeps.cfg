SPECIFICATION Spec
CONSTANTS
    Devices <- OnlyMonitor
    LoopbackNames <- SystemAudio
    BaseSlug <- MonitorSlug
    MaxSlots = 1
    RingSize = 1
    SleepLen = 2
    MaxMono = 2
    MaxSlept = 4
    MaxLostFiles = 0
    GapIdle = 1
    GapTolerance = 0
    StallWarn = 1
    SleepJumpMin = 1
    ReopenWindow = 1
    IdleSilent = FALSE
INVARIANT
    SleepNeverFilled
