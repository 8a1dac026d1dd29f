SPECIFICATION Spec
CONSTANTS
    Names = {mic, system, headset}
    MaxSessions = 2
    MaxTracks = 3
    StartStates = {"idle"}
    StopStates = {"recording"}
PROPERTY
    TwoAbsences
