SPECIFICATION FairSpec
CONSTANTS
    Names = {mic, system}
    MaxSessions = 2
    MaxTracks = 3
    StartStates = {"idle"}
    StopStates = {"recording"}
INVARIANTS
    TypeOK
    LiveMatchesOpen
    LevelsNamed
    IdleReleases
PROPERTIES
    StopSaves
    MissingFollowedUp
