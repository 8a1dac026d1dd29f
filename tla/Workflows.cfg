SPECIFICATION FairSpec
CONSTANTS
    MaxTracks = 2
    MaxGen = 3
    MaxPosted = 2
INVARIANTS
    TypeOK
    JobsMatchWork
    NamesOfTranscript
    IdentifiedIsCurrent
    AudioIsCurrent
    CleanUnlessRaced
PROPERTIES
    CancelStopsChain
    TranscribeCloses
