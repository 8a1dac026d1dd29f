SPECIFICATION Spec
CONSTANTS
    EditorLimit = 2
    TagLimit = 2
    MaxEntries = 4
    MaxClock = 5
INVARIANTS
    TypeOK
    EntriesMirror
    UndoesLatest
PROPERTIES
    ExactlyBack
CHECK_DEADLOCK FALSE
