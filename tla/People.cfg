SPECIFICATION Spec
CONSTANTS
    Persons = {"ann", "bob", "eve"}
    FirstPersons = {"ann", "bob"}
    Samples = {"x", "y"}
    FirstOwner <- MCFirstOwner
    MaxOthers = 1
    MaxBegun = 3
    MaxFaults = 1
    MaxUndo = 2
INVARIANTS
    TypeOK
    NothingOrphaned
    RefusedChangesNothing
    UndoRestores
PROPERTIES
    NoLostUpdate
