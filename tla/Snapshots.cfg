SPECIFICATION Spec
CONSTANTS
    MaxUID = 1
    MaxAttempts = 3
    NoObject = NoObject
    MaxLag = 2
    MaxRelists = 1
    MaxFaults = 1
    MaxRestarts = 1
CHECK_DEADLOCK FALSE
INVARIANTS
    TypeOK
    BoundHasData
    ActualIsBound
PROPERTIES
    KeepsBoundDisks
    BecomesActual
    DeletedIsRemoved
