SPECIFICATION Spec
CONSTANTS
    MaxUID = 2
    MaxAttempts = 2
    NoObject = NoObject
    MaxLag = 2
    MaxRelists = 0
    MaxFaults = 0
    MaxRestarts = 0
CHECK_DEADLOCK FALSE
PROPERTIES
    KeepsBoundDisks
