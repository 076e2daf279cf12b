SPECIFICATION Spec
CONSTANTS
    Volumes = {a, b}
    NoVolume = NoVolume
    MaxID = 2
    MaxExports = 3
    FaultSets = {{"provision", "rollback", "delete"}, {"provision", "delete", "write"}}
    MaxRestarts = 1
SYMMETRY Interchangeable
CHECK_DEADLOCK FALSE
INVARIANTS TypeOK IDsDistinct LivePVsExported LivePVsLimited
