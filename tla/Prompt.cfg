SPECIFICATION Spec
CONSTANTS
    v1 = v1
    v2 = v2
    c1 = c1
    c2 = c2
    Volumes = {v1, v2}
    Classes = {c1, c2}
    ClassOf <- MCClassOf
    ClassPolicy <- AllDelete
    ClassMode <- MCClassMode
    VolMode <- MCVolMode
    UseJobForCleaning = TRUE
    MaxEvents = 3
    PatchTo = {"Retain"}
    MaxFaults <- PromptFaults
    PromptReports = TRUE
INVARIANTS AvailableIsClean DeletedAfterCleanup TableTracksCleaners
PROPERTIES FollowsLifecycle
