SPECIFICATION FairSpec
CONSTANTS
    v1 = v1
    v2 = v2
    c1 = c1
    c2 = c2
    Volumes = {v2}
    Classes = {c2}
    ClassOf <- BlockClassOf
    ClassPolicy <- BlockPolicy
    ClassMode <- BlockClassMode
    VolMode <- BlockVolMode
    UseJobForCleaning = TRUE
    MaxEvents = 3
    PatchTo = {}
    MaxFaults <- RestartFault
    PromptReports = FALSE
INVARIANTS ActsOnlyOnReleased
PROPERTIES ReleasedIsRecycled
