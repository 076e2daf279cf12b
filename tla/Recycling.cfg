SPECIFICATION FairSpec
CONSTANTS
    v1 = v1
    v2 = v2
    c1 = c1
    c2 = c2
    Volumes = {v1}
    Classes = {c1}
    ClassOf <- FileClassOf
    ClassPolicy <- FilePolicy
    ClassMode <- FileClassMode
    VolMode <- FileVolMode
    UseJobForCleaning = FALSE
    MaxEvents = 3
    PatchTo = {}
    MaxFaults <- RestartFault
    PromptReports = FALSE
PROPERTIES ReleasedIsRecycled
