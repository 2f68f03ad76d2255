CONSTANTS
    MaxJobs = 2
    CreateMayFail = TRUE
    FailureLeavesHandle = FALSE
    SpuriousWakeups = FALSE
    MayKill = FALSE
    Disciplines = {TRUE}
SPECIFICATION Spec
INVARIANT WaitTrueWithoutThread
CHECK_DEADLOCK FALSE
