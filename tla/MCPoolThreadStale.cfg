CONSTANTS
    MaxJobs = 2
    CreateMayFail = FALSE
    FailureLeavesHandle = FALSE
    SpuriousWakeups = FALSE
    MayKill = FALSE
    Disciplines = {FALSE}
SPECIFICATION Spec
INVARIANT WaitFalseWhileRunning
CHECK_DEADLOCK FALSE
