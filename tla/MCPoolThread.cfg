CONSTANTS
    MaxJobs = 3
    CreateMayFail = TRUE
    FailureLeavesHandle = TRUE
    SpuriousWakeups = TRUE
    MayKill = TRUE
    Disciplines = {TRUE, FALSE}
SPECIFICATION FairSpec
INVARIANTS
    TypeOK
    JobsRunOnce
    WaitTrueMeansIdle
PROPERTIES
    ImplementsJobSlot
    JobCompletes
    WaitReturns
    DestroyEndsWorker
CHECK_DEADLOCK FALSE
