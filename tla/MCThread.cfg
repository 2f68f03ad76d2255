CONSTANTS
    Callers = {o, c}
    Owner = o
    MaxRuns = 3
    TidModulus = 64
    SpuriousWakeups = TRUE
    FailureLeavesHandle = TRUE
    CancelHitsDestructor = TRUE
SPECIFICATION FairSpec
INVARIANTS
    TypeOK
    OneAtATime
    DataOutlivesUsers
    NothingLeaks
    SleepersAreExpected
PROPERTY KillReturns
CHECK_DEADLOCK FALSE
