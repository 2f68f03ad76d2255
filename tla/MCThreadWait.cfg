CONSTANTS
    Callers = {o, c}
    Owner = o
    MaxRuns = 3
    TidModulus = 64
    SpuriousWakeups = TRUE
    FailureLeavesHandle = FALSE
    CancelHitsDestructor = FALSE
SPECIFICATION Spec
PROPERTY WaitFalseWhileThreadExists
CHECK_DEADLOCK FALSE
