CONSTANTS
    NCases = 3
    Lines = 2
    CreateMayFail = TRUE
SPECIFICATION FairSpec
INVARIANTS
    TypeOK
    RunsOnce
    StandaloneAlone
    NothingSkipped
    SummaryComplete
    UtdOutlivesWorkers
PROPERTIES
    ImplementsTestSuite
    RunTerminates
CHECK_DEADLOCK FALSE
