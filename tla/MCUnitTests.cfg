SPECIFICATION Spec
CONSTANTS
    Programs <- AllPrograms
    Tests <- AllTests
    Late = {0, 15}
INVARIANTS
    TypeOK
    ExpectationsHold
    NothingUsedAfterReturn
PROPERTY EveryTestEnds
CHECK_DEADLOCK FALSE
