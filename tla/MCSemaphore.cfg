\* Safety, with every freedom the platform and the callers have.
CONSTANTS
    Threads = {t1, t2, t3}
    InitialCounts = {0, 1, 2, 3}
    InitialMaxima = {1, 2, 4}
    SetMaxArgs = {0, 1, 3}
    PostAmounts = {0, 1, 2}
    PollSeconds = {0, 2}
    MAXIMUM_COUNT = 3
    IntMax = 5
    TimeoutMaySwallow = TRUE
    MaxSwallowed = 2
    WaitMayFail = TRUE
    SignalMayFail = TRUE
SYMMETRY Symmetry
SPECIFICATION Spec
INVARIANTS
    TypeOK
    NoLostWakeup
PROPERTY PostWithinMaximum
