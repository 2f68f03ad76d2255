\* Liveness and refinement: a timeout passes its signal on, nobody calls SetMax.
CONSTANTS
    Threads = {t1, t2, t3}
    InitialCounts = {0, 1}
    InitialMaxima = {2}
    SetMaxArgs = {}
    PostAmounts = {1, 2}
    PollSeconds = {1}
    MAXIMUM_COUNT = 3
    IntMax = 5
    TimeoutMaySwallow = FALSE
    MaxSwallowed = 0
    WaitMayFail = FALSE
    SignalMayFail = TRUE
SPECIFICATION FairSpec
PROPERTIES
    ImplementsCountingSemaphore
    TokensReachWaiters
