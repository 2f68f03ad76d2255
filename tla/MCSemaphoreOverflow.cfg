\* Amounts a caller may pass and Int32 can hold, but not added to the count.
CONSTANTS
    Threads = {t1, t2}
    InitialCounts = {0, 1}
    InitialMaxima = {3}
    SetMaxArgs = {}
    PostAmounts = {1, 5}
    PollSeconds = {}
    MAXIMUM_COUNT = 3
    IntMax = 5
    TimeoutMaySwallow = FALSE
    MaxSwallowed = 0
    WaitMayFail = FALSE
    SignalMayFail = FALSE
SPECIFICATION Spec
PROPERTY PostRefusesExcess
