CONSTANTS
    Waiters = {w1, w2, w3}
    Wakers = {w3, k}
    None = None
    Absent = Absent
    SemMax = 8
SPECIFICATION FairSpec
INVARIANTS
    TypeOK
    CountExact
    NobodyLeftBehind
    RendezvousClean
PROPERTIES
    ImplementsCountedWakeups
    WakeAllReturns
