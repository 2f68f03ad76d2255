CONSTANTS
    Threads = {t1, t2, t3}
    CallsMayFail = TRUE
SPECIFICATION FairSpec
INVARIANTS
    TypeOK
    NoWaiterForgotten
PROPERTIES
    ImplementsSignalState
    SignalsReachWaiters
