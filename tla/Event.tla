-------------------------------- MODULE Event --------------------------------
(***************************************************************************)
(* Lock::IEvent on POSIX (system/synchronization/event.cc), auto-reset and *)
(* manual-reset: a Boolean guarded by a mutex, and waiters blocked on a    *)
(* condition variable.  Every access to the state holds the mutex, so one  *)
(* step is one critical section, from the lock (or the return of           *)
(* pthread_cond_wait) to the unlock (or the next pthread_cond_wait).       *)
(***************************************************************************)
EXTENDS Naturals

CONSTANTS
    Threads,       \* the threads that share the event
    CallsMayFail   \* pthread_cond_wait and _timedwait may return an error

ASSUME PlatformAssumption == CallsMayFail \in BOOLEAN

VARIABLES
    state,    \* EVENT_DATA.state
    manual,   \* EDFLAG_MANURESET of EVENT_DATA.flag
    call,     \* the call each thread is in, "none" outside the event
    pc,       \* where in that call it is
    ret       \* what the last Wait of each thread returned

vars == <<state, manual, call, pc, ret>>

Blocking == {"infinite", "timed"}
Waits == Blocking \cup {"try", "clockless"}

Sleepers == {t \in Threads : pc[t] = "asleep"}
\* Released from the condition variable, by a signal or the clock; each of them
\* looks at the state again before its call returns.
Returning == {t \in Threads : pc[t] \in {"woken", "expired"}}

TypeOK ==
    /\ state \in BOOLEAN
    /\ manual \in BOOLEAN
    /\ call \in [Threads -> Waits \cup {"none", "set", "reset"}]
    /\ pc \in [Threads -> {"idle", "lock", "asleep", "woken", "expired"}]
    /\ ret \in [Threads -> BOOLEAN]
    /\ \A t \in Threads :
        /\ call[t] = "none" <=> pc[t] = "idle"
        /\ pc[t] \in {"asleep", "woken"} => call[t] \in Blocking
        /\ pc[t] = "expired" => call[t] = "timed"

Init ==
    /\ state \in BOOLEAN
    /\ manual \in BOOLEAN
    /\ call = [t \in Threads |-> "none"]
    /\ pc = [t \in Threads |-> "idle"]
    /\ ret = [t \in Threads |-> FALSE]

\* "clockless" is a timed wait whose clock_gettime or gettimeofday fails.
Call(t) ==
    /\ pc[t] = "idle"
    /\ \E kind \in Waits \cup {"set", "reset"} : call' = [call EXCEPT ![t] = kind]
    /\ pc' = [pc EXCEPT ![t] = "lock"]
    /\ UNCHANGED <<state, manual, ret>>

-----------------------------------------------------------------------------
Return(t, answer) ==
    /\ call' = [call EXCEPT ![t] = "none"]
    /\ pc' = [pc EXCEPT ![t] = "idle"]
    /\ ret' = [ret EXCEPT ![t] = answer]
    /\ UNCHANGED manual

\* Mutation: a wait that timed out fails without another look at the state.
StatOk_NotLate(t) == state /\ pc[t] # "expired"
\* The loop condition, and stat_ok = state for a try or after ETIMEDOUT.
StatOk(t) == state

\* Mutation: the reset of an auto-reset event is forgotten.
AfterSuccess_Kept == TRUE
\* if (stat_ok && !(flag & EDFLAG_MANURESET)) state = False;
AfterSuccess == manual

Succeed(t) ==
    /\ pc[t] \in {"lock", "woken", "expired"}
    /\ call[t] \in Blocking \cup {"try"}
    /\ StatOk(t)
    /\ state' = AfterSuccess
    /\ Return(t, TRUE)

\* Nothing to wait for, no time left, or no clock.
Fail(t) ==
    /\ \/ pc[t] = "lock" /\ call[t] = "try" /\ ~StatOk(t)
       \/ pc[t] = "expired" /\ ~StatOk(t)
       \/ pc[t] = "lock" /\ call[t] = "clockless"
    /\ Return(t, FALSE)
    /\ UNCHANGED state

\* pthread_cond_wait, pthread_cond_timedwait
Sleep(t) ==
    /\ pc[t] \in {"lock", "woken"}
    /\ call[t] \in Blocking
    /\ ~StatOk(t)
    /\ pc' = [pc EXCEPT ![t] = "asleep"]
    /\ UNCHANGED <<state, manual, call, ret>>

WaitError(t) ==
    /\ CallsMayFail
    /\ pc[t] \in {"lock", "woken"}
    /\ call[t] \in Blocking
    /\ ~StatOk(t)
    /\ Return(t, FALSE)
    /\ UNCHANGED state

SpuriousWakeup(t) ==
    /\ pc[t] = "asleep"
    /\ pc' = [pc EXCEPT ![t] = "woken"]
    /\ UNCHANGED <<state, manual, call, ret>>

\* Mutation: a wait without limit ends with its deadline, too.
HasDeadline_Always(t) == call[t] \in Blocking
HasDeadline(t) == call[t] = "timed"

\* ETIMEDOUT, to a thread that nobody signalled or, as POSIX permits, to one
\* that consumed a signal.  The mutex is still to be taken again.
Timeout(t) ==
    /\ pc[t] \in {"asleep", "woken"}
    /\ HasDeadline(t)
    /\ pc' = [pc EXCEPT ![t] = "expired"]
    /\ UNCHANGED <<state, manual, call, ret>>

-----------------------------------------------------------------------------
\* Mutation: pthread_cond_signal on a manual-reset event too.
Rousable_SignalOnly ==
    IF Sleepers = {} THEN {{}} ELSE {{u} : u \in Sleepers}
\* The sets of threads that Set may unblock: broadcast or signal.
Rousable ==
    IF manual \/ Sleepers = {} THEN {Sleepers} ELSE {{u} : u \in Sleepers}

\* Set, and Free, which calls it.
Set(t) ==
    /\ pc[t] = "lock"
    /\ call[t] = "set"
    /\ state' = TRUE
    /\ call' = [call EXCEPT ![t] = "none"]
    /\ \E roused \in Rousable :
        pc' = [u \in Threads |->
                 IF u = t THEN "idle" ELSE IF u \in roused THEN "woken" ELSE pc[u]]
    /\ UNCHANGED <<manual, ret>>

Reset(t) ==
    /\ pc[t] = "lock"
    /\ call[t] = "reset"
    /\ state' = FALSE
    /\ Return(t, ret[t])

Step(t) == Succeed(t) \/ Fail(t) \/ Sleep(t) \/ Set(t) \/ Reset(t)

Next ==
    \E t \in Threads :
        Step(t) \/ Call(t) \/ WaitError(t) \/ SpuriousWakeup(t) \/ Timeout(t)

Spec == Init /\ [][Next]_vars

\* A thread that is not blocked on the condition variable gets the processor,
\* and the mutex, which is only held for a few instructions.
FairSpec == Spec /\ \A t \in Threads : WF_vars(Step(t))

-----------------------------------------------------------------------------
\* A set event never leaves its waiters behind: a manual-reset event has none
\* while it is set, and next to one that sleeps on a set auto-reset event some
\* other thread is on its way to the state, even when the signal was spent on a
\* thread whose time was up (event.cc:180, 188).
NoWaiterForgotten ==
    state /\ Sleepers # {} => ~manual /\ Returning # {}

\* The same over time (event.cc:101-115, 126-195): the waiters of an auto-reset
\* event do not all stay blocked while the signal is there, and on an event that
\* stays set every wait returns.
SignalsReachWaiters ==
    /\ (state /\ Sleepers # {}) ~> (~state \/ Sleepers = {})
    /\ \A t \in Threads :
          <>[]state => [](call[t] \in Waits => <>(call[t] \notin Waits))

Promise ==
    INSTANCE SignalState
    WITH signal <- state, auto <- ~manual, pending <- call, reply <- ret,
         MayFail <- CallsMayFail

\* Every call takes effect at one instant: a wait succeeds exactly when it finds
\* the event set, resets it exactly if the event is auto-reset, so that one Set
\* releases one thread, and a wait with a clock never fails on a set event.
ImplementsSignalState == Promise!Spec
=============================================================================
