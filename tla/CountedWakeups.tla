--------------------------- MODULE CountedWakeups ---------------------------
(***************************************************************************)
(* What Lock::ConditionVariable promises, without its mutexes, its count,  *)
(* its flag and its event: waiters join, give up the caller's lock, and    *)
(* leave with a wakeup or without one; a waker counts those present and    *)
(* leaves wakeups for them, and WakeAll stays until all of them are gone.  *)
(* CondVar.tla is shown to implement this module.                          *)
(***************************************************************************)
EXTENDS Integers, FiniteSets

CONSTANTS
    Waiters,     \* the threads that may wait
    Wakers,      \* the threads that may wake
    None,        \* the owner of a free lock
    Absent       \* the lock of a condition variable made without one

Threads == Waiters \cup Wakers

VARIABLES
    lock,        \* the owner of the caller's lock; Absent if there is none
    wakeups,     \* given and not yet taken
    place,       \* where each thread is
    kind,        \* the limit of the Wait a thread is in
    answer,      \* whether the Wait it is about to leave has been woken
    number       \* how many the call of a waker has woken

vars == <<lock, wakeups, place, kind, answer, number>>

\* Those a waker has to wake: whoever has joined, until it leaves.
Present == {t \in Threads : place[t] \in {"joined", "waiting", "answered"}}

\* Nobody is between counting the waiters and having served them.
Settled == \A t \in Threads : place[t] \notin {"granting", "meeting"}

Init ==
    /\ lock \in {None, Absent}
    /\ wakeups = 0
    /\ place = [t \in Threads |-> "idle"]
    /\ kind = [t \in Threads |-> "infinite"]
    /\ answer = [t \in Threads |-> FALSE]
    /\ number = [t \in Threads |-> 0]

Move(t, from, to) == place[t] = from /\ place' = [place EXCEPT ![t] = to]

LockGet(t) ==
    /\ place[t] = "idle" /\ lock = None /\ lock' = t
    /\ UNCHANGED <<wakeups, place, kind, answer, number>>

LockFree(t) ==
    /\ place[t] = "idle" /\ lock = t /\ lock' = None
    /\ UNCHANGED <<wakeups, place, kind, answer, number>>

-----------------------------------------------------------------------------
Call(t) ==
    /\ t \in Waiters /\ lock \in {t, Absent}
    /\ Move(t, "idle", "called")
    /\ \E k \in {"infinite", "timed", "try"} : kind' = [kind EXCEPT ![t] = k]
    /\ UNCHANGED <<lock, wakeups, answer, number>>

\* A newcomer cannot take the wakeup a waker has counted out for others.
Join(t) ==
    /\ Move(t, "called", "joined")
    /\ Settled
    /\ UNCHANGED <<lock, wakeups, kind, answer, number>>

\* It gives up the lock once it is present: whoever takes the lock then and wakes
\* finds it.
Release(t) ==
    /\ Move(t, "joined", "waiting")
    /\ lock' = IF lock = Absent THEN Absent ELSE None
    /\ UNCHANGED <<wakeups, kind, answer, number>>

Answer(t, woken) ==
    /\ Move(t, "waiting", "answered")
    /\ answer' = [answer EXCEPT ![t] = woken]
    /\ kind' = [kind EXCEPT ![t] = "infinite"]
    /\ UNCHANGED <<lock, number>>

Take(t) == wakeups > 0 /\ wakeups' = wakeups - 1 /\ Answer(t, TRUE)

GiveUp(t) ==
    /\ kind[t] = "timed" \/ (kind[t] = "try" /\ wakeups = 0)
    /\ Answer(t, FALSE)
    /\ UNCHANGED wakeups

Leave(t) ==
    /\ Move(t, "answered", "left")
    /\ answer' = [answer EXCEPT ![t] = FALSE]
    /\ UNCHANGED <<lock, wakeups, kind, number>>

Return(t) ==
    /\ Move(t, "left", "idle")
    /\ lock \in {None, Absent}
    /\ lock' = IF lock = None THEN t ELSE Absent
    /\ UNCHANGED <<wakeups, kind, answer, number>>

-----------------------------------------------------------------------------
CallWake(t, which) ==
    /\ t \in Wakers
    /\ Move(t, "idle", which)
    /\ UNCHANGED <<lock, wakeups, kind, answer, number>>

\* k wakeups more, or none if there are as many already.
Supply(k) == wakeups' \in {wakeups, wakeups + k} /\ wakeups' >= k

CountOne(t) ==
    /\ Settled
    /\ Move(t, "one", IF Present = {} THEN "done" ELSE "granting")
    /\ UNCHANGED <<lock, wakeups, kind, answer, number>>

\* Those it has seen may have given up meanwhile; the wakeup then stays for a
\* later Wait.
Grant(t) ==
    /\ Move(t, "granting", "done")
    /\ Supply(1)
    /\ number' = [number EXCEPT ![t] = 1]
    /\ UNCHANGED <<lock, kind, answer>>

CountAll(t) ==
    /\ Settled
    /\ Move(t, "all", IF Present = {} THEN "done" ELSE "meeting")
    /\ number' = [number EXCEPT ![t] = Cardinality(Present)]
    /\ IF Present = {} THEN UNCHANGED wakeups ELSE Supply(Cardinality(Present))
    /\ UNCHANGED <<lock, kind, answer>>

Meet(t) ==
    /\ Move(t, "meeting", "done")
    /\ Present = {}
    /\ UNCHANGED <<lock, wakeups, kind, answer, number>>

Finish(t) ==
    /\ Move(t, "done", "idle")
    /\ number' = [number EXCEPT ![t] = 0]
    /\ UNCHANGED <<lock, wakeups, kind, answer>>

Next ==
    \E t \in Threads :
        \/ LockGet(t) \/ LockFree(t)
        \/ Call(t) \/ Join(t) \/ Release(t) \/ Take(t) \/ GiveUp(t) \/ Leave(t) \/ Return(t)
        \/ \E which \in {"one", "all"} : CallWake(t, which)
        \/ CountOne(t) \/ Grant(t) \/ CountAll(t) \/ Meet(t) \/ Finish(t)

Spec == Init /\ [][Next]_vars
=============================================================================
