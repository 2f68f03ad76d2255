------------------------------- MODULE CondVar -------------------------------
(***************************************************************************)
(* Lock::ConditionVariable (system/synchronization/condvar.cc): a counting *)
(* semaphore the waiters block on, the mutex mtxi that admits waiters and  *)
(* wakers, a count of the waiters under the mutex mtxd, and a manual-reset *)
(* event at which WakeAll meets the last waiter it wakes.                  *)
(*                                                                         *)
(* The semaphore and the event are used through what Semaphore.tla and     *)
(* Event.tla are shown to promise: each of their calls is one step, a      *)
(* blocked Wait is a step that is not enabled, and a token or a signal     *)
(* that stays there is eventually taken.  A critical section of mtxd is    *)
(* one step: it never blocks, and what it guards is otherwise only touched *)
(* by single accesses, which are steps of their own.  mtxi is held across  *)
(* blocking calls and is modelled as a mutex.                              *)
(***************************************************************************)
EXTENDS Integers, FiniteSets

CONSTANTS
    Waiters,     \* the threads that may call Wait
    Wakers,      \* the threads that may call WakeOne and WakeAll
    None,        \* the owner of a mutex that is free
    Absent,      \* the lock of a condition variable made without one
    SemMax       \* Semaphore::MAXIMUM_COUNT (2109876543)

Threads == Waiters \cup Wakers

\* More tokens fit than any number of waiters twice over, as 2109876543 does.
ASSUME ThreadsAssumption ==
    IsFiniteSet(Threads) /\ None \notin Threads /\ Absent \notin Threads /\ None # Absent
ASSUME SemMaxAssumption ==
    SemMax \in Nat /\ SemMax >= 2 * Cardinality(Threads)

VARIABLES
    lock,        \* the owner of the caller's lock; Absent if there is none
    mtxi,        \* the owner of mtxi
    waitCount,   \* wait_count
    wakeAll,     \* CVFLAG_WAKE_ALL of wait_flags
    tokens,      \* the count of semap
    mrend,       \* whether the event mrend is set
    pc,          \* where each thread is
    kind,        \* the timeout of the Wait a thread is in
    rv,          \* whether semap.Wait succeeded, between that and the return
    n            \* the local n of WakeOne and WakeAll, 0 outside them

data == <<waitCount, wakeAll, tokens, mrend>>
locals == <<kind, rv, n>>
vars == <<lock, mtxi, data, pc, locals>>

WaitPlaces == {"enter", "count", "admit", "unlock", "sem", "leave", "notify", "relock"}
WakeOnePlaces == {"one", "test", "post", "oneFree"}
WakeAllPlaces == {"all", "sweep", "meet", "reset", "clear", "allFree"}

\* The threads that wait_count counts, and those of them still to get a token.
Counted == {t \in Threads : pc[t] \in {"admit", "unlock", "sem", "leave"}}
Unserved == {t \in Threads : pc[t] \in {"admit", "unlock", "sem"}}

TypeOK ==
    /\ lock \in Threads \cup {None, Absent}
    /\ mtxi \in Threads \cup {None}
    /\ waitCount \in 0..Cardinality(Threads)
    /\ wakeAll \in BOOLEAN
    /\ tokens \in 0..SemMax
    /\ mrend \in BOOLEAN
    /\ pc \in [Threads -> {"idle"} \cup WaitPlaces \cup WakeOnePlaces \cup WakeAllPlaces]
    /\ kind \in [Threads -> {"infinite", "timed", "try"}]
    /\ rv \in [Threads -> BOOLEAN]
    /\ n \in [Threads -> 0..Cardinality(Threads)]

Init ==
    /\ lock \in {None, Absent}
    /\ mtxi = None
    /\ waitCount = 0
    /\ wakeAll = FALSE
    /\ tokens = 0
    /\ mrend = FALSE
    /\ pc = [t \in Threads |-> "idle"]
    /\ kind = [t \in Threads |-> "infinite"]
    /\ rv = [t \in Threads |-> FALSE]
    /\ n = [t \in Threads |-> 0]

Goto(t, from, to) == pc[t] = from /\ pc' = [pc EXCEPT ![t] = to]

\* Mutation: the mutex does not exclude.
Enterable_Always(t) == TRUE
Enterable(t) == mtxi = None

GetInner(t, from, to) ==
    /\ Goto(t, from, to)
    /\ Enterable(t)
    /\ mtxi' = t
    /\ UNCHANGED <<lock, data, locals>>

FreeInner(t, from, to) ==
    /\ Goto(t, from, to)
    /\ mtxi' = None
    /\ n' = [n EXCEPT ![t] = 0]
    /\ UNCHANGED <<lock, data, kind, rv>>

\* semap.Post(k), which refuses what would exceed the maximum.
PostTokens(k) == tokens' = IF tokens + k <= SemMax THEN tokens + k ELSE tokens

-----------------------------------------------------------------------------
(* The caller's lock, which waiting callers hold.                          *)

LockGet(t) ==
    /\ pc[t] = "idle"
    /\ lock = None
    /\ lock' = t
    /\ UNCHANGED <<mtxi, data, pc, locals>>

LockFree(t) ==
    /\ pc[t] = "idle"
    /\ lock = t
    /\ lock' = None
    /\ UNCHANGED <<mtxi, data, pc, locals>>

-----------------------------------------------------------------------------
(* Wait, and Get and TryGet, which call it.                                *)

CallWait(t) ==
    /\ t \in Waiters
    /\ lock \in {t, Absent}
    /\ Goto(t, "idle", "enter")
    /\ \E k \in {"infinite", "timed", "try"} : kind' = [kind EXCEPT ![t] = k]
    /\ UNCHANGED <<lock, mtxi, data, rv, n>>

Enter(t) == GetInner(t, "enter", "count")

Count(t) ==
    /\ Goto(t, "count", "admit")
    /\ waitCount' = waitCount + 1
    /\ UNCHANGED <<lock, mtxi, wakeAll, tokens, mrend, locals>>

Admit(t) == FreeInner(t, "admit", "unlock")

Unlock(t) ==
    /\ Goto(t, "unlock", "sem")
    /\ lock' = IF lock = Absent THEN Absent ELSE None
    /\ UNCHANGED <<mtxi, data, locals>>

SemTake(t) ==
    /\ Goto(t, "sem", "leave")
    /\ tokens > 0
    /\ tokens' = tokens - 1
    /\ rv' = [rv EXCEPT ![t] = TRUE]
    /\ kind' = [kind EXCEPT ![t] = "infinite"]
    /\ UNCHANGED <<lock, mtxi, waitCount, wakeAll, mrend, n>>

SemGiveUp(t) ==
    /\ Goto(t, "sem", "leave")
    /\ kind[t] = "timed" \/ (kind[t] = "try" /\ tokens = 0)
    /\ kind' = [kind EXCEPT ![t] = "infinite"]
    /\ UNCHANGED <<lock, mtxi, data, rv, n>>

\* Mutations: waits that ran out of time are not counted out, or twice.
Uncount_Woken(t) == IF rv[t] THEN waitCount - 1 ELSE waitCount
Uncount_Twice(t) == IF rv[t] THEN waitCount - 1 ELSE waitCount - 2
Uncount(t) == waitCount - 1

\* Mutation: every waiter that leaves reports to WakeAll.
ReportsEnd_Each(count) == wakeAll
\* rn = (wait_count == 0) && (wait_flags & CVFLAG_WAKE_ALL)
ReportsEnd(count) == count = 0 /\ wakeAll

Leave(t) ==
    /\ Goto(t, "leave", IF ReportsEnd(Uncount(t)) THEN "notify" ELSE "relock")
    /\ waitCount' = Uncount(t)
    /\ rv' = [rv EXCEPT ![t] = FALSE]
    /\ UNCHANGED <<lock, mtxi, wakeAll, tokens, mrend, kind, n>>

Notify(t) ==
    /\ Goto(t, "notify", "relock")
    /\ mrend' = TRUE
    /\ UNCHANGED <<lock, mtxi, waitCount, wakeAll, tokens, locals>>

Relock(t) ==
    /\ Goto(t, "relock", "idle")
    /\ lock \in {None, Absent}
    /\ lock' = IF lock = None THEN t ELSE Absent
    /\ UNCHANGED <<mtxi, data, locals>>

-----------------------------------------------------------------------------
(* WakeOne, and Free, which calls it.                                      *)

CallWakeOne(t) ==
    /\ t \in Wakers
    /\ Goto(t, "idle", "one")
    /\ UNCHANGED <<lock, mtxi, data, locals>>

WakeOneEnter(t) == GetInner(t, "one", "test")

\* if (p->wait_count), without mtxd
WakeOneTest(t) ==
    /\ Goto(t, "test", IF waitCount # 0 THEN "post" ELSE "oneFree")
    /\ UNCHANGED <<lock, mtxi, data, locals>>

WakeOnePost(t) ==
    /\ Goto(t, "post", "oneFree")
    /\ PostTokens(1)
    /\ n' = [n EXCEPT ![t] = 1]
    /\ UNCHANGED <<lock, mtxi, waitCount, wakeAll, mrend, kind, rv>>

WakeOneLeave(t) == FreeInner(t, "oneFree", "idle")

-----------------------------------------------------------------------------
(* WakeAll.                                                                *)

CallWakeAll(t) ==
    /\ t \in Wakers
    /\ Goto(t, "idle", "all")
    /\ UNCHANGED <<lock, mtxi, data, locals>>

WakeAllEnter(t) == GetInner(t, "all", "sweep")

\* Mutation: Post's default argument.
PostForAll_One == PostTokens(1)
\* p->semap.Post(n) with n = p->wait_count
PostForAll == PostTokens(waitCount)

Sweep(t) ==
    /\ n' = [n EXCEPT ![t] = waitCount]
    /\ Goto(t, "sweep", IF waitCount # 0 THEN "meet" ELSE "allFree")
    /\ IF waitCount # 0
       THEN wakeAll' = TRUE /\ PostForAll
       ELSE UNCHANGED <<wakeAll, tokens>>
    /\ UNCHANGED <<lock, mtxi, waitCount, mrend, kind, rv>>

Meet(t) ==
    /\ Goto(t, "meet", "reset")
    /\ mrend
    /\ UNCHANGED <<lock, mtxi, data, locals>>

\* Mutation: the event stays set for the next WakeAll.
MrendAfter_Kept == mrend
MrendAfter == FALSE

Reset(t) ==
    /\ Goto(t, "reset", "clear")
    /\ mrend' = MrendAfter
    /\ UNCHANGED <<lock, mtxi, waitCount, wakeAll, tokens, locals>>

\* p->wait_flags &= ~CVFLAG_WAKE_ALL, without mtxd
Clear(t) ==
    /\ Goto(t, "clear", "allFree")
    /\ wakeAll' = FALSE
    /\ UNCHANGED <<lock, mtxi, waitCount, tokens, mrend, locals>>

WakeAllLeave(t) == FreeInner(t, "allFree", "idle")

-----------------------------------------------------------------------------
\* Steps that wait for nobody who may keep them waiting for good.
Progress(t) ==
    \/ Count(t) \/ Admit(t) \/ Unlock(t) \/ SemTake(t) \/ Leave(t) \/ Notify(t)
    \/ WakeOneTest(t) \/ WakeOnePost(t) \/ WakeOneLeave(t)
    \/ Sweep(t) \/ Meet(t) \/ Reset(t) \/ Clear(t) \/ WakeAllLeave(t)

Next ==
    \E t \in Threads :
        \/ Progress(t)
        \/ Enter(t) \/ WakeOneEnter(t) \/ WakeAllEnter(t) \/ Relock(t)
        \/ CallWait(t) \/ CallWakeOne(t) \/ CallWakeAll(t)
        \/ LockGet(t) \/ LockFree(t) \/ SemGiveUp(t)

Spec == Init /\ [][Next]_vars

\* A thread that is not blocked is scheduled, and a token or a signal that stays
\* available reaches whoever waits for it (Semaphore!TokensReachWaiters,
\* Event!SignalsReachWaiters).  Nothing is assumed about who obtains mtxi or the
\* caller's lock, and nobody is obliged to call anything.
FairSpec == Spec /\ \A t \in Threads : WF_vars(Progress(t))

-----------------------------------------------------------------------------
\* wait_count is the number of threads between its increment and its decrement,
\* whichever way their waits end (condvar.cc:46, 55).
CountExact == waitCount = Cardinality(Counted)

\* WakeOne returns 0 and WakeAll lets its caller go on only when nobody is left
\* waiting: every thread that was inside Wait, with its lock already given up,
\* has been woken (condvar.cc:74, 102-109).  In particular WakeAll clears its
\* flag without mtxd (line 109) while nobody can be reading it (line 56).
NobodyLeftBehind ==
    \A t \in Threads :
        (pc[t] \in {"reset", "clear", "allFree"} \/ (pc[t] = "oneFree" /\ n[t] = 0))
            => Counted = {}

\* The rendezvous is used once: outside a WakeAll that has swept, the event and
\* the flag are clear and nobody is about to set the event, so the next WakeAll
\* does not return on the signal of this one.
RendezvousClean ==
    (\A t \in Threads : pc[t] \notin {"meet", "reset", "clear"})
        => ~mrend /\ ~wakeAll /\ \A t \in Threads : pc[t] # "notify"

\* While WakeAll waits, there is a token for every thread it has to wake, even
\* if some of the waiters come out of time and leave theirs behind.
WakeAllSupplies ==
    \A t \in Threads : pc[t] = "meet" => tokens >= Cardinality(Unserved)

\* WakeAll returns: newcomers are kept out at mtxi, so those it waits for are
\* finitely many, and the last of them sets the event.
WakeAllReturns == \A t \in Wakers : (pc[t] = "meet") ~> (pc[t] = "idle")

\* Where CountedWakeups has a thread: mutexes, flag and event are left out.
PlaceOf(p) ==
    CASE p \in {"enter", "count"} -> "called"
      [] p \in {"admit", "unlock"} -> "joined"
      [] p = "sem" -> "waiting"
      [] p = "leave" -> "answered"
      [] p \in {"notify", "relock"} -> "left"
      [] p \in {"one", "test"} -> "one"
      [] p = "post" -> "granting"
      [] p \in {"all", "sweep"} -> "all"
      [] p = "meet" -> "meeting"
      [] p \in {"oneFree", "reset", "clear", "allFree"} -> "done"
      [] OTHER -> "idle"

Promise ==
    INSTANCE CountedWakeups
    WITH wakeups <- tokens, place <- [t \in Threads |-> PlaceOf(pc[t])],
         answer <- rv, number <- n

\* A Wait returns TRUE exactly by taking one wakeup, which a waker has left for
\* somebody it found waiting; who begins to wait during a WakeAll takes none from
\* those it counts; WakeOne returns 0 only if nobody waits, and WakeAll returns
\* the number of those that wait, when all of them are gone (condvar.cc:40-114).
ImplementsCountedWakeups == Promise!Spec
=============================================================================
