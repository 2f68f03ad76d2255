---------------------------- MODULE SyncObjects -----------------------------
(* The synchronisation objects of the library as their users see them: how an *)
(* object is constructed, when a thread may take it, what taking and freeing  *)
(* do to it.  An object of this module changes in one step; that the library's *)
(* event and semaphore, built of a mutex and a condition variable, behave so   *)
(* is what the runs of Event (against SignalState) and Semaphore (against      *)
(* CountingSemaphore) show.                                                    *)
EXTENDS Integers, Sequences

MAXIMUM_COUNT == 2109876543     \* Semaphore::MAXIMUM_COUNT
INT32_MAX == 2147483647
INT32_MIN == -INT32_MAX - 1     \* the tests write 0x80000000

(* n: tokens left, depth of a recursive lock, or waiters of a condition        *)
(* variable; cur: the field `current`, which the Windows semaphore keeps next  *)
(* to the kernel object; owner: who holds a recursive lock, or the condition   *)
(* variable's mtxi during a WakeAll; all: CVFLAG_WAKE_ALL.                     *)
Object(type, n, max) ==
    [type |-> type, n |-> n, max |-> max, cur |-> n, owner |-> 0, all |-> FALSE]

SinglenterLock == Object("singlenter", 1, 1)
RecursiveLock == Object("recursive", 0, 0)
SpinLock == Object("spinning", 1, 1)

Semaphore(i_set, i_max) ==
    IF /\ i_set \in 0 .. i_max
       /\ i_max > 0
       /\ i_max <= MAXIMUM_COUNT
    THEN Object("semaphore", i_set, i_max)
    ELSE Object("invalid", 0, 0)

Event(type, init) == Object(type, IF init THEN 1 ELSE 0, 1)
AutoResetEvent(init) == Event("auto", init)
ManualResetEvent(init) == Event("manual", init)

(* A condition variable and the objects CONDITION_VARIABLE_DATA holds.         *)
ConditionVariable ==
    <<Object("condvar", 0, 0), Semaphore(0, MAXIMUM_COUNT), ManualResetEvent(FALSE)>>

(* May thread i take o now?  The owner of a recursive lock always may.         *)
CanTake(o, i) == IF o.type = "recursive" THEN o.owner \in {0, i} ELSE o.n > 0

Taken(o, i) ==
    CASE o.type = "recursive" -> [o EXCEPT !.n = @ + 1, !.owner = i]
      [] o.type = "manual" -> o
      [] OTHER -> [o EXCEPT !.n = @ - 1]

(* Free of a lock, Set of an event.                                            *)
Freed_Adds(o) == [o EXCEPT !.n = @ + 1]
Freed(o) ==
    IF o.type = "recursive"
    THEN [o EXCEPT !.n = @ - 1, !.owner = IF o.n = 1 THEN 0 ELSE @]
    ELSE [o EXCEPT !.n = 1]

(* The deadlines of the timed waits are on the monotonic clock: the flag the   *)
(* constructors of the three classes set when the condition variable takes it. *)
TickClock_Never(type) == FALSE
TickClock(type) == type \in {"semaphore", "auto", "manual", "thread"}

(* Post: all i_num tokens or none.                                             *)
Fits(o, i_num) == i_num > 0 /\ o.n + i_num <= o.max

(* SetMax takes any legal maximum, one below the current count included.       *)
LegalMaximum(i_max) == i_max \in 1 .. MAXIMUM_COUNT
=============================================================================
