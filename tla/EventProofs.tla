----------------------------- MODULE EventProofs -----------------------------
(***************************************************************************)
(* What Event.tla guarantees for any set of threads: its data is well      *)
(* typed, no waiter is forgotten, and it implements SignalState.tla.       *)
(***************************************************************************)
EXTENDS Event, TLAPS

USE PlatformAssumption

\* Every step keeps the calls where their kind can put them: in particular only a
\* wait with a limit expires, and only a blocking one sleeps.
LEMMA NextTypeOK ==
    ASSUME TypeOK, [Next]_vars
    PROVE  TypeOK'
  <1> USE DEF TypeOK, Waits, Blocking
  <1>1. CASE UNCHANGED vars
    BY <1>1 DEF vars
  <1>2. ASSUME NEW t \in Threads, Call(t) PROVE TypeOK'
    BY <1>2 DEF Call
  <1>3. ASSUME NEW t \in Threads, Succeed(t) PROVE TypeOK'
    BY <1>3 DEF Succeed, Return, AfterSuccess
  <1>4. ASSUME NEW t \in Threads, Fail(t) \/ WaitError(t) PROVE TypeOK'
    BY <1>4 DEF Fail, WaitError, Return
  <1>5. ASSUME NEW t \in Threads, Sleep(t) PROVE TypeOK'
    BY <1>5 DEF Sleep
  <1>6. ASSUME NEW t \in Threads, SpuriousWakeup(t) PROVE TypeOK'
    BY <1>6 DEF SpuriousWakeup
  <1>7. ASSUME NEW t \in Threads, Timeout(t) PROVE TypeOK'
    BY <1>7 DEF Timeout, HasDeadline
  <1>8. ASSUME NEW t \in Threads, Set(t) PROVE TypeOK'
    <2>1. PICK roused \in SUBSET Sleepers :
            pc' = [u \in Threads |->
                     IF u = t THEN "idle" ELSE IF u \in roused THEN "woken" ELSE pc[u]]
      BY <1>8 DEF Set, Rousable
    <2> QED
      BY <1>8, <2>1 DEF Set, Sleepers
  <1>9. ASSUME NEW t \in Threads, Reset(t) PROVE TypeOK'
    BY <1>9 DEF Reset, Return
  <1> QED
    BY <1>1, <1>2, <1>3, <1>4, <1>5, <1>6, <1>7, <1>8, <1>9 DEF Next, Step

\* The event's state and every thread's place in its call stay legal, for any
\* number of threads (event.cc:101-196).
THEOREM TypeCorrect == Spec => []TypeOK
  <1>1. Init => TypeOK
    BY DEF Init, TypeOK, Waits, Blocking
  <1>2. TypeOK /\ [Next]_vars => TypeOK'
    BY NextTypeOK
  <1> QED
    BY <1>1, <1>2, PTL DEF Spec

-----------------------------------------------------------------------------
(* No waiter is forgotten.  With the typing the property is inductive: a   *)
(* thread falls asleep only on an event that is not set; Set wakes one     *)
(* sleeper of an auto-reset event and all of a manual-reset one; and a     *)
(* thread leaves Returning either through a wait that resets the           *)
(* auto-reset event or because it found it reset.                          *)

\* A step that leaves the event unset has nothing to show.
LEMMA UnsetForgetsNobody == ASSUME ~state' PROVE NoWaiterForgotten'
  BY DEF NoWaiterForgotten

\* Every step keeps the promise: what sets the event also moves the sleepers it
\* concerns, and what puts a thread to sleep has found the event unset.
LEMMA NextNoWaiterForgotten ==
    ASSUME TypeOK, NoWaiterForgotten, [Next]_vars
    PROVE  NoWaiterForgotten'
  <1> USE DEF NoWaiterForgotten, Sleepers, Returning, TypeOK
  <1>1. CASE UNCHANGED vars
    BY <1>1 DEF vars
  <1>2. ASSUME NEW t \in Threads, Call(t) PROVE NoWaiterForgotten'
    BY <1>2 DEF Call
  <1>3. ASSUME NEW t \in Threads, Succeed(t) PROVE NoWaiterForgotten'
    <2>1. state /\ state' = manual /\ manual' = manual
      BY <1>3 DEF Succeed, Return, StatOk, AfterSuccess
    <2>2. Sleepers' = Sleepers
      BY <1>3 DEF Succeed, Return
    <2> QED
      BY <2>1, <2>2
  <1>4. ASSUME NEW t \in Threads, Fail(t) PROVE NoWaiterForgotten'
    <2>1. CASE ~state
      BY <1>4, <2>1, UnsetForgetsNobody DEF Fail
    <2>2. CASE pc[t] = "lock"
      BY <1>4, <2>2 DEF Fail, Return
    <2> QED
      BY <1>4, <2>1, <2>2 DEF Fail, StatOk
  <1>5. ASSUME NEW t \in Threads, Sleep(t) \/ WaitError(t) PROVE NoWaiterForgotten'
    BY <1>5, UnsetForgetsNobody DEF Sleep, WaitError, StatOk
  <1>6. ASSUME NEW t \in Threads, SpuriousWakeup(t) \/ Timeout(t)
        PROVE  NoWaiterForgotten'
    <2>1. UNCHANGED <<state, manual>> /\ Sleepers' \subseteq Sleepers
      BY <1>6 DEF SpuriousWakeup, Timeout
    <2>2. Returning \subseteq Returning'
      BY <1>6 DEF SpuriousWakeup, Timeout
    <2> QED
      BY <2>1, <2>2
  <1>7. ASSUME NEW t \in Threads, Set(t) PROVE NoWaiterForgotten'
    <2>1. PICK roused \in Rousable :
            pc' = [u \in Threads |->
                     IF u = t THEN "idle" ELSE IF u \in roused THEN "woken" ELSE pc[u]]
      BY <1>7 DEF Set
    <2>2. pc[t] = "lock" /\ manual' = manual
      BY <1>7 DEF Set
    <2>3. roused \subseteq Sleepers
      BY <2>1 DEF Rousable
    <2>4. Sleepers' = Sleepers \ roused /\ roused \subseteq Returning'
      BY <2>1, <2>2, <2>3
    <2>5. CASE manual \/ Sleepers = {}
      BY <2>1, <2>4, <2>5 DEF Rousable
    <2>6. CASE ~manual /\ Sleepers # {}
      BY <2>1, <2>2, <2>4, <2>6 DEF Rousable
    <2> QED
      BY <2>5, <2>6
  <1>8. ASSUME NEW t \in Threads, Reset(t) PROVE NoWaiterForgotten'
    BY <1>8, UnsetForgetsNobody DEF Reset
  <1> QED
    BY <1>1, <1>2, <1>3, <1>4, <1>5, <1>6, <1>7, <1>8 DEF Next, Step

\* However many threads wait, time out and wake spuriously: nobody sleeps on a set
\* manual-reset event, and beside a sleeper on a set auto-reset event some thread
\* is on its way to the state (event.cc:106-112, 180-192).
THEOREM NoWaiterIsForgotten == Spec => []NoWaiterForgotten
  <1>1. Init => TypeOK /\ NoWaiterForgotten
    BY DEF Init, TypeOK, Waits, Blocking, NoWaiterForgotten, Sleepers
  <1>2. TypeOK /\ NoWaiterForgotten /\ [Next]_vars => TypeOK' /\ NoWaiterForgotten'
    BY NextTypeOK, NextNoWaiterForgotten
  <1> QED
    BY <1>1, <1>2, PTL DEF Spec

-----------------------------------------------------------------------------
(* The refinement.  Falling asleep, waking and expiring are stutters of    *)
(* SignalState; every other step is the action with the same meaning.      *)

\* Every step of Event is one of SignalState or stutters.
LEMMA NextImplements ==
    ASSUME TypeOK, [Next]_vars
    PROVE  [Promise!Next]_(Promise!vars)
  <1> USE DEF TypeOK
  <1>1. CASE UNCHANGED vars
    BY <1>1 DEF vars, Promise!vars
  <1>2. ASSUME NEW t \in Threads, Call(t) PROVE Promise!Invoke(t)
    BY <1>2 DEF Call, Promise!Invoke, Waits, Blocking
  <1>3. ASSUME NEW t \in Threads, Succeed(t) PROVE Promise!Released(t)
    BY <1>3 DEF Succeed, Return, StatOk, AfterSuccess, Blocking, Promise!Released,
                Promise!Finish
  <1>4. ASSUME NEW t \in Threads, Fail(t) PROVE Promise!GiveUp(t)
    BY <1>4 DEF Fail, Return, StatOk, Promise!GiveUp, Promise!Finish
  <1>5. ASSUME NEW t \in Threads, WaitError(t) PROVE Promise!GiveUp(t)
    BY <1>5 DEF WaitError, Return, StatOk, Blocking, Promise!GiveUp, Promise!Finish
  <1>6. ASSUME NEW t \in Threads, Sleep(t) \/ SpuriousWakeup(t) \/ Timeout(t)
        PROVE  UNCHANGED Promise!vars
    BY <1>6 DEF Sleep, SpuriousWakeup, Timeout, Promise!vars
  <1>7. ASSUME NEW t \in Threads, Set(t) PROVE Promise!Set(t)
    BY <1>7 DEF Set, Promise!Set, Promise!Finish
  <1>8. ASSUME NEW t \in Threads, Reset(t) PROVE Promise!Reset(t)
    BY <1>8 DEF Reset, Return, Promise!Reset, Promise!Finish
  <1> QED
    BY <1>1, <1>2, <1>3, <1>4, <1>5, <1>6, <1>7, <1>8 DEF Next, Step, Promise!Next

\* The event with its mutex, its condition variable and its clock implements the
\* signal of SignalState for every set of threads: one Set of an auto-reset event
\* releases one wait, and no wait with a clock fails on a set event.
THEOREM ImplementsPromise == Spec => ImplementsSignalState
  <1>1. Init => Promise!Init
    BY DEF Init, Promise!Init
  <1>2. TypeOK /\ [Next]_vars => [Promise!Next]_(Promise!vars)
    BY NextImplements
  <1> QED
    BY <1>1, <1>2, TypeCorrect, PTL DEF Spec, ImplementsSignalState, Promise!Spec
=============================================================================
