---------------------------- MODULE CondVarProofs ----------------------------
(***************************************************************************)
(* What CondVar.tla guarantees for any number of waiters and wakers.  The  *)
(* inductive invariant says, besides the typing, who holds mtxi, in which  *)
(* phase of WakeAll the flag and the event are set, and that a waker which *)
(* holds mtxi keeps newcomers out of the count.                            *)
(***************************************************************************)
EXTENDS CondVar, FiniteSetTheorems, TLAPS

\* The places a thread can be at only while it owns mtxi.
Inside == {"count", "admit", "test", "post", "oneFree",
           "sweep", "meet", "reset", "clear", "allFree"}

OwnsInner == \A t \in Threads : pc[t] \in Inside => mtxi = t

\* The flag is set while a WakeAll that has swept is on its way to clear it.
FlagInPhase == wakeAll <=> \E t \in Threads : pc[t] \in {"meet", "reset", "clear"}

\* The event is set only for a WakeAll that has not reset it yet.
EventInPhase ==
    /\ mrend => \E t \in Threads : pc[t] \in {"meet", "reset"}
    /\ \A t \in Threads : pc[t] = "reset" => mrend

\* It is about to be set by the last waiter, and by nobody else.
NotifyOnce ==
    /\ \A t, u \in Threads : pc[t] = "notify" /\ pc[u] = "notify" => t = u
    /\ \A t \in Threads :
          pc[t] = "notify" => ~mrend /\ \E u \in Threads : pc[u] = "meet"

\* The last waiter has left when the event is set or about to be.
LastHasLeft == mrend \/ (\E t \in Threads : pc[t] = "notify") => Counted = {}

IInv ==
    /\ TypeOK
    /\ OwnsInner
    /\ CountExact
    /\ FlagInPhase
    /\ EventInPhase
    /\ NotifyOnce
    /\ LastHasLeft
    /\ NobodyLeftBehind
    /\ WakeAllSupplies

-----------------------------------------------------------------------------
(* Counting.                                                               *)

\* Sets of threads are finite and no larger than the set of all threads.
LEMMA SizesAreBounded ==
    ASSUME NEW S \in SUBSET Threads
    PROVE  /\ IsFiniteSet(S)
           /\ Cardinality(S) \in Nat
           /\ Cardinality(Threads) \in Nat
           /\ Cardinality(S) <= Cardinality(Threads)
           /\ Cardinality(S) = 0 <=> S = {}
  BY ThreadsAssumption, FS_Subset, FS_CardinalityType, FS_EmptySet

\* A waiter that counts itself joins both sets.
LEMMA CountMoves ==
    ASSUME TypeOK, NEW t \in Threads, Count(t)
    PROVE  /\ Counted' = Counted \cup {t} /\ Unserved' = Unserved \cup {t}
           /\ Cardinality(Counted') = Cardinality(Counted) + 1
  <1>1. /\ Counted' = Counted \cup {t} /\ t \notin Counted
        /\ Unserved' = Unserved \cup {t}
    BY DEF Count, Goto, Counted, Unserved, TypeOK
  <1>2. IsFiniteSet(Counted)
    BY SizesAreBounded DEF Counted
  <1> QED
    BY <1>1, <1>2, FS_AddElement

\* One that has its answer from the semaphore leaves the first.
LEMMA LeaveMoves ==
    ASSUME TypeOK, NEW t \in Threads, Leave(t)
    PROVE  /\ t \in Counted /\ Counted' = Counted \ {t} /\ Unserved' = Unserved
           /\ Cardinality(Counted') = Cardinality(Counted) - 1
  <1>1. /\ Counted' = Counted \ {t} /\ t \in Counted /\ Unserved' = Unserved
    BY DEF Leave, Goto, Counted, Unserved, TypeOK
  <1>2. IsFiniteSet(Counted)
    BY SizesAreBounded DEF Counted
  <1> QED
    BY <1>1, <1>2, FS_RemoveElement

\* Getting that answer leaves the second.
LEMMA ServedMoves ==
    ASSUME TypeOK, NEW t \in Threads, SemTake(t) \/ SemGiveUp(t)
    PROVE  /\ Counted' = Counted
           /\ Cardinality(Unserved') = Cardinality(Unserved) - 1
  <1>1. Counted' = Counted /\ Unserved' = Unserved \ {t} /\ t \in Unserved
    BY DEF SemTake, SemGiveUp, Goto, Counted, Unserved, TypeOK
  <1>2. IsFiniteSet(Unserved)
    BY SizesAreBounded DEF Unserved
  <1> QED
    BY <1>1, <1>2, FS_RemoveElement

\* All other steps keep to one side.
LEMMA OthersMove ==
    ASSUME TypeOK, NEW t \in Threads, NEW from, NEW to, Goto(t, from, to),
           to \notin {"admit", "leave"}, from \notin {"sem", "leave"},
           from \in {"admit", "unlock"} <=> to \in {"unlock", "sem"}
    PROVE  Counted' = Counted /\ Unserved' = Unserved
  BY DEF Goto, Counted, Unserved, TypeOK

\* Post leaves at least one token for each of those it was told of.
LEMMA EnoughTokens ==
    ASSUME TypeOK, CountExact, PostTokens(waitCount)
    PROVE  tokens' \in 0..SemMax /\ tokens' >= Cardinality(Unserved)
  <1>1. Unserved \subseteq Counted /\ Counted \in SUBSET Threads
    BY DEF Unserved, Counted
  <1>2. /\ Cardinality(Unserved) <= Cardinality(Counted)
        /\ Cardinality(Counted) <= Cardinality(Threads)
        /\ Cardinality(Unserved) \in Nat /\ Cardinality(Threads) \in Nat
    BY <1>1, SizesAreBounded, FS_Subset
  <1> QED
    BY <1>2, SemMaxAssumption DEF PostTokens, TypeOK, CountExact

-----------------------------------------------------------------------------
(* The invariant is inductive.                                             *)

\* It holds when nobody has called yet.
LEMMA InitIInv == Init => IInv
  <1> SUFFICES ASSUME Init PROVE IInv
    OBVIOUS
  <1>1. Counted = {} /\ Cardinality(Counted) = 0 /\ Cardinality(Threads) \in Nat
    BY SizesAreBounded DEF Init, Counted
  <1>2. TypeOK
    <2>1. 0 \in 0..SemMax /\ 0 \in 0..Cardinality(Threads)
      BY <1>1, SemMaxAssumption
    <2>2. /\ lock \in Threads \cup {None, Absent}
          /\ pc \in [Threads -> {"idle"} \cup WaitPlaces \cup WakeOnePlaces
                                \cup WakeAllPlaces]
          /\ kind \in [Threads -> {"infinite", "timed", "try"}]
          /\ rv \in [Threads -> BOOLEAN]
          /\ n \in [Threads -> 0..Cardinality(Threads)]
      BY <2>1 DEF Init
    <2> QED
      BY <2>1, <2>2 DEF Init, TypeOK
  <1>3. OwnsInner /\ FlagInPhase /\ EventInPhase /\ NotifyOnce /\ WakeAllSupplies
    BY DEF Init, OwnsInner, FlagInPhase, EventInPhase, NotifyOnce, WakeAllSupplies, Inside
  <1>4. CountExact /\ LastHasLeft /\ NobodyLeftBehind
    BY <1>1 DEF Init, CountExact, LastHasLeft, NobodyLeftBehind
  <1> QED
    BY <1>2, <1>3, <1>4 DEF IInv

\* Everything but the counts: the phases of the rendezvous.
Phases ==
    /\ OwnsInner
    /\ FlagInPhase
    /\ EventInPhase
    /\ NotifyOnce
    /\ LastHasLeft
    /\ NobodyLeftBehind

\* The step concerns one thread.
LEMMA GotoMoves ==
    ASSUME TypeOK, NEW t \in Threads, NEW from, NEW to, Goto(t, from, to)
    PROVE  pc[t] = from /\ pc'[t] = to /\ \A u \in Threads \ {t} : pc'[u] = pc[u]
  BY DEF Goto, TypeOK

\* A step outside the rendezvous, by which nobody obtains or gives up mtxi.
LEMMA AsideKeepsPhases ==
    ASSUME TypeOK, Phases, NEW t \in Threads, NEW from, NEW to, Goto(t, from, to),
           from \notin Inside \cup {"notify"}, to \notin Inside \cup {"notify"},
           Counted' = Counted, UNCHANGED <<mtxi, wakeAll, mrend, n>>
    PROVE  Phases'
  <1>1. pc'[t] = to /\ pc[t] = from /\ \A u \in Threads \ {t} : pc'[u] = pc[u]
    BY GotoMoves
  <1>2. OwnsInner'
    BY <1>1 DEF Phases, OwnsInner
  <1>3. FlagInPhase'
    BY <1>1 DEF Phases, FlagInPhase, Inside
  <1>4. EventInPhase'
    BY <1>1 DEF Phases, EventInPhase, Inside
  <1>5. NotifyOnce'
    BY <1>1 DEF Phases, NotifyOnce, Inside
  <1>6. LastHasLeft'
    BY <1>1 DEF Phases, LastHasLeft
  <1>7. NobodyLeftBehind'
    BY <1>1 DEF Phases, NobodyLeftBehind, Inside
  <1> QED
    BY <1>2, <1>3, <1>4, <1>5, <1>6, <1>7 DEF Phases

\* A thread obtains mtxi: none of the places that need it is taken.
LEMMA GetInnerKeepsPhases ==
    ASSUME TypeOK, Phases, NEW t \in Threads, NEW from, NEW to, GetInner(t, from, to),
           from \in {"enter", "one", "all"}, to \in {"count", "test", "sweep"}
    PROVE  Phases'
  <1>1. /\ pc'[t] = to /\ pc[t] = from /\ \A u \in Threads \ {t} : pc'[u] = pc[u]
        /\ Counted' = Counted
    BY GotoMoves, OthersMove DEF GetInner
  <1>2. mtxi = None /\ mtxi' = t /\ UNCHANGED <<wakeAll, mrend, n>>
    BY DEF GetInner, Enterable, data, locals
  <1>3. \A u \in Threads : pc[u] \notin Inside
    BY <1>2, ThreadsAssumption DEF Phases, OwnsInner
  <1>4. OwnsInner'
    BY <1>1, <1>2, <1>3 DEF OwnsInner
  <1>5. FlagInPhase' /\ EventInPhase' /\ NotifyOnce'
    BY <1>1, <1>2, <1>3 DEF Phases, FlagInPhase, EventInPhase, NotifyOnce, Inside
  <1>6. LastHasLeft' /\ NobodyLeftBehind'
    BY <1>1, <1>2, <1>3 DEF Phases, LastHasLeft, NobodyLeftBehind, Inside
  <1> QED
    BY <1>4, <1>5, <1>6 DEF Phases

\* A thread gives mtxi up: the others are at none of those places.
LEMMA FreeInnerKeepsPhases ==
    ASSUME TypeOK, Phases, NEW t \in Threads, NEW from, NEW to, FreeInner(t, from, to),
           from \in {"admit", "oneFree", "allFree"}, to \in {"unlock", "idle"},
           Counted' = Counted
    PROVE  Phases'
  <1>1. pc'[t] = to /\ pc[t] = from /\ \A u \in Threads \ {t} : pc'[u] = pc[u]
    BY GotoMoves DEF FreeInner
  <1>2. UNCHANGED <<wakeAll, mrend>>
    BY DEF FreeInner, data
  <1>3. \A u \in Threads \ {t} : pc[u] \notin Inside
    BY <1>1 DEF Phases, OwnsInner, Inside
  <1>4. OwnsInner'
    BY <1>1, <1>3 DEF OwnsInner, Inside
  <1>5. FlagInPhase' /\ EventInPhase' /\ NotifyOnce'
    BY <1>1, <1>2, <1>3 DEF Phases, FlagInPhase, EventInPhase, NotifyOnce, Inside
  <1>6. LastHasLeft' /\ NobodyLeftBehind'
    BY <1>1, <1>2, <1>3 DEF Phases, LastHasLeft, NobodyLeftBehind, Inside
  <1> QED
    BY <1>4, <1>5, <1>6 DEF Phases

\* Every step keeps the phases.
LEMMA NextPhases ==
    ASSUME TypeOK, CountExact, Phases, [Next]_vars
    PROVE  Phases'
  <1>1. CASE UNCHANGED vars
    BY <1>1 DEF vars, data, locals, Counted, Phases, OwnsInner, FlagInPhase, EventInPhase, NotifyOnce, LastHasLeft, NobodyLeftBehind, Inside
  <1>2. ASSUME NEW t \in Threads, LockGet(t) \/ LockFree(t) PROVE Phases'
    BY <1>2 DEF LockGet, LockFree, data, locals, Counted, Phases,
                OwnsInner, FlagInPhase, EventInPhase, NotifyOnce, LastHasLeft, NobodyLeftBehind, Inside
  <1>3. ASSUME NEW t \in Threads,
               CallWait(t) \/ CallWakeOne(t) \/ CallWakeAll(t) \/ Relock(t) \/ Unlock(t)
        PROVE  Phases'
    <2>1. PICK from \in {"idle", "relock", "unlock"},
              to \in {"enter", "one", "all", "idle", "sem"} :
            /\ Goto(t, from, to)
            /\ from = "unlock" <=> to = "sem"
            /\ UNCHANGED <<mtxi, wakeAll, mrend, n>>
      BY <1>3 DEF CallWait, CallWakeOne, CallWakeAll, Relock, Unlock, data, locals
    <2>2. Counted' = Counted
      BY <2>1, OthersMove
    <2> QED
      BY <2>1, <2>2, AsideKeepsPhases DEF Inside
  <1>4. ASSUME NEW t \in Threads, SemTake(t) \/ SemGiveUp(t) PROVE Phases'
    <2>1. Goto(t, "sem", "leave") /\ UNCHANGED <<mtxi, wakeAll, mrend, n>>
      BY <1>4 DEF SemTake, SemGiveUp, data
    <2> QED
      BY <1>4, <2>1, ServedMoves, AsideKeepsPhases DEF Inside
  <1>5. ASSUME NEW t \in Threads, Enter(t) \/ WakeOneEnter(t) \/ WakeAllEnter(t)
        PROVE  Phases'
    BY <1>5, GetInnerKeepsPhases DEF Enter, WakeOneEnter, WakeAllEnter
  <1>6. ASSUME NEW t \in Threads, Admit(t) \/ WakeOneLeave(t) \/ WakeAllLeave(t)
        PROVE  Phases'
    <2>1. PICK from \in {"admit", "oneFree", "allFree"}, to \in {"unlock", "idle"} :
            FreeInner(t, from, to) /\ (from = "admit" <=> to = "unlock")
      BY <1>6 DEF Admit, WakeOneLeave, WakeAllLeave
    <2>2. Counted' = Counted
      BY <2>1, OthersMove DEF FreeInner
    <2> QED
      BY <2>1, <2>2, FreeInnerKeepsPhases
  <1>7. ASSUME NEW t \in Threads, Count(t) PROVE Phases'
    <2>1. /\ pc[t] = "count" /\ pc'[t] = "admit"
          /\ \A u \in Threads \ {t} : pc'[u] = pc[u]
      BY <1>7, GotoMoves DEF Count
    <2>2. UNCHANGED <<mtxi, wakeAll, mrend, n>>
      BY <1>7 DEF Count, locals
    <2>3. \A u \in Threads \ {t} : pc[u] \notin Inside
      BY <2>1 DEF Phases, OwnsInner, Inside
    <2>4. OwnsInner' /\ FlagInPhase'
      BY <2>1, <2>2, <2>3 DEF Phases, OwnsInner, FlagInPhase, EventInPhase, Inside
    <2>5. EventInPhase' /\ NotifyOnce'
      BY <2>1, <2>2, <2>3 DEF Phases, FlagInPhase, EventInPhase, NotifyOnce, Inside
    <2>6. LastHasLeft' /\ NobodyLeftBehind'
      BY <2>1, <2>2, <2>3 DEF Phases, LastHasLeft, EventInPhase, NotifyOnce,
         NobodyLeftBehind, Inside
    <2> QED
      BY <2>4, <2>5, <2>6 DEF Phases
  <1>8. ASSUME NEW t \in Threads, WakeOneTest(t) PROVE Phases'
    <2>1. /\ pc[t] = "test" /\ pc'[t] = IF waitCount # 0 THEN "post" ELSE "oneFree"
          /\ \A u \in Threads \ {t} : pc'[u] = pc[u]
      BY <1>8, GotoMoves DEF WakeOneTest
    <2>2. UNCHANGED <<mtxi, wakeAll, mrend, n>>
      BY <1>8 DEF WakeOneTest, data, locals
    <2>3. \A u \in Threads \ {t} : pc[u] \notin Inside
      BY <2>1 DEF Phases, OwnsInner, Inside
    <2>4. Counted' = Counted
      BY <1>8, OthersMove DEF WakeOneTest
    <2>5. waitCount = 0 => Counted = {}
      BY SizesAreBounded DEF CountExact, Counted
    <2>6. OwnsInner' /\ FlagInPhase'
      BY <2>1, <2>2, <2>3, <2>4, <2>5 DEF Phases, OwnsInner, FlagInPhase, EventInPhase, Inside
    <2>7. EventInPhase' /\ NotifyOnce'
      BY <2>1, <2>2, <2>3, <2>4, <2>5 DEF Phases, FlagInPhase, EventInPhase, NotifyOnce, Inside
    <2>8. LastHasLeft' /\ NobodyLeftBehind'
      BY <2>1, <2>2, <2>3, <2>4, <2>5 DEF Phases, LastHasLeft, EventInPhase, NotifyOnce,
         NobodyLeftBehind, Inside
    <2> QED
      BY <2>6, <2>7, <2>8 DEF Phases
  <1>9. ASSUME NEW t \in Threads, WakeOnePost(t) PROVE Phases'
    <2>1. /\ pc[t] = "post" /\ pc'[t] = "oneFree"
          /\ \A u \in Threads \ {t} : pc'[u] = pc[u]
      BY <1>9, GotoMoves DEF WakeOnePost
    <2>2. UNCHANGED <<mtxi, wakeAll, mrend>> /\ n'[t] = 1
      BY <1>9 DEF WakeOnePost, TypeOK
    <2>3. \A u \in Threads \ {t} : pc[u] \notin Inside
      BY <2>1 DEF Phases, OwnsInner, Inside
    <2>4. Counted' = Counted
      BY <1>9, OthersMove DEF WakeOnePost
    <2>5. OwnsInner' /\ FlagInPhase'
      BY <2>1, <2>2, <2>3, <2>4 DEF Phases, OwnsInner, FlagInPhase, EventInPhase, Inside
    <2>6. EventInPhase' /\ NotifyOnce'
      BY <2>1, <2>2, <2>3, <2>4 DEF Phases, FlagInPhase, EventInPhase, NotifyOnce, Inside
    <2>7. LastHasLeft' /\ NobodyLeftBehind'
      BY <2>1, <2>2, <2>3, <2>4 DEF Phases, LastHasLeft, EventInPhase, NotifyOnce,
         NobodyLeftBehind, Inside
    <2> QED
      BY <2>5, <2>6, <2>7 DEF Phases
  <1>10. ASSUME NEW t \in Threads, Sweep(t) PROVE Phases'
    <2>1. /\ pc[t] = "sweep" /\ pc'[t] = IF waitCount # 0 THEN "meet" ELSE "allFree"
          /\ \A u \in Threads \ {t} : pc'[u] = pc[u]
      BY <1>10, GotoMoves DEF Sweep
    <2>2. /\ UNCHANGED <<mtxi, mrend>>
          /\ waitCount # 0 => wakeAll'
          /\ waitCount = 0 => wakeAll' = wakeAll
      BY <1>10 DEF Sweep
    <2>3. \A u \in Threads \ {t} : pc[u] \notin Inside
      BY <2>1 DEF Phases, OwnsInner, Inside
    <2>4. Counted' = Counted
      BY <1>10, OthersMove DEF Sweep
    <2>5. waitCount = 0 => Counted = {}
      BY SizesAreBounded DEF CountExact, Counted
    <2>6. OwnsInner' /\ FlagInPhase'
      BY <2>1, <2>2, <2>3, <2>4, <2>5 DEF Phases, OwnsInner, FlagInPhase, EventInPhase, Inside
    <2>7. EventInPhase' /\ NotifyOnce'
      BY <2>1, <2>2, <2>3, <2>4, <2>5 DEF Phases, FlagInPhase, EventInPhase, NotifyOnce, Inside
    <2>8. LastHasLeft' /\ NobodyLeftBehind'
      BY <2>1, <2>2, <2>3, <2>4, <2>5 DEF Phases, LastHasLeft, EventInPhase, NotifyOnce,
         NobodyLeftBehind, Inside
    <2> QED
      BY <2>6, <2>7, <2>8 DEF Phases
  <1>11. ASSUME NEW t \in Threads, Meet(t) PROVE Phases'
    <2>1. /\ pc[t] = "meet" /\ pc'[t] = "reset"
          /\ \A u \in Threads \ {t} : pc'[u] = pc[u]
      BY <1>11, GotoMoves DEF Meet
    <2>2. mrend /\ UNCHANGED <<mtxi, wakeAll, mrend, n>>
      BY <1>11 DEF Meet, data, locals
    <2>3. \A u \in Threads \ {t} : pc[u] \notin Inside
      BY <2>1 DEF Phases, OwnsInner, Inside
    <2>4. Counted' = Counted
      BY <1>11, OthersMove DEF Meet
    <2>5. OwnsInner' /\ FlagInPhase'
      BY <2>1, <2>2, <2>3, <2>4 DEF Phases, OwnsInner, FlagInPhase, EventInPhase, Inside
    <2>6. EventInPhase' /\ NotifyOnce'
      BY <2>1, <2>2, <2>3, <2>4 DEF Phases, FlagInPhase, EventInPhase, NotifyOnce, Inside
    <2>7. LastHasLeft' /\ NobodyLeftBehind'
      BY <2>1, <2>2, <2>3, <2>4 DEF Phases, LastHasLeft, EventInPhase, NotifyOnce,
         NobodyLeftBehind, Inside
    <2> QED
      BY <2>5, <2>6, <2>7 DEF Phases
  <1>12. ASSUME NEW t \in Threads, Reset(t) PROVE Phases'
    <2>1. /\ pc[t] = "reset" /\ pc'[t] = "clear"
          /\ \A u \in Threads \ {t} : pc'[u] = pc[u]
      BY <1>12, GotoMoves DEF Reset
    <2>2. ~mrend' /\ UNCHANGED <<mtxi, wakeAll, n>>
      BY <1>12 DEF Reset, MrendAfter, locals
    <2>3. \A u \in Threads \ {t} : pc[u] \notin Inside
      BY <2>1 DEF Phases, OwnsInner, Inside
    <2>4. Counted' = Counted
      BY <1>12, OthersMove DEF Reset
    <2>5. OwnsInner' /\ FlagInPhase'
      BY <2>1, <2>2, <2>3, <2>4 DEF Phases, OwnsInner, FlagInPhase, EventInPhase, Inside
    <2>6. EventInPhase' /\ NotifyOnce'
      BY <2>1, <2>2, <2>3, <2>4 DEF Phases, FlagInPhase, EventInPhase, NotifyOnce, Inside
    <2>7. LastHasLeft' /\ NobodyLeftBehind'
      BY <2>1, <2>2, <2>3, <2>4 DEF Phases, LastHasLeft, EventInPhase, NotifyOnce,
         NobodyLeftBehind, Inside
    <2> QED
      BY <2>5, <2>6, <2>7 DEF Phases
  <1>13. ASSUME NEW t \in Threads, Clear(t) PROVE Phases'
    <2>1. /\ pc[t] = "clear" /\ pc'[t] = "allFree"
          /\ \A u \in Threads \ {t} : pc'[u] = pc[u]
      BY <1>13, GotoMoves DEF Clear
    <2>2. ~wakeAll' /\ UNCHANGED <<mtxi, mrend, n>>
      BY <1>13 DEF Clear, locals
    <2>3. \A u \in Threads \ {t} : pc[u] \notin Inside
      BY <2>1 DEF Phases, OwnsInner, Inside
    <2>4. Counted' = Counted
      BY <1>13, OthersMove DEF Clear
    <2>5. OwnsInner' /\ FlagInPhase'
      BY <2>1, <2>2, <2>3, <2>4 DEF Phases, OwnsInner, FlagInPhase, EventInPhase, Inside
    <2>6. EventInPhase' /\ NotifyOnce'
      BY <2>1, <2>2, <2>3, <2>4 DEF Phases, FlagInPhase, EventInPhase, NotifyOnce, Inside
    <2>7. LastHasLeft' /\ NobodyLeftBehind'
      BY <2>1, <2>2, <2>3, <2>4 DEF Phases, LastHasLeft, EventInPhase, NotifyOnce,
         NobodyLeftBehind, Inside
    <2> QED
      BY <2>5, <2>6, <2>7 DEF Phases
  <1>14. ASSUME NEW t \in Threads, Notify(t) PROVE Phases'
    <2>1. /\ pc[t] = "notify" /\ pc'[t] = "relock"
          /\ \A u \in Threads \ {t} : pc'[u] = pc[u]
      BY <1>14, GotoMoves DEF Notify
    <2>2. mrend' /\ UNCHANGED <<mtxi, wakeAll, n>>
      BY <1>14 DEF Notify, locals
    <2>3. Counted' = Counted
      BY <1>14, OthersMove DEF Notify
    <2>4. OwnsInner' /\ FlagInPhase'
      BY <2>1, <2>2, <2>3 DEF Phases, OwnsInner, FlagInPhase, EventInPhase, Inside
    <2>5. EventInPhase' /\ NotifyOnce'
      BY <2>1, <2>2, <2>3 DEF Phases, FlagInPhase, EventInPhase, NotifyOnce, Inside
    <2>6. LastHasLeft' /\ NobodyLeftBehind'
      BY <2>1, <2>2, <2>3 DEF Phases, LastHasLeft, EventInPhase, NotifyOnce,
         NobodyLeftBehind, Inside
    <2> QED
      BY <2>4, <2>5, <2>6 DEF Phases
  <1>15. ASSUME NEW t \in Threads, Leave(t) PROVE Phases'
    <2>1. /\ pc[t] = "leave"
          /\ pc'[t] = IF waitCount - 1 = 0 /\ wakeAll THEN "notify" ELSE "relock"
          /\ \A u \in Threads \ {t} : pc'[u] = pc[u]
      BY <1>15, GotoMoves DEF Leave, ReportsEnd, Uncount
    <2>2. UNCHANGED <<mtxi, wakeAll, mrend, n>>
      BY <1>15 DEF Leave
    <2>3. /\ t \in Counted /\ Counted' = Counted \ {t}
          /\ waitCount - 1 = 0 => Counted' = {}
      <3>1. /\ t \in Counted /\ Counted' = Counted \ {t}
            /\ Cardinality(Counted') = waitCount - 1
        BY <1>15, LeaveMoves DEF CountExact
      <3> QED
        BY <3>1, SizesAreBounded DEF Counted
    <2>4. ~mrend /\ \A u \in Threads : pc[u] # "notify"
      BY <2>3 DEF Phases, LastHasLeft
    <2>5. wakeAll => \E u \in Threads : pc[u] = "meet"
      BY <2>3 DEF Phases, FlagInPhase, NobodyLeftBehind
    <2>6. OwnsInner' /\ FlagInPhase'
      BY <2>1, <2>2, <2>3, <2>4, <2>5 DEF Phases, OwnsInner, FlagInPhase, EventInPhase, Inside
    <2>7. EventInPhase' /\ NotifyOnce'
      BY <2>1, <2>2, <2>3, <2>4, <2>5 DEF Phases, FlagInPhase, EventInPhase, NotifyOnce, Inside
    <2>8. LastHasLeft' /\ NobodyLeftBehind'
      BY <2>1, <2>2, <2>3, <2>4, <2>5 DEF Phases, LastHasLeft, EventInPhase, NotifyOnce,
         NobodyLeftBehind, Inside
    <2> QED
      BY <2>6, <2>7, <2>8 DEF Phases
  <1> QED
    BY <1>1, <1>2, <1>3, <1>4, <1>5, <1>6, <1>7, <1>8, <1>9, <1>10, <1>11, <1>12, <1>13, <1>14, <1>15
    DEF Next, Progress

\* The count stays exact, and with it everything stays within its type.
LEMMA NextTypeOK ==
    ASSUME TypeOK, CountExact, [Next]_vars
    PROVE  TypeOK' /\ CountExact'
  <1>1. /\ Cardinality(Threads) \in Nat /\ Cardinality(Counted) \in Nat
        /\ Cardinality(Counted') \in Nat /\ Cardinality(Counted') <= Cardinality(Threads)
    BY SizesAreBounded DEF Counted
  <1>2. ASSUME waitCount' = Cardinality(Counted') PROVE waitCount' \in 0..Cardinality(Threads)
    BY <1>1, <1>2
  <1>3. ASSUME waitCount' = waitCount, Counted' = Counted
        PROVE  CountExact' /\ waitCount' \in 0..Cardinality(Threads)
    BY <1>3 DEF CountExact, TypeOK
  <1>4. CASE UNCHANGED vars
    BY <1>4 DEF vars, data, locals, TypeOK, CountExact, Counted
  <1>5. ASSUME NEW t \in Threads, LockGet(t) \/ LockFree(t) PROVE TypeOK' /\ CountExact'
    BY <1>5 DEF LockGet, LockFree, data, locals, TypeOK, CountExact, Counted
  <1>6. ASSUME NEW t \in Threads,
               CallWait(t) \/ CallWakeOne(t) \/ CallWakeAll(t) \/ Relock(t) \/ Unlock(t)
        PROVE  TypeOK' /\ CountExact'
    <2>1. Counted' = Counted
      BY <1>6, OthersMove DEF CallWait, CallWakeOne, CallWakeAll, Relock, Unlock, Goto
    <2> QED
      BY <1>6, <2>1 DEF CallWait, CallWakeOne, CallWakeAll, Relock, Unlock, Goto,
         data, locals, TypeOK, CountExact, WaitPlaces, WakeOnePlaces, WakeAllPlaces
  <1>7. ASSUME NEW t \in Threads, SemTake(t) \/ SemGiveUp(t) PROVE TypeOK' /\ CountExact'
    <2>1. Counted' = Counted
      BY <1>7, ServedMoves
    <2>2. CASE SemTake(t)
      BY <2>1, <2>2, SemMaxAssumption DEF SemTake, Goto, TypeOK, CountExact, WaitPlaces
    <2>3. CASE SemGiveUp(t)
      BY <2>1, <2>3 DEF SemGiveUp, Goto, data, TypeOK, CountExact, WaitPlaces
    <2> QED
      BY <1>7, <2>2, <2>3
  <1>8. ASSUME NEW t \in Threads, NEW from, NEW to \in {"count", "test", "sweep"},
               from \in {"enter", "one", "all"}, GetInner(t, from, to)
        PROVE  TypeOK' /\ CountExact'
    <2>1. Counted' = Counted
      BY <1>8, OthersMove DEF GetInner
    <2> QED
      BY <1>8, <2>1 DEF GetInner, Goto, data, locals, TypeOK, CountExact,
         WaitPlaces, WakeOnePlaces, WakeAllPlaces
  <1>9. ASSUME NEW t \in Threads, NEW from, NEW to \in {"unlock", "idle"},
               from \in {"admit", "oneFree", "allFree"}, from = "admit" <=> to = "unlock",
               FreeInner(t, from, to)
        PROVE  TypeOK' /\ CountExact'
    <2>1. Counted' = Counted
      BY <1>9, OthersMove DEF FreeInner
    <2> QED
      BY <1>1, <1>9, <2>1 DEF FreeInner, Goto, data, TypeOK, CountExact, WaitPlaces
  <1>10. ASSUME NEW t \in Threads, Count(t) PROVE TypeOK' /\ CountExact'
    <2>1. CountExact'
      BY <1>10, CountMoves DEF Count, CountExact
    <2> QED
      BY <1>2, <1>10, <2>1 DEF Count, Goto, locals, TypeOK, CountExact, WaitPlaces
  <1>11. ASSUME NEW t \in Threads, Leave(t) PROVE TypeOK' /\ CountExact'
    <2>1. CountExact'
      BY <1>11, LeaveMoves DEF Leave, Uncount, CountExact
    <2>2. pc' \in [Threads -> {"idle"} \cup WaitPlaces \cup WakeOnePlaces
                              \cup WakeAllPlaces]
      BY <1>11 DEF Leave, Goto, TypeOK, WaitPlaces
    <2> QED
      BY <1>2, <1>11, <2>1, <2>2 DEF Leave, TypeOK, CountExact
  <1>12. ASSUME NEW t \in Threads,
               WakeOneTest(t) \/ Meet(t) \/ Reset(t) \/ Clear(t) \/ Notify(t)
        PROVE  TypeOK' /\ CountExact'
    <2>1. Counted' = Counted
      BY <1>12, OthersMove DEF WakeOneTest, Meet, Reset, Clear, Notify
    <2> QED
      BY <1>12, <2>1 DEF WakeOneTest, Meet, Reset, MrendAfter, Clear, Notify, Goto,
         data, locals, TypeOK, CountExact, WaitPlaces, WakeOnePlaces, WakeAllPlaces
  <1>13. ASSUME NEW t \in Threads, WakeOnePost(t) PROVE TypeOK' /\ CountExact'
    <2>1. Counted' = Counted
      BY <1>13, OthersMove DEF WakeOnePost
    <2>2. Cardinality(Threads) # 0
      BY SizesAreBounded
    <2> QED
      BY <1>1, <1>13, <2>1, <2>2, SemMaxAssumption
      DEF WakeOnePost, PostTokens, Goto, TypeOK, CountExact, WakeOnePlaces
  <1>14. ASSUME NEW t \in Threads, Sweep(t) PROVE TypeOK' /\ CountExact'
    <2>1. Counted' = Counted
      BY <1>14, OthersMove DEF Sweep
    <2>2. tokens' \in 0..SemMax /\ wakeAll' \in BOOLEAN
      BY <1>14, EnoughTokens DEF Sweep, PostForAll, TypeOK
    <2>3. pc' \in [Threads -> {"idle"} \cup WaitPlaces \cup WakeOnePlaces
                              \cup WakeAllPlaces]
      BY <1>14 DEF Sweep, Goto, TypeOK, WakeAllPlaces
    <2> QED
      BY <1>14, <2>1, <2>2, <2>3 DEF Sweep, TypeOK, CountExact
  <1> QED
    BY <1>4, <1>5, <1>6, <1>7, <1>8, <1>9, <1>10, <1>11, <1>12, <1>13, <1>14
    DEF Next, Progress, Enter, WakeOneEnter, WakeAllEnter, Admit, WakeOneLeave, WakeAllLeave

\* While a WakeAll waits, nobody joins those it has counted, and each of them
\* takes at most one token.
LEMMA NextWakeAllSupplies ==
    ASSUME TypeOK, CountExact, Phases, WakeAllSupplies, [Next]_vars
    PROVE  WakeAllSupplies'
  <1>1. Cardinality(Unserved) \in Nat
    BY SizesAreBounded DEF Unserved
  <1>2. CASE UNCHANGED vars
    BY <1>2 DEF vars, data, Unserved, WakeAllSupplies
  <1>3. ASSUME NEW t \in Threads, LockGet(t) \/ LockFree(t) PROVE WakeAllSupplies'
    BY <1>3 DEF LockGet, LockFree, data, Unserved, WakeAllSupplies
  <1>4. ASSUME NEW t \in Threads, NEW from, NEW to, Goto(t, from, to), to # "meet",
               tokens' >= tokens, tokens' \in Nat, Unserved' = Unserved
        PROVE  WakeAllSupplies'
    BY <1>1, <1>4, GotoMoves DEF WakeAllSupplies, TypeOK
  <1>5. ASSUME NEW t \in Threads,
               \/ CallWait(t) \/ CallWakeOne(t) \/ CallWakeAll(t) \/ Relock(t) \/ Unlock(t)
               \/ WakeOneTest(t) \/ Meet(t) \/ Reset(t) \/ Clear(t) \/ Notify(t)
        PROVE  WakeAllSupplies'
    <2>1. PICK from, to :
            /\ Goto(t, from, to)
            /\ to \notin {"admit", "leave", "meet"} /\ from \notin {"sem", "leave"}
            /\ from \in {"admit", "unlock"} <=> to \in {"unlock", "sem"}
            /\ tokens' = tokens
      BY <1>5 DEF CallWait, CallWakeOne, CallWakeAll, Relock, Unlock, WakeOneTest, Meet,
                  Reset, Clear, Notify, data
    <2> QED
      BY <1>4, <2>1, OthersMove DEF TypeOK
  <1>6. ASSUME NEW t \in Threads,
               \/ Enter(t) \/ WakeOneEnter(t) \/ WakeAllEnter(t)
               \/ Admit(t) \/ WakeOneLeave(t) \/ WakeAllLeave(t)
        PROVE  WakeAllSupplies'
    <2>1. PICK from, to :
            /\ Goto(t, from, to)
            /\ to \notin {"admit", "leave", "meet"} /\ from \notin {"sem", "leave"}
            /\ from \in {"admit", "unlock"} <=> to \in {"unlock", "sem"}
            /\ tokens' = tokens
      BY <1>6 DEF Enter, WakeOneEnter, WakeAllEnter, Admit, WakeOneLeave, WakeAllLeave,
                  GetInner, FreeInner, data
    <2> QED
      BY <1>4, <2>1, OthersMove DEF TypeOK
  <1>7. ASSUME NEW t \in Threads, Count(t) PROVE WakeAllSupplies'
    <2>1. /\ pc[t] = "count" /\ pc'[t] = "admit"
          /\ \A u \in Threads \ {t} : pc'[u] = pc[u]
      BY <1>7, GotoMoves DEF Count
    <2>2. \A u \in Threads : pc[u] # "meet"
      BY <2>1 DEF Phases, OwnsInner, Inside
    <2> QED
      BY <2>1, <2>2 DEF WakeAllSupplies
  <1>8. ASSUME NEW t \in Threads, SemTake(t) \/ SemGiveUp(t) PROVE WakeAllSupplies'
    <2>1. /\ tokens' >= tokens - 1
          /\ tokens' \in Nat /\ tokens \in Nat
          /\ Goto(t, "sem", "leave")
      BY <1>8, SemMaxAssumption DEF SemTake, SemGiveUp, TypeOK, data
    <2>2. Cardinality(Unserved') = Cardinality(Unserved) - 1
      BY <1>8, ServedMoves
    <2>3. \A u \in Threads : pc'[u] = "meet" => pc[u] = "meet"
      BY <2>1, GotoMoves
    <2> QED
      BY <1>1, <2>1, <2>2, <2>3 DEF WakeAllSupplies
  <1>9. ASSUME NEW t \in Threads, Leave(t) PROVE WakeAllSupplies'
    <2>1. Unserved' = Unserved /\ tokens' = tokens
      BY <1>9, LeaveMoves DEF Leave
    <2>2. \A u \in Threads : pc'[u] = "meet" => pc[u] = "meet"
      BY <1>9, GotoMoves DEF Leave
    <2> QED
      BY <2>1, <2>2 DEF WakeAllSupplies
  <1>10. ASSUME NEW t \in Threads, WakeOnePost(t) PROVE WakeAllSupplies'
    <2>1. Goto(t, "post", "oneFree") /\ tokens' >= tokens /\ tokens' \in Nat
      BY <1>10, SemMaxAssumption DEF WakeOnePost, PostTokens, TypeOK
    <2> QED
      BY <1>4, <2>1, OthersMove
  <1>11. ASSUME NEW t \in Threads, Sweep(t) PROVE WakeAllSupplies'
    <2>1. Unserved' = Unserved
      BY <1>11, OthersMove DEF Sweep
    <2>2. CASE waitCount # 0
      BY <1>11, <2>1, <2>2, EnoughTokens DEF Sweep, PostForAll, WakeAllSupplies
    <2>3. CASE waitCount = 0
      <3>1. tokens' = tokens /\ \A u \in Threads : pc'[u] = "meet" => pc[u] = "meet"
        BY <1>11, <2>3, GotoMoves DEF Sweep
      <3> QED
        BY <2>1, <3>1 DEF WakeAllSupplies
    <2> QED
      BY <2>2, <2>3
  <1> QED
    BY <1>2, <1>3, <1>5, <1>6, <1>7, <1>8, <1>9, <1>10, <1>11 DEF Next, Progress

\* The three parts together are inductive.
LEMMA NextIInv == IInv /\ [Next]_vars => IInv'
  BY NextTypeOK, NextPhases, NextWakeAllSupplies DEF IInv, Phases

\* Hence they hold in every reachable state.
LEMMA Invariance == Spec => []IInv
  BY InitIInv, NextIInv, PTL DEF Spec

-----------------------------------------------------------------------------
(* What it gives.                                                          *)

\* wait_count never goes below zero or past the number of threads, the semaphore
\* never past its maximum, and every thread is where its call can put it
\* (condvar.cc:34-112).
THEOREM TypeCorrect == Spec => []TypeOK
  <1>1. IInv => TypeOK
    BY DEF IInv
  <1> QED
    BY <1>1, Invariance, PTL

\* wait_count is exact for any number of waiters, however their waits end
\* (condvar.cc:46, 55).
THEOREM CountIsExact == Spec => []CountExact
  <1>1. IInv => CountExact
    BY DEF IInv
  <1> QED
    BY <1>1, Invariance, PTL

\* No waker goes on while somebody it should have woken is left waiting
\* (condvar.cc:74, 102-109).
THEOREM NobodyIsLeftBehind == Spec => []NobodyLeftBehind
  <1>1. IInv => NobodyLeftBehind
    BY DEF IInv
  <1> QED
    BY <1>1, Invariance, PTL

\* No signal of one WakeAll is left for the next (condvar.cc:56-60, 107-109).
THEOREM RendezvousStaysClean == Spec => []RendezvousClean
  <1>1. IInv => RendezvousClean
    BY DEF IInv, FlagInPhase, EventInPhase, NotifyOnce, RendezvousClean
  <1> QED
    BY <1>1, Invariance, PTL

\* WakeAll never waits for more threads than it has left tokens for, whoever runs
\* out of time meanwhile (condvar.cc:102-106).
THEOREM WakeAllHasTokens == Spec => []WakeAllSupplies
  <1>1. IInv => WakeAllSupplies
    BY DEF IInv
  <1> QED
    BY <1>1, Invariance, PTL
-----------------------------------------------------------------------------
(* The refinement.  Mutexes, flag and event are stutters of                *)
(* CountedWakeups; every other step is the action with the same meaning.   *)

\* The places at which a waker knows how many it has woken.
Numbered == {"oneFree", "meet", "reset", "clear", "allFree"}

\* What a call has found out is kept from then to its return, and no longer.
LocalsFresh ==
    /\ \A t \in Threads : rv[t] => pc[t] = "leave"
    /\ \A t \in Threads : n[t] # 0 => pc[t] \in Numbered

\* Nothing of an earlier call is left in a new one.
LEMMA NextLocalsFresh ==
    ASSUME TypeOK, LocalsFresh, [Next]_vars
    PROVE  LocalsFresh'
  <1>1. CASE UNCHANGED vars
    BY <1>1 DEF vars, locals, LocalsFresh
  <1>2. ASSUME NEW t \in Threads, LockGet(t) \/ LockFree(t) PROVE LocalsFresh'
    BY <1>2 DEF LockGet, LockFree, locals, LocalsFresh
  <1>3. ASSUME NEW t \in Threads, NEW from, NEW to, Goto(t, from, to), from # "leave",
               UNCHANGED <<rv, n>>, from \in Numbered => to \in Numbered
        PROVE  LocalsFresh'
    BY <1>3, GotoMoves DEF LocalsFresh
  <1>4. ASSUME NEW t \in Threads,
               \/ CallWait(t) \/ Count(t) \/ Unlock(t) \/ SemGiveUp(t) \/ Notify(t)
               \/ Relock(t) \/ CallWakeOne(t) \/ WakeOneTest(t)
               \/ CallWakeAll(t) \/ Meet(t) \/ Reset(t) \/ Clear(t)
        PROVE  LocalsFresh'
    <2>1. PICK from, to :
            /\ Goto(t, from, to) /\ from # "leave"
            /\ from \in Numbered => to \in Numbered
            /\ UNCHANGED <<rv, n>>
      BY <1>4 DEF CallWait, Count, Unlock, SemGiveUp, Notify, Relock, CallWakeOne,
                  WakeOneTest, CallWakeAll, Meet, Reset, Clear, locals, Numbered
    <2> QED
      BY <1>3, <2>1
  <1>5. ASSUME NEW t \in Threads, Enter(t) \/ WakeOneEnter(t) \/ WakeAllEnter(t)
        PROVE  LocalsFresh'
    <2>1. PICK from, to :
            /\ Goto(t, from, to) /\ from # "leave" /\ from \notin Numbered
            /\ UNCHANGED <<rv, n>>
      BY <1>5 DEF Enter, WakeOneEnter, WakeAllEnter, GetInner, locals, Numbered
    <2> QED
      BY <1>3, <2>1
  <1>6. ASSUME NEW t \in Threads, Admit(t) \/ WakeOneLeave(t) \/ WakeAllLeave(t)
        PROVE  LocalsFresh'
    <2>1. PICK from, to : Goto(t, from, to) /\ from # "leave"
      BY <1>6 DEF Admit, WakeOneLeave, WakeAllLeave, FreeInner
    <2>2. rv' = rv /\ n' = [n EXCEPT ![t] = 0]
      BY <1>6 DEF Admit, WakeOneLeave, WakeAllLeave, FreeInner
    <2> QED
      BY <2>1, <2>2, GotoMoves DEF LocalsFresh, TypeOK
  <1>7. ASSUME NEW t \in Threads, SemTake(t) PROVE LocalsFresh'
    <2>1. Goto(t, "sem", "leave") /\ n' = n /\ rv' = [rv EXCEPT ![t] = TRUE]
      BY <1>7 DEF SemTake
    <2> QED
      BY <2>1, GotoMoves DEF LocalsFresh, TypeOK, Numbered
  <1>8. ASSUME NEW t \in Threads, Leave(t) PROVE LocalsFresh'
    <2>1. pc[t] = "leave" /\ \A u \in Threads \ {t} : pc'[u] = pc[u]
      BY <1>8, GotoMoves DEF Leave
    <2>2. n' = n /\ rv' = [rv EXCEPT ![t] = FALSE]
      BY <1>8 DEF Leave
    <2> QED
      BY <2>1, <2>2 DEF LocalsFresh, TypeOK, Numbered
  <1>9. ASSUME NEW t \in Threads, WakeOnePost(t) PROVE LocalsFresh'
    <2>1. Goto(t, "post", "oneFree") /\ rv' = rv /\ n' = [n EXCEPT ![t] = 1]
      BY <1>9 DEF WakeOnePost
    <2> QED
      BY <2>1, GotoMoves DEF LocalsFresh, TypeOK, Numbered
  <1>10. ASSUME NEW t \in Threads, Sweep(t) PROVE LocalsFresh'
    <2>1. /\ pc[t] = "sweep" /\ pc'[t] \in {"meet", "allFree"}
          /\ \A u \in Threads \ {t} : pc'[u] = pc[u]
      BY <1>10, GotoMoves DEF Sweep
    <2>2. rv' = rv /\ n' = [n EXCEPT ![t] = waitCount]
      BY <1>10 DEF Sweep
    <2> QED
      BY <2>1, <2>2 DEF LocalsFresh, TypeOK, Numbered
  <1> QED
    BY <1>1, <1>2, <1>4, <1>5, <1>6, <1>7, <1>8, <1>9, <1>10 DEF Next, Progress

\* A step of one thread moves that thread there as well.
LEMMA PlaceMoves ==
    ASSUME TypeOK, NEW t \in Threads, NEW from, NEW to, Goto(t, from, to)
    PROVE  [u \in Threads |-> PlaceOf(pc[u])]'
             = [[u \in Threads |-> PlaceOf(pc[u])] EXCEPT ![t] = PlaceOf(to)]
  BY GotoMoves

\* The threads present there are those wait_count counts.
LEMMA PresentCounted ==
    ASSUME TypeOK
    PROVE  /\ Promise!Threads = Threads /\ Promise!Present = Counted
           /\ Promise!Settled <=> \A t \in Threads : pc[t] \notin {"post", "meet"}
  <1>1. ASSUME NEW t \in Threads
        PROVE  /\ PlaceOf(pc[t]) \in {"joined", "waiting", "answered"}
                    <=> pc[t] \in {"admit", "unlock", "sem", "leave"}
               /\ PlaceOf(pc[t]) \in {"granting", "meeting"}
                    <=> pc[t] \in {"post", "meet"}
    BY DEF PlaceOf
  <1> QED
    BY <1>1 DEF Promise!Threads, Promise!Present, Counted, Promise!Settled, Threads

\* Both modules count with the same operator.
LEMMA SameCardinality == \A S : Promise!Cardinality(S) = Cardinality(S)
  BY DEF Promise!Cardinality, Cardinality

\* Post supplies what CountedWakeups asks for, although it may refuse.
LEMMA PostSupplies ==
    ASSUME TypeOK, NEW k \in 1..Cardinality(Threads), PostTokens(k)
    PROVE  Promise!Supply(k)
  <1>1. Cardinality(Threads) \in Nat
    BY SizesAreBounded
  <1> QED
    BY <1>1, SemMaxAssumption DEF TypeOK, PostTokens, Promise!Supply

\* Who owns mtxi finds nobody else between counting the waiters and serving them.
LEMMA OwnerSettled ==
    ASSUME TypeOK, OwnsInner, NEW t \in Threads, pc[t] \in {"count", "test", "sweep"}
    PROVE  Promise!Settled
  BY PresentCounted DEF OwnsInner, Inside

\* Every step of CondVar is one of CountedWakeups or stutters.
LEMMA NextImplements ==
    ASSUME IInv, LocalsFresh, [Next]_vars
    PROVE  [Promise!Next]_(Promise!vars)
  <1>0. TypeOK /\ OwnsInner /\ CountExact /\ LastHasLeft /\ EventInPhase
    BY DEF IInv
  <1>p. /\ Promise!Threads = Threads /\ Promise!Present = Counted
        /\ waitCount = Promise!Cardinality(Promise!Present)
        /\ waitCount = 0 <=> Promise!Present = {}
    BY <1>0, PresentCounted, SizesAreBounded, SameCardinality DEF CountExact, Counted
  <1>1. CASE UNCHANGED vars
    BY <1>1 DEF vars, data, locals, Promise!vars
  <1>2. ASSUME NEW t \in Threads, LockGet(t) PROVE Promise!LockGet(t)
    BY <1>2 DEF LockGet, data, locals, Promise!LockGet, PlaceOf
  <1>3. ASSUME NEW t \in Threads, LockFree(t) PROVE Promise!LockFree(t)
    BY <1>3 DEF LockFree, data, locals, Promise!LockFree, PlaceOf
  <1>4. ASSUME NEW t \in Threads, CallWait(t) PROVE Promise!Call(t)
    BY <1>0, <1>4, PlaceMoves DEF CallWait, Goto, data, Promise!Call, Promise!Move, PlaceOf
  <1>5. ASSUME NEW t \in Threads, Enter(t) \/ WakeOneEnter(t) \/ WakeAllEnter(t)
        PROVE  UNCHANGED Promise!vars
    <2>1. UNCHANGED [u \in Threads |-> PlaceOf(pc[u])]
      BY <1>0, <1>5, GotoMoves
      DEF Enter, WakeOneEnter, WakeAllEnter, GetInner, PlaceOf
    <2> QED
      BY <1>5, <2>1 DEF Enter, WakeOneEnter, WakeAllEnter, GetInner, data, locals,
                        Promise!vars
  <1>6. ASSUME NEW t \in Threads, Count(t) PROVE Promise!Join(t)
    <2>1. Promise!Settled
      BY <1>0, <1>6, OwnerSettled DEF Count, Goto
    <2> QED
      BY <1>0, <1>6, <2>1, PlaceMoves DEF Count, Goto, locals, Promise!Join, Promise!Move,
         PlaceOf
  <1>7. ASSUME NEW t \in Threads, Admit(t) PROVE UNCHANGED Promise!vars
    <2>1. UNCHANGED [u \in Threads |-> PlaceOf(pc[u])]
      BY <1>0, <1>7, GotoMoves DEF Admit, FreeInner, PlaceOf
    <2>2. n[t] = 0
      BY <1>7 DEF Admit, FreeInner, Goto, LocalsFresh, Numbered
    <2>3. n' = n
      BY <1>0, <1>7, <2>2 DEF Admit, FreeInner, TypeOK
    <2> QED
      BY <1>7, <2>1, <2>3 DEF Admit, FreeInner, data, Promise!vars
  <1>8. ASSUME NEW t \in Threads, Unlock(t) PROVE Promise!Release(t)
    BY <1>0, <1>8, PlaceMoves DEF Unlock, Goto, data, locals, Promise!Release, Promise!Move,
       PlaceOf
  <1>9. ASSUME NEW t \in Threads, SemTake(t) PROVE Promise!Take(t)
    BY <1>0, <1>9, PlaceMoves DEF SemTake, Goto, Promise!Take, Promise!Answer,
       Promise!Move, PlaceOf
  <1>10. ASSUME NEW t \in Threads, SemGiveUp(t) PROVE Promise!GiveUp(t)
    <2>1. rv[t] = FALSE
      BY <1>0, <1>10 DEF SemGiveUp, Goto, LocalsFresh, TypeOK
    <2>2. rv' = [rv EXCEPT ![t] = FALSE]
      BY <1>0, <1>10, <2>1 DEF SemGiveUp, TypeOK
    <2> QED
      BY <1>0, <1>10, <2>2, PlaceMoves DEF SemGiveUp, Goto, data, Promise!GiveUp,
         Promise!Answer, Promise!Move, PlaceOf
  <1>11. ASSUME NEW t \in Threads, Leave(t) PROVE Promise!Leave(t)
    <2>1. \E to \in {"notify", "relock"} : Goto(t, "leave", to)
      BY <1>11 DEF Leave
    <2>2. Promise!Move(t, "answered", "left")
      BY <1>0, <2>1, PlaceMoves DEF Goto, Promise!Move, PlaceOf
    <2> QED
      BY <1>11, <2>2 DEF Leave, Promise!Leave
  <1>12. ASSUME NEW t \in Threads, Notify(t) \/ Reset(t) \/ Clear(t)
         PROVE  UNCHANGED Promise!vars
    <2>1. UNCHANGED [u \in Threads |-> PlaceOf(pc[u])]
      BY <1>0, <1>12, GotoMoves DEF Notify, Reset, Clear, PlaceOf
    <2> QED
      BY <1>12, <2>1 DEF Notify, Reset, Clear, locals, Promise!vars
  <1>13. ASSUME NEW t \in Threads, Relock(t) PROVE Promise!Return(t)
    BY <1>0, <1>13, PlaceMoves DEF Relock, Goto, data, locals, Promise!Return, Promise!Move,
       PlaceOf
  <1>14. ASSUME NEW t \in Threads, CallWakeOne(t) PROVE Promise!CallWake(t, "one")
    BY <1>0, <1>14, PlaceMoves DEF CallWakeOne, Goto, data, locals, Promise!CallWake,
       Promise!Move, PlaceOf
  <1>15. ASSUME NEW t \in Threads, CallWakeAll(t) PROVE Promise!CallWake(t, "all")
    BY <1>0, <1>15, PlaceMoves DEF CallWakeAll, Goto, data, locals, Promise!CallWake,
       Promise!Move, PlaceOf
  <1>16. ASSUME NEW t \in Threads, WakeOneTest(t) PROVE Promise!CountOne(t)
    <2>1. Promise!Settled
      BY <1>0, <1>16, OwnerSettled DEF WakeOneTest, Goto
    <2>2. Promise!Move(t, "one", IF Promise!Present = {} THEN "done" ELSE "granting")
      <3>1. CASE waitCount # 0
        BY <1>0, <1>p, <1>16, <3>1, PlaceMoves DEF WakeOneTest, Goto, Promise!Move, PlaceOf
      <3>2. CASE waitCount = 0
        BY <1>0, <1>p, <1>16, <3>2, PlaceMoves DEF WakeOneTest, Goto, Promise!Move, PlaceOf
      <3> QED
        BY <3>1, <3>2
    <2> QED
      BY <1>16, <2>1, <2>2 DEF WakeOneTest, data, locals, Promise!CountOne
  <1>17. ASSUME NEW t \in Threads, WakeOnePost(t) PROVE Promise!Grant(t)
    <2>1. 1 \in 1..Cardinality(Threads)
      BY SizesAreBounded
    <2>2. Promise!Supply(1)
      BY <1>0, <1>17, <2>1, PostSupplies DEF WakeOnePost
    <2> QED
      BY <1>0, <1>17, <2>2, PlaceMoves DEF WakeOnePost, Goto, Promise!Grant, Promise!Move,
         PlaceOf
  <1>18. ASSUME NEW t \in Threads, Sweep(t) PROVE Promise!CountAll(t)
    <2>1. Promise!Settled
      BY <1>0, <1>18, OwnerSettled DEF Sweep, Goto
    <2>2. CASE waitCount # 0
      <3>1. Promise!Move(t, "all", "meeting")
        BY <1>0, <1>18, <2>2, PlaceMoves DEF Sweep, Goto, Promise!Move, PlaceOf
      <3>2. waitCount \in 1..Cardinality(Threads)
        BY <1>0, <2>2, SizesAreBounded DEF TypeOK
      <3>3. Promise!Supply(waitCount)
        BY <1>0, <1>18, <2>2, <3>2, PostSupplies DEF Sweep, PostForAll
      <3> QED
        BY <1>p, <1>18, <2>1, <2>2, <3>1, <3>3 DEF Sweep, Promise!CountAll
    <2>3. CASE waitCount = 0
      <3>1. Promise!Move(t, "all", "done")
        BY <1>0, <1>18, <2>3, PlaceMoves DEF Sweep, Goto, Promise!Move, PlaceOf
      <3> QED
        BY <1>p, <1>18, <2>1, <2>3, <3>1 DEF Sweep, Promise!CountAll
    <2> QED
      BY <2>2, <2>3
  <1>19. ASSUME NEW t \in Threads, Meet(t) PROVE Promise!Meet(t)
    <2>1. Promise!Present = {}
      BY <1>0, <1>p, <1>19 DEF Meet, LastHasLeft
    <2> QED
      BY <1>0, <1>19, <2>1, PlaceMoves DEF Meet, Goto, data, locals, Promise!Meet,
         Promise!Move, PlaceOf
  <1>20. ASSUME NEW t \in Threads, WakeOneLeave(t) \/ WakeAllLeave(t)
         PROVE  Promise!Finish(t)
    BY <1>0, <1>20, PlaceMoves DEF WakeOneLeave, WakeAllLeave, FreeInner, Goto, data,
       Promise!Finish, Promise!Move, PlaceOf
  <1> QED
    BY <1>p, <1>1, <1>2, <1>3, <1>4, <1>5, <1>6, <1>7, <1>8, <1>9, <1>10, <1>11, <1>12,
       <1>13, <1>14, <1>15, <1>16, <1>17, <1>18, <1>19, <1>20
    DEF Next, Progress, Promise!Next

\* For any number of waiters and wakers and however the waits end, the condition
\* variable with its two mutexes, its count, its flag and its rendezvous implements
\* CountedWakeups: a Wait succeeds by taking a wakeup that a waker has left for
\* somebody it found, and WakeAll returns the number of the waiters it found when
\* all of them are gone (condvar.cc:40-114).
THEOREM ImplementsPromise == Spec => ImplementsCountedWakeups
  <1>1. Init => LocalsFresh /\ Promise!Init
    <2> SUFFICES ASSUME Init PROVE LocalsFresh /\ Promise!Init
      OBVIOUS
    <2>1. [t \in Threads |-> PlaceOf(pc[t])] = [t \in Promise!Threads |-> "idle"]
      BY DEF Init, PlaceOf, Promise!Threads, Threads
    <2> QED
      BY <2>1 DEF Init, LocalsFresh, Promise!Init, Promise!Threads, Threads
  <1>2. IInv /\ LocalsFresh /\ [Next]_vars => LocalsFresh'
    BY NextLocalsFresh DEF IInv
  <1>3. IInv /\ LocalsFresh /\ [Next]_vars => [Promise!Next]_(Promise!vars)
    BY NextImplements
  <1> QED
    BY <1>1, <1>2, <1>3, Invariance, PTL DEF Spec, ImplementsCountedWakeups, Promise!Spec
=============================================================================
