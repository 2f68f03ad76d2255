--------------------------- MODULE SemaphoreProofs ---------------------------
(***************************************************************************)
(* What Semaphore.tla guarantees for any number of threads and any         *)
(* arguments, as long as no posted amount can overflow the Int32 count.    *)
(***************************************************************************)
EXTENDS Semaphore, FiniteSetTheorems, TLAPS

USE ArgumentsAssumption, WidthAssumption, PlatformAssumption

\* Sums of a legal count and a posted amount are computed without wrapping.
LEMMA NoWrap ==
    ASSUME AmountsFitInt32, NEW c \in 0..MAXIMUM_COUNT, NEW n \in PostAmounts, n > 0
    PROVE  Int32(c + n) = c + n
  BY DEF AmountsFitInt32, Int32

\* What every reachable state has, however the sums wrap.
Shapes == current \in Int /\ arg \in [Threads -> Int] /\ pc \in [Threads -> Places]

\* One Post at a time is in its critical section, and it has tested what it adds.
OneHolder == \A t, u \in Threads : Holds(t) /\ Holds(u) => t = u
Granted ==
    \A t \in Threads :
        /\ pc[t] = "add" => Int32(current + arg[t]) <= granted
        /\ pc[t] = "signal" => current <= granted
Section == Shapes /\ OneHolder /\ Granted

\* The steps that neither change the count nor concern a Post that holds l_mtx.
Outside(t) ==
    \/ TryFails(t) \/ Sleep(t) \/ PollFails(t) \/ NapEnds(t) \/ PollExpires(t)
    \/ PostInvalid(t) \/ PostReads(t) \/ PostRefuses(t) \/ PostPasses(t) \/ PostFull(t)
    \/ CallWait(t) \/ CallPoll(t) \/ CallPost(t) \/ SetMax(t)
    \/ SpuriousWakeup(t) \/ Timeout(t) \/ SwallowingTimeout(t) \/ WaitError(t)

\* The five others.
LEMMA StepKinds ==
    ASSUME Next
    PROVE  \E t \in Threads :
              \/ Outside(t) \/ Take(t)
              \/ PostTests(t) \/ PostAdds(t) \/ PostSignals(t) \/ PostUndoes(t)
  BY DEF Next, WaitStep, PostStep, Environment, Outside

\* A step outside leaves the holder of l_mtx and what it works on alone.
LEMMA OutsideFrame ==
    ASSUME Shapes, NEW t \in Threads, Outside(t)
    PROVE  /\ UNCHANGED <<current, granted>>
           /\ Shapes'
           /\ \A u \in Threads :
                /\ pc'[u] = "add" <=> pc[u] = "add"
                /\ pc'[u] = "signal" <=> pc[u] = "signal"
                /\ Holds(u) => arg'[u] = arg[u]
  <1>1. CASE CallWait(t) \/ CallPoll(t) \/ CallPost(t)
    BY <1>1 DEF CallWait, CallPoll, CallPost, Enter, Shapes, Holds, Places, Blocking
  <1>2. CASE Sleep(t) \/ PollFails(t) \/ NapEnds(t) \/ SpuriousWakeup(t)
    BY <1>2 DEF Sleep, PollFails, NapEnds, SpuriousWakeup, Testing, Shapes, Holds, Places
  <1>3. CASE PostReads(t) \/ PostPasses(t) \/ SetMax(t)
    BY <1>3 DEF PostReads, PostPasses, SetMax, Shapes, Holds, Places
  <1>4. CASE TryFails(t) \/ PollExpires(t) \/ Timeout(t) \/ SwallowingTimeout(t) \/ WaitError(t)
             \/ PostInvalid(t) \/ PostRefuses(t) \/ PostFull(t)
    <2>1. Return(t, FALSE) /\ UNCHANGED <<current, granted>> /\ ~Holds(t)
      BY <1>4 DEF TryFails, PollExpires, Timeout, SwallowingTimeout, WaitError, PostInvalid,
                  PostRefuses, PostFull, Testing, Posting, Holds
    <2> QED
      BY <2>1 DEF Return, Leave, Shapes, Holds, Places
  <1> QED
    BY <1>1, <1>2, <1>3, <1>4 DEF Outside

\* The mutex keeps one Post at a time between its test and its signal.
LEMMA NextSection ==
    ASSUME Section, [Next]_vars
    PROVE  Section'
  <1> USE DEF Section
  <1>1. CASE UNCHANGED vars
    BY <1>1 DEF vars, Shapes, OneHolder, Granted, Holds
  <1>2. ASSUME NEW t \in Threads, Outside(t) PROVE Section'
    BY <1>2, OutsideFrame DEF OneHolder, Granted, Holds
  <1>3. ASSUME NEW t \in Threads, Take(t) PROVE Section'
    BY <1>3 DEF Take, Testing, MutexFree, Return, Leave, Shapes, OneHolder, Granted, Holds,
                Places
  <1>4. ASSUME NEW t \in Threads, PostTests(t) PROVE Section'
    <2>1. Int32(current + arg[t]) <= maximum
      BY <1>4 DEF PostTests, StillFits, Fits
    <2> QED
      BY <1>4, <2>1 DEF PostTests, Posting, MutexFree, Shapes, OneHolder, Granted, Holds,
                        Places
  <1>5. ASSUME NEW t \in Threads, PostAdds(t) PROVE Section'
    <2>1. Int32(current + arg[t]) \in Int /\ Int32(current + arg[t]) <= granted
      BY <1>5, WidthAssumption DEF PostAdds, Granted, Shapes, Int32
    <2> HIDE DEF Int32
    <2> QED
      BY <1>5, <2>1 DEF PostAdds, Shapes, OneHolder, Granted, Holds, Places
  <1>6. ASSUME NEW t \in Threads, PostSignals(t) PROVE Section'
    <2>1. PICK roused \in SUBSET Sleepers :
            pc' = [u \in Threads |->
                     IF u = t THEN "idle" ELSE IF u \in roused THEN "woken" ELSE pc[u]]
      BY <1>6 DEF PostSignals, Rousable
    <2> QED
      BY <1>6, <2>1 DEF PostSignals, Leave, Sleepers, Shapes, OneHolder, Granted, Holds, Places
  <1>7. ASSUME NEW t \in Threads, PostUndoes(t) PROVE Section'
    <2>1. Undone(t) \in Int
      BY WidthAssumption DEF Undone, Shapes, Int32
    <2> QED
      BY <1>7, <2>1
      DEF PostUndoes, Return, Leave, Shapes, OneHolder, Granted, Holds, Places
  <1> QED
    BY <1>1, <1>2, <1>3, <1>4, <1>5, <1>6, <1>7, StepKinds

\* At the beginning nobody holds l_mtx.
LEMMA InitSection == Init => Section
  BY DEF Init, ValidArguments, Section, Shapes, OneHolder, Granted, Holds, Places

\* What a Post that has passed its second test adds, and takes back.
LEMMA PostAddsExactly ==
    ASSUME AmountsFitInt32, TypeOK, Section, NEW t \in Threads, PostAdds(t)
    PROVE  /\ arg[t] \in Nat \ {0}
           /\ current' = current + arg[t]
           /\ current' <= granted
  <1>1. arg[t] \in PostAmounts /\ arg[t] > 0 /\ current \in 0..MAXIMUM_COUNT
    BY DEF PostAdds, TypeOK
  <1>2. Int32(current + arg[t]) = current + arg[t]
    BY <1>1, NoWrap
  <1>3. arg[t] \in Nat \ {0}
    BY <1>1 DEF TypeOK
  <1> QED
    BY <1>1, <1>2, <1>3 DEF PostAdds, Section, Granted

\* What has been added is still there when it is taken back.
Restorable == \A t \in Threads : pc[t] = "signal" => arg[t] <= current

\* The count is then what it was.
LEMMA PostUndoesExactly ==
    ASSUME TypeOK, Restorable, NEW t \in Threads, PostUndoes(t)
    PROVE  current' = current - arg[t] /\ arg[t] > 0 /\ current' \in Nat
  <1>1. arg[t] \in Int /\ 0 < arg[t] /\ arg[t] <= current /\ current \in 0..MAXIMUM_COUNT
    BY DEF PostUndoes, TypeOK, Restorable
  <1>2. Int32(current - arg[t]) = current - arg[t]
    BY <1>1 DEF Int32
  <1> QED
    BY <1>1, <1>2 DEF PostUndoes, Undone

\* The constructor accepts only legal counts and maxima.
LEMMA InitTypeOK == Init => TypeOK
  BY DEF Init, ValidArguments, TypeOK, Waits, Blocking, Places

\* Type correctness is inductive beside the critical section: in particular the count
\* never becomes negative and never passes MAXIMUM_COUNT.
LEMMA NextTypeOK ==
    ASSUME AmountsFitInt32, TypeOK, Section, Restorable, [Next]_vars
    PROVE  TypeOK'
  <1> USE DEF Places, Waits, Blocking
  <1>1. CASE UNCHANGED vars
    BY <1>1 DEF vars, TypeOK
  <1>2. ASSUME NEW t \in Threads, CallWait(t) PROVE TypeOK'
    BY <1>2 DEF CallWait, Enter, TypeOK
  <1>3. ASSUME NEW t \in Threads, CallPoll(t) PROVE TypeOK'
    BY <1>3 DEF CallPoll, Enter, TypeOK
  <1>4. ASSUME NEW t \in Threads, CallPost(t) PROVE TypeOK'
    BY <1>4 DEF CallPost, Enter, TypeOK
  <1>5. ASSUME NEW t \in Threads, Take(t) PROVE TypeOK'
    BY <1>5 DEF Take, Testing, Available, Return, Leave, TypeOK
  <1>6. ASSUME NEW t \in Threads,
               TryFails(t) \/ PollExpires(t) \/ Timeout(t) \/ WaitError(t)
               \/ PostInvalid(t) \/ PostRefuses(t) \/ PostFull(t)
        PROVE  TypeOK'
    <2>1. Return(t, FALSE) /\ UNCHANGED <<current, granted, swallowed>>
      BY <1>6 DEF TryFails, PollExpires, Timeout, WaitError,
                  PostInvalid, PostRefuses, PostFull
    <2> QED
      BY <2>1 DEF Return, Leave, TypeOK
  <1>7. ASSUME NEW t \in Threads, Sleep(t) PROVE TypeOK'
    BY <1>7 DEF Sleep, Testing, TypeOK
  <1>8. ASSUME NEW t \in Threads, PollFails(t) PROVE TypeOK'
    BY <1>8 DEF PollFails, Testing, TypeOK
  <1>9. ASSUME NEW t \in Threads, NapEnds(t) PROVE TypeOK'
    BY <1>9 DEF NapEnds, TypeOK
  <1>10. ASSUME NEW t \in Threads, SpuriousWakeup(t) PROVE TypeOK'
    BY <1>10 DEF SpuriousWakeup, TypeOK
  <1>11. ASSUME NEW t \in Threads, SwallowingTimeout(t) PROVE TypeOK'
    BY <1>11 DEF SwallowingTimeout, Return, Leave, TypeOK
  <1>12. ASSUME NEW t \in Threads, PostReads(t) PROVE TypeOK'
    BY <1>12 DEF PostReads, TypeOK
  <1>13. ASSUME NEW t \in Threads, PostPasses(t) PROVE TypeOK'
    BY <1>13 DEF PostPasses, TypeOK
  <1>14. ASSUME NEW t \in Threads, PostTests(t) PROVE TypeOK'
    BY <1>14 DEF PostTests, Posting, TypeOK
  <1>15. ASSUME NEW t \in Threads, PostAdds(t) PROVE TypeOK'
    <2>1. current' \in 0..MAXIMUM_COUNT
      BY <1>15, PostAddsExactly DEF TypeOK
    <2> QED
      BY <1>15, <2>1 DEF PostAdds, TypeOK
  <1>16. ASSUME NEW t \in Threads, PostSignals(t) PROVE TypeOK'
    <2>1. PICK roused \in SUBSET Sleepers :
            pc' = [u \in Threads |->
                     IF u = t THEN "idle" ELSE IF u \in roused THEN "woken" ELSE pc[u]]
      BY <1>16 DEF PostSignals, Rousable
    <2> QED
      BY <1>16, <2>1 DEF PostSignals, Leave, Sleepers, TypeOK
  <1>17. ASSUME NEW t \in Threads, PostUndoes(t) PROVE TypeOK'
    <2>1. current' \in 0..MAXIMUM_COUNT
      BY <1>17, PostUndoesExactly DEF TypeOK
    <2> QED
      BY <1>17, <2>1 DEF PostUndoes, Return, Leave, TypeOK
  <1>18. ASSUME NEW t \in Threads, SetMax(t) PROVE TypeOK'
    BY <1>18 DEF SetMax, TypeOK
  <1> QED
    BY <1>1, <1>2, <1>3, <1>4, <1>5, <1>6, <1>7, <1>8, <1>9, <1>10, <1>11, <1>12,
       <1>13, <1>14, <1>15, <1>16, <1>17, <1>18
    DEF Next, WaitStep, PostStep, Environment

\* Nobody takes a token between the addition and the signal.
LEMMA NextRestorable ==
    ASSUME AmountsFitInt32, TypeOK, Section, Restorable, [Next]_vars
    PROVE  Restorable'
  <1>1. CASE UNCHANGED vars
    BY <1>1 DEF vars, Restorable
  <1>2. ASSUME NEW t \in Threads, Outside(t) PROVE Restorable'
    <2>1. /\ current' = current
          /\ \A u \in Threads : pc'[u] = "signal" => pc[u] = "signal" /\ arg'[u] = arg[u]
      BY <1>2, OutsideFrame DEF Section, Holds
    <2> QED
      BY <2>1 DEF Restorable
  <1>3. ASSUME NEW t \in Threads, Take(t) \/ PostTests(t) PROVE Restorable'
    BY <1>3 DEF Take, PostTests, Testing, Posting, MutexFree, Return, Leave, Holds, Restorable,
                TypeOK
  <1>4. ASSUME NEW t \in Threads, PostAdds(t) PROVE Restorable'
    <2>1. current' = current + arg[t] /\ current \in Nat /\ arg[t] \in Int
      BY <1>4, PostAddsExactly DEF TypeOK
    <2>2. arg' = arg /\ \A u \in Threads : pc'[u] = "signal" => u = t
      BY <1>4 DEF PostAdds, Section, OneHolder, Holds, TypeOK
    <2> QED
      BY <2>1, <2>2 DEF Restorable
  <1>5. ASSUME NEW t \in Threads, PostSignals(t) \/ PostUndoes(t) PROVE Restorable'
    <2>1. \A u \in Threads : pc'[u] # "signal"
      BY <1>5 DEF PostSignals, PostUndoes, Return, Section, OneHolder, Holds, TypeOK
    <2> QED
      BY <2>1 DEF Restorable
  <1> QED
    BY <1>1, <1>2, <1>3, <1>4, <1>5, StepKinds

\* All of this together is inductive.
IInv == TypeOK /\ Section /\ Restorable

\* It holds at the beginning.
LEMMA InitIInv == Init => IInv
  BY InitTypeOK, InitSection DEF IInv, Init, Restorable

\* Every step keeps it.
LEMMA NextIInv ==
    ASSUME AmountsFitInt32, IInv, [Next]_vars
    PROVE  IInv'
  BY NextTypeOK, NextSection, NextRestorable DEF IInv

\* It holds for amounts that cannot overflow.
LEMMA IInvHolds == AmountsFitInt32 => (Spec => []IInv)
  <1>1. ASSUME AmountsFitInt32 PROVE IInv /\ [Next]_vars => IInv'
    BY <1>1, NextIInv
  <1>2. ASSUME AmountsFitInt32 PROVE Spec => []IInv
    BY <1>1, <1>2, InitIInv, PTL DEF Spec
  <1> QED
    BY <1>2

\* The semaphore's own data stays legal whatever its callers do, in any number:
\* 0 <= current <= MAXIMUM_COUNT although SetMax may go below current and a failed
\* Post takes back what it has added, and every thread is where its call can put it.
THEOREM TypeCorrect == AmountsFitInt32 => (Spec => []TypeOK)
  <1>1. IInv => TypeOK
    BY DEF IInv
  <1> QED
    BY <1>1, IInvHolds, PTL

-----------------------------------------------------------------------------
(* No lost wakeup.  While a Post is between its addition and its signal,   *)
(* what it has added does not count: beside that, a step that blocks a     *)
(* thread finds the count at zero, a step that takes a token from under    *)
(* the woken threads is either one of them or only helps, and Post wakes   *)
(* at least as many sleepers as it adds tokens, or all of them.            *)

\* The property and its part for the time between the addition and the signal.
Covered ==
    /\ NoLostWakeup
    /\ \A t \in Threads :
          Sleepers # {} /\ pc[t] = "signal" => current - arg[t] <= Cardinality(Woken) + swallowed

\* The woken threads can be counted.
LEMMA WokenFinite == IsFiniteSet(Woken) /\ Cardinality(Woken) \in Nat
  <1>1. Woken \subseteq Threads
    BY DEF Woken
  <1> QED
    BY <1>1, ThreadsAssumption, FS_Subset, FS_CardinalityType

\* A woken thread that leaves the condition variable for good.
LEMMA WokenLoses ==
    ASSUME NEW t \in Woken, Woken' = Woken \ {t}
    PROVE  Cardinality(Woken') = Cardinality(Woken) - 1
  BY WokenFinite, FS_RemoveElement

\* A sleeper that is chosen by a signal, or wakes by itself.
LEMMA WokenGains ==
    ASSUME NEW t, t \notin Woken, Woken' = Woken \cup {t}
    PROVE  Cardinality(Woken') = Cardinality(Woken) + 1
  BY WokenFinite, FS_AddElement

\* Every step keeps the tokens beside sleepers covered.
LEMMA NextCovered ==
    ASSUME AmountsFitInt32, IInv, Covered, [Next]_vars
    PROVE  Covered'
  <1> USE WokenFinite
  <1>1. current \in Nat /\ swallowed \in Nat /\ arg \in [Threads -> Int] /\ Section /\ TypeOK
    BY DEF IInv, TypeOK
  <1>2. Cardinality(Woken') \in Nat
    <2>1. Woken' \subseteq Threads
      BY DEF Woken
    <2> QED
      BY <2>1, ThreadsAssumption, FS_Subset, FS_CardinalityType
  <1>3. ASSUME UNCHANGED <<current, swallowed, Woken, Sleepers>>,
               \A u \in Threads : pc'[u] = "signal" <=> pc[u] = "signal",
               \A u \in Threads : pc[u] = "signal" => arg'[u] = arg[u]
        PROVE  Covered'
    BY <1>3 DEF Covered, NoLostWakeup
  <1>4. CASE UNCHANGED vars
    BY <1>3, <1>4 DEF vars, Woken, Sleepers
  <1>5. ASSUME NEW t \in Threads, Outside(t), UNCHANGED <<swallowed, Woken, Sleepers>>
        PROVE  Covered'
    BY <1>1, <1>3, <1>5, OutsideFrame DEF Section, Holds
  <1>6. ASSUME NEW t \in Threads,
               \/ TryFails(t) \/ PollFails(t) \/ NapEnds(t) \/ PollExpires(t)
               \/ PostInvalid(t) \/ PostReads(t) \/ PostRefuses(t) \/ PostPasses(t) \/ PostFull(t)
        PROVE  Covered'
    <2>1. UNCHANGED <<Woken, Sleepers>>
      BY <1>1, <1>6
      DEF TryFails, PollFails, NapEnds, PollExpires, Testing, PostInvalid, PostReads, PostRefuses,
          PostPasses, PostFull, Posting, Return, Woken, Sleepers, TypeOK, Blocking
    <2>2. UNCHANGED swallowed
      BY <1>6 DEF TryFails, PollFails, NapEnds, PollExpires, PostInvalid, PostReads, PostRefuses,
                  PostPasses, PostFull
    <2> QED
      BY <1>5, <1>6, <2>1, <2>2 DEF Outside
  <1>7. ASSUME NEW t \in Threads, CallWait(t) \/ CallPoll(t) \/ CallPost(t) \/ SetMax(t)
        PROVE  Covered'
    <2>1. UNCHANGED <<swallowed, Woken, Sleepers>>
      BY <1>1, <1>7 DEF CallWait, CallPoll, CallPost, SetMax, Enter, Woken, Sleepers, TypeOK
    <2> QED
      BY <1>5, <1>7, <2>1 DEF Outside
  <1>8. ASSUME NEW t \in Threads, Take(t) PROVE Covered'
    <2>1. /\ Sleepers' = Sleepers /\ current' = current - 1 /\ swallowed' = swallowed
          /\ \A u \in Threads : pc[u] # "signal" /\ pc'[u] # "signal"
      BY <1>1, <1>8 DEF Take, Testing, MutexFree, Holds, Return, Sleepers, TypeOK
    <2>2. CASE t \in Woken
      <3>1. Woken' = Woken \ {t}
        BY <1>1, <1>8, <2>2 DEF Take, Return, Woken, TypeOK
      <3>2. Cardinality(Woken') = Cardinality(Woken) - 1
        BY <2>2, <3>1, WokenLoses
      <3> QED
        BY <1>1, <2>1, <3>2 DEF Covered, NoLostWakeup
    <2>3. CASE t \notin Woken
      <3>1. Woken' = Woken
        BY <1>1, <1>8, <2>3 DEF Take, Return, Woken, TypeOK
      <3> QED
        BY <1>1, <2>1, <3>1 DEF Covered, NoLostWakeup
    <2> QED
      BY <2>2, <2>3
  <1>9. ASSUME NEW t \in Threads, Sleep(t) \/ WaitError(t) PROVE Covered'
    <2>1. /\ current' = 0 /\ swallowed' = swallowed
          /\ \A u \in Threads : pc'[u] # "signal"
      BY <1>1, <1>9 DEF Sleep, WaitError, Available, Testing, MutexFree, Holds, Return, TypeOK
    <2> QED
      BY <1>1, <1>2, <2>1 DEF Covered, NoLostWakeup
  <1>10. ASSUME NEW t \in Threads, SpuriousWakeup(t) PROVE Covered'
    <2>1. t \notin Woken /\ Woken' = Woken \cup {t} /\ Sleepers' \subseteq Sleepers
      BY <1>1, <1>10 DEF SpuriousWakeup, Woken, Sleepers, TypeOK
    <2>2. /\ UNCHANGED <<current, swallowed, arg>>
          /\ \A u \in Threads : pc'[u] = "signal" <=> pc[u] = "signal"
      BY <1>1, <1>10 DEF SpuriousWakeup, TypeOK
    <2>3. Cardinality(Woken') = Cardinality(Woken) + 1
      BY <2>1, WokenGains
    <2>4. Sleepers' # {} => Sleepers # {}
      BY <2>1
    <2>5. NoLostWakeup'
      BY <1>1, <2>2, <2>3, <2>4 DEF Covered, NoLostWakeup
    <2>6. ASSUME NEW u \in Threads, Sleepers' # {}, pc'[u] = "signal"
          PROVE  current' - arg'[u] <= Cardinality(Woken') + swallowed'
      <3>1. current - arg[u] <= Cardinality(Woken) + swallowed
        BY <2>2, <2>4, <2>6 DEF Covered
      <3> QED
        BY <1>1, <2>2, <2>3, <3>1
    <2> QED
      BY <2>5, <2>6 DEF Covered
  <1>11. ASSUME NEW t \in Threads, Timeout(t) PROVE Covered'
    <2>1. /\ Woken' = Woken /\ Sleepers' \subseteq Sleepers
          /\ \A u \in Threads : pc[u] # "signal" /\ pc'[u] # "signal"
      BY <1>1, <1>11 DEF Timeout, MutexFree, Holds, Return, Woken, Sleepers, TypeOK
    <2> QED
      BY <1>1, <1>11, <2>1 DEF Timeout, Covered, NoLostWakeup
  <1>12. ASSUME NEW t \in Threads, SwallowingTimeout(t) PROVE Covered'
    <2>1. /\ t \in Woken /\ Woken' = Woken \ {t} /\ Sleepers' = Sleepers
          /\ \A u \in Threads : pc[u] # "signal" /\ pc'[u] # "signal"
      BY <1>1, <1>12 DEF SwallowingTimeout, MutexFree, Holds, Return, Woken, Sleepers, TypeOK
    <2>2. current' = current /\ swallowed' = swallowed + 1
      BY <1>12 DEF SwallowingTimeout
    <2>3. Cardinality(Woken') = Cardinality(Woken) - 1
      BY <2>1, WokenLoses
    <2> QED
      BY <1>1, <2>1, <2>2, <2>3 DEF Covered, NoLostWakeup
  <1>13. ASSUME NEW t \in Threads, PostTests(t) PROVE Covered'
    <2>1. UNCHANGED <<current, swallowed, arg, Woken, Sleepers>>
      BY <1>1, <1>13 DEF PostTests, Posting, Woken, Sleepers, TypeOK
    <2>2. \A u \in Threads : pc'[u] = "signal" <=> pc[u] = "signal"
      BY <1>1, <1>13 DEF PostTests, Posting, TypeOK
    <2> QED
      BY <1>3, <2>1, <2>2
  <1>14. ASSUME NEW t \in Threads, PostAdds(t) PROVE Covered'
    <2>1. current' = current + arg[t]
      BY <1>1, <1>14, PostAddsExactly
    <2>2. UNCHANGED <<swallowed, arg, Woken, Sleepers>>
      BY <1>1, <1>14 DEF PostAdds, Woken, Sleepers, TypeOK
    <2>3. \A u \in Threads : pc[u] # "signal" /\ (pc'[u] = "signal" <=> u = t)
      BY <1>1, <1>14 DEF PostAdds, Section, OneHolder, Holds, TypeOK
    <2>4. ASSUME Sleepers # {} PROVE current' - arg'[t] <= Cardinality(Woken) + swallowed
      BY <1>1, <1>14, <2>1, <2>2, <2>3, <2>4 DEF Covered, NoLostWakeup
    <2> QED
      BY <2>2, <2>3, <2>4 DEF Covered, NoLostWakeup
  <1>15. ASSUME NEW t \in Threads, PostSignals(t) PROVE Covered'
    <2>1. PICK roused \in Rousable(arg[t]) :
            pc' = [u \in Threads |->
                     IF u = t THEN "idle" ELSE IF u \in roused THEN "woken" ELSE pc[u]]
      BY <1>15 DEF PostSignals
    <2>2. Woken' = Woken \cup roused /\ Sleepers' = Sleepers \ roused
      BY <1>1, <1>15, <2>1 DEF PostSignals, Rousable, Woken, Sleepers, TypeOK
    <2>3. \A u \in Threads : pc'[u] # "signal"
      BY <1>1, <1>15, <2>1 DEF PostSignals, Section, OneHolder, Holds
    <2>4. CASE Sleepers' = {}
      BY <2>3, <2>4 DEF Covered, NoLostWakeup
    <2>5. CASE Sleepers' # {}
      <3>1. arg[t] = 1 /\ \E u \in Sleepers : roused = {u}
        BY <2>1, <2>2, <2>5 DEF Rousable
      <3>2. PICK u \in Sleepers : roused = {u}
        BY <3>1
      <3>3. Cardinality(Woken') = Cardinality(Woken) + 1
        BY <2>2, <3>2, WokenGains DEF Woken, Sleepers
      <3>4. current' = current /\ swallowed' = swallowed
        BY <1>15 DEF PostSignals
      <3>5. current - 1 <= Cardinality(Woken) + swallowed
        BY <1>15, <3>1, <3>2 DEF Covered, PostSignals
      <3> QED
        BY <1>1, <2>3, <3>3, <3>4, <3>5 DEF Covered, NoLostWakeup
    <2> QED
      BY <2>4, <2>5
  <1>16. ASSUME NEW t \in Threads, PostUndoes(t) PROVE Covered'
    <2>1. current' = current - arg[t]
      BY <1>1, <1>16, PostUndoesExactly DEF IInv
    <2>2. UNCHANGED <<swallowed, Woken, Sleepers>>
      BY <1>1, <1>16 DEF PostUndoes, Return, Woken, Sleepers, TypeOK
    <2>3. \A u \in Threads : pc'[u] # "signal"
      BY <1>1, <1>16 DEF PostUndoes, Return, Section, OneHolder, Holds, TypeOK
    <2>4. Sleepers # {} => current - arg[t] <= Cardinality(Woken) + swallowed
      BY <1>16 DEF Covered, PostUndoes
    <2> QED
      BY <2>1, <2>2, <2>3, <2>4 DEF Covered, NoLostWakeup
  <1> QED
    BY <1>4, <1>6, <1>7, <1>8, <1>9, <1>10, <1>11, <1>12, <1>13, <1>14, <1>15, <1>16
    DEF Next, WaitStep, PostStep, Environment

\* However many threads wait, post, time out and wake spuriously: a token can sit
\* beside a blocked thread only while a woken thread is on its way to it, while a Post
\* is about to signal, or when timeouts consumed signals, one token for each.
THEOREM NoWakeupIsLost == AmountsFitInt32 => (Spec => []NoLostWakeup)
  <1>1. Init => Covered
    BY DEF Init, Covered, NoLostWakeup, Sleepers
  <1>2. ASSUME AmountsFitInt32
        PROVE  IInv /\ Covered /\ [Next]_vars => IInv' /\ Covered'
    BY <1>2, NextIInv, NextCovered
  <1>3. Covered => NoLostWakeup
    BY DEF Covered
  <1>4. ASSUME AmountsFitInt32 PROVE Spec => []NoLostWakeup
    BY <1>1, <1>2, <1>3, <1>4, InitIInv, PTL DEF Spec
  <1> QED
    BY <1>4

-----------------------------------------------------------------------------
\* What raises the count is an addition, and undoing one never does.
LEMMA OnlyPostAdds ==
    ASSUME Section, [Next]_vars, current' > current,
           \A t \in Threads : PostUndoes(t) => ~(current' > current)
    PROVE  \E t \in Threads : PostAdds(t)
  <1>1. ~UNCHANGED vars
    BY DEF vars, Section, Shapes
  <1>2. PICK t \in Threads :
              \/ Outside(t) \/ Take(t)
              \/ PostTests(t) \/ PostAdds(t) \/ PostSignals(t) \/ PostUndoes(t)
    BY <1>1, StepKinds
  <1>3. ~Outside(t)
    BY OutsideFrame DEF Section, Shapes
  <1>4. ~Take(t) /\ ~PostTests(t) /\ ~PostSignals(t)
    <2>1. current \in Int /\ current' > current
      BY DEF Section, Shapes
    <2>2. current' # current /\ current' # current - 1
      BY <2>1
    <2> QED
      BY <2>2 DEF Take, PostTests, PostSignals
  <1>5. ~PostUndoes(t)
    OBVIOUS
  <1> QED
    BY <1>2, <1>3, <1>4, <1>5

\* The unlocked test of Post decides nothing that its locked repetition does not
\* decide again: the count rises past the maximum in force only if SetMax has changed
\* that between the repetition and the addition.
THEOREM PostStaysWithinMaximum == AmountsFitInt32 => (Spec => PostWithinMaximum)
  <1> DEFINE Within == current' > current => current' <= maximum \/ granted # maximum
  <1>1. ASSUME AmountsFitInt32, IInv, [Next]_vars, current' > current, granted = maximum
        PROVE  current' <= maximum
    <2>1. \A t \in Threads : PostUndoes(t) => ~(current' > current)
      BY <1>1, PostUndoesExactly DEF IInv, TypeOK
    <2>2. PICK t \in Threads : PostAdds(t)
      BY <1>1, <2>1, OnlyPostAdds DEF IInv
    <2> QED
      BY <1>1, <2>2, PostAddsExactly DEF IInv
  <1>2. ASSUME AmountsFitInt32 PROVE IInv /\ [Next]_vars => [Within]_vars
    BY <1>1, <1>2
  <1> HIDE DEF Within
  <1>3. ASSUME AmountsFitInt32 PROVE Spec => [][Within]_vars
    <2>1. Spec => []IInv
      BY <1>3, IInvHolds
    <2>2. IInv /\ [Next]_vars => [Within]_vars
      BY <1>2, <1>3
    <2> QED
      BY <2>1, <2>2, PTL DEF Spec
  <1>4. ASSUME AmountsFitInt32 PROVE Spec => PostWithinMaximum
    BY <1>3, <1>4, PTL DEF PostWithinMaximum, Within
  <1> QED
    BY <1>4

\* Sums that do not fit Int32 are the only exception to semaphore.hh:28: otherwise no
\* Post gets past its test unless the count and i_num together are at most the maximum
\* that line 215 has read, whatever other posts, waits and SetMax do meanwhile.
THEOREM ExcessIsRefused == AmountsFitInt32 => (Spec => PostRefusesExcess)
  <1> DEFINE Refuses ==
        \A t \in Threads : pc[t] = "add" /\ pc'[t] = "signal" => current + arg[t] <= granted
  <1>1. ASSUME AmountsFitInt32, IInv, NEW t \in Threads, pc[t] = "add"
        PROVE  current + arg[t] <= granted
    <2>1. arg[t] \in PostAmounts /\ current \in 0..MAXIMUM_COUNT
      BY <1>1 DEF IInv, TypeOK
    <2>2. arg[t] > 0
      BY <1>1 DEF IInv, TypeOK
    <2>3. Int32(current + arg[t]) = current + arg[t]
      BY <1>1, <2>1, <2>2, NoWrap
    <2> QED
      BY <1>1, <2>3 DEF IInv, Section, Granted
  <1>2. ASSUME AmountsFitInt32 PROVE IInv /\ [Next]_vars => [Refuses]_vars
    BY <1>1, <1>2
  <1> HIDE DEF Refuses
  <1>3. ASSUME AmountsFitInt32 PROVE Spec => [][Refuses]_vars
    <2>1. Spec => []IInv
      BY <1>3, IInvHolds
    <2>2. IInv /\ [Next]_vars => [Refuses]_vars
      BY <1>2, <1>3
    <2> QED
      BY <2>1, <2>2, PTL DEF Spec
  <1>4. ASSUME AmountsFitInt32 PROVE Spec => PostRefusesExcess
    BY <1>3, <1>4, PTL DEF PostRefusesExcess, Refuses
  <1> QED
    BY <1>4

-----------------------------------------------------------------------------
(* The refinement, where nobody calls SetMax: the maximum is then the one  *)
(* the constructor set, and a Post whose unlocked test is bound to fail    *)
(* can be said to have failed when it read the count.  A Post takes effect *)
(* with its addition or, where the signal may fail, with its signal.       *)

\* The maximum cannot change under a Post that holds l_mtx.
RInv == IInv /\ \A t \in Threads : Holds(t) => granted = maximum

\* Every step keeps this.
LEMMA NextRInv ==
    ASSUME AmountsFitInt32, SetMaxArgs = {}, RInv, [Next]_vars
    PROVE  RInv'
  <1> DEFINE Same == \A t \in Threads : Holds(t) => granted = maximum
  <1>1. TypeOK /\ Section /\ IInv'
    BY NextIInv DEF RInv, IInv
  <1>2. CASE UNCHANGED vars
    BY <1>1, <1>2 DEF vars, RInv, Holds
  <1>3. ASSUME NEW t \in Threads, Outside(t) PROVE Same'
    <2>1. maximum' = maximum
      BY <1>3
      DEF Outside, TryFails, Sleep, PollFails, NapEnds, PollExpires, PostInvalid, PostReads,
          PostRefuses, PostPasses, PostFull, CallWait, CallPoll, CallPost, Enter, SetMax,
          SpuriousWakeup, Timeout, SwallowingTimeout, WaitError, Return, Leave
    <2>2. granted' = granted /\ \A u \in Threads : Holds(u)' => Holds(u)
      BY <1>1, <1>3, OutsideFrame DEF Section, Holds
    <2> QED
      BY <2>1, <2>2 DEF RInv
  <1>4. ASSUME NEW t \in Threads, Take(t) \/ PostTests(t) \/ PostAdds(t) PROVE Same'
    BY <1>1, <1>4 DEF Take, PostTests, PostAdds, Testing, Posting, MutexFree, Return, Leave,
                      RInv, Holds, TypeOK
  <1>5. ASSUME NEW t \in Threads, PostSignals(t) \/ PostUndoes(t) PROVE Same'
    <2>1. \A u \in Threads : ~Holds(u)'
      BY <1>1, <1>5 DEF PostSignals, PostUndoes, Return, Section, OneHolder, Holds, TypeOK
    <2> QED
      BY <2>1
  <1> QED
    BY <1>1, <1>2, <1>3, <1>4, <1>5, StepKinds DEF RInv

\* What the mapping says of the count, before and after a step.
LEMMA CountBars ==
    ASSUME IInv, IInv'
    PROVE  /\ (\A t \in Threads : ~Added(t)) => countBar = current
           /\ \A t \in Threads : Added(t) =>
                 countBar = IF SignalMayFail THEN current - arg[t] ELSE current
           /\ (\A t \in Threads : ~Added(t)') => countBar' = current'
           /\ \A t \in Threads : Added(t)' =>
                 countBar' = IF SignalMayFail THEN current' - arg'[t] ELSE current'
  <1>1. /\ \A t, u \in Threads : Added(t) /\ Added(u) => t = u
        /\ \A t, u \in Threads : Added(t)' /\ Added(u)' => t = u
    BY DEF IInv, Section, OneHolder, Holds, Added
  <1>2. ASSUME NEW t \in Threads, Added(t)
        PROVE  countBar = IF SignalMayFail THEN current - arg[t] ELSE current
    <2>1. (CHOOSE u \in Threads : Added(u)) = t
      BY <1>1, <1>2
    <2> QED
      BY <1>2, <2>1 DEF countBar
  <1>3. ASSUME NEW t \in Threads, Added(t)'
        PROVE  countBar' = IF SignalMayFail THEN current' - arg'[t] ELSE current'
    <2>1. (CHOOSE u \in Threads : Added(u)') = t
      BY <1>1, <1>3
    <2> QED
      BY <1>3, <2>1 DEF countBar
  <1>4. /\ (\A t \in Threads : ~Added(t)) => countBar = current
        /\ (\A t \in Threads : ~Added(t)') => countBar' = current'
    BY DEF countBar
  <1> QED
    BY <1>2, <1>3, <1>4

\* A step outside does not move it.
LEMMA CountKept ==
    ASSUME IInv, IInv', NEW t \in Threads, Outside(t)
    PROVE  countBar' = countBar /\ \A u \in Threads : Settled(u)' = Settled(u)
  <1>1. /\ current' = current
        /\ \A u \in Threads : Added(u)' = Added(u)
        /\ \A u \in Threads : Added(u) => arg'[u] = arg[u]
    BY OutsideFrame DEF IInv, Section, Added, Holds
  <1>2. countBar' = countBar
    <2>1. CASE \A u \in Threads : ~Added(u)
      BY <1>1, <2>1, CountBars
    <2>2. ASSUME NEW u \in Threads, Added(u) PROVE countBar' = countBar
      BY <1>1, <2>2, CountBars
    <2> QED
      BY <2>1, <2>2
  <1> QED
    BY <1>1, <1>2 DEF Settled

\* What a step of thread t leaves alone for all others.
Others(t) ==
    \A u \in Threads \ {t} :
        /\ call'[u] = call[u] /\ arg'[u] = arg[u] /\ ret'[u] = ret[u]
        /\ Refused(u)' = Refused(u) /\ Settled(u)' = Settled(u)

\* Seen from the abstract semaphore, such a step concerns t alone.
LEMMA OneThreadMoves ==
    ASSUME TypeOK, TypeOK', NEW t \in Threads, Others(t)
    PROVE  /\ pendingBar' = [pendingBar EXCEPT ![t] = pendingBar'[t]]
           /\ amountBar' = [amountBar EXCEPT ![t] = amountBar'[t]]
           /\ replyBar' = [replyBar EXCEPT ![t] = replyBar'[t]]
  <1>1. pendingBar' = [pendingBar EXCEPT ![t] = pendingBar'[t]]
    BY DEF Others, pendingBar
  <1>2. amountBar' = [amountBar EXCEPT ![t] = amountBar'[t]]
    BY DEF Others, amountBar
  <1>3. replyBar' = [replyBar EXCEPT ![t] = replyBar'[t]]
    BY DEF Others, replyBar
  <1> QED
    BY <1>1, <1>2, <1>3

\* A thread that is not comparing has not failed yet, and one that has not added
\* anything has not succeeded.
LEMMA NotDone ==
    ASSUME NEW t \in Threads
    PROVE  /\ pc[t] # "compare" => ~Refused(t)
           /\ pc[t] # "signal" => ~Settled(t)
  BY DEF Refused, Settled, Added

\* Calling.
LEMMA InvokeImplements ==
    ASSUME TypeOK, TypeOK', NEW t \in Threads, NEW kind, NEW at, NEW m,
           Enter(t, kind, at, m), at \notin {"compare", "signal"}, countBar' = countBar,
           kind \in {"infinite", "timed", "try", "poll", "post"}
    PROVE  Promise!Invoke(t, IF kind = "poll" THEN "timed" ELSE kind,
                          IF kind = "post" THEN m ELSE 0)
  <1>1. pc[t] = "idle" /\ call[t] = "none" /\ pc'[t] = at /\ call'[t] = kind /\ arg'[t] = m
    BY DEF Enter, TypeOK
  <1>2. Others(t)
    BY DEF Enter, Others, Refused, Fits, Settled, Added, TypeOK
  <1>3. ~Refused(t) /\ ~Refused(t)' /\ ~Settled(t) /\ ~Settled(t)'
    BY <1>1 DEF Refused, Settled, Added
  <1>4. /\ pendingBar[t] = "none"
        /\ pendingBar'[t] = IF kind = "poll" THEN "timed" ELSE kind
        /\ amountBar'[t] = IF kind = "post" THEN m ELSE 0
        /\ replyBar'[t] = replyBar[t]
    BY <1>1, <1>3 DEF pendingBar, amountBar, replyBar, Enter
  <1>5. replyBar' = replyBar
    BY <1>4, <1>2, OneThreadMoves DEF replyBar
  <1> QED
    BY <1>2, <1>4, <1>5, OneThreadMoves DEF Promise!Invoke, Enter

\* Returning.
LEMMA FinishImplements ==
    ASSUME TypeOK, TypeOK', NEW t \in Threads, NEW answer \in BOOLEAN,
           ~Refused(t), ~Settled(t), Return(t, answer)
    PROVE  Promise!Finish(t, answer)
  <1>1. pc'[t] = "idle" /\ call'[t] = "none" /\ arg'[t] = 0 /\ ret'[t] = answer
    BY DEF Return, Leave, TypeOK
  <1>2. Others(t)
    BY DEF Return, Leave, Others, Refused, Fits, Settled, Added, TypeOK
  <1>3. ~Refused(t)' /\ ~Settled(t)'
    BY <1>1 DEF Refused, Settled, Added
  <1>4. pendingBar'[t] = "none" /\ amountBar'[t] = 0 /\ replyBar'[t] = answer
    BY <1>1, <1>3 DEF pendingBar, amountBar, replyBar
  <1> QED
    BY <1>2, <1>4, OneThreadMoves DEF Promise!Finish, Return, Leave

\* Steps inside a call that the caller cannot see.
LEMMA StepStutters ==
    ASSUME TypeOK, TypeOK', NEW t \in Threads, UNCHANGED <<countBar, maximum, call, ret>>,
           \A u \in Threads : Refused(u)' = Refused(u) /\ Settled(u)' = Settled(u),
           \A u \in Threads : call[u] = "post" => arg'[u] = arg[u]
    PROVE  UNCHANGED Promise!vars
  <1>1. pendingBar' = pendingBar
    BY DEF pendingBar
  <1>2. amountBar' = amountBar
    BY DEF amountBar
  <1>3. replyBar' = replyBar
    BY DEF replyBar
  <1> QED
    BY <1>1, <1>2, <1>3 DEF Promise!vars

\* Every step of Semaphore is a step of the counting semaphore or stutters: only
\* PostReads can be either, and PostRefuses returns what was decided before.
LEMMA NextImplements ==
    ASSUME AmountsFitInt32, SetMaxArgs = {}, RInv, RInv', [Next]_vars
    PROVE  [Promise!Next]_(Promise!vars)
  <1> USE DEF RInv, IInv
  <1>1. CASE UNCHANGED vars
    BY <1>1 DEF vars, Promise!vars, pendingBar, amountBar, replyBar, countBar, Refused, Fits,
                Settled, Added
  <1>2. ASSUME NEW t \in Threads, CallWait(t) \/ CallPoll(t) \/ CallPost(t)
        PROVE  Promise!Next
    <2> countBar' = countBar
      BY <1>2, CountKept DEF Outside
    <2>1. CASE CallWait(t)
      <3>1. PICK kind \in {"infinite", "timed", "try"} : Enter(t, kind, "lock", 0)
        BY <2>1 DEF CallWait, Blocking
      <3>2. Promise!Invoke(t, kind, 0)
        BY <3>1, InvokeImplements
      <3> QED
        BY <3>2 DEF Promise!Next
    <2>2. CASE CallPoll(t)
      <3>1. PICK m \in PollSeconds : Enter(t, "poll", "lock", m)
        BY <2>2 DEF CallPoll
      <3>2. Promise!Invoke(t, "timed", 0)
        BY <3>1, InvokeImplements
      <3> QED
        BY <3>2 DEF Promise!Next
    <2>3. CASE CallPost(t)
      <3>1. PICK m \in PostAmounts : Enter(t, "post", "read", m)
        BY <2>3 DEF CallPost
      <3>2. Promise!Invoke(t, "post", m)
        BY <3>1, InvokeImplements
      <3> QED
        BY <3>2 DEF Promise!Next
    <2> QED
      BY <1>2, <2>1, <2>2, <2>3
  <1>3. ASSUME NEW t \in Threads, Take(t) PROVE Promise!Acquire(t)
    <2>1. /\ pc[t] \notin {"compare", "signal"} /\ current > 0 /\ call[t] \in Waits
          /\ \A u \in Threads : ~Added(u) /\ ~Added(u)'
      BY <1>3 DEF Take, Testing, MutexFree, Holds, Added, Available, Return, TypeOK
    <2>2. ~Refused(t) /\ ~Settled(t) /\ pendingBar[t] \in {"infinite", "timed", "try"}
      BY <2>1, NotDone DEF pendingBar, Waits, Blocking
    <2>3. Promise!Finish(t, TRUE)
      BY <1>3, <2>2, FinishImplements DEF Take
    <2>4. countBar = current /\ countBar' = current'
      BY <2>1, CountBars
    <2> QED
      BY <1>3, <2>1, <2>2, <2>3, <2>4 DEF Take, Promise!Acquire
  <1>4. ASSUME NEW t \in Threads,
               TryFails(t) \/ PollExpires(t) \/ Timeout(t) \/ SwallowingTimeout(t)
               \/ WaitError(t)
        PROVE  Promise!GiveUp(t)
    <2>1. Return(t, FALSE) /\ pc[t] \notin {"compare", "signal"}
      BY <1>4 DEF TryFails, PollExpires, Timeout, SwallowingTimeout, WaitError, Testing
    <2>2. ~Refused(t) /\ ~Settled(t) /\ Promise!Finish(t, FALSE)
      BY <2>1, NotDone, FinishImplements
    <2>3. \/ call[t] = "try" /\ countBar = 0
          \/ call[t] \in {"timed", "poll"}
          \/ call[t] = "infinite" /\ WaitMayFail
      <3>1. CASE TryFails(t)
        <4>1. current = 0 /\ \A u \in Threads : ~Added(u)
          BY <3>1 DEF TryFails, Testing, MutexFree, Holds, Added, Available
        <4> QED
          BY <3>1, <4>1, CountBars DEF TryFails
      <3> QED
        BY <1>4, <3>1 DEF PollExpires, Timeout, SwallowingTimeout, WaitError, Blocking
    <2>5. countBar' = countBar
      BY <1>4, CountKept DEF Outside
    <2>4. pendingBar[t] = IF call[t] = "poll" THEN "timed" ELSE call[t]
      BY <2>2 DEF pendingBar
    <2> QED
      BY <2>2, <2>3, <2>4, <2>5 DEF Promise!GiveUp
  <1>5. ASSUME NEW t \in Threads, Sleep(t) \/ SpuriousWakeup(t) \/ PollFails(t) \/ NapEnds(t)
        PROVE  UNCHANGED Promise!vars
    <2>1. UNCHANGED <<current, maximum, call, ret, seen>>
          /\ \A u \in Threads : call[u] = "post" => arg'[u] = arg[u]
      BY <1>5 DEF Sleep, SpuriousWakeup, PollFails, NapEnds, TypeOK
    <2>3. countBar' = countBar /\ \A u \in Threads : Settled(u)' = Settled(u)
      BY <1>5, CountKept DEF Outside
    <2>2. \A u \in Threads : Refused(u)' = Refused(u)
      BY <1>5 DEF Sleep, SpuriousWakeup, PollFails, NapEnds, Testing, Refused, Fits, TypeOK
    <2> QED
      BY <2>1, <2>2, <2>3, StepStutters
  <1>6. ASSUME NEW t \in Threads, PostInvalid(t) \/ PostFull(t)
        PROVE  Promise!Refuse(t)
    <2>1. Return(t, FALSE) /\ pc[t] \in {"read", "lock"} /\ call[t] = "post"
      BY <1>6 DEF PostInvalid, PostFull, Posting, TypeOK
    <2>2. ~Refused(t) /\ ~Settled(t) /\ Promise!Finish(t, FALSE)
      BY <2>1, NotDone, FinishImplements
    <2>5. countBar' = countBar
      BY <1>6, CountKept DEF Outside
    <2>3. pendingBar[t] = "post" /\ amountBar[t] = arg[t]
      BY <2>1, <2>2 DEF pendingBar, amountBar
    <2>4. arg[t] <= 0 \/ countBar + arg[t] > maximum
      <3>1. arg[t] \in PostAmounts /\ current \in 0..MAXIMUM_COUNT /\ maximum \in Nat
            /\ arg[t] \in Int
        BY <2>1 DEF TypeOK
      <3>3. CASE PostInvalid(t)
        BY <3>3 DEF PostInvalid
      <3>4. CASE PostFull(t)
        <4>1. ~(Int32(current + arg[t]) <= maximum) /\ arg[t] > 0
          BY <2>1, <3>4 DEF PostFull, Posting, StillFits, Fits, TypeOK
        <4>2. Int32(current + arg[t]) = current + arg[t]
          BY <3>1, <4>1, NoWrap
        <4>3. countBar = current
          BY <3>4, CountBars DEF PostFull, Posting, MutexFree, Holds, Added
        <4> QED
          BY <3>1, <4>1, <4>2, <4>3
      <3> QED
        BY <1>6, <3>3, <3>4
    <2> QED
      BY <2>2, <2>3, <2>4, <2>5 DEF Promise!Refuse
  <1>7. ASSUME NEW t \in Threads, PostReads(t)
        PROVE  Promise!Refuse(t) \/ UNCHANGED Promise!vars
    <2>1. /\ pc[t] = "read" /\ call[t] = "post" /\ pc'[t] = "compare"
          /\ seen'[t] = current /\ UNCHANGED <<current, maximum, call, arg, ret>>
      BY <1>7 DEF PostReads, TypeOK
    <2>2. Others(t)
      BY <1>7 DEF PostReads, Others, Refused, Fits, Settled, Added, TypeOK
    <2>3. ~Refused(t) /\ ~Settled(t)
      BY <2>1, NotDone
    <2>6. countBar' = countBar /\ \A u \in Threads : Settled(u)' = Settled(u)
      BY <1>7, CountKept DEF Outside
    <2>4. CASE ~Refused(t)'
      <3>1. \A u \in Threads : Refused(u)' = Refused(u)
        <4> SUFFICES ASSUME NEW u \in Threads PROVE Refused(u)' = Refused(u)
          OBVIOUS
        <4>1. CASE u = t
          BY <2>3, <2>4, <4>1 DEF Refused
        <4>2. CASE u # t
          BY <2>2, <4>2 DEF Others
        <4> QED
          BY <4>1, <4>2
      <3> QED
        BY <2>1, <2>6, <3>1, StepStutters
    <2>5. CASE Refused(t)'
      <3>1. arg[t] \in PostAmounts /\ current \in 0..MAXIMUM_COUNT /\ maximum \in Nat
            /\ arg[t] \in Int
        BY <2>1 DEF TypeOK
      <3>2. countBar + arg[t] > maximum \/ SignalMayFail
        <4>4. arg[t] > 0
          BY <1>7 DEF PostReads
        <4>5. ~SignalMayFail => countBar = current
          BY DEF countBar
        <4>1. ~(Int32(seen'[t] + arg'[t]) <= maximum')
          BY <2>5 DEF Refused, Fits
        <4>2. ~(Int32(current + arg[t]) <= maximum)
          BY <2>1, <4>1
        <4>3. Int32(current + arg[t]) = current + arg[t]
          BY <3>1, <4>4, NoWrap
        <4> QED
          BY <3>1, <4>2, <4>3, <4>5
      <3>3. pendingBar[t] = "post" /\ amountBar[t] = arg[t]
        BY <2>1, <2>3 DEF pendingBar, amountBar
      <3>4. pendingBar'[t] = "none" /\ amountBar'[t] = 0 /\ replyBar'[t] = FALSE
        BY <2>5, <2>3, <2>6 DEF pendingBar, amountBar, replyBar
      <3>5. Promise!Finish(t, FALSE)
        BY <2>1, <2>2, <3>4, OneThreadMoves DEF Promise!Finish
      <3> QED
        BY <2>6, <3>2, <3>3, <3>5 DEF Promise!Refuse
    <2> QED
      BY <2>4, <2>5
  <1>8. ASSUME NEW t \in Threads, PostPasses(t) PROVE UNCHANGED Promise!vars
    <2>1. UNCHANGED <<current, maximum, call, ret, arg>>
      BY <1>8 DEF PostPasses
    <2>2. \A u \in Threads : Refused(u)' = Refused(u)
      BY <1>8 DEF PostPasses, Refused, Fits, TypeOK
    <2>3. countBar' = countBar /\ \A u \in Threads : Settled(u)' = Settled(u)
      BY <1>8, CountKept DEF Outside
    <2> QED
      BY <2>1, <2>2, <2>3, StepStutters
  <1>9. ASSUME NEW t \in Threads, PostRefuses(t) PROVE UNCHANGED Promise!vars
    <2>1. Refused(t) /\ ~Settled(t) /\ Return(t, FALSE) /\ countBar' = countBar
      BY <1>9, CountKept, NotDone DEF PostRefuses, Refused, Outside
    <2>2. Others(t) /\ maximum' = maximum
      BY <2>1 DEF Return, Leave, Others, Refused, Fits, Settled, Added, TypeOK
    <2>3. pc'[t] = "idle" /\ call'[t] = "none" /\ arg'[t] = 0 /\ ret'[t] = FALSE
      BY <2>1 DEF Return, Leave, TypeOK
    <2>4. ~Refused(t)' /\ ~Settled(t)'
      BY <2>3 DEF Refused, Settled, Added
    <2>5. /\ pendingBar'[t] = "none" /\ amountBar'[t] = 0 /\ replyBar'[t] = FALSE
          /\ pendingBar[t] = "none" /\ amountBar[t] = 0 /\ replyBar[t] = FALSE
      BY <2>1, <2>3, <2>4 DEF pendingBar, amountBar, replyBar
    <2>6. pendingBar' = pendingBar /\ amountBar' = amountBar /\ replyBar' = replyBar
      <3>1. /\ pendingBar' = [pendingBar EXCEPT ![t] = "none"]
            /\ amountBar' = [amountBar EXCEPT ![t] = 0]
            /\ replyBar' = [replyBar EXCEPT ![t] = FALSE]
        BY <2>2, <2>5, OneThreadMoves
      <3>2. /\ [pendingBar EXCEPT ![t] = "none"] = pendingBar
            /\ [amountBar EXCEPT ![t] = 0] = amountBar
            /\ [replyBar EXCEPT ![t] = FALSE] = replyBar
        BY <2>5 DEF pendingBar, amountBar, replyBar
      <3> QED
        BY <3>1, <3>2
    <2> QED
      BY <2>1, <2>2, <2>6 DEF Promise!vars
  <1>10. ASSUME NEW t \in Threads, PostTests(t) PROVE UNCHANGED Promise!vars
    <2>1. /\ UNCHANGED <<current, maximum, call, ret, arg, seen>>
          /\ pc[t] = "lock" /\ pc' = [pc EXCEPT ![t] = "add"]
          /\ \A u \in Threads : ~Added(u)
      BY <1>10 DEF PostTests, Posting, MutexFree, Holds, Added
    <2>2. \A u \in Threads : ~Added(u)' /\ Refused(u)' = Refused(u) /\ Settled(u)' = Settled(u)
      BY <2>1 DEF Refused, Fits, Settled, Added, TypeOK
    <2>3. countBar' = countBar
      BY <2>1, <2>2, CountBars
    <2> QED
      BY <2>1, <2>2, <2>3, StepStutters
  <1>11. ASSUME NEW t \in Threads, PostAdds(t) PROVE [Promise!Release(t)]_(Promise!vars)
    <2>1. /\ pc[t] = "add" /\ call[t] = "post" /\ pc' = [pc EXCEPT ![t] = "signal"]
          /\ UNCHANGED <<maximum, call, arg, seen, ret>> /\ granted = maximum
      BY <1>11 DEF PostAdds, Holds, TypeOK
    <2>2. arg[t] \in Nat \ {0} /\ current \in Nat /\ current' = current + arg[t]
          /\ current' <= maximum
      BY <1>11, <2>1, PostAddsExactly DEF TypeOK
    <2>3. ~Added(t) /\ Added(t)' /\ \A u \in Threads \ {t} : ~Added(u) /\ ~Added(u)'
      BY <2>1 DEF Section, OneHolder, Holds, Added, TypeOK
    <2>4. Others(t) /\ ~Refused(t) /\ ~Refused(t)' /\ ~Settled(t)
      BY <2>1, <2>3 DEF Others, Refused, Fits, Settled, TypeOK
    <2>5. countBar = current /\ countBar' = IF SignalMayFail THEN current' - arg[t] ELSE current'
      BY <2>1, <2>3, CountBars
    <2>6. CASE SignalMayFail
      <3>1. \A u \in Threads : Refused(u)' = Refused(u) /\ Settled(u)' = Settled(u)
        <4>1. Refused(t)' = Refused(t) /\ Settled(t)' = Settled(t)
          BY <2>4, <2>6 DEF Refused, Settled
        <4> QED
          BY <2>4, <4>1 DEF Others
      <3>2. countBar' = countBar
        BY <2>2, <2>5, <2>6
      <3> QED
        BY <2>1, <3>1, <3>2, StepStutters
    <2>7. CASE ~SignalMayFail
      <3>1. Settled(t)'
        BY <2>3, <2>7 DEF Settled
      <3>2. /\ pendingBar[t] = "post" /\ amountBar[t] = arg[t]
            /\ pendingBar'[t] = "none" /\ amountBar'[t] = 0 /\ replyBar'[t] = TRUE
        BY <2>1, <2>4, <3>1 DEF pendingBar, amountBar, replyBar
      <3>3. Promise!Finish(t, TRUE)
        BY <2>1, <2>4, <3>2, OneThreadMoves DEF Promise!Finish
      <3> QED
        <4>1. amountBar[t] > 0 /\ countBar + amountBar[t] <= maximum
              /\ countBar' = countBar + amountBar[t]
          BY <2>2, <2>5, <2>7, <3>2
        <4> QED
          BY <3>2, <3>3, <4>1 DEF Promise!Release
    <2> QED
      BY <2>6, <2>7
  <1>12. ASSUME NEW t \in Threads, PostSignals(t) PROVE [Promise!Release(t)]_(Promise!vars)
    <2>1. /\ pc[t] = "signal" /\ call[t] = "post" /\ Leave(t, TRUE) /\ current' = current
          /\ arg[t] > 0 /\ arg[t] \in Int /\ current \in Int /\ current <= maximum
      <3>1. pc[t] = "signal" /\ Leave(t, TRUE) /\ current' = current
        BY <1>12 DEF PostSignals
      <3>2. call[t] = "post" /\ arg[t] > 0 /\ arg[t] \in Int /\ current \in Int
        BY <3>1 DEF TypeOK
      <3>3. current <= granted /\ granted = maximum
        BY <3>1 DEF Section, Granted, Holds
      <3> QED
        BY <3>1, <3>2, <3>3
    <2>2. PICK roused \in SUBSET Sleepers :
            pc' = [u \in Threads |->
                     IF u = t THEN "idle" ELSE IF u \in roused THEN "woken" ELSE pc[u]]
      BY <1>12 DEF PostSignals, Rousable
    <2>3. Added(t) /\ \A u \in Threads : ~Added(u)' /\ (u # t => ~Added(u))
      BY <2>1, <2>2 DEF Section, OneHolder, Holds, Added
    <2>4. Others(t) /\ ~Refused(t) /\ ~Refused(t)' /\ ~Settled(t)'
      BY <2>1, <2>2, <2>3 DEF Leave, Others, Refused, Fits, Settled, Sleepers, TypeOK
    <2>5. call'[t] = "none" /\ arg'[t] = 0 /\ ret'[t] = TRUE /\ maximum' = maximum
      BY <2>1 DEF Leave, TypeOK
    <2>6. countBar' = current /\ countBar = IF SignalMayFail THEN current - arg[t] ELSE current
      BY <2>1, <2>3, CountBars
    <2>7. pendingBar'[t] = "none" /\ amountBar'[t] = 0 /\ replyBar'[t] = TRUE
      BY <2>4, <2>5 DEF pendingBar, amountBar, replyBar
    <2>8. CASE SignalMayFail
      <3>1. pendingBar[t] = "post" /\ amountBar[t] = arg[t]
        BY <2>1, <2>4, <2>8 DEF pendingBar, amountBar, Settled
      <3>2. Promise!Finish(t, TRUE)
        BY <2>4, <2>5, <2>7, OneThreadMoves DEF Promise!Finish
      <3> QED
        <4>1. amountBar[t] > 0 /\ countBar + amountBar[t] <= maximum
              /\ countBar' = countBar + amountBar[t]
          BY <2>1, <2>6, <2>8, <3>1
        <4> QED
          BY <3>1, <3>2, <4>1 DEF Promise!Release
    <2>9. CASE ~SignalMayFail
      <3>1. pendingBar[t] = "none" /\ amountBar[t] = 0 /\ replyBar[t] = TRUE
        BY <2>3, <2>4, <2>9 DEF pendingBar, amountBar, replyBar, Settled
      <3>2. /\ pendingBar' = [pendingBar EXCEPT ![t] = "none"]
            /\ amountBar' = [amountBar EXCEPT ![t] = 0]
            /\ replyBar' = [replyBar EXCEPT ![t] = TRUE]
        BY <2>4, <2>7, OneThreadMoves
      <3>3. /\ [pendingBar EXCEPT ![t] = "none"] = pendingBar
            /\ [amountBar EXCEPT ![t] = 0] = amountBar
            /\ [replyBar EXCEPT ![t] = TRUE] = replyBar
        BY <3>1 DEF pendingBar, amountBar, replyBar
      <3> QED
        BY <2>5, <2>6, <2>9, <3>2, <3>3 DEF Promise!vars
    <2> QED
      BY <2>8, <2>9
  <1>13. ASSUME NEW t \in Threads, PostUndoes(t) PROVE Promise!Refuse(t)
    <2>1. /\ pc[t] = "signal" /\ call[t] = "post" /\ Return(t, FALSE) /\ SignalMayFail
          /\ current' = current - arg[t]
      BY <1>13, PostUndoesExactly DEF PostUndoes, TypeOK
    <2>2. Added(t) /\ \A u \in Threads : ~Added(u)'
      BY <2>1 DEF Return, Section, OneHolder, Holds, Added, TypeOK
    <2>3. countBar' = countBar
      BY <2>1, <2>2, CountBars
    <2>4. ~Refused(t) /\ ~Settled(t)
      BY <2>1 DEF Refused, Settled
    <2>5. Promise!Finish(t, FALSE)
      BY <2>1, <2>4, FinishImplements
    <2>6. pendingBar[t] = "post"
      BY <2>1, <2>4 DEF pendingBar
    <2> QED
      BY <2>1, <2>3, <2>5, <2>6 DEF Promise!Refuse
  <1>14. ASSUME NEW t \in Threads, SetMax(t) PROVE FALSE
    BY <1>14 DEF SetMax
  <1> HIDE DEF RInv, IInv
  <1> QED
    BY <1>1, <1>2, <1>3, <1>4, <1>5, <1>6, <1>7, <1>8, <1>9, <1>10, <1>11, <1>12, <1>13, <1>14
    DEF Next, WaitStep, PostStep, Environment, Promise!Next

\* The constructor's semaphore is a counting semaphore's initial state.
LEMMA InitImplements == Init => Promise!Init
  BY DEF Init, ValidArguments, Promise!Init, pendingBar, amountBar, replyBar, countBar, Refused,
         Settled, Added

\* Semaphore with its mutex, its sleepers, its polling and the unlocked test of
\* Post implements the counting semaphore for every set of threads and every
\* arguments that fit Int32, as long as nobody calls SetMax.
THEOREM ImplementsPromise ==
    AmountsFitInt32 /\ SetMaxArgs = {} => (Spec => ImplementsCountingSemaphore)
  <1>1. Init => RInv
    BY InitIInv DEF Init, RInv, Holds
  <1>2. ASSUME AmountsFitInt32, SetMaxArgs = {}
        PROVE  RInv /\ [Next]_vars => RInv'
    BY <1>2, NextRInv
  <1>3. ASSUME AmountsFitInt32, SetMaxArgs = {}
        PROVE  RInv /\ RInv' /\ [Next]_vars => [Promise!Next]_(Promise!vars)
    BY <1>3, NextImplements
  <1>4. ASSUME AmountsFitInt32, SetMaxArgs = {}
        PROVE  Spec => ImplementsCountingSemaphore
    BY <1>1, <1>2, <1>3, <1>4, InitImplements, PTL
    DEF Spec, ImplementsCountingSemaphore, Promise!Spec
  <1> QED
    BY <1>4
=============================================================================
