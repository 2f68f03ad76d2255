----------------------------- MODULE ThreadProofs -----------------------------
(***************************************************************************)
(* What Thread.tla guarantees for any callers and any number of runs, as   *)
(* long as the ids the runs draw do not wrap to 0.                         *)
(***************************************************************************)
EXTENDS Thread, FiniteSetTheorems, TLAPS

USE OwnerAssumption, BoundsAssumption, PlatformAssumption

\* The ids of all the runs fit below the modulus: an id of 0 means no thread.
IdsDoNotWrap == 3 * MaxRuns + 4 <= TidModulus

\* An id in use is not 0, and Run has room for the thread it creates.
Ids ==
    /\ tidMax # 0
    /\ pc[Owner] \in {"create", "setTid"} => newTid # 0
    /\ pc[Owner] = "create" => created < MaxRuns

\* The destructor's critical section holds one worker.
OneInSection ==
    \A g \in Workers : wpc[g] = "signal" <=> mutex = g

\* Run left no thread behind, or has not created it yet: whatever the object
\* created earlier has marked its exit.
NoThread ==
    /\ thread \in {0, Dangling}
    /\ tid = 0 /\ ~hasExit /\ pc[Owner] # "setTid"
    /\ \A g \in Workers : g <= created => wpc[g] \in {"signal", "gone"}

\* The object names the newest thread, and it knows whether that thread has
\* marked its exit.
NewestThread ==
    /\ thread = created /\ created # 0
    /\ tid = 0 <=> pc[Owner] = "setTid"
    /\ pc[Owner] # "create"
    /\ hasExit <=> wpc[thread] \in {"signal", "free", "gone"}
    /\ \A g \in Workers : g < created => wpc[g] \in {"signal", "gone"}

\* Who frees the data: the object when the thread has ended before it, the
\* thread otherwise.
LastOneFrees ==
    /\ \A g \in Workers : wpc[g] = "free" => detached
    /\ detached => \A c \in Callers : pc[c] = "idle"
    /\ detached => \A g \in Workers : g <= created /\ g # thread => wpc[g] = "gone"
    /\ freed <=> detached /\ thread \in Workers /\ wpc[thread] = "gone"

\* Who is blocked has seen the thread it waits for created, and if somebody is
\* about to broadcast it does not wait for a thread that still runs.
SleepersTargets ==
    /\ \A c \in Callers : target[c] \in 0..created \cup {Dangling}
    /\ \A c \in Sleepers :
          /\ target[c] # 0
          /\ mutex # 0 => target[c] \notin Existing

IInv ==
    /\ TypeOK
    /\ Ids
    /\ OneInSection
    /\ NoThread \/ NewestThread
    /\ LastOneFrees
    /\ SleepersTargets
    /\ SleepersAreExpected

-----------------------------------------------------------------------------
(* The newest thread is the only one that can exist.                       *)

\* A thread that has not marked its exit is the one the object names, and the
\* object does not take it for ended.
LEMMA NewestExists ==
    ASSUME IInv, NEW g \in Existing
    PROVE  NewestThread /\ g = created /\ g = thread /\ ~hasExit /\ wpc[g] # "signal"
  <1>1. g \in Workers /\ wpc[g] \in {"born", "func", "exiting"} /\ g <= created
    BY DEF Existing, IInv, TypeOK, Workers
  <1>2. NewestThread
    BY <1>1 DEF IInv, NoThread
  <1>3. created \in Nat /\ g \in Nat
    BY <1>1 DEF IInv, TypeOK, Workers
  <1> QED
    BY <1>1, <1>2, <1>3 DEF NewestThread

\* When Run may draw an id no thread exists, although it reads the exit flag
\* without the mutex.
LEMMA RerunnableMeansNoneExists ==
    ASSUME IInv, pc[Owner] # "setTid", Rerunnable
    PROVE  \A g \in Workers : g <= created => wpc[g] \in {"signal", "free", "gone"}
  <1>1. CASE NoThread
    BY <1>1 DEF NoThread
  <1>2. CASE NewestThread
    <2>1. hasExit
      BY <1>2 DEF NewestThread, Rerunnable
    <2>2. created \in Nat /\ \A g \in Workers : g \in Nat
      BY DEF IInv, TypeOK, Workers
    <2> QED
      BY <1>2, <2>1, <2>2 DEF NewestThread
  <1> QED
    BY <1>1, <1>2 DEF IInv

\* A new object has no thread.
LEMMA InitIInv == ASSUME IdsDoNotWrap, Init PROVE IInv
  <1>1. TypeOK
    <2>1. 0 \in 0..TidModulus - 1 /\ 1 \in 0..TidModulus - 1 /\ 0 \in 0..Dangling
          /\ 0 \in 0..MaxRuns /\ \A g \in Workers : g > 0
      BY DEF Workers, Dangling, IdsDoNotWrap
    <2> QED
      BY <2>1 DEF Init, TypeOK
  <1>2. Ids /\ OneInSection /\ NoThread
    BY DEF Init, Ids, OneInSection, NoThread, Workers
  <1>3. LastOneFrees
    BY DEF Init, LastOneFrees, Workers
  <1>4. Sleepers = {} /\ \A c \in Callers : pc[c] = "idle" /\ target[c] = 0
    BY DEF Init, Sleepers
  <1>5. SleepersTargets /\ SleepersAreExpected
    BY <1>4 DEF Init, SleepersTargets, SleepersAreExpected
  <1> QED
    BY <1>1, <1>2, <1>3, <1>5 DEF IInv

\* Run draws an id when no thread exists.
LEMMA RunIInv ==
    ASSUME IdsDoNotWrap, IInv, NEW c \in Callers, Run(c)
    PROVE  IInv'
  <1>0. c = Owner /\ pc[c] = "idle" /\ pc' = [pc EXCEPT ![c] = "create"]
    BY DEF Run, CallerAt
  <1>1. (tidMax + 3) % TidModulus = tidMax + 3 /\ tidMax + 3 \in 0..TidModulus - 1
    BY DEF Run, IInv, TypeOK, IdsDoNotWrap
  <1>2. TypeOK'
    <2>1. tid' \in 0..TidModulus - 1 /\ newTid' \in 0..TidModulus - 1
          /\ tidMax' \in 0..TidModulus - 1
      BY <1>1 DEF Run, IInv, TypeOK
    <2>3. thread' \in 0..Dangling
      BY DEF Run, IInv, TypeOK, Dangling
    <2>4. hasExit' \in BOOLEAN
      BY DEF Run, IInv, TypeOK
    <2>2. pc' \in [Callers -> {"idle", "wait", "timedWait", "kill", "woken", "spurious",
                              "killSpurious", "create", "setTid"}]
          /\ \A d \in Callers : pc'[d] \in {"create", "setTid"} => d = Owner
      BY <1>0 DEF IInv, TypeOK
    <2> QED
      BY <2>1, <2>2, <2>3, <2>4 DEF Run, workers, IInv, TypeOK
  <1>3. Ids'
    BY <1>0, <1>1 DEF Run, workers, IInv, Ids, TypeOK
  <1>4. OneInSection'
    BY DEF Run, workers, IInv, OneInSection
  <1>5. \A g \in Workers : g <= created => wpc[g] \in {"signal", "gone"}
    BY <1>0, RerunnableMeansNoneExists DEF Run, IInv, LastOneFrees
  <1>6. NoThread'
    BY <1>0, <1>5 DEF Run, workers, IInv, TypeOK, NoThread, NewestThread
  <1>7. LastOneFrees'
    BY <1>0 DEF Run, workers, IInv, LastOneFrees
  <1>8. UNCHANGED <<target, mutex, created, wpc, Existing, Aborted>>
    BY DEF Run, workers, Existing, Aborted
  <1>9. Sleepers' = Sleepers /\ \A d \in Callers : pc'[d] = "woken" => pc[d] = "woken"
    BY <1>0 DEF Sleepers, IInv, TypeOK
  <1>10. SleepersTargets' /\ SleepersAreExpected'
    BY <1>8, <1>9 DEF IInv, SleepersTargets, SleepersAreExpected
  <1> QED
    BY <1>2, <1>3, <1>4, <1>6, <1>7, <1>10 DEF IInv

\* A thread is created: it is the newest one, and nobody waits for it yet.
LEMMA CreateIInv ==
    ASSUME IInv, NEW c \in Callers, Create(c)
    PROVE  IInv'
  <1>0. c = Owner /\ pc[c] = "create" /\ pc' = [pc EXCEPT ![c] = "setTid"]
        /\ created < MaxRuns /\ created \in Nat /\ created + 1 \in Workers /\ ~detached
    BY DEF Create, CallerAt, IInv, TypeOK, Ids, LastOneFrees, Workers
  <1>1. wpc[created + 1] = "none" /\ NoThread
    BY <1>0 DEF IInv, TypeOK, NewestThread
  <1>2. TypeOK'
    <2>1. wpc' \in [Workers -> {"none", "born", "func", "exiting", "signal", "free", "gone",
                               "aborted"}]
      BY <1>0 DEF Create, IInv, TypeOK
    <2>2. \A g \in Workers : wpc'[g] = "none" <=> g > created'
      BY <1>0 DEF Create, IInv, TypeOK, Workers
    <2>3. \A g \in Workers : wpc'[g] = "signal" <=> wpc[g] = "signal"
      BY <1>0, <1>1 DEF Create, IInv, TypeOK
    <2> QED
      BY <1>0, <2>1, <2>2, <2>3 DEF Create, IInv, TypeOK, Workers, Dangling
  <1>3. Ids'
    BY <1>0 DEF Create, IInv, Ids, TypeOK
  <1>4. OneInSection'
    BY <1>0, <1>1 DEF Create, IInv, OneInSection, TypeOK
  <1>5. NewestThread'
    BY <1>0, <1>1 DEF Create, IInv, TypeOK, NoThread, NewestThread, Workers
  <1>6. LastOneFrees'
    BY <1>0, <1>1 DEF Create, IInv, LastOneFrees, TypeOK
  <1>7. Sleepers' = Sleepers /\ \A d \in Callers : pc'[d] = "woken" => pc[d] = "woken"
    BY <1>0 DEF Sleepers, IInv, TypeOK
  <1>8. Existing' = Existing \cup {created + 1} /\ Aborted' = Aborted
    BY <1>0, <1>1 DEF Create, Existing, Aborted, IInv, TypeOK
  <1>9. \A d \in Callers : target'[d] = target[d] /\ target[d] # created + 1
    BY <1>0 DEF Create, IInv, SleepersTargets, Dangling
  <1>10. SleepersTargets'
    <2>1. \A d \in Callers : target'[d] \in 0..created' \cup {Dangling}
      BY <1>0 DEF Create, IInv, SleepersTargets
    <2>2. ASSUME NEW d \in Sleepers
          PROVE  target'[d] # 0 /\ (mutex' # 0 => target'[d] \notin Existing')
      BY <1>8, <1>9 DEF Create, IInv, SleepersTargets, Sleepers
    <2> QED
      BY <1>7, <2>1, <2>2 DEF SleepersTargets
  <1>11. SleepersAreExpected'
    BY <1>0, <1>1, <1>7, <1>8, <1>9 DEF Create, IInv, SleepersAreExpected, TypeOK
  <1> QED
    BY <1>2, <1>3, <1>4, <1>5, <1>6, <1>10, <1>11 DEF IInv

\* pthread_create fails, or the id is published.
LEMMA CreatedOrNotIInv ==
    ASSUME IInv, NEW c \in Callers, CreateFails(c) \/ SetTid(c)
    PROVE  IInv'
  <1>0. c = Owner /\ pc[c] \in {"create", "setTid"} /\ pc' = [pc EXCEPT ![c] = "idle"]
        /\ ~detached
    BY DEF CreateFails, SetTid, CallerAt, IInv, TypeOK, LastOneFrees
  <1>1. UNCHANGED <<hasExit, detached, freed, mutex, tidMax, created, wpc, cancelled,
                   target, ret>>
    BY DEF CreateFails, SetTid, workers
  <1>2. TypeOK'
    BY <1>0, <1>1 DEF CreateFails, SetTid, IInv, TypeOK, Dangling
  <1>3. Ids'
    BY <1>0, <1>1 DEF IInv, Ids, TypeOK
  <1>4. OneInSection'
    BY <1>1 DEF IInv, OneInSection
  <1>5. ASSUME CreateFails(c) PROVE NoThread'
    BY <1>0, <1>1, <1>5 DEF CreateFails, CallerAt, IInv, TypeOK, NoThread, NewestThread
  <1>6. ASSUME SetTid(c) PROVE NewestThread'
    BY <1>0, <1>1, <1>6 DEF SetTid, CallerAt, IInv, TypeOK, Ids, NoThread, NewestThread
  <1>7. LastOneFrees'
    BY <1>0, <1>1 DEF IInv, LastOneFrees, TypeOK
  <1>8. UNCHANGED <<Existing, Aborted>>
    BY <1>1 DEF Existing, Aborted
  <1>9. Sleepers' = Sleepers /\ \A d \in Callers : pc'[d] = "woken" => pc[d] = "woken"
    BY <1>0 DEF Sleepers, IInv, TypeOK
  <1>10. SleepersTargets' /\ SleepersAreExpected'
    BY <1>1, <1>8, <1>9 DEF IInv, SleepersTargets, SleepersAreExpected
  <1> QED
    BY <1>2, <1>3, <1>4, <1>5, <1>6, <1>7, <1>10 DEF IInv

-----------------------------------------------------------------------------
(* The calls that block and return.                                        *)

\* A call that returns leaves the object alone.
LEMMA AnswerIInv ==
    ASSUME IInv, NEW c \in Callers, pc[c] \notin {"create", "setTid"},
           NEW what \in BOOLEAN, Answer(c, what), cancelled' \subseteq Workers
    PROVE  IInv'
  <1>0. UNCHANGED <<tid, thread, hasExit, detached, freed, mutex, tidMax, newTid, created, wpc>>
        /\ pc' = [pc EXCEPT ![c] = "idle"] /\ target' = [target EXCEPT ![c] = 0]
    BY DEF Answer, object
  <1>1. pc'[Owner] = pc[Owner] \/ (pc'[Owner] = "idle" /\ pc[Owner] \notin {"create", "setTid"})
    BY <1>0 DEF IInv, TypeOK
  <1>2. TypeOK'
    BY <1>0 DEF Answer, IInv, TypeOK, Dangling
  <1>3. Ids' /\ OneInSection'
    BY <1>0, <1>1 DEF IInv, Ids, OneInSection
  <1>4. NoThread' \/ NewestThread'
    BY <1>0, <1>1 DEF IInv, NoThread, NewestThread
  <1>5. LastOneFrees'
    BY <1>0 DEF IInv, LastOneFrees, TypeOK
  <1>6. \A d \in Callers : d # c => target'[d] = target[d] /\ pc'[d] = pc[d]
    BY <1>0 DEF IInv, TypeOK
  <1>7. target'[c] = 0 /\ pc'[c] = "idle"
    BY <1>0 DEF IInv, TypeOK
  <1>8. Sleepers' = Sleepers \ {c}
    BY <1>6, <1>7 DEF Sleepers
  <1>9. UNCHANGED <<Existing, Aborted>>
    BY <1>0 DEF Existing, Aborted
  <1>10. SleepersTargets'
    BY <1>0, <1>6, <1>7, <1>8, <1>9 DEF IInv, SleepersTargets, TypeOK
  <1>11. SleepersAreExpected'
    BY <1>0, <1>6, <1>7, <1>8, <1>9 DEF IInv, SleepersAreExpected, Sleepers
  <1> QED
    BY <1>2, <1>3, <1>4, <1>5, <1>10, <1>11 DEF IInv

\* Whoever blocks waits for the newest thread, which has not marked its exit, or
\* for a handle that names no thread.
LEMMA BlockIInv ==
    ASSUME IInv, NEW c \in Callers, NEW at \in {"wait", "timedWait", "kill"}, Block(c, at),
           cancelled' \subseteq Workers
    PROVE  IInv'
  <1>0. UNCHANGED <<tid, thread, hasExit, detached, freed, mutex, tidMax, newTid, created, wpc>>
        /\ pc' = [pc EXCEPT ![c] = at] /\ target' = [target EXCEPT ![c] = thread]
        /\ pc[c] = "idle" /\ ~detached /\ mutex = 0 /\ thread # 0 /\ ~hasExit
    BY DEF Block, Enters, Running, object
  <1>1. pc'[Owner] = pc[Owner] \/ (pc'[Owner] = at /\ pc[Owner] = "idle")
    BY <1>0 DEF IInv, TypeOK
  <1>2. TypeOK'
    BY <1>0 DEF Block, IInv, TypeOK, Dangling
  <1>3. Ids' /\ OneInSection'
    BY <1>0, <1>1 DEF IInv, Ids, OneInSection
  <1>4. NoThread' \/ NewestThread'
    BY <1>0, <1>1 DEF IInv, NoThread, NewestThread
  <1>5. LastOneFrees'
    BY <1>0 DEF IInv, LastOneFrees, TypeOK
  <1>6. \A d \in Callers : d # c => target'[d] = target[d] /\ pc'[d] = pc[d]
    BY <1>0 DEF IInv, TypeOK
  <1>7. target'[c] = thread /\ pc'[c] = at
    BY <1>0 DEF IInv, TypeOK
  <1>8. Sleepers' = Sleepers \cup {c}
    BY <1>6, <1>7 DEF Sleepers
  <1>9. UNCHANGED <<Existing, Aborted>>
    BY <1>0 DEF Existing, Aborted
  <1>10. thread \in Existing \cup Aborted \cup {Dangling} /\ thread \in 0..created \cup {Dangling}
    <2>1. CASE NoThread
      BY <1>0, <2>1 DEF NoThread
    <2>2. CASE NewestThread
      <3>1. created \in Nat /\ created <= MaxRuns /\ created # 0 /\ thread = created
        BY <2>2 DEF IInv, TypeOK, NewestThread
      <3>2. thread \in Workers /\ wpc[thread] # "none"
        BY <3>1 DEF IInv, TypeOK, Workers
      <3>3. wpc[thread] \notin {"signal", "free", "gone"}
        BY <1>0, <2>2 DEF NewestThread
      <3> QED
        BY <3>1, <3>2, <3>3 DEF IInv, TypeOK, Existing, Aborted
    <2> QED
      BY <2>1, <2>2 DEF IInv
  <1>11. SleepersTargets'
    BY <1>0, <1>6, <1>7, <1>8, <1>9, <1>10 DEF IInv, SleepersTargets, TypeOK
  <1>12. SleepersAreExpected'
    BY <1>0, <1>6, <1>7, <1>8, <1>9, <1>10 DEF IInv, SleepersAreExpected, Sleepers
  <1> QED
    BY <1>2, <1>3, <1>4, <1>5, <1>11, <1>12 DEF IInv

\* pthread_cond_wait may return by itself.
LEMMA SpuriousWakeupIInv ==
    ASSUME IInv, NEW c \in Callers, SpuriousWakeup(c)
    PROVE  IInv'
  <1>0. PICK at \in {"spurious", "killSpurious"} : pc' = [pc EXCEPT ![c] = at]
    BY DEF SpuriousWakeup
  <1>1. c \in Sleepers
        /\ UNCHANGED <<tid, thread, hasExit, detached, freed, mutex, tidMax, newTid, created,
                       wpc, cancelled, target, ret>>
    BY DEF SpuriousWakeup, object, workers
  <1>2. pc[c] \notin {"idle", "create", "setTid"} /\ ~detached
    BY <1>1 DEF Sleepers, IInv, LastOneFrees
  <1>3. pc'[Owner] = pc[Owner] \/ (pc'[Owner] = at /\ pc[Owner] \notin {"create", "setTid"})
    BY <1>0, <1>2 DEF IInv, TypeOK
  <1>4. TypeOK'
    BY <1>0, <1>1 DEF IInv, TypeOK
  <1>5. Ids' /\ OneInSection'
    BY <1>1, <1>3 DEF IInv, Ids, OneInSection
  <1>6. NoThread' \/ NewestThread'
    BY <1>1, <1>3 DEF IInv, NoThread, NewestThread
  <1>7. LastOneFrees'
    BY <1>1, <1>2 DEF IInv, LastOneFrees
  <1>8. Sleepers' \subseteq Sleepers /\ \A d \in Callers : pc'[d] = "woken" => pc[d] = "woken"
    BY <1>0 DEF Sleepers, IInv, TypeOK
  <1>9. UNCHANGED <<Existing, Aborted>>
    BY <1>1 DEF Existing, Aborted
  <1>10. SleepersTargets' /\ SleepersAreExpected'
    BY <1>1, <1>8, <1>9 DEF IInv, SleepersTargets, SleepersAreExpected
  <1> QED
    BY <1>4, <1>5, <1>6, <1>7, <1>10 DEF IInv

\* The object is destroyed: it frees the data if the thread has ended.
LEMMA DestroyIInv ==
    ASSUME IInv, NEW c \in Callers, Destroy(c)
    PROVE  IInv'
  <1>0. UNCHANGED <<tid, thread, hasExit, mutex, tidMax, newTid, created, wpc, cancelled, pc,
                   target, ret>>
        /\ ~detached /\ detached' /\ freed' = hasExit /\ mutex = 0
        /\ \A d \in Callers : pc[d] = "idle"
    BY DEF Destroy, workers, LastUser
  <1>1. TypeOK'
    BY <1>0 DEF IInv, TypeOK
  <1>2. Ids' /\ OneInSection' /\ (NoThread' \/ NewestThread')
    BY <1>0 DEF IInv, Ids, OneInSection, NoThread, NewestThread
  <1>3. \A g \in Workers : wpc[g] # "signal" /\ wpc[g] # "free"
    BY <1>0 DEF IInv, OneInSection, LastOneFrees, Workers
  <1>4. LastOneFrees'
    <2>1. CASE NoThread
      <3>1. thread \notin Workers /\ ~hasExit
        BY <2>1 DEF NoThread, Workers, Dangling
      <3>2. \A g \in Workers : g <= created => wpc[g] = "gone"
        BY <2>1, <1>3 DEF NoThread
      <3> QED
        BY <1>0, <1>3, <3>1, <3>2 DEF LastOneFrees
    <2>2. CASE NewestThread
      <3>1. created \in Nat /\ created <= MaxRuns /\ created # 0 /\ thread = created
        BY <2>2 DEF IInv, TypeOK, NewestThread
      <3>2. thread \in Workers /\ \A g \in Workers : g <= created /\ g # thread => g < created
        BY <3>1 DEF Workers
      <3>3. \A g \in Workers : g <= created /\ g # thread => wpc[g] = "gone"
        BY <1>3, <2>2, <3>2 DEF NewestThread
      <3>4. hasExit <=> wpc[thread] = "gone"
        BY <1>3, <2>2, <3>2 DEF NewestThread
      <3> QED
        BY <1>0, <1>3, <3>2, <3>3, <3>4 DEF LastOneFrees
    <2> QED
      BY <2>1, <2>2 DEF IInv
  <1>5. UNCHANGED <<Existing, Aborted, Sleepers>>
    BY <1>0 DEF Existing, Aborted, Sleepers
  <1>6. SleepersTargets' /\ SleepersAreExpected'
    BY <1>0, <1>5 DEF IInv, SleepersTargets, SleepersAreExpected
  <1> QED
    BY <1>1, <1>2, <1>4, <1>6 DEF IInv

-----------------------------------------------------------------------------
(* The created threads.                                                    *)

\* A thread that starts, returns, is cancelled or is aborted: it touches nothing
\* but itself.
LEMMA InsideIInv ==
    ASSUME IInv, NEW g \in Workers, NEW from \in {"born", "func", "exiting"},
           NEW to \in {"func", "exiting", "aborted"}, WorkerAt(g, from, to),
           UNCHANGED <<object, mutex, tidMax, newTid, created, cancelled, pc, target, ret>>
    PROVE  IInv'
  <1>0. wpc[g] = from /\ wpc' = [wpc EXCEPT ![g] = to]
        /\ UNCHANGED <<tid, thread, hasExit, detached, freed, mutex, tidMax, newTid, created,
                       cancelled, pc, target, ret>>
    BY DEF WorkerAt, object
  <1>1. wpc'[g] = to /\ \A h \in Workers : h # g => wpc'[h] = wpc[h]
    BY <1>0 DEF IInv, TypeOK
  <1>2. g \in Existing
    BY <1>0 DEF Existing
  <1>3. NewestThread /\ g = created /\ g = thread /\ ~hasExit
    BY <1>2, NewestExists
  <1>4. TypeOK'
    <2>1. wpc' \in [Workers -> {"none", "born", "func", "exiting", "signal", "free", "gone",
                               "aborted"}]
      BY <1>0 DEF IInv, TypeOK
    <2>2. \A h \in Workers : wpc'[h] = "none" <=> wpc[h] = "none"
      BY <1>0, <1>1
    <2>3. \A h \in Workers : wpc'[h] = "signal" <=> wpc[h] = "signal"
      BY <1>0, <1>1
    <2> QED
      BY <1>0, <2>1, <2>2, <2>3 DEF IInv, TypeOK
  <1>5. Ids' /\ OneInSection'
    BY <1>0, <1>1 DEF IInv, Ids, OneInSection
  <1>6. NewestThread'
    <2>1. \A h \in Workers : h < created => h # g
      BY <1>3 DEF Workers
    <2> QED
      BY <1>0, <1>1, <1>3, <2>1 DEF NewestThread
  <1>7. LastOneFrees'
    BY <1>0, <1>1, <1>3 DEF IInv, LastOneFrees
  <1>8. Sleepers' = Sleepers
    BY <1>0 DEF Sleepers
  <1>9. Existing' \subseteq Existing /\ Existing \subseteq Existing' \cup Aborted'
        /\ Aborted \subseteq Aborted'
    BY <1>0, <1>1 DEF Existing, Aborted
  <1>10. SleepersTargets'
    BY <1>0, <1>8, <1>9 DEF IInv, SleepersTargets
  <1>11. SleepersAreExpected'
    BY <1>0, <1>1, <1>8, <1>9 DEF IInv, SleepersAreExpected
  <1> QED
    BY <1>4, <1>5, <1>6, <1>7, <1>10, <1>11 DEF IInv

\* The newest thread marks its exit.
LEMMA MarkExitIInv ==
    ASSUME IInv, NEW g \in Workers, MarkExit(g)
    PROVE  IInv'
  <1>0. wpc[g] = "exiting" /\ wpc' = [wpc EXCEPT ![g] = "signal"] /\ mutex = 0 /\ mutex' = g
        /\ hasExit' = TRUE
        /\ UNCHANGED <<tid, thread, detached, freed, tidMax, newTid, created, cancelled, pc,
                       target, ret>>
    BY DEF MarkExit, WorkerAt
  <1>1. wpc'[g] = "signal" /\ \A h \in Workers : h # g => wpc'[h] = wpc[h]
    BY <1>0 DEF IInv, TypeOK
  <1>2. g \in Existing /\ g # 0
    BY <1>0 DEF Existing, Workers
  <1>3. NewestThread /\ g = created /\ g = thread
    BY <1>2, NewestExists
  <1>4. TypeOK'
    <2>1. wpc' \in [Workers -> {"none", "born", "func", "exiting", "signal", "free", "gone",
                               "aborted"}]
      BY <1>0 DEF IInv, TypeOK
    <2>2. \A h \in Workers : wpc'[h] = "none" <=> wpc[h] = "none"
      BY <1>0, <1>1
    <2> QED
      BY <1>0, <1>1, <1>2, <2>1, <2>2 DEF IInv, TypeOK
  <1>5. Ids' /\ OneInSection'
    BY <1>0, <1>1, <1>2 DEF IInv, Ids, OneInSection, Workers
  <1>6. NewestThread'
    <2>1. \A h \in Workers : h < created => h # g
      BY <1>3 DEF Workers
    <2> QED
      BY <1>0, <1>1, <1>3, <2>1 DEF NewestThread
  <1>7. LastOneFrees'
    BY <1>0, <1>1, <1>3 DEF IInv, LastOneFrees
  <1>8. Sleepers' = Sleepers
    BY <1>0 DEF Sleepers
  <1>9. Existing' = {} /\ Existing = {g} /\ Aborted' = Aborted
    <2>1. \A h \in Existing : h = g
      BY <1>3, NewestExists
    <2> QED
      BY <1>0, <1>1, <1>2, <2>1 DEF Existing, Aborted
  <1>10. SleepersTargets'
    BY <1>0, <1>8, <1>9 DEF IInv, SleepersTargets
  <1>11. SleepersAreExpected'
    BY <1>0, <1>1, <1>8, <1>9, <1>2 DEF IInv, SleepersAreExpected, OneInSection
  <1> QED
    BY <1>4, <1>5, <1>6, <1>7, <1>10, <1>11 DEF IInv

\* The broadcast wakes every sleeper, and none of them waits for a thread that
\* still runs.
LEMMA BroadcastIInv ==
    ASSUME IInv, NEW g \in Workers, Broadcast(g)
    PROVE  IInv'
  <1> DEFINE to == IF detached THEN "free" ELSE "gone"
  <1>0. wpc[g] = "signal" /\ wpc' = [wpc EXCEPT ![g] = to] /\ mutex' = 0
        /\ UNCHANGED <<tid, thread, hasExit, detached, freed, tidMax, newTid, created,
                       cancelled, target, ret>>
        /\ pc' = [c \in Callers |-> IF c \in Sleepers THEN "woken" ELSE pc[c]]
    BY DEF Broadcast, WorkerAt, ShouldFree, Unlock, Roused, object
  <1>1. wpc'[g] = to /\ \A h \in Workers : h # g => wpc'[h] = wpc[h]
    BY <1>0 DEF IInv, TypeOK
  <1>2. mutex = g /\ mutex # 0 /\ \A h \in Workers : h # g => wpc[h] # "signal"
    BY <1>0 DEF IInv, OneInSection, Workers
  <1>3. pc'[Owner] = pc[Owner] \/ (pc'[Owner] = "woken" /\ pc[Owner] \notin {"create", "setTid"})
    BY <1>0 DEF Sleepers
  <1>4. TypeOK'
    <2>1. wpc' \in [Workers -> {"none", "born", "func", "exiting", "signal", "free", "gone",
                               "aborted"}]
      BY <1>0 DEF IInv, TypeOK
    <2>2. \A h \in Workers : wpc'[h] = "none" <=> wpc[h] = "none"
      BY <1>0, <1>1
    <2>3. \A h \in Workers : wpc'[h] # "signal"
      BY <1>1, <1>2
    <2>4. pc' \in [Callers -> {"idle", "wait", "timedWait", "kill", "woken", "spurious",
                              "killSpurious", "create", "setTid"}]
          /\ \A d \in Callers : pc'[d] \in {"create", "setTid"} => d = Owner
      BY <1>0 DEF IInv, TypeOK
    <2> QED
      BY <1>0, <2>1, <2>2, <2>3, <2>4 DEF IInv, TypeOK
  <1>5. Ids' /\ OneInSection'
    BY <1>0, <1>1, <1>2, <1>3 DEF IInv, Ids, OneInSection, Workers
  <1>6. detached => g = thread
    <2>1. g <= created
      BY <1>0 DEF IInv, TypeOK, Workers
    <2> QED
      BY <1>0, <2>1 DEF IInv, LastOneFrees
  <1>7. NoThread' \/ NewestThread'
    <2>1. ASSUME NoThread PROVE NoThread'
      <3>1. ~detached
        BY <1>6, <2>1 DEF NoThread, Workers, Dangling
      <3> QED
        BY <1>0, <1>1, <1>3, <2>1, <3>1 DEF NoThread
    <2>2. ASSUME NewestThread PROVE NewestThread'
      <3>1. \A h \in Workers : h < created => h # thread
        BY <2>2 DEF NewestThread, Workers
      <3>2. \A h \in Workers : h < created => wpc'[h] \in {"signal", "gone"}
        BY <1>1, <1>6, <2>2, <3>1 DEF NewestThread
      <3>3. wpc'[thread] \in {"signal", "free", "gone"} <=> wpc[thread] \in {"signal", "free", "gone"}
        BY <1>0, <1>1, <2>2 DEF NewestThread, IInv, TypeOK, Workers
      <3> QED
        BY <1>0, <1>3, <2>2, <3>2, <3>3 DEF NewestThread
    <2> QED
      BY <2>1, <2>2 DEF IInv
  <1>8. LastOneFrees'
    <2>1. detached => \A c \in Callers : pc'[c] = "idle"
      BY <1>0 DEF IInv, LastOneFrees, Sleepers
    <2>2. freed' <=> detached' /\ thread' \in Workers /\ wpc'[thread'] = "gone"
      BY <1>0, <1>1, <1>6 DEF IInv, LastOneFrees
    <2> QED
      BY <1>0, <1>1, <1>6, <2>1, <2>2 DEF IInv, LastOneFrees
  <1>9. Sleepers' = {}
    BY <1>0 DEF Sleepers
  <1>10. UNCHANGED <<Existing, Aborted>>
    BY <1>0, <1>1 DEF Existing, Aborted
  <1>11. SleepersTargets'
    BY <1>0, <1>9 DEF IInv, SleepersTargets
  <1>12. SleepersAreExpected'
    BY <1>0, <1>2, <1>9, <1>10 DEF IInv, SleepersAreExpected, SleepersTargets
  <1> QED
    BY <1>4, <1>5, <1>7, <1>8, <1>11, <1>12 DEF IInv

\* The last thread frees the data of a destroyed object.
LEMMA FreeDataIInv ==
    ASSUME IInv, NEW g \in Workers, FreeData(g)
    PROVE  IInv'
  <1>0. wpc[g] = "free" /\ wpc' = [wpc EXCEPT ![g] = "gone"] /\ freed' = TRUE
        /\ UNCHANGED <<tid, thread, hasExit, detached, mutex, tidMax, newTid, created,
                       cancelled, pc, target, ret>>
    BY DEF FreeData, WorkerAt
  <1>1. wpc'[g] = "gone" /\ \A h \in Workers : h # g => wpc'[h] = wpc[h]
    BY <1>0 DEF IInv, TypeOK
  <1>2. detached /\ g <= created /\ g = thread
    <2>1. detached /\ g <= created
      BY <1>0 DEF IInv, TypeOK, LastOneFrees, Workers
    <2> QED
      BY <1>0, <2>1 DEF IInv, LastOneFrees
  <1>3. NewestThread
    BY <1>2 DEF IInv, NoThread, Workers, Dangling
  <1>4. TypeOK'
    <2>1. wpc' \in [Workers -> {"none", "born", "func", "exiting", "signal", "free", "gone",
                               "aborted"}]
      BY <1>0 DEF IInv, TypeOK
    <2>2. \A h \in Workers : wpc'[h] = "none" <=> wpc[h] = "none"
      BY <1>0, <1>1
    <2>3. \A h \in Workers : wpc'[h] = "signal" <=> wpc[h] = "signal"
      BY <1>0, <1>1
    <2> QED
      BY <1>0, <2>1, <2>2, <2>3 DEF IInv, TypeOK
  <1>5. Ids' /\ OneInSection'
    BY <1>0, <1>1 DEF IInv, Ids, OneInSection
  <1>6. NewestThread'
    BY <1>0, <1>1, <1>2, <1>3 DEF NewestThread
  <1>7. LastOneFrees'
    BY <1>0, <1>1, <1>2 DEF IInv, LastOneFrees
  <1>8. UNCHANGED <<Existing, Aborted, Sleepers>>
    BY <1>0, <1>1 DEF Existing, Aborted, Sleepers
  <1>9. SleepersTargets'
    BY <1>0, <1>8 DEF IInv, SleepersTargets
  <1>10. SleepersAreExpected'
    BY <1>0, <1>1, <1>8 DEF IInv, SleepersAreExpected
  <1> QED
    BY <1>4, <1>5, <1>6, <1>7, <1>9, <1>10 DEF IInv

-----------------------------------------------------------------------------
(* The theorems.                                                           *)

\* Every step keeps the invariant.
LEMMA NextIInv ==
    ASSUME IdsDoNotWrap, IInv, [Next]_vars
    PROVE  IInv'
  <1>1. CASE UNCHANGED vars
    <2>1. UNCHANGED <<tid, thread, hasExit, detached, freed, mutex, tidMax, newTid, created, wpc,
                      cancelled, pc, target, ret>>
      BY <1>1 DEF vars, object, workers
    <2>2. UNCHANGED <<Existing, Aborted, Sleepers>>
      BY <2>1 DEF Existing, Aborted, Sleepers
    <2>3. TypeOK' /\ Ids' /\ OneInSection' /\ (NoThread' \/ NewestThread') /\ LastOneFrees'
      BY <2>1 DEF IInv, TypeOK, Ids, OneInSection, NoThread, NewestThread, LastOneFrees
    <2>4. SleepersTargets' /\ SleepersAreExpected'
      BY <2>1, <2>2 DEF IInv, SleepersTargets, SleepersAreExpected
    <2> QED
      BY <2>3, <2>4 DEF IInv
  <1>2. ASSUME NEW g \in Workers, WorkerStep(g) \/ FuncReturns(g) \/ CancelLate(g)
        PROVE  IInv'
    <2>1. CASE Begin(g)
      BY <2>1, InsideIInv DEF Begin
    <2>2. CASE FuncReturns(g) \/ Cancel(g)
      BY <2>2, InsideIInv DEF Cancel, FuncReturns
    <2>3. CASE CancelLate(g)
      BY <2>3, InsideIInv DEF CancelLate
    <2> QED
      BY <1>2, <2>1, <2>2, <2>3, MarkExitIInv, BroadcastIInv, FreeDataIInv DEF WorkerStep
  <1>3. ASSUME NEW c \in Callers, CallerStep(c) PROVE IInv'
    <2>1. CASE Wait(c)
      <3>1. cancelled' \subseteq Workers
        BY <2>1 DEF Wait, IInv, TypeOK
      <3> QED
        BY <2>1, <3>1, BlockIInv DEF Wait
    <2>2. CASE Kill(c)
      <3>1. cancelled' \subseteq Workers
        BY <2>2 DEF Kill, IInv, TypeOK
      <3> QED
        BY <2>2, <3>1, BlockIInv DEF Kill
    <2>3. CASE WaitAtOnce(c) \/ KillNothing(c) \/ Wake(c) \/ Timeout(c)
      <3>1. cancelled' \subseteq Workers
        BY <2>3 DEF WaitAtOnce, KillNothing, Wake, Timeout, IInv, TypeOK
      <3>2. pc[c] \notin {"create", "setTid"}
        BY <2>3 DEF WaitAtOnce, KillNothing, Wake, Timeout, Enters
      <3>3. Answer(c, TRUE) \/ Answer(c, FALSE) \/ Answer(c, thread \notin Existing)
        BY <2>3 DEF WaitAtOnce, KillNothing, Wake, Timeout
      <3>4. (thread \notin Existing) \in BOOLEAN
        OBVIOUS
      <3> QED
        BY <3>1, <3>2, <3>3, <3>4, AnswerIInv
    <2> QED
      BY <1>3, <2>1, <2>2, <2>3, RunIInv, CreateIInv, CreatedOrNotIInv, SpuriousWakeupIInv,
         DestroyIInv
      DEF CallerStep
  <1> QED
    BY <1>1, <1>2, <1>3 DEF Next

\* The invariant holds in every reachable state.
LEMMA Invariant == IdsDoNotWrap => (Spec => []IInv)
  <1>1. ASSUME IdsDoNotWrap PROVE (Init => IInv) /\ (IInv /\ [Next]_vars => IInv')
    BY <1>1, InitIInv, NextIInv
  <1>2. ASSUME IdsDoNotWrap PROVE Spec => []IInv
    BY <1>1, <1>2, PTL DEF Spec
  <1> QED
    BY <1>2

\* The object's data and its callers stay legal; in particular one thread at most
\* is inside the destructor's critical section.
THEOREM TypeCorrect == IdsDoNotWrap => (Spec => []TypeOK)
  <1>1. IInv => TypeOK
    BY DEF IInv
  <1> QED
    BY <1>1, Invariant, PTL

\* Run never starts a second thread beside one that is still in its function,
\* although it tests the id and the exit flag without the mutex.
THEOREM FunctionRunsAlone == IdsDoNotWrap => (Spec => []OneAtATime)
  <1>1. ASSUME IInv PROVE OneAtATime
    <2>1. {g \in Workers : wpc[g] \in {"born", "func"}} \subseteq {created}
      BY <1>1, NewestExists DEF Existing
    <2>2. Cardinality({created}) = 1 /\ IsFiniteSet({created})
      BY FS_Singleton
    <2>3. Cardinality({g \in Workers : wpc[g] \in {"born", "func"}}) <= Cardinality({created})
      BY <2>1, <2>2, FS_Subset
    <2> QED
      BY <2>2, <2>3 DEF OneAtATime
  <1> QED
    BY <1>1, Invariant, PTL

\* THREAD_DATA is not freed under a thread that still uses it, nor under a call.
THEOREM DataIsFreedLast == IdsDoNotWrap => (Spec => []DataOutlivesUsers)
  <1>1. ASSUME IInv PROVE DataOutlivesUsers
    <2>1. SUFFICES ASSUME freed PROVE detached /\ Using = {} /\ \A c \in Callers : pc[c] = "idle"
      BY DEF DataOutlivesUsers
    <2>2. detached /\ thread \in Workers /\ wpc[thread] = "gone"
          /\ \A c \in Callers : pc[c] = "idle"
      BY <1>1, <2>1 DEF IInv, LastOneFrees
    <2>3. ASSUME NEW g \in Workers PROVE wpc[g] \in {"none", "gone"}
      BY <1>1, <2>2, <2>3 DEF IInv, TypeOK, LastOneFrees, Workers
    <2> QED
      BY <2>2, <2>3 DEF Using
  <1> QED
    BY <1>1, Invariant, PTL

\* And the object or the thread frees it, whichever of them ends last, as long as there
\* was a thread that made its exit.  Nothing is claimed of an object whose last Run created
\* no thread or that was never run (tid = 0), nor of a thread that a cancellation hit
\* between the return of its function and its broadcast: their data stays behind.
THEOREM DataIsFreed == IdsDoNotWrap => (Spec => []NothingLeaks)
  <1>1. ASSUME IInv PROVE NothingLeaks
    <2>1. SUFFICES ASSUME detached, Using = {}, tid # 0, created \notin Aborted PROVE freed
      BY DEF NothingLeaks
    <2>2. NewestThread
      BY <1>1, <2>1 DEF IInv, NoThread
    <2>3. created \in Nat /\ created <= MaxRuns /\ created # 0 /\ thread = created
      BY <1>1, <2>2 DEF IInv, TypeOK, NewestThread
    <2>4. thread \in Workers /\ wpc[thread] # "none"
      BY <1>1, <2>3 DEF IInv, TypeOK, Workers
    <2>5. wpc[thread] = "gone"
      BY <1>1, <2>1, <2>3, <2>4 DEF IInv, TypeOK, Using, Aborted
    <2> QED
      BY <1>1, <2>1, <2>4, <2>5 DEF IInv, LastOneFrees
  <1> QED
    BY <1>1, Invariant, PTL

\* Nobody sleeps in Wait or Kill for a thread that has broadcast already, and a
\* broadcast wakes nobody who waits for another thread.
THEOREM SleepersAreWoken == IdsDoNotWrap => (Spec => []SleepersAreExpected)
  <1>1. IInv => SleepersAreExpected
    BY DEF IInv
  <1> QED
    BY <1>1, Invariant, PTL

-----------------------------------------------------------------------------
(* What Wait answers.  The run MCThreadWait shows that a spurious wakeup   *)
(* makes Wait return TRUE while the thread exists; nothing else does.      *)

\* No caller has been woken spuriously, and a caller that is not blocked waits for
\* no thread.
OnlyWoken ==
    \A c \in Callers :
      /\ pc[c] \notin {"spurious", "killSpurious"}
      /\ pc[c] \in {"idle", "create", "setTid"} => target[c] = 0

\* A step of a created thread wakes callers and does nothing else to them.
LEMMA WorkersOnlyWake ==
    ASSUME IInv, NEW g \in Workers, WorkerStep(g) \/ FuncReturns(g) \/ CancelLate(g)
    PROVE  target' = target /\ \A c \in Callers : pc'[c] \in {pc[c], "woken"}
  <1>1. CASE Broadcast(g)
    BY <1>1 DEF Broadcast, Roused
  <1>2. CASE ~Broadcast(g)
    BY <1>2 DEF WorkerStep, FuncReturns, CancelLate, Begin, Cancel, MarkExit, FreeData
  <1> QED
    BY <1>1, <1>2

\* A step of a caller leaves the other callers where they are, and a call that has
\* been blocked returns TRUE only when it has been woken.
LEMMA CallerMoves ==
    ASSUME ~SpuriousWakeups, IInv, OnlyWoken, NEW d \in Callers, CallerStep(d)
    PROVE  /\ \A c \in Callers : c # d => pc'[c] = pc[c] /\ target'[c] = target[c]
           /\ pc'[d] \notin {"spurious", "killSpurious"}
           /\ pc'[d] \in {"idle", "create", "setTid"} => target'[d] = 0
           /\ target[d] # 0 /\ pc'[d] = "idle" /\ ret'[d] => pc[d] = "woken"
  <1> USE DEF OnlyWoken
  <1>0. pc \in [Callers -> {"idle", "wait", "timedWait", "kill", "woken", "spurious",
                           "killSpurious", "create", "setTid"}]
        /\ target \in [Callers -> 0..Dangling] /\ ret \in [Callers -> BOOLEAN]
    BY DEF IInv, TypeOK
  <1>1. CASE Run(d) \/ Create(d) \/ CreateFails(d) \/ SetTid(d)
    BY <1>0, <1>1 DEF Run, Create, CreateFails, SetTid, CallerAt
  <1>2. CASE Wait(d) \/ Kill(d)
    BY <1>0, <1>2 DEF Wait, Kill, Block
  <1>3. CASE WaitAtOnce(d) \/ KillNothing(d)
    BY <1>0, <1>3 DEF WaitAtOnce, KillNothing, Answer, Enters
  <1>4. CASE Wake(d) \/ Timeout(d)
    BY <1>0, <1>4 DEF Wake, Timeout, Answer
  <1>5. CASE SpuriousWakeup(d) \/ Destroy(d)
    BY <1>0, <1>5 DEF SpuriousWakeup, Destroy
  <1> QED
    BY <1>1, <1>2, <1>3, <1>4, <1>5 DEF CallerStep

\* Without spurious wakeups a Wait that has been blocked and returns TRUE means
\* that the thread it waited for has marked its exit.
THEOREM WaitTrueMeansExited ==
    IdsDoNotWrap /\ ~SpuriousWakeups => (Spec => WaitFalseWhileThreadExists)
  <1> DEFINE Truthful ==
        \A c \in Callers :
          target[c] # 0 /\ pc[c] # "killSpurious" /\ pc'[c] = "idle" /\ ret'[c]
             => target[c] \notin Existing
  <1>1. ASSUME Init PROVE OnlyWoken
    BY <1>1 DEF Init, OnlyWoken
  <1>2. ASSUME ~SpuriousWakeups, IInv, OnlyWoken, [Next]_vars PROVE OnlyWoken'
    <2>1. CASE UNCHANGED vars
      BY <1>2, <2>1 DEF vars, OnlyWoken
    <2>2. ASSUME NEW g \in Workers, WorkerStep(g) \/ FuncReturns(g) \/ CancelLate(g)
          PROVE  OnlyWoken'
      BY <1>2, <2>2, WorkersOnlyWake DEF OnlyWoken
    <2>3. ASSUME NEW d \in Callers, CallerStep(d) PROVE OnlyWoken'
      BY <1>2, <2>3, CallerMoves DEF OnlyWoken
    <2> QED
      BY <1>2, <2>1, <2>2, <2>3 DEF Next
  <1>3. ASSUME ~SpuriousWakeups, IInv, OnlyWoken, [Next]_vars PROVE [Truthful]_vars
    <2>1. SUFFICES ASSUME Next, NEW c \in Callers, target[c] # 0, pc'[c] = "idle", ret'[c]
                   PROVE  target[c] \notin Existing
      BY <1>3
    <2>2. pc[c] # "idle"
      BY <1>3, <2>1 DEF OnlyWoken
    <2>3. ASSUME NEW g \in Workers, WorkerStep(g) \/ FuncReturns(g) \/ CancelLate(g)
          PROVE  FALSE
      BY <1>3, <2>1, <2>2, <2>3, WorkersOnlyWake
    <2>4. PICK d \in Callers : CallerStep(d)
      BY <2>1, <2>3 DEF Next
    <2>5. pc[c] = "woken"
      BY <1>3, <2>1, <2>2, <2>4, CallerMoves
    <2> QED
      BY <1>3, <2>5 DEF IInv, SleepersAreExpected
  <1> HIDE DEF Truthful
  <1>4. ASSUME IdsDoNotWrap, ~SpuriousWakeups PROVE Spec => [][Truthful]_vars
    <2>1. Spec => []IInv
      BY <1>4, Invariant
    <2>2. OnlyWoken /\ IInv /\ [Next]_vars => OnlyWoken' /\ [Truthful]_vars
      BY <1>2, <1>3, <1>4
    <2> QED
      BY <1>1, <2>1, <2>2, PTL DEF Spec
  <1>5. ASSUME IdsDoNotWrap, ~SpuriousWakeups PROVE Spec => WaitFalseWhileThreadExists
    BY <1>4, <1>5, PTL DEF WaitFalseWhileThreadExists, Truthful
  <1> QED
    BY <1>5
=============================================================================
