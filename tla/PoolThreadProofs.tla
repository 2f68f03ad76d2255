--------------------------- MODULE PoolThreadProofs ---------------------------
(***************************************************************************)
(* What PoolThread.tla guarantees for any number of jobs.                  *)
(***************************************************************************)
EXTENDS PoolThread, TLAPS

USE BoundsAssumption, ClientAssumption

\* Where the owner is in a Run that goes through, and in its destructor.
Running == pc \in {"create", "resetOut", "args", "readFlag", "writeFlag", "setIn"}
Detaching == pc \in {"func", "wake", "destroyed"}
\* Where the worker is between taking a job and clearing PTDFLAG_ACTIVING.
Working == wpc \in {"func", "call", "exec", "reset", "readFlag", "writeFlag"}
Active == "ACTIVING" \in flag
\* Where the worker may start the job of args.
MayTake ==
    Exists /\ sigIn /\ (wpc = "call" \/ (func /\ wpc \in {"func", "setOut", "test", "wait"}))
\* Nothing is pending and the worker has signalled that.
AtRest == wpc \in {"none", "gone", "test", "wait"} /\ ~sigIn /\ ~Active

\* sig_in stays set while its job is executed.
SignalHeld == wpc \in {"func", "call", "exec", "reset"} => sigIn

\* The worker ends, and the data with it, only for a destructor.
EndsDetached ==
    /\ wpc = "exit" => Detaching
    /\ "DETACHED" \in flag \cup wseen => Detaching
    /\ "DETACHED" \notin seen
    /\ func \/ pc \in {"wake", "destroyed"}
    /\ pc \in {"wake", "destroyed"} => ~func \/ freed
    /\ freed => ~Exists

\* A worker has an id, a handle that names no thread has none, and Kill cancels only a
\* worker.
HandleKnown ==
    /\ Exists => tid
    /\ dangling => ~tid /\ CreateMayFail
    /\ cancelled => Exists \/ Detaching

\* PTDFLAG_STARTING is set as long as there is a worker, in every copy of the flag,
\* unless a Kill has returned early.
StartedKnown ==
    /\ Exists => "STARTING" \in flag
    /\ Running => "STARTING" \in flag
    /\ Active /\ ~Detaching => "STARTING" \in flag
    /\ wpc = "writeFlag" => "STARTING" \in wseen
    /\ pc = "writeFlag" \/ (pc = "writeDtor" /\ Exists) => "STARTING" \in seen
    /\ pc \in {"create", "killFlag", "killOut"} => ~Exists
    /\ pc \in {"readDtor", "writeDtor"} => Exists \/ dangling

\* The jobs are numbered in the order of the calls of Run.
JobsInOrder ==
    /\ args <= job
    /\ pc \in {"run", "create", "resetOut", "args"} => args < job
    /\ pc \in {"readFlag", "writeFlag", "setIn"} => args = job
    /\ pc = "run" \/ Running => job # 0

\* The owner and the worker take turns with the shared fields: in a Run that goes
\* through the worker is between two jobs, and as long as a job is pending or
\* executed PTDFLAG_ACTIVING keeps the owner out.
HandOver ==
    /\ Running => ~sigIn /\ wpc \in {"none", "gone", "setOut", "test", "wait"}
    /\ ~Detaching /\ (sigIn \/ Working) => Active
    /\ pc = "setIn" => Active
    /\ pc # "destroyed" /\ wpc \in {"readFlag", "writeFlag"} => ~sigIn
    /\ pc \in {"killFlag", "killOut"} => ~sigIn

\* A job the worker may start has been accepted and has not been started.
Fresh ==
    /\ MayTake => args \in accepted /\ runs[args] = 0
    /\ \A j \in Jobs : runs[j] <= 1 /\ (runs[j] > 0 => j \in accepted)
    /\ \A j \in Jobs : j > job => runs[j] = 0
    /\ pc = "run" \/ Running => runs[job] = 0

\* An owner that waits before each Run: sig_out is set only when nothing is pending,
\* and it stays set until the next Run resets it.
TakesTurns ==
    /\ sigOut /\ pc \in {"idle", "wait", "run", "create", "resetOut"} => AtRest
    /\ last = "True" /\ pc \in {"idle", "wait", "run", "create", "resetOut"} => sigOut
    /\ pc = "run" \/ Running => last = "True"
    /\ pc \in {"args", "readFlag", "writeFlag", "setIn"} =>
          ~sigOut /\ wpc \in {"none", "gone", "test", "wait"}
    /\ ~Detaching /\ wpc = "setOut" => ~Active /\ ~sigIn
    /\ pc = "killOut" => ~Active
    /\ last # "refused"

IInv ==
    /\ TypeOK
    /\ SignalHeld
    /\ EndsDetached
    /\ HandleKnown
    /\ JobsInOrder
    /\ ~early => StartedKnown
    /\ Orderly => HandOver /\ Fresh
    /\ Orderly /\ disciplined => TakesTurns

-----------------------------------------------------------------------------
(* The actions, by what they are a part of.                                *)

RunBegins == CallRun \/ RunStarts \/ RunRefuses \/ RunContinues \/ Create \/ CreateRefused \/
    CreateFails
RunPublishes == ResetOut \/ SetArgs \/ ReadFlag \/ SetActive \/ SetIn
WaitOrKill == CallWait \/ WaitTrue \/ WaitFalse \/ CallKill \/ KillWakesEarly \/
    KillFlag \/ KillOut
Destroys == CallDestroy \/ DestroyOffline \/ DestroyRunning \/ SetDetached \/ ClearFunc \/
    DestroyWake
WorkerTakes == WTest \/ WCall \/ WReturns
WorkerClears == WReset \/ WReadFlag \/ WWriteFlag \/ WSetOut
WorkerEnds == WExit \/ WDies

\* Every step is one of them.
LEMMA NextIsOneOf ==
    ASSUME [Next]_vars
    PROVE  \/ RunBegins \/ RunPublishes \/ WaitOrKill \/ Destroys
           \/ WorkerTakes \/ WorkerClears \/ WorkerEnds \/ UNCHANGED vars
  BY DEF Next, WorkerStep, OwnerStep, RunBegins, RunPublishes, WaitOrKill, Destroys,
     WorkerTakes, WorkerClears, WorkerEnds

\* Init puts the object where the invariant holds.
LEMMA InitIInv == ASSUME Init PROVE IInv
  <1>1. TypeOK
    <2>1. 0 \in 0..MaxJobs /\ [j \in Jobs |-> 0] \in [Jobs -> Nat]
      OBVIOUS
    <2>2. disciplined \in BOOLEAN
      BY DEF Init
    <2> QED
      BY <2>1, <2>2 DEF Init, TypeOK, Executing
  <1>2. SignalHeld /\ EndsDetached /\ HandleKnown /\ StartedKnown /\ JobsInOrder
    BY DEF Init, SignalHeld, EndsDetached, HandleKnown, StartedKnown, JobsInOrder, Running,
           Detaching, Active, Exists
  <1>3. HandOver /\ Fresh
    BY DEF Init, HandOver, Fresh, MayTake, Running, Working, Detaching, Exists
  <1>4. TakesTurns
    BY DEF Init, TakesTurns, AtRest, Active, Running
  <1> QED
    BY <1>1, <1>2, <1>3, <1>4 DEF IInv

-----------------------------------------------------------------------------
(* Type correctness, part by part.                                         *)

\* The fields that are true or false.
Fields ==
    /\ sigIn \in BOOLEAN /\ sigOut \in BOOLEAN /\ func \in BOOLEAN /\ freed \in BOOLEAN
    /\ tid \in BOOLEAN /\ dangling \in BOOLEAN /\ cancelled \in BOOLEAN
    /\ dirty \in BOOLEAN /\ early \in BOOLEAN /\ disciplined \in BOOLEAN

\* The places in the code.
Placed ==
    /\ pc \in {"idle", "run", "create", "resetOut", "args", "readFlag", "writeFlag",
               "setIn", "wait", "killing", "killFlag", "killOut", "status", "readDtor",
               "writeDtor", "func", "wake", "destroyed"}
    /\ last \in {"none", "accepted", "refused", "notCreated", "True", "False", "killed"}
    /\ wpc \in {"none", "test", "wait", "func", "call", "exec", "reset", "readFlag",
                "writeFlag", "setOut", "exit", "gone"}

\* The copies of the flag.
FlagsTyped == flag \subseteq Flags /\ seen \subseteq Flags /\ wseen \subseteq Flags

\* What ends with the worker.
Ended ==
    /\ cancelled => pc = "killing" \/ early
    /\ freed => pc \in {"writeDtor", "func", "wake", "destroyed"} /\ ~Executing

\* The jobs.
JobsTyped ==
    /\ args \in 0..MaxJobs /\ job \in 0..MaxJobs /\ wjob \in 0..MaxJobs
    /\ accepted \subseteq Jobs /\ done \subseteq Jobs
    /\ runs \in [Jobs -> Nat]

\* Every step keeps them true or false.
LEMMA NextFields ==
    ASSUME IInv, [Next]_vars
    PROVE  Fields'
  <1>0. Fields
    BY DEF IInv, TypeOK, Fields
  <1>1. CASE UNCHANGED vars
    BY <1>0, <1>1 DEF vars, data, thread, owner, worker, history, Fields
  <1>2. CASE RunBegins
    <2>1. CASE CallRun \/ RunStarts
      BY <1>0, <2>1 DEF CallRun, RunStarts, data, thread, history, Fields
    <2>2. CASE RunRefuses \/ RunContinues
      BY <1>0, <2>2 DEF RunRefuses, RunContinues, data, thread, history, Fields
    <2>3. CASE Create
      BY <1>0, <2>3 DEF Create, data, thread, history, Fields
    <2>4. CASE CreateRefused
      BY <1>0, <2>4 DEF CreateRefused, data, thread, history, Fields
    <2>5. CASE CreateFails
      BY <1>0, <2>5 DEF CreateFails, data, thread, history, Fields
    <2> QED
      BY <1>2, <2>1, <2>2, <2>3, <2>4, <2>5 DEF RunBegins
  <1>3. CASE RunPublishes
    <2>1. CASE ResetOut \/ SetArgs
      BY <1>0, <2>1 DEF ResetOut, SetArgs, Raised, data, thread, history, Fields
    <2>2. CASE ReadFlag \/ SetActive
      BY <1>0, <2>2 DEF ReadFlag, SetActive, data, thread, history, Fields
    <2>3. CASE SetIn
      BY <1>0, <2>3 DEF SetIn, data, thread, history, Fields
    <2> QED
      BY <1>3, <2>1, <2>2, <2>3 DEF RunPublishes
  <1>4. CASE WaitOrKill
    <2>1. CASE CallWait \/ WaitTrue \/ WaitFalse
      BY <1>0, <2>1 DEF CallWait, WaitTrue, WaitFalse, data, thread, history, Fields
    <2>2. CASE CallKill
      BY <1>0, <2>2 DEF CallKill, data, thread, history, Fields
    <2>3. CASE KillWakesEarly
      BY <1>0, <2>3 DEF KillWakesEarly, data, thread, history, Fields
    <2>4. CASE KillFlag \/ KillOut
      BY <1>0, <2>4 DEF KillFlag, KillOut, AfterKill, data, thread, history, Fields
    <2> QED
      BY <1>4, <2>1, <2>2, <2>3, <2>4 DEF WaitOrKill
  <1>5. CASE Destroys
    <2>1. CASE CallDestroy \/ DestroyOffline
      BY <1>0, <2>1 DEF CallDestroy, DestroyOffline, data, thread, history, Fields
    <2>2. CASE DestroyRunning
      BY <1>0, <2>2 DEF DestroyRunning, data, thread, history, Fields
    <2>3. CASE SetDetached
      BY <1>0, <2>3 DEF SetDetached, data, thread, history, Fields
    <2>4. CASE ClearFunc \/ DestroyWake
      BY <1>0, <2>4 DEF ClearFunc, DestroyWake, Wakes, data, thread, history, Fields
    <2> QED
      BY <1>5, <2>1, <2>2, <2>3, <2>4 DEF Destroys
  <1>6. CASE WorkerTakes
    <2>1. CASE WTest
      BY <1>0, <2>1 DEF WTest, data, thread, history, Fields
    <2>2. CASE WCall \/ WReturns
      BY <1>0, <2>2 DEF WCall, WReturns, data, thread, history, Fields
    <2> QED
      BY <1>6, <2>1, <2>2 DEF WorkerTakes
  <1>7. CASE WorkerClears
    <2>1. CASE WReset \/ WReadFlag
      BY <1>0, <2>1 DEF WReset, WReadFlag, Pending, data, thread, history, Fields
    <2>2. CASE WWriteFlag \/ WSetOut
      BY <1>0, <2>2 DEF WWriteFlag, WSetOut, data, thread, history, Fields
    <2> QED
      BY <1>7, <2>1, <2>2 DEF WorkerClears
  <1>8. CASE WorkerEnds
    <2>1. CASE WExit
      BY <1>0, <2>1 DEF WExit, data, thread, history, Fields
    <2>2. CASE WDies
      BY <1>0, <2>2 DEF WDies, data, thread, history, Fields
    <2> QED
      BY <1>8, <2>1, <2>2 DEF WorkerEnds
  <1> QED
    BY <1>1, <1>2, <1>3, <1>4, <1>5, <1>6, <1>7, <1>8, NextIsOneOf

\* Every step goes from one place to another.
LEMMA NextPlaced ==
    ASSUME IInv, [Next]_vars
    PROVE  Placed'
  <1>1. CASE UNCHANGED vars
    BY <1>1 DEF vars, data, thread, owner, worker, history, IInv, TypeOK, Placed
  <1>2. CASE RunBegins
    BY <1>2 DEF RunBegins, CallRun, Step, RunStarts, RunRefuses, Busy, RunContinues,
       Create, CreateRefused, CreateFails, data, thread, owner, worker, history, IInv,
       TypeOK, Placed
  <1>3. CASE RunPublishes
    BY <1>3 DEF RunPublishes, ResetOut, Step, Raised, SetArgs, ReadFlag, SetActive, SetIn,
       data, thread, owner, worker, history, IInv, TypeOK, Placed
  <1>4. CASE WaitOrKill
    BY <1>4 DEF WaitOrKill, CallWait, Step, WaitTrue, WaitFalse, CallKill, KillWakesEarly,
       KillFlag, KillOut, AfterKill, data, thread, owner, worker, history, IInv, TypeOK,
       Placed
  <1>5. CASE Destroys
    BY <1>5 DEF Destroys, CallDestroy, Step, DestroyOffline, Offline, DestroyRunning,
       SetDetached, ClearFunc, DestroyWake, Wakes, data, thread, owner, worker, history,
       IInv, TypeOK, Placed
  <1>6. CASE WorkerTakes
    BY <1>6 DEF WorkerTakes, WTest, WStep, WCall, WReturns, data, thread, owner, worker,
       history, IInv, TypeOK, Placed
  <1>7. CASE WorkerClears
    BY <1>7 DEF WorkerClears, WReset, WStep, Pending, WReadFlag, WWriteFlag, Cleared,
       WSetOut, data, thread, owner, worker, history, IInv, TypeOK, Placed
  <1>8. CASE WorkerEnds
    BY <1>8 DEF WorkerEnds, WExit, WStep, WDies, Step, data, thread, owner, worker,
       history, IInv, TypeOK, Placed
  <1> QED
    BY <1>1, <1>2, <1>3, <1>4, <1>5, <1>6, <1>7, <1>8, NextIsOneOf

\* No step invents a flag.
LEMMA NextFlagsTyped ==
    ASSUME IInv, [Next]_vars
    PROVE  FlagsTyped'
  <1>1. CASE UNCHANGED vars
    BY <1>1 DEF vars, data, thread, owner, worker, history, IInv, TypeOK, FlagsTyped, Flags
  <1>2. CASE RunBegins
    BY <1>2 DEF RunBegins, CallRun, Step, RunStarts, RunRefuses, Busy, RunContinues,
       Create, CreateRefused, CreateFails, data, thread, owner, worker, history, IInv,
       TypeOK, FlagsTyped, Flags
  <1>3. CASE RunPublishes
    BY <1>3 DEF RunPublishes, ResetOut, Step, Raised, SetArgs, ReadFlag, SetActive, SetIn,
       data, thread, owner, worker, history, IInv, TypeOK, FlagsTyped, Flags
  <1>4. CASE WaitOrKill
    BY <1>4 DEF WaitOrKill, CallWait, Step, WaitTrue, WaitFalse, CallKill, KillWakesEarly,
       KillFlag, KillOut, AfterKill, data, thread, owner, worker, history, IInv, TypeOK,
       FlagsTyped, Flags
  <1>5. CASE Destroys
    BY <1>5 DEF Destroys, CallDestroy, Step, DestroyOffline, Offline, DestroyRunning,
       SetDetached, ClearFunc, DestroyWake, Wakes, data, thread, owner, worker, history,
       IInv, TypeOK, FlagsTyped, Flags
  <1>6. CASE WorkerTakes
    BY <1>6 DEF WorkerTakes, WTest, WStep, WCall, WReturns, data, thread, owner, worker,
       history, IInv, TypeOK, FlagsTyped, Flags
  <1>7. CASE WorkerClears
    BY <1>7 DEF WorkerClears, WReset, WStep, Pending, WReadFlag, WWriteFlag, Cleared,
       WSetOut, data, thread, owner, worker, history, IInv, TypeOK, FlagsTyped, Flags
  <1>8. CASE WorkerEnds
    BY <1>8 DEF WorkerEnds, WExit, WStep, WDies, Step, data, thread, owner, worker,
       history, IInv, TypeOK, FlagsTyped, Flags
  <1> QED
    BY <1>1, <1>2, <1>3, <1>4, <1>5, <1>6, <1>7, <1>8, NextIsOneOf

\* The data is deleted only behind the worker.
LEMMA NextEnded ==
    ASSUME IInv, [Next]_vars
    PROVE  Ended'
  <1>1. CASE UNCHANGED vars
    BY <1>1 DEF vars, data, thread, owner, worker, history, IInv, TypeOK, Ended,
       EndsDetached, Executing, Detaching, Exists
  <1>2. CASE RunBegins
    BY <1>2 DEF RunBegins, CallRun, Step, RunStarts, RunRefuses, Busy, RunContinues,
       Create, CreateRefused, CreateFails, data, thread, owner, worker, history, IInv,
       TypeOK, Ended, EndsDetached, Executing, Detaching, Exists
  <1>3. CASE RunPublishes
    BY <1>3 DEF RunPublishes, ResetOut, Step, Raised, SetArgs, ReadFlag, SetActive, SetIn,
       data, thread, owner, worker, history, IInv, TypeOK, Ended, EndsDetached, Executing,
       Detaching, Exists
  <1>4. CASE WaitOrKill
    BY <1>4 DEF WaitOrKill, CallWait, Step, WaitTrue, WaitFalse, CallKill, KillWakesEarly,
       KillFlag, KillOut, AfterKill, data, thread, owner, worker, history, IInv, TypeOK,
       Ended, EndsDetached, HandleKnown, Executing, Detaching, Exists
  <1>5. CASE Destroys
    BY <1>5 DEF Destroys, CallDestroy, Step, DestroyOffline, Offline, DestroyRunning,
       SetDetached, ClearFunc, DestroyWake, Wakes, data, thread, owner, worker, history,
       IInv, TypeOK, Ended, EndsDetached, Executing, Detaching, Exists
  <1>6. CASE WorkerTakes
    BY <1>6 DEF WorkerTakes, WTest, WStep, WCall, WReturns, data, thread, owner, worker,
       history, IInv, TypeOK, Ended, EndsDetached, Executing, Detaching, Exists
  <1>7. CASE WorkerClears
    BY <1>7 DEF WorkerClears, WReset, WStep, Pending, WReadFlag, WWriteFlag, Cleared,
       WSetOut, data, thread, owner, worker, history, IInv, TypeOK, Ended, EndsDetached,
       Executing, Detaching, Exists
  <1>8. CASE WorkerEnds
    BY <1>8 DEF WorkerEnds, WExit, WStep, WDies, Step, data, thread, owner, worker,
       history, IInv, TypeOK, Ended, EndsDetached, Executing, Detaching, Exists
  <1> QED
    BY <1>1, <1>2, <1>3, <1>4, <1>5, <1>6, <1>7, <1>8, NextIsOneOf

\* The owner numbers its jobs, and only jobs it has numbered are executed.
LEMMA NextJobsTyped ==
    ASSUME IInv, [Next]_vars
    PROVE  JobsTyped'
  <1>0. JobsTyped /\ JobsInOrder /\ 0 \in 0..MaxJobs
    BY DEF IInv, TypeOK, JobsTyped
  <1>1. ASSUME UNCHANGED <<args, job, wjob, accepted, done, runs>> PROVE JobsTyped'
    BY <1>0, <1>1 DEF JobsTyped
  <1>2. CASE UNCHANGED vars \/ WaitOrKill \/ Destroys \/ WorkerClears
    BY <1>1, <1>2 DEF vars, WaitOrKill, CallWait, WaitTrue, WaitFalse, CallKill,
       KillWakesEarly, KillFlag, KillOut, Destroys, CallDestroy, DestroyOffline,
       DestroyRunning, SetDetached, ClearFunc, DestroyWake, WorkerClears, WReset,
       WReadFlag, WWriteFlag, WSetOut, data, thread, owner, worker, history
  <1>3. CASE RunBegins
    <2>1. CASE CallRun
      BY <1>0, <2>1 DEF CallRun, data, thread, worker, history, JobsTyped
    <2> QED
      BY <1>1, <1>3, <2>1
      DEF RunBegins, RunStarts, RunRefuses, RunContinues, Create, CreateRefused,
         CreateFails, data, thread, worker, history
  <1>4. CASE RunPublishes
    <2>1. CASE SetArgs
      BY <1>0, <2>1 DEF SetArgs, thread, worker, history, JobsTyped
    <2>2. CASE SetIn
      <3>1. job \in Jobs
        BY <1>0, <2>2 DEF SetIn, Step, Running, JobsInOrder, JobsTyped, Jobs
      <3> QED
        BY <1>0, <2>2, <3>1 DEF SetIn, thread, worker, JobsTyped
    <2> QED
      BY <1>1, <1>4, <2>1, <2>2 DEF RunPublishes, ResetOut, ReadFlag, SetActive, data,
         thread, worker, history
  <1>5. CASE WorkerTakes
    <2>1. CASE WTest
      BY <1>1, <2>1 DEF WTest, data, thread, owner, history
    <2>2. CASE WCall
      <3>1. CASE args = 0
        BY <1>0, <2>2, <3>1 DEF WCall, data, thread, owner, JobsTyped
      <3>2. CASE args # 0
        <4>1. args \in Jobs
          BY <1>0, <3>2 DEF JobsTyped, Jobs
        <4>2. runs' = [runs EXCEPT ![args] = runs[args] + 1] /\ wjob' = args
              /\ UNCHANGED <<args, job, accepted, done>>
          BY <2>2, <3>2 DEF WCall, data, thread, owner
        <4>3. runs[args] + 1 \in Nat
          BY <1>0, <4>1 DEF JobsTyped
        <4> QED
          BY <1>0, <4>1, <4>2, <4>3 DEF JobsTyped
      <3> QED
        BY <3>1, <3>2
    <2>3. CASE WReturns
      <3>1. {wjob} \ {0} \subseteq Jobs
        BY <1>0 DEF JobsTyped, Jobs
      <3> QED
        BY <1>0, <2>3, <3>1 DEF WReturns, data, thread, owner, JobsTyped
    <2> QED
      BY <1>5, <2>1, <2>2, <2>3 DEF WorkerTakes
  <1>6. CASE WorkerEnds
    BY <1>0, <1>6 DEF WorkerEnds, WExit, WDies, data, thread, owner, worker, history,
       JobsTyped
  <1> QED
    BY <1>2, <1>3, <1>4, <1>5, <1>6, NextIsOneOf

-----------------------------------------------------------------------------
(* What the owner and the worker know of each other.                       *)

\* A Kill that has left sig_in set or returned early is not forgotten, and the owner's
\* discipline does not change.
LEMMA NextClean ==
    ASSUME IInv, [Next]_vars
    PROVE  (dirty => dirty') /\ (early => early') /\ disciplined' = disciplined
  <1>1. CASE UNCHANGED vars
    BY <1>1 DEF vars, thread, history
  <1>2. CASE RunBegins
    BY <1>2 DEF RunBegins, CallRun, RunStarts, RunRefuses, RunContinues, Create,
       CreateRefused, CreateFails, thread, history
  <1>3. CASE RunPublishes
    BY <1>3 DEF RunPublishes, ResetOut, SetArgs, ReadFlag, SetActive, SetIn, thread,
       history
  <1>4. CASE WaitOrKill
    BY <1>4 DEF WaitOrKill, CallWait, WaitTrue, WaitFalse, CallKill, KillWakesEarly,
       KillFlag, KillOut, thread, history
  <1>5. CASE Destroys
    BY <1>5 DEF Destroys, CallDestroy, DestroyOffline, DestroyRunning, SetDetached,
       ClearFunc, DestroyWake, thread, history
  <1>6. CASE WorkerTakes
    BY <1>6 DEF WorkerTakes, WTest, WCall, WReturns, thread, history
  <1>7. CASE WorkerClears
    BY <1>7 DEF WorkerClears, WReset, WReadFlag, WWriteFlag, WSetOut, thread, history
  <1>8. CASE WorkerEnds
    BY <1>8 DEF WorkerEnds, WExit, WDies, thread, history, IInv, TypeOK
  <1> QED
    BY <1>1, <1>2, <1>3, <1>4, <1>5, <1>6, <1>7, <1>8, NextIsOneOf

\* Only the worker resets sig_in, when its job has returned.
LEMMA NextSignalHeld ==
    ASSUME IInv, [Next]_vars
    PROVE  SignalHeld'
  <1>1. CASE UNCHANGED vars
    BY <1>1 DEF vars, data, thread, owner, worker, history, SignalHeld, IInv, TypeOK
  <1>2. CASE RunBegins
    BY <1>2 DEF RunBegins, CallRun, Step, RunStarts, RunRefuses, Busy, RunContinues,
       Create, CreateRefused, CreateFails, data, thread, owner, worker, history,
       SignalHeld, IInv, TypeOK
  <1>3. CASE RunPublishes
    BY <1>3 DEF RunPublishes, ResetOut, Step, Raised, SetArgs, ReadFlag, SetActive, SetIn,
       data, thread, owner, worker, history, SignalHeld, IInv, TypeOK
  <1>4. CASE WaitOrKill
    BY <1>4 DEF WaitOrKill, CallWait, Step, WaitTrue, WaitFalse, CallKill, KillWakesEarly,
       KillFlag, KillOut, AfterKill, data, thread, owner, worker, history, SignalHeld,
       IInv, TypeOK
  <1>5. CASE Destroys
    BY <1>5 DEF Destroys, CallDestroy, Step, DestroyOffline, Offline, DestroyRunning,
       SetDetached, ClearFunc, DestroyWake, Wakes, data, thread, owner, worker, history,
       SignalHeld, IInv, TypeOK
  <1>6. CASE WorkerTakes
    BY <1>6 DEF WorkerTakes, WTest, WStep, WCall, WReturns, data, thread, owner, worker,
       history, SignalHeld, IInv, TypeOK
  <1>7. CASE WorkerClears
    BY <1>7 DEF WorkerClears, WReset, WStep, Pending, WReadFlag, WWriteFlag, Cleared,
       WSetOut, data, thread, owner, worker, history, SignalHeld, IInv, TypeOK
  <1>8. CASE WorkerEnds
    BY <1>8 DEF WorkerEnds, WExit, WStep, WDies, Step, data, thread, owner, worker,
       history, SignalHeld, IInv, TypeOK
  <1> QED
    BY <1>1, <1>2, <1>3, <1>4, <1>5, <1>6, <1>7, <1>8, NextIsOneOf

\* Only the destructor sets PTDFLAG_DETACHED and clears func.
LEMMA NextEndsDetached ==
    ASSUME IInv, [Next]_vars
    PROVE  EndsDetached'
  <1>1. CASE UNCHANGED vars
    BY <1>1 DEF vars, data, thread, owner, worker, history, EndsDetached, IInv, TypeOK,
       Detaching, Exists
  <1>2. CASE RunBegins
    BY <1>2 DEF RunBegins, CallRun, Step, RunStarts, RunRefuses, Busy, RunContinues,
       Create, CreateRefused, CreateFails, data, thread, owner, worker, history,
       EndsDetached, IInv, TypeOK, Detaching, Exists
  <1>3. CASE RunPublishes
    BY <1>3 DEF RunPublishes, ResetOut, Step, Raised, SetArgs, ReadFlag, SetActive, SetIn,
       data, thread, owner, worker, history, EndsDetached, IInv, TypeOK,
       Detaching, Exists
  <1>4. CASE WaitOrKill
    BY <1>4 DEF WaitOrKill, CallWait, Step, WaitTrue, WaitFalse, CallKill, KillWakesEarly,
       KillFlag, KillOut, AfterKill, data, thread, owner, worker, history, EndsDetached,
       IInv, TypeOK, Detaching, Exists
  <1>5. CASE Destroys
    BY <1>5 DEF Destroys, CallDestroy, Step, DestroyOffline, Offline, DestroyRunning,
       SetDetached, ClearFunc, DestroyWake, Wakes, data, thread, owner, worker, history,
       EndsDetached, IInv, TypeOK, Detaching, Exists
  <1>6. CASE WorkerTakes
    BY <1>6 DEF WorkerTakes, WTest, WStep, WCall, WReturns, data, thread, owner, worker,
       history, EndsDetached, IInv, TypeOK, Detaching, Exists
  <1>7. CASE WorkerClears
    BY <1>7 DEF WorkerClears, WReset, WStep, Pending, WReadFlag, WWriteFlag, Cleared,
       WSetOut, data, thread, owner, worker, history, EndsDetached, IInv, TypeOK, Detaching,
       Exists
  <1>8. CASE WorkerEnds
    BY <1>8 DEF WorkerEnds, WExit, WStep, WDies, Step, data, thread, owner, worker,
       history, EndsDetached, IInv, TypeOK, Detaching, Exists
  <1> QED
    BY <1>1, <1>2, <1>3, <1>4, <1>5, <1>6, <1>7, <1>8, NextIsOneOf

\* Only pthread_create sets the id and the handle.
LEMMA NextHandleKnown ==
    ASSUME IInv, [Next]_vars
    PROVE  HandleKnown'
  <1>1. CASE UNCHANGED vars
    BY <1>1 DEF vars,
       data, thread, owner, worker, HandleKnown, IInv, EndsDetached, Detaching, Exists
  <1>2. CASE RunBegins
    BY <1>2 DEF RunBegins, CallRun, RunStarts, RunRefuses, RunContinues, Create,
       CreateRefused, CreateFails, Step,
       data, thread, owner, worker, HandleKnown, IInv, EndsDetached, Detaching, Exists
  <1>3. CASE RunPublishes
    BY <1>3 DEF RunPublishes, ResetOut, SetArgs, ReadFlag, SetActive, SetIn, Step,
       data, thread, owner, worker, HandleKnown, IInv, EndsDetached, Detaching, Exists
  <1>4. CASE WaitOrKill
    BY <1>4 DEF WaitOrKill, CallWait, WaitTrue, WaitFalse, CallKill, KillWakesEarly,
       KillFlag, KillOut, Step,
       data, thread, owner, worker, HandleKnown, IInv, TypeOK, EndsDetached, Detaching, Exists
  <1>5. CASE Destroys
    BY <1>5 DEF Destroys, CallDestroy, DestroyOffline, DestroyRunning, SetDetached,
       ClearFunc, DestroyWake, Step,
       data, thread, owner, worker, HandleKnown, IInv, EndsDetached, Detaching, Exists
  <1>6. CASE WorkerTakes
    BY <1>6 DEF WorkerTakes, WTest, WStep, WCall, WReturns,
       data, thread, owner, worker, HandleKnown, IInv, EndsDetached, Detaching, Exists
  <1>7. CASE WorkerClears
    BY <1>7 DEF WorkerClears, WReset, WStep, WReadFlag, WWriteFlag, WSetOut,
       data, thread, owner, worker, HandleKnown, IInv, EndsDetached, Detaching, Exists
  <1>8. CASE WorkerEnds
    BY <1>8 DEF WorkerEnds, WExit, WStep, WDies,
       data, thread, owner, worker, HandleKnown, IInv, EndsDetached, Detaching, Exists
  <1> QED
    BY <1>1, <1>2, <1>3, <1>4, <1>5, <1>6, <1>7, <1>8, NextIsOneOf

\* A read of the flag by one thread and its write are never both undone by the
\* other's as far as PTDFLAG_STARTING is concerned.
LEMMA NextStartedKnown ==
    ASSUME IInv, [Next]_vars, ~early'
    PROVE  StartedKnown'
  <1>0. /\ ~early /\ StartedKnown
        /\ cancelled => pc = "killing"
    BY NextClean DEF IInv, TypeOK
  <1>1. CASE UNCHANGED vars
    BY <1>0, <1>1 DEF vars, data, thread, owner, worker, history, StartedKnown, IInv,
       EndsDetached, HandleKnown, Running, Active, Detaching, Exists
  <1>2. CASE RunBegins
    BY <1>0, <1>2 DEF RunBegins, CallRun, Step, RunStarts, RunRefuses, Busy, RunContinues,
       Create, CreateRefused, CreateFails, data, thread, owner, worker, history,
       StartedKnown, IInv, EndsDetached, HandleKnown, Running, Active, Detaching, Exists
  <1>3. CASE RunPublishes
    BY <1>0, <1>3 DEF RunPublishes, ResetOut, Step, Raised, SetArgs, ReadFlag, SetActive,
       SetIn,
       data, thread, owner, worker, history, StartedKnown, IInv, EndsDetached, HandleKnown,
       Running, Active, Detaching, Exists
  <1>4. CASE WaitOrKill
    BY <1>0, <1>4 DEF WaitOrKill, CallWait, Step, WaitTrue, WaitFalse, CallKill,
       KillWakesEarly,
       KillFlag, KillOut, AfterKill, data, thread, owner, worker, history, StartedKnown,
       IInv, EndsDetached, HandleKnown, Running, Active, Detaching, Exists
  <1>5. CASE Destroys
    BY <1>0, <1>5 DEF Destroys, CallDestroy, Step, DestroyOffline, Offline, DestroyRunning,
       SetDetached, ClearFunc, DestroyWake, Wakes, data, thread, owner, worker, history,
       StartedKnown, IInv, EndsDetached, HandleKnown, Running, Active, Detaching, Exists
  <1>6. CASE WorkerTakes
    BY <1>0, <1>6 DEF WorkerTakes, WTest, WStep, WCall, WReturns, data, thread, owner, worker,
       history, StartedKnown, IInv, EndsDetached, HandleKnown, Running, Active, Detaching,
       Exists
  <1>7. CASE WorkerClears
    BY <1>0, <1>7 DEF WorkerClears, WReset, WStep, Pending, WReadFlag, WWriteFlag, Cleared,
       WSetOut, data, thread, owner, worker, history, StartedKnown, IInv, EndsDetached,
       HandleKnown, Running, Active, Detaching, Exists
  <1>8. CASE WorkerEnds
    BY <1>0, <1>8 DEF WorkerEnds, WExit, WStep, WDies, Step, data, thread, owner, worker,
       history, StartedKnown, IInv, EndsDetached, HandleKnown, Running, Active, Detaching,
       Exists
  <1> QED
    BY <1>1, <1>2, <1>3, <1>4, <1>5, <1>6, <1>7, <1>8, NextIsOneOf

\* args is set to the job of the current Run.
LEMMA NextJobsInOrder ==
    ASSUME IInv, [Next]_vars
    PROVE  JobsInOrder'
  <1>1. CASE UNCHANGED vars
    BY <1>1 DEF vars, data, thread, owner, worker, history, JobsInOrder, IInv, TypeOK,
       Running
  <1>2. CASE RunBegins
    BY <1>2 DEF RunBegins, CallRun, Step, RunStarts, RunRefuses, Busy, RunContinues,
       Create, CreateRefused, CreateFails, data, thread, owner, worker, history,
       JobsInOrder, IInv, TypeOK, Running
  <1>3. CASE RunPublishes
    BY <1>3 DEF RunPublishes, ResetOut, Step, Raised, SetArgs, ReadFlag, SetActive, SetIn,
       data, thread, owner, worker, history, JobsInOrder, IInv, TypeOK, Running
  <1>4. CASE WaitOrKill
    BY <1>4 DEF WaitOrKill, CallWait, Step, WaitTrue, WaitFalse, CallKill, KillWakesEarly,
       KillFlag, KillOut, AfterKill, data, thread, owner, worker, history, JobsInOrder,
       IInv, TypeOK, Running
  <1>5. CASE Destroys
    BY <1>5 DEF Destroys, CallDestroy, Step, DestroyOffline, Offline, DestroyRunning,
       SetDetached, ClearFunc, DestroyWake, Wakes, data, thread, owner, worker, history,
       JobsInOrder, IInv, TypeOK, Running
  <1>6. CASE WorkerTakes
    BY <1>6 DEF WorkerTakes, WTest, WStep, WCall, WReturns, data, thread, owner, worker,
       history, JobsInOrder, IInv, TypeOK, Running
  <1>7. CASE WorkerClears
    BY <1>7 DEF WorkerClears, WReset, WStep, Pending, WReadFlag, WWriteFlag, Cleared,
       WSetOut, data, thread, owner, worker, history, JobsInOrder, IInv, TypeOK, Running
  <1>8. CASE WorkerEnds
    BY <1>8 DEF WorkerEnds, WExit, WStep, WDies, Step, data, thread, owner, worker,
       history, JobsInOrder, IInv, TypeOK, Running
  <1> QED
    BY <1>1, <1>2, <1>3, <1>4, <1>5, <1>6, <1>7, <1>8, NextIsOneOf

\* The owner writes the flag while the worker is between two jobs, the worker while
\* PTDFLAG_ACTIVING keeps the owner out: no update is lost before the destructor.
LEMMA NextHandOver ==
    ASSUME IInv, [Next]_vars, Orderly'
    PROVE  HandOver'
  <1>0. /\ ~dirty /\ ~early /\ HandOver /\ StartedKnown
        /\ cancelled => pc = "killing"
        /\ ~dirty' /\ ~early'
    BY NextClean DEF Orderly, IInv, TypeOK
  <1>1. CASE UNCHANGED vars
    BY <1>0, <1>1 DEF vars, data, thread, owner, worker, history, HandOver, IInv, TypeOK,
       SignalHeld, StartedKnown, EndsDetached, Running, Active, Detaching, Exists, Working
  <1>2. CASE RunBegins
    BY <1>0, <1>2 DEF RunBegins, CallRun, Step, RunStarts, RunRefuses, Busy, RunContinues,
       Create, CreateRefused, CreateFails, data, thread, owner, worker, history, HandOver,
       IInv, TypeOK, SignalHeld, StartedKnown, EndsDetached, Running, Active, Detaching,
       Exists, Working
  <1>3. CASE RunPublishes
    BY <1>0, <1>3 DEF RunPublishes, ResetOut, Step, Raised, SetArgs, ReadFlag, SetActive,
       SetIn,
       data, thread, owner, worker, history, HandOver, IInv, TypeOK, SignalHeld,
       StartedKnown, EndsDetached, Running, Active, Detaching, Exists, Working
  <1>4. CASE WaitOrKill
    BY <1>0, <1>4 DEF WaitOrKill, CallWait, Step, WaitTrue, WaitFalse, CallKill,
       KillWakesEarly,
       KillFlag, KillOut, AfterKill, data, thread, owner, worker, history, HandOver, IInv,
       TypeOK, SignalHeld, StartedKnown, EndsDetached, Running, Active, Detaching, Exists,
       Working
  <1>5. CASE Destroys
    BY <1>0, <1>5 DEF Destroys, CallDestroy, Step, DestroyOffline, Offline, DestroyRunning,
       SetDetached, ClearFunc, DestroyWake, Wakes, data, thread, owner, worker, history,
       HandOver, IInv, TypeOK, SignalHeld, StartedKnown, EndsDetached, Running, Active,
       Detaching, Exists, Working
  <1>6. CASE WorkerTakes
    BY <1>0, <1>6 DEF WorkerTakes, WTest, WStep, WCall, WReturns, data, thread, owner, worker,
       history, HandOver, IInv, TypeOK, SignalHeld, StartedKnown, EndsDetached, Running,
       Active, Detaching, Exists, Working
  <1>7. CASE WorkerClears
    BY <1>0, <1>7 DEF WorkerClears, WReset, WStep, Pending, WReadFlag, WWriteFlag, Cleared,
       WSetOut, data, thread, owner, worker, history, HandOver, IInv, TypeOK, SignalHeld,
       StartedKnown, EndsDetached, Running, Active, Detaching, Exists, Working
  <1>8. CASE WorkerEnds
    BY <1>0, <1>8 DEF WorkerEnds, WExit, WStep, WDies, Step, data, thread, owner, worker,
       history, HandOver, IInv, TypeOK, SignalHeld, StartedKnown, EndsDetached, Running,
       Active, Detaching, Exists, Working
  <1> QED
    BY <1>1, <1>2, <1>3, <1>4, <1>5, <1>6, <1>7, <1>8, NextIsOneOf

\* A job becomes takable once, when its Run sets sig_in, and it is no longer after
\* the worker has started it.
LEMMA NextFresh ==
    ASSUME IInv, [Next]_vars, Orderly'
    PROVE  Fresh'
  <1>0. /\ Fresh /\ HandOver /\ EndsDetached /\ StartedKnown /\ SignalHeld /\ HandleKnown
        /\ JobsInOrder /\ runs \in [Jobs -> Nat] /\ args \in 0..MaxJobs /\ job \in 0..MaxJobs
    BY NextClean DEF Orderly, IInv, TypeOK
  <1>1. CASE UNCHANGED vars
    BY <1>0, <1>1 DEF vars, data, thread, owner, worker, history, Fresh, HandOver,
       EndsDetached, StartedKnown, SignalHeld, JobsInOrder, Running, Detaching, Exists,
       MayTake, Jobs
  <1>2. CASE RunBegins
    <2>1. CASE CallRun
      BY <1>0, <2>1 DEF CallRun, Step, data, thread, owner, worker, history, Fresh,
         HandOver, EndsDetached, StartedKnown, SignalHeld, JobsInOrder, Running, Detaching,
         Exists, MayTake, Jobs
    <2>2. CASE RunStarts
      BY <1>0, <2>2 DEF RunStarts, Step, data, thread, owner, worker, history, Fresh,
         HandOver, EndsDetached, StartedKnown, SignalHeld, JobsInOrder, Running, Detaching,
         Exists, MayTake, Jobs
    <2>3. CASE RunRefuses
      BY <1>0, <2>3 DEF RunRefuses, Step, Busy, data, thread, owner, worker, history,
         Fresh, HandOver, EndsDetached, StartedKnown, SignalHeld, JobsInOrder, Running,
         Detaching, Exists, MayTake, Jobs
    <2>4. CASE RunContinues
      BY <1>0, <2>4 DEF RunContinues, Step, Busy, data, thread, owner, worker, history,
         Fresh, HandOver, EndsDetached, StartedKnown, SignalHeld, JobsInOrder, Running,
         Detaching, Exists, MayTake, Jobs
    <2>5. CASE Create
      BY <1>0, <2>5 DEF Create, Step, data, thread, owner, worker, history, Fresh,
         HandOver, EndsDetached, StartedKnown, SignalHeld, JobsInOrder, Running, Detaching,
         Exists, MayTake, Jobs
    <2>6. CASE CreateFails
      BY <1>0, <2>6 DEF CreateFails, Step, data, thread, owner, worker, history, Fresh,
         HandOver, EndsDetached, StartedKnown, SignalHeld, JobsInOrder, Running, Detaching,
         Exists, MayTake, Jobs
    <2>7. CASE CreateRefused
      BY <1>0, <2>7 DEF CreateRefused, Step, data, thread, owner, worker, history, Fresh,
         HandOver, EndsDetached, StartedKnown, SignalHeld, JobsInOrder, Running, Detaching,
         Exists, MayTake, Jobs
    <2> QED
      BY <1>2, <2>1, <2>2, <2>3, <2>4, <2>5, <2>6, <2>7 DEF RunBegins
  <1>3. CASE RunPublishes
    <2>1. CASE ResetOut
      BY <1>0, <2>1 DEF ResetOut, Step, Raised, data, thread, owner, worker, history,
         Fresh, HandOver, EndsDetached, StartedKnown, SignalHeld, JobsInOrder, Running,
         Detaching, Exists, MayTake, Jobs
    <2>2. CASE SetArgs
      BY <1>0, <2>2 DEF SetArgs, Step, data, thread, owner, worker, history, Fresh,
         HandOver, EndsDetached, StartedKnown, SignalHeld, JobsInOrder, Running, Detaching,
         Exists, MayTake, Jobs
    <2>3. CASE ReadFlag
      BY <1>0, <2>3 DEF ReadFlag, Step, data, thread, owner, worker, history, Fresh,
         HandOver, EndsDetached, StartedKnown, SignalHeld, JobsInOrder, Running, Detaching,
         Exists, MayTake, Jobs
    <2>4. CASE SetActive
      BY <1>0, <2>4 DEF SetActive, Step, data, thread, owner, worker, history, Fresh,
         HandOver, EndsDetached, StartedKnown, SignalHeld, JobsInOrder, Running, Detaching,
         Exists, MayTake, Jobs
    <2>5. CASE SetIn
      BY <1>0, <2>5 DEF SetIn, Step, data, thread, owner, worker, history, Fresh, HandOver,
         EndsDetached, HandleKnown, StartedKnown, SignalHeld, JobsInOrder, Running,
         Detaching, Exists,
         MayTake, Jobs
    <2> QED
      BY <1>3, <2>1, <2>2, <2>3, <2>4, <2>5 DEF RunPublishes
  <1>4. CASE WaitOrKill
    <2>1. CASE CallWait
      BY <1>0, <2>1 DEF CallWait, Step, data, thread, owner, worker, history, Fresh,
         HandOver, EndsDetached, StartedKnown, SignalHeld, JobsInOrder, Running, Detaching,
         Exists, MayTake, Jobs
    <2>2. CASE WaitTrue
      BY <1>0, <2>2 DEF WaitTrue, Step, data, thread, owner, worker, history, Fresh,
         HandOver, EndsDetached, StartedKnown, SignalHeld, JobsInOrder, Running, Detaching,
         Exists, MayTake, Jobs
    <2>3. CASE WaitFalse
      BY <1>0, <2>3 DEF WaitFalse, Step, data, thread, owner, worker, history, Fresh,
         HandOver, EndsDetached, StartedKnown, SignalHeld, JobsInOrder, Running, Detaching,
         Exists, MayTake, Jobs
    <2>4. CASE CallKill
      BY <1>0, <2>4 DEF CallKill, Step, data, thread, owner, worker, history, Fresh,
         HandOver, EndsDetached, StartedKnown, SignalHeld, JobsInOrder, Running, Detaching,
         Exists, MayTake, Jobs
    <2>5. CASE KillFlag
      BY <1>0, <2>5 DEF KillFlag, Step, data, thread, owner, worker, history, Fresh,
         HandOver, EndsDetached, StartedKnown, SignalHeld, JobsInOrder, Running, Detaching,
         Exists, MayTake, Jobs
    <2>6. CASE KillOut
      BY <1>0, <2>6 DEF KillOut, Step, AfterKill, data, thread, owner, worker, history,
         Fresh, HandOver, EndsDetached, StartedKnown, SignalHeld, JobsInOrder, Running,
         Detaching, Exists, MayTake, Jobs
    <2>7. CASE KillWakesEarly
      BY <1>0, <2>7 DEF KillWakesEarly, Step, data, thread, owner, worker, history,
         Fresh, HandOver, EndsDetached, StartedKnown, SignalHeld, JobsInOrder, Running,
         Detaching, Exists, MayTake, Jobs
    <2> QED
      BY <1>4, <2>1, <2>2, <2>3, <2>4, <2>5, <2>6, <2>7 DEF WaitOrKill
  <1>5. CASE Destroys
    <2>1. CASE CallDestroy
      BY <1>0, <2>1 DEF CallDestroy, Step, data, thread, owner, worker, history, Fresh,
         HandOver, EndsDetached, StartedKnown, SignalHeld, JobsInOrder, Running, Detaching,
         Exists, MayTake, Jobs
    <2>2. CASE DestroyOffline
      BY <1>0, <2>2 DEF DestroyOffline, Step, Offline, data, thread, owner, worker,
         history, Fresh, HandOver, EndsDetached, StartedKnown, SignalHeld, JobsInOrder,
         Running, Detaching, Exists, MayTake, Jobs
    <2>3. CASE DestroyRunning
      BY <1>0, <2>3 DEF DestroyRunning, Step, Offline, data, thread, owner, worker,
         history, Fresh, HandOver, EndsDetached, StartedKnown, SignalHeld, JobsInOrder,
         Running, Detaching, Exists, MayTake, Jobs
    <2>4. CASE SetDetached
      BY <1>0, <2>4 DEF SetDetached, Step, data, thread, owner, worker, history, Fresh,
         HandOver, EndsDetached, StartedKnown, SignalHeld, JobsInOrder, Running, Detaching,
         Exists, MayTake, Jobs
    <2>5. CASE ClearFunc
      BY <1>0, <2>5 DEF ClearFunc, Step, data, thread, owner, worker, history, Fresh,
         HandOver, EndsDetached, StartedKnown, SignalHeld, JobsInOrder, Running, Detaching,
         Exists, MayTake, Jobs
    <2>6. CASE DestroyWake
      BY <1>0, <2>6 DEF DestroyWake, Step, Wakes, data, thread, owner, worker, history,
         Fresh, HandOver, EndsDetached, StartedKnown, SignalHeld, JobsInOrder, Running,
         Detaching, Exists, MayTake, Jobs
    <2> QED
      BY <1>5, <2>1, <2>2, <2>3, <2>4, <2>5, <2>6 DEF Destroys
  <1>6. CASE WorkerTakes
    <2>1. CASE WTest
      BY <1>0, <2>1 DEF WTest, WStep, data, thread, owner, worker, history, Fresh,
         HandOver, EndsDetached, StartedKnown, SignalHeld, JobsInOrder, Running, Detaching,
         Exists, MayTake, Jobs
    <2>2. CASE WCall
      BY <1>0, <2>2 DEF WCall, WStep, data, thread, owner, worker, history, Fresh,
         HandOver, EndsDetached, StartedKnown, SignalHeld, JobsInOrder, Running, Detaching,
         Exists, MayTake, Jobs
    <2>3. CASE WReturns
      BY <1>0, <2>3 DEF WReturns, WStep, data, thread, owner, worker, history, Fresh,
         HandOver, EndsDetached, StartedKnown, SignalHeld, JobsInOrder, Running, Detaching,
         Exists, MayTake, Jobs
    <2> QED
      BY <1>6, <2>1, <2>2, <2>3 DEF WorkerTakes
  <1>7. CASE WorkerClears
    <2>1. CASE WReset
      BY <1>0, <2>1 DEF WReset, WStep, Pending, data, thread, owner, worker, history,
         Fresh, HandOver, EndsDetached, StartedKnown, SignalHeld, JobsInOrder, Running,
         Detaching, Exists, MayTake, Jobs
    <2>2. CASE WReadFlag
      BY <1>0, <2>2 DEF WReadFlag, WStep, data, thread, owner, worker, history, Fresh,
         HandOver, EndsDetached, StartedKnown, SignalHeld, JobsInOrder, Running, Detaching,
         Exists, MayTake, Jobs
    <2>3. CASE WWriteFlag
      BY <1>0, <2>3 DEF WWriteFlag, WStep, Cleared, data, thread, owner, worker, history,
         Fresh, HandOver, EndsDetached, StartedKnown, SignalHeld, JobsInOrder, Running,
         Detaching, Exists, MayTake, Jobs
    <2>4. CASE WSetOut
      BY <1>0, <2>4 DEF WSetOut, WStep, data, thread, owner, worker, history, Fresh,
         HandOver, EndsDetached, StartedKnown, SignalHeld, JobsInOrder, Running, Detaching,
         Exists, MayTake, Jobs
    <2> QED
      BY <1>7, <2>1, <2>2, <2>3, <2>4 DEF WorkerClears
  <1>8. CASE WorkerEnds
    <2>1. CASE WExit
      BY <1>0, <2>1 DEF WExit, WStep, data, thread, owner, worker, history, Fresh,
         HandOver, EndsDetached, StartedKnown, SignalHeld, JobsInOrder, Running, Detaching,
         Exists, MayTake, Jobs
    <2>2. CASE WDies
      BY <1>0, <2>2 DEF WDies, Step, data, thread, owner, worker, history, Fresh, HandOver,
         EndsDetached, StartedKnown, SignalHeld, JobsInOrder, Running, Detaching, Exists,
         MayTake, Jobs
    <2> QED
      BY <1>8, <2>1, <2>2 DEF WorkerEnds
  <1> QED
    BY <1>1, <1>2, <1>3, <1>4, <1>5, <1>6, <1>7, <1>8, NextIsOneOf

\* The owner that waits gets sig_out from the worker after the worker has cleared the
\* flag and sig_in, and the worker finds nothing to do until the owner's next Run.
LEMMA NextTakesTurns ==
    ASSUME IInv, [Next]_vars, Orderly', disciplined
    PROVE  TakesTurns'
  <1>0. /\ TakesTurns /\ HandOver /\ EndsDetached /\ StartedKnown /\ SignalHeld
        /\ cancelled => pc = "killing"
    BY NextClean DEF Orderly, IInv, TypeOK
  <1>1. CASE UNCHANGED vars
    BY <1>0, <1>1 DEF vars, data, thread, owner, worker, history, TakesTurns, HandOver,
       EndsDetached, StartedKnown, SignalHeld, Running, Active, Detaching, Exists, AtRest,
       Working
  <1>2. CASE RunBegins
    <2>1. CASE CallRun
      BY <1>0, <2>1 DEF CallRun, Step, data, thread, owner, worker, history, TakesTurns,
         HandOver, EndsDetached, StartedKnown, SignalHeld, Running, Active, Detaching,
         Exists, AtRest, Working
    <2>2. CASE RunStarts
      BY <1>0, <2>2 DEF RunStarts, Step, data, thread, owner, worker, history, TakesTurns,
         HandOver, EndsDetached, StartedKnown, SignalHeld, Running, Active, Detaching,
         Exists, AtRest, Working
    <2>3. CASE RunRefuses
      BY <1>0, <2>3 DEF RunRefuses, Step, Busy, data, thread, owner, worker, history,
         TakesTurns, HandOver, EndsDetached, StartedKnown, SignalHeld, Running, Active,
         Detaching, Exists, AtRest, Working
    <2>4. CASE RunContinues
      BY <1>0, <2>4 DEF RunContinues, Step, Busy, data, thread, owner, worker, history,
         TakesTurns, HandOver, EndsDetached, StartedKnown, SignalHeld, Running, Active,
         Detaching, Exists, AtRest, Working
    <2>5. CASE Create
      BY <1>0, <2>5 DEF Create, Step, data, thread, owner, worker, history, TakesTurns,
         HandOver, EndsDetached, StartedKnown, SignalHeld, Running, Active, Detaching,
         Exists, AtRest, Working
    <2>6. CASE CreateFails
      BY <1>0, <2>6 DEF CreateFails, Step, data, thread, owner, worker, history,
         TakesTurns, HandOver, EndsDetached, StartedKnown, SignalHeld, Running, Active,
         Detaching, Exists, AtRest, Working
    <2>7. CASE CreateRefused
      BY <1>0, <2>7 DEF CreateRefused, Step, data, thread, owner, worker, history,
         TakesTurns, HandOver, EndsDetached, StartedKnown, SignalHeld, Running, Active,
         Detaching, Exists, AtRest, Working
    <2> QED
      BY <1>2, <2>1, <2>2, <2>3, <2>4, <2>5, <2>6, <2>7 DEF RunBegins
  <1>3. CASE RunPublishes
    <2>1. CASE ResetOut
      BY <1>0, <2>1 DEF ResetOut, Step, Raised, data, thread, owner, worker, history,
         TakesTurns, HandOver, EndsDetached, StartedKnown, SignalHeld, Running, Active,
         Detaching, Exists, AtRest, Working
    <2>2. CASE SetArgs
      BY <1>0, <2>2 DEF SetArgs, Step, data, thread, owner, worker, history, TakesTurns,
         HandOver, EndsDetached, StartedKnown, SignalHeld, Running, Active, Detaching,
         Exists, AtRest, Working
    <2>3. CASE ReadFlag
      BY <1>0, <2>3 DEF ReadFlag, Step, data, thread, owner, worker, history, TakesTurns,
         HandOver, EndsDetached, StartedKnown, SignalHeld, Running, Active, Detaching,
         Exists, AtRest, Working
    <2>4. CASE SetActive
      BY <1>0, <2>4 DEF SetActive, Step, data, thread, owner, worker, history, TakesTurns,
         HandOver, EndsDetached, StartedKnown, SignalHeld, Running, Active, Detaching,
         Exists, AtRest, Working
    <2>5. CASE SetIn
      BY <1>0, <2>5 DEF SetIn, Step, data, thread, owner, worker, history, TakesTurns,
         HandOver, EndsDetached, StartedKnown, SignalHeld, Running, Active, Detaching,
         Exists, AtRest, Working
    <2> QED
      BY <1>3, <2>1, <2>2, <2>3, <2>4, <2>5 DEF RunPublishes
  <1>4. CASE WaitOrKill
    <2>1. CASE CallWait
      BY <1>0, <2>1 DEF CallWait, Step, data, thread, owner, worker, history, TakesTurns,
         HandOver, EndsDetached, StartedKnown, SignalHeld, Running, Active, Detaching,
         Exists, AtRest, Working
    <2>2. CASE WaitTrue
      BY <1>0, <2>2 DEF WaitTrue, Step, data, thread, owner, worker, history, TakesTurns,
         HandOver, EndsDetached, StartedKnown, SignalHeld, Running, Active, Detaching,
         Exists, AtRest, Working
    <2>3. CASE WaitFalse
      BY <1>0, <2>3 DEF WaitFalse, Step, data, thread, owner, worker, history, TakesTurns,
         HandOver, EndsDetached, StartedKnown, SignalHeld, Running, Active, Detaching,
         Exists, AtRest, Working
    <2>4. CASE CallKill
      BY <1>0, <2>4 DEF CallKill, Step, data, thread, owner, worker, history, TakesTurns,
         HandOver, EndsDetached, StartedKnown, SignalHeld, Running, Active, Detaching,
         Exists, AtRest, Working
    <2>5. CASE KillFlag
      BY <1>0, <2>5 DEF KillFlag, Step, data, thread, owner, worker, history, TakesTurns,
         HandOver, EndsDetached, StartedKnown, SignalHeld, Running, Active, Detaching,
         Exists, AtRest, Working
    <2>6. CASE KillOut
      BY <1>0, <2>6 DEF KillOut, Step, AfterKill, data, thread, owner, worker, history,
         TakesTurns, HandOver, EndsDetached, StartedKnown, SignalHeld, Running, Active,
         Detaching, Exists, AtRest, Working
    <2>7. CASE KillWakesEarly
      BY <1>0, <2>7 DEF KillWakesEarly, Step, data, thread, owner, worker, history,
         TakesTurns, HandOver, EndsDetached, StartedKnown, SignalHeld, Running, Active,
         Detaching, Exists, AtRest, Working
    <2> QED
      BY <1>4, <2>1, <2>2, <2>3, <2>4, <2>5, <2>6, <2>7 DEF WaitOrKill
  <1>5. CASE Destroys
    <2>1. CASE CallDestroy
      BY <1>0, <2>1 DEF CallDestroy, Step, data, thread, owner, worker, history,
         TakesTurns, HandOver, EndsDetached, StartedKnown, SignalHeld, Running, Active,
         Detaching, Exists, AtRest, Working
    <2>2. CASE DestroyOffline
      BY <1>0, <2>2 DEF DestroyOffline, Step, Offline, data, thread, owner, worker,
         history, TakesTurns, HandOver, EndsDetached, StartedKnown, SignalHeld, Running,
         Active, Detaching, Exists, AtRest, Working
    <2>3. CASE DestroyRunning
      BY <1>0, <2>3 DEF DestroyRunning, Step, Offline, data, thread, owner, worker,
         history, TakesTurns, HandOver, EndsDetached, StartedKnown, SignalHeld, Running,
         Active, Detaching, Exists, AtRest, Working
    <2>4. CASE SetDetached
      BY <1>0, <2>4 DEF SetDetached, Step, data, thread, owner, worker, history,
         TakesTurns, HandOver, EndsDetached, StartedKnown, SignalHeld, Running, Active,
         Detaching, Exists, AtRest, Working
    <2>5. CASE ClearFunc
      BY <1>0, <2>5 DEF ClearFunc, Step, data, thread, owner, worker, history, TakesTurns,
         HandOver, EndsDetached, StartedKnown, SignalHeld, Running, Active, Detaching,
         Exists, AtRest, Working
    <2>6. CASE DestroyWake
      BY <1>0, <2>6 DEF DestroyWake, Step, Wakes, data, thread, owner, worker, history,
         TakesTurns, HandOver, EndsDetached, StartedKnown, SignalHeld, Running, Active,
         Detaching, Exists, AtRest, Working
    <2> QED
      BY <1>5, <2>1, <2>2, <2>3, <2>4, <2>5, <2>6 DEF Destroys
  <1>6. CASE WorkerTakes
    <2>1. CASE WTest
      BY <1>0, <2>1 DEF WTest, WStep, data, thread, owner, worker, history, TakesTurns,
         HandOver, EndsDetached, StartedKnown, SignalHeld, Running, Active, Detaching,
         Exists, AtRest, Working
    <2>2. CASE WCall
      BY <1>0, <2>2 DEF WCall, WStep, data, thread, owner, worker, history, TakesTurns,
         HandOver, EndsDetached, StartedKnown, SignalHeld, Running, Active, Detaching,
         Exists, AtRest, Working
    <2>3. CASE WReturns
      BY <1>0, <2>3 DEF WReturns, WStep, data, thread, owner, worker, history, TakesTurns,
         HandOver, EndsDetached, StartedKnown, SignalHeld, Running, Active, Detaching,
         Exists, AtRest, Working
    <2> QED
      BY <1>6, <2>1, <2>2, <2>3 DEF WorkerTakes
  <1>7. CASE WorkerClears
    <2>1. CASE WReset
      BY <1>0, <2>1 DEF WReset, WStep, Pending, data, thread, owner, worker, history,
         TakesTurns, HandOver, EndsDetached, StartedKnown, SignalHeld, Running, Active,
         Detaching, Exists, AtRest, Working
    <2>2. CASE WReadFlag
      BY <1>0, <2>2 DEF WReadFlag, WStep, data, thread, owner, worker, history, TakesTurns,
         HandOver, EndsDetached, StartedKnown, SignalHeld, Running, Active, Detaching,
         Exists, AtRest, Working
    <2>3. CASE WWriteFlag
      BY <1>0, <2>3 DEF WWriteFlag, WStep, Cleared, data, thread, owner, worker, history,
         TakesTurns, HandOver, EndsDetached, StartedKnown, SignalHeld, Running, Active,
         Detaching, Exists, AtRest, Working
    <2>4. CASE WSetOut
      BY <1>0, <2>4 DEF WSetOut, WStep, data, thread, owner, worker, history, TakesTurns,
         HandOver, EndsDetached, StartedKnown, SignalHeld, Running, Active, Detaching,
         Exists, AtRest, Working
    <2> QED
      BY <1>7, <2>1, <2>2, <2>3, <2>4 DEF WorkerClears
  <1>8. CASE WorkerEnds
    <2>1. CASE WExit
      BY <1>0, <2>1 DEF WExit, WStep, data, thread, owner, worker, history, TakesTurns,
         HandOver, EndsDetached, StartedKnown, SignalHeld, Running, Active, Detaching,
         Exists, AtRest, Working
    <2>2. CASE WDies
      BY <1>0, <2>2 DEF WDies, Step, data, thread, owner, worker, history, TakesTurns,
         HandOver, EndsDetached, StartedKnown, SignalHeld, Running, Active, Detaching,
         Exists, AtRest, Working
    <2> QED
      BY <1>8, <2>1, <2>2 DEF WorkerEnds
  <1> QED
    BY <1>1, <1>2, <1>3, <1>4, <1>5, <1>6, <1>7, <1>8, NextIsOneOf

-----------------------------------------------------------------------------
(* The theorems.                                                           *)

\* Every step keeps the invariant.
LEMMA NextIInv == ASSUME IInv, [Next]_vars PROVE IInv'
  <1>1. TypeOK'
    BY NextFields, NextPlaced, NextFlagsTyped, NextEnded, NextJobsTyped
    DEF TypeOK, Fields, Placed, FlagsTyped, Ended, JobsTyped
  <1>2. SignalHeld' /\ EndsDetached' /\ HandleKnown' /\ JobsInOrder'
    BY NextSignalHeld, NextEndsDetached, NextHandleKnown, NextJobsInOrder
  <1>3. ~early' => StartedKnown'
    BY NextStartedKnown
  <1>4. Orderly' => HandOver' /\ Fresh'
    BY NextHandOver, NextFresh
  <1>5. Orderly' /\ disciplined' => TakesTurns'
    BY NextClean, NextTakesTurns
  <1> QED
    BY <1>1, <1>2, <1>3, <1>4, <1>5 DEF IInv

\* The invariant holds in every reachable state.
LEMMA Invariant == Spec => []IInv
  <1>1. Init => IInv
    BY InitIInv
  <1>2. IInv /\ [Next]_vars => IInv'
    BY NextIInv
  <1> QED
    BY <1>1, <1>2, PTL DEF Spec

\* The fields stay legal; in particular the data is deleted only when the worker
\* executes nothing and the destructor has been called.
THEOREM TypeCorrect == Spec => []TypeOK
  <1>1. IInv => TypeOK
    BY DEF IInv
  <1> QED
    BY <1>1, Invariant, PTL

\* Until a Kill leaves sig_in set or returns before its worker has ended, no job is
\* executed twice, whoever the owner is: it may call Run at any time, also between the
\* moment the worker clears PTDFLAG_ACTIVING and the one it sets sig_out.
THEOREM JobsAreRunOnce == Spec => []JobsRunOnce
  <1>1. IInv => JobsRunOnce
    BY DEF IInv, Fresh, JobsRunOnce
  <1> QED
    BY <1>1, Invariant, PTL

\* After a Wait that returned TRUE an owner that waits before each Run finds the
\* worker at rest, until a Kill leaves sig_in set or returns early.
THEOREM WaitMeansIdle == Spec => []WaitTrueMeansIdle
  <1>1. IInv => WaitTrueMeansIdle
    BY DEF IInv, TakesTurns, AtRest, Active, WaitTrueMeansIdle, Executing
  <1> QED
    BY <1>1, Invariant, PTL

\* Until then the Run of such an owner is never refused.
THEOREM RunIsAccepted == Spec => []DisciplinedRunAccepted
  <1>1. IInv => DisciplinedRunAccepted
    BY DEF IInv, TakesTurns, DisciplinedRunAccepted
  <1> QED
    BY <1>1, Invariant, PTL

-----------------------------------------------------------------------------
(* Waits that are answered: what keeps WaitReturns from failing.           *)

\* The worker is on its way to sig_out.
Coming == Exists /\ (sigIn \/ wpc \in {"readFlag", "writeFlag", "setOut"})

\* The owner, between two calls or blocked in a Wait, has created a worker and not
\* destroyed it: then sig_out is set, or the worker is going to set it.
WaitsAreAnswered == pc \in {"idle", "wait"} /\ tid => sigOut \/ Coming

\* Why: a Run that has reset sig_out ends by setting sig_in for a worker that exists.
Answers ==
    /\ "STARTING" \in flag /\ tid => Exists \/ Detaching \/ pc \in {"create", "killFlag"}
    /\ pc \in {"idle", "wait", "run", "status"} /\ tid => sigOut \/ Coming

\* Every step keeps that until a Kill returns early.
LEMMA NextAnswers ==
    ASSUME IInv, ~early => Answers, [Next]_vars
    PROVE  ~early' => Answers'
  <1> SUFFICES ASSUME ~early'
               PROVE  Answers'
    OBVIOUS
  <1>0. /\ Answers
        /\ pc \in {"readFlag", "writeFlag", "setIn", "resetOut", "args"} => "STARTING" \in flag
        /\ pc = "writeFlag" \/ (pc = "writeDtor" /\ Exists) => "STARTING" \in seen
        /\ pc \in {"readDtor", "writeDtor"} /\ tid => Exists
        /\ pc = "create" => ~Exists
        /\ wpc = "exit" => Detaching
        /\ wpc \in {"func", "call", "exec", "reset"} => sigIn
        /\ cancelled => pc = "killing"
        /\ "STARTING" \notin {"HAS_EXIT"}
    BY NextClean DEF IInv, TypeOK, StartedKnown, HandleKnown, EndsDetached, SignalHeld,
       Running
  <1>1. CASE UNCHANGED vars
    BY <1>0, <1>1 DEF vars, data, thread, owner, worker, Answers, Coming, Exists, Detaching
  <1>2. CASE RunBegins
    BY <1>0, <1>2 DEF RunBegins, CallRun, RunStarts, RunRefuses, RunContinues, Create,
       CreateRefused, CreateFails, Step, data, thread, owner, worker, history, Answers,
       Coming, Exists, Detaching
  <1>3. CASE RunPublishes
    BY <1>0, <1>3 DEF RunPublishes, ResetOut, SetArgs, ReadFlag, SetActive, SetIn,
       Step, data, thread, owner, worker, history, Answers, Coming, Exists, Detaching
  <1>4. CASE WaitOrKill
    BY <1>0, <1>4 DEF WaitOrKill, CallWait, WaitTrue, WaitFalse, CallKill, KillWakesEarly,
       KillFlag, KillOut, AfterKill, Step, data, thread, owner, worker, history, Answers,
       Coming, Exists, Detaching
  <1>5. CASE Destroys
    BY <1>0, <1>5 DEF Destroys, CallDestroy, DestroyOffline, DestroyRunning, SetDetached,
       ClearFunc, DestroyWake, Step, data, thread, owner, worker, history, Answers, Coming,
       Exists, Detaching
  <1>6. CASE WorkerTakes
    BY <1>0, <1>6 DEF WorkerTakes, WTest, WCall, WReturns,
       WStep, data, thread, owner, worker, history, Answers, Coming, Exists, Detaching
  <1>7. CASE WorkerClears
    BY <1>0, <1>7 DEF WorkerClears, WReset, WReadFlag, WWriteFlag, WSetOut, Cleared,
       WStep, data, thread, owner, worker, history, Answers, Coming, Exists, Detaching
  <1>8. CASE WorkerEnds
    BY <1>0, <1>8 DEF WorkerEnds, WExit, WDies,
       Step, WStep, data, thread, owner, worker, history, Answers, Coming, Exists, Detaching
  <1> QED
    BY <1>1, <1>2, <1>3, <1>4, <1>5, <1>6, <1>7, <1>8, NextIsOneOf

\* A Wait that blocks is never left without a worker that will answer it, whoever the
\* owner is and whatever a Kill that waited for the worker's end has left behind: only
\* a Kill that returned on a spurious wakeup can do that.
THEOREM WaitersAreAnswered == Spec => [](early \/ WaitsAreAnswered)
  <1>1. Init => Answers
    BY DEF Init, Answers
  <1>2. IInv /\ (~early => Answers) /\ [Next]_vars => (~early => Answers)'
    BY NextAnswers
  <1>3. (~early => Answers) => early \/ WaitsAreAnswered
    BY DEF Answers, WaitsAreAnswered
  <1> QED
    BY <1>1, <1>2, <1>3, Invariant, PTL DEF Spec

\* If threads can be created there is one whenever sig_out has been reset.
Occupied ==
    /\ ~tid => sigOut /\ pc \notin {"resetOut", "args", "readFlag", "writeFlag", "setIn"}
    /\ ~tid /\ "STARTING" \in flag => pc = "create"
    /\ pc = "idle" /\ last = "False" => Exists

\* Every step keeps that until a Kill returns early.
LEMMA NextOccupied ==
    ASSUME ~CreateMayFail, IInv, ~early => Answers /\ Occupied, [Next]_vars
    PROVE  ~early' => Occupied'
  <1> SUFFICES ASSUME ~early'
               PROVE  Occupied'
    OBVIOUS
  <1>0. /\ Occupied
        /\ wpc = "exit" => Detaching
        /\ Exists => tid
        /\ ~dangling
        /\ pc \in {"readDtor", "writeDtor"} => Exists
        /\ pc = "idle" /\ tid => sigOut \/ Exists
        /\ cancelled => pc = "killing"
    BY NextClean DEF IInv, TypeOK, EndsDetached, StartedKnown, HandleKnown, Answers, Coming
  <1>1. CASE UNCHANGED vars
    BY <1>0, <1>1 DEF vars, data, thread, owner, worker, Occupied, Exists
  <1>2. CASE RunBegins
    BY <1>0, <1>2 DEF RunBegins, CallRun, RunStarts, RunRefuses, RunContinues, Create,
       CreateRefused, CreateFails, Step, data, thread, owner, worker, history, Occupied, Exists
  <1>3. CASE RunPublishes
    BY <1>0, <1>3 DEF RunPublishes, ResetOut, SetArgs, ReadFlag, SetActive, SetIn,
       Step, data, thread, owner, worker, history, Occupied, Exists
  <1>4. CASE WaitOrKill
    BY <1>0, <1>4 DEF WaitOrKill, CallWait, WaitTrue, WaitFalse, CallKill, KillWakesEarly,
       Offline, KillFlag, KillOut, AfterKill, Step, data, thread, owner, worker, history,
       Occupied, Exists
  <1>5. CASE Destroys
    BY <1>0, <1>5 DEF Destroys, CallDestroy, DestroyOffline, DestroyRunning, SetDetached,
       ClearFunc, DestroyWake, Step, data, thread, owner, worker, history, Occupied, Exists
  <1>6. CASE WorkerTakes
    BY <1>0, <1>6 DEF WorkerTakes, WTest, WCall, WReturns,
       WStep, data, thread, owner, worker, history, Occupied, Exists
  <1>7. CASE WorkerClears
    BY <1>0, <1>7 DEF WorkerClears, Cleared, WReset, WReadFlag, WWriteFlag, WSetOut,
       WStep, data, thread, owner, worker, history, Occupied, Exists
  <1>8. CASE WorkerEnds
    BY <1>0, <1>8 DEF WorkerEnds, WExit, WDies, Detaching,
       Step, WStep, data, thread, owner, worker, history, Occupied, Exists
  <1> QED
    BY <1>1, <1>2, <1>3, <1>4, <1>5, <1>6, <1>7, <1>8, NextIsOneOf

\* A creation that fails and a Kill that returned on a spurious wakeup are the only ways
\* in which Wait returns FALSE without a thread (pthread.hh:22-23).
THEOREM WaitFalseMeansThread == ~CreateMayFail => (Spec => [](early \/ WaitTrueWithoutThread))
  <1>1. Init => Occupied /\ Answers
    BY DEF Init, Occupied, Answers
  <1>2. IInv /\ (~early => Answers) /\ [Next]_vars => (~early => Answers)'
    BY NextAnswers
  <1>3. (~early => Occupied) => early \/ WaitTrueWithoutThread
    BY DEF Occupied, WaitTrueWithoutThread
  <1>4. ASSUME ~CreateMayFail PROVE Spec => [](early \/ WaitTrueWithoutThread)
    <2>1. IInv /\ (~early => Answers) /\ (~early => Occupied) /\ [Next]_vars
            => (~early => Occupied)'
      BY <1>4, NextOccupied
    <2> QED
      BY <1>1, <1>2, <1>3, <2>1, Invariant, PTL DEF Spec
  <1> QED
    BY <1>4

-----------------------------------------------------------------------------
(* The refinement: PoolThread implements JobSlot.                          *)

\* PTDFLAG_ACTIVING is set only for a job, and a Run that goes through finds it clear.
\* The flag a killed worker leaves behind is overwritten by Kill.
ActiveMeansJob ==
    /\ Active /\ ~Running /\ ~Detaching /\ pc # "killFlag" =>
          sigIn \/ wpc \in {"readFlag", "writeFlag"}
    /\ Running /\ pc # "setIn" => ~Active

\* Every step keeps that until a Kill hits a job or returns early.
LEMMA NextActiveMeansJob ==
    ASSUME IInv, Orderly => ActiveMeansJob, [Next]_vars
    PROVE  Orderly' => ActiveMeansJob'
  <1> SUFFICES ASSUME Orderly'
               PROVE  ActiveMeansJob'
    OBVIOUS
  <1>0. /\ ~dirty' /\ ~early' /\ ActiveMeansJob
        /\ Running => ~sigIn /\ wpc \in {"none", "gone", "setOut", "test", "wait"}
        /\ ~Detaching /\ (sigIn \/ Working) => Active
        /\ wpc \in {"func", "call", "exec", "reset"} => sigIn
        /\ wpc = "exit" => Detaching
        /\ cancelled => pc = "killing"
        /\ "ACTIVING" \notin {"HAS_EXIT"} /\ "ACTIVING" \notin {"STARTING"}
    BY NextClean DEF Orderly, IInv, TypeOK, HandOver, SignalHeld, EndsDetached
  <1>1. CASE UNCHANGED vars
    BY <1>0, <1>1 DEF vars, data, thread, owner, worker, ActiveMeansJob, Active, Running,
       Detaching
  <1>2. CASE RunBegins
    BY <1>0, <1>2 DEF RunBegins, CallRun, RunStarts, RunRefuses, RunContinues, Busy,
       Create, CreateRefused, CreateFails, Step, data, thread, owner, worker,
       ActiveMeansJob, Active, Running, Detaching
  <1>3. CASE RunPublishes
    BY <1>0, <1>3 DEF RunPublishes, ResetOut, SetArgs, ReadFlag, SetActive, SetIn, Step,
       data, thread, owner, worker, ActiveMeansJob, Active, Running, Detaching
  <1>4. CASE WaitOrKill
    BY <1>0, <1>4 DEF WaitOrKill, CallWait, WaitTrue, WaitFalse, CallKill, KillWakesEarly,
       KillFlag, KillOut, Step, data, thread, owner, worker, ActiveMeansJob, Active,
       Running, Detaching
  <1>5. CASE Destroys
    BY <1>0, <1>5 DEF Destroys, CallDestroy, DestroyOffline, DestroyRunning, SetDetached,
       ClearFunc, DestroyWake, Step, data, thread, owner, worker, ActiveMeansJob, Active,
       Running, Detaching
  <1>6. CASE WorkerTakes
    BY <1>0, <1>6 DEF WorkerTakes, WTest, WCall, WReturns, WStep, data, thread, owner,
       ActiveMeansJob, Active, Running, Detaching
  <1>7. CASE WorkerClears
    BY <1>0, <1>7 DEF WorkerClears, WReset, WReadFlag, WWriteFlag, WSetOut, Cleared, WStep,
       data, thread, owner, ActiveMeansJob, Active, Running, Detaching
  <1>8. CASE WorkerEnds
    BY <1>0, <1>8 DEF WorkerEnds, WExit, WDies, Step, WStep, data, thread, owner,
       ActiveMeansJob, Active, Running, Detaching
  <1> QED
    BY <1>1, <1>2, <1>3, <1>4, <1>5, <1>6, <1>7, <1>8, NextIsOneOf

\* What the refinement rests on.
RInv ==
    /\ IInv
    /\ ~early => Answers
    /\ CreateMayFail \/ (~early => Occupied)
    /\ Orderly => ActiveMeansJob

\* The invariant of the refinement is one.
LEMMA RefinementInvariant == Spec => []RInv
  <1>1. Init => RInv
    BY InitIInv DEF Init, RInv, Answers, Occupied, ActiveMeansJob, Active, Running
  <1>2. RInv /\ [Next]_vars => RInv'
    <2> SUFFICES ASSUME RInv, [Next]_vars
                 PROVE  RInv'
      OBVIOUS
    <2>1. IInv' /\ (~early' => Answers') /\ (Orderly' => ActiveMeansJob')
      BY NextIInv, NextAnswers, NextActiveMeansJob DEF RInv
    <2>2. CreateMayFail \/ (~early' => Occupied')
      BY NextOccupied DEF RInv
    <2> QED
      BY <2>1, <2>2 DEF RInv
  <1> QED
    BY <1>1, <1>2, PTL DEF Spec

\* What JobSlot sees of the worker and the slot.
Seen == <<Phase, What, Exists, wpc = "setOut">>

\* It is made of the worker's place, sig_in, func and the arguments.
LEMMA SlotKept ==
    ASSUME UNCHANGED <<wpc, sigIn, func, args, wjob>>
    PROVE  UNCHANGED Seen
  BY DEF Seen, Phase, What, Exists

\* A worker without a job and without sig_in leaves the slot free.
LEMMA FreeSlot ==
    ASSUME ~sigIn \/ ~func, wpc \notin {"call", "exec", "reset", "readFlag", "writeFlag"}
    PROVE  Phase = "free" /\ What = 0
  BY DEF Phase, What

\* The owner's Run is a step of the slot or invisible.
LEMMA RunBeginsImplements ==
    ASSUME RInv, Orderly, RunBegins
    PROVE  Promise!Next \/ UNCHANGED Promise!vars
  <1>0. IInv /\ HandOver /\ ActiveMeansJob /\ StartedKnown
    BY DEF RInv, IInv, Orderly
  <1>1. CASE CallRun
    <2>1. UNCHANGED Seen
      BY <1>1, SlotKept DEF CallRun, data, thread, worker
    <2>2. Promise!CallRun
      BY <1>1, <2>1 DEF CallRun, Step, Seen, Place, data, thread, history, Orderly,
         Promise!CallRun,
         Promise!Step, Promise!slot
    <2> QED
      BY <2>2 DEF Promise!Next
  <1>2. CASE RunStarts
    <2>1. UNCHANGED Seen
      BY <1>2, SlotKept DEF RunStarts, thread, worker
    <2> QED
      BY <1>2, <2>1 DEF RunStarts, Step, Seen, Place, thread, history, Orderly, Promise!vars,
         Promise!slot
  <1>3. CASE RunRefuses
    <2>1. UNCHANGED Seen
      BY <1>3, SlotKept DEF RunRefuses, data, thread, worker
    <2>2. Phase # "free"
      BY <1>0, <1>3 DEF RunRefuses, Step, Busy, Active, ActiveMeansJob, Running, Detaching,
         IInv, EndsDetached, Phase
    <2>3. Promise!Refuse
      BY <1>3, <2>1, <2>2 DEF RunRefuses, Step, Seen, Place, data, thread, history,
         Orderly, Promise!Refuse, Promise!Step, Promise!slot
    <2> QED
      BY <2>3 DEF Promise!Next
  <1>4. CASE RunContinues
    <2>1. UNCHANGED Seen
      BY <1>4, SlotKept DEF RunContinues, data, thread, worker
    <2>2. Phase = "free"
      BY <1>0, <1>4, FreeSlot DEF RunContinues, Step, Busy, Active, HandOver, Working,
         Detaching
    <2>3. Exists \/ CreateMayFail
      BY <1>4 DEF RunContinues, Step, Orderly, RInv, Answers, Occupied, Detaching
    <2>4. Promise!Begin
      BY <1>4, <2>1, <2>2, <2>3 DEF RunContinues, Step, Seen, Place, data, thread, history,
         Exists, Orderly, Promise!Begin, Promise!Step, Promise!slot
    <2> QED
      BY <2>4 DEF Promise!Next
  <1>5. CASE Create
    <2>1. /\ Phase = "free" /\ What = 0
          /\ wpc # "setOut"
      BY <1>0, <1>5, FreeSlot DEF Create, Step, HandOver, Running, IInv, StartedKnown, Exists
    <2>2. /\ Phase' = "free" /\ What' = 0
          /\ Exists' /\ wpc' # "setOut"
      BY <1>0, <1>5 DEF Create, Step, data, thread, HandOver, Running, Exists, Phase, What
    <2>3. Promise!Begin
      BY <1>5, <2>1, <2>2 DEF Create, Step, Place, data, thread, history, Orderly,
         Promise!Begin,
         Promise!Step, Promise!slot
    <2> QED
      BY <2>3 DEF Promise!Next
  <1>6. CASE CreateFails
    <2>1. UNCHANGED Seen
      BY <1>6, SlotKept DEF CreateFails, data, thread, worker
    <2>2. ~Exists
      BY <1>0, <1>6 DEF CreateFails, Step, StartedKnown
    <2>3. Promise!Fail
      BY <1>6, <2>1, <2>2 DEF CreateFails, Step, Seen, Place, data, thread, history,
         Orderly, Promise!Fail, Promise!Step, Promise!slot
    <2> QED
      BY <2>3 DEF Promise!Next
  <1>7. ~CreateRefused
    BY <1>0 DEF CreateRefused, Step, StartedKnown
  <1> QED
    BY <1>1, <1>2, <1>3, <1>4, <1>5, <1>6, <1>7 DEF RunBegins

\* A Run that goes through lowers the signal and then hands its job over.
LEMMA RunPublishesImplements ==
    ASSUME RInv, Orderly, RunPublishes
    PROVE  Promise!Next \/ UNCHANGED Promise!vars
  <1>0. IInv /\ HandOver
    BY DEF RInv, IInv, Orderly
  <1>1. CASE ResetOut
    <2>1. UNCHANGED Seen
      BY <1>1, SlotKept DEF ResetOut, thread, worker
    <2>2. Promise!Lower
      BY <1>1, <2>1 DEF ResetOut, Raised, Step, Seen, Place, thread, history,
         Orderly, Promise!Lower, Promise!Step, Promise!slot
    <2> QED
      BY <2>2 DEF Promise!Next
  <1>2. CASE SetArgs
    <2>1. /\ ~sigIn /\ wpc \in {"none", "gone", "setOut", "test", "wait"}
          /\ UNCHANGED <<sigIn, wpc>>
      BY <1>0, <1>2 DEF SetArgs, Step, thread, worker, HandOver, Running
    <2>2. UNCHANGED Seen
      BY <2>1 DEF Seen, Phase, What, Exists
    <2> QED
      BY <1>2, <2>2 DEF SetArgs, Step, Seen, Place, thread, history, Orderly, Promise!vars,
         Promise!slot
  <1>3. CASE ReadFlag
    <2>1. UNCHANGED Seen
      BY <1>3, SlotKept DEF ReadFlag, data, thread, worker
    <2> QED
      BY <1>3, <2>1 DEF ReadFlag, Step, Seen, Place, data, thread, history, Orderly,
         Promise!vars,
         Promise!slot
  <1>4. CASE SetActive
    <2>1. UNCHANGED Seen
      BY <1>4, SlotKept DEF SetActive, thread, worker
    <2> QED
      BY <1>4, <2>1 DEF SetActive, Step, Seen, Place, thread, history, Orderly, Promise!vars,
         Promise!slot
  <1>5. CASE SetIn
    <2>1. /\ ~sigIn /\ wpc \in {"none", "gone", "setOut", "test", "wait"}
          /\ func /\ args = job
      BY <1>0, <1>5 DEF SetIn, Step, HandOver, Running, IInv, EndsDetached, JobsInOrder
    <2>2. tid <=> Exists
      BY <1>0, <1>5 DEF SetIn, Step, Orderly, RInv, Answers, IInv, HandleKnown, StartedKnown,
         Running, Detaching
    <2>3. UNCHANGED <<wpc, wjob, func, args, job>> /\ sigIn'
      BY <1>5 DEF SetIn, thread, worker
    <2>4. Phase = "free" /\ Phase' = "pending" /\ What' = job
      BY <2>1, <2>3 DEF Phase, What
    <2>5. UNCHANGED <<Exists, wpc = "setOut">>
      BY <2>3 DEF Exists
    <2>6. Promise!Hand
      BY <1>5, <2>2, <2>4, <2>5 DEF SetIn, Step, Place, thread, worker, Orderly, Promise!Hand,
         Promise!Step
    <2> QED
      BY <2>6 DEF Promise!Next
  <1> QED
    BY <1>1, <1>2, <1>3, <1>4, <1>5 DEF RunPublishes

\* Wait follows the signal; Kill raises it behind the worker.
LEMMA WaitOrKillImplements ==
    ASSUME RInv, Orderly, WaitOrKill
    PROVE  Promise!Next \/ UNCHANGED Promise!vars
  <1>1. UNCHANGED Seen
    BY SlotKept DEF WaitOrKill, CallWait, WaitTrue, WaitFalse, CallKill, KillWakesEarly,
       KillFlag, KillOut, data, thread, worker
  <1>2. CASE CallWait
    <2>1. Promise!CallWait
      BY <1>1, <1>2 DEF CallWait, Step, Seen, Place, data, thread, history,
         Orderly, Promise!CallWait, Promise!Step, Promise!slot
    <2> QED
      BY <2>1 DEF Promise!Next
  <1>3. CASE WaitTrue \/ WaitFalse
    <2>1. Promise!WaitEnds
      BY <1>1, <1>3 DEF WaitTrue, WaitFalse, Step, Seen, Place, data, thread, history,
         Orderly, Promise!WaitEnds, Promise!Step, Promise!slot
    <2> QED
      BY <2>1 DEF Promise!Next
  <1>4. CASE CallKill
    <2>1. Exists \/ CreateMayFail
      BY <1>4 DEF CallKill, Offline, RInv, IInv, HandleKnown
    <2>2. Promise!CallKill
      BY <1>1, <1>4, <2>1 DEF CallKill, Step, Seen, Place, data, thread, history,
         Orderly, Promise!CallKill, Promise!Step, Promise!slot
    <2> QED
      BY <2>2 DEF Promise!Next
  <1>5. CASE KillFlag
    BY <1>1, <1>5 DEF KillFlag, Step, Seen, Place, thread, history, Orderly, Promise!vars,
       Promise!slot
  <1>6. CASE KillOut
    <2>1. Promise!Killed
      BY <1>1, <1>6 DEF KillOut, AfterKill, Step, Seen, Place, thread, history,
         Orderly, Promise!Killed, Promise!Step, Promise!slot
    <2> QED
      BY <2>1 DEF Promise!Next
  <1>7. CASE KillWakesEarly
    <2>1. /\ Place = "killing" /\ Place' = "killed"
          /\ func /\ dirty \in BOOLEAN /\ early \in BOOLEAN
          /\ ~dirty /\ ~early
          /\ UNCHANGED Exists
      BY <1>7 DEF KillWakesEarly, Step, Place, RInv, IInv, TypeOK, EndsDetached, Orderly,
         worker, Exists
    <2>2. CASE Exists
      <3>1. ~Orderly' /\ Exists'
        BY <1>7, <2>1, <2>2 DEF KillWakesEarly, Orderly
      <3>2. Promise!Spoil
        BY <2>1, <3>1 DEF Promise!Spoil
      <3> QED
        BY <3>2 DEF Promise!Next
    <2>3. CASE ~Exists /\ sigIn
      <3>1. Phase \notin {"free", "cleared"}
        BY <2>1, <2>3 DEF Phase, Exists
      <3>2. ~Orderly'
        BY <1>7, <2>3 DEF KillWakesEarly, Orderly
      <3>3. Promise!Spoil
        BY <2>1, <3>1, <3>2 DEF Promise!Spoil
      <3> QED
        BY <3>3 DEF Promise!Next
    <2>4. CASE ~Exists /\ ~sigIn
      <3>1. Phase = "free" /\ What = 0 /\ wpc # "setOut"
        BY <2>4, FreeSlot DEF Exists
      <3>2. Orderly'
        BY <1>7, <2>1, <2>4 DEF KillWakesEarly, Orderly
      <3>3. Promise!Die
        BY <1>1, <1>7, <2>1, <2>4, <3>1, <3>2
        DEF KillWakesEarly, Seen, data, Promise!Die, Promise!Step
      <3> QED
        BY <3>3 DEF Promise!Next
    <2> QED
      BY <2>2, <2>3, <2>4
  <1> QED
    BY <1>2, <1>3, <1>4, <1>5, <1>6, <1>7 DEF WaitOrKill

\* The destructor takes a job that is pending away, and nothing else.
LEMMA DestroysImplements ==
    ASSUME RInv, Orderly, Destroys
    PROVE  Promise!Next \/ UNCHANGED Promise!vars
  <1>0. IInv
    BY DEF RInv
  <1>1. CASE CallDestroy
    <2>1. UNCHANGED Seen
      BY <1>1, SlotKept DEF CallDestroy, data, thread, worker
    <2>2. Promise!CallDestroy
      BY <1>1, <2>1 DEF CallDestroy, Step, Seen, Place, data, thread, history,
         Orderly, Promise!CallDestroy, Promise!Step, Promise!slot
    <2> QED
      BY <2>2 DEF Promise!Next
  <1>2. CASE DestroyOffline
    <2>1. UNCHANGED Seen
      BY <1>2, SlotKept DEF DestroyOffline, thread, worker
    <2>2. Promise!Destroy
      BY <1>2, <2>1 DEF DestroyOffline, Step, Seen, Place, thread, history,
         Orderly, Promise!Destroy, Promise!Step, Promise!slot
    <2> QED
      BY <2>2 DEF Promise!Next
  <1>3. CASE DestroyRunning \/ SetDetached
    <2>1. UNCHANGED Seen
      BY <1>3, SlotKept DEF DestroyRunning, SetDetached, data, thread, worker
    <2> QED
      BY <1>3, <2>1 DEF DestroyRunning, SetDetached, Step, Seen, Place, data, thread,
         history, Orderly, Promise!vars, Promise!slot
  <1>4. CASE ClearFunc
    <2>1. UNCHANGED <<wpc, wjob, sigIn, args>> /\ (func' = (freed /\ func)) /\ func \in BOOLEAN
      BY <1>0, <1>4 DEF ClearFunc, thread, worker, IInv, TypeOK
    <2>2. \/ Phase = "pending" /\ Phase' = "free" /\ What' = 0
          \/ UNCHANGED <<Phase, What>>
      <3>1. CASE UNCHANGED func
        BY <2>1, <3>1 DEF Phase, What
      <3>2. CASE func /\ ~func'
        BY <2>1, <3>2 DEF Phase, What
      <3> QED
        BY <2>1, <3>1, <3>2
    <2>3. UNCHANGED <<Exists, wpc = "setOut">>
      BY <2>1 DEF Exists
    <2>4. Promise!Destroy
      BY <1>4, <2>2, <2>3 DEF ClearFunc, Step, Place, thread, history, Orderly,
         Promise!Destroy,
         Promise!Step, Promise!slot
    <2> QED
      BY <2>4 DEF Promise!Next
  <1>5. CASE DestroyWake
    <2>1. UNCHANGED <<wpc, wjob, func, args>> /\ (~func \/ UNCHANGED sigIn)
      BY <1>0, <1>5 DEF DestroyWake, Wakes, Step, thread, worker, IInv, TypeOK,
         EndsDetached
    <2>2. UNCHANGED Seen
      BY <2>1 DEF Seen, Phase, What, Exists
    <2> QED
      BY <1>5, <2>2 DEF DestroyWake, Step, Seen, Place, thread, history, Orderly,
         Promise!vars,
         Promise!slot
  <1> QED
    BY <1>1, <1>2, <1>3, <1>4, <1>5 DEF Destroys

\* The worker starts the job that is pending and ends it.
LEMMA WorkerTakesImplements ==
    ASSUME RInv, Orderly, WorkerTakes
    PROVE  Promise!Next \/ UNCHANGED Promise!vars
  <1>0. IInv /\ SignalHeld
    BY DEF RInv, IInv
  <1>1. CASE WTest
    <2>1. UNCHANGED <<sigIn, func, args, wjob>>
      BY <1>1 DEF WTest, data, thread
    <2>2. UNCHANGED Seen
      BY <1>0, <1>1, <2>1 DEF WTest, WStep, SignalHeld, Seen, Phase, What, Exists
    <2> QED
      BY <1>1, <2>2 DEF WTest, Seen, Place, data, thread, owner, history, Orderly,
         Promise!vars,
         Promise!slot
  <1>2. CASE WCall
    <2>1. /\ Exists /\ Phase = "pending" /\ What = args
          /\ Exists' /\ Phase' = "running" /\ What' = args
          /\ wpc # "setOut" /\ wpc' # "setOut"
      BY <1>2 DEF WCall, WStep, Exists, Phase, What
    <2>2. Promise!Start
      BY <1>2, <2>1 DEF WCall, Place, data, thread, owner, Orderly, Promise!Start
    <2> QED
      BY <2>2 DEF Promise!Next
  <1>3. CASE WReturns
    <2>1. /\ Exists /\ Phase = "running"
          /\ Exists' /\ Phase' = "ended" /\ What' = 0
          /\ wpc # "setOut" /\ wpc' # "setOut"
      BY <1>3 DEF WReturns, WStep, Exists, Phase, What
    <2>2. Promise!End
      BY <1>3, <2>1 DEF WReturns, Place, data, thread, owner, Orderly, Promise!End
    <2> QED
      BY <2>2 DEF Promise!Next
  <1> QED
    BY <1>1, <1>2, <1>3 DEF WorkerTakes

\* It clears the slot, gives it back and raises the signal, in this order.
LEMMA WorkerClearsImplements ==
    ASSUME RInv, Orderly, WorkerClears
    PROVE  Promise!Next \/ UNCHANGED Promise!vars
  <1>0. IInv /\ HandOver
    BY DEF RInv, IInv, Orderly
  <1>1. CASE WReset
    <2>1. /\ Exists /\ Phase = "ended" /\ What = 0
          /\ Exists' /\ Phase' = "cleared" /\ What' = 0
          /\ wpc # "setOut" /\ wpc' # "setOut"
      BY <1>1 DEF WReset, WStep, Exists, Phase, What
    <2>2. Promise!Clear
      BY <1>1, <2>1 DEF WReset, Place, thread, owner, history, Orderly, Promise!Clear
    <2> QED
      BY <2>2 DEF Promise!Next
  <1>2. CASE WReadFlag
    <2>1. UNCHANGED Seen
      BY <1>2 DEF WReadFlag, WStep, data, thread, Seen, Exists, Phase, What
    <2> QED
      BY <1>2, <2>1 DEF WReadFlag, Seen, Place, data, thread, owner, history, Orderly,
         Promise!vars,
         Promise!slot
  <1>3. CASE WWriteFlag
    <2>1. ~sigIn \/ ~func
      BY <1>0, <1>3 DEF WWriteFlag, WStep, HandOver, IInv, EndsDetached, Exists
    <2>2. /\ Exists /\ Phase = "cleared" /\ What = 0
          /\ Exists' /\ Phase' = "free" /\ What' = 0
          /\ wpc # "setOut" /\ wpc' = "setOut"
      BY <1>3, <2>1 DEF WWriteFlag, WStep, Exists, Phase, What
    <2>3. Promise!Release
      BY <1>3, <2>2 DEF WWriteFlag, Place, thread, owner, history, Orderly, Promise!Release
    <2> QED
      BY <2>3 DEF Promise!Next
  <1>4. CASE WSetOut
    <2>1. /\ Exists /\ Exists'
          /\ UNCHANGED <<Phase, What>>
          /\ wpc = "setOut" /\ wpc' # "setOut"
      BY <1>4 DEF WSetOut, WStep, Exists, Phase, What
    <2>2. Promise!Raise
      BY <1>4, <2>1 DEF WSetOut, Place, thread, owner, history, Orderly, Promise!Raise,
         Promise!slot
    <2> QED
      BY <2>2 DEF Promise!Next
  <1> QED
    BY <1>1, <1>2, <1>3, <1>4 DEF WorkerClears

\* The worker leaves a slot without a job, unless it is killed.
LEMMA WorkerEndsImplements ==
    ASSUME RInv, Orderly, WorkerEnds
    PROVE  Promise!Next \/ UNCHANGED Promise!vars
  <1>0. IInv /\ HandOver /\ SignalHeld /\ (cancelled => pc = "killing")
    BY DEF RInv, IInv, TypeOK, Orderly
  <1>1. CASE WExit
    <2>1. UNCHANGED <<Phase, What>> /\ Phase \in {"free", "pending"}
      BY <1>1 DEF WExit, WStep, thread, worker, Phase, What
    <2>2. /\ Exists /\ ~Exists' /\ wpc # "setOut" /\ wpc' # "setOut"
      BY <1>1 DEF WExit, WStep, Exists
    <2>3. Place \in {"destroying", "destroyed"}
      BY <1>0, <1>1 DEF WExit, WStep, IInv, EndsDetached, Detaching, Place
    <2>4. Promise!Quit
      BY <1>1, <2>1, <2>2, <2>3 DEF WExit, Place, thread, owner, history, Orderly,
         Promise!Quit,
         Promise!slot
    <2> QED
      BY <2>4 DEF Promise!Next
  <1>2. CASE WDies
    <2>1. Place = "killing" /\ Place' = "killed"
      BY <1>0, <1>2 DEF WDies, Place
    <2>2. wpc # "exit" /\ func /\ (wpc \in {"readFlag", "writeFlag"} => ~sigIn)
      BY <1>0, <1>2 DEF WDies, HandOver, IInv, EndsDetached, Detaching
    <2>3. CASE sigIn
      <3>1. Phase \notin {"free", "cleared"}
        BY <2>2, <2>3 DEF Phase
      <3>2. ~Orderly'
        BY <1>2, <2>3 DEF WDies, Orderly
      <3>3. Promise!Spoil
        BY <2>1, <3>1, <3>2 DEF Promise!Spoil
      <3> QED
        BY <3>3 DEF Promise!Next
    <2>4. CASE ~sigIn
      <3>1. Phase \in {"free", "cleared"}
        BY <1>0, <2>4 DEF SignalHeld, Phase
      <3>2. ~Exists' /\ Phase' = "free" /\ What' = 0 /\ wpc' # "setOut"
        BY <1>2, <2>4 DEF WDies, data, thread, Exists, Phase, What
      <3>3. Orderly'
        BY <1>0, <1>2, <2>4 DEF WDies, Orderly, IInv, TypeOK
      <3>4. Promise!Die
        BY <1>2, <2>1, <3>1, <3>2, <3>3 DEF WDies, data, Promise!Die, Promise!Step
      <3> QED
        BY <3>4 DEF Promise!Next
    <2> QED
      BY <2>3, <2>4
  <1> QED
    BY <1>1, <1>2 DEF WorkerEnds

\* Every step is one of the slot's, leaves the slot alone, or follows a Kill that hit
\* a job or returned early.
LEMMA NextImplements ==
    ASSUME RInv, [Next]_vars
    PROVE  Promise!Next \/ UNCHANGED Promise!vars
  <1>1. CASE ~Orderly
    <2>1. ~Orderly'
      BY <1>1, NextClean DEF Orderly, RInv
    <2> QED
      BY <1>1, <2>1 DEF Promise!Next
  <1>2. CASE Orderly
    <2>1. CASE UNCHANGED vars
      <3>1. UNCHANGED Seen
        BY <2>1, SlotKept DEF vars, data, thread, worker
      <3> QED
        BY <2>1, <3>1 DEF vars, data, thread, owner, history, Seen, Place, Orderly,
           Promise!vars,
           Promise!slot
    <2> QED
      BY <1>2, <2>1, NextIsOneOf, RunBeginsImplements, RunPublishesImplements,
         WaitOrKillImplements, DestroysImplements, WorkerTakesImplements,
         WorkerClearsImplements, WorkerEndsImplements
  <1> QED
    BY <1>1, <1>2

\* For any number of jobs PoolThread is the slot that JobSlot describes, although the
\* owner and the worker share plain fields without a lock, pthread_create may fail and
\* leave a handle, and a Kill may return early: from a Kill that left sig_in set or its
\* worker alive on, JobSlot allows everything.
THEOREM ImplementsPromise == Spec => ImplementsJobSlot
  <1>1. Init => Promise!Init
    BY DEF Init, Orderly, Promise!Init, Phase, What, Exists, Place
  <1>2. RInv /\ [Next]_vars => [Promise!Next]_(Promise!vars)
    BY NextImplements
  <1> QED
    BY <1>1, <1>2, RefinementInvariant, PTL DEF Spec, ImplementsJobSlot, Promise!Spec
=============================================================================
