----------------------------- MODULE PoolThread -----------------------------
(***************************************************************************)
(* System::PoolThread (system/pthread.cc): a thread that executes one job  *)
(* after the other, handed over through PoolThreadData by a single owner.  *)
(*                                                                         *)
(* The owner and the worker share plain fields without a lock, so each     *)
(* access is a step, and `flag |= x` is a read and a write.  The two       *)
(* manual-reset events are atomic cells, which module Event justifies; the *)
(* base class Thread is what its handle names (module Thread): a worker    *)
(* that has not marked its exit, one that has, or, after a pthread_create  *)
(* that failed, perhaps no thread at all.  Its Kill sleeps once, so that   *)
(* it may return before the worker has ended.  A write to PoolThreadData   *)
(* after its deletion is undefined: here it is lost.                       *)
(***************************************************************************)
EXTENDS Naturals, FiniteSets

CONSTANTS
    MaxJobs,         \* bound: how many times the owner calls Run
    CreateMayFail,   \* pthread_create may fail
    FailureLeavesHandle, \* and then leaves a value in the pthread_t
    SpuriousWakeups, \* pthread_cond_wait may return without a signal
    MayKill,         \* the owner may call Kill
    Disciplines      \* the owners considered: TRUE for one that calls Run only
                     \* after a Wait that returned TRUE, as the unit test does

ASSUME BoundsAssumption == MaxJobs \in Nat
ASSUME ClientAssumption ==
    /\ CreateMayFail \in BOOLEAN /\ FailureLeavesHandle \in BOOLEAN
    /\ SpuriousWakeups \in BOOLEAN /\ MayKill \in BOOLEAN
    /\ Disciplines \subseteq BOOLEAN

Jobs == 1..MaxJobs
Flags == {"STARTING", "HAS_EXIT", "DETACHED", "ACTIVING"}

VARIABLES
    sigIn, sigOut, func, args, flag,   \* PoolThreadData; func: is it non-null?
    freed,         \* PoolThreadData has been deleted
    tid,           \* whether GetID() is nonzero
    dangling,      \* the handle is set but names no thread
    pc, seen,      \* where the owner is; the value of flag it has read
    job,           \* the argument of its last Run
    last,          \* what its last call returned
    wpc, wseen,    \* the same for the worker thread
    wjob,          \* the argument it executes
    cancelled,     \* pthread_cancel has been called for it and has not ended it
    accepted,      \* the jobs for which Run has returned an id
    runs, done,    \* how often each has been started; those that have returned
    dirty,         \* a Kill has left sig_in set
    early,         \* a Kill has returned although its worker still existed
    disciplined    \* the owner waits before each Run

data == <<sigIn, sigOut, func, args, flag, freed>>
owner == <<pc, seen, job, last>>
worker == <<wpc, wseen, wjob>>
history == <<accepted, runs, done, dirty, early, disciplined>>
thread == <<tid, dangling, cancelled>>
vars == <<data, thread, owner, worker, history>>

Exists == wpc \notin {"none", "gone"}
Executing == wpc \in {"call", "exec"}

TypeOK ==
    /\ sigIn \in BOOLEAN /\ sigOut \in BOOLEAN /\ func \in BOOLEAN /\ freed \in BOOLEAN
    /\ tid \in BOOLEAN /\ dangling \in BOOLEAN /\ cancelled \in BOOLEAN
    /\ dirty \in BOOLEAN /\ early \in BOOLEAN /\ disciplined \in BOOLEAN
    /\ flag \subseteq Flags /\ seen \subseteq Flags /\ wseen \subseteq Flags
    /\ args \in 0..MaxJobs /\ job \in 0..MaxJobs /\ wjob \in 0..MaxJobs
    /\ pc \in {"idle", "run", "create", "resetOut", "args", "readFlag", "writeFlag",
               "setIn", "wait", "killing", "killFlag", "killOut", "status", "readDtor",
               "writeDtor", "func", "wake", "destroyed"}
    /\ last \in {"none", "accepted", "refused", "notCreated", "True", "False", "killed"}
    /\ wpc \in {"none", "test", "wait", "func", "call", "exec", "reset", "readFlag",
                "writeFlag", "setOut", "exit", "gone"}
    /\ accepted \subseteq Jobs /\ done \subseteq Jobs
    /\ runs \in [Jobs -> Nat]
    /\ cancelled => pc = "killing" \/ early
    /\ freed => pc \in {"writeDtor", "func", "wake", "destroyed"} /\ ~Executing

Init ==
    /\ sigIn = FALSE /\ sigOut = TRUE /\ func = TRUE /\ args = 0 /\ flag = {}
    /\ freed = FALSE /\ tid = FALSE /\ dangling = FALSE
    /\ pc = "idle" /\ seen = {} /\ job = 0 /\ last = "none"
    /\ wpc = "none" /\ wseen = {} /\ wjob = 0 /\ cancelled = FALSE
    /\ accepted = {} /\ runs = [j \in Jobs |-> 0] /\ done = {}
    /\ dirty = FALSE /\ early = FALSE
    /\ disciplined \in Disciplines

-----------------------------------------------------------------------------
(* The owner: Run.                                                         *)

Step(from, to) == pc = from /\ pc' = to

CallRun ==
    /\ Step("idle", "run")
    /\ disciplined => last = "True"
    /\ job < MaxJobs /\ job' = job + 1
    /\ UNCHANGED <<data, thread, seen, last, worker, history>>

RunStarts ==
    /\ Step("run", "create")
    /\ "STARTING" \notin flag
    /\ flag' = {"STARTING"}
    /\ UNCHANGED <<sigIn, sigOut, func, args, freed, thread, seen, job, last, worker, history>>

\* Mutation: the job of a busy worker is not looked at.
Busy_Ignored == FALSE
\* else if (ptd->flag & PTDFLAG_ACTIVING)
Busy == "ACTIVING" \in flag

RunRefuses ==
    /\ Step("run", "idle")
    /\ "STARTING" \in flag /\ Busy
    /\ last' = "refused"
    /\ UNCHANGED <<data, thread, seen, job, worker, history>>

RunContinues ==
    /\ Step("run", "resetOut")
    /\ "STARTING" \in flag /\ ~Busy
    /\ UNCHANGED <<data, thread, seen, job, last, worker, history>>

\* Thread::Run(_ptr) creates a thread unless the last one has not marked its exit.
Create ==
    /\ ~(tid /\ Exists)
    /\ Step("create", "resetOut")
    /\ wpc' = "test" /\ tid' = TRUE /\ dangling' = FALSE
    /\ UNCHANGED <<data, cancelled, seen, job, last, wseen, wjob, history>>

\* The last one has not: a Kill has returned before its end.
CreateRefused ==
    /\ tid /\ Exists
    /\ Step("create", "idle")
    /\ last' = "notCreated"
    /\ UNCHANGED <<data, thread, seen, job, worker, history>>

\* pthread_create fails, and may have written to the handle all the same.
CreateFails ==
    /\ CreateMayFail /\ ~(tid /\ Exists)
    /\ Step("create", "idle")
    /\ tid' = FALSE
    /\ UNCHANGED dangling \/ (FailureLeavesHandle /\ dangling' = TRUE)
    /\ last' = "notCreated"
    /\ UNCHANGED <<data, cancelled, seen, job, worker, history>>

\* Mutation: the line is missing.
Raised_Kept == sigOut
\* ptd->sig_out.Reset()
Raised == FALSE

ResetOut ==
    /\ Step("resetOut", "args")
    /\ sigOut' = Raised
    /\ UNCHANGED <<sigIn, func, args, flag, freed, thread, seen, job, last, worker, history>>

SetArgs ==
    /\ Step("args", "readFlag")
    /\ args' = job
    /\ UNCHANGED <<sigIn, sigOut, func, flag, freed, thread, seen, job, last, worker, history>>

\* The reads of ptd->flag in Run and in the destructor.
ReadFlag ==
    /\ Step("readFlag", "writeFlag") \/ Step("readDtor", "writeDtor")
    /\ seen' = flag
    /\ UNCHANGED <<data, thread, job, last, worker, history>>

SetActive ==
    /\ Step("writeFlag", "setIn")
    /\ flag' = seen \cup {"ACTIVING"} /\ seen' = {}
    /\ UNCHANGED <<sigIn, sigOut, func, args, freed, thread, job, last, worker, history>>

\* The result is GetID(): 0 if an earlier call failed to create the thread.
SetIn ==
    /\ Step("setIn", "idle")
    /\ sigIn' = TRUE
    /\ IF tid
         THEN last' = "accepted" /\ accepted' = accepted \cup {job}
         ELSE last' = "notCreated" /\ UNCHANGED accepted
    /\ UNCHANGED <<sigOut, func, args, flag, freed, thread, seen, job, worker,
                   runs, done, dirty, early, disciplined>>

-----------------------------------------------------------------------------
(* Wait, Kill and the destructor.                                          *)

\* The wait is infinite.
CallWait ==
    /\ Step("idle", "wait")
    /\ UNCHANGED <<data, thread, seen, job, last, worker, history>>

WaitTrue ==
    /\ Step("wait", "idle") /\ sigOut
    /\ last' = "True"
    /\ UNCHANGED <<data, thread, seen, job, worker, history>>

\* A wait with a limit that has passed.
WaitFalse ==
    /\ Step("idle", "idle") /\ ~sigOut
    /\ last' = "False"
    /\ UNCHANGED <<data, thread, seen, job, worker, history>>

\* Mutation: a holding worker counts as offline.
Offline_Holding == "ACTIVING" \notin flag
\* Thread::Status() == Thread::Offline: no handle, or the exit has been marked.
Offline == ~Exists /\ ~dangling

\* Thread::Kill cancels what the handle names and sleeps until WDies; where nobody
\* is going to mark an exit it sleeps for ever.  With no handle, or one whose thread
\* has marked its exit, Kill returns False and changes nothing.
CallKill ==
    /\ MayKill /\ ~Offline
    /\ Step("idle", "killing")
    /\ cancelled' = (cancelled \/ Exists)
    /\ UNCHANGED <<data, tid, dangling, seen, job, last, worker, history>>

\* It sleeps once, so that it takes a spurious wakeup for the exit.
KillWakesEarly ==
    /\ SpuriousWakeups
    /\ Step("killing", "killFlag")
    /\ early' = (early \/ Exists)
    /\ dirty' = (dirty \/ (sigIn /\ ~Exists))
    /\ UNCHANGED <<data, thread, seen, job, last, worker, accepted, runs, done, disciplined>>

KillFlag ==
    /\ Step("killFlag", "killOut")
    /\ flag' = {"HAS_EXIT"}
    /\ UNCHANGED <<sigIn, sigOut, func, args, freed, thread, seen, job, last, worker, history>>

\* Mutation: Kill does not signal.
AfterKill_Kept == sigOut
\* ptd->sig_out.Set()
AfterKill == TRUE

KillOut ==
    /\ Step("killOut", "idle")
    /\ sigOut' = AfterKill
    /\ last' = "killed"
    /\ UNCHANGED <<sigIn, func, args, flag, freed, thread, seen, job, worker, history>>

CallDestroy ==
    /\ Step("idle", "status")
    /\ UNCHANGED <<data, thread, seen, job, last, worker, history>>

DestroyOffline ==
    /\ Step("status", "destroyed") /\ Offline
    /\ freed' = TRUE
    /\ UNCHANGED <<sigIn, sigOut, func, args, flag, thread, seen, job, last, worker, history>>

DestroyRunning ==
    /\ Step("status", "readDtor") /\ ~Offline
    /\ UNCHANGED <<data, thread, seen, job, last, worker, history>>

SetDetached ==
    /\ Step("writeDtor", "func")
    /\ flag' = IF freed THEN flag ELSE seen \cup {"DETACHED"}
    /\ seen' = {}
    /\ UNCHANGED <<sigIn, sigOut, func, args, freed, thread, job, last, worker, history>>

ClearFunc ==
    /\ Step("func", "wake")
    /\ func' = (freed /\ func)
    /\ UNCHANGED <<sigIn, sigOut, args, flag, freed, thread, seen, job, last, worker, history>>

\* Mutation: the destructor leaves the worker asleep.
Wakes_Never == FALSE
Wakes == ~freed

DestroyWake ==
    /\ Step("wake", "destroyed")
    /\ sigIn' = (sigIn \/ Wakes)
    /\ UNCHANGED <<sigOut, func, args, flag, freed, thread, seen, job, last, worker, history>>

-----------------------------------------------------------------------------
(* The worker: _Prot_WrapPoolThread_Proc_.                                 *)

WStep(from, to) == wpc = from /\ wpc' = to

WTest ==
    /\ \/ WStep("test", "wait") /\ "DETACHED" \notin flag
       \/ WStep("test", "exit") /\ "DETACHED" \in flag
       \/ WStep("wait", "func") /\ sigIn
       \/ WStep("func", "call") /\ func
       \/ WStep("func", "exit") /\ ~func
    /\ UNCHANGED <<data, thread, owner, wseen, wjob, history>>

WCall ==
    /\ WStep("call", "exec")
    /\ wjob' = args
    /\ runs' = IF args = 0 THEN runs ELSE [runs EXCEPT ![args] = @ + 1]
    /\ UNCHANGED <<data, thread, owner, wseen, accepted, done, dirty, early,
                   disciplined>>

WReturns ==
    /\ WStep("exec", "reset")
    /\ done' = done \cup ({wjob} \ {0})
    /\ wjob' = 0
    /\ UNCHANGED <<data, thread, owner, wseen, accepted, runs, dirty, early,
                   disciplined>>

\* Mutation: sig_in is left set.
Pending_Kept == sigIn
\* ptd->sig_in.Reset()
Pending == FALSE

WReset ==
    /\ WStep("reset", "readFlag")
    /\ sigIn' = Pending
    /\ UNCHANGED <<sigOut, func, args, flag, freed, thread, owner, wseen, wjob, history>>

WReadFlag ==
    /\ WStep("readFlag", "writeFlag")
    /\ wseen' = flag
    /\ UNCHANGED <<data, thread, owner, wjob, history>>

\* Mutation: the flag that is cleared is the wrong one.
Cleared_Starting == wseen \ {"STARTING"}
\* ptd->flag &= ~PTDFLAG_ACTIVING
Cleared == wseen \ {"ACTIVING"}

WWriteFlag ==
    /\ WStep("writeFlag", "setOut")
    /\ flag' = Cleared
    /\ wseen' = {}
    /\ UNCHANGED <<sigIn, sigOut, func, args, freed, thread, owner, wjob, history>>

WSetOut ==
    /\ WStep("setOut", "test")
    /\ sigOut' = TRUE
    /\ UNCHANGED <<sigIn, func, args, flag, freed, thread, owner, wseen, wjob, history>>

WExit ==
    /\ WStep("exit", "gone")
    /\ freed' = (freed \/ "HAS_EXIT" \notin flag)
    /\ UNCHANGED <<sigIn, sigOut, func, args, flag, thread, owner, wseen, wjob, history>>

\* Asynchronous cancellation ends the worker wherever it is, and sooner or later
\* also if Kill has already returned.  The end, the mark of it and the broadcast are
\* one step: the owner sees the mark only, and a Kill that sleeps needs the mutex
\* under which the two are made.
WDies ==
    /\ cancelled /\ Exists
    /\ wpc' = "gone" /\ wseen' = {} /\ wjob' = 0
    /\ cancelled' = FALSE
    /\ pc' = IF pc = "killing" THEN "killFlag" ELSE pc
    /\ dirty' = (dirty \/ sigIn)
    /\ UNCHANGED <<data, tid, dangling, seen, job, last, accepted, runs, done, early,
                   disciplined>>

WorkerStep ==
    WTest \/ WCall \/ WReturns \/ WReset \/ WReadFlag \/ WWriteFlag \/ WSetOut \/ WExit

\* What the owner does inside a call, as opposed to the choice of its next call.
OwnerStep ==
    \/ RunStarts \/ RunRefuses \/ RunContinues \/ Create \/ CreateRefused
    \/ CreateFails
    \/ ResetOut \/ SetArgs \/ ReadFlag \/ SetActive \/ SetIn
    \/ WaitTrue \/ KillFlag \/ KillOut
    \/ DestroyOffline \/ DestroyRunning \/ SetDetached \/ ClearFunc \/ DestroyWake

Next ==
    \/ WorkerStep \/ WDies \/ OwnerStep
    \/ CallRun \/ CallWait \/ WaitFalse \/ CallKill \/ KillWakesEarly \/ CallDestroy

Spec == Init /\ [][Next]_vars

\* Both threads are scheduled, job functions return, and a cancellation takes effect;
\* the owner need not make another call.
FairSpec == Spec /\ WF_vars(WorkerStep) /\ WF_vars(WDies) /\ WF_vars(OwnerStep)

-----------------------------------------------------------------------------
\* After a Kill that has hit a job, or has returned before its worker's end, flag,
\* sig_in and the id no longer say what the worker does.
Orderly == ~dirty /\ ~early

\* A job is executed at most once and never before its Run has published it,
\* although func, args and flag are read without a lock: as long as no Kill has
\* left sig_in set or returned early.
JobsRunOnce ==
    Orderly => \A j \in Jobs : runs[j] <= 1 /\ (runs[j] > 0 => j \in accepted \cup {job})

\* pthread.hh:20-23, for an owner that waits before each Run as the unit test
\* does: when Wait returns TRUE no job is pending or executing, so that the
\* arguments of the last one may be reused.
WaitTrueMeansIdle ==
    disciplined /\ Orderly /\ pc = "idle" /\ last = "True" =>
        ~Executing /\ ~sigIn /\ "ACTIVING" \notin flag

\* threads_unittest.cpp:311-313: the Run after such a Wait is never refused.
DisciplinedRunAccepted == disciplined /\ Orderly => last # "refused"

\* An accepted job is executed to its end, unless the owner kills the worker or
\* destroys the object.  A Run after a Kill that has returned early may find neither
\* a worker nor a reason to create one (thread_posix.cpp:147-148): its job is lost.
JobCompletes ==
    \A j \in Jobs :
        j \in accepted ~> (j \in done \/ ~Orderly \/ pc \in {"killing", "destroyed"})

\* Wait returns, whatever the order of the resets and sets of sig_out, unless the
\* thread could not be created or a Kill has returned early.
WaitReturns == (pc = "wait" /\ tid /\ ~early) ~> pc # "wait"

\* The destructor ends the worker and its data is deleted, although the worker's
\* own update of the flag may overwrite PTDFLAG_DETACHED.  There are three exceptions.
\* When a Kill has left sig_in set, the reset after the second execution of the killed
\* job may take the destructor's signal, and the worker waits for ever.  A worker whose
\* Kill has returned early, and a handle that a failed pthread_create has left
\* (thread_posix.cpp:248), are taken for a worker that will delete the data, and nobody
\* does.
DestroyEndsWorker ==
    (pc = "destroyed") ~> (dirty \/ (~Exists /\ (freed \/ early \/ dangling)))

\* pthread.hh:20-22: if the thread is still running after waiting, return false.
WaitFalseWhileRunning == pc = "idle" /\ last = "True" => ~Executing

\* pthread.hh:22-23: otherwise return true, even if the thread is not created.
WaitTrueWithoutThread == pc = "idle" /\ last = "False" => Exists

\* What JobSlot calls the state of the slot: sig_in beside a worker that has not
\* taken the job yet, then the worker's own place.  The destructor takes func away
\* before it sets sig_in itself.
Phase ==
    CASE wpc = "exec" -> "running"
      [] wpc = "reset" -> "ended"
      [] wpc \in {"readFlag", "writeFlag"} -> "cleared"
      [] wpc = "call" -> "pending"
      [] OTHER -> IF sigIn /\ func THEN "pending" ELSE "free"

\* The argument of the job in it.
What ==
    CASE Phase = "pending" -> args
      [] Phase = "running" -> wjob
      [] OTHER -> 0

Place ==
    CASE pc = "create" -> "run"
      [] pc = "resetOut" -> "begun"
      [] pc \in {"args", "readFlag", "writeFlag", "setIn"} -> "lowered"
      [] pc \in {"killFlag", "killOut"} -> "killed"
      [] pc \in {"status", "readDtor", "writeDtor", "func"} -> "destroying"
      [] pc = "wake" -> "destroyed"
      [] OTHER -> pc

Promise ==
    INSTANCE JobSlot
    WITH phase <- Phase, worker <- Exists, signal <- sigOut, late <- wpc = "setOut",
         what <- What, place <- Place, reply <- last, spoilt <- ~Orderly,
         MayFail <- CreateMayFail

\* Until a Kill hits a job or returns early, Run is refused only while the worker has a
\* job or has not given the slot back, each job that is accepted is started once, with
\* its own argument and before the next is accepted, and sig_out is lowered by Run and
\* raised by the worker and by Kill only (pthread.cc:28-114).
ImplementsJobSlot == Promise!Spec
=============================================================================
