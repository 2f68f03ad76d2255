------------------------------- MODULE Thread -------------------------------
(***************************************************************************)
(* System::Thread on POSIX (system/thread_posix.cpp): one Thread object,   *)
(* its THREAD_DATA, the callers that share it and the threads it creates,  *)
(* one per successful Run, numbered 1, 2, ...                              *)
(*                                                                         *)
(* A critical section of THREAD_DATA.mutex is one step, except that of the *)
(* thread-local-storage destructor: Run tests TDFLAG_HAS_EXIT without the  *)
(* mutex and can see it set before the destructor broadcasts.              *)
(***************************************************************************)
EXTENDS Naturals, FiniteSets

CONSTANTS
    Callers,              \* the threads that call Wait and Kill
    Owner,                \* the one of them that calls Run and the destructor
    MaxRuns,              \* bound: how many ids the object draws
    TidModulus,           \* 2^32, the range of tid_max
    SpuriousWakeups,      \* pthread_cond_wait may return without a broadcast
    FailureLeavesHandle,  \* a failed pthread_create may store a pthread_t that
                          \* names no thread: POSIX leaves it undefined
    CancelHitsDestructor  \* whether pthread_cancel can abort the destructor
                          \* of a thread whose function has returned

ASSUME OwnerAssumption == Owner \in Callers
ASSUME BoundsAssumption == MaxRuns \in Nat /\ TidModulus \in Nat \ {0}
ASSUME PlatformAssumption ==
    /\ SpuriousWakeups \in BOOLEAN
    /\ FailureLeavesHandle \in BOOLEAN
    /\ CancelHitsDestructor \in BOOLEAN

Workers == 1..MaxRuns
Dangling == MaxRuns + 1   \* a pthread_t that names no thread

VARIABLES
    tid,         \* THREAD_DATA.tid, 0 for none
    thread,      \* THREAD_DATA.thread: the thread it names, 0 or Dangling
    hasExit,     \* TDFLAG_HAS_EXIT
    detached,    \* TDFLAG_DETACHED: the object is destroyed
    freed,       \* whether THREAD_DATA has been freed
    mutex,       \* the worker inside the destructor's critical section, or 0
    tidMax,      \* the counter the ids are taken from
    newTid,      \* the id Run has drawn for the thread it is creating
    created,     \* how many threads the object has created
    wpc,         \* where each of them is
    cancelled,   \* those pthread_cancel has been called for
    pc,          \* where each caller is
    target,      \* the thread a blocked caller is waiting for
    ret          \* what the last Wait or Kill of each caller returned

object == <<tid, thread, hasExit, detached, freed>>
workers == <<created, wpc, cancelled>>
vars == <<object, mutex, tidMax, newTid, workers, pc, target, ret>>

\* Blocked on the condition variable `exited`.
Sleepers == {c \in Callers : pc[c] \in {"wait", "timedWait", "kill"}}
\* The threads that have been created and have not marked their exit.
Existing == {g \in Workers : wpc[g] \in {"born", "func", "exiting"}}
\* Those that still use THREAD_DATA.
Using == {g \in Workers : wpc[g] \in {"born", "func", "exiting", "signal", "free"}}
\* Ended by a cancellation that hit the destructor.
Aborted == {g \in Workers : wpc[g] = "aborted"}

TypeOK ==
    /\ tid \in 0..TidModulus - 1 /\ newTid \in 0..TidModulus - 1
    /\ tidMax \in 0..TidModulus - 1
    /\ thread \in 0..Dangling
    /\ hasExit \in BOOLEAN /\ detached \in BOOLEAN /\ freed \in BOOLEAN
    /\ mutex \in Workers \cup {0}
    /\ created \in 0..MaxRuns
    /\ wpc \in [Workers -> {"none", "born", "func", "exiting", "signal", "free", "gone",
                          "aborted"}]
    /\ cancelled \subseteq Workers
    /\ pc \in [Callers -> {"idle", "wait", "timedWait", "kill", "woken", "spurious",
                           "killSpurious", "create", "setTid"}]
    /\ target \in [Callers -> 0..Dangling]
    /\ ret \in [Callers -> BOOLEAN]
    /\ \A g \in Workers : wpc[g] = "none" <=> g > created
    /\ mutex # 0 <=> \E g \in Workers : wpc[g] = "signal"
    /\ \A c \in Callers : pc[c] \in {"create", "setTid"} => c = Owner

Init ==
    /\ tid = 0 /\ thread = 0 /\ hasExit = FALSE /\ detached = FALSE /\ freed = FALSE
    /\ mutex = 0 /\ tidMax = 1 /\ newTid = 0 /\ created = 0
    /\ wpc = [g \in Workers |-> "none"]
    /\ cancelled = {}
    /\ pc = [c \in Callers |-> "idle"]
    /\ target = [c \in Callers |-> 0]
    /\ ret = [c \in Callers |-> FALSE]

CallerAt(c, from, to) == pc[c] = from /\ pc' = [pc EXCEPT ![c] = to]
WorkerAt(g, from, to) == wpc[g] = from /\ wpc' = [wpc EXCEPT ![g] = to]

\* A call that returns what and leaves the object alone.
Answer(c, what) ==
    /\ pc' = [pc EXCEPT ![c] = "idle"]
    /\ target' = [target EXCEPT ![c] = 0]
    /\ ret' = [ret EXCEPT ![c] = what]
    /\ UNCHANGED <<object, mutex, tidMax, newTid, created, wpc>>

-----------------------------------------------------------------------------
(* Run.                                                                    *)

\* Mutation: a thread that was created once can be created again.
Rerunnable_Always == TRUE
\* if (tid) { if (!(flag & TDFLAG_HAS_EXIT)) return 0; ... }, unlocked
Rerunnable == tid = 0 \/ hasExit

\* Resets what the last thread left and draws an id.
Run(c) ==
    /\ c = Owner /\ ~detached
    /\ CallerAt(c, "idle", "create")
    /\ Rerunnable
    /\ created < MaxRuns /\ tidMax < 1 + 3 * MaxRuns
    /\ IF tid # 0 THEN thread' = 0 /\ hasExit' = FALSE ELSE UNCHANGED <<thread, hasExit>>
    /\ tid' = 0
    /\ newTid' = tidMax
    /\ tidMax' = (tidMax + 3) % TidModulus
    /\ UNCHANGED <<detached, freed, mutex, workers, target, ret>>

Create(c) ==
    /\ CallerAt(c, "create", "setTid")
    /\ created' = created + 1
    /\ wpc' = [wpc EXCEPT ![created + 1] = "born"]
    /\ thread' = created + 1
    /\ UNCHANGED <<tid, hasExit, detached, freed, mutex, tidMax, newTid, cancelled,
                   target, ret>>

\* pthread_create fails and Run returns 0.
CreateFails(c) ==
    /\ CallerAt(c, "create", "idle")
    /\ \/ UNCHANGED thread
       \/ FailureLeavesHandle /\ thread' = Dangling
    /\ newTid' = 0
    /\ UNCHANGED <<tid, hasExit, detached, freed, mutex, tidMax, workers, target, ret>>

\* The id is published after the thread has been started.
SetTid(c) ==
    /\ CallerAt(c, "setTid", "idle")
    /\ tid' = newTid
    /\ newTid' = 0
    /\ UNCHANGED <<thread, hasExit, detached, freed, mutex, tidMax, workers, target, ret>>

-----------------------------------------------------------------------------
(* Wait and Kill.                                                          *)

\* thread && !(flag & TDFLAG_HAS_EXIT), which is also Status() == Running.
Running == thread # 0 /\ ~hasExit

\* Entering a call: the mutex is free, the object exists.
Enters(c) == pc[c] = "idle" /\ ~detached /\ mutex = 0

Block(c, at) ==
    /\ Enters(c)
    /\ Running
    /\ pc' = [pc EXCEPT ![c] = at]
    /\ target' = [target EXCEPT ![c] = thread]
    /\ UNCHANGED <<object, mutex, tidMax, newTid, created, wpc, ret>>

Wait(c) == (Block(c, "wait") \/ Block(c, "timedWait")) /\ UNCHANGED cancelled

\* Wait returns without blocking: there is nothing to wait for; the wait is
\* Empty and asks pthread_kill; or the clock failed, which counts as success.
WaitAtOnce(c) ==
    /\ Enters(c)
    /\ \/ ~Running /\ Answer(c, TRUE)
       \/ Running /\ Answer(c, thread \notin Existing)
       \/ Running /\ Answer(c, TRUE)
    /\ UNCHANGED cancelled

Kill(c) == Block(c, "kill") /\ cancelled' = cancelled \cup ({thread} \cap Workers)

KillNothing(c) == Enters(c) /\ ~Running /\ Answer(c, FALSE) /\ UNCHANGED cancelled

\* The wait is not repeated, whatever woke it.
Wake(c) ==
    /\ pc[c] \in {"woken", "spurious", "killSpurious"}
    /\ mutex = 0
    /\ Answer(c, TRUE)
    /\ UNCHANGED cancelled

SpuriousWakeup(c) ==
    /\ SpuriousWakeups
    /\ c \in Sleepers
    /\ pc' = [pc EXCEPT ![c] = IF pc[c] = "kill" THEN "killSpurious" ELSE "spurious"]
    /\ UNCHANGED <<object, mutex, tidMax, newTid, workers, target, ret>>

Timeout(c) == pc[c] = "timedWait" /\ mutex = 0 /\ Answer(c, FALSE) /\ UNCHANGED cancelled

\* Mutation: the destructor frees what a thread still uses.
LastUser_Always == TRUE
LastUser == hasExit

\* ~Thread, when no call of another caller is in progress.
Destroy(c) ==
    /\ c = Owner /\ ~detached
    /\ mutex = 0
    /\ \A d \in Callers : pc[d] = "idle"
    /\ detached' = TRUE
    /\ freed' = LastUser
    /\ UNCHANGED <<tid, thread, hasExit, mutex, tidMax, newTid, workers, pc, target, ret>>

-----------------------------------------------------------------------------
(* The created thread: _Prot_WrapThreadProc_Posix_, and the destructor of  *)
(* its thread-local storage, tls_keydest_callback_func.                    *)

Begin(g) ==
    /\ WorkerAt(g, "born", "func")
    /\ UNCHANGED <<object, mutex, tidMax, newTid, created, cancelled, pc, target, ret>>

FuncReturns(g) ==
    /\ WorkerAt(g, "func", "exiting")
    /\ UNCHANGED <<object, mutex, tidMax, newTid, created, cancelled, pc, target, ret>>

\* Asynchronous cancellation, enabled when the function starts.
Cancel(g) == g \in cancelled /\ FuncReturns(g)

MarkExit(g) ==
    /\ WorkerAt(g, "exiting", "signal")
    /\ mutex = 0
    /\ mutex' = g
    /\ hasExit' = TRUE
    /\ UNCHANGED <<tid, thread, detached, freed, tidMax, newTid, created, cancelled, pc,
                   target, ret>>

\* Mutation: pthread_cond_signal.
Roused_SignalOnly == IF Sleepers = {} THEN {{}} ELSE {{c} : c \in Sleepers}
\* pthread_cond_broadcast(&exited)
Roused == {Sleepers}

\* Mutation: the data of a detached thread is left to the object.
ShouldFree_Never == FALSE
ShouldFree == detached

\* Mutation: an exit path that keeps the mutex.
Unlock_Forgotten(g) == mutex' = g
Unlock(g) == mutex' = 0

Broadcast(g) ==
    /\ WorkerAt(g, "signal", IF ShouldFree THEN "free" ELSE "gone")
    /\ Unlock(g)
    /\ \E roused \in Roused :
        pc' = [c \in Callers |-> IF c \in roused THEN "woken" ELSE pc[c]]
    /\ UNCHANGED <<object, tidMax, newTid, created, cancelled, target, ret>>

FreeData(g) ==
    /\ WorkerAt(g, "free", "gone")
    /\ freed' = TRUE
    /\ UNCHANGED <<tid, thread, hasExit, detached, mutex, tidMax, newTid, created,
                   cancelled, pc, target, ret>>

\* The cancellation of a thread whose function has returned by itself ends it
\* before it has marked its exit.
CancelLate(g) ==
    /\ CancelHitsDestructor
    /\ g \in cancelled
    /\ WorkerAt(g, "exiting", "aborted")
    /\ UNCHANGED <<object, mutex, tidMax, newTid, created, cancelled, pc, target, ret>>

WorkerStep(g) == Begin(g) \/ Cancel(g) \/ MarkExit(g) \/ Broadcast(g) \/ FreeData(g)

CallerStep(c) ==
    \/ Run(c) \/ Create(c) \/ CreateFails(c) \/ SetTid(c)
    \/ Wait(c) \/ WaitAtOnce(c) \/ Kill(c) \/ KillNothing(c)
    \/ Wake(c) \/ SpuriousWakeup(c) \/ Timeout(c) \/ Destroy(c)

Next ==
    \/ \E g \in Workers : WorkerStep(g) \/ FuncReturns(g) \/ CancelLate(g)
    \/ \E c \in Callers : CallerStep(c)

Spec == Init /\ [][Next]_vars

\* The created threads are scheduled, and so is a caller that has been woken.
\* The thread function need not return, unless it is cancelled.
FairSpec ==
    /\ Spec
    /\ \A g \in Workers : WF_vars(WorkerStep(g))
    /\ \A c \in Callers : WF_vars(Wake(c))

-----------------------------------------------------------------------------
\* thread.hh:20-21: a thread that is already created is not created again; the
\* function never runs twice at a time, although Run reads the exit flag without
\* the mutex.
OneAtATime == Cardinality({g \in Workers : wpc[g] \in {"born", "func"}}) <= 1

\* THREAD_DATA is freed when the object is gone and the last thread is past its
\* last access, whichever of them comes last; nobody uses it afterwards.
DataOutlivesUsers ==
    freed => detached /\ Using = {} /\ \A c \in Callers : pc[c] = "idle"

\* And the last of them frees it, if there was a thread that made its exit.  What an
\* object leaves behind that was never run, or whose last Run created no thread, or
\* whose thread a cancellation has aborted, is not looked at: nobody frees it.
NothingLeaks ==
    detached /\ Using = {} /\ tid # 0 /\ created \notin Aborted => freed

\* Whoever sleeps in Wait or Kill is going to be woken by the thread it sleeps
\* for, unless the cancellation has hit that thread between the return of its
\* function and its broadcast.  And a broadcast wakes nobody who waits for another
\* thread of the object: the one waited for has marked its exit.
SleepersAreExpected ==
    /\ \A c \in Sleepers :
          \/ target[c] \in Existing \cup Aborted \cup {Dangling}
          \/ wpc[target[c]] = "signal"
    /\ \A c \in Callers : pc[c] = "woken" => target[c] \notin Existing

\* Kill returns, with the same exception: the thread it cancels, or the one that
\* ends by itself at that moment, broadcasts.
KillReturns ==
    \A c \in Callers : (pc[c] = "kill") ~> (pc[c] = "idle" \/ target[c] \in Aborted \cup {Dangling})

\* thread.hh:24-26: Wait returns false if the thread still exists after waiting.
\* Whoever has been blocked in Wait and gets TRUE waited for a thread that has
\* marked its exit.
WaitFalseWhileThreadExists ==
    [][\A c \in Callers :
         target[c] # 0 /\ pc[c] # "killSpurious" /\ pc'[c] = "idle" /\ ret'[c]
            => target[c] \notin Existing]_vars
=============================================================================
