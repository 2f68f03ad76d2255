------------------------------- MODULE JobSlot -------------------------------
(***************************************************************************)
(* What System::PoolThread promises, without its flag word, its argument   *)
(* field and its event for the worker: a slot for one job, which the owner *)
(* fills and the worker empties, and a signal that says that the worker    *)
(* has nothing to do.  A Kill that hits a job, or returns before its       *)
(* worker has ended, spoils the object: nothing is promised from then on.  *)
(* PoolThread.tla is shown to implement this.                              *)
(***************************************************************************)
EXTENDS Naturals

CONSTANTS
    MaxJobs,     \* bound: how many times the owner calls Run
    MayFail,     \* the thread may fail to be created
    Disciplines  \* TRUE for an owner that calls Run only after a Wait that
                 \* returned TRUE

VARIABLES
    phase,       \* of the slot
    what,        \* the job in it, 0 if none
    worker,      \* whether there is a worker
    signal,      \* what Wait waits for
    late,        \* the worker is about to raise the signal
    place,       \* where the owner is
    job,         \* the last it has called Run for
    reply,       \* what its last call returned
    spoilt,      \* a Kill has hit a job or returned early
    disciplined

slot == <<phase, what>>
vars == <<slot, worker, signal, late, place, job, reply, spoilt, disciplined>>

Init ==
    /\ phase = "free" /\ what = 0
    /\ worker = FALSE /\ signal = TRUE /\ late = FALSE
    /\ place = "idle" /\ job = 0 /\ reply = "none"
    /\ spoilt = FALSE /\ disciplined \in Disciplines

-----------------------------------------------------------------------------
(* The owner.                                                              *)

Step(from, to) == place = from /\ place' = to

CallRun ==
    /\ Step("idle", "run")
    /\ disciplined => reply = "True"
    /\ job < MaxJobs /\ job' = job + 1
    /\ UNCHANGED <<slot, worker, signal, late, reply, spoilt, disciplined>>

\* Only a worker that has not given the slot back is a reason to refuse.
Refuse ==
    /\ Step("run", "idle")
    /\ phase # "free"
    /\ reply' = "refused"
    /\ UNCHANGED <<slot, worker, signal, late, job, spoilt, disciplined>>

Fail ==
    /\ MayFail /\ ~worker
    /\ Step("run", "idle")
    /\ reply' = "notCreated"
    /\ UNCHANGED <<slot, worker, signal, late, job, spoilt, disciplined>>

\* The slot is free; a worker is created, or there is one or has failed to be.
Begin ==
    /\ Step("run", "begun")
    /\ phase = "free"
    /\ worker' = TRUE \/ (worker' = worker /\ MayFail)
    /\ UNCHANGED <<slot, signal, late, job, reply, spoilt, disciplined>>

Lower ==
    /\ Step("begun", "lowered")
    /\ signal' = FALSE
    /\ UNCHANGED <<slot, worker, late, job, reply, spoilt, disciplined>>

Hand ==
    /\ Step("lowered", "idle")
    /\ phase = "free" /\ phase' = "pending" /\ what' = job
    /\ reply' = IF worker THEN "accepted" ELSE "notCreated"
    /\ UNCHANGED <<worker, signal, late, job, spoilt, disciplined>>

CallWait ==
    /\ Step("idle", "wait")
    /\ UNCHANGED <<slot, worker, signal, late, job, reply, spoilt, disciplined>>

WaitEnds ==
    /\ \/ Step("wait", "idle") /\ signal /\ reply' = "True"
       \/ Step("idle", "idle") /\ ~signal /\ reply' = "False"
    /\ UNCHANGED <<slot, worker, signal, late, job, spoilt, disciplined>>

\* What is left of a thread that has failed to be created may be killed too.
CallKill ==
    /\ Step("idle", "killing")
    /\ worker \/ MayFail
    /\ UNCHANGED <<slot, worker, signal, late, job, reply, spoilt, disciplined>>

\* The worker ends wherever it is, and with it what it had still to say.
Die ==
    /\ Step("killing", "killed")
    /\ phase \in {"free", "cleared"}
    /\ phase' = "free" /\ what' = 0 /\ worker' = FALSE /\ late' = FALSE
    /\ UNCHANGED <<signal, job, reply, spoilt, disciplined>>

\* Nothing is promised of a job that is killed, nor of those after it, nor after a
\* Kill that leaves a worker.
Spoil ==
    /\ place = "killing" /\ spoilt'
    /\ phase \notin {"free", "cleared"} \/ worker'

Killed ==
    /\ Step("killed", "idle")
    /\ signal' = TRUE /\ reply' = "killed"
    /\ UNCHANGED <<slot, worker, late, job, spoilt, disciplined>>

CallDestroy ==
    /\ Step("idle", "destroying")
    /\ UNCHANGED <<slot, worker, signal, late, job, reply, spoilt, disciplined>>

\* A job that has not been taken may be dropped.
Destroy ==
    /\ Step("destroying", "destroyed")
    /\ \/ phase = "pending" /\ phase' = "free" /\ what' = 0
       \/ UNCHANGED slot
    /\ UNCHANGED <<worker, signal, late, job, reply, spoilt, disciplined>>

-----------------------------------------------------------------------------
(* The worker.                                                             *)

Start ==
    /\ worker
    /\ phase = "pending" /\ phase' = "running"
    /\ UNCHANGED <<what, worker, signal, late, place, job, reply, spoilt, disciplined>>

End ==
    /\ worker
    /\ phase = "running" /\ phase' = "ended" /\ what' = 0
    /\ UNCHANGED <<worker, signal, late, place, job, reply, spoilt, disciplined>>

Clear ==
    /\ worker
    /\ phase = "ended" /\ phase' = "cleared"
    /\ UNCHANGED <<what, worker, signal, late, place, job, reply, spoilt, disciplined>>

\* The slot is free before the signal is raised: a Run in between lowers it in vain.
Release ==
    /\ worker
    /\ phase = "cleared" /\ phase' = "free" /\ late' = TRUE
    /\ UNCHANGED <<what, worker, signal, place, job, reply, spoilt, disciplined>>

Raise ==
    /\ worker
    /\ late /\ late' = FALSE /\ signal' = TRUE
    /\ UNCHANGED <<slot, worker, place, job, reply, spoilt, disciplined>>

\* Only the destructor ends it in this way.
Quit ==
    /\ place \in {"destroying", "destroyed"}
    /\ worker /\ phase \in {"free", "pending"} /\ ~late
    /\ worker' = FALSE
    /\ UNCHANGED <<slot, signal, late, place, job, reply, spoilt, disciplined>>

Next ==
    \/ CallRun \/ Refuse \/ Fail \/ Begin \/ Lower \/ Hand
    \/ CallWait \/ WaitEnds
    \/ CallKill \/ Die \/ Spoil \/ Killed
    \/ CallDestroy \/ Destroy
    \/ Start \/ End \/ Clear \/ Release \/ Raise \/ Quit
    \/ spoilt /\ spoilt'

Spec == Init /\ [][Next]_vars
=============================================================================
