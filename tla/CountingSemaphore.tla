-------------------------- MODULE CountingSemaphore --------------------------
(***************************************************************************)
(* What Lock::Semaphore promises its callers, without mutexes, condition   *)
(* variables, sleeping threads or clocks: calls are pending between their  *)
(* invocation and their return, and each takes effect at one instant.      *)
(* Semaphore.tla is shown to implement this module.                        *)
(***************************************************************************)
EXTENDS Integers

CONSTANTS
    Threads,       \* the callers
    PostAmounts,   \* the values Post is called with
    InitialCounts, \* first argument of the constructor
    InitialMaxima, \* second argument of the constructor
    WaitMayFail,   \* TRUE if the platform's waiting may report an error
    SignalMayFail  \* TRUE if its waking may

VARIABLES
    count,         \* tokens available
    limit,         \* the most tokens Post may make available
    pending,       \* what each thread is calling, "none" between calls
    amount,        \* the argument of a pending Post
    reply          \* what the last call of each thread returned

vars == <<count, limit, pending, amount, reply>>

Init ==
    /\ count \in InitialCounts
    /\ limit \in InitialMaxima
    /\ count <= limit
    /\ pending = [t \in Threads |-> "none"]
    /\ amount = [t \in Threads |-> 0]
    /\ reply = [t \in Threads |-> FALSE]

Invoke(t, call, n) ==
    /\ pending[t] = "none"
    /\ pending' = [pending EXCEPT ![t] = call]
    /\ amount' = [amount EXCEPT ![t] = n]
    /\ UNCHANGED <<count, limit, reply>>

Finish(t, answer) ==
    /\ pending' = [pending EXCEPT ![t] = "none"]
    /\ amount' = [amount EXCEPT ![t] = 0]
    /\ reply' = [reply EXCEPT ![t] = answer]
    /\ UNCHANGED limit

\* A wait succeeds exactly by consuming one available token.
Acquire(t) ==
    /\ pending[t] \in {"infinite", "timed", "try"}
    /\ count > 0
    /\ count' = count - 1
    /\ Finish(t, TRUE)

\* A try gives up only when no token is available, a timed wait when its time
\* is up, and a wait without limit only when the platform fails.
GiveUp(t) ==
    /\ \/ pending[t] = "try" /\ count = 0
       \/ pending[t] = "timed"
       \/ pending[t] = "infinite" /\ WaitMayFail
    /\ UNCHANGED count
    /\ Finish(t, FALSE)

Release(t) ==
    /\ pending[t] = "post"
    /\ amount[t] > 0
    /\ count + amount[t] <= limit
    /\ count' = count + amount[t]
    /\ Finish(t, TRUE)

Refuse(t) ==
    /\ pending[t] = "post"
    /\ amount[t] <= 0 \/ count + amount[t] > limit \/ SignalMayFail
    /\ UNCHANGED count
    /\ Finish(t, FALSE)

Next ==
    \E t \in Threads :
        \/ \E call \in {"infinite", "timed", "try"} : Invoke(t, call, 0)
        \/ \E n \in PostAmounts : Invoke(t, "post", n)
        \/ Acquire(t)
        \/ GiveUp(t)
        \/ Release(t)
        \/ Refuse(t)

Spec == Init /\ [][Next]_vars
=============================================================================
