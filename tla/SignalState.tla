----------------------------- MODULE SignalState -----------------------------
(***************************************************************************)
(* What Lock::IEvent promises: a signal that is set or not, and waits that *)
(* succeed only while it is set and, on an auto-reset event, consume it.   *)
(* Event.tla is shown to implement this module.                            *)
(***************************************************************************)
CONSTANTS
    Threads,       \* the callers
    MayFail        \* TRUE if the platform's primitives may report an error

VARIABLES
    signal,        \* whether the event is set
    auto,          \* whether a successful wait resets it
    pending,       \* what each thread is calling, "none" between calls
    reply          \* what the last wait of each thread returned

vars == <<signal, auto, pending, reply>>

Init ==
    /\ signal \in BOOLEAN
    /\ auto \in BOOLEAN
    /\ pending = [t \in Threads |-> "none"]
    /\ reply = [t \in Threads |-> FALSE]

Invoke(t) ==
    /\ pending[t] = "none"
    /\ \E call \in {"infinite", "timed", "try", "clockless", "set", "reset"} :
        pending' = [pending EXCEPT ![t] = call]
    /\ UNCHANGED <<signal, auto, reply>>

Finish(t, answer) ==
    /\ pending' = [pending EXCEPT ![t] = "none"]
    /\ reply' = [reply EXCEPT ![t] = answer]
    /\ UNCHANGED auto

Released(t) ==
    /\ pending[t] \in {"infinite", "timed", "try"}
    /\ signal
    /\ signal' = ~auto
    /\ Finish(t, TRUE)

\* No wait reports failure while the event is set, however late it is: only a
\* wait that has no clock to measure its timeout with does.
GiveUp(t) ==
    /\ \/ pending[t] \in {"timed", "try"} /\ ~signal
       \/ pending[t] = "infinite" /\ ~signal /\ MayFail
       \/ pending[t] = "clockless"
    /\ UNCHANGED signal
    /\ Finish(t, FALSE)

Set(t) == pending[t] = "set" /\ signal' = TRUE /\ Finish(t, reply[t])
Reset(t) == pending[t] = "reset" /\ signal' = FALSE /\ Finish(t, reply[t])

Next ==
    \E t \in Threads : Invoke(t) \/ Released(t) \/ GiveUp(t) \/ Set(t) \/ Reset(t)

Spec == Init /\ [][Next]_vars
=============================================================================
