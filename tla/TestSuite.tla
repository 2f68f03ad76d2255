------------------------------ MODULE TestSuite ------------------------------
(***************************************************************************)
(* What RunTest promises, without threads, lists, locks and posts: every   *)
(* case that the flags select is executed once, a STANDALONE one beside no *)
(* other, until a test breaks the run; and the number of failed cases and  *)
(* their list come at the end.  TestRunner.tla is shown to implement this. *)
(***************************************************************************)
EXTENDS Naturals, FiniteSets

CONSTANT NCases

Cases == 1..NCases
Outcomes == {"ok", "fail", "break", "ignoredBreak"}

VARIABLES
    flags,       \* of each case
    phase,       \* "open" until RunTest, "closed" after it
    starts,      \* how often each case has been started
    outcome,     \* of the cases that have ended
    stopped,     \* the workers have been told to stop
    total,       \* the failures RunTest has counted and, negated, returns
    summary      \* the failed cases it lists

results == <<total, summary>>
vars == <<flags, phase, starts, outcome, stopped, results>>

Selected ==
    LET only == {c \in Cases : "TESTMEONLY" \in flags[c]}
    IN  IF only = {} THEN Cases ELSE only

Executing == {c \in Cases : starts[c] > 0 /\ outcome[c] = "none"}
Failures == {c \in Cases : outcome[c] \in {"fail", "break"}}
Standalone(c) == "STANDALONE" \in flags[c]

\* A failed ASSERT ends the run, once a failure has been counted; one after
\* T_IGNORE does so together with another failure.
Broken == Failures # {} /\ \E c \in Cases : outcome[c] \in {"break", "ignoredBreak"}

Init ==
    /\ flags \in [Cases -> SUBSET {"STANDALONE", "TESTMEONLY"}]
    /\ phase = "open"
    /\ starts = [c \in Cases |-> 0] /\ outcome = [c \in Cases |-> "none"]
    /\ stopped = FALSE
    /\ total = 0 /\ summary = {}

Open ==
    /\ phase = "open" /\ phase' = "running"
    /\ UNCHANGED <<flags, starts, outcome, stopped, results>>

\* A case counts as started from when its thread has found the run not stopped.
Start(c) ==
    /\ phase = "running" /\ ~stopped
    /\ c \in Selected /\ starts[c] = 0
    /\ \A d \in Executing : ~Standalone(c) /\ ~Standalone(d)
    /\ starts' = [starts EXCEPT ![c] = 1]
    /\ UNCHANGED <<flags, phase, outcome, stopped, results>>

End(c) ==
    /\ phase = "running"
    /\ c \in Executing
    /\ \E o \in Outcomes : outcome' = [outcome EXCEPT ![c] = o]
    /\ UNCHANGED <<flags, phase, starts, stopped, results>>

Stop ==
    /\ phase = "running" /\ Broken
    /\ stopped' = TRUE
    /\ UNCHANGED <<flags, phase, starts, outcome, results>>

Close ==
    /\ phase = "running" /\ phase' = "closed"
    /\ Executing = {}
    /\ Broken \/ \A c \in Selected : outcome[c] # "none"
    /\ total' = Cardinality(Failures) /\ summary' = Failures
    /\ UNCHANGED <<flags, starts, outcome, stopped>>

Next == Open \/ Stop \/ Close \/ \E c \in Cases : Start(c) \/ End(c)

Spec == Init /\ [][Next]_vars
=============================================================================
