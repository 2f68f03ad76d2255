----------------------------- MODULE TestRunner -----------------------------
(***************************************************************************)
(* The parallel unit test (test/unittest.cpp): AddTestCase, RunTest,       *)
(* MultiThreadTest, its worker threads and SingleThreadTest.  Static       *)
(* initialisers register the cases.  The workers take cases from a shared  *)
(* list; the main thread waits on a semaphore for each of them, runs the   *)
(* standalone cases itself and collects the failed ones.                   *)
(*                                                                         *)
(* A list linked through PTU_TEST_CASE::Next is a sequence: a case that    *)
(* has been unlinked belongs to the thread that unlinked it.  What is done *)
(* under stest_lock or scont_lock is one step.  The semaphore is a counter *)
(* (module Semaphore), console output and times are left out.              *)
(***************************************************************************)
EXTENDS Naturals, Sequences, FiniteSets, SequencesExt

CONSTANTS
    NCases,          \* the cases of the program are 1..NCases
    Lines,           \* twice the number of cores, at least 2
    CreateMayFail    \* Thread::Run may return 0

ASSUME SizeAssumption == NCases \in Nat /\ Lines \in Nat \ {0, 1}
ASSUME PlatformAssumption == CreateMayFail \in BOOLEAN

Cases == 1..NCases
Workers == 1..Lines

\* What a test function leaves in its PTU_TEST_CASE: a failed EXPECT counts; a
\* failed ASSERT sets PTU_TRF_BREAK as well; after T_IGNORE only the latter counts.
Outcomes == {"ok", "fail", "break", "ignoredBreak"}

VARIABLES
    flags,        \* the flags each case is registered with
    registered,   \* how many AddTestCase calls have been made
    meOnly,       \* its static test_meonly_enabled
    nc,           \* _nc_
    pc,           \* where the main thread is
    ncore_lines, i, \* MultiThreadTest's variables of these names
    created,      \* how many threads it has created
    posts,        \* the count of semlock
    waiting,      \* utd.ptest_case, and the list SingleThreadTest goes through
    left,         \* utd.ptest_left
    failed,       \* utd.ptest_fail
    breakout,     \* PTUMTTDATA_FLAG_BREAKOUT
    failCount,    \* *pfailcount
    list,         \* the list _tr_.HeadCase
    wpc, wcase,   \* where each worker is, and its case, 0 for none
    starts,       \* how often each case has been started
    outcome       \* what the finished cases left, "none" for the others

utd == <<waiting, left, failed, breakout, failCount>>
main == <<pc, ncore_lines, i, created, list>>
work == <<wpc, wcase>>
results == <<starts, outcome>>
registry == <<flags, registered, meOnly, nc>>
vars == <<registry, main, posts, utd, work, results>>

MultiPcs == {"create", "wait", "collect", "merge"}

TypeOK ==
    /\ flags \in [Cases -> SUBSET {"STANDALONE", "TESTMEONLY"}]
    /\ registered \in 0..NCases /\ meOnly \in BOOLEAN /\ nc \in 0..NCases
    /\ pc \in {"register"} \cup MultiPcs \cup {"single", "singleRun", "singleReport", "done"}
    /\ ncore_lines \in 0..Lines /\ i \in 0..Lines /\ created \in 0..Lines
    /\ posts \in 0..Lines
    /\ waiting \in Seq(Cases) /\ left \in Seq(Cases)
    /\ failed \in Seq(Cases) /\ list \in Seq(Cases)
    /\ breakout \in BOOLEAN
    /\ failCount \in 0..NCases
    /\ wpc \in [Workers -> {"none", "get", "check", "sort", "run", "report", "post", "end"}]
    /\ wcase \in [Workers -> Cases \cup {0}]
    /\ starts \in [Cases -> 0..2]
    /\ outcome \in [Cases -> Outcomes \cup {"none"}]
    /\ posts + i <= Lines \/ pc = "create"

Init ==
    /\ flags \in [Cases -> SUBSET {"STANDALONE", "TESTMEONLY"}]
    /\ registered = 0 /\ meOnly = FALSE /\ nc = 0
    /\ pc = "register"
    /\ ncore_lines = Lines /\ i = 0 /\ created = 0 /\ posts = 0
    /\ waiting = <<>> /\ left = <<>> /\ failed = <<>>
    /\ breakout = FALSE /\ failCount = 0 /\ list = <<>>
    /\ wpc = [w \in Workers |-> "none"] /\ wcase = [w \in Workers |-> 0]
    /\ starts = [c \in Cases |-> 0] /\ outcome = [c \in Cases |-> "none"]

-----------------------------------------------------------------------------
(* Registration, and the start of RunTest.                                 *)

\* Mutation: the cases registered before the first TESTMEONLY case stay.
Dropped_Never(c) == FALSE
\* !test_meonly_enabled && (flags & TESTMEONLY)
Dropped(c) == ~meOnly /\ "TESTMEONLY" \in flags[c]

\* The calls come in the order of the cases.
AddTestCase ==
    LET c == registered + 1 IN
    /\ pc = "register" /\ registered < NCases
    /\ registered' = c
    /\ meOnly' = (meOnly \/ "TESTMEONLY" \in flags[c])
    /\ IF meOnly /\ "TESTMEONLY" \notin flags[c]
         THEN UNCHANGED <<list, nc>>
         ELSE IF Dropped(c) THEN list' = <<c>> /\ nc' = 1
                            ELSE list' = Append(list, c) /\ nc' = nc + 1
    /\ UNCHANGED <<flags, pc, ncore_lines, i, created, posts, utd, work, results>>

\* Fewer than two cases, or the option Threads=Single: no threads.
RunTest ==
    /\ pc = "register" /\ registered = NCases
    /\ pc' \in {"single"} \cup (IF nc < 2 THEN {} ELSE {"create"})
    /\ waiting' = list
    /\ UNCHANGED <<registry, ncore_lines, i, created, list, posts, left, failed, breakout,
                   failCount, work, results>>

\* PTU_TRF_FAILURE and PTU_TRF_BREAK in TestResult.
Failure(c) == outcome[c] \in {"fail", "break"}
Break(c) == outcome[c] \in {"break", "ignoredBreak"}

\* TestFunc begins and ends.
Starts(c) == starts' = [starts EXCEPT ![c] = @ + 1] /\ UNCHANGED outcome
Ends(c) ==
    /\ \E o \in Outcomes : outcome' = [outcome EXCEPT ![c] = o]
    /\ UNCHANGED starts

-----------------------------------------------------------------------------
(* The workers: PtRunTestThreadProc.                                       *)

Go(w, from, to) == wpc[w] = from /\ wpc' = [wpc EXCEPT ![w] = to]

\* Mutation: the list is not advanced.
Rest_Same(s) == s
\* if (ptestcase) ptd->ptest_case = ptestcase->Next
Rest(s) == IF s = <<>> THEN s ELSE Tail(s)

Get(w) ==
    /\ Go(w, "get", "check")
    /\ wcase' = [wcase EXCEPT ![w] = IF waiting = <<>> THEN 0 ELSE Head(waiting)]
    /\ waiting' = Rest(waiting)
    /\ UNCHANGED <<registry, main, posts, left, failed, breakout, failCount, results>>

Stops(w) ==
    /\ Go(w, "check", "post")
    /\ wcase[w] = 0 \/ breakout
    /\ UNCHANGED <<registry, main, posts, utd, wcase, results>>

\* Mutation: STANDALONE is not looked at.
SetAside_Never(c) == FALSE
\* ptestcase->TestResult & PTU_TRF_STANDALONE
SetAside(c) == "STANDALONE" \in flags[c]

Check(w) ==
    /\ wcase[w] # 0 /\ ~breakout
    /\ \/ Go(w, "check", "sort") /\ SetAside(wcase[w]) /\ UNCHANGED starts
       \/ /\ Go(w, "check", "run") /\ ~SetAside(wcase[w])
          /\ starts' = [starts EXCEPT ![wcase[w]] = @ + 1]
    /\ UNCHANGED <<registry, main, posts, utd, wcase, outcome>>

\* Mutation: the head of the list is overwritten.
Link_Lost(c, s) == <<c>>
\* ptestcase->Next = head; head = ptestcase
Link(c, s) == <<c>> \o s

Sort(w) ==
    /\ Go(w, "sort", "get")
    /\ left' = Link(wcase[w], left)
    /\ UNCHANGED <<registry, main, posts, waiting, failed, breakout, failCount, wcase,
                   results>>

Finish(w) ==
    /\ Go(w, "run", "report")
    /\ Ends(wcase[w])
    /\ UNCHANGED <<registry, main, posts, utd, wcase>>

\* Mutation: every case with PTU_TRF_BREAK counts, ignored or not.
Count_Break(c) == failCount + (IF Failure(c) \/ Break(c) THEN 1 ELSE 0)
\* if (TestResult & PTU_TRF_FAILURE) (*pfailcount)++
Count(c) == failCount + (IF Failure(c) THEN 1 ELSE 0)

Report(w) ==
    LET c == wcase[w] IN
    /\ Go(w, "report", "get")
    /\ failed' = IF Failure(c) THEN Link(c, failed) ELSE failed
    /\ failCount' = Count(c)
    /\ breakout' = (breakout \/ (Break(c) /\ failCount' # 0))
    /\ UNCHANGED <<registry, main, posts, waiting, left, wcase, results>>

\* Mutation: a worker that leaves because of a break does not post.
Posted_NotOnBreak == IF breakout THEN posts ELSE posts + 1
\* ptd->stest_sem->Post()
Posted == posts + 1

Post(w) ==
    /\ Go(w, "post", "end")
    /\ posts' = Posted
    /\ UNCHANGED <<registry, main, utd, wcase, results>>

WorkerStep(w) ==
    Get(w) \/ Stops(w) \/ Check(w) \/ Sort(w) \/ Finish(w) \/ Report(w) \/ Post(w)

-----------------------------------------------------------------------------
(* The main thread: MultiThreadTest.                                       *)

Step(from, to) == pc = from /\ pc' = to

Create ==
    /\ Step("create", "create")
    /\ i < ncore_lines
    /\ i' = i + 1 /\ created' = created + 1
    /\ wpc' = [wpc EXCEPT ![created + 1] = "get"]
    /\ UNCHANGED <<registry, ncore_lines, list, posts, utd, wcase, results>>

\* Both the bound and the index move.
CreateFails ==
    /\ CreateMayFail
    /\ Step("create", "create")
    /\ i < ncore_lines
    /\ i' = i + 1 /\ ncore_lines' = ncore_lines - 1
    /\ UNCHANGED <<registry, created, list, posts, utd, work, results>>

\* The loop ends with ncore_lines > 0: the test for 0 that follows never holds.
Created ==
    /\ Step("create", "wait")
    /\ i >= ncore_lines
    /\ i' = 0
    /\ UNCHANGED <<registry, ncore_lines, created, list, posts, utd, work, results>>

WaitOne ==
    /\ Step("wait", "wait")
    /\ i < ncore_lines /\ posts > 0
    /\ posts' = posts - 1 /\ i' = i + 1
    /\ UNCHANGED <<registry, ncore_lines, created, list, utd, work, results>>

\* Mutation: the main thread waits for one worker less.
AllWaited_OneLess == i >= ncore_lines - 1
\* while (i < ncore_lines)
AllWaited == i >= ncore_lines

\* The standalone cases that are left, back in their order, or none of them.
Collect ==
    /\ AllWaited
    /\ IF breakout
         THEN Step("wait", "merge") /\ waiting' = <<>> /\ UNCHANGED left
         ELSE Step("wait", "single") /\ waiting' = Reverse(left) /\ left' = <<>>
    /\ list' = waiting'
    /\ UNCHANGED <<registry, ncore_lines, i, created, posts, failed, breakout, failCount,
                   work, results>>

\* Pushes the failed cases before the list, one by one.
Merge ==
    /\ Step("merge", "done")
    /\ list' = Reverse(failed) \o list
    /\ failed' = <<>>
    /\ UNCHANGED <<registry, ncore_lines, i, created, posts, waiting, left, breakout,
                   failCount, work, results>>

-----------------------------------------------------------------------------
(* SingleThreadTest goes through `waiting` and leaves the list itself.      *)

SingleStart ==
    /\ Step("single", "singleRun")
    /\ waiting # <<>>
    /\ Starts(Head(waiting))
    /\ UNCHANGED <<registry, ncore_lines, i, created, list, posts, utd, work>>

SingleFinish ==
    /\ Step("singleRun", "singleReport")
    /\ Ends(Head(waiting))
    /\ UNCHANGED <<registry, ncore_lines, i, created, list, posts, utd, work>>

\* A break with a failure, of whichever case, ends the loop.
SingleReport ==
    LET c == Head(waiting) IN
    /\ Step("singleReport", "single")
    /\ failCount' = Count(c)
    /\ waiting' = IF Break(c) /\ failCount' # 0 THEN <<>> ELSE Tail(waiting)
    /\ UNCHANGED <<registry, ncore_lines, i, created, list, posts, left, failed, breakout,
                   work, results>>

\* MultiThreadTest adds the failed cases; without threads there are none to add.
SingleEnds ==
    /\ Step("single", "merge")
    /\ waiting = <<>>
    /\ UNCHANGED <<registry, ncore_lines, i, created, list, posts, utd, work, results>>

MainStep ==
    \/ AddTestCase \/ RunTest
    \/ Create \/ CreateFails \/ Created \/ WaitOne \/ Collect \/ Merge
    \/ SingleStart \/ SingleFinish \/ SingleReport \/ SingleEnds

Next == MainStep \/ \E w \in Workers : WorkerStep(w)

Spec == Init /\ [][Next]_vars

\* Every thread is scheduled and test functions return.
FairSpec == Spec /\ WF_vars(MainStep) /\ \A w \in Workers : WF_vars(WorkerStep(w))

-----------------------------------------------------------------------------
\* No case is executed twice, whichever of the lists it goes through.
RunsOnce == \A c \in Cases : starts[c] <= 1

Running ==
    {wcase[w] : w \in {v \in Workers : wpc[v] = "run"}}
    \cup (IF pc = "singleRun" THEN {Head(waiting)} ELSE {})

\* unittest.cpp:315-321, 400-408: a STANDALONE case never runs beside another one.
StandaloneAlone ==
    (\E c \in Running : "STANDALONE" \in flags[c]) => Cardinality(Running) = 1

\* The cases to run: those with TESTMEONLY if there are any, otherwise all.
Selected ==
    LET only == {c \in Cases : "TESTMEONLY" \in flags[c]}
    IN  IF only = {} THEN Cases ELSE only

\* AddTestCase: TESTMEONLY keeps every other case from being executed, those
\* registered before the first case that has it included.
OnlySelected == \A c \in Cases : starts[c] > 0 => c \in Selected

\* No selected case is lost on its way through the lists: at the end each has been
\* executed, unless an ASSERT has failed and some case has failed.
NothingSkipped ==
    pc = "done" =>
        \/ \A c \in Selected : outcome[c] # "none"
        \/ failCount > 0 /\ \E c \in Cases : Break(c)

\* The summary lists every failed case exactly once, and RunTest's result is
\* their number, although each worker updates both.
SummaryComplete ==
    pc = "done" =>
        LET fails == {c \in Cases : Failure(c)} IN
        /\ failCount = Cardinality(fails)
        /\ fails \subseteq ToSet(list)
        /\ IsInjective(list)

\* utd and the locks live in MultiThreadTest's frame: no worker uses them once
\* the main thread has gone on.
UtdOutlivesWorkers ==
    pc \notin {"create", "wait"} => \A w \in Workers : wpc[w] \in {"none", "end"}

\* RunTest ends, unless Thread::Run has failed: the loop that creates the threads
\* then leaves ncore_lines larger than their number, and the main thread waits for
\* posts that never come.
RunTerminates == <>(pc = "done" \/ (pc = "wait" /\ created < ncore_lines))

\* What TestSuite sees: when RunTest returns, the failures of its list are printed.
Phase == CASE pc = "register" -> "open" [] pc = "done" -> "closed" [] OTHER -> "running"
Total == IF pc = "done" THEN failCount ELSE 0
Summary == IF pc = "done" THEN {c \in ToSet(list) : Failure(c)} ELSE {}

Promise ==
    INSTANCE TestSuite
    WITH phase <- Phase, stopped <- breakout, total <- Total, summary <- Summary

\* Through lists, workers, the break flag and the main thread's own loop each case
\* that AddTestCase leaves is started at most once, a STANDALONE one beside no other,
\* none after the workers have been told to stop; RunTest returns when nothing is
\* executed any more, and with the failures of all that were (unittest.cpp:98-467).
ImplementsTestSuite == Promise!Spec
=============================================================================
