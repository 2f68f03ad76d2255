---------------------------- MODULE ThreadTests -----------------------------
(* threads_unittest.cpp: sleeping, threads and pool threads.  Thread object k  *)
(* of a pool test has the cells of PoolData at index k.                        *)
EXTENDS Library, TLC

(* TickCount and TimeStamp run alike here.                                     *)
ThisThread_TestSleep ==
    TestProgram(<<>>, Clock \o Sleep(500) \o Elapsed(250, 750) \o ExpectReg(TRUE), <<>>)

-----------------------------------------------------------------------------
(* The calls of a class of threads: PoolThread overrides those of Thread.      *)
IsThread == [pool |-> FALSE]
IsPoolThread == [pool |-> TRUE]
TRun(c, k) == IF c.pool THEN PoolRun(k) ELSE Run(k)
TWait(c, k, ms) == IF c.pool THEN PoolWait(k, ms) ELSE Join(k, ms)
TKill(c, k) == IF c.pool THEN PoolKill(k) ELSE Kill(k)
TStatus(c, k) == IF c.pool THEN PoolStatus(k) ELSE Status(k)
TRunOk(c, k) == TRun(c, k) \o Expect(IsNot(Reg, 0))
Says(c, k, status) == TStatus(c, k) \o ExpectReg(status)

(* PoolData is on the heap.                                                    *)
PoolTest(home, cells, body, jobs) ==
    ProgramIn([sig_in |-> 0, sig_out |-> 0, func |-> 0, flag |-> 0] @@ home,
              cells @@ PoolData(1 + Len(jobs)), body,
              [k \in DOMAIN jobs |-> PoolWorker(1 + k, jobs[k])])

(* The thread objects of a test are destroyed where it returns.                *)
ThreadTest(c, home, cells, body, jobs) ==
    IF c.pool
    THEN PoolTest(home, cells, body \o Concat(Len(jobs), LAMBDA k : PoolDestroy(1 + k)), jobs)
    ELSE ProgramIn(home, cells, body, jobs)
Locals == [tid_max |-> 0]
StaticNum == [tid_max |-> 0, num |-> 0]

(* TestEnable.                                                                 *)
MyTestThreadEnableFunc == Sleep(400) \o GetID(2) \o Save(S("sTid"))

TestEnable(c, afterwards) ==
    ThreadTest(c, Locals, [sTid |-> <<0>>, nTid |-> <<0>>],
        Clock \o TRunOk(c, 2) \o Save(S("nTid")) \o Says(c, 2, "Running")
        \o TWait(c, 2, 1000) \o ExpectReg(TRUE) \o Elapsed(200, 600) \o ExpectReg(TRUE)
        \o Says(c, 2, afterwards) \o Expect(SameAs(S("sTid"), S("nTid"))),
        <<MyTestThreadEnableFunc>>)

Thread_TestEnable == TestEnable(IsThread, "Offline")
PoolThread_TestEnable == TestEnable(IsPoolThread, "Holding")

(* TestKillAndStatus.                                                          *)
MyTestThreadKillFunc ==
    Sleep(400) \o Store(S("num"), 1) \o Sleep(400) \o Store(S("num"), 2)

TestKillAndStatus(c) ==
    LET NotYet(ms, num) ==
            TWait(c, 2, ms) \o ExpectReg(FALSE) \o Says(c, 2, "Running")
            \o Expect(Is(S("num"), num))
    IN  ThreadTest(c, Locals, [num |-> <<0>>],
            Says(c, 2, "Offline") \o TRunOk(c, 2) \o Says(c, 2, "Running")
            \o NotYet(200, 0) \o NotYet(400, 1)
            \o TKill(c, 2) \o ExpectReg(TRUE) \o Says(c, 2, "Offline")
            \o TWait(c, 2, 400) \o ExpectReg(TRUE) \o Expect(Is(S("num"), 1)),
            <<MyTestThreadKillFunc>>)

Thread_TestKillAndStatus == TestKillAndStatus(IsThread)
PoolThread_TestKillAndStatus == TestKillAndStatus(IsPoolThread)

(* TestRunTwice: a Run of a running thread is refused, one that has come to    *)
(* its end is run again, under a new id or, from the pool, the same.           *)
TestRunTwice(c, again) ==
    ThreadTest(c, StaticNum, [num |-> <<0>>, tid1 |-> <<0>>, tid2 |-> <<0>>, tid |-> <<0>>],
        TRun(c, 2) \o Save(S("tid1")) \o TRun(c, 3) \o Save(S("tid2"))
        \o Expect(IsNot(S("tid1"), 0)) \o Expect(IsNot(S("tid2"), 0))
        \o Expect(Differs(S("tid1"), S("tid2")))
        \o Sleep(600) \o TRun(c, 2) \o ExpectReg(0)
        \o Sleep(400) \o TRun(c, 2) \o Save(S("tid")) \o again,
        <<MyTestThreadKillFunc, MyTestThreadKillFunc>>)

Thread_TestRunTwice ==
    TestRunTwice(IsThread, Expect(IsNot(S("tid"), 0)) \o Expect(Differs(S("tid1"), S("tid")))
                           \o Expect(Differs(S("tid2"), S("tid"))))
PoolThread_TestRunTwice == TestRunTwice(IsPoolThread, Expect(SameAs(S("tid1"), S("tid"))))

-----------------------------------------------------------------------------
(* TestMaxCreation: each thread starts the next, so the k-th finds k-1 in      *)
(* n_runtime_max_threads.                                                      *)
NcNums == 2         \* nc_nums, 10000 in the source
MaxThreads == S("n_runtime_max_threads")
Arr(k) == <<"nt_arrs", k>>

MyTestMaxCreationFunc(k) ==
    Guarded(S("lock"), Load(MaxThreads) \o If(Below(Reg, NcNums), Add(MaxThreads, 1)))
    \o If(Below(Reg, NcNums),
          (IF k < NcNums THEN Run(2 + k) ELSE <<>>)
          \o Poll(IsNot(Arr(k), 0), 100) \o Store(Arr(k), 2))

Thread_TestMaxCreation ==
    TestProgram([lock |-> <<SinglenterLock>>, n_runtime_max_threads |-> <<0>>, tmp |-> <<0>>,
                 n_count |-> <<0>>, nt_arrs |-> [k \in 1 .. NcNums |-> 0]],
        TRunOk(IsThread, 2)
        \o DoWhile(Load(MaxThreads) \o Save(S("tmp")) \o Sleep(500),
                   Differs(S("tmp"), MaxThreads))
        \o Expect(AtLeast(MaxThreads, NcNums \div 2 + 1))
        \o Concat(NcNums, LAMBDA k : If(AtLeast(MaxThreads, k), Store(Arr(k), 1)))
        \o While(Below(S("n_count"), 10),
                 Sleep(500) \o Count("nt_arrs", 2)
                 \o IfElse(SameAs(Reg, MaxThreads), Store(S("n_count"), 10),
                                                    Add(S("n_count"), 1)))
        \o Count("nt_arrs", 2) \o Expect(SameAs(Reg, MaxThreads)),
        [k \in 1 .. NcNums |-> MyTestMaxCreationFunc(k)])

-----------------------------------------------------------------------------
(* TestPoolParallelCalc: NumOfLines pool threads add up SumSteps pieces of a   *)
(* sum; one that has done its piece queues itself.  Line k is pool thread 1+k. *)
NumOfLines == 2     \* num_of_lines, 8 in the source
SumSteps == 3       \* the sum has 100 pieces of sum_step in the source
Queue == S("queue") \* MyTestPoolParallelCalcLinkHead to LinkLast
IdleNow(k) == <<"idle_now", k>>

MyTestPoolParallelCalcFunc(os, k) ==
    Guarded(S("sumlock"), AddTo(S("result"), <<"num_start", k>>))
    \o Guarded(S("quelock"), Push(Queue, k))
    \o Store(IdleNow(k), TRUE)
    \o Post(os, S("semlock"), 1)

Dequeued(os, Use(_)) ==
    SemWait(os, S("semlock"), Infinite) \o Expect(IsNot(Queue, <<>>))
    \o Enter(S("quelock")) \o Pop(Queue) \o Save(S("d")) \o Set(S("quelock"))
    \o Concat(NumOfLines,
              LAMBDA k : If(Is(S("d"), k),
                            ExpectAs("idle", Is(IdleNow(k), TRUE)) \o Store(IdleNow(k), FALSE)
                            \o Use(k)))

PoolThread_TestPoolParallelCalc(os) ==
    LET Piece(n) ==
            Dequeued(os, LAMBDA k : Store(<<"num_start", k>>, n)
                                    \o PoolWait(1 + k, Infinite) \o TRunOk(IsPoolThread, 1 + k))
        jobs == [k \in 1 .. NumOfLines |-> MyTestPoolParallelCalcFunc(os, k)]
    IN  PoolTest(Locals,
                 [semlock |-> <<Semaphore(NumOfLines, NumOfLines)>>,
                  sumlock |-> <<SinglenterLock>>, quelock |-> <<SinglenterLock>>,
                  result |-> <<0>>, d |-> <<0>>, queue |-> <<[k \in 1 .. NumOfLines |-> k]>>,
                  idle_now |-> [k \in 1 .. NumOfLines |-> TRUE],
                  num_start |-> [k \in 1 .. NumOfLines |-> 0]],
                 Concat(SumSteps, Piece)
                 \o Repeat(NumOfLines, Dequeued(os, LAMBDA k : PoolDestroy(1 + k)))
                 \o Expect(Is(S("result"), (SumSteps * (SumSteps + 1)) \div 2)),
                 jobs)

ThreadPTests(os) ==
    [ThisThread_TestSleep |-> ThisThread_TestSleep,
     Thread_TestEnable |-> Thread_TestEnable,
     PoolThread_TestEnable |-> PoolThread_TestEnable,
     Thread_TestKillAndStatus |-> Thread_TestKillAndStatus,
     PoolThread_TestKillAndStatus |-> PoolThread_TestKillAndStatus,
     Thread_TestRunTwice |-> Thread_TestRunTwice,
     PoolThread_TestRunTwice |-> PoolThread_TestRunTwice,
     Thread_TestMaxCreation |-> Thread_TestMaxCreation,
     PoolThread_TestPoolParallelCalc |-> PoolThread_TestPoolParallelCalc(os)]
=============================================================================
