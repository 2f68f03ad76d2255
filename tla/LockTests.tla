----------------------------- MODULE LockTests ------------------------------
(* lock_unittest.cpp: what the locks, the semaphore, the events and the        *)
(* condition variable return, how long they wait and what they protect.        *)
EXTENDS Library

TestNonTypeInvalid ==
    TestProgram([locks |-> <<SinglenterLock, RecursiveLock, SpinLock>>],
        Concat(3, LAMBDA k : Type(<<"locks", k>>) \o Expect(IsNot(Reg, "invalid"))), <<>>)

-----------------------------------------------------------------------------
(* TestReturnValue.                                                            *)
GetReturn == S("GetReturn")
TryGetReturn == S("TryGetReturn")
Finished == S("Finished")

MyTestReturnValueFunc(l) ==
    Get(l) \o Save(GetReturn)
    \o TryGet(l) \o Save(TryGetReturn)
    \o If(Is(GetReturn, TRUE), Free(l))
    \o If(Is(TryGetReturn, TRUE), Free(l))
    \o Store(Finished, TRUE)

Forget == Store(GetReturn, FALSE) \o Store(TryGetReturn, FALSE) \o Store(Finished, FALSE)
Outcome(finished, got, tried) ==
    Expect(Is(Finished, finished)) \o Expect(Is(GetReturn, got))
    \o Expect(Is(TryGetReturn, tried))
RunFor(ends) == RunOk(2) \o Join(2, 250) \o ExpectReg(ends)
TryTwice(l, again) ==
    TryGet(l) \o Save(S("try1")) \o ExpectReg(TRUE)
    \o TryGet(l) \o Save(S("try2")) \o ExpectReg(again)
FreeTwice(l) == If(Is(S("try1"), TRUE), Free(l)) \o If(Is(S("try2"), TRUE), Free(l))

ReturnValueTest(l, object, body) ==
    TestProgram([lock |-> <<object>>, GetReturn |-> <<FALSE>>, TryGetReturn |-> <<FALSE>>,
                 Finished |-> <<FALSE>>, try1 |-> <<FALSE>>, try2 |-> <<FALSE>>, waited |-> <<FALSE>>],
                Type(l.a) \o ExpectReg(l.type) \o body, <<MyTestReturnValueFunc(l)>>)

(* The thread gets the free lock, and does not while the test has it.          *)
TakenTest(l, object, again) ==
    ReturnValueTest(l, object,
        RunFor(TRUE) \o Outcome(TRUE, TRUE, again)
        \o Forget \o TryTwice(l, again)
        \o RunFor(FALSE) \o Outcome(FALSE, FALSE, FALSE)
        \o FreeTwice(l)
        \o Join(2, Infinite) \o ExpectReg(TRUE) \o Outcome(TRUE, TRUE, again))

L(os, type) == Lock(os, type, S("lock"))
Singlenter == L("any", "singlenter")
Recursive == L("any", "recursive")
Spinning(os) == L(os, "spinning")
Counting(os) == L(os, "semaphore")
Auto == L("any", "auto")
Manual == L("any", "manual")

SinglenterLock_TestReturnValue == TakenTest(Singlenter, SinglenterLock, FALSE)
RecursiveLock_TestReturnValue == TakenTest(Recursive, RecursiveLock, TRUE)
SpinLock_TestReturnValue(os) == TakenTest(Spinning(os), SpinLock, FALSE)
AutoResetEventInitSet_TestReturnValue == TakenTest(Auto, AutoResetEvent(TRUE), FALSE)

AutoResetEventInitReset_TestReturnValue ==
    ReturnValueTest(Auto, AutoResetEvent(FALSE),
        RunFor(FALSE) \o Outcome(FALSE, FALSE, FALSE)
        \o Set(Auto.a) \o JoinOrKill(2, 250) \o Outcome(TRUE, TRUE, FALSE))

ManualResetEventInitSet_TestReturnValue ==
    ReturnValueTest(Manual, ManualResetEvent(TRUE),
        RunFor(TRUE) \o Outcome(TRUE, TRUE, TRUE)
        \o Forget \o TryTwice(Manual, TRUE)
        \o RunFor(TRUE) \o Outcome(TRUE, TRUE, TRUE)
        \o FreeTwice(Manual))

ManualResetEventInitReset_TestReturnValue ==
    ReturnValueTest(Manual, ManualResetEvent(FALSE),
        RunFor(FALSE) \o Outcome(FALSE, FALSE, FALSE)
        \o Set(Manual.a) \o JoinOrKill(2, 250)
        \o Forget \o TryTwice(Manual, TRUE)
        \o RunOk(2) \o Join(2, 250) \o Save(S("waited")) \o ExpectReg(TRUE)
        \o Outcome(TRUE, TRUE, TRUE)
        \o FreeTwice(Manual)
        \o If(Is(S("waited"), FALSE), Set(Manual.a) \o JoinOrKill(2, 250)))

-----------------------------------------------------------------------------
(* TestWaiting.                                                                *)
MyTestWaitingFunc(l) == Get(l) \o Sleep(450) \o Free(l)

WaitingTest(l, object, body) ==
    TestProgram([lock |-> <<object>>], body, <<MyTestWaitingFunc(l)>>)

GetsAfter(l, lo, hi) ==
    Clock \o RunOk(2) \o Sleep(200)
    \o Get(l) \o Elapsed(lo, hi) \o ExpectReg(TRUE) \o Free(l)

ThreadHeldTest(l, object) == WaitingTest(l, object, GetsAfter(l, 250, 650))

SinglenterLock_TestWaiting == ThreadHeldTest(Singlenter, SinglenterLock)
RecursiveLock_TestWaiting == ThreadHeldTest(Recursive, RecursiveLock)
SpinLock_TestWaiting(os) == ThreadHeldTest(Spinning(os), SpinLock)
Semaphore_TestWaiting11(os) == ThreadHeldTest(Counting(os), Semaphore(1, 1))
Semaphore_TestWaiting12(os) == ThreadHeldTest(Counting(os), Semaphore(1, 2))
Semaphore_TestWaiting22(os) ==
    WaitingTest(Counting(os), Semaphore(2, 2),
                GetsAfter(Counting(os), 50, 350) \o JoinOrKill(2, 1000))
AutoResetEvent_TestWaitingT ==
    WaitingTest(Auto, AutoResetEvent(TRUE), GetsAfter(Auto, 350, 650))
ManualResetEvent_TestWaitingT ==
    WaitingTest(Manual, ManualResetEvent(TRUE),
                GetsAfter(Manual, 50, 350) \o JoinOrKill(2, 500))

SetReleasesTest(l, object) ==
    WaitingTest(l, object,
        RunOk(2) \o Sleep(600) \o TryGet(l) \o ExpectReg(FALSE)
        \o Clock \o Free(l) \o Join(2, 800) \o ExpectReg(TRUE)
        \o Elapsed(400, 700) \o ExpectReg(TRUE)
        \o TryGet(l) \o ExpectReg(TRUE) \o JoinOrKill(2, 100))
AutoResetEvent_TestWaitingF == SetReleasesTest(Auto, AutoResetEvent(FALSE))
ManualResetEvent_TestWaitingF == SetReleasesTest(Manual, ManualResetEvent(FALSE))

-----------------------------------------------------------------------------
(* TestCalculation, with fewer threads and rounds: CalcThreads stands for 10,  *)
(* CalcRounds for 3000 and CalcAdds for 100.  The Sleep(0) between read and     *)
(* write is the freedom every step has to come late.                           *)
CalcThreads == 2
CalcRounds == 1
CalcAdds == 1
Total == CalcThreads * CalcRounds * CalcAdds

MyTestCalculationFunc(calc, exit, use_lock) ==
    Repeat(CalcRounds,
           (IF use_lock THEN Get(calc) ELSE <<>>)
           \o Repeat(CalcAdds, Load(S("calc_data")) \o Raise(1) \o Save(S("calc_data")))
           \o (IF use_lock THEN Free(calc) ELSE <<>>))
    \o Get(exit) \o Add(S("end_count"), 1) \o Free(exit)

RunCalculators(first) ==
    Store(S("calc_data"), 0) \o Store(S("end_count"), 0)
    \o Concat(CalcThreads, LAMBDA k : RunOk(first + k))
    \o Poll(Is(S("end_count"), CalcThreads), 100)

(* Without the lock the test expects to see an update lost; the scheduler does *)
(* not owe it one.                                                             *)
CalculationTest(os, type, object) ==
    LET calc == Lock(os, type, S("calc_lock"))
        exit == Lock(os, type, S("exit_lock"))
    IN  TestProgram([calc_lock |-> <<object>>, exit_lock |-> <<object>>, calc_data |-> <<0>>,
                     end_count |-> <<0>>],
            RunCalculators(1)
            \o ExpectAs("lost update", Below(S("calc_data"), Total))
            \o RunCalculators(1 + CalcThreads)
            \o Expect(Is(S("calc_data"), Total)),
            [k \in 1 .. 2 * CalcThreads |->
                MyTestCalculationFunc(calc, exit, k > CalcThreads)])

SinglenterLock_TestCalculation == CalculationTest("any", "singlenter", SinglenterLock)
RecursiveLock_TestCalculation == CalculationTest("any", "recursive", RecursiveLock)
SpinLock_TestCalculation(os) == CalculationTest(os, "spinning", SpinLock)
SemaphoreInit11_TestCalculation(os) == CalculationTest(os, "semaphore", Semaphore(1, 1))
AutoResetEventInitSet_TestCalculation == CalculationTest("any", "auto", AutoResetEvent(TRUE))

-----------------------------------------------------------------------------
(* TestSinglenter: a thread that takes the lock again while it has it.         *)
MyTestSinglenterFunc(l, depth) ==
    Repeat(depth, Get(l) \o AddTo(S("test_result"), S("test_start"))
                         \o Add(S("test_start"), -1))
    \o Repeat(depth, Free(l))

NestedTest(l, object, ends, result) ==
    TestProgram([lock |-> <<object>>, test_result |-> <<0>>, test_start |-> <<4>>],
        RunFor(ends) \o Expect(Is(S("test_result"), result)) \o JoinOrKill(2, 50),
        <<MyTestSinglenterFunc(l, 4)>>)

SinglenterLock_TestSinglenter == NestedTest(Singlenter, SinglenterLock, FALSE, 4)
RecursiveLock_TestRecursively == NestedTest(Recursive, RecursiveLock, TRUE, 10)
SpinLock_TestSinglenter(os) == NestedTest(Spinning(os), SpinLock, FALSE, 4)
Semaphore_TestSinglenter11(os) == NestedTest(Counting(os), Semaphore(1, 1), FALSE, 4)
Semaphore_TestSinglenter22(os) == NestedTest(Counting(os), Semaphore(2, 2), FALSE, 7)
Semaphore_TestSinglenter34(os) == NestedTest(Counting(os), Semaphore(3, 4), FALSE, 9)
Semaphore_TestSinglenter44(os) == NestedTest(Counting(os), Semaphore(4, 4), TRUE, 10)
AutoResetEvent_TestSinglenterT == NestedTest(Auto, AutoResetEvent(TRUE), FALSE, 4)
AutoResetEvent_TestSinglenterF == NestedTest(Auto, AutoResetEvent(FALSE), FALSE, 0)
ManualResetEvent_TestSinglenterT == NestedTest(Manual, ManualResetEvent(TRUE), TRUE, 10)
ManualResetEvent_TestSinglenterF == NestedTest(Manual, ManualResetEvent(FALSE), FALSE, 0)

-----------------------------------------------------------------------------
(* TestMultiTimeWaitOne: TMTWTCOUNT threads wait on one object, each for a     *)
(* longer time than the one before it; two are freed early, the others time    *)
(* out.  Thread 2 runs the test, its frame holds what the waiters use.         *)
TMTWTCOUNT == 4         \* 6 in the source
TMTWINTVAL == 200
Result(k) == <<"result", k>>

AllTogether == Wait(S("mre"), Infinite) \o Set(S("mre"))

MyTestMultiTimeWaitOneFunc(wlock_Free) ==
    LET seen(n, case) == Count("result", TRUE) \o If(Is(Reg, n), Store(case, TRUE))
    IN  Concat(TMTWTCOUNT,
               LAMBDA k : Run(2 + k) \o If(Is(Reg, 0), Add(S("fail_threads"), 1)))
        \o Set(S("mre")) \o Sleep(TMTWINTVAL \div 4)
        \o wlock_Free \o Sleep(TMTWINTVAL \div 4) \o seen(1, S("success_case1"))
        \o wlock_Free \o Sleep(TMTWINTVAL \div 4) \o seen(2, S("success_case2"))
        \o Sleep(TMTWINTVAL)
        \o Concat(TMTWTCOUNT,
                  LAMBDA k : If(Is(Result(k), TRUE), Add(S("passed_count"), 1))
                             \o Status(2 + k) \o If(Is(Reg, "Running"), Kill(2 + k))
                             \o Sleep(TMTWINTVAL))

MultiTimeTest(object, wlock_Free, Waiter(_)) ==
    ProgramIn([mre |-> 2, result |-> 2],
        [wlock |-> object, mutex |-> <<SinglenterLock>>, mre |-> <<ManualResetEvent(FALSE)>>,
         result |-> [k \in 1 .. TMTWTCOUNT |-> FALSE], fail_threads |-> <<0>>,
         passed_count |-> <<0>>, success_case1 |-> <<FALSE>>, success_case2 |-> <<FALSE>>],
        RunOk(2) \o Join(2, Infinite)
        \o Expect(Is(S("passed_count"), TMTWTCOUNT)) \o Expect(Is(S("fail_threads"), 0))
        \o Expect(Is(S("success_case1"), TRUE)) \o Expect(Is(S("success_case2"), TRUE)),
        <<MyTestMultiTimeWaitOneFunc(wlock_Free)>> \o [k \in 1 .. TMTWTCOUNT |-> Waiter(k)])

TestMultiTimeWaitOne_Semaphore(os, k) ==
    AllTogether \o SemWait(os, S("wlock"), k * TMTWINTVAL) \o Store(Result(k), TRUE)
Semaphore_TestMultiTimeWaitOne(os) ==
    MultiTimeTest(<<Semaphore(0, MAXIMUM_COUNT)>>, Post(os, S("wlock"), 1),
                  LAMBDA k : TestMultiTimeWaitOne_Semaphore(os, k))

TestMultiTimeWaitOne_AutoResetEvent(k) ==
    AllTogether \o Wait(S("wlock"), k * TMTWINTVAL) \o Store(Result(k), TRUE)
AutoResetEvent_TestMultiTimeWaitOne ==
    MultiTimeTest(<<AutoResetEvent(FALSE)>>, Set(S("wlock")),
                  LAMBDA k : TestMultiTimeWaitOne_AutoResetEvent(k))

TestMultiTimeWaitOne_ConditionVariable(k) ==
    AllTogether
    \o Guarded(S("mutex"),
               CvWait(S("wlock"), S("mutex"), k * TMTWINTVAL) \o Store(Result(k), TRUE))
ConditionVariable_TestMultiTimeWaitOne ==
    MultiTimeTest(ConditionVariable, WakeOne(S("wlock")),
                  LAMBDA k : TestMultiTimeWaitOne_ConditionVariable(k))

-----------------------------------------------------------------------------
(* TestWaitIsInTickTimeout: the wall clock is set back by five minutes while   *)
(* threads wait.  One kind of wait at a time, TickThreads for 100 threads:     *)
(* thread 2 manages them and 3 is the one run first; the k-th thread of        *)
(* ThreadSync waits for Sleeper(k).                                            *)
TickThreads == 2
Sleeper(k) == 3 + TickThreads + k

Announces == Guarded(S("s_lock"), Add(S("nt_init"), 1))
Measured(timed, result) ==
    Wait(S("g_sync"), Infinite) \o Set(S("g_sync")) \o Sleep(0)
    \o Clock \o timed \o Elapsed(500, 1000) \o Save(result)

TestWaitIsInTickTimeout_Sleep == Sleep(750)
TestWaitIsInTickTimeout_Semaphore(k) == SemWait("posix", <<"semlock", k>>, 750)
TestWaitIsInTickTimeout_AutoResetEvent(k) == Wait(<<"are", k>>, 750)
TestWaitIsInTickTimeout_ManualResetEvent(k) == Wait(<<"mre", k>>, 750)
TestWaitIsInTickTimeout_ConditionVariable(k) ==
    CvWait(<<"cond", 3 * k - 2>>, <<"mtx", k>>, 750)
TestWaitIsInTickTimeout_ThreadSyncFunc == Sleep(300000)
TestWaitIsInTickTimeout_ThreadSync(k) == Join(Sleeper(k), 750)

MyTestWaitIsInTickTimeoutFunc ==
    Concat(TickThreads, LAMBDA k : Run(3 + k))
    \o Poll(Is(S("nt_init"), TickThreads), 50)
    \o Guarded(S("mtx_main"), Add(S("nc_fin"), 1))
    \o Wait(S("g_sync"), Infinite) \o Set(S("g_sync"))
    \o Sleep(1000)
    \o Concat(TickThreads,
              LAMBDA k : If(Is(Result(k), TRUE), Add(S("passed_count"), 1))
                         \o Status(3 + k) \o If(Is(Reg, "Running"), Kill(3 + k)))
    \o Guarded(S("mtx_main"), Add(S("nc_end"), 1))

All_TestWaitIsInTickTimeout ==
    RunOk(3) \o Sleep(50) \o Set(S("g_sync")) \o SetTimeOfDay(-300000)
    \o Join(3, 1000) \o ExpectReg(TRUE) \o Expect(Is(S("slept"), TRUE))
    \o If(Is(Reg, FALSE), Kill(3) \o SetTimeOfDay(300000) \o Leave)
    \o Reset(S("g_sync"))
    \o RunOk(2) \o DoWhile(Sleep(50), IsNot(S("nc_fin"), 1))
    \o Set(S("g_sync")) \o Sleep(3) \o SetTimeOfDay(-300000) \o Sleep(1200)
    \o Expect(Is(S("passed_count"), TickThreads))
    \o SetTimeOfDay(600000) \o Poll(Is(S("nc_end"), 1), 50)

(* Before and After: what the k-th thread does around the measured wait.       *)
TickTest(Before(_), Timed(_), After(_)) ==
    ProgramIn([s_lock |-> 2, nt_init |-> 2, result |-> 2, semlock |-> 0, are |-> 0,
               mre |-> 0, cond |-> 0, mtx |-> 0],
        [g_sync |-> <<ManualResetEvent(FALSE)>>, s_lock |-> <<SinglenterLock>>,
         mtx_main |-> <<SinglenterLock>>, nt_init |-> <<0>>, nc_fin |-> <<0>>,
         nc_end |-> <<0>>, passed_count |-> <<0>>, slept |-> <<FALSE>>,
         result |-> [k \in 1 .. TickThreads |-> FALSE],
         semlock |-> [k \in 1 .. TickThreads |-> Semaphore(0, 1)],
         are |-> [k \in 1 .. TickThreads |-> AutoResetEvent(FALSE)],
         mre |-> [k \in 1 .. TickThreads |-> ManualResetEvent(FALSE)],
         mtx |-> [k \in 1 .. TickThreads |-> SinglenterLock],
         cond |-> Repeat(TickThreads, ConditionVariable)],
        All_TestWaitIsInTickTimeout,
        <<MyTestWaitIsInTickTimeoutFunc,
          Measured(TestWaitIsInTickTimeout_Sleep, S("slept"))>>
        \o [k \in 1 .. TickThreads |->
                Before(k) \o Announces \o Measured(Timed(k), Result(k)) \o After(k)]
        \o Repeat(TickThreads, <<TestWaitIsInTickTimeout_ThreadSyncFunc>>))

PlainTickTest(Timed(_)) == TickTest(LAMBDA k : <<>>, Timed, LAMBDA k : <<>>)

TickTests ==
    [Tick_Sleep |-> PlainTickTest(LAMBDA k : TestWaitIsInTickTimeout_Sleep),
     Tick_Semaphore |-> PlainTickTest(TestWaitIsInTickTimeout_Semaphore),
     Tick_AutoResetEvent |-> PlainTickTest(TestWaitIsInTickTimeout_AutoResetEvent),
     Tick_ManualResetEvent |-> PlainTickTest(TestWaitIsInTickTimeout_ManualResetEvent),
     Tick_ConditionVariable |->
         TickTest(LAMBDA k : Enter(<<"mtx", k>>), TestWaitIsInTickTimeout_ConditionVariable,
                  LAMBDA k : Set(<<"mtx", k>>)),
     Tick_ThreadSync |->
         TickTest(LAMBDA k : Run(Sleeper(k)), TestWaitIsInTickTimeout_ThreadSync,
                  LAMBDA k : Kill(Sleeper(k)))]

LockPTests(os) ==
    [ILock_TestNonTypeInvalid |-> TestNonTypeInvalid,
     SinglenterLock_TestReturnValue |-> SinglenterLock_TestReturnValue,
     RecursiveLock_TestReturnValue |-> RecursiveLock_TestReturnValue,
     SpinLock_TestReturnValue |-> SpinLock_TestReturnValue(os),
     AutoResetEventInitSet_TestReturnValue |-> AutoResetEventInitSet_TestReturnValue,
     AutoResetEventInitReset_TestReturnValue |-> AutoResetEventInitReset_TestReturnValue,
     ManualResetEventInitSet_TestReturnValue |-> ManualResetEventInitSet_TestReturnValue,
     ManualResetEventInitReset_TestReturnValue |-> ManualResetEventInitReset_TestReturnValue,
     SinglenterLock_TestWaiting |-> SinglenterLock_TestWaiting,
     RecursiveLock_TestWaiting |-> RecursiveLock_TestWaiting,
     SpinLock_TestWaiting |-> SpinLock_TestWaiting(os),
     Semaphore_TestWaiting11 |-> Semaphore_TestWaiting11(os),
     Semaphore_TestWaiting12 |-> Semaphore_TestWaiting12(os),
     Semaphore_TestWaiting22 |-> Semaphore_TestWaiting22(os),
     AutoResetEvent_TestWaitingT |-> AutoResetEvent_TestWaitingT,
     AutoResetEvent_TestWaitingF |-> AutoResetEvent_TestWaitingF,
     ManualResetEvent_TestWaitingT |-> ManualResetEvent_TestWaitingT,
     ManualResetEvent_TestWaitingF |-> ManualResetEvent_TestWaitingF,
     SinglenterLock_TestCalculation |-> SinglenterLock_TestCalculation,
     RecursiveLock_TestCalculation |-> RecursiveLock_TestCalculation,
     SpinLock_TestCalculation |-> SpinLock_TestCalculation(os),
     SemaphoreInit11_TestCalculation |-> SemaphoreInit11_TestCalculation(os),
     AutoResetEventInitSet_TestCalculation |-> AutoResetEventInitSet_TestCalculation,
     SinglenterLock_TestSinglenter |-> SinglenterLock_TestSinglenter,
     RecursiveLock_TestRecursively |-> RecursiveLock_TestRecursively,
     SpinLock_TestSinglenter |-> SpinLock_TestSinglenter(os),
     Semaphore_TestSinglenter11 |-> Semaphore_TestSinglenter11(os),
     Semaphore_TestSinglenter22 |-> Semaphore_TestSinglenter22(os),
     Semaphore_TestSinglenter34 |-> Semaphore_TestSinglenter34(os),
     Semaphore_TestSinglenter44 |-> Semaphore_TestSinglenter44(os),
     AutoResetEvent_TestSinglenterT |-> AutoResetEvent_TestSinglenterT,
     AutoResetEvent_TestSinglenterF |-> AutoResetEvent_TestSinglenterF,
     ManualResetEvent_TestSinglenterT |-> ManualResetEvent_TestSinglenterT,
     ManualResetEvent_TestSinglenterF |-> ManualResetEvent_TestSinglenterF,
     Semaphore_TestMultiTimeWaitOne |-> Semaphore_TestMultiTimeWaitOne(os),
     AutoResetEvent_TestMultiTimeWaitOne |-> AutoResetEvent_TestMultiTimeWaitOne,
     ConditionVariable_TestMultiTimeWaitOne |-> ConditionVariable_TestMultiTimeWaitOne]

=============================================================================
