---------------------------- MODULE CondVarTests ----------------------------
(* condvar_unittest.cpp: what the condition variable's calls return and whom   *)
(* they wake.                                                                  *)
EXTENDS Library

CvItems == 3        \* threads a test starts: 10, 60 and 120 in the source
Producers == 2      \* 16 in the source; each starts one thread for 62

-----------------------------------------------------------------------------
(* TestReturnValue, first without and then with a lock.                        *)
MyCondVarTestReturnValueFunc(cond, lock) ==
    LET result == Load(<<"result", cond[2]>>) \o Raise(1) \o Save(<<"result", cond[2]>>)
    IN  (IF lock = <<>> THEN <<>> ELSE Enter(lock))
        \o CvWait(cond, lock, Infinite) \o result
        \o (IF lock = <<>> THEN <<>> ELSE Set(lock))

NoneWaits(cond) == WakeAll(cond) \o ExpectReg(0) \o WakeOne(cond) \o ExpectReg(0)
StartAndWake(cond, first) ==
    Concat(CvItems, LAMBDA k : RunOk(first + k))
    \o Sleep(100) \o WakeOne(cond) \o ExpectReg(1)
    \o Sleep(100) \o WakeAll(cond) \o ExpectReg(CvItems - 1)
    \o Sleep(100) \o WakeOne(cond) \o ExpectReg(0) \o WakeAll(cond) \o ExpectReg(0)

ConditionVariable_TestReturnValue ==
    LET free == <<"cond", 1>>       \* constructed with Null
        held == <<"cond", 4>>       \* constructed with &lock
        lock == S("lock")
        Fresh(cond) == Type(cond) \o ExpectReg("condvar")
        Refused == Wait(lock, 0) \o ExpectReg(FALSE)
    IN  TestProgram([cond |-> ConditionVariable \o ConditionVariable,
                     lock |-> <<SinglenterLock>>, result |-> <<0, 0, 0, 0>>],
            Fresh(free) \o CvWait(free, <<>>, 0) \o ExpectReg(FALSE) \o NoneWaits(free)
            \o StartAndWake(free, 1)
            \o Wait(lock, 0) \o ExpectReg(TRUE) \o Refused
            \o Fresh(held) \o CvWait(held, lock, 0) \o ExpectReg(FALSE)
            \o Refused \o NoneWaits(held) \o Set(lock)
            \o StartAndWake(held, 1 + CvItems)
            \o Expect(Is(<<"result", held[2]>>, CvItems)),
            [k \in 1 .. 2 * CvItems |->
                IF k <= CvItems THEN MyCondVarTestReturnValueFunc(free, <<>>)
                                ELSE MyCondVarTestReturnValueFunc(held, lock)])

-----------------------------------------------------------------------------
(* TestWakeAll and TestWakeOne: the test hands one number at a time to its     *)
(* threads.  With WakeAll it is taken by the thread that has that number, with *)
(* WakeOne by the one that comes.                                              *)
WakeLock == S("lock")
Recv == S("recv_cmd")
Fill(k) == <<"fill_val", k>>

WakeFunc(os, meant, fill) ==
    Enter(WakeLock) \o Post(os, S("semlock"), 1)
    \o WhileBoth(meant, Is(S("exit_cmd"), FALSE), CvWait(S("condin"), WakeLock, Infinite))
    \o fill \o Store(Recv, -1) \o WakeAll(S("condout"))
    \o Add(S("n_exitd"), 1) \o Set(WakeLock)
MyCondVarTestWakeAllFunc(os, k) == WakeFunc(os, IsNot(Recv, k), Store(Fill(k), 1))
MyCondVarTestWakeOneFunc(os, k) == WakeFunc(os, Below(Recv, 0), Load(Recv) \o Save(Fill(k)))

WakeTest(os, unfilled, Command(_), after, Func(_)) ==
    TestProgram([semlock |-> <<Semaphore(0, MAXIMUM_COUNT)>>, lock |-> <<SinglenterLock>>,
                 condin |-> ConditionVariable, condout |-> ConditionVariable,
                 n_exitd |-> <<0>>, recv_cmd |-> <<-1>>, exit_cmd |-> <<FALSE>>, n |-> <<0>>,
                 fill_val |-> [k \in 1 .. CvItems |-> unfilled]],
        Concat(CvItems, LAMBDA k : RunOk(1 + k))
        \o Repeat(CvItems, SemWait(os, S("semlock"), Infinite))
        \o Concat(CvItems, LAMBDA k : Expect(Is(Fill(k), unfilled)))
        \o Concat(CvItems, Command)
        \o Expect(Is(S("n_exitd"), CvItems)) \o after
        \o Store(S("exit_cmd"), TRUE) \o WakeAll(S("condin")),
        [k \in 1 .. CvItems |-> Func(k)])

HandOver(v, wake, check) ==
    Enter(WakeLock) \o Store(Recv, v) \o wake
    \o While(IsNot(Recv, -1), CvWait(S("condout"), WakeLock, Infinite))
    \o check \o Set(WakeLock)

ConditionVariable_TestWakeAll(os) ==
    WakeTest(os, 0,
        LAMBDA i : HandOver(i, WakeAll(S("condin")),
            Concat(CvItems, LAMBDA j : Expect(Is(Fill(j), IF j > i THEN 0 ELSE 1)))),
        <<>>, LAMBDA k : MyCondVarTestWakeAllFunc(os, k))

ConditionVariable_TestWakeOne(os) ==
    WakeTest(os, -1,
        LAMBDA i : HandOver(i - 1, WakeOne(S("condin")), Count("fill_val", -1))
                   \o ExpectReg(CvItems - i),
        Concat(CvItems, LAMBDA k : AddTo(S("n"), Fill(k)))
        \o Expect(Is(S("n"), (CvItems * (CvItems - 1)) \div 2)),
        LAMBDA k : MyCondVarTestWakeOneFunc(os, k))

-----------------------------------------------------------------------------
(* TestOrderedReturn: are threads woken in the order in which they waited?     *)
(* Thread k notes its place in the order in idx and the number it gets in      *)
(* pfill; the test ends with T_IGNORE, it does not fail when they differ.      *)
MyTestOrderedReturnFunc(os, k) ==
    Enter(WakeLock)
    \o Load(S("temp_idx")) \o Save(<<"idx", k>>) \o Add(S("temp_idx"), 1)
    \o Post(os, S("semlock"), 1)
    \o While(Below(S("fill_idx"), 0), CvWait(S("condin"), WakeLock, Infinite))
    \o Load(S("fill_idx")) \o Save(<<"pfill", k>>) \o Store(S("fill_idx"), -1)
    \o WakeAll(S("condout")) \o Set(WakeLock)

TestOrderedReturn_ProduceFunc(os, k) == Run(k) \o Post(os, S("semlock"), 1)

ConditionVariable_TestOrderedReturn(os) ==
    LET posted == Repeat(Producers, SemWait(os, S("semlock"), Infinite))
        none == [k \in 1 .. Producers |-> -1]
        Produce(i) ==
            Store(S("fill_idx"), i - 1) \o WakeOne(S("condin"))
            \o While(IsNot(S("fill_idx"), -1), CvWait(S("condout"), WakeLock, Infinite))
    IN  TestProgram([semlock |-> <<Semaphore(0, MAXIMUM_COUNT)>>, lock |-> <<SinglenterLock>>,
                     condin |-> ConditionVariable, condout |-> ConditionVariable,
                     fill_idx |-> <<-1>>, temp_idx |-> <<0>>, idx |-> none, pfill |-> none],
            Enter(WakeLock) \o Concat(Producers, LAMBDA k : RunOk(1 + k)) \o posted
            \o Set(WakeLock) \o posted \o Sleep(10)
            \o Enter(WakeLock) \o Concat(Producers, Produce) \o Set(WakeLock)
            \o Concat(Producers,
                      LAMBDA k : ExpectAs("order", SameAs(<<"pfill", k>>, <<"idx", k>>))),
            [k \in 1 .. 2 * Producers |->
                IF k <= Producers THEN TestOrderedReturn_ProduceFunc(os, 1 + Producers + k)
                                  ELSE MyTestOrderedReturnFunc(os, k - Producers)])

CondVarPTests(os) ==
    [ConditionVariable_TestReturnValue |-> ConditionVariable_TestReturnValue,
     ConditionVariable_TestWakeAll |-> ConditionVariable_TestWakeAll(os),
     ConditionVariable_TestWakeOne |-> ConditionVariable_TestWakeOne(os),
     ConditionVariable_TestOrderedReturn |-> ConditionVariable_TestOrderedReturn(os)]
=============================================================================
