---------------------------- MODULE ObjectTests -----------------------------
(* semaphore_unittest.cpp and event_unittest.cpp.                              *)
EXTENDS Library

-----------------------------------------------------------------------------
(* The semaphore's constructor takes a count within a positive maximum.        *)
TestILockInit ==
    LET valid == << <<0, 1>>, <<1, 1>>, <<0, MAXIMUM_COUNT - 1>>, <<0, MAXIMUM_COUNT>>,
                    <<50, 100>>, <<100, 100>>, <<100, MAXIMUM_COUNT>> >>
        invalid == << <<0, 0>>, <<1, 0>>, <<2, 1>>, <<100, 1>>, <<0, -1>>, <<100, -1>>,
                      <<0, INT32_MAX>>, <<100, INT32_MAX>>, <<0, INT32_MIN>>,
                      <<100, INT32_MIN>>, <<0, MAXIMUM_COUNT + 1>> >>
        made(args) == [k \in DOMAIN args |-> Semaphore(args[k][1], args[k][2])]
    IN  TestProgram([good |-> made(valid), bad |-> made(invalid)],
            Concat(Len(valid), LAMBDA k : Type(<<"good", k>>) \o ExpectReg("semaphore"))
            \o Concat(Len(invalid), LAMBDA k : Type(<<"bad", k>>) \o ExpectReg("invalid")),
            <<>>)

Sem == S("semlock")

(* TestReturnValue: SetMax, and a thread that waits five times.                *)
MyTestSemaphoreReturnValueFunc(os) ==
    LET ms == <<200, 200, 0, 200, 300>>
    IN  Concat(5, LAMBDA k : SemWait(os, Sem, ms[k]) \o Save(<<"ReturnValue", k>>)
                             \o Current(os, Sem) \o Save(<<"CurrentValue", k>>))
        \o Store(S("Finished"), TRUE)

Semaphore_TestReturnValue(os) ==
    LET MaxBecomes(i_max, ok, now) ==
            SetMax(Sem, i_max) \o ExpectReg(ok) \o Maximum(Sem) \o ExpectReg(now)
        Got(k, ok, count) ==
            Expect(Is(<<"ReturnValue", k>>, ok)) \o Expect(Is(<<"CurrentValue", k>>, count))
        Finished(yes) == Expect(Is(S("Finished"), yes))
    IN  TestProgram([semlock |-> <<Semaphore(3, 4)>>, Finished |-> <<FALSE>>,
                     ReturnValue |-> <<FALSE, FALSE, FALSE, FALSE, FALSE>>,
                     CurrentValue |-> <<-1, -1, -1, -1, -1>>],
            Type(Sem) \o ExpectReg("semaphore") \o Current(os, Sem) \o ExpectReg(3)
            \o Maximum(Sem) \o ExpectReg(4)
            \o MaxBecomes(1, TRUE, 1) \o MaxBecomes(10, TRUE, 10)
            \o MaxBecomes(0, FALSE, 10) \o MaxBecomes(-1, FALSE, 10)
            \o MaxBecomes(INT32_MAX, FALSE, 10) \o MaxBecomes(MAXIMUM_COUNT + 1, FALSE, 10)
            \o MaxBecomes(MAXIMUM_COUNT, TRUE, MAXIMUM_COUNT)
            \o MaxBecomes(MAXIMUM_COUNT - 1, TRUE, MAXIMUM_COUNT - 1)
            \o MaxBecomes(3, TRUE, 3)
            \o RunOk(2) \o Join(2, 50) \o ExpectReg(FALSE)
            \o Got(1, TRUE, 2) \o Got(2, TRUE, 1) \o Got(3, TRUE, 0) \o Got(4, FALSE, -1)
            \o Finished(FALSE)
            \o Join(2, 300) \o ExpectReg(FALSE) \o Got(4, FALSE, 0) \o Finished(FALSE)
            \o Post(os, Sem, 2) \o Join(2, 400) \o ExpectReg(TRUE)
            \o Got(5, TRUE, 1) \o Finished(TRUE),
            <<MyTestSemaphoreReturnValueFunc(os)>>)

(* TestMultipleWait: Width threads at a time are let in, in two rounds, and    *)
(* two more when the maximum has grown.                                        *)
Width == 1          \* 4 in the source
Waiters == 2 * Width + 2

MyTestSemaphoreMultipleWaitFunc(os) ==
    LET counted(lock, count) == Guarded(lock, Add(count, 1))
    IN  SemWait(os, Sem, Infinite) \o counted(S("lock1"), S("EntersCount")) \o Sleep(400)
        \o counted(S("lock2"), S("FinishCount")) \o Post(os, Sem, 1)

Semaphore_TestMultipleWait(os) ==
    LET Counts(enters, finishes) ==
            Expect(Is(S("EntersCount"), enters)) \o Expect(Is(S("FinishCount"), finishes))
        Refuses(i_num) ==
            Post(os, Sem, i_num) \o ExpectReg(FALSE) \o Sleep(100) \o Counts(0, 0)
        Accepts(i_num) == Post(os, Sem, i_num) \o ExpectReg(TRUE)
        Counted(n) == Current(os, Sem) \o ExpectReg(n)
    IN  TestProgram([semlock |-> <<Semaphore(0, Width)>>, lock1 |-> <<SinglenterLock>>,
                     lock2 |-> <<SinglenterLock>>, EntersCount |-> <<0>>,
                     FinishCount |-> <<0>>],
            Concat(Waiters, LAMBDA k : RunOk(1 + k)) \o Sleep(100) \o Counts(0, 0)
            \o Refuses(0) \o Refuses(Width + 1) \o Refuses(-1)
            \o Accepts(Width) \o Sleep(180) \o Counts(Width, 0)
            \o Sleep(400) \o Counts(2 * Width, Width)
            \o SetMax(Sem, Width + 4) \o Accepts(3)
            \o Sleep(120) \o Counted(1) \o Counts(Waiters, Width)
            \o Sleep(210) \o Counts(Waiters, 2 * Width)
            \o Sleep(240) \o Counts(Waiters, Waiters)
            \o Counted(Width + 3) \o Maximum(Sem) \o ExpectReg(Width + 4),
            [k \in 1 .. Waiters |-> MyTestSemaphoreMultipleWaitFunc(os)])

-----------------------------------------------------------------------------
(* Event: the constructors of Event<Auto>, Event<Manual> and the two classes.  *)
TestConstructre ==
    TestProgram([aevt |-> <<AutoResetEvent(FALSE), AutoResetEvent(TRUE)>>,
                 mevt |-> <<ManualResetEvent(FALSE), ManualResetEvent(TRUE)>>],
        Concat(2, LAMBDA k : Type(<<"aevt", k>>) \o ExpectReg("auto"))
        \o Concat(2, LAMBDA k : Type(<<"mevt", k>>) \o ExpectReg("manual")), <<>>)

(* TestSignalReset: four threads wait for an event that begins set (block 1)   *)
(* or reset (block 2).                                                         *)
Entrants == 4
TSRINTVAL == 100
Evt(b) == <<"evt", b>>

MyTestSignalResetFunc(b) ==
    Wait(Evt(b), Infinite) \o Guarded(<<"lock", b>>, Add(<<"EnterCount", b>>, 1))

(* The EnterCount of each block once the threads have been started, the first  *)
(* block's after the time first, and then after each Set.                      *)
SignalResetTest(events, first, counts) ==
    LET Block(b) ==
            Concat(Entrants, LAMBDA k : RunOk(1 + (b - 1) * Entrants + k))
            \o Concat(Len(counts[b]),
                      LAMBDA n : (IF n = 1 THEN <<>> ELSE Set(Evt(b)))
                                 \o Sleep(IF b = 1 /\ n = 1 THEN first ELSE TSRINTVAL)
                                 \o Expect(Is(<<"EnterCount", b>>, counts[b][n])))
    IN  TestProgram([evt |-> events, lock |-> <<SinglenterLock, SinglenterLock>>,
                     EnterCount |-> <<0, 0>>],
            Block(1) \o Block(2),
            [k \in 1 .. 2 * Entrants |-> MyTestSignalResetFunc(IF k <= Entrants THEN 1 ELSE 2)])

AutoResetEvent_TestSignalReset ==
    SignalResetTest(<<AutoResetEvent(TRUE), AutoResetEvent(FALSE)>>, TSRINTVAL,
                    << <<1, 2, 3, 4, 4>>, <<0, 1, 2, 3, 4, 4>> >>)
ManualResetEvent_TestSignalReset ==
    SignalResetTest(<<ManualResetEvent(TRUE), ManualResetEvent(FALSE)>>, 150,
                    << <<4, 4>>, <<0, 4, 4>> >>)

ObjectPTests(os) ==
    [Semaphore_TestILockInit |-> TestILockInit,
     Semaphore_TestReturnValue |-> Semaphore_TestReturnValue(os),
     Semaphore_TestMultipleWait |-> Semaphore_TestMultipleWait(os),
     Event_TestConstructre |-> TestConstructre,
     AutoResetEvent_TestSignalReset |-> AutoResetEvent_TestSignalReset,
     ManualResetEvent_TestSignalReset |-> ManualResetEvent_TestSignalReset]
=============================================================================
