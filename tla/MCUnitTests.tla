---------------------------- MODULE MCUnitTests -----------------------------
EXTENDS UnitTests, LockTests, CondVarTests, ObjectTests, ThreadTests

AllPrograms ==
    [os \in {"posix", "windows"} |->
        LockPTests(os) @@ CondVarPTests(os) @@ ObjectPTests(os) @@ ThreadPTests(os)
        @@ IF os = "posix" THEN TickTests ELSE <<>>]

(* All tests on POSIX, and on Windows those whose steps are others there; not  *)
(* the largest, where the only difference is the semaphore that counts idle    *)
(* threads.                                                                    *)
AllTests ==
    LET differ == {n \in DOMAIN AllPrograms["windows"] :
                      AllPrograms["windows"][n].code # AllPrograms["posix"][n].code}
    IN  ({"posix"} \X DOMAIN AllPrograms["posix"])
        \cup ({"windows"} \X (differ \ {"PoolThread_TestPoolParallelCalc"}))
PoolCalc == {<<"posix", "PoolThread_TestPoolParallelCalc">>}
=============================================================================
