------------------------------ MODULE Library -------------------------------
(* The library's calls as the steps a thread takes: a program is a sequence of *)
(* steps, a routine the sequence of those it makes.  A step names the cell it  *)
(* works on by a, <<name, index>>; the names are the program's variables.      *)
(* UnitTests says what each step does.                                         *)
EXTENDS SyncObjects

Infinite == -1                  \* Time::TimeUnit::Infinite()
Reg == <<"reg", 1>>             \* the value the last call returned
S(name) == <<name, 1>>          \* a variable that is not an array
Sub(a, k) == <<a[1], a[2] + k>> \* part k of a compound object

(* Conditions on a cell.                                                       *)
Is(a, v) == [a |-> a, cmp |-> "=", v |-> v]
IsNot(a, v) == [a |-> a, cmp |-> "#", v |-> v]
Below(a, v) == [a |-> a, cmp |-> "<", v |-> v]
AtLeast(a, v) == [a |-> a, cmp |-> ">=", v |-> v]
Has(a, v) == [a |-> a, cmp |-> "has", v |-> v]
Lacks(a, v) == [a |-> a, cmp |-> "lacks", v |-> v]
SameAs(a, b) == [a |-> a, cmp |-> "same", v |-> b]
Differs(a, b) == [a |-> a, cmp |-> "differs", v |-> b]

(* Steps on variables.                                                         *)
Store(a, v) == <<[op |-> "store", a |-> a, v |-> v]>>
Load(a) == <<[op |-> "load", a |-> a]>>
Save(a) == <<[op |-> "save", a |-> a]>>
Add(a, k) == <<[op |-> "add", a |-> a, k |-> k]>>
AddTo(a, b) == <<[op |-> "addto", a |-> a, b |-> b]>>
Raise(k) == <<[op |-> "raise", k |-> k]>>
Count(name, v) == <<[op |-> "count", a |-> S(name), v |-> v]>>
Mark(a, v) == <<[op |-> "mark", a |-> a, v |-> v]>>
Unmark(a, v) == <<[op |-> "unmark", a |-> a, v |-> v]>>
Push(a, v) == <<[op |-> "push", a |-> a, v |-> v]>>
Pop(a) == <<[op |-> "pop", a |-> a]>>
Return(v) == <<[op |-> "return", v |-> v]>>
Clock == <<[op |-> "clock"]>>
SetTimeOfDay(k) == <<[op |-> "settime", k |-> k]>>
Elapsed(lo, hi) == <<[op |-> "elapsed", lo |-> lo, hi |-> hi]>>

(* Control.  A jump goes on k steps further, or back.                          *)
Jump(k) == <<[op |-> "jump", k |-> k]>>
Unless(c, k) == <<[op |-> "unless", a |-> c.a, c |-> c, k |-> k]>>
Leave == <<[op |-> "leave"]>>
If(c, steps) == Unless(c, Len(steps)) \o steps
IfElse(c, one, other) == If(c, one \o Jump(Len(other))) \o other
While(c, body) == If(c, body \o Jump(-Len(body) - 2))
WhileBoth(c, d, body) == If(c, If(d, body \o Jump(-Len(body) - 3)))
DoWhile(body, c) == body \o If(c, Jump(-Len(body) - 2))
Poll(c, ms) == <<[op |-> "poll", a |-> c.a, c |-> c, ms |-> ms]>>
ExpectAs(tag, c) == <<[op |-> "expect", a |-> c.a, c |-> c, tag |-> tag]>>
Expect(c) == ExpectAs("expected", c)
ExpectReg(v) == Expect(Is(Reg, v))
Concat(n, Steps(_)) ==
    LET upto[k \in 0 .. n] == IF k = 0 THEN <<>> ELSE upto[k - 1] \o Steps(k)
    IN  upto[n]
Repeat(n, steps) == Concat(n, LAMBDA k : steps)

(* A test: its cells, a sequence of steps for the PTest body and one for each  *)
(* thread object, and the thread in whose frame a cell lies when that is not   *)
(* the body's own (0: static data or the heap).                                *)
ProgramIn(home, cells, body, threads) ==
    [home |-> home, mem |-> cells, code |-> <<body>> \o threads]
TestProgram(cells, body, threads) == ProgramIn([tid_max |-> 0], cells, body, threads)

(* ThisThread::Sleep(msec).                                                    *)
Sleep(ms) == <<[op |-> "sleep", ms |-> ms]>>

(* Event::Wait, Set, Reset; Wait gives up after ms.                            *)
Wait(a, ms) == <<[op |-> "wait", a |-> a, ms |-> ms, say |-> TRUE]>>
Set(a) == <<[op |-> "free", a |-> a]>>
Reset(a) == <<[op |-> "reset", a |-> a]>>

(* Semaphore::Wait and Post.  On Windows the kernel's count and the field      *)
(* current change one after the other, Post tests current before it adds.      *)
SemWait(os, a, ms) ==
    Wait(a, ms) \o IF os = "windows" THEN <<[op |-> "uncount", a |-> a]>> ELSE <<>>
KernelPost(a, i_num) ==
    <<[op |-> "fits", a |-> a, k |-> i_num]>>
    \o If(Is(Reg, TRUE),
          <<[op |-> "credit", a |-> a, k |-> i_num]>>
          \o IfElse(Is(Reg, TRUE), <<[op |-> "release", a |-> a, k |-> i_num]>>,
                                   <<[op |-> "uncredit", a |-> a, k |-> i_num]>>))
Post(os, a, i_num) ==
    IF os = "windows" THEN KernelPost(a, i_num)
    ELSE <<[op |-> "post", a |-> a, k |-> i_num]>>
SetMax(a, i_max) == <<[op |-> "setmax", a |-> a, k |-> i_max]>>
Current(os, a) ==
    <<[op |-> "field", a |-> a, f |-> IF os = "windows" THEN "cur" ELSE "n"]>>
Maximum(a) == <<[op |-> "field", a |-> a, f |-> "max"]>>
Type(a) == <<[op |-> "field", a |-> a, f |-> "type"]>>

(* SpinLock::Get: exchange, and sleep before the next try.                     *)
Spin(os, a) == <<[op |-> "spin", a |-> a, ms |-> IF os = "windows" THEN 1 ELSE 14]>>

(* ILock: what Get, TryGet and Free call for a lock of each class.             *)
Lock(os, type, a) == [os |-> os, type |-> type, a |-> a]
Get(l) == CASE l.type = "spinning" -> Spin(l.os, l.a)
            [] l.type = "semaphore" -> SemWait(l.os, l.a, Infinite)
            [] OTHER -> Wait(l.a, Infinite)
TryGet(l) == IF l.type = "semaphore" THEN SemWait(l.os, l.a, 0) ELSE Wait(l.a, 0)
Free(l) == IF l.type = "semaphore" THEN Post(l.os, l.a, 1) ELSE Set(l.a)

(* A mutex taken and freed without a look at what Get returned.                *)
Mutex(a) == Lock("any", "singlenter", a)
Enter(a) == <<[op |-> "wait", a |-> a, ms |-> Infinite, say |-> FALSE]>>
Guarded(a, steps) == Enter(a) \o steps \o Set(a)

(* ConditionVariable: cv is its cell, the semaphore semap and the event mrend  *)
(* follow it; lock is the caller's lock or <<>>.                               *)
CvWait_KeepsLock(cv, lock, ms) ==
    <<[op |-> "cventer", a |-> cv]>> \o Wait(Sub(cv, 1), ms)
    \o <<[op |-> "cvleave", a |-> cv]>> \o Set(Sub(cv, 2))
CvWait(cv, lock, ms) ==
    <<[op |-> "cventer", a |-> cv]>>
    \o (IF lock = <<>> THEN <<>> ELSE Set(lock))
    \o Wait(Sub(cv, 1), ms)
    \o <<[op |-> "cvleave", a |-> cv]>> \o Set(Sub(cv, 2))
    \o (IF lock = <<>> THEN <<>> ELSE Enter(lock))
WakeOne(cv) == <<[op |-> "wakeone", a |-> cv]>>
WakeAll(cv) == <<[op |-> "wakeall", a |-> cv], [op |-> "cvmeet", a |-> cv]>>

(* Thread: k is the number of the thread object.                               *)
Run(k) == <<[op |-> "run", k |-> k]>>
Join(k, ms) == <<[op |-> "join", k |-> k, ms |-> ms]>>
Kill(k) == <<[op |-> "kill", k |-> k]>>
Status(k) == <<[op |-> "status", k |-> k]>>
GetID(k) == <<[op |-> "tid", k |-> k]>>
JoinOrKill_NoKill(k, ms) == Join(k, ms)
JoinOrKill(k, ms) == Join(k, ms) \o If(Is(Reg, FALSE), Kill(k))
RunOk(k) == Run(k) \o Expect(IsNot(Reg, 0)) \o If(Is(Reg, 0), Leave)

(* PoolThread: the data the object keeps next to its thread k.                 *)
PoolData(n) ==
    [sig_in |-> [k \in 1 .. n |-> ManualResetEvent(FALSE)],
     sig_out |-> [k \in 1 .. n |-> ManualResetEvent(TRUE)],
     func |-> [k \in 1 .. n |-> TRUE],
     flag |-> [k \in 1 .. n |-> {}]]
On(k, bit) == Has(<<"flag", k>>, bit)
Hand(k) ==
    Reset(<<"sig_out", k>>) \o Mark(<<"flag", k>>, "ACTIVING") \o Set(<<"sig_in", k>>)
    \o GetID(k)
PoolRun(k) ==
    IfElse(Lacks(<<"flag", k>>, "STARTING"),
           Store(<<"flag", k>>, {"STARTING"}) \o Run(k) \o If(IsNot(Reg, 0), Hand(k)),
           IfElse(Lacks(<<"flag", k>>, "ACTIVING"), Hand(k), Return(0)))
PoolWait(k, ms) == Wait(<<"sig_out", k>>, ms)
PoolKill(k) ==
    Kill(k) \o If(Is(Reg, TRUE), Store(<<"flag", k>>, {"HAS_EXIT"}) \o Set(<<"sig_out", k>>))
PoolStatus(k) ==
    Status(k) \o If(IsNot(Reg, "Offline"),
                    IfElse(On(k, "ACTIVING"), Return("Running"), Return("Holding")))
PoolDestroy(k) ==
    Status(k) \o If(IsNot(Reg, "Offline"),
                    Mark(<<"flag", k>>, "DETACHED") \o Store(<<"func", k>>, FALSE)
                    \o Set(<<"sig_in", k>>))
PoolWorker(k, job) ==
    While(Lacks(<<"flag", k>>, "DETACHED"),
          Enter(<<"sig_in", k>>)
          \o IfElse(Is(<<"func", k>>, TRUE),
                    job \o Reset(<<"sig_in", k>>) \o Unmark(<<"flag", k>>, "ACTIVING")
                        \o Set(<<"sig_out", k>>),
                    Leave))
=============================================================================
