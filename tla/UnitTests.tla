----------------------------- MODULE UnitTests ------------------------------
(* The repository's own unit tests of its threads and synchronisation objects, *)
(* run over the objects in real time.  A test is a program of numbered threads *)
(* (see Library): thread 1 runs the PTest body, the others what the test       *)
(* starts.  Threads that can step do so in any order; time passes only when    *)
(* none can, to the next deadline, and a sleep or a timed wait lasts what was  *)
(* asked for plus some of Late.                                                *)
EXTENDS Library, FiniteSetsExt, TLC

CONSTANTS
    Programs,   \* the tests: system -> name -> program
    Tests,      \* the ones to run, as <<system, name>>
    Late        \* the milliseconds a thread may wake after its deadline

ASSUME LateAssumption == Late # {} /\ Late \subseteq Nat

VARIABLES
    test,       \* the test that runs
    thr,        \* its threads
    mem,        \* its cells: name -> sequence of values and objects
    failed      \* the tags of the expectations that did not hold
vars == <<test, thr, mem, failed>>

Table == Programs       \* a name of its own, so that TLC computes it once
Program == Table[test[1]][test[2]]

Idle == -1      \* no deadline, no stopwatch running
NewThread == [st |-> "new", pc |-> 1, rem |-> Idle, watch |-> Idle, reg |-> 0, tid |-> 0]
Begun == [NewThread EXCEPT !.st = "run"]
Threads == DOMAIN thr
Running(i) == thr[i].st = "run"

Init ==
    /\ test \in Tests
    /\ thr = [i \in DOMAIN Program.code |-> IF i = 1 THEN Begun ELSE NewThread]
    /\ mem = Program.mem @@ [tid_max |-> <<1>>]
    /\ failed = {}

AtEnd(i) == thr[i].pc > Len(Program.code[i])
Step(i) == IF AtEnd(i) THEN [op |-> "exit"] ELSE Program.code[i][thr[i].pc]
Cell(a) == mem[a[1]][a[2]]
Value(i, a) == IF a = Reg THEN thr[i].reg ELSE Cell(a)
Holds(i, c) ==
    LET x == Value(i, c.a)
    IN  CASE c.cmp = "=" -> x = c.v
          [] c.cmp = "#" -> x # c.v
          [] c.cmp = "<" -> x < c.v
          [] c.cmp = ">=" -> x >= c.v
          [] c.cmp = "has" -> c.v \in x
          [] c.cmp = "lacks" -> c.v \notin x
          [] c.cmp = "same" -> x = Cell(c.v)
          [] c.cmp = "differs" -> x # Cell(c.v)

(* Thread i passes its step and goes on k steps further, with v in its         *)
(* register; or it stays where it is for ms.                                   *)
Goto(i, k, v) ==
    thr' = [thr EXCEPT ![i].pc = @ + 1 + k, ![i].reg = v, ![i].rem = Idle]
Returns(i, v) == Goto(i, 0, v)
Go(i) == Returns(i, thr[i].reg)
Nap(i, ms) == \E late \in Late : thr' = [thr EXCEPT ![i].rem = ms + late]
Put(a, v) == mem' = [mem EXCEPT ![a[1]][a[2]] = v]
KeepMem == UNCHANGED <<mem, failed>>

(* Can thread i step now?  A call that waits can once it has what it waits for *)
(* or its deadline is reached; a timed call first has to set that deadline.    *)
GivesUp(i, ms) == thr[i].rem = 0 \/ (thr[i].rem = Idle /\ ms # Infinite)
Able(i, s) ==
    CASE s.op \in {"sleep", "poll", "spin"} -> thr[i].rem <= 0
      [] s.op = "wait" -> CanTake(Cell(s.a), i) \/ GivesUp(i, s.ms)
      [] s.op = "join" -> ~Running(s.k) \/ GivesUp(i, s.ms)
      [] s.op \in {"cventer", "wakeone", "wakeall"} -> Cell(s.a).owner = 0
      [] s.op = "cvmeet" -> Cell(Sub(s.a, 2)).n > 0
      [] OTHER -> TRUE
Ready(i) == Running(i) /\ Able(i, Step(i))

-----------------------------------------------------------------------------
(* Variables and control.                                                      *)
Assign(i, s) ==
    /\ \/ s.op = "store" /\ Put(s.a, s.v)
       \/ s.op = "save" /\ Put(s.a, thr[i].reg)
       \/ s.op = "add" /\ Put(s.a, Cell(s.a) + s.k)
       \/ s.op = "addto" /\ Put(s.a, Cell(s.a) + Cell(s.b))
       \/ s.op = "mark" /\ Put(s.a, Cell(s.a) \cup {s.v})
       \/ s.op = "unmark" /\ Put(s.a, Cell(s.a) \ {s.v})
       \/ s.op = "push" /\ Put(s.a, Append(Cell(s.a), s.v))
    /\ Go(i)
    /\ UNCHANGED failed

Read(i, s) ==
    /\ \/ s.op = "load" /\ Returns(i, Cell(s.a))
       \/ s.op = "return" /\ Returns(i, s.v)
       \/ s.op = "raise" /\ Returns(i, thr[i].reg + s.k)
       \/ s.op = "field" /\ Returns(i, Cell(s.a)[s.f])
       \/ s.op = "count" /\ Returns(i, Quantify(DOMAIN mem[s.a[1]],
                                                LAMBDA k : mem[s.a[1]][k] = s.v))
    /\ KeepMem

PopHead(i, s) ==
    /\ s.op = "pop"
    /\ Returns(i, Head(Cell(s.a)))
    /\ Put(s.a, Tail(Cell(s.a)))
    /\ UNCHANGED failed

Branch(i, s) ==
    /\ \/ s.op = "jump" /\ Goto(i, s.k, thr[i].reg)
       \/ s.op = "leave" /\ Goto(i, Len(Program.code[i]) - thr[i].pc, thr[i].reg)
       \/ s.op = "unless" /\ Goto(i, IF Holds(i, s.c) THEN 0 ELSE s.k, thr[i].reg)
    /\ KeepMem

Expects(i, s) ==
    /\ s.op = "expect"
    /\ failed' = failed \cup IF Holds(i, s.c) THEN {} ELSE {s.tag}
    /\ Go(i)
    /\ UNCHANGED mem

-----------------------------------------------------------------------------
(* Time.                                                                       *)
Sleeps(i, s) ==
    /\ s.op = "sleep"
    /\ IF thr[i].rem = Idle /\ s.ms > 0 THEN Nap(i, s.ms) ELSE Go(i)
    /\ KeepMem

(* while (!c) Sleep(ms).                                                       *)
Polls(i, s) ==
    /\ s.op = "poll"
    /\ IF Holds(i, s.c) THEN Go(i) ELSE Nap(i, s.ms)
    /\ KeepMem

Watches(i, s) ==
    LET t == thr[i].watch
    IN  /\ \/ s.op = "clock" /\ thr' = [thr EXCEPT ![i].pc = @ + 1, ![i].watch = 0]
           \/ /\ s.op = "elapsed"
              /\ thr' = [thr EXCEPT ![i].pc = @ + 1, ![i].watch = Idle,
                                    ![i].reg = s.lo < t /\ t < s.hi]
        /\ KeepMem

(* settimeofday moves the deadlines the library put on the wall clock.         *)
Waiting(i) == Running(i) /\ thr[i].rem > 0
ByTheWall(s) ==
    \/ s.op = "join" /\ ~TickClock("thread")
    \/ s.op = "wait" /\ ~TickClock(Cell(s.a).type)
SetsTime(i, s) ==
    /\ s.op = "settime"
    /\ thr' = [j \in Threads |->
                  IF j = i THEN [thr[i] EXCEPT !.pc = @ + 1]
                  ELSE IF Waiting(j) /\ ByTheWall(Step(j))
                  THEN [thr[j] EXCEPT !.rem = Max({0, @ - s.k})]
                  ELSE thr[j]]
    /\ KeepMem

(* Time goes on to the next deadline.                                          *)
Tick ==
    LET due == {thr[i].rem : i \in Threads} \ {Idle}
        past == Min(due)
    IN  /\ \A i \in Threads : ~Ready(i)
        /\ due # {}
        /\ thr' = [i \in Threads |->
                      [thr[i] EXCEPT !.rem = IF @ = Idle THEN Idle ELSE @ - past,
                                     !.watch = IF @ = Idle THEN Idle ELSE @ + past]]
        /\ UNCHANGED <<test, mem, failed>>

-----------------------------------------------------------------------------
(* Locks, events and semaphores.                                               *)

(* A wait takes the object when it can.  At its deadline it gives up; an event *)
(* is looked at once more then, a semaphore is not.                            *)
Waits(i, s) ==
    LET o == Cell(s.a)
        r(v) == IF s.say THEN v ELSE thr[i].reg
    IN  /\ s.op = "wait"
        /\ \/ CanTake(o, i) /\ Put(s.a, Taken(o, i)) /\ Returns(i, r(TRUE))
           \/ /\ ~CanTake(o, i) \/ (o.type = "semaphore" /\ thr[i].rem = 0)
              /\ IF thr[i].rem = Idle /\ s.ms > 0 THEN Nap(i, s.ms) ELSE Returns(i, r(FALSE))
              /\ UNCHANGED mem
        /\ UNCHANGED failed

(* SpinLock::Get sleeps a moment when the exchange found the lock taken.       *)
Spins(i, s) ==
    LET o == Cell(s.a)
    IN  /\ s.op = "spin"
        /\ \/ CanTake(o, i) /\ Put(s.a, Taken(o, i)) /\ Returns(i, TRUE)
           \/ ~CanTake(o, i) /\ thr' = [thr EXCEPT ![i].rem = s.ms] /\ UNCHANGED mem
        /\ UNCHANGED failed

Frees(i, s) ==
    /\ \/ s.op = "free" /\ Put(s.a, Freed(Cell(s.a)))
       \/ s.op = "reset" /\ Put(s.a, [Cell(s.a) EXCEPT !.n = 0])
    /\ Go(i)
    /\ UNCHANGED failed

Posts(i, s) ==
    LET o == Cell(s.a)
    IN  /\ s.op = "post"
        /\ Returns(i, Fits(o, s.k))
        /\ Put(s.a, IF Fits(o, s.k) THEN [o EXCEPT !.n = @ + s.k] ELSE o)
        /\ UNCHANGED failed

SetsMax(i, s) ==
    LET o == Cell(s.a)
    IN  /\ s.op = "setmax"
        /\ Returns(i, LegalMaximum(s.k))
        /\ Put(s.a, IF LegalMaximum(s.k) THEN [o EXCEPT !.max = s.k] ELSE o)
        /\ UNCHANGED failed

(* The Windows semaphore: what Wait and Post do to current, and the kernel's   *)
(* ReleaseSemaphore.                                                           *)
Kernel(i, s) ==
    LET o == Cell(s.a)
    IN  /\ \/ s.op = "uncount" /\ Put(s.a, IF thr[i].reg THEN [o EXCEPT !.cur = @ - 1] ELSE o)
              /\ Go(i)
           \/ s.op = "fits" /\ Returns(i, s.k > 0 /\ o.cur + s.k <= o.max) /\ UNCHANGED mem
           \/ s.op = "credit" /\ Put(s.a, [o EXCEPT !.cur = @ + s.k])
              /\ Returns(i, o.cur + s.k <= o.max)
           \/ s.op = "uncredit" /\ Put(s.a, [o EXCEPT !.cur = @ - s.k]) /\ Returns(i, FALSE)
           \/ s.op = "release" /\ Put(s.a, [o EXCEPT !.n = @ + s.k]) /\ Returns(i, TRUE)
        /\ UNCHANGED failed

-----------------------------------------------------------------------------
(* The condition variable.                                                     *)
CvEnters(i, s) ==
    /\ s.op = "cventer"
    /\ Put(s.a, [Cell(s.a) EXCEPT !.n = @ + 1])
    /\ Go(i)
    /\ UNCHANGED failed

(* The last waiter of a WakeAll goes on to set mrend.                          *)
CvLeaves(i, s) ==
    LET o == Cell(s.a)
    IN  /\ s.op = "cvleave"
        /\ Put(s.a, [o EXCEPT !.n = @ - 1])
        /\ Goto(i, IF o.n = 1 /\ o.all THEN 0 ELSE 1, thr[i].reg)
        /\ UNCHANGED failed

Supply(a, k, o) == [mem EXCEPT ![a[1]][a[2]] = o, ![a[1]][a[2] + 1].n = @ + k]

WakesOne(i, s) ==
    LET n == IF Cell(s.a).n > 0 THEN 1 ELSE 0
    IN  /\ s.op = "wakeone"
        /\ mem' = Supply(s.a, n, Cell(s.a))
        /\ Returns(i, n)
        /\ UNCHANGED failed

WakesAll(i, s) ==
    LET o == Cell(s.a)
    IN  /\ s.op = "wakeall"
        /\ IF o.n = 0 THEN Goto(i, 1, 0) /\ UNCHANGED mem
           ELSE /\ mem' = Supply(s.a, o.n, [o EXCEPT !.owner = i, !.all = TRUE])
                /\ Returns(i, o.n)
        /\ UNCHANGED failed

CvMeets(i, s) ==
    /\ s.op = "cvmeet"
    /\ mem' = [mem EXCEPT ![s.a[1]][s.a[2]] = [@ EXCEPT !.owner = 0, !.all = FALSE],
                          ![s.a[1]][s.a[2] + 2].n = 0]
    /\ Go(i)
    /\ UNCHANGED failed

-----------------------------------------------------------------------------
(* Threads.                                                                    *)
Runs(i, s) ==
    LET tid == mem.tid_max[1]
    IN  /\ s.op = "run"
        /\ IF Running(s.k) THEN Returns(i, 0) /\ UNCHANGED mem
           ELSE /\ thr' = [thr EXCEPT ![s.k] = [Begun EXCEPT !.tid = tid],
                                      ![i].pc = @ + 1, ![i].reg = tid]
                /\ Put(S("tid_max"), tid + 3)
        /\ UNCHANGED failed

Joins(i, s) ==
    /\ s.op = "join"
    /\ IF ~Running(s.k) THEN Returns(i, TRUE)
       ELSE IF thr[i].rem = Idle /\ s.ms > 0 THEN Nap(i, s.ms) ELSE Returns(i, FALSE)
    /\ KeepMem

(* The killed thread ends where it stands: what it holds stays held.           *)
Kills(i, s) ==
    LET k == s.k
    IN  /\ s.op = "kill"
        /\ thr' = [thr EXCEPT ![k].st = IF Running(k) THEN "done" ELSE @, ![k].rem = Idle,
                              ![i].pc = @ + 1, ![i].reg = Running(k)]
        /\ KeepMem

Tells(i, s) ==
    /\ \/ s.op = "status" /\ Returns(i, IF Running(s.k) THEN "Running" ELSE "Offline")
       \/ s.op = "tid" /\ Returns(i, thr[s.k].tid)
    /\ KeepMem

Exits(i, s) ==
    /\ s.op = "exit"
    /\ thr' = [thr EXCEPT ![i].st = "done"]
    /\ KeepMem

(* The test has returned and what is left of its threads is stuck or ended.    *)
Over ==
    /\ thr[1].st = "done"
    /\ \A i \in Threads : ~Ready(i) /\ thr[i].rem = Idle
    /\ UNCHANGED vars

ThreadStep(i, s) ==
    /\ \/ Assign(i, s) \/ Read(i, s) \/ PopHead(i, s) \/ Branch(i, s) \/ Expects(i, s)
       \/ Sleeps(i, s) \/ Polls(i, s) \/ Watches(i, s) \/ SetsTime(i, s)
       \/ Waits(i, s) \/ Spins(i, s) \/ Frees(i, s) \/ Posts(i, s) \/ SetsMax(i, s) \/ Kernel(i, s)
       \/ CvEnters(i, s) \/ CvLeaves(i, s) \/ WakesOne(i, s) \/ WakesAll(i, s) \/ CvMeets(i, s)
       \/ Runs(i, s) \/ Joins(i, s) \/ Kills(i, s) \/ Tells(i, s) \/ Exits(i, s)
    /\ UNCHANGED test

Next ==
    \/ Tick
    \/ Over
    \/ \E i \in {j \in Threads : Ready(j)} : \E s \in {Step(i)} : ThreadStep(i, s)
Spec == Init /\ [][Next]_vars /\ WF_vars(Next)

-----------------------------------------------------------------------------
(* The thread in whose frame the cell a lies: 0 for static data and the heap,  *)
(* 1 for the locals of the PTest.                                              *)
Home(a) == IF a[1] \in DOMAIN Program.home THEN Program.home[a[1]] ELSE 1

Uses(i, ops) == Running(i) /\ ~AtEnd(i) /\ Step(i).op \in ops
UsesCell(i) == Running(i) /\ ~AtEnd(i) /\ "a" \in DOMAIN Step(i) /\ Step(i).a # Reg

\* Types.  Of the objects, whatever the threads have done to them: a lock or an
\* event is free once at most, and a recursive lock has an owner as long as it is
\* held.
TypeOK ==
    /\ test \in Tests
    /\ \A i \in Threads :
          /\ thr[i].st \in {"new", "run", "done"}
          /\ thr[i].pc \in 1 .. Len(Program.code[i]) + 1
          /\ thr[i].rem >= Idle /\ thr[i].watch >= Idle
          /\ Uses(i, {"wait", "spin", "free"}) =>
                LET o == Cell(Step(i).a)
                IN  CASE o.type = "recursive" -> o.n >= 0 /\ (o.n > 0 <=> o.owner # 0)
                      [] o.type = "semaphore" -> o.n >= 0
                      [] OTHER -> o.n \in {0, 1}
    /\ failed \subseteq {"expected", "lost update", "idle", "order"}

\* What the unit tests EXPECT of the library holds in every order of their
\* threads' steps and with every lateness: what each call returns, whom a wakeup
\* releases, how long a wait lasts when the wall clock is moved, and that no
\* update under a lock is lost.  Left out are three expectations the library does
\* not owe its tests: an update without a lock is lost (lock_unittest.cpp:539),
\* threads are woken in the order in which they waited (condvar_unittest.cpp:356-362)
\* and a line that has queued itself has set idle_now (threads_unittest.cpp:303, 334).
ExpectationsHold == "expected" \notin failed

\* No test hangs: neither a wakeup nor the end of a thread is lost on the way to
\* the PTest body, which waits without limit for semaphores, condition variables,
\* threads and counters.
EveryTestEnds == <>(thr[1].st = "done")

\* TestCalculation returns once every thread has counted itself, which each does
\* before it frees the exit lock in the test's frame (lock_unittest.cpp:515-517).
FreesLate(i) == Step(i).a = S("exit_lock")

\* A test does not return, nor does a thread that keeps data for others, while a
\* thread is still going to use what lies in its frame; apart from FreesLate.
NothingUsedAfterReturn ==
    \A i \in Threads :
        UsesCell(i) =>
            Home(Step(i).a) = 0 \/ Running(Home(Step(i).a)) \/ FreesLate(i)
=============================================================================
