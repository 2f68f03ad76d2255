# Prot: the threads and locks, specified

TLA+ specifications of the concurrent core of the Prot library: semaphores,
events, the condition variable, threads, pool threads, the parallel unit test
runner, and the library's own unit tests as programs over all of these. TLC
checks each on small instances; TLAPS proves the safety properties of all of
them but the unit tests, and that semaphores, events, condition variables, pool
threads and the test runner implement what they promise their callers, for every instance. All
paths are relative to the repository.

## 1. The system

| Part | Source | State | Operations | Hard because |
|---|---|---|---|---|
| Semaphore | `system/synchronization/semaphore.cc` | `current`, `maximum`, a pthread mutex and condition | `Wait`, `Get`, `TryGet`, `Post`, `Free`, `SetMax` | unlocked reads in `Post`, `SetMax` without the lock, one signal for one token, a failed signal taken back, timeouts that eat signals, Int32 |
| Events | `system/synchronization/event.cc` | `state`, manual or auto reset, mutex and condition | `Wait`, `Set`, `Reset` | barging waiters, late waiters, errors of `pthread_cond_wait` |
| Condition variable | `system/synchronization/condvar.cc` | a semaphore, an event, two mutexes, `wait_count`, `wait_flags` | `Wait`, `WakeOne`, `WakeAll` | a rendezvous between `WakeAll` and its last waiter, waits that expire meanwhile |
| Thread | `system/thread_posix.cpp` | `THREAD_DATA`: id, pthread, flags, mutex, condition | `Run`, `Wait`, `Kill`, `Status`, destructor, exit callback | who frees the data, cancellation against natural exit, unlocked reads in `Run` |
| PoolThread | `system/pthread.cc` | `PoolThreadData`: two events, function, argument, flag word | `Run`, `Wait`, `Kill`, `Status`, destructor, worker loop | no lock at all: order comes from the two events; a `Kill` that returns before the worker has ended |
| Unit test runner | `test/unittest.cpp` | four lists over one link field, counters, a semaphore, two locks | `AddTestCase`, `RunTest`, `MultiThreadTest`, `SingleThreadTest`, workers | cases move between threads, frame-local data, thread creation that fails |
| Locks | `system/synchronization/lock_posix.cpp` | pthread mutexes, a spin word | `Get`, `TryGet`, `Free` | inline assembly |
| Windows semaphore | `system/synchronization/semaphore.cc`, Windows half | a kernel object and `current` beside it | `Wait`, `Post` | the two change one after the other |
| Unit tests of threads and locks | `system/threads_unittest.cpp`, `system/synchronization/*_unittest.cpp` | locals of the test's frame, static data | the PTests and their thread functions | many threads, timed waits, frames that go away |
| Other Windows back ends, time, console, system information, debug, base, struct, build scripts | the rest | none or one handle | wrappers, conversions | - |

How they interact. `ConditionVariable` is built from a `Semaphore`, a
`ManualResetEvent` and two recursive mutexes. `PoolThread` derives from
`Thread` and talks to its worker through two `ManualResetEvent`s. The test
runner creates `Thread`s whose workers share two mutexes and post a
`Semaphore` when they leave. Everything else is called without keeping state.

What makes each part correct:

* Semaphore: no token is created or lost, no sleeper is left beside a token, a
  `Post` never passes the maximum that its locked test has read.
* Event: one `Set` of an auto-reset event releases one wait; a set event never
  leaves a waiter behind.
* Condition variable: the count of waiters is exact, `WakeAll` leaves nobody
  behind, uses the rendezvous once, and returns.
* Thread: `THREAD_DATA` is freed once nobody uses it and not before; a thread
  is not run twice at a time; sleepers in `Wait` and `Kill` are woken.
* PoolThread: an accepted job runs exactly once, with its own argument; `Wait`
  says TRUE only for an idle worker; the destructor ends the worker. All of this up to
  a `Kill` that hits a job or returns early (section 3).
* Test runner: every selected case runs once and no other, standalone ones alone; the summary lists
  the failed ones; the run ends.
* Unit tests: what they expect holds in every order of their threads' steps,
  each of them ends, and none returns while a thread still uses its frame.

The hazards behind these properties are listed at their lines in
`PROJECT.json`.

## 2. The modules

| Module | What it is | Configurations |
|---|---|---|
| `CountingSemaphore` | abstract: what a semaphore promises its callers | - |
| `Semaphore`, `MCSemaphore` | `semaphore.cc`, POSIX half | `MCSemaphore`, `MCSemaphoreLive`, `MCSemaphoreOverflow` |
| `SignalState` | abstract: what an event promises | - |
| `Event`, `MCEvent` | `event.cc`, POSIX half | `MCEvent` |
| `CountedWakeups` | abstract: what a condition variable promises | - |
| `CondVar`, `MCCondVar` | `condvar.cc` | `MCCondVar` |
| `Thread`, `MCThread` | `thread_posix.cpp` | `MCThread`, `MCThreadWait` |
| `JobSlot` | abstract: what a pool thread promises | - |
| `PoolThread`, `MCPoolThread` | `pthread.cc` | `MCPoolThread`, `MCPoolThreadStale`, `MCPoolThreadFailed` |
| `TestSuite` | abstract: what the parallel unit test promises | - |
| `TestRunner`, `MCTestRunner` | `unittest.cpp` | `MCTestRunner` |
| `SemaphoreProofs`, `EventProofs`, `CondVarProofs`, `ThreadProofs`, `PoolThreadProofs`, `TestRunnerProofs` | theorems about the six | - |
| `SyncObjects` | every synchronisation object as one cell: construction, taking, freeing | - |
| `Library` | every call of the library as the steps a thread takes | - |
| `LockTests`, `CondVarTests`, `ObjectTests`, `ThreadTests` | the five `*_unittest.cpp` files as programs of such steps | - |
| `UnitTests`, `MCUnitTests` | the machine that runs the programs in real time | `MCUnitTests` |

**Steps.** A step is either a critical section or an access the code makes
without a lock. A critical section is one step when everything it touches is
touched under the same mutex only, so that nobody can see it half done; where
the code reads or writes a guarded field without the mutex (the test at the head
of `Post`, `SetMax`, `Run`'s look at the exit flag, all of `PoolThreadData`, the
runner's break flag) that access is a step of its own, and a critical section
such an access can look into is split (`MarkExit` and `Broadcast` in `Thread`; the test,
the addition and the signal of `Post` in `Semaphore`).
In `PoolThread` even `flag |= x` is a read and a write.

**Composition.** `Semaphore` and `Event` are shown to implement
`CountingSemaphore` and `SignalState`, in which each call takes effect at one
instant; `CondVar` to implement `CountedWakeups`, `PoolThread` `JobSlot`, and `TestRunner`
`TestSuite`. `CondVar`, `PoolThread` and `TestRunner` use semaphores and events as their
promises describe them: one step for a call, a blocking wait as a step that is not
enabled. `PoolThread` has of its base class what `Thread` has: the id, a handle that a failed
`pthread_create` may leave, a `Run` that returns 0 while the exit of the last thread is not
marked, a `Kill` that sleeps once, and a `Status` that looks at the handle and the mark.

**Semaphore.** `current`, `maximum` are the fields; `call` and `pc` place each
thread in `Wait` (infinite, timed, try, or the one-second polling that replaces
a failing clock) or `Post`. The critical section of a wait is one step. That of `Post` is
three: the test (`PostTests`, line 215), the addition (`PostAdds`, 216) and the signal
(`PostSignals`, 217-220) or, if that fails, the undo (`PostUndoes`, 222). `MutexFree` says that
no `Post` is between them. `SetMax`, which takes no lock, may come between the test and the addition,
and the unlocked test of another `Post` may read a count that is going to be taken back.
`granted` remembers the maximum that the test has read, because the maximum in force when the
count grows may be a smaller one. `Rousable` is the set of sets of threads a signal
or a broadcast may unblock. POSIX allows a timed wait that expires to consume
a signal all the same; `SwallowingTimeout` does this, and `swallowed` counts
how often. `NoLostWakeup` is therefore `current <= |Woken| + swallowed` beside
a sleeper, once no `Post` is about to signal: each swallowed signal can strand one token until the next `Post`.
`Event::Wait` looks at the state again after a timeout (`event.cc:188`), and needs
no such term. `Int32` wraps at the width of the type, so that
`PostRefusesExcess` can fail. `WaitMayFail` and `SignalMayFail` say whether the calls on the
condition variable may return an error.

**Event.** `pc` distinguishes a waiter woken from one whose time is up (`expired`),
because the latter still takes the state if it finds it set.

**CondVar.** One place per line of `Wait`, `WakeOne` and `WakeAll`; `mtxi` is a
mutex with an owner because it is held across blocking calls, `mtxd` is not
needed as a variable. The caller's lock may be absent. A token that `WakeOne`
posts for a waiter that expires stays in the semaphore and wakes a later wait
at once. `CountedWakeups` keeps of all this the caller's lock, a counter of wakeups that have been
granted and not been taken, and who is present between joining and leaving: a
waiter joins before it gives up the lock, nobody joins while a waker is between
counting and having served those it counted, no wait returns TRUE without a wakeup,
and `WakeAll` stays until everybody it counted has left.

**Thread.** One object and up to `MaxRuns` threads it creates. `thread` holds
which thread the `pthread_t` names; `Dangling` if a failed `pthread_create` left
a value in it. `Wait` and `Kill` sleep once, as the code does, and `Wake`
believes whatever woke them. `CancelLate` ends a thread whose function has
returned before it has marked its exit. The owner destroys the object when
no other call is in progress.

**PoolThread.** `pc` walks the owner through `Run`, `Kill` and the destructor, `wpc`
the worker through its loop. `disciplined` chooses, in the initial state, an
owner that calls `Run` only after a `Wait` that returned TRUE, which is how
`system/threads_unittest.cpp:311-313` uses the class, or one that does not.
The handle names a worker, or one that has marked its exit, or nothing: `dangling` is a
handle that a failed `pthread_create` has left (`thread_posix.cpp:169`), which `Status`
takes for a running thread. `Kill` cancels the worker and sleeps once (`thread_posix.cpp:236-237`): it goes on
when the worker has died (`WDies`) or when it wakes spuriously (`KillWakesEarly`), and in that
case the worker dies later, wherever it is by then, and a `Run` in between may get 0 from
`Thread::Run` (`CreateRefused`). `accepted`, `runs`, `done`, `dirty` and `early` are history:
`dirty` says that a `Kill` has left `sig_in` set, `early` that one has returned although its
worker still existed; `Orderly` is neither. A write to deleted data is undefined; here it
has no effect. `Kill` is assumed not to hit the worker inside an event's own
critical section. `JobSlot` has one slot instead of the flag word, the argument and
`sig_in`: free, pending, running, ended, cleared and free again, at each place what a
`Run`, a `Wait`, a `Kill` or a destructor may find. The slot becomes free before the
worker raises the signal (`late`), and a job may be dropped by the destructor; both are the
code's. `Phase` reads the slot off the worker's place and `sig_in`. Once a `Kill` has hit a
job or returned early nothing is promised (`spoilt`).

**TestRunner.** The flags of the cases are chosen at the start, `AddTestCase`
registers the cases one by one, and `RunTest` starts with the list that results.
`Selected` says which cases TESTMEONLY leaves, whatever the order. The lists are sequences. What a test function leaves behind is one
of four outcomes, chosen when it returns: a failed `EXPECT` (`fail`), a failed
`ASSERT` (`break`), the same after `T_IGNORE`, or success. The loop that
creates threads moves its index up and its bound down, as the code does. `TestSuite` knows no
lists, workers or posts: it has the cases in execution, what has become of the others, and one bit that
says that the run has been stopped; the number of failures and their list come when
nothing is executed any more. A case counts as started from when its thread has found the break flag clear,
because a case that has passed that test is executed although another worker breaks the run meanwhile.
`OnlySelected` is not an invariant of the run: `TestSuite` starts selected cases only.

**UnitTests.** The unit tests are where all parts meet: a `PTest` starts
threads, waits for them with limits, hands them work through semaphores, events
and condition variables, and sleeps in between. Each is a *program*: the cells
its variables and objects live in, a sequence of steps for the `PTest` body and one for
each thread object. A step is one access to a variable or one call of the
library that takes effect at once or blocks; the routines of the library that
take several (a condition variable's `Wait`, all of `PoolThread`, the Windows
`Post`) are the sequences of steps in `Library`, written from the same lines as the
detailed modules. `SyncObjects` says what a step does to an object, and thereby uses
the events and semaphores as `Event` and `Semaphore` are shown to implement
them. `thr[i]` is a thread's place, what the last call returned (`reg`), how long
it still sleeps (`rem`) and its stopwatch.

Time is the discrete-event kind: threads that can step do so in any order, which
takes no time, and when none can the clock moves to the next deadline. A sleep
or a timed wait lasts what was asked for plus an element of `Late`. This is what
the tests themselves assume when they expect a call to last "about 250 ms", and no more:
which of two threads that are ready comes first is open, and with `Late = {0, 15}`
each deadline may be missed by 15 ms on its own. `settimeofday`
in the tests of the timed waits moves the deadlines on the wall clock; those of
this library are on the monotonic clock because the constructors set
`SDFLAG_TICKCLOCK` (`TickClock`).

The code's numbers of threads, rounds and items are scaled down, each where it is
named: `CalcThreads` 2 for 10, `CalcRounds` 1 for 3000 and `CalcAdds` 1 for 100
additions under a lock, `TMTWTCOUNT` 4 for 6 waiters of `MultiTimeWaitOne`, two threads
and one kind of wait at a time for the 100 of the tests with the moved clock, `CvItems` 3 for 10, 60 and 120, `Producers` 2
for 16 (one thread each for 62), `Width` 1 for 4, `NcNums` 2 for 10000, `NumOfLines` 2
for 8, `SumSteps` 3 for 100.

What differs from the detailed modules: `Run` creates the thread and stores its id
in one step and never fails (`Thread` splits and fails it); the sections under the
condition variable's `mtxd` are one step with their neighbours, and the update of
`PoolThread`'s `flag` is one step (`CondVar` and `PoolThread` split them); calls do not
fail. Three expectations are recorded and left out of `ExpectationsHold`,
because the library does not promise them and a legal schedule breaks them: that an update
*without* a lock is lost (`lock_unittest.cpp:539`), that waiters are woken in
the order in which they came (`condvar_unittest.cpp:356-362`), and that a line which
has queued itself has set `idle_now` (`threads_unittest.cpp:303, 334`).
`NothingUsedAfterReturn` exempts one thread, `FreesLate`: in `TestCalculation` a
thread counts itself and frees the lock of the frame afterwards
(`lock_unittest.cpp:515-517`).

## 3. The runs

| Run | Distinct states | Shows |
|---|---|---|
| `semaphore` | 871,000 | type, lost wakeups, maximum; failing waits and signals, spurious wakeups, two swallowed signals, `SetMax` at any time, polling |
| `semaphore_live` | 231,000 | refinement of `CountingSemaphore` and liveness; signals may fail; without `SetMax` and swallowing |
| `semaphore_overflow` | violation | `Post` accepts a sum past Int32 |
| `event` | 45,000 | refinement of `SignalState`, liveness; both kinds of event, with failing calls |
| `condvar` | 597,000 | three waiters, two wakers, one thread that is both: refinement of `CountedWakeups`, count, rendezvous, `WakeAll` returns |
| `thread` | 32,000 | three runs, two callers, spurious wakeups, late cancellation, failing creation |
| `thread_wait` | violation | `Wait` returns True for a thread that has not ended |
| `pool` | 595,000 | refinement of `JobSlot`; both kinds of owner, three jobs, kills that wait and kills that return early, failing creation with and without a handle left, destruction |
| `pool_stale` | violation | `Wait` returns True while a job executes |
| `pool_not_created` | violation | `Wait` returns False although no thread exists |
| `test_runner` | 113,000 | refinement of `TestSuite`; three cases with any flags, registered and run; two workers, both modes, all outcomes, failing creation |
| `unit_tests` | 424,000 | all PTests of the five files on POSIX, and on Windows those whose steps are others there |

**Bounds.** Three threads suffice for the semaphore and the event: a poster, a
sleeper, and one that barges in between. The semaphore's `MAXIMUM_COUNT` of 3
and `IntMax` of 5 keep the order 2109876543 < 2147483647 < 2 * 2109876543 of
the real ones, on which the overflow depends. `MaxSwallowed` (2) and `PollSeconds`
bound counters. `SemMax = 8` in `CondVar` leaves room for every token that can
be outstanding. Three runs of a `Thread` let a sleeper of the first meet the
broadcast of the second and the creation of the third; `TidModulus` (64) is
larger than the ids drawn. Three jobs let a job be killed, run again and displaced. Two
workers and three cases let a case be lost between two threads in every list, and
put a TESTMEONLY case first, between and last;
two is also the least `Lines` the code can have. In `unit_tests`, two threads beside the
body are the least that can be in each other's way and three or four appear where a
test is about whom a wakeup chooses; `Late` stays below the margins the tests leave themselves
(a lateness of 17 ms in each of three sleeps of 50 ms breaks `MultiTimeWaitOne`).
`PoolThread_TestPoolParallelCalc` runs on POSIX only, being the largest.

**Deadlock** is checked, except in `Thread`, `PoolThread`, `TestRunner` and
`UnitTests`: there the runs are bounded, objects are destroyed and the program
ends, so the system does stop. A test that hangs is found by `EveryTestEnds`.

**Fairness.** Weak fairness of what a scheduled thread does without being blocked,
and of nothing else: nobody has to call, to time out or to wake spuriously. In `Semaphore`
the fairness of a thread's steps is strong, because between the steps of a `Post` the
mutex is held: a thread that finds it free again and again gets it in the end. `PoolThread`
and `TestRunner` also assume that job
and test functions return, and `PoolThread` that a cancellation takes effect (`WF_vars(WDies)`): the
worker's loop is full of cancellation points. `Thread` assumes neither of a function, except when the thread is
cancelled. In `CondVar`, `SemTake` and `Meet` are fair because
`Semaphore!TokensReachWaiters` and `Event!SignalsReachWaiters` say that a token or
a signal that stays is taken; nothing is assumed of who obtains `mtxi`.
`UnitTests` assumes only that time goes on and something that can step does (`WF_vars(Next)`).

**What the violations say.**

* `semaphore_overflow`: line 211 adds in Int32; `semaphore.hh:28-29` promises that a sum
  larger than the maximum is refused.
* `thread_wait`: `thread_posix.cpp:185` waits once, without a loop; `thread.hh:24-25`
  promises False while the thread exists.
* `pool_stale`: the worker sets `sig_out` after it has given up ACTIVING, and undoes the
  reset of a `Run` in between; an owner that waits first never meets this (`WaitTrueMeansIdle`).
* `pool_not_created`: STARTING survives a failed creation; `pthread.hh:22-23` promises TRUE
  "even if thread not created".

More things the models show, for which no document makes a promise, are
exceptions inside the properties:

* a `SetMax` between the test and the addition of a `Post` (`semaphore.cc:215-216`) leaves
  the count above the maximum (`PostWithinMaximum`);
* a `PoolThread` that is run again after a `Kill` in the middle
  of a job executes that job a second time and can outlive its destructor (`dirty`);
* a `PoolThread::Kill` that wakes spuriously returns while the worker is still there. The `Run` after it may get
  0 from `Thread::Run` with STARTING set; the next one then answers with the old id although there is no worker:
  its job is never executed and an infinite `Wait` after it never returns (`early`, in `JobsRunOnce`,
  `WaitTrueMeansIdle`, `JobCompletes`, `WaitReturns`, `ImplementsJobSlot`). The data of
  such a worker may never be deleted (`DestroyEndsWorker`);
* a failed `pthread_create` may leave a handle that names no thread; the destructor
  takes it for a running worker and nobody deletes the data (`dangling`, in `DestroyEndsWorker`);
* the test runner waits for ever if one `Thread::Run` fails
  (`RunTerminates`; the fallback for `ncore_lines == 0` is never reached);
* a `Kill` that meets the natural end of the thread can sleep for ever, as can one on a handle
  that names no thread (`KillReturns`);
* nobody frees the `THREAD_DATA` of an object that was never run, whose last `Run` created no thread, or
  whose thread a cancellation hit between the return of its function and its broadcast (`NothingLeaks`).

## 4. The proofs

They hold for every set of threads (finite where sleepers or waiters are
counted), every number of runs, jobs, cases and workers, and all values of the
other constants that the named assumptions admit. In each of the modules an
inductive invariant (`TypeOK` with another invariant, or `IInv`) is
shown to hold initially and to survive every step, one lemma per action or per
group of actions that disturb the same conjuncts, and the theorems follow
from it.

| Theorem | States | Assumes besides the constants' assumptions |
|---|---|---|
| `SemaphoreProofs!TypeCorrect` | `0 <= current <= MAXIMUM_COUNT`, types and places | `AmountsFitInt32` |
| `SemaphoreProofs!NoWakeupIsLost` | `NoLostWakeup` | `AmountsFitInt32` |
| `SemaphoreProofs!PostStaysWithinMaximum` | `PostWithinMaximum` | `AmountsFitInt32` |
| `SemaphoreProofs!ExcessIsRefused` | `PostRefusesExcess` | `AmountsFitInt32` |
| `SemaphoreProofs!ImplementsPromise` | `ImplementsCountingSemaphore` | `AmountsFitInt32`, `SetMaxArgs = {}` |
| `EventProofs!TypeCorrect`, `NoWaiterIsForgotten` | `TypeOK`, `NoWaiterForgotten` | - |
| `EventProofs!ImplementsPromise` | `ImplementsSignalState` | - |
| `CondVarProofs!TypeCorrect`, `CountIsExact` | `TypeOK`, `CountExact` | - |
| `CondVarProofs!NobodyIsLeftBehind`, `RendezvousStaysClean`, `WakeAllHasTokens` | `NobodyLeftBehind`, `RendezvousClean`, `WakeAllSupplies` | - |
| `CondVarProofs!ImplementsPromise` | `ImplementsCountedWakeups` | - |
| `ThreadProofs!TypeCorrect`, `FunctionRunsAlone` | `TypeOK`, `OneAtATime` | `IdsDoNotWrap` |
| `ThreadProofs!DataIsFreedLast`, `DataIsFreed` | `DataOutlivesUsers`, `NothingLeaks` | `IdsDoNotWrap` |
| `ThreadProofs!SleepersAreWoken` | `SleepersAreExpected` | `IdsDoNotWrap` |
| `ThreadProofs!WaitTrueMeansExited` | `WaitFalseWhileThreadExists` | `IdsDoNotWrap`, `~SpuriousWakeups` |
| `PoolThreadProofs!TypeCorrect`, `JobsAreRunOnce` | `TypeOK`, `JobsRunOnce` | - |
| `PoolThreadProofs!WaitMeansIdle`, `RunIsAccepted` | `WaitTrueMeansIdle`, `DisciplinedRunAccepted` | - |
| `PoolThreadProofs!ImplementsPromise` | `ImplementsJobSlot` | - |
| `PoolThreadProofs!WaitersAreAnswered` | `early \/ WaitsAreAnswered` | - |
| `PoolThreadProofs!WaitFalseMeansThread` | `early \/ WaitTrueWithoutThread` | `~CreateMayFail` |
| `TestRunnerProofs!TypeCorrect`, `NoCaseTwice`, `StandaloneRunsAlone`, `TestMeOnly` | `TypeOK`, `RunsOnce`, `StandaloneAlone`, `OnlySelected` | - |
| `TestRunnerProofs!NoCaseLost`, `SummaryIsComplete`, `FrameOutlivesWorkers` | `NothingSkipped`, `SummaryComplete`, `UtdOutlivesWorkers` | - |
| `TestRunnerProofs!ImplementsPromise` | `ImplementsTestSuite` | - |
| `TestRunnerProofs!NoPostMissing` | `PostsSuffice` | - |

Four of the theorems complement a violation: `ExcessIsRefused`, `WaitTrueMeansExited`,
`WaitFalseMeansThread` and `WaitMeansIdle` say that what the runs `semaphore_overflow`,
`thread_wait`, `pool_not_created` and `pool_stale` show happens only by Int32 overflow,
by a spurious wakeup, by a failed creation or a `Kill` that returned early, and to an owner that
does not wait before it runs (or whose `Kill` has hit a job or returned early). `SleepersAreWoken`, `WaitersAreAnswered` and `NoPostMissing`
are the safety halves of the liveness properties `KillReturns`, `WaitReturns` and
`RunTerminates`: apart from the exceptions these name, nobody is blocked without somebody who is
going to release it.

**Semaphore.** `AmountsFitInt32`: each amount posted, added to `MAXIMUM_COUNT`, fits
Int32. Without it the count can become negative, as the run
`semaphore_overflow` shows.

The invariant is `TypeOK`, `Section` and `Restorable`. `TypeOK` records what each place of a
thread knows (a thread about to add has a positive amount of `PostAmounts`, and so
on). `Section` says what the mutex gives: `OneHolder`, one `Post` at a time is between its test and
its signal, and `Granted`, what it adds fits the maximum that it has read; this part
holds however sums wrap. `Restorable` says that what has been added is still there when it
is taken back, because no wait gets the mutex in between: without it a failed signal could make the count negative.
`PostStaysWithinMaximum` and `ExcessIsRefused` are read off `Granted`; the first names the one exception that
`SetMax` makes, by comparing `granted` with the maximum in force. `NoWrap`, `PostAddsExactly` and `PostUndoesExactly`
say that under `AmountsFitInt32` a `Post` adds what it was given, and takes back the same.

`NoLostWakeup` is not inductive, since a count between an addition and its signal is not yet
covered: `Covered` adds that without the amount under way it is. A step that signals
either wakes all sleepers, or has added one token and moves one sleeper into `Woken`;
a step that takes a thread out of `Woken` takes a token with it or finds none;
a timeout that swallows a signal counts it; an undo returns to a count that was covered. The
lemmas `WokenLoses` and `WokenGains` do the arithmetic of cardinalities.

The refinement maps a thread to its pending call. Only `Post` needs thought. Its
unlocked test reads the count in one step and compares in the next, and a `Post`
whose comparison will fail has failed when it read, for in the next step the
count may already be lower. The mapping therefore calls such a `Post` finished (`Refused`); `PostReads` is the
abstract `Refuse` or a stutter, `PostRefuses` a stutter. And a `Post` takes effect with its addition
where the signal cannot fail (`Settled`); where it can, with its signal, so that `countBar` leaves out
an amount that may still be taken back, and an undo is a refusal (`CountBars`, `CountKept`). An unlocked test that
reads a count including such an amount may refuse a `Post` that would have fitted, which is why
`CountingSemaphore` may refuse any `Post` if the signal may fail. All this needs a maximum that
does not change between the tests and the addition (`RInv`), hence `SetMaxArgs = {}`. `Others`
and `OneThreadMoves` say that a step of one thread moves only its own entry of the mapping.

**Event.** `NoWaiterForgotten` is inductive with `TypeOK`. In the
refinement, sleeping, waking and running out of time are stutters, and every
other action maps to the abstract one of the same meaning with the identity as
mapping.

**Condition variable.** None of the properties is inductive alone, since they
hang on each other through the rendezvous. The invariant `IInv` adds to them who owns
`mtxi` (`OwnsInner`), during which places of `WakeAll` the flag and the event are set
(`FlagInPhase`, `EventInPhase`), that the last waiter is the only one to set the event and does so for a
`WakeAll` that waits for it (`NotifyOnce`), and that whenever the
event is set or about to be, nobody is counted any more (`LastHasLeft`). The counts are kept by
`NextTypeOK`, the phases by `NextPhases`, the tokens by `NextWakeAllSupplies`: `WakeAll`
posts as many tokens as it has counted, or is refused because there are
already more than there are threads (`EnoughTokens`, which is where `SemMax >= 2 *
|Threads|` is used), and each waiter that leaves the semaphore takes at most one.

In the refinement `PlaceOf` maps the places of a thread in the code to those of
`CountedWakeups`, and a step moves one thread's entry (`PlaceMoves`). Taking or giving up `mtxi`,
the event, the flag and the last waiter's notification are stutters. `PresentCounted` turns `wait_count` into the
number of those present, from which the test at the head of `WakeOne` and the sweep of
`WakeAll` get their abstract meaning; `PostSupplies` says that a `Post` that is refused for
want of room leaves at least as many tokens as it was asked for, which is what `Supply` allows.
`OwnerSettled` says why a newcomer cannot join between a waker's count and its post: both hold `mtxi`.
`LocalsFresh` is the one addition to the invariant: what a thread's last call left in its locals is cleared
before the next begins. `WakeAllHasTokens` has no run of its own; the run checks the refinement.

**Thread.** The ids come from a counter that a run raises by 3 and that wraps at 2^32
(`TidModulus`); an id of 0 would say that there is no thread. `IdsDoNotWrap` says that the
ids of all runs fit below the modulus, which a program leaves after some 1.4
thousand million runs. Without it `Run` could create a second thread beside a
living one. The invariant says which of two states the object is in: `NoThread`,
in which everything it has created has marked its exit, or `NewestThread`, in which it
names the last thread created and its exit flag tells exactly whether that one has
marked its exit. `RerunnableMeansNoneExists` is what makes the unlocked test at
the head of `Run` safe: the flag only ever changes from clear to set behind the owner's back. The mutex
gives `OneInSection`; `LastOneFrees` says for each end of object and
thread who of the two frees the data. `SleepersTargets` joins `SleepersAreExpected`
because a broadcast wakes everybody, and must find nobody who waits for a thread that
goes on. `WaitTrueMeansExited` turns the violation of the run
`thread_wait` round: without spurious wakeups of `pthread_cond_wait` the promise of
`thread.hh:24-25` holds.

**PoolThread.** There is no lock, so the invariant is about turns. `HandOver`: while `Run` publishes
a job the worker is between two jobs, and from there until the worker clears
`ACTIVING` the owner is kept out of the shared fields; this is why the copies of
the flag that both sides write back are never stale where it matters (`StartedKnown`,
`EndsDetached`). `Fresh`: a job that can be taken has been accepted and not been started. `HandOver`
and `Fresh` hold until a `Kill` hits a job or returns early (`Orderly`); `TakesTurns` holds for the
owner that waits before each `Run`, for whom a set `sig_out` means that nothing is
pending. `HandleKnown` says that a worker has an id, that a handle that names no
thread has none, and that only a worker is cancelled. `Answers`, proved on top of `IInv`, follows the worker's existence through the
owner's calls: `STARTING` beside a nonzero id means a worker, and a `Run` that has reset `sig_out` ends by
setting `sig_in` for it. `StartedKnown` and `Answers` hold until a `Kill` returns early: then `STARTING` may be set
beside the id of a worker that is gone. `SignalHeld`, `EndsDetached`, `HandleKnown` and `JobsInOrder` hold in any case.

The refinement needs the converse of the second part of `HandOver`: `ACTIVING` is set only as long as a job is
pending, executed or not yet cleared away (`ActiveMeansJob`), so that a `Run` is refused
only when the slot is taken. `Occupied` (no `Run` goes on without a worker if threads can be created) and
`Answers` (a `Run` that ends finds its worker) give what `Run` replies. There is one lemma for each group of
actions (`RunBeginsImplements` to `WorkerEndsImplements`): the reads and writes of
the flag word are stutters, the writes of `sig_in`, `sig_out` and `func` and the worker's
steps around the job are the slot's. A write of the argument is a stutter because the slot is free then, which is
`HandOver` again; and the destructor's `sig_in.Set` is one because `func` is gone before it.
A worker that a `Kill` ends while `sig_in` is set, and a `Kill` that returns early, have spoilt the slot, and
`NextClean` says that it stays so. `RunIsAccepted` has no run of its own; `JobSlot` refuses a `Run` only while the slot is taken, and
`WaitMeansIdle` says that for an owner that waits it is not.

**Test runner.** Two invariants. `Threads` counts: each worker posts once, when it ends, and
`ncore_lines` is never less than the number of workers that exist, so that when the main
thread leaves its loop all have ended (`AllEnded`), also if creations have failed. The
other follows the cases: `OnePlace` (the lists and the hands of the workers are
disjoint, no list has a case twice), `StartedOnce` (what is in a list of
cases to execute has not been started), `Accounted` (every selected case is in one of these
places or has an outcome, unless a break has ended the run; a worker
that has left found the list empty or the run broken), `Summed` (the failures
that are no longer in anybody's hands are counted and are in `failed` or, at the end, in the
list). The lemmas `Unlinked`, `Linked`, `Appended`, `Joined` and `Reversed` say what the operations on
linked lists do to their members and to injectivity.

The refinement adds `InExecution`: a case that has begun and not ended is in the hands of the thread that
executes it, and `SingleThreadTest` runs only if the workers have not been told to stop.
Only six kinds of steps are visible to `TestSuite`. A worker's `Check` and `SingleStart` are its `Start`; that nothing
standalone is being executed beside them is `WorkersCases` for the one, and for the other that every worker has
posted. `Finish` and `SingleFinish` are `End`. The `Report` that raises the break flag is `Stop`, and
by `Summed` the counter it reads is nonzero only if a case has failed. `Merge` is `Close`, by
`Accounted`, `Summed` and `NoHolders`. Everything done to the lists, the posts and the counter stutters.

Only model-checked: liveness and fairness (out of the prover's reach), and the invariants of
`UnitTests`. They depend on the single programs (that a lock is freed by who holds
it, what a counter is worth when it is read), so that each test would need a proof of its own; the machine that runs them promises nothing by itself.

## 5. Not modelled

Destruction of semaphores, events and condition variables while in use
(undefined); the Windows back ends other than the semaphore and the spin lock
(wrappers of Win32 objects, one call to one call); the inline assembly of the spin lock, whose
exchange is one step; the 64-bit conversions of `time/` (no state, and wider than
TLC's integers); console, system information, debug and base (no state); `struct/` (the
repository's README asks not to use it); the unit tests of these; the comparison templates, init and
done cases and the printed `TestCount` of the test runner; the ids of threads the
library did not create, and in the pool's test the branch for a `Run` that fails; build scripts. Memory is sequentially consistent in all modules:
`PoolThreadData` and the flags of `THREAD_DATA` are plain fields, and a
compiler or processor may order them in more ways.

## 6. Plan

Done: `Semaphore` with `CountingSemaphore`, `Event` with `SignalState`, `CondVar` with
`CountedWakeups`, `Thread`, `PoolThread` with `JobSlot`, `TestRunner` with `TestSuite`, and `UnitTests` over
the library; the proofs of section 4.

Only argued, not proved: that the one-step objects of `SyncObjects` are `SignalState` and
`CountingSemaphore` (section 2). Only model-checked: liveness, and `UnitTests` (section 4).
