------------------------------ MODULE Semaphore ------------------------------
(***************************************************************************)
(* Lock::Semaphore on POSIX (system/synchronization/semaphore.cc): a count *)
(* and a maximum guarded by the mutex l_mtx, and waiters blocked on the    *)
(* condition variable l_cond.                                              *)
(*                                                                         *)
(* current is written under l_mtx only, but the test at the head of Post   *)
(* reads it without; SetMax writes maximum without l_mtx.  A critical      *)
(* section of a wait (from the lock to the unlock, or to the               *)
(* pthread_cond_wait that gives the mutex up) reads and writes current     *)
(* once and is one step.  That of Post is three: it tests current against  *)
(* maximum, adds, and signals or takes back what it added; between them it *)
(* holds l_mtx, SetMax may change maximum, and another Post may read the   *)
(* count that is perhaps going to be taken back.                           *)
(***************************************************************************)
EXTENDS Integers, FiniteSets

CONSTANTS
    Threads,            \* the threads that share the semaphore
    InitialCounts,      \* i_set of the constructor
    InitialMaxima,      \* i_max of the constructor
    SetMaxArgs,         \* arguments of SetMax
    PostAmounts,        \* i_num of Post
    PollSeconds,        \* whole seconds of a timeout, when the clock fails
    MAXIMUM_COUNT,      \* Semaphore::MAXIMUM_COUNT (2109876543)
    IntMax,             \* the largest Int32 (2147483647)
    TimeoutMaySwallow,  \* POSIX lets a wait that times out consume a signal
    MaxSwallowed,       \* bound: how often that happens in a behaviour
    WaitMayFail,        \* pthread_cond_wait, _timedwait may return an error
    SignalMayFail       \* pthread_cond_signal, _broadcast may

ASSUME ThreadsAssumption == IsFiniteSet(Threads)
ASSUME ArgumentsAssumption ==
    /\ InitialCounts \subseteq Int
    /\ InitialMaxima \subseteq Int
    /\ SetMaxArgs \subseteq Int
    /\ PostAmounts \subseteq Int
    /\ PollSeconds \subseteq Nat
ASSUME WidthAssumption ==
    MAXIMUM_COUNT \in Nat \ {0} /\ IntMax \in Nat /\ MAXIMUM_COUNT <= IntMax
ASSUME PlatformAssumption ==
    /\ TimeoutMaySwallow \in BOOLEAN
    /\ WaitMayFail \in BOOLEAN
    /\ SignalMayFail \in BOOLEAN
    /\ MaxSwallowed \in Nat

VARIABLES
    current,    \* SEMAPHORE_DATA.current
    maximum,    \* SEMAPHORE_DATA.maximum
    call,       \* the call each thread is in, "none" outside the semaphore
    pc,         \* where in that call it is
    arg,        \* i_num of a Post; seconds left of a polling wait
    seen,       \* the value of current that Post's unlocked test has read
    granted,    \* the maximum that the Post in its critical section has passed
    ret,        \* what the last call of each thread returned
    swallowed   \* signals consumed by waits that timed out all the same

vars == <<current, maximum, call, pc, arg, seen, granted, ret, swallowed>>

Blocking == {"infinite", "timed"}
Waits == Blocking \cup {"try", "poll"}

Places == {"idle", "lock", "asleep", "woken", "nap", "read", "compare", "add", "signal"}

Sleepers == {t \in Threads : pc[t] = "asleep"}  \* blocked on l_cond
Woken == {t \in Threads : pc[t] = "woken"}      \* released, not yet back in the loop

\* l_mtx, seen between two steps: held by a Post that has passed its second test.
Holds(t) == pc[t] \in {"add", "signal"}
MutexFree == \A t \in Threads : ~Holds(t)

TypeOK ==
    /\ current \in 0..MAXIMUM_COUNT
    /\ maximum \in 1..MAXIMUM_COUNT
    /\ call \in [Threads -> Waits \cup {"none", "post"}]
    /\ pc \in [Threads -> Places]
    /\ arg \in [Threads -> Int]
    /\ seen \in [Threads -> 0..MAXIMUM_COUNT]
    /\ granted \in 0..MAXIMUM_COUNT
    /\ ret \in [Threads -> BOOLEAN]
    /\ swallowed \in 0..MaxSwallowed
    /\ \A t \in Threads :
        /\ call[t] = "none" <=> pc[t] = "idle"
        /\ pc[t] \in {"asleep", "woken"} => call[t] \in Blocking
        /\ pc[t] \in {"read", "compare", "add", "signal"} => call[t] = "post"
        /\ pc[t] = "nap" => call[t] = "poll" /\ arg[t] > 0
        /\ call[t] = "post" => arg[t] \in PostAmounts
        /\ call[t] = "post" /\ pc[t] # "read" => arg[t] > 0
        /\ call[t] = "poll" => arg[t] \in Nat

\* The sum or difference of two Int32 values, as two's complement wraps it.
Int32(x) ==
    CASE x > IntMax -> x - 2 * (IntMax + 1)
      [] x < -(IntMax + 1) -> x + 2 * (IntMax + 1)
      [] OTHER -> x

ValidArguments(set, max) ==
    set <= max /\ set >= 0 /\ max > 0 /\ max <= MAXIMUM_COUNT

\* Only a semaphore the constructor accepted can be used: on a refused one
\* every method dereferences a null pointer.
Init ==
    /\ current \in InitialCounts
    /\ maximum \in InitialMaxima
    /\ ValidArguments(current, maximum)
    /\ call = [t \in Threads |-> "none"]
    /\ pc = [t \in Threads |-> "idle"]
    /\ arg = [t \in Threads |-> 0]
    /\ seen = [t \in Threads |-> 0]
    /\ granted = 0
    /\ ret = [t \in Threads |-> FALSE]
    /\ swallowed = 0

-----------------------------------------------------------------------------
Enter(t, kind, at, n) ==
    /\ pc[t] = "idle"
    /\ call' = [call EXCEPT ![t] = kind]
    /\ pc' = [pc EXCEPT ![t] = at]
    /\ arg' = [arg EXCEPT ![t] = n]
    /\ UNCHANGED <<current, maximum, seen, granted, ret, swallowed>>

\* What a returning call leaves behind; its effect on pc is in Return, except
\* for a Post, which also moves the threads it wakes.
Leave(t, answer) ==
    /\ call' = [call EXCEPT ![t] = "none"]
    /\ arg' = [arg EXCEPT ![t] = 0]
    /\ seen' = [seen EXCEPT ![t] = 0]
    /\ ret' = [ret EXCEPT ![t] = answer]
    /\ UNCHANGED maximum

Return(t, answer) == Leave(t, answer) /\ pc' = [pc EXCEPT ![t] = "idle"]

-----------------------------------------------------------------------------
(* Wait(t), and Get and TryGet, which are Wait(Infinite) and Wait(Zero).   *)

CallWait(t) == \E kind \in Blocking \cup {"try"} : Enter(t, kind, "lock", 0)

\* clock_gettime failed: the timed wait polls once a second.
CallPoll(t) == \E n \in PollSeconds : Enter(t, "poll", "lock", n)

\* The thread takes l_mtx, or has it back, and tests current.
Testing(t) ==
    /\ MutexFree
    /\ pc[t] \in {"lock", "woken"}
    /\ call[t] \in Waits
    /\ call[t] = "poll" => arg[t] > 0

\* Mutation: the test that precedes current-- is lost.
Available_Untested == TRUE
\* if (current)
Available == current # 0

\* current--; break;
Take(t) ==
    /\ Testing(t)
    /\ Available
    /\ current' = current - 1
    /\ Return(t, TRUE)
    /\ UNCHANGED <<granted, swallowed>>

TryFails(t) ==
    /\ Testing(t)
    /\ call[t] = "try"
    /\ ~Available
    /\ Return(t, FALSE)
    /\ UNCHANGED <<current, granted, swallowed>>

\* pthread_cond_wait, pthread_cond_timedwait: gives l_mtx up and blocks.
Sleep(t) ==
    /\ Testing(t)
    /\ call[t] \in Blocking
    /\ ~Available
    /\ pc' = [pc EXCEPT ![t] = "asleep"]
    /\ UNCHANGED <<current, maximum, call, arg, seen, granted, ret, swallowed>>

\* The wait is over without a signal; l_mtx is taken by the step that follows.
SpuriousWakeup(t) ==
    /\ pc[t] = "asleep"
    /\ pc' = [pc EXCEPT ![t] = "woken"]
    /\ UNCHANGED <<current, maximum, call, arg, seen, granted, ret, swallowed>>

\* ETIMEDOUT, with l_mtx, ends the loop: current is not looked at again.
Timeout(t) ==
    /\ MutexFree
    /\ pc[t] = "asleep"
    /\ call[t] = "timed"
    /\ Return(t, FALSE)
    /\ UNCHANGED <<current, granted, swallowed>>

\* ETIMEDOUT at a thread that a signal had already chosen.
SwallowingTimeout(t) ==
    /\ TimeoutMaySwallow
    /\ MutexFree
    /\ swallowed < MaxSwallowed
    /\ pc[t] = "woken"
    /\ call[t] = "timed"
    /\ swallowed' = swallowed + 1
    /\ Return(t, FALSE)
    /\ UNCHANGED <<current, granted>>

\* Another error of the wait ends the loop in the same way.
WaitError(t) ==
    /\ WaitMayFail
    /\ Testing(t)
    /\ call[t] \in Blocking
    /\ ~Available
    /\ Return(t, FALSE)
    /\ UNCHANGED <<current, granted, swallowed>>

\* while (tsec > 0) { if (_TryWaitSemaphore()) break; sleep(1); tsec--; }
PollFails(t) ==
    /\ Testing(t)
    /\ call[t] = "poll"
    /\ ~Available
    /\ pc' = [pc EXCEPT ![t] = "nap"]
    /\ UNCHANGED <<current, maximum, call, arg, seen, granted, ret, swallowed>>

NapEnds(t) ==
    /\ pc[t] = "nap"
    /\ pc' = [pc EXCEPT ![t] = "lock"]
    /\ arg' = [arg EXCEPT ![t] = @ - 1]
    /\ UNCHANGED <<current, maximum, call, seen, granted, ret, swallowed>>

\* A timeout below one second gets here without a look at current.
PollExpires(t) ==
    /\ pc[t] = "lock"
    /\ call[t] = "poll"
    /\ arg[t] = 0
    /\ Return(t, FALSE)
    /\ UNCHANGED <<current, granted, swallowed>>

-----------------------------------------------------------------------------
(* Post(i_num), and Free, which is Post(1) with its answer dropped.        *)

CallPost(t) == \E n \in PostAmounts : Enter(t, "post", "read", n)

\* if (i_num <= 0 || ...) return False;
PostInvalid(t) ==
    /\ pc[t] = "read"
    /\ arg[t] <= 0
    /\ Return(t, FALSE)
    /\ UNCHANGED <<current, granted, swallowed>>

\* The unlocked test reads current here, and maximum in the next step.
PostReads(t) ==
    /\ pc[t] = "read"
    /\ arg[t] > 0
    /\ seen' = [seen EXCEPT ![t] = current]
    /\ pc' = [pc EXCEPT ![t] = "compare"]
    /\ UNCHANGED <<current, maximum, call, arg, granted, ret, swallowed>>

Fits(base, n) == Int32(base + n) <= maximum

PostRefuses(t) ==
    /\ pc[t] = "compare"
    /\ ~Fits(seen[t], arg[t])
    /\ Return(t, FALSE)
    /\ UNCHANGED <<current, granted, swallowed>>

PostPasses(t) ==
    /\ pc[t] = "compare"
    /\ Fits(seen[t], arg[t])
    /\ seen' = [seen EXCEPT ![t] = 0]
    /\ pc' = [pc EXCEPT ![t] = "lock"]
    /\ UNCHANGED <<current, maximum, call, arg, granted, ret, swallowed>>

\* Mutation: the test made without the mutex is trusted.
StillFits_Unchecked(t) == TRUE
\* The test is repeated under l_mtx: others may have posted since.
StillFits(t) == Fits(current, arg[t])

Posting(t) == MutexFree /\ pc[t] = "lock" /\ call[t] = "post"

\* pthread_mutex_lock; if (current + i_num <= maximum) {
PostTests(t) ==
    /\ Posting(t)
    /\ StillFits(t)
    /\ granted' = maximum
    /\ pc' = [pc EXCEPT ![t] = "add"]
    /\ UNCHANGED <<current, maximum, call, arg, seen, ret, swallowed>>

PostFull(t) ==
    /\ Posting(t)
    /\ ~StillFits(t)
    /\ Return(t, FALSE)
    /\ UNCHANGED <<current, granted, swallowed>>

\* current += i_num;
PostAdds(t) ==
    /\ pc[t] = "add"
    /\ current' = Int32(current + arg[t])
    /\ pc' = [pc EXCEPT ![t] = "signal"]
    /\ UNCHANGED <<maximum, call, arg, seen, granted, ret, swallowed>>

\* Mutation: pthread_cond_signal whatever the number posted.
Rousable_SignalOnly(n) ==
    IF Sleepers = {} THEN {{}} ELSE {{u} : u \in Sleepers}
\* pthread_cond_signal for one token, pthread_cond_broadcast for several: the
\* sets of threads the call may unblock.
Rousable(n) ==
    IF n = 1 /\ Sleepers # {} THEN {{u} : u \in Sleepers} ELSE {Sleepers}

\* The signal and the unlock.
PostSignals(t) ==
    /\ pc[t] = "signal"
    /\ \E roused \in Rousable(arg[t]) :
        pc' = [u \in Threads |->
                 IF u = t THEN "idle" ELSE IF u \in roused THEN "woken" ELSE pc[u]]
    /\ Leave(t, TRUE)
    /\ granted' = 0
    /\ UNCHANGED <<current, swallowed>>

\* Mutation: what was added stays.
Undone_Kept(t) == current
\* current -= i_num;
Undone(t) == Int32(current - arg[t])

\* The signal fails: what was added is taken back before the unlock.
PostUndoes(t) ==
    /\ SignalMayFail
    /\ pc[t] = "signal"
    /\ current' = Undone(t)
    /\ Return(t, FALSE)
    /\ granted' = 0
    /\ UNCHANGED swallowed

-----------------------------------------------------------------------------
\* SetMax takes no lock and does not look at current.
SetMax(t) ==
    /\ pc[t] = "idle"
    /\ \E max \in SetMaxArgs :
        /\ ret' = [ret EXCEPT ![t] = max > 0 /\ max <= MAXIMUM_COUNT]
        /\ maximum' = IF max > 0 /\ max <= MAXIMUM_COUNT THEN max ELSE maximum
    /\ UNCHANGED <<current, call, pc, arg, seen, granted, swallowed>>

\* The steps of a thread that is inside a call and not blocked.
WaitStep(t) ==
    Take(t) \/ TryFails(t) \/ Sleep(t) \/ PollFails(t) \/ NapEnds(t) \/ PollExpires(t)
PostStep(t) ==
    PostInvalid(t) \/ PostReads(t) \/ PostRefuses(t) \/ PostPasses(t)
        \/ PostTests(t) \/ PostFull(t) \/ PostAdds(t) \/ PostSignals(t)

\* What the callers, the kernel and the clock decide.
Environment(t) ==
    \/ CallWait(t)
    \/ CallPoll(t)
    \/ CallPost(t)
    \/ SetMax(t)
    \/ SpuriousWakeup(t)
    \/ Timeout(t)
    \/ SwallowingTimeout(t)
    \/ WaitError(t)
    \/ PostUndoes(t)

Next == \E t \in Threads : WaitStep(t) \/ PostStep(t) \/ Environment(t)

Spec == Init /\ [][Next]_vars

\* A runnable thread is eventually scheduled, and a thread that finds l_mtx free
\* again and again, for it is held for a few instructions only, eventually gets it.
\* Nobody is obliged to call Post, to let a wait expire or to wake spuriously.
Fairness == \A t \in Threads : SF_vars(WaitStep(t) \/ PostStep(t))

FairSpec == Spec /\ Fairness

-----------------------------------------------------------------------------
\* No amount that is posted can take a legal count past Int32.
AmountsFitInt32 == \A n \in PostAmounts : n + MAXIMUM_COUNT <= IntMax

\* While a thread is blocked on l_cond and no Post is about to signal, every token
\* there is has a woken thread coming for it, except for those whose signal a timeout
\* consumed: Post wakes one sleeper for one token and all of them for several
\* (semaphore.cc:217-220), and takes the tokens back if it could not (line 222); a
\* thread that times out does not pass its signal on (line 203).
NoLostWakeup ==
    Sleepers # {} /\ (\A t \in Threads : pc[t] # "signal")
        => current <= Cardinality(Woken) + swallowed

\* Post never raises the count past the maximum of that moment, although its first
\* test is made without the mutex (semaphore.cc:211) and other posts and SetMax may
\* come between that test and the addition (line 216).  The one exception is a SetMax
\* that comes between the second test (line 215) and the addition, for it takes no lock.
PostWithinMaximum == [][current' > current => current' <= maximum \/ granted # maximum]_vars

\* semaphore.hh:28: Post returns false if i_num added to the current count is
\* larger than the maximum count; here the sum is the mathematical one and the
\* maximum the one that line 215 has read.
PostRefusesExcess ==
    [][\A t \in Threads :
         pc[t] = "add" /\ pc'[t] = "signal" => current + arg[t] <= granted]_vars

\* A token that Post adds does not stay unclaimed next to a thread that sleeps in
\* Wait: either the tokens are all taken or nobody is blocked any more.  If from
\* some moment on there is always a token, every wait returns.
TokensReachWaiters ==
    /\ (current > 0 /\ Sleepers # {}) ~> (current = 0 \/ Sleepers = {})
    /\ \A t \in Threads :
          <>[](current > 0) => [](call[t] \in Waits => <>(call[t] \notin Waits))

-----------------------------------------------------------------------------
\* A Post whose unlocked test is going to fail has already failed: the maximum
\* does not change where this mapping is used.
Refused(t) == pc[t] = "compare" /\ ~Fits(seen[t], arg[t])

\* Where the signal cannot fail, the tokens of a Post are there and the Post is as
\* good as over once it has added them; where it can, not before it is known that
\* they will not be taken back.
Added(t) == pc[t] = "signal"
Settled(t) == Added(t) /\ ~SignalMayFail

pendingBar ==
    [t \in Threads |-> IF Refused(t) \/ Settled(t) THEN "none"
                       ELSE IF call[t] = "poll" THEN "timed" ELSE call[t]]
amountBar ==
    [t \in Threads |->
        IF call[t] = "post" /\ ~Refused(t) /\ ~Settled(t) THEN arg[t] ELSE 0]
replyBar == [t \in Threads |-> (ret[t] \/ Settled(t)) /\ ~Refused(t)]
countBar ==
    IF SignalMayFail /\ \E t \in Threads : Added(t)
    THEN current - arg[CHOOSE t \in Threads : Added(t)]
    ELSE current

Promise ==
    INSTANCE CountingSemaphore
    WITH count <- countBar, limit <- maximum, pending <- pendingBar,
         amount <- amountBar, reply <- replyBar

\* Mutexes, sleeping and polling seen from outside: every call takes effect at
\* one instant, a wait succeeds exactly by taking a token, and Post adds its
\* tokens exactly when they fit.  Where the signal may fail (semaphore.cc:221) a Post
\* may be refused at any time, and one that is leaves the count as it was.
ImplementsCountingSemaphore == Promise!Spec
=============================================================================
