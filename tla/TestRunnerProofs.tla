--------------------------- MODULE TestRunnerProofs ---------------------------
(***************************************************************************)
(* What TestRunner.tla guarantees for any number of cases, registered with *)
(* any flags, any number of workers and any outcomes.                      *)
(***************************************************************************)
EXTENDS TestRunner, FiniteSetTheorems, SequenceTheorems, TLAPS

USE SizeAssumption, PlatformAssumption

\* The workers that hold a case, at one of some places or anywhere.
HoldAt(places) == {w \in Workers : wpc[w] \in places /\ wcase[w] # 0}
Holders == HoldAt({"check", "sort", "run", "report"})
\* The case SingleThreadTest has taken, while it is executed and after.
Current == IF pc \in {"singleRun", "singleReport"} THEN {Head(waiting)} ELSE {}
Queued == ToSet(waiting) \ Current
Singly == pc \in {"single", "singleRun", "singleReport"}

\* A test has ended the run early.
Broken == failCount > 0 /\ \E c \in Cases : Break(c)

\* The cases the workers and SingleThreadTest have yet to report.
Unreported ==
    {wcase[w] : w \in HoldAt({"report"})} \cup (IF pc = "singleReport" THEN Current ELSE {})
Reported == {c \in Cases : Failure(c)} \ Unreported

\* While the cases register the list holds those that the flags seen so far select,
\* and nothing has been executed.
Registering ==
    pc = "register" =>
        /\ meOnly <=> \E c \in 1..registered : "TESTMEONLY" \in flags[c]
        /\ ToSet(list) = {c \in 1..registered : meOnly => "TESTMEONLY" \in flags[c]}
        /\ nc <= registered
        /\ waiting = <<>> /\ left = <<>> /\ failed = <<>> /\ ~breakout /\ failCount = 0
        /\ \A c \in Cases : starts[c] = 0 /\ outcome[c] = "none"

\* A case is in one place at a time.
OnePlace ==
    /\ IsInjective(waiting) /\ IsInjective(left) /\ IsInjective(failed) /\ IsInjective(list)
    /\ ToSet(waiting) \cap ToSet(left) = {}
    /\ ToSet(failed) \cap (ToSet(waiting) \cup ToSet(left)) = {}
    /\ \A w \in Holders :
          /\ wcase[w] \notin ToSet(waiting) \cup ToSet(left) \cup ToSet(failed)
          /\ \A v \in Holders : wcase[v] = wcase[w] => v = w

\* What has been executed is not in a list of cases to execute.
StartedOnce ==
    /\ \A c \in Cases : starts[c] <= 1 /\ (outcome[c] # "none" => starts[c] = 1)
    /\ \A c \in Queued \cup ToSet(left) : starts[c] = 0
    /\ \A w \in HoldAt({"check", "sort"}) : starts[wcase[w]] = 0
    /\ \A w \in HoldAt({"run"}) : starts[wcase[w]] = 1 /\ outcome[wcase[w]] = "none"
    /\ pc \in {"singleRun", "singleReport"} =>
          waiting # <<>> /\ \A c \in Current : starts[c] = 1
    /\ pc = "singleRun" => \A c \in Current : outcome[c] = "none"
    /\ pc = "singleReport" => \A c \in Current : outcome[c] # "none"

\* The workers have a case from check to report, and execute none that is standalone.
WorkersCases ==
    \A w \in Workers :
      /\ wpc[w] \in {"sort", "run", "report"} => wcase[w] # 0
      /\ wpc[w] = "report" => outcome[wcase[w]] # "none"
      /\ wpc[w] = "run" => "STANDALONE" \notin flags[wcase[w]]

\* Each created worker posts once, when it ends, and the main thread waits for at
\* least as many posts as there are workers.
Threads ==
    /\ \A w \in Workers : wpc[w] = "none" <=> w > created
    /\ pc \in {"register", "create"} => Lines - ncore_lines = i - created
    /\ pc \in {"register", "create"} => i <= ncore_lines + 1 /\ created <= i
    /\ created <= ncore_lines /\ ncore_lines >= 1
    /\ pc = "register" => created = 0
    /\ pc \in {"register", "create"} => posts = Cardinality({w \in Workers : wpc[w] = "end"})
    /\ pc = "wait" => posts + i = Cardinality({w \in Workers : wpc[w] = "end"})
    /\ posts + i <= Lines \/ pc \in {"register", "create"}
    /\ pc # "register" \/ i = 0

\* Only selected cases go through the lists.
SelectedOnly ==
    pc # "register" =>
        /\ ToSet(waiting) \cup ToSet(left) \cup {wcase[w] : w \in Holders} \subseteq Selected
        /\ \A c \in Cases : starts[c] > 0 => c \in Selected

\* And each of them is in one of them or has been executed, unless a break has
\* ended the run.
Accounted ==
    /\ breakout => Broken
    /\ pc # "register" =>
          \/ Broken
          \/ \A c \in Selected :
               \/ c \in ToSet(waiting) \cup ToSet(left) \cup {wcase[w] : w \in Holders}
               \/ outcome[c] # "none"
    /\ pc \in {"create", "wait"} =>
          \A w \in Workers :
            wpc[w] \in {"post", "end"} \/ (wpc[w] = "check" /\ wcase[w] = 0)
                => waiting = <<>> \/ breakout
    /\ Singly => left = <<>>
    /\ pc \in {"merge", "done"} => Broken \/ (waiting = <<>> /\ left = <<>>)

\* Every failure that has been reported is counted, and is on the way to the summary.
Summed ==
    /\ failCount = Cardinality(Reported)
    /\ pc \in MultiPcs => ToSet(failed) = Reported \/ pc = "merge"
    /\ \A c \in ToSet(failed) : Failure(c)
    /\ Singly => ToSet(waiting) \subseteq ToSet(list)
    /\ Singly \/ pc = "merge" =>
          ToSet(failed) \cap ToSet(list) = {} /\ Reported \subseteq ToSet(failed) \cup ToSet(list)
    /\ pc = "done" => Reported \subseteq ToSet(list)

ListsInv ==
    /\ Registering
    /\ OnePlace
    /\ StartedOnce
    /\ WorkersCases
    /\ SelectedOnly
    /\ Accounted
    /\ Summed

IInv ==
    /\ TypeOK
    /\ UtdOutlivesWorkers
    /\ Threads
    /\ ListsInv

-----------------------------------------------------------------------------
(* Lists of cases.                                                         *)

\* The empty list.
LEMMA EmptyList == <<>> \in Seq(Cases) /\ ToSet(<<>>) = {} /\ IsInjective(<<>>)
  BY DEF ToSet, IsInjective

\* The members of a list.
LEMMA Members ==
    ASSUME NEW s \in Seq(Cases)
    PROVE  /\ Len(s) \in Nat /\ DOMAIN s = 1..Len(s)
           /\ ToSet(s) \subseteq Cases
           /\ s = <<>> <=> ToSet(s) = {}
  <1>1. Len(s) \in Nat /\ DOMAIN s = 1..Len(s) /\ s \in [1..Len(s) -> Cases]
    BY LenProperties
  <1>2. ToSet(s) \subseteq Cases
    BY <1>1 DEF ToSet
  <1>3. ASSUME s # <<>> PROVE ToSet(s) # {}
    <2>1. Len(s) \in Nat \ {0}
      BY <1>3, EmptySeq
    <2>2. 1 \in DOMAIN s
      BY <1>1, <2>1
    <2> QED
      BY <2>2 DEF ToSet
  <1> QED
    BY <1>1, <1>2, <1>3, EmptyList

\* Unlinking the head of a list.
LEMMA Unlinked ==
    ASSUME NEW s \in Seq(Cases), s # <<>>, IsInjective(s)
    PROVE  /\ Head(s) \in Cases /\ Head(s) \in ToSet(s)
           /\ Tail(s) \in Seq(Cases) /\ IsInjective(Tail(s))
           /\ ToSet(Tail(s)) = ToSet(s) \ {Head(s)}
  <1>1. Len(s) \in Nat /\ DOMAIN s = 1..Len(s) /\ Len(s) # 0
    BY Members, EmptySeq
  <1>2. Tail(s) \in Seq(Cases) /\ Len(Tail(s)) = Len(s) - 1
        /\ \A k \in 1..Len(Tail(s)) : Tail(s)[k] = s[k + 1]
    BY HeadTailProperties
  <1>3. DOMAIN Tail(s) = 1..(Len(s) - 1)
    BY <1>2, Members
  <1>4. Head(s) = s[1] /\ Head(s) \in Cases
    BY HeadTailProperties
  <1>5. \A j, k \in 1..Len(s) : s[j] = s[k] => j = k
    BY <1>1 DEF IsInjective
  <1>6. IsInjective(Tail(s))
    BY <1>1, <1>2, <1>3, <1>5 DEF IsInjective
  <1>7. Head(s) \in ToSet(s)
    BY <1>1, <1>4 DEF ToSet
  <1>8. ASSUME NEW c \in ToSet(Tail(s)) PROVE c \in ToSet(s) \ {Head(s)}
    <2>1. PICK k \in 1..(Len(s) - 1) : c = s[k + 1]
      BY <1>2, <1>3 DEF ToSet
    <2>2. k + 1 \in 1..Len(s) /\ k + 1 # 1 /\ 1 \in 1..Len(s)
      BY <1>1
    <2> QED
      BY <1>1, <1>4, <1>5, <2>1, <2>2 DEF ToSet
  <1>9. ASSUME NEW c \in ToSet(s) \ {Head(s)} PROVE c \in ToSet(Tail(s))
    <2>1. PICK k \in 1..Len(s) : c = s[k]
      BY <1>1 DEF ToSet
    <2>2. k - 1 \in 1..(Len(s) - 1) /\ (k - 1) + 1 = k
      BY <1>1, <1>4, <2>1
    <2>3. c = Tail(s)[k - 1]
      BY <1>2, <2>1, <2>2
    <2> QED
      BY <1>3, <2>2, <2>3 DEF ToSet
  <1> QED
    BY <1>2, <1>4, <1>6, <1>7, <1>8, <1>9

\* One list before another.
LEMMA Joined ==
    ASSUME NEW s \in Seq(Cases), NEW t \in Seq(Cases)
    PROVE  /\ s \o t \in Seq(Cases)
           /\ ToSet(s \o t) = ToSet(s) \cup ToSet(t)
           /\ IsInjective(s) /\ IsInjective(t) /\ ToSet(s) \cap ToSet(t) = {}
                 => IsInjective(s \o t)
  <1>1. /\ Len(s) \in Nat /\ DOMAIN s = 1..Len(s) /\ Len(t) \in Nat /\ DOMAIN t = 1..Len(t)
    BY Members
  <1>2. /\ s \o t \in Seq(Cases) /\ Len(s \o t) = Len(s) + Len(t)
        /\ \A k \in 1..(Len(s) + Len(t)) :
              (s \o t)[k] = IF k <= Len(s) THEN s[k] ELSE t[k - Len(s)]
    BY ConcatProperties
  <1>3. DOMAIN (s \o t) = 1..(Len(s) + Len(t))
    BY <1>2, Members
  <1>4. ASSUME NEW k \in 1..(Len(s) + Len(t))
        PROVE  \/ k \in 1..Len(s) /\ (s \o t)[k] = s[k]
               \/ k - Len(s) \in 1..Len(t) /\ (s \o t)[k] = t[k - Len(s)]
    BY <1>1, <1>2
  <1>5. ToSet(s \o t) \subseteq ToSet(s) \cup ToSet(t)
    BY <1>1, <1>3, <1>4 DEF ToSet
  <1>6. ToSet(s) \subseteq ToSet(s \o t)
    BY <1>1, <1>2, <1>3 DEF ToSet
  <1>7. ASSUME NEW c \in ToSet(t) PROVE c \in ToSet(s \o t)
    <2>1. PICK k \in 1..Len(t) : c = t[k]
      BY <1>1 DEF ToSet
    <2>2. k + Len(s) \in 1..(Len(s) + Len(t)) /\ ~(k + Len(s) <= Len(s)) /\ (k + Len(s)) - Len(s) = k
      BY <1>1
    <2>3. c = (s \o t)[k + Len(s)]
      BY <1>2, <2>1, <2>2
    <2> QED
      BY <1>3, <2>2, <2>3 DEF ToSet
  <1>8. ASSUME IsInjective(s), IsInjective(t), ToSet(s) \cap ToSet(t) = {}
        PROVE  IsInjective(s \o t)
    <2>1. SUFFICES ASSUME NEW j \in 1..(Len(s) + Len(t)), NEW k \in 1..(Len(s) + Len(t)),
                          (s \o t)[j] = (s \o t)[k]
                   PROVE  j = k
      BY <1>3 DEF IsInjective
    <2>2. \A a \in 1..Len(s), b \in 1..Len(t) : s[a] # t[b]
      BY <1>1, <1>8 DEF ToSet
    <2>3. CASE j \in 1..Len(s) /\ (s \o t)[j] = s[j]
      <3>1. k \in 1..Len(s) /\ (s \o t)[k] = s[k]
        BY <1>4, <2>1, <2>2, <2>3
      <3> QED
        BY <1>1, <1>8, <2>1, <2>3, <3>1 DEF IsInjective
    <2>4. CASE j - Len(s) \in 1..Len(t) /\ (s \o t)[j] = t[j - Len(s)]
      <3>1. k - Len(s) \in 1..Len(t) /\ (s \o t)[k] = t[k - Len(s)]
        BY <1>4, <2>1, <2>2, <2>4
      <3>2. j - Len(s) = k - Len(s)
        BY <1>1, <1>8, <2>1, <2>4, <3>1 DEF IsInjective
      <3> QED
        BY <1>1, <3>2
    <2> QED
      BY <1>4, <2>3, <2>4
  <1> QED
    BY <1>2, <1>5, <1>6, <1>7, <1>8

\* A list of one case.
LEMMA Single ==
    ASSUME NEW c \in Cases
    PROVE  <<c>> \in Seq(Cases) /\ ToSet(<<c>>) = {c} /\ IsInjective(<<c>>)
  BY DEF ToSet, IsInjective

\* Linking a case before the head of a list.
LEMMA Linked ==
    ASSUME NEW c \in Cases, NEW s \in Seq(Cases)
    PROVE  /\ Link(c, s) \in Seq(Cases)
           /\ ToSet(Link(c, s)) = ToSet(s) \cup {c}
           /\ IsInjective(s) /\ c \notin ToSet(s) => IsInjective(Link(c, s))
  <1>1. <<c>> \in Seq(Cases) /\ ToSet(<<c>>) = {c} /\ IsInjective(<<c>>)
    BY Single
  <1>2. /\ <<c>> \o s \in Seq(Cases)
        /\ ToSet(<<c>> \o s) = {c} \cup ToSet(s)
        /\ IsInjective(s) /\ {c} \cap ToSet(s) = {} => IsInjective(<<c>> \o s)
    BY <1>1, Joined
  <1> QED
    BY <1>2 DEF Link

\* Linking a case behind the last one.
LEMMA Appended ==
    ASSUME NEW c \in Cases, NEW s \in Seq(Cases)
    PROVE  /\ Append(s, c) \in Seq(Cases)
           /\ ToSet(Append(s, c)) = ToSet(s) \cup {c}
           /\ IsInjective(s) /\ c \notin ToSet(s) => IsInjective(Append(s, c))
  <1>1. Append(s, c) = s \o <<c>>
    BY AppendIsConcat
  <1>2. <<c>> \in Seq(Cases) /\ ToSet(<<c>>) = {c} /\ IsInjective(<<c>>)
    BY Single
  <1>3. /\ s \o <<c>> \in Seq(Cases)
        /\ ToSet(s \o <<c>>) = ToSet(s) \cup {c}
        /\ IsInjective(s) /\ ToSet(s) \cap {c} = {} => IsInjective(s \o <<c>>)
    BY <1>2, Joined
  <1> QED
    BY <1>1, <1>3

\* Turning a list round.
LEMMA Reversed ==
    ASSUME NEW s \in Seq(Cases)
    PROVE  /\ Reverse(s) \in Seq(Cases)
           /\ ToSet(Reverse(s)) = ToSet(s)
           /\ IsInjective(s) => IsInjective(Reverse(s))
  <1>1. Len(s) \in Nat /\ DOMAIN s = 1..Len(s) /\ \A k \in 1..Len(s) : s[k] \in Cases
    BY Members, ElementOfSeq
  <1>2. \A k \in 1..Len(s) : (Len(s) - k) + 1 \in 1..Len(s) /\ (Len(s) - ((Len(s) - k) + 1)) + 1 = k
    BY <1>1
  <1>3. Reverse(s) \in [1..Len(s) -> Cases]
    BY <1>1, <1>2 DEF Reverse
  <1>4. Reverse(s) \in Seq(Cases)
    BY <1>1, <1>3
  <1>5. DOMAIN Reverse(s) = 1..Len(s) /\ \A k \in 1..Len(s) : Reverse(s)[k] = s[(Len(s) - k) + 1]
    BY DEF Reverse
  <1>6. ToSet(Reverse(s)) \subseteq ToSet(s)
    BY <1>1, <1>2, <1>5 DEF ToSet
  <1>7. ASSUME NEW c \in ToSet(s) PROVE c \in ToSet(Reverse(s))
    <2>1. PICK k \in 1..Len(s) : c = s[k]
      BY <1>1 DEF ToSet
    <2>2. Reverse(s)[(Len(s) - k) + 1] = s[(Len(s) - ((Len(s) - k) + 1)) + 1]
      BY <1>2, <1>5
    <2>3. c = Reverse(s)[(Len(s) - k) + 1]
      BY <1>2, <2>1, <2>2
    <2> QED
      BY <1>2, <1>5, <2>3 DEF ToSet
  <1>8. ASSUME IsInjective(s) PROVE IsInjective(Reverse(s))
    <2>1. SUFFICES ASSUME NEW j \in 1..Len(s), NEW k \in 1..Len(s),
                          Reverse(s)[j] = Reverse(s)[k]
                   PROVE  j = k
      BY <1>5 DEF IsInjective
    <2>2. (Len(s) - j) + 1 = (Len(s) - k) + 1
      BY <1>1, <1>2, <1>5, <1>8, <2>1 DEF IsInjective
    <2> QED
      BY <1>1, <2>2
  <1> QED
    BY <1>4, <1>6, <1>7, <1>8

-----------------------------------------------------------------------------
(* The threads: how many posts there are to come.                          *)

Ended == {w \in Workers : wpc[w] = "end"}

\* The workers that have ended are among those that have been created.
LEMMA EndedWorkers ==
    ASSUME TypeOK, Threads
    PROVE  /\ Ended \subseteq 1..created /\ created \in Nat /\ created <= Lines
           /\ IsFiniteSet(1..created) /\ Cardinality(1..created) = created
           /\ IsFiniteSet(Ended) /\ Cardinality(Ended) \in Nat /\ Cardinality(Ended) <= created
  <1>1. created \in Nat /\ created <= Lines
    BY DEF TypeOK
  <1>2. Ended \subseteq 1..created
    BY <1>1 DEF Ended, Threads, Workers
  <1>3. IsFiniteSet(1..created) /\ Cardinality(1..created) = created
    BY <1>1, FS_Interval
  <1>4. IsFiniteSet(Ended) /\ Cardinality(Ended) <= Cardinality(1..created)
    BY <1>2, <1>3, FS_Subset
  <1>5. Cardinality(Ended) \in Nat
    BY <1>4, FS_CardinalityType
  <1> QED
    BY <1>1, <1>2, <1>3, <1>4, <1>5

\* A worker takes steps only while the main thread creates the workers or waits for
\* them, and it changes nothing of the main thread's.
LEMMA WorkerGoes ==
    ASSUME IInv, NEW w \in Workers, WorkerStep(w)
    PROVE  /\ pc \in {"create", "wait"} /\ UNCHANGED <<registry, main>>
           /\ \E from \in {"get", "check", "sort", "run", "report", "post"},
                 to \in {"get", "check", "sort", "run", "report", "post", "end"} :
                   /\ Go(w, from, to)
                   /\ to = "end" <=> from = "post"
                   /\ IF from = "post" THEN posts' = posts + 1 ELSE posts' = posts
  <1>1. /\ UNCHANGED <<registry, main>>
        /\ \E from \in {"get", "check", "sort", "run", "report", "post"},
              to \in {"get", "check", "sort", "run", "report", "post", "end"} :
                   /\ Go(w, from, to)
                   /\ to = "end" <=> from = "post"
                   /\ IF from = "post" THEN posts' = posts + 1 ELSE posts' = posts
    <2>1. CASE Get(w)
      BY <2>1 DEF Get
    <2>2. CASE Stops(w)
      BY <2>2 DEF Stops
    <2>3. CASE Check(w)
      BY <2>3 DEF Check
    <2>4. CASE Sort(w)
      BY <2>4 DEF Sort
    <2>5. CASE Finish(w)
      BY <2>5 DEF Finish
    <2>6. CASE Report(w)
      BY <2>6 DEF Report
    <2>7. CASE Post(w)
      BY <2>7 DEF Post, Posted
    <2> QED
      BY <2>1, <2>2, <2>3, <2>4, <2>5, <2>6, <2>7 DEF WorkerStep
  <1>2. wpc[w] \notin {"none", "end"}
    BY <1>1 DEF Go
  <1>3. pc \in {"create", "wait"}
    BY <1>2 DEF IInv, UtdOutlivesWorkers
  <1> QED
    BY <1>1, <1>3

\* The main thread goes on when it has received as many posts as it has created
\* workers, or more.
LEMMA AllEnded ==
    ASSUME IInv, pc = "wait", AllWaited
    PROVE  created # 0 /\ \A w \in Workers : wpc[w] \in {"none", "end"} /\ (w <= created => wpc[w] = "end")
  <1>1. /\ Ended \subseteq 1..created /\ created \in Nat
        /\ IsFiniteSet(1..created) /\ Cardinality(1..created) = created
        /\ Cardinality(Ended) \in Nat /\ Cardinality(Ended) <= created
    BY EndedWorkers DEF IInv
  <1>2. posts + i = Cardinality(Ended) /\ created <= ncore_lines /\ ncore_lines >= 1
        /\ posts \in Nat /\ i \in Nat /\ ncore_lines \in Nat
    BY DEF IInv, Threads, TypeOK, Ended
  <1>3. Cardinality(Ended) = created /\ created # 0
    BY <1>1, <1>2 DEF AllWaited
  <1>4. Ended = 1..created
    BY <1>1, <1>3, FS_Subset
  <1>5. \A w \in Workers : w <= created => wpc[w] = "end"
    BY <1>4 DEF Ended, Workers
  <1>6. \A w \in Workers : w > created => wpc[w] = "none"
    BY DEF IInv, Threads
  <1>7. \A w \in Workers : w <= created \/ w > created
    BY <1>1 DEF Workers
  <1> QED
    BY <1>3, <1>5, <1>6, <1>7

\* Every step keeps the count.
LEMMA NextThreads ==
    ASSUME IInv, [Next]_vars
    PROVE  Threads' /\ UtdOutlivesWorkers'
  <1>0. /\ Threads /\ UtdOutlivesWorkers /\ posts \in Nat /\ i \in 0..Lines
        /\ created \in 0..Lines /\ ncore_lines \in 0..Lines
        /\ wpc \in [Workers -> {"none", "get", "check", "sort", "run", "report", "post", "end"}]
    BY DEF IInv, TypeOK
  <1>1. ASSUME UNCHANGED <<wpc, created, posts, i, ncore_lines>>,
               \/ pc' = pc
               \/ pc' \in MultiPcs \cup {"single", "singleRun", "singleReport", "done"}
                  /\ pc \notin {"register", "create", "wait"}
                  /\ pc' \notin {"register", "create", "wait"}
        PROVE  Threads' /\ UtdOutlivesWorkers'
    BY <1>0, <1>1 DEF Threads, UtdOutlivesWorkers
  <1>2. CASE UNCHANGED vars
    BY <1>1, <1>2 DEF vars, main, work
  <1>3. ASSUME NEW w \in Workers, WorkerStep(w) PROVE Threads' /\ UtdOutlivesWorkers'
    <2>1. pc \in {"create", "wait"} /\ UNCHANGED <<pc, ncore_lines, i, created>>
      BY <1>3, WorkerGoes DEF main
    <2>2. PICK from \in {"get", "check", "sort", "run", "report", "post"},
               to \in {"get", "check", "sort", "run", "report", "post", "end"} :
                   /\ Go(w, from, to)
                   /\ to = "end" <=> from = "post"
                   /\ IF from = "post" THEN posts' = posts + 1 ELSE posts' = posts
      BY <1>3, WorkerGoes
    <2>3. wpc[w] = from /\ wpc'[w] = to /\ \A v \in Workers : v # w => wpc'[v] = wpc[v]
      BY <1>0, <2>2 DEF Go
    <2>4. \A v \in Workers : wpc'[v] = "none" <=> v > created
      BY <1>0, <2>3 DEF Threads
    <2>5. UtdOutlivesWorkers'
      BY <2>1 DEF UtdOutlivesWorkers
    <2>6. IsFiniteSet(Ended) /\ Cardinality(Ended) \in Nat /\ Cardinality(Ended) <= created
      BY EndedWorkers DEF IInv
    <2>7. CASE from = "post"
      <3>1. Ended' = Ended \cup {w} /\ w \notin Ended
        BY <2>2, <2>3, <2>7 DEF Ended
      <3>2. Cardinality(Ended') = Cardinality(Ended) + 1
        BY <2>6, <3>1, FS_AddElement
      <3>3. posts' = posts + 1
        BY <2>2, <2>7
      <3>4. IsFiniteSet(1..created) /\ Cardinality(1..created) = created /\ Ended' \subseteq 1..created
        BY <1>0, <2>3, <2>7, <3>1, EndedWorkers DEF IInv, Threads, Workers
      <3>5. Cardinality(Ended') <= created
        BY <3>4, FS_Subset
      <3>6. pc = "wait" => posts' + i <= Lines
        BY <1>0, <2>6, <3>2, <3>3, <3>5 DEF Threads, Ended
      <3> QED
        BY <1>0, <2>1, <2>4, <2>5, <2>6, <3>2, <3>3, <3>6 DEF Threads, Ended
    <2>8. CASE from # "post"
      <3>1. Ended' = Ended
        BY <2>2, <2>3, <2>8 DEF Ended
      <3> QED
        BY <1>0, <2>1, <2>2, <2>4, <2>5, <2>8, <3>1 DEF Threads, Ended
    <2> QED
      BY <2>7, <2>8
  <1>4. CASE AddTestCase
    BY <1>1, <1>4 DEF AddTestCase, work
  <1>5. CASE RunTest
    <2>1. \A w \in Workers : w > 0
      BY DEF Workers
    <2>2. \A w \in Workers : wpc[w] = "none"
      BY <1>0, <1>5, <2>1 DEF RunTest, Threads
    <2>3. Ended = {}
      BY <2>2 DEF Ended
    <2>4. posts = 0
      BY <1>0, <1>5, <2>3, FS_EmptySet DEF RunTest, Threads, Ended
    <2> QED
      BY <1>0, <1>5, <2>2, <2>4 DEF RunTest, Threads, UtdOutlivesWorkers, work
  <1>6. CASE Create
    <2>1. i < ncore_lines /\ i' = i + 1 /\ created' = created + 1 /\ pc = "create" /\ pc' = "create"
          /\ wpc' = [wpc EXCEPT ![created + 1] = "get"] /\ UNCHANGED <<ncore_lines, posts>>
      BY <1>6 DEF Create, Step
    <2>2. created <= i /\ created + 1 \in Workers
      BY <1>0, <2>1 DEF Threads, Workers
    <2>3. wpc[created + 1] = "none"
      BY <1>0, <2>2 DEF Threads
    <2>4. Ended' = Ended
      BY <1>0, <2>1, <2>2, <2>3 DEF Ended
    <2>5. \A w \in Workers : wpc'[w] = "none" <=> w > created'
      BY <1>0, <2>1, <2>2 DEF Threads, Workers
    <2> QED
      BY <1>0, <2>1, <2>2, <2>4, <2>5 DEF Threads, UtdOutlivesWorkers, Ended
  <1>7. CASE CreateFails
    <2>1. ncore_lines # 1
      BY <1>0, <1>7 DEF CreateFails, Step, Threads
    <2> QED
      BY <1>0, <1>7, <2>1 DEF CreateFails, Step, Threads, UtdOutlivesWorkers, work
  <1>8. CASE Created
    <2>1. Cardinality(Ended) <= Lines
      BY <1>0, EndedWorkers DEF IInv
    <2> QED
      BY <1>0, <1>8, <2>1 DEF Created, Step, Threads, UtdOutlivesWorkers, work, Ended
  <1>9. CASE WaitOne
    BY <1>0, <1>9 DEF WaitOne, Step, Threads, UtdOutlivesWorkers, work
  <1>10. CASE Collect
    <2>1. pc = "wait" /\ AllWaited /\ pc' \in {"single", "merge"}
          /\ UNCHANGED <<wpc, created, posts, i, ncore_lines>>
      BY <1>10 DEF Collect, Step, work
    <2>2. \A w \in Workers : wpc[w] \in {"none", "end"}
      BY <2>1, AllEnded
    <2> QED
      BY <1>0, <2>1, <2>2 DEF Threads, UtdOutlivesWorkers
  <1>11. CASE Merge \/ SingleStart \/ SingleFinish \/ SingleReport \/ SingleEnds
    BY <1>1, <1>11
    DEF Merge, SingleStart, SingleFinish, SingleReport, SingleEnds, Step, MultiPcs, work
  <1> QED
    BY <1>2, <1>3, <1>4, <1>5, <1>6, <1>7, <1>8, <1>9, <1>10, <1>11 DEF Next, MainStep

-----------------------------------------------------------------------------
(* The cases on their way through the lists: registration.                 *)

\* When the main thread is not in MultiThreadTest's loops no worker holds a case.
LEMMA NoHolders ==
    ASSUME TypeOK, UtdOutlivesWorkers, pc \notin {"create", "wait"}
    PROVE  /\ \A w \in Workers : wpc[w] \in {"none", "end"}
           /\ Holders = {} /\ HoldAt({"check", "sort"}) = {}
           /\ HoldAt({"run"}) = {} /\ HoldAt({"report"}) = {}
  <1>1. \A w \in Workers : wpc[w] \in {"none", "end"}
    BY DEF UtdOutlivesWorkers
  <1> QED
    BY <1>1 DEF Holders, HoldAt

\* A case joins the list, or takes the place of those without TESTMEONLY.
LEMMA AddTestCaseLists ==
    ASSUME IInv, AddTestCase
    PROVE  ListsInv' /\ TypeOK'
  <1> DEFINE c == registered + 1
  <1>0. /\ pc = "register" /\ pc' = "register" /\ registered' = c /\ registered < NCases
        /\ UNCHANGED <<flags, waiting, left, failed, breakout, failCount, wpc, wcase, starts,
                       outcome, ncore_lines, i, created, posts>>
    BY DEF AddTestCase, utd, work, results
  <1>1. registered \in Nat /\ c \in Cases /\ c \in 1..NCases /\ list \in Seq(Cases) /\ nc \in 0..NCases
        /\ meOnly \in BOOLEAN
    BY <1>0 DEF IInv, TypeOK, Cases
  <1>2. 1..c = (1..registered) \cup {c} /\ c \notin 1..registered
    BY <1>1
  <1> HIDE DEF c
  <1>3. /\ meOnly <=> \E d \in 1..registered : "TESTMEONLY" \in flags[d]
        /\ ToSet(list) = {d \in 1..registered : meOnly => "TESTMEONLY" \in flags[d]}
        /\ nc <= registered /\ IsInjective(list)
    BY <1>0 DEF IInv, ListsInv, Registering, OnePlace
  <1>4. meOnly' <=> meOnly \/ "TESTMEONLY" \in flags[c]
    BY DEF AddTestCase, c
  <1>5. meOnly' \in BOOLEAN
    BY DEF AddTestCase
  <1>6. \/ meOnly /\ "TESTMEONLY" \notin flags[c] /\ UNCHANGED <<list, nc>>
        \/ ~meOnly /\ "TESTMEONLY" \in flags[c] /\ list' = <<c>> /\ nc' = 1
        \/ (meOnly <=> "TESTMEONLY" \in flags[c]) /\ list' = Append(list, c) /\ nc' = nc + 1
    BY DEF AddTestCase, Dropped, c
  <1>7. list' \in Seq(Cases) /\ IsInjective(list')
    <2>1. c \notin ToSet(list)
      BY <1>2, <1>3
    <2>2. <<c>> \in Seq(Cases) /\ IsInjective(<<c>>)
      BY <1>1, Single
    <2>3. Append(list, c) \in Seq(Cases) /\ IsInjective(Append(list, c))
      BY <1>1, <1>3, <2>1, Appended
    <2> QED
      BY <1>1, <1>3, <1>6, <2>2, <2>3
  <1>8. ToSet(list') = {d \in (1..registered) \cup {c} : meOnly' => "TESTMEONLY" \in flags[d]}
    <2>1. CASE meOnly /\ "TESTMEONLY" \notin flags[c] /\ UNCHANGED <<list, nc>>
      BY <1>3, <1>4, <2>1
    <2>2. CASE ~meOnly /\ "TESTMEONLY" \in flags[c] /\ list' = <<c>>
      BY <1>1, <1>3, <1>4, <2>2, Single
    <2>3. CASE (meOnly <=> "TESTMEONLY" \in flags[c]) /\ list' = Append(list, c)
      BY <1>1, <1>3, <1>4, <2>3, Appended
    <2> QED
      BY <1>6, <2>1, <2>2, <2>3
  <1>9. nc' <= c /\ nc' \in 0..NCases
    BY <1>0, <1>1, <1>3, <1>6 DEF c
  <1>10. Registering'
    BY <1>0, <1>2, <1>3, <1>4, <1>8, <1>9 DEF IInv, ListsInv, Registering
  <1>11. UNCHANGED <<Holders, HoldAt({"check", "sort"}), HoldAt({"run"}), HoldAt({"report"}),
                     Current, Queued>>
    BY <1>0 DEF Holders, HoldAt, Current, Queued
  <1>12. OnePlace' /\ StartedOnce' /\ WorkersCases' /\ SelectedOnly'
    BY <1>0, <1>7, <1>11
    DEF IInv, ListsInv, OnePlace, StartedOnce, WorkersCases, SelectedOnly
  <1>13. UNCHANGED <<Broken, Reported>>
    BY <1>0, <1>11 DEF Broken, Break, Reported, Failure, Unreported
  <1>14. Accounted' /\ Summed'
    BY <1>0, <1>13 DEF IInv, ListsInv, Accounted, Summed, Singly, MultiPcs, Failure
  <1>15. TypeOK'
    BY <1>0, <1>1, <1>5, <1>7, <1>9 DEF IInv, TypeOK, MultiPcs, Cases
  <1> QED
    BY <1>10, <1>12, <1>14, <1>15 DEF ListsInv

\* All cases are registered: the list holds the selected ones, and the test begins.
LEMMA RunTestLists ==
    ASSUME IInv, RunTest
    PROVE  ListsInv' /\ TypeOK'
  <1>0. /\ pc = "register" /\ pc' \in {"single", "create"} /\ registered = NCases /\ waiting' = list
        /\ UNCHANGED <<registered, meOnly, nc, flags, list, left, failed, breakout, failCount, wpc,
                       wcase, starts, outcome, ncore_lines, i, created, posts>>
    BY DEF RunTest, registry, work, results
  <1>1. /\ list \in Seq(Cases) /\ IsInjective(list) /\ left = <<>> /\ failed = <<>>
        /\ ~breakout /\ failCount = 0 /\ \A c \in Cases : starts[c] = 0 /\ outcome[c] = "none"
        /\ ToSet(list) \subseteq Cases
    BY <1>0, Members DEF IInv, TypeOK, ListsInv, Registering, OnePlace
  <1>2. ToSet(list) = Selected
    BY <1>0 DEF IInv, ListsInv, Registering, Selected, Cases
  <1>3. /\ \A w \in Workers : wpc[w] \in {"none", "end"}
        /\ Holders = {} /\ HoldAt({"check", "sort"}) = {}
        /\ HoldAt({"run"}) = {} /\ HoldAt({"report"}) = {}
    BY <1>0, NoHolders DEF IInv
  <1>4. \A w \in Workers : wpc[w] = "none"
    <2>1. \A w \in Workers : w > 0
      BY DEF Workers
    <2> QED
      BY <1>0, <2>1 DEF IInv, Threads
  <1>5. /\ Holders' = {} /\ HoldAt({"check", "sort"})' = {}
        /\ HoldAt({"run"})' = {} /\ HoldAt({"report"})' = {}
    BY <1>0, <1>4 DEF Holders, HoldAt
  <1>6. Current' = {} /\ Queued' = ToSet(list)
    BY <1>0 DEF Current, Queued
  <1>7. Registering' /\ WorkersCases'
    BY <1>0, <1>4 DEF Registering, WorkersCases
  <1>8. OnePlace'
    BY <1>0, <1>1, <1>5, EmptyList DEF OnePlace
  <1>9. StartedOnce'
    BY <1>0, <1>1, <1>5, <1>6, EmptyList DEF StartedOnce
  <1>10. SelectedOnly'
    <2>1. Selected' = Selected
      BY <1>0 DEF Selected
    <2> QED
      BY <1>0, <1>1, <1>2, <1>5, <2>1, EmptyList DEF SelectedOnly
  <1>11. Accounted'
    <2>1. Selected' = Selected
      BY <1>0 DEF Selected
    <2> QED
      BY <1>0, <1>1, <1>2, <1>4, <2>1 DEF Accounted, Singly
  <1>12. Reported' = {} /\ Reported = {}
    BY <1>0, <1>1 DEF Reported, Failure
  <1>13. Summed'
    BY <1>0, <1>1, <1>12, EmptyList, FS_EmptySet DEF Summed, Singly, MultiPcs
  <1>14. TypeOK'
    BY <1>0, <1>1 DEF IInv, TypeOK, MultiPcs, Threads
  <1> QED
    BY <1>7, <1>8, <1>9, <1>10, <1>11, <1>13, <1>14 DEF ListsInv

-----------------------------------------------------------------------------
(* The cases on their way through the lists: the workers.                  *)

\* What the invariant says while the main thread creates the workers or waits.
LEMMA Meanwhile ==
    ASSUME IInv, pc \in {"create", "wait"}
    PROVE  /\ Current = {} /\ Queued = ToSet(waiting) /\ ~Singly
           /\ Unreported = {wcase[v] : v \in HoldAt({"report"})}
           /\ ToSet(failed) = Reported /\ failCount = Cardinality(Reported)
           /\ waiting \in Seq(Cases) /\ left \in Seq(Cases) /\ failed \in Seq(Cases)
           /\ wpc \in [Workers -> {"none", "get", "check", "sort", "run", "report", "post", "end"}]
           /\ wcase \in [Workers -> Cases \cup {0}] /\ 0 \notin Cases
           /\ starts \in [Cases -> 0..2] /\ outcome \in [Cases -> Outcomes \cup {"none"}]
  BY DEF Current, Queued, Singly, Unreported, IInv, ListsInv, Summed, MultiPcs, TypeOK, Cases

\* A step that moves no case.
LEMMA QuietLists ==
    ASSUME IInv, pc \in {"create", "wait"}, pc' \in {"create", "wait"},
           UNCHANGED <<flags, registered, meOnly, nc, utd, list, wcase, results>>,
           \A w \in Workers : \/ wpc'[w] = wpc[w]
                              \/ wpc[w] = "none" /\ wpc'[w] = "get"
                              \/ wpc[w] = "post" /\ wpc'[w] = "end"
    PROVE  ListsInv'
  <1>0. UNCHANGED <<flags, waiting, left, failed, breakout, failCount, list, wcase, starts, outcome>>
    BY DEF utd, results
  <1>1. /\ UNCHANGED <<Holders, HoldAt({"check", "sort"}), HoldAt({"run"}), HoldAt({"report"})>>
    BY <1>0 DEF Holders, HoldAt
  <1>2. UNCHANGED <<Current, Queued, Singly, Selected, Broken>>
    BY <1>0 DEF Current, Queued, Singly, Selected, Broken, Break
  <1>3. UNCHANGED <<Unreported, Reported>>
    BY <1>0, <1>1 DEF Unreported, Reported, Failure, Current
  <1>4. Registering' /\ OnePlace'
    BY <1>0, <1>1 DEF IInv, ListsInv, Registering, OnePlace
  <1>5. StartedOnce' /\ WorkersCases' /\ SelectedOnly'
    BY <1>0, <1>1, <1>2 DEF IInv, ListsInv, StartedOnce, WorkersCases, SelectedOnly
  <1>6. Accounted'
    BY <1>0, <1>1, <1>2 DEF IInv, ListsInv, Accounted
  <1>7. Summed'
    BY <1>0, <1>2, <1>3 DEF IInv, ListsInv, Summed, Failure, MultiPcs
  <1> QED
    BY <1>4, <1>5, <1>6, <1>7 DEF ListsInv

\* The main thread creates workers and waits, or a worker posts.
LEMMA ThreadStepLists ==
    ASSUME IInv, Threads',
           Create \/ CreateFails \/ Created \/ WaitOne \/ \E w \in Workers : Post(w)
    PROVE  ListsInv' /\ TypeOK'
  <1>0. /\ wpc \in [Workers -> {"none", "get", "check", "sort", "run", "report", "post", "end"}]
        /\ i \in 0..Lines /\ ncore_lines \in 0..Lines /\ created \in 0..Lines /\ posts \in 0..Lines
    BY DEF IInv, TypeOK
  <1>1. CASE Create
    <2>1. /\ pc = "create" /\ pc' = "create" /\ i < ncore_lines /\ i' = i + 1
          /\ created' = created + 1 /\ wpc' = [wpc EXCEPT ![created + 1] = "get"]
          /\ UNCHANGED <<registry, ncore_lines, list, posts, utd, wcase, results>>
      BY <1>1 DEF Create, Step
    <2>2. created + 1 \in Workers /\ wpc[created + 1] = "none" /\ created < Lines
      BY <1>0, <2>1 DEF IInv, Threads, Workers
    <2>3. ListsInv'
      BY <1>0, <2>1, <2>2, QuietLists DEF registry
    <2>4. wpc' \in [Workers -> {"none", "get", "check", "sort", "run", "report", "post", "end"}]
          /\ i' \in 0..Lines /\ created' \in 0..Lines
      BY <1>0, <2>1, <2>2
    <2> QED
      BY <2>1, <2>3, <2>4 DEF registry, utd, results, IInv, TypeOK, MultiPcs
  <1>2. CASE CreateFails \/ Created \/ WaitOne
    <2>1. /\ pc \in {"create", "wait"} /\ pc' \in {"create", "wait"}
          /\ UNCHANGED <<registry, created, list, utd, work, results>>
      BY <1>2 DEF CreateFails, Created, WaitOne, Step
    <2>2. ListsInv'
      BY <2>1, QuietLists DEF registry, work
    <2>3. i' \in 0..Lines /\ ncore_lines' \in 0..Lines /\ posts' \in 0..Lines
      BY <1>0, <1>2 DEF CreateFails, Created, WaitOne
    <2>4. posts' + i' <= Lines \/ pc' = "create"
      BY <2>1 DEF Threads
    <2> QED
      BY <2>1, <2>2, <2>3, <2>4 DEF registry, utd, work, results, IInv, TypeOK, MultiPcs
  <1>3. ASSUME NEW w \in Workers, Post(w) PROVE ListsInv' /\ TypeOK'
    <2>1. /\ pc \in {"create", "wait"} /\ UNCHANGED <<registry, main>>
      BY <1>3, WorkerGoes DEF WorkerStep
    <2>2. /\ wpc[w] = "post" /\ wpc' = [wpc EXCEPT ![w] = "end"] /\ posts' = posts + 1
          /\ UNCHANGED <<utd, wcase, results>>
      BY <1>3 DEF Post, Go, Posted
    <2>3. ListsInv'
      BY <1>0, <2>1, <2>2, QuietLists DEF registry, main
    <2>4. posts' + i' <= Lines \/ pc' = "create"
      BY <2>1 DEF Threads, main
    <2>5. posts' \in 0..Lines
      <3>1. CASE pc = "wait"
        BY <1>0, <2>1, <2>2, <2>4, <3>1 DEF main
      <3>2. CASE pc = "create"
        <4>1. Threads' /\ pc' = "create" /\ created' = created
          BY <2>1, <3>2 DEF main
        <4>2. posts' = Cardinality(Ended')
          BY <4>1 DEF Threads, Ended
        <4>3. Ended' \subseteq 1..created
          <5>1. \A v \in Workers : wpc'[v] = "none" <=> v > created
            BY <4>1 DEF Threads
          <5> QED
            BY <1>0, <5>1 DEF Ended, Workers
        <4>4. IsFiniteSet(1..created) /\ Cardinality(1..created) = created
          BY <1>0, FS_Interval
        <4>5. Cardinality(Ended') <= created
          BY <4>3, <4>4, FS_Subset
        <4> QED
          BY <1>0, <2>2, <4>2, <4>5
      <3> QED
        BY <2>1, <3>1, <3>2
    <2> QED
      BY <1>0, <2>1, <2>2, <2>3, <2>4, <2>5 DEF registry, main, utd, results, IInv, TypeOK, MultiPcs
  <1> QED
    BY <1>1, <1>2, <1>3

\* A worker takes the first case that waits, or finds none.
LEMMA GetLists ==
    ASSUME IInv, NEW w \in Workers, Get(w)
    PROVE  ListsInv' /\ TypeOK'
  <1>0. /\ pc \in {"create", "wait"} /\ wpc[w] = "get" /\ wpc' = [wpc EXCEPT ![w] = "check"]
        /\ wcase' = [wcase EXCEPT ![w] = IF waiting = <<>> THEN 0 ELSE Head(waiting)]
        /\ waiting' = Rest(waiting)
        /\ UNCHANGED <<flags, registered, meOnly, nc, pc, ncore_lines, i, created, list, posts, left,
                       failed, breakout, failCount, starts, outcome>>
    BY WorkerGoes DEF WorkerStep, Get, Go, registry, main, results
  <1>1. /\ Queued = ToSet(waiting) /\ ToSet(failed) = Reported /\ failCount = Cardinality(Reported)
        /\ waiting \in Seq(Cases) /\ left \in Seq(Cases) /\ failed \in Seq(Cases)
        /\ wpc \in [Workers -> {"none", "get", "check", "sort", "run", "report", "post", "end"}]
        /\ wcase \in [Workers -> Cases \cup {0}] /\ 0 \notin Cases
        /\ IsInjective(waiting)
    BY <1>0, Meanwhile DEF IInv, ListsInv, OnePlace
  <1>2. /\ wpc'[w] = "check" /\ \A v \in Workers : v # w => wpc'[v] = wpc[v] /\ wcase'[v] = wcase[v]
    BY <1>0, <1>1
  <1>3. ~Singly' /\ Current' = {} /\ Queued' = ToSet(waiting') /\ UNCHANGED <<Selected, Broken>>
    BY <1>0 DEF Singly, Current, Queued, Selected, Broken, Break
  <1>4. /\ HoldAt({"run"})' = HoldAt({"run"}) /\ HoldAt({"report"})' = HoldAt({"report"})
        /\ w \notin HoldAt({"run"}) /\ w \notin HoldAt({"report"}) /\ w \notin Holders
    BY <1>0, <1>2 DEF HoldAt, Holders
  <1>5. Reported' = Reported
    BY <1>0, <1>2, <1>3, <1>4 DEF Reported, Unreported, Failure, HoldAt
  <1>6. Registering'
    BY <1>0 DEF Registering
  <1>7. Summed'
    BY <1>0, <1>1, <1>3, <1>5 DEF Summed, IInv, ListsInv, Failure
  <1>8. WorkersCases'
    BY <1>0, <1>2 DEF WorkersCases, IInv, ListsInv
  <1>9. CASE waiting = <<>>
    <2>1. waiting' = waiting /\ wcase'[w] = 0
      BY <1>0, <1>1, <1>9 DEF Rest
    <2>2. Holders' = Holders /\ HoldAt({"check", "sort"})' = HoldAt({"check", "sort"})
      BY <1>0, <1>2, <2>1 DEF Holders, HoldAt
    <2>3. \A v \in Holders : wcase'[v] = wcase[v] /\ v # w
      BY <1>2, <1>4 DEF Holders, HoldAt
    <2>4. OnePlace'
      BY <1>0, <2>1, <2>2, <2>3 DEF IInv, ListsInv, OnePlace
    <2>5. StartedOnce'
      BY <1>0, <1>1, <1>2, <1>3, <1>4, <2>1, <2>2, <2>3
      DEF IInv, ListsInv, StartedOnce, HoldAt, Holders
    <2>6. SelectedOnly'
      BY <1>0, <1>3, <2>1, <2>2, <2>3 DEF IInv, ListsInv, SelectedOnly
    <2>7. Accounted'
      BY <1>0, <1>2, <1>3, <1>9, <2>1, <2>2, <2>3 DEF IInv, ListsInv, Accounted, Singly
    <2>8. TypeOK'
      BY <1>0, <1>1, <2>1 DEF IInv, TypeOK, MultiPcs
    <2> QED
      BY <1>6, <1>7, <1>8, <2>4, <2>5, <2>6, <2>7, <2>8 DEF ListsInv
  <1>10. CASE waiting # <<>>
    <2> DEFINE c == Head(waiting)
    <2>1. waiting' = Tail(waiting) /\ wcase'[w] = c
      BY <1>0, <1>1, <1>10 DEF Rest
    <2>2. /\ c \in Cases /\ c \in ToSet(waiting) /\ Tail(waiting) \in Seq(Cases)
          /\ IsInjective(Tail(waiting)) /\ ToSet(Tail(waiting)) = ToSet(waiting) \ {c}
      BY <1>1, <1>10, Unlinked
    <2> HIDE DEF c
    <2>3. /\ Holders' = Holders \cup {w}
          /\ HoldAt({"check", "sort"})' = HoldAt({"check", "sort"}) \cup {w}
      BY <1>0, <1>1, <1>2, <2>1, <2>2 DEF Holders, HoldAt
    <2>4. \A v \in Holders : wcase'[v] = wcase[v] /\ v # w
      BY <1>2, <1>4 DEF Holders, HoldAt
    <2>5. {wcase'[v] : v \in Holders'} = {wcase[v] : v \in Holders} \cup {c}
      BY <2>1, <2>3, <2>4
    <2>6. OnePlace'
      BY <1>0, <2>1, <2>2, <2>3, <2>4 DEF IInv, ListsInv, OnePlace
    <2>7. StartedOnce'
      BY <1>0, <1>1, <1>2, <1>3, <1>4, <2>1, <2>2, <2>3, <2>4
      DEF IInv, ListsInv, StartedOnce, HoldAt, Holders
    <2>8. SelectedOnly'
      BY <1>0, <1>3, <2>1, <2>2, <2>5 DEF IInv, ListsInv, SelectedOnly
    <2>9. Accounted'
      <3>1. \A v \in Workers :
              wpc'[v] \in {"post", "end"} \/ (wpc'[v] = "check" /\ wcase'[v] = 0)
                 => wpc[v] \in {"post", "end"} \/ (wpc[v] = "check" /\ wcase[v] = 0)
        BY <1>1, <1>2, <2>1, <2>2
      <3>2. ToSet(waiting') \cup ToSet(left') \cup {wcase'[v] : v \in Holders'}
              = ToSet(waiting) \cup ToSet(left) \cup {wcase[v] : v \in Holders}
        BY <1>0, <2>1, <2>2, <2>5
      <3> QED
        BY <1>0, <1>3, <1>10, <3>1, <3>2 DEF IInv, ListsInv, Accounted, Singly
    <2>10. TypeOK'
      BY <1>0, <1>1, <1>10, <2>1, <2>2 DEF IInv, TypeOK, MultiPcs, c
    <2> QED
      BY <1>6, <1>7, <1>8, <2>6, <2>7, <2>8, <2>9, <2>10 DEF ListsInv
  <1> QED
    BY <1>9, <1>10

\* A worker leaves, with no case or because a test has broken the run.
LEMMA StopsLists ==
    ASSUME IInv, NEW w \in Workers, Stops(w)
    PROVE  ListsInv' /\ TypeOK'
  <1>0. /\ pc \in {"create", "wait"} /\ wpc[w] = "check" /\ wpc' = [wpc EXCEPT ![w] = "post"]
        /\ wcase[w] = 0 \/ breakout
        /\ UNCHANGED <<flags, registered, meOnly, nc, pc, ncore_lines, i, created, list, posts,
                       waiting, left, failed, breakout, failCount, wcase, starts, outcome>>
    BY WorkerGoes DEF WorkerStep, Stops, Go, registry, main, utd, results
  <1>1. /\ ToSet(failed) = Reported /\ failCount = Cardinality(Reported)
        /\ wpc \in [Workers -> {"none", "get", "check", "sort", "run", "report", "post", "end"}]
    BY <1>0, Meanwhile
  <1>2. wpc'[w] = "post" /\ \A v \in Workers : v # w => wpc'[v] = wpc[v]
    BY <1>0, <1>1
  <1>3. UNCHANGED <<Singly, Current, Queued, Selected, Broken>>
    BY <1>0 DEF Singly, Current, Queued, Selected, Broken, Break
  <1>4. /\ HoldAt({"run"})' = HoldAt({"run"}) /\ HoldAt({"report"})' = HoldAt({"report"})
        /\ Holders' = Holders \ {w} /\ HoldAt({"check", "sort"})' = HoldAt({"check", "sort"}) \ {w}
        /\ wcase[w] = 0 => Holders' = Holders
    BY <1>0, <1>2 DEF HoldAt, Holders
  <1>5. Reported' = Reported
    BY <1>0, <1>3, <1>4 DEF Reported, Unreported, Failure
  <1>6. Registering' /\ WorkersCases'
    BY <1>0, <1>2 DEF Registering, WorkersCases, IInv, ListsInv
  <1>7. OnePlace' /\ StartedOnce' /\ SelectedOnly'
    BY <1>0, <1>3, <1>4 DEF OnePlace, StartedOnce, SelectedOnly, IInv, ListsInv
  <1>8. Accounted'
    <2>1. Broken \/ Holders' = Holders
      BY <1>0, <1>4 DEF IInv, ListsInv, Accounted
    <2>2. waiting = <<>> \/ breakout
      BY <1>0 DEF IInv, ListsInv, Accounted
    <2> QED
      BY <1>0, <1>2, <1>3, <2>1, <2>2 DEF Accounted, IInv, ListsInv
  <1>9. Summed'
    BY <1>0, <1>1, <1>3, <1>5 DEF Summed, IInv, ListsInv, Failure
  <1>10. TypeOK'
    BY <1>0, <1>1 DEF IInv, TypeOK, MultiPcs
  <1> QED
    BY <1>6, <1>7, <1>8, <1>9, <1>10 DEF ListsInv

\* A worker sets a standalone case aside, or begins to execute its case.
LEMMA CheckLists ==
    ASSUME IInv, NEW w \in Workers, Check(w)
    PROVE  ListsInv' /\ TypeOK'
  <1> DEFINE c == wcase[w]
  <1>0. /\ pc \in {"create", "wait"} /\ wpc[w] = "check" /\ c # 0
        /\ \/ wpc' = [wpc EXCEPT ![w] = "sort"] /\ starts' = starts
           \/ /\ wpc' = [wpc EXCEPT ![w] = "run"] /\ "STANDALONE" \notin flags[c]
              /\ starts' = [starts EXCEPT ![c] = @ + 1]
        /\ UNCHANGED <<flags, registered, meOnly, nc, pc, ncore_lines, i, created, list, posts,
                       waiting, left, failed, breakout, failCount, wcase, outcome>>
    BY WorkerGoes DEF WorkerStep, Check, SetAside, Go, registry, main, utd
  <1> HIDE DEF c
  <1>1. /\ ToSet(failed) = Reported /\ failCount = Cardinality(Reported) /\ Queued = ToSet(waiting)
        /\ wpc \in [Workers -> {"none", "get", "check", "sort", "run", "report", "post", "end"}]
        /\ wcase \in [Workers -> Cases \cup {0}] /\ starts \in [Cases -> 0..2]
        /\ ToSet(waiting) \cup ToSet(left) \subseteq Cases
    BY <1>0, Meanwhile, Members
  <1>2. \A v \in Workers : v # w => wpc'[v] = wpc[v]
    BY <1>0, <1>1
  <1>3. UNCHANGED <<Singly, Current, Queued, Selected, Broken>>
    BY <1>0 DEF Singly, Current, Queued, Selected, Broken, Break
  <1>4. /\ HoldAt({"report"})' = HoldAt({"report"}) /\ Holders' = Holders /\ w \in Holders
        /\ w \in HoldAt({"check", "sort"}) /\ c \in Cases /\ c = wcase[w]
    BY <1>0, <1>1 DEF HoldAt, Holders, c
  <1>5. Reported' = Reported
    BY <1>0, <1>3, <1>4 DEF Reported, Unreported, Failure
  <1>6. Registering' /\ OnePlace' /\ WorkersCases'
    BY <1>0, <1>1, <1>4 DEF Registering, OnePlace, WorkersCases, IInv, ListsInv
  <1>7. Accounted'
    BY <1>0, <1>1, <1>3, <1>4 DEF Accounted, IInv, ListsInv
  <1>8. Summed'
    BY <1>0, <1>1, <1>3, <1>5 DEF Summed, IInv, ListsInv, Failure
  <1>9. starts[c] = 0 /\ outcome[c] = "none"
    BY <1>4 DEF IInv, ListsInv, StartedOnce
  <1>10. CASE wpc' = [wpc EXCEPT ![w] = "sort"] /\ starts' = starts
    <2>1. /\ HoldAt({"check", "sort"})' = HoldAt({"check", "sort"})
          /\ HoldAt({"run"})' = HoldAt({"run"})
      BY <1>0, <1>1, <1>10 DEF HoldAt
    <2>2. StartedOnce' /\ SelectedOnly'
      BY <1>0, <1>3, <1>4, <1>10, <2>1 DEF StartedOnce, SelectedOnly, IInv, ListsInv
    <2>3. TypeOK'
      BY <1>0, <1>1, <1>10 DEF IInv, TypeOK, MultiPcs
    <2> QED
      BY <1>6, <1>7, <1>8, <2>2, <2>3 DEF ListsInv
  <1>11. CASE wpc' = [wpc EXCEPT ![w] = "run"] /\ starts' = [starts EXCEPT ![c] = @ + 1]
    <2>1. starts'[c] = 1 /\ \A d \in Cases : d # c => starts'[d] = starts[d]
      BY <1>1, <1>4, <1>9, <1>11
    <2>2. /\ HoldAt({"check", "sort"})' = HoldAt({"check", "sort"}) \ {w}
          /\ HoldAt({"run"})' = HoldAt({"run"}) \cup {w}
      BY <1>0, <1>1, <1>4, <1>11 DEF HoldAt
    <2>3. \A v \in Holders : v # w => wcase[v] # c /\ wcase[v] \in Cases
      BY <1>1, <1>4 DEF IInv, ListsInv, OnePlace, Holders, HoldAt
    <2>4. HoldAt({"check", "sort"}) \subseteq Holders /\ HoldAt({"run"}) \subseteq Holders
      BY DEF Holders, HoldAt
    <2>5. c \notin ToSet(waiting) \cup ToSet(left)
      BY <1>4 DEF IInv, ListsInv, OnePlace
    <2>6. Current' = {} /\ pc' \notin {"singleRun", "singleReport"}
      BY <1>0 DEF Current
    <2>7. StartedOnce'
      <3>1. \A d \in Cases : starts'[d] <= 1 /\ (outcome'[d] # "none" => starts'[d] = 1)
        BY <1>0, <1>9, <2>1 DEF IInv, ListsInv, StartedOnce
      <3>2. \A d \in Queued' \cup ToSet(left') : starts'[d] = 0
        BY <1>0, <1>1, <1>3, <2>1, <2>5 DEF IInv, ListsInv, StartedOnce
      <3>3. \A v \in HoldAt({"check", "sort"})' : starts'[wcase'[v]] = 0
        BY <1>0, <2>1, <2>2, <2>3, <2>4 DEF IInv, ListsInv, StartedOnce
      <3>4. \A v \in HoldAt({"run"})' : starts'[wcase'[v]] = 1 /\ outcome'[wcase'[v]] = "none"
        BY <1>0, <1>4, <1>9, <2>1, <2>2, <2>3, <2>4 DEF IInv, ListsInv, StartedOnce
      <3> QED
        BY <2>6, <3>1, <3>2, <3>3, <3>4 DEF StartedOnce
    <2>8. SelectedOnly'
      BY <1>0, <1>3, <1>4, <2>1 DEF SelectedOnly, IInv, ListsInv
    <2>9. TypeOK'
      <3>1. starts' \in [Cases -> 0..2]
        BY <1>1, <1>4, <1>9, <1>11
      <3> QED
        BY <1>0, <1>1, <1>11, <3>1 DEF IInv, TypeOK, MultiPcs
    <2> QED
      BY <1>6, <1>7, <1>8, <2>7, <2>8, <2>9 DEF ListsInv
  <1> QED
    BY <1>0, <1>10, <1>11

\* A standalone case joins the list of those left to the main thread.
LEMMA SortLists ==
    ASSUME IInv, NEW w \in Workers, Sort(w)
    PROVE  ListsInv' /\ TypeOK'
  <1> DEFINE c == wcase[w]
  <1>0. /\ pc \in {"create", "wait"} /\ wpc[w] = "sort" /\ wpc' = [wpc EXCEPT ![w] = "get"]
        /\ left' = Link(c, left)
        /\ UNCHANGED <<flags, registered, meOnly, nc, pc, ncore_lines, i, created, list, posts,
                       waiting, failed, breakout, failCount, wcase, starts, outcome>>
    BY WorkerGoes DEF WorkerStep, Sort, Go, registry, main, results
  <1> HIDE DEF c
  <1>1. /\ ToSet(failed) = Reported /\ failCount = Cardinality(Reported) /\ Queued = ToSet(waiting)
        /\ wpc \in [Workers -> {"none", "get", "check", "sort", "run", "report", "post", "end"}]
        /\ wcase \in [Workers -> Cases \cup {0}] /\ left \in Seq(Cases)
    BY <1>0, Meanwhile
  <1>2. wpc'[w] = "get" /\ \A v \in Workers : v # w => wpc'[v] = wpc[v]
    BY <1>0, <1>1
  <1>3. UNCHANGED <<Singly, Current, Queued, Selected, Broken>> /\ Current' = {}
    BY <1>0 DEF Singly, Current, Queued, Selected, Broken, Break
  <1>4. c # 0
    BY <1>0 DEF IInv, ListsInv, WorkersCases, c
  <1>5. /\ HoldAt({"run"})' = HoldAt({"run"}) /\ HoldAt({"report"})' = HoldAt({"report"})
        /\ Holders' = Holders \ {w} /\ HoldAt({"check", "sort"})' = HoldAt({"check", "sort"}) \ {w}
        /\ w \in Holders /\ w \in HoldAt({"check", "sort"}) /\ c \in Cases /\ c = wcase[w]
    BY <1>0, <1>1, <1>2, <1>4 DEF HoldAt, Holders, c
  <1>6. c \notin ToSet(waiting) \cup ToSet(left) \cup ToSet(failed) /\ IsInjective(left)
    BY <1>5 DEF IInv, ListsInv, OnePlace
  <1>7. left' \in Seq(Cases) /\ ToSet(left') = ToSet(left) \cup {c} /\ IsInjective(left')
    BY <1>0, <1>1, <1>5, <1>6, Linked
  <1>8. Reported' = Reported
    BY <1>0, <1>3, <1>5 DEF Reported, Unreported, Failure
  <1>9. Registering' /\ WorkersCases'
    BY <1>0, <1>2 DEF Registering, WorkersCases, IInv, ListsInv
  <1>10. OnePlace'
    <2>1. \A v \in Holders' : wcase'[v] # c
      BY <1>0, <1>5 DEF IInv, ListsInv, OnePlace
    <2> QED
      BY <1>0, <1>5, <1>6, <1>7, <2>1 DEF OnePlace, IInv, ListsInv
  <1>11. StartedOnce'
    <2>1. starts[c] = 0
      BY <1>5 DEF IInv, ListsInv, StartedOnce
    <2> QED
      BY <1>0, <1>3, <1>5, <1>7, <2>1 DEF StartedOnce, IInv, ListsInv
  <1>12. ToSet(waiting') \cup ToSet(left') \cup {wcase'[v] : v \in Holders'}
            = ToSet(waiting) \cup ToSet(left) \cup {wcase[v] : v \in Holders}
    BY <1>0, <1>5, <1>7
  <1>13. SelectedOnly'
    BY <1>0, <1>3, <1>12 DEF SelectedOnly, IInv, ListsInv
  <1>14. Accounted'
    BY <1>0, <1>2, <1>3, <1>12 DEF Accounted, Singly, IInv, ListsInv
  <1>15. Summed'
    BY <1>0, <1>1, <1>3, <1>8 DEF Summed, IInv, ListsInv, Failure
  <1>16. TypeOK'
    BY <1>0, <1>1, <1>7 DEF IInv, TypeOK, MultiPcs
  <1> QED
    BY <1>9, <1>10, <1>11, <1>13, <1>14, <1>15, <1>16 DEF ListsInv

\* What the end of a test function leaves.
LEMMA EndsOutcome ==
    ASSUME NEW c \in Cases, Ends(c), outcome \in [Cases -> Outcomes \cup {"none"}],
           outcome[c] = "none"
    PROVE  /\ outcome' \in [Cases -> Outcomes \cup {"none"}] /\ outcome'[c] # "none"
           /\ \A d \in Cases : d # c => outcome'[d] = outcome[d]
           /\ \A d \in Cases : Failure(d) => d # c /\ Failure(d)'
           /\ \A d \in Cases : Break(d) => d # c /\ Break(d)'
           /\ \A d \in Cases : Failure(d)' => d = c \/ Failure(d)
           /\ starts' = starts
  <1>1. PICK o \in Outcomes : outcome' = [outcome EXCEPT ![c] = o]
    BY DEF Ends
  <1>2. outcome'[c] = o /\ \A d \in Cases : d # c => outcome'[d] = outcome[d]
    BY <1>1
  <1> QED
    BY <1>1, <1>2 DEF Ends, Outcomes, Failure, Break

\* A worker's case ends: what it leaves is still to be reported.
LEMMA FinishLists ==
    ASSUME IInv, NEW w \in Workers, Finish(w)
    PROVE  ListsInv' /\ TypeOK'
  <1> DEFINE c == wcase[w]
  <1>0. /\ pc \in {"create", "wait"} /\ wpc[w] = "run" /\ wpc' = [wpc EXCEPT ![w] = "report"]
        /\ Ends(c)
        /\ UNCHANGED <<flags, registered, meOnly, nc, pc, ncore_lines, i, created, list, posts,
                       waiting, left, failed, breakout, failCount, wcase>>
    BY WorkerGoes DEF WorkerStep, Finish, Go, registry, main, utd
  <1> HIDE DEF c
  <1>1. /\ ToSet(failed) = Reported /\ failCount = Cardinality(Reported) /\ Queued = ToSet(waiting)
        /\ wpc \in [Workers -> {"none", "get", "check", "sort", "run", "report", "post", "end"}]
        /\ wcase \in [Workers -> Cases \cup {0}] /\ ~Singly
        /\ outcome \in [Cases -> Outcomes \cup {"none"}]
        /\ Unreported = {wcase[v] : v \in HoldAt({"report"})}
    BY <1>0, Meanwhile
  <1>2. wpc'[w] = "report" /\ \A v \in Workers : v # w => wpc'[v] = wpc[v]
    BY <1>0, <1>1
  <1>3. UNCHANGED <<Singly, Current, Queued, Selected>> /\ Current' = {}
    BY <1>0 DEF Singly, Current, Queued, Selected
  <1>4. c \in Cases /\ c = wcase[w] /\ w \in Holders /\ w \in HoldAt({"run"})
    BY <1>0, <1>1 DEF IInv, ListsInv, WorkersCases, HoldAt, Holders, c
  <1>5. /\ HoldAt({"run"})' = HoldAt({"run"}) \ {w} /\ HoldAt({"report"})' = HoldAt({"report"}) \cup {w}
        /\ Holders' = Holders /\ HoldAt({"check", "sort"})' = HoldAt({"check", "sort"})
    BY <1>0, <1>1, <1>4 DEF HoldAt, Holders
  <1>6. outcome[c] = "none" /\ starts[c] = 1
    BY <1>4 DEF IInv, ListsInv, StartedOnce
  <1>7. /\ outcome' \in [Cases -> Outcomes \cup {"none"}] /\ outcome'[c] # "none"
        /\ \A d \in Cases : d # c => outcome'[d] = outcome[d]
        /\ \A d \in Cases : Failure(d) => d # c /\ Failure(d)'
        /\ \A d \in Cases : Break(d) => d # c /\ Break(d)'
        /\ \A d \in Cases : Failure(d)' => d = c \/ Failure(d)
        /\ starts' = starts
    BY <1>0, <1>1, <1>4, <1>6, EndsOutcome
  <1>8. Broken => Broken'
    BY <1>0, <1>7 DEF Broken
  <1>9. Unreported' = Unreported \cup {c}
    BY <1>0, <1>1, <1>4, <1>5 DEF Unreported
  <1>10. Reported' = Reported
    BY <1>7, <1>9 DEF Reported
  <1>11. \A v \in Holders : v # w => wcase[v] # c /\ wcase[v] \in Cases
    BY <1>1, <1>4 DEF IInv, ListsInv, OnePlace, Holders, HoldAt
  <1>12. Registering' /\ OnePlace'
    BY <1>0, <1>5 DEF Registering, OnePlace, IInv, ListsInv
  <1>13. StartedOnce'
    <2>1. \A d \in Cases : starts'[d] <= 1 /\ (outcome'[d] # "none" => starts'[d] = 1)
      BY <1>6, <1>7 DEF IInv, ListsInv, StartedOnce
    <2>2. \A v \in HoldAt({"run"})' : starts'[wcase'[v]] = 1 /\ outcome'[wcase'[v]] = "none"
      BY <1>0, <1>5, <1>7, <1>11 DEF IInv, ListsInv, StartedOnce, HoldAt, Holders
    <2> QED
      BY <1>0, <1>3, <1>5, <1>7, <2>1, <2>2 DEF StartedOnce, IInv, ListsInv
  <1>14. WorkersCases'
    <2>1. \A v \in Workers : wpc'[v] = "report" => outcome'[wcase'[v]] # "none"
      <3>1. \A v \in Workers : v # w /\ wpc[v] = "report" => v \in Holders /\ outcome[wcase[v]] # "none"
        BY DEF IInv, ListsInv, WorkersCases, Holders, HoldAt
      <3> QED
        BY <1>0, <1>2, <1>4, <1>7, <1>11, <3>1
    <2>2. \A v \in Workers : wpc'[v] \in {"sort", "run", "report"} => wcase'[v] # 0
      BY <1>0, <1>2 DEF IInv, ListsInv, WorkersCases
    <2>3. \A v \in Workers : wpc'[v] = "run" => "STANDALONE" \notin flags'[wcase'[v]]
      BY <1>0, <1>2 DEF IInv, ListsInv, WorkersCases
    <2> QED
      BY <2>1, <2>2, <2>3 DEF WorkersCases
  <1>15. SelectedOnly'
    BY <1>0, <1>3, <1>5, <1>7 DEF SelectedOnly, IInv, ListsInv
  <1>16. Accounted'
    <2>1. \A d \in Cases : outcome[d] # "none" => outcome'[d] # "none"
      BY <1>7
    <2>2. Selected \subseteq Cases
      BY DEF Selected
    <2> QED
      BY <1>0, <1>1, <1>2, <1>3, <1>5, <1>8, <2>1, <2>2 DEF Accounted, IInv, ListsInv
  <1>17. Summed'
    <2>1. \A d \in ToSet(failed') : Failure(d)'
      BY <1>0, <1>1, <1>7 DEF Reported
    <2> QED
      BY <1>0, <1>1, <1>3, <1>10, <2>1 DEF Summed, IInv, ListsInv
  <1>18. TypeOK'
    BY <1>0, <1>1, <1>7 DEF IInv, TypeOK, MultiPcs
  <1> QED
    BY <1>12, <1>13, <1>14, <1>15, <1>16, <1>17, <1>18 DEF ListsInv

\* One more case counts.
LEMMA Counted ==
    ASSUME NEW c \in Cases, failCount = Cardinality(Reported), c \notin Reported
    PROVE  LET after == IF Failure(c) THEN Reported \cup {c} ELSE Reported
           IN  /\ Count(c) = Cardinality(after)
               /\ Count(c) \in 0..NCases
               /\ failCount \in Nat /\ Count(c) >= failCount
  <1>1. IsFiniteSet(Cases) /\ Cardinality(Cases) = NCases
    BY FS_Interval DEF Cases
  <1>2. Reported \subseteq Cases
    BY DEF Reported
  <1>3. IsFiniteSet(Reported) /\ Cardinality(Reported) \in Nat
    BY <1>1, <1>2, FS_Subset, FS_CardinalityType
  <1>4. Cardinality(Reported \cup {c}) = Cardinality(Reported) + 1
    BY <1>3, FS_AddElement
  <1>5. Reported \cup {c} \subseteq Cases
    BY <1>2
  <1>6. Cardinality(Reported) <= NCases /\ Cardinality(Reported \cup {c}) <= NCases
    BY <1>1, <1>2, <1>5, FS_Subset
  <1> QED
    BY <1>3, <1>4, <1>6 DEF Count

\* A worker reports its case.
LEMMA ReportLists ==
    ASSUME IInv, NEW w \in Workers, Report(w)
    PROVE  ListsInv' /\ TypeOK'
  <1> DEFINE c == wcase[w]
  <1>0. /\ pc \in {"create", "wait"} /\ wpc[w] = "report" /\ wpc' = [wpc EXCEPT ![w] = "get"]
        /\ failed' = IF Failure(c) THEN Link(c, failed) ELSE failed
        /\ failCount' = Count(c)
        /\ breakout' = (breakout \/ (Break(c) /\ failCount' # 0))
        /\ UNCHANGED <<flags, registered, meOnly, nc, pc, ncore_lines, i, created, list, posts,
                       waiting, left, wcase, starts, outcome>>
    BY WorkerGoes DEF WorkerStep, Report, Go, registry, main, results
  <1> HIDE DEF c
  <1>1. /\ ToSet(failed) = Reported /\ failCount = Cardinality(Reported) /\ Queued = ToSet(waiting)
        /\ wpc \in [Workers -> {"none", "get", "check", "sort", "run", "report", "post", "end"}]
        /\ wcase \in [Workers -> Cases \cup {0}] /\ ~Singly /\ failed \in Seq(Cases)
        /\ Unreported = {wcase[v] : v \in HoldAt({"report"})}
    BY <1>0, Meanwhile
  <1>2. wpc'[w] = "get" /\ \A v \in Workers : v # w => wpc'[v] = wpc[v]
    BY <1>0, <1>1
  <1>3. UNCHANGED <<Singly, Current, Queued, Selected>> /\ Current' = {}
    BY <1>0 DEF Singly, Current, Queued, Selected
  <1>4. /\ c \in Cases /\ c = wcase[w] /\ w \in Holders /\ w \in HoldAt({"report"})
        /\ outcome[c] # "none"
    BY <1>0, <1>1 DEF IInv, ListsInv, WorkersCases, HoldAt, Holders, c
  <1>5. /\ HoldAt({"run"})' = HoldAt({"run"}) /\ HoldAt({"report"})' = HoldAt({"report"}) \ {w}
        /\ Holders' = Holders \ {w} /\ HoldAt({"check", "sort"})' = HoldAt({"check", "sort"})
    BY <1>0, <1>2, <1>4 DEF HoldAt, Holders
  <1>6. \A v \in Holders : v # w => wcase[v] # c /\ wcase[v] \in Cases
    BY <1>1, <1>4 DEF IInv, ListsInv, OnePlace, Holders, HoldAt
  <1>7. Unreported' = Unreported \ {c} /\ c \in Unreported /\ c \notin Reported
    <2>1. HoldAt({"report"}) \subseteq Holders
      BY DEF Holders, HoldAt
    <2> QED
      BY <1>0, <1>1, <1>4, <1>5, <1>6, <2>1 DEF Unreported, Reported
  <1>8. Reported' = IF Failure(c) THEN Reported \cup {c} ELSE Reported
    BY <1>0, <1>4, <1>7 DEF Reported, Failure
  <1>9. /\ Count(c) = Cardinality(Reported') /\ failCount' \in 0..NCases
        /\ failCount \in Nat /\ failCount' >= failCount
    BY <1>0, <1>1, <1>4, <1>7, <1>8, Counted
  <1>10. /\ c \notin ToSet(waiting) \cup ToSet(left) \cup ToSet(failed) /\ IsInjective(failed)
    BY <1>4 DEF IInv, ListsInv, OnePlace
  <1>11. /\ failed' \in Seq(Cases) /\ IsInjective(failed') /\ ToSet(failed') = Reported'
    BY <1>0, <1>1, <1>4, <1>8, <1>10, Linked
  <1>12. (Broken => Broken') /\ (breakout' => Broken')
    <2>1. Broken => Broken'
      BY <1>0, <1>9 DEF Broken, Break
    <2>2. breakout => Broken
      BY DEF IInv, ListsInv, Accounted
    <2>3. Break(c) /\ failCount' # 0 => Broken'
      BY <1>0, <1>4, <1>9 DEF Broken, Break
    <2> QED
      BY <1>0, <2>1, <2>2, <2>3
  <1>13. Registering' /\ WorkersCases'
    BY <1>0, <1>2 DEF Registering, WorkersCases, IInv, ListsInv
  <1>14. OnePlace'
    <2>1. ToSet(failed') \subseteq ToSet(failed) \cup {c}
      BY <1>1, <1>8, <1>11
    <2> QED
      BY <1>0, <1>5, <1>6, <1>10, <1>11, <2>1 DEF OnePlace, IInv, ListsInv
  <1>15. StartedOnce' /\ SelectedOnly'
    BY <1>0, <1>3, <1>5 DEF StartedOnce, SelectedOnly, IInv, ListsInv
  <1>16. Accounted'
    <2>1. ToSet(waiting) \cup ToSet(left) \cup {wcase[v] : v \in Holders}
            = ToSet(waiting') \cup ToSet(left') \cup {wcase'[v] : v \in Holders'} \cup {c}
      BY <1>0, <1>4, <1>5
    <2> QED
      BY <1>0, <1>1, <1>2, <1>3, <1>4, <1>12, <2>1 DEF Accounted, IInv, ListsInv
  <1>17. Summed'
    <2>1. \A d \in ToSet(failed') : Failure(d)'
      BY <1>11 DEF Reported
    <2> QED
      BY <1>0, <1>1, <1>3, <1>9, <1>11, <2>1 DEF Summed, MultiPcs
  <1>18. TypeOK'
    <2>1. breakout' \in BOOLEAN
      BY <1>0 DEF IInv, TypeOK
    <2> QED
      BY <1>0, <1>1, <1>9, <1>11, <2>1 DEF IInv, TypeOK, MultiPcs
  <1> QED
    BY <1>13, <1>14, <1>15, <1>16, <1>17, <1>18 DEF ListsInv

-----------------------------------------------------------------------------
(* The cases on their way through the lists: the main thread.              *)

\* The main thread takes back what the workers have left it, or drops it.
LEMMA CollectLists ==
    ASSUME IInv, Collect
    PROVE  ListsInv' /\ TypeOK'
  <1>0. /\ pc = "wait" /\ pc' \in {"single", "merge"} /\ AllWaited /\ list' = waiting'
        /\ \/ breakout /\ pc' = "merge" /\ waiting' = <<>> /\ left' = left
           \/ ~breakout /\ pc' = "single" /\ waiting' = Reverse(left) /\ left' = <<>>
        /\ UNCHANGED <<flags, registered, meOnly, nc, ncore_lines, i, created, posts, failed,
                       breakout, failCount, wpc, wcase, starts, outcome>>
    BY DEF Collect, Step, registry, work, results
  <1>1. /\ ToSet(failed) = Reported /\ failCount = Cardinality(Reported) /\ Queued = ToSet(waiting)
        /\ left \in Seq(Cases)
    BY <1>0, Meanwhile
  <1>2. created # 0 /\ \A w \in Workers : wpc[w] \in {"none", "end"} /\ (w <= created => wpc[w] = "end")
    BY <1>0, AllEnded
  <1>3. waiting = <<>> \/ breakout
    <2>1. 1 \in Workers /\ 1 <= created
      BY <1>2 DEF IInv, TypeOK, Workers
    <2>2. wpc[1] = "end"
      BY <1>2, <2>1
    <2> QED
      BY <1>0, <2>1, <2>2 DEF IInv, ListsInv, Accounted
  <1>4. /\ Holders = {} /\ HoldAt({"check", "sort"}) = {} /\ HoldAt({"run"}) = {}
        /\ HoldAt({"report"}) = {} /\ Holders' = {} /\ HoldAt({"check", "sort"})' = {}
        /\ HoldAt({"run"})' = {} /\ HoldAt({"report"})' = {}
    BY <1>0, <1>2 DEF Holders, HoldAt
  <1>5. Current' = {} /\ Queued' = ToSet(waiting') /\ UNCHANGED <<Selected, Broken>>
    BY <1>0 DEF Current, Queued, Selected, Broken, Break
  <1>6. Reported' = Reported
    BY <1>0, <1>4 DEF Reported, Unreported, Failure
  <1>7. /\ waiting' \in Seq(Cases) /\ IsInjective(waiting')
        /\ left' \in Seq(Cases) /\ IsInjective(left')
        /\ ToSet(waiting') \subseteq ToSet(left) /\ ToSet(left') \subseteq ToSet(left)
        /\ ToSet(waiting') \cap ToSet(left') = {}
        /\ ~breakout => ToSet(waiting') = ToSet(left)
    <2>1. IsInjective(left)
      BY DEF IInv, ListsInv, OnePlace
    <2> QED
      BY <1>0, <1>1, <2>1, Reversed, EmptyList
  <1>8. Registering' /\ WorkersCases'
    BY <1>0, <1>2 DEF Registering, WorkersCases
  <1>9. OnePlace'
    BY <1>0, <1>4, <1>7 DEF OnePlace, IInv, ListsInv
  <1>10. StartedOnce' /\ SelectedOnly'
    BY <1>0, <1>4, <1>5, <1>7 DEF StartedOnce, SelectedOnly, IInv, ListsInv
  <1>11. Accounted'
    <2>1. breakout => Broken
      BY DEF IInv, ListsInv, Accounted
    <2> QED
      BY <1>0, <1>3, <1>4, <1>5, <1>7, <2>1, EmptyList DEF Accounted, Singly, IInv, ListsInv
  <1>12. Summed'
    <2>1. ToSet(failed') \cap ToSet(list') = {}
      BY <1>0, <1>7 DEF IInv, ListsInv, OnePlace
    <2>2. \A d \in ToSet(failed') : Failure(d)'
      BY <1>0, <1>1 DEF Reported, Failure
    <2> QED
      BY <1>0, <1>1, <1>6, <2>1, <2>2 DEF Summed, MultiPcs, Singly
  <1>13. TypeOK'
    BY <1>0, <1>7 DEF IInv, TypeOK, MultiPcs, Threads
  <1> QED
    BY <1>8, <1>9, <1>10, <1>11, <1>12, <1>13 DEF ListsInv

\* The failed cases come before those of the list.
LEMMA MergeLists ==
    ASSUME IInv, Merge
    PROVE  ListsInv' /\ TypeOK'
  <1>0. /\ pc = "merge" /\ pc' = "done" /\ list' = Reverse(failed) \o list /\ failed' = <<>>
        /\ UNCHANGED <<flags, registered, meOnly, nc, ncore_lines, i, created, posts, waiting,
                       left, breakout, failCount, wpc, wcase, starts, outcome>>
    BY DEF Merge, Step, registry, work, results
  <1>1. /\ failed \in Seq(Cases) /\ list \in Seq(Cases) /\ IsInjective(failed) /\ IsInjective(list)
        /\ ToSet(failed) \cap ToSet(list) = {} /\ Reported \subseteq ToSet(failed) \cup ToSet(list)
        /\ failCount = Cardinality(Reported)
    BY <1>0 DEF IInv, TypeOK, ListsInv, OnePlace, Summed
  <1>2. /\ \A w \in Workers : wpc[w] \in {"none", "end"}
        /\ Holders = {} /\ HoldAt({"check", "sort"}) = {}
        /\ HoldAt({"run"}) = {} /\ HoldAt({"report"}) = {}
    BY <1>0, NoHolders DEF IInv
  <1>3. UNCHANGED <<Holders, HoldAt({"check", "sort"}), HoldAt({"run"}), HoldAt({"report"}),
                    Current, Queued, Selected, Broken>>
    BY <1>0 DEF Holders, HoldAt, Current, Queued, Selected, Broken, Break
  <1>4. Reported' = Reported
    BY <1>0, <1>3 DEF Reported, Unreported, Failure
  <1>5. Reverse(failed) \in Seq(Cases) /\ ToSet(Reverse(failed)) = ToSet(failed)
        /\ IsInjective(Reverse(failed))
    BY <1>1, Reversed
  <1>6. /\ list' \in Seq(Cases) /\ IsInjective(list') /\ ToSet(list') = ToSet(failed) \cup ToSet(list)
    BY <1>0, <1>1, <1>5, Joined
  <1>7. Registering' /\ WorkersCases'
    BY <1>0, <1>2 DEF Registering, WorkersCases
  <1>8. OnePlace' /\ StartedOnce' /\ SelectedOnly'
    BY <1>0, <1>2, <1>3, <1>6, EmptyList
    DEF OnePlace, StartedOnce, SelectedOnly, IInv, ListsInv
  <1>9. Accounted'
    BY <1>0, <1>2, <1>3 DEF Accounted, Singly, IInv, ListsInv
  <1>10. Summed'
    BY <1>0, <1>1, <1>4, <1>6, EmptyList DEF Summed, Singly, MultiPcs
  <1>11. TypeOK'
    BY <1>0, <1>6, EmptyList DEF IInv, TypeOK, MultiPcs
  <1> QED
    BY <1>7, <1>8, <1>9, <1>10, <1>11 DEF ListsInv

\* What the invariant says in SingleThreadTest.
LEMMA OneByOne ==
    ASSUME IInv, Singly
    PROVE  /\ left = <<>> /\ waiting \in Seq(Cases) /\ IsInjective(waiting)
           /\ \A w \in Workers : wpc[w] \in {"none", "end"}
           /\ Holders = {} /\ HoldAt({"check", "sort"}) = {}
           /\ HoldAt({"run"}) = {} /\ HoldAt({"report"}) = {}
           /\ ToSet(waiting) \subseteq Cases \cap Selected /\ ToSet(waiting) \subseteq ToSet(list)
           /\ ToSet(failed) \cap ToSet(list) = {} /\ Reported \subseteq ToSet(failed) \cup ToSet(list)
           /\ failCount = Cardinality(Reported)
           /\ Unreported = IF pc = "singleReport" THEN Current ELSE {}
           /\ outcome \in [Cases -> Outcomes \cup {"none"}] /\ starts \in [Cases -> 0..2]
  <1>1. pc \notin {"register", "create", "wait"} /\ waiting \in Seq(Cases)
    BY DEF Singly, IInv, TypeOK
  <1>2. /\ \A w \in Workers : wpc[w] \in {"none", "end"}
        /\ Holders = {} /\ HoldAt({"check", "sort"}) = {}
        /\ HoldAt({"run"}) = {} /\ HoldAt({"report"}) = {}
    BY <1>1, NoHolders DEF IInv
  <1>3. ToSet(waiting) \subseteq Cases
    BY <1>1, Members
  <1> QED
    BY <1>1, <1>2, <1>3
    DEF IInv, TypeOK, ListsInv, OnePlace, SelectedOnly, Accounted, Summed, Unreported

\* What a step of SingleThreadTest leaves alone.
LEMMA OneByOneSame ==
    ASSUME IInv, Singly, pc' \notin {"register", "create", "wait"},
           UNCHANGED <<flags, wpc, wcase>>
    PROVE  /\ Registering' /\ WorkersCases'
           /\ Holders' = {} /\ HoldAt({"check", "sort"})' = {}
           /\ HoldAt({"run"})' = {} /\ HoldAt({"report"})' = {}
           /\ Selected' = Selected
  <1>1. \A w \in Workers : wpc[w] \in {"none", "end"}
    BY OneByOne
  <1> QED
    BY <1>1 DEF Registering, WorkersCases, Holders, HoldAt, Selected

\* A standalone case begins.
LEMMA SingleStartLists ==
    ASSUME IInv, SingleStart
    PROVE  ListsInv' /\ TypeOK'
  <1> DEFINE c == Head(waiting)
  <1>0. /\ pc = "single" /\ pc' = "singleRun" /\ waiting # <<>>
        /\ starts' = [starts EXCEPT ![c] = @ + 1] /\ Singly /\ Singly'
        /\ UNCHANGED <<flags, registered, meOnly, nc, ncore_lines, i, created, list, posts, waiting,
                       left, failed, breakout, failCount, wpc, wcase, outcome>>
    BY DEF SingleStart, Step, Starts, registry, work, utd, Singly
  <1>1. /\ left = <<>> /\ waiting \in Seq(Cases) /\ IsInjective(waiting) /\ Holders = {}
        /\ ToSet(waiting) \subseteq Cases \cap Selected /\ Unreported = {}
        /\ starts \in [Cases -> 0..2]
    BY <1>0, OneByOne
  <1>2. c \in Cases /\ c \in ToSet(waiting)
    BY <1>0, <1>1, Unlinked
  <1>3. /\ Registering' /\ WorkersCases'
        /\ Holders' = {} /\ HoldAt({"check", "sort"})' = {}
        /\ HoldAt({"run"})' = {} /\ HoldAt({"report"})' = {} /\ Selected' = Selected
    BY <1>0, OneByOneSame
  <1>4. /\ Current = {} /\ Queued = ToSet(waiting) /\ Current' = {c} /\ Queued' = ToSet(waiting) \ {c}
        /\ Broken' = Broken
    BY <1>0 DEF Current, Queued, Broken, Break
  <1> HIDE DEF c
  <1>5. starts[c] = 0 /\ outcome[c] = "none"
    BY <1>2, <1>4 DEF IInv, ListsInv, StartedOnce
  <1>6. starts'[c] = 1 /\ \A d \in Cases : d # c => starts'[d] = starts[d]
    BY <1>0, <1>1, <1>2, <1>5
  <1>7. OnePlace'
    BY <1>0, <1>1, <1>3 DEF OnePlace, IInv, ListsInv
  <1>8. StartedOnce'
    BY <1>0, <1>1, <1>3, <1>4, <1>5, <1>6, EmptyList DEF StartedOnce, IInv, ListsInv
  <1>9. SelectedOnly' /\ Accounted'
    BY <1>0, <1>1, <1>2, <1>3, <1>4, <1>6 DEF SelectedOnly, Accounted, IInv, ListsInv
  <1>10. Reported' = Reported
    BY <1>0, <1>1, <1>3 DEF Reported, Unreported, Failure
  <1>11. Summed'
    BY <1>0, <1>10 DEF Summed, Singly, MultiPcs, Failure, IInv, ListsInv
  <1>12. TypeOK'
    <2>1. starts' \in [Cases -> 0..2]
      BY <1>0, <1>1, <1>2, <1>5
    <2> QED
      BY <1>0, <2>1 DEF IInv, TypeOK, MultiPcs
  <1> QED
    BY <1>3, <1>7, <1>8, <1>9, <1>11, <1>12 DEF ListsInv

\* It ends.
LEMMA SingleFinishLists ==
    ASSUME IInv, SingleFinish
    PROVE  ListsInv' /\ TypeOK'
  <1> DEFINE c == Head(waiting)
  <1>0. /\ pc = "singleRun" /\ pc' = "singleReport" /\ Ends(c) /\ Singly /\ Singly'
        /\ UNCHANGED <<flags, registered, meOnly, nc, ncore_lines, i, created, list, posts, waiting,
                       left, failed, breakout, failCount, wpc, wcase>>
    BY DEF SingleFinish, Step, registry, work, utd, Singly
  <1>1. /\ left = <<>> /\ waiting \in Seq(Cases) /\ IsInjective(waiting) /\ Holders = {}
        /\ ToSet(waiting) \subseteq Cases \cap Selected /\ Unreported = {}
        /\ outcome \in [Cases -> Outcomes \cup {"none"}]
    BY <1>0, OneByOne
  <1>2. waiting # <<>>
    BY <1>0 DEF IInv, ListsInv, StartedOnce
  <1>3. c \in Cases /\ c \in ToSet(waiting)
    BY <1>1, <1>2, Unlinked
  <1>4. /\ Registering' /\ WorkersCases'
        /\ Holders' = {} /\ HoldAt({"check", "sort"})' = {}
        /\ HoldAt({"run"})' = {} /\ HoldAt({"report"})' = {} /\ Selected' = Selected
    BY <1>0, OneByOneSame
  <1>5. Current = {c} /\ Current' = {c} /\ Queued' = Queued
    BY <1>0 DEF Current, Queued
  <1> HIDE DEF c
  <1>6. outcome[c] = "none" /\ starts[c] = 1
    BY <1>0, <1>5 DEF IInv, ListsInv, StartedOnce
  <1>7. /\ outcome' \in [Cases -> Outcomes \cup {"none"}] /\ outcome'[c] # "none"
        /\ \A d \in Cases : d # c => outcome'[d] = outcome[d]
        /\ \A d \in Cases : Failure(d) => d # c /\ Failure(d)'
        /\ \A d \in Cases : Break(d) => d # c /\ Break(d)'
        /\ \A d \in Cases : Failure(d)' => d = c \/ Failure(d)
        /\ starts' = starts
    BY <1>0, <1>1, <1>3, <1>6, EndsOutcome
  <1>8. Broken => Broken'
    BY <1>0, <1>7 DEF Broken
  <1>9. Unreported' = {c}
    BY <1>0, <1>4, <1>5 DEF Unreported
  <1>10. Reported' = Reported
    BY <1>1, <1>7, <1>9 DEF Reported
  <1>11. OnePlace'
    BY <1>0, <1>1, <1>4 DEF OnePlace, IInv, ListsInv
  <1>12. StartedOnce'
    BY <1>0, <1>1, <1>2, <1>3, <1>4, <1>5, <1>6, <1>7, EmptyList DEF StartedOnce, IInv, ListsInv
  <1>13. SelectedOnly'
    BY <1>0, <1>1, <1>4, <1>7 DEF SelectedOnly, IInv, ListsInv
  <1>14. Accounted'
    <2>1. \A d \in Cases : outcome[d] # "none" => outcome'[d] # "none"
      BY <1>7
    <2>2. Selected \subseteq Cases
      BY DEF Selected
    <2> QED
      BY <1>0, <1>1, <1>4, <1>8, <2>1, <2>2 DEF Accounted, IInv, ListsInv
  <1>15. Summed'
    <2>1. \A d \in ToSet(failed') : Failure(d)'
      <3>1. ToSet(failed) \subseteq Cases
        BY Members DEF IInv, TypeOK
      <3> QED
        BY <1>0, <1>7, <3>1 DEF IInv, ListsInv, Summed
    <2> QED
      BY <1>0, <1>10, <2>1 DEF Summed, MultiPcs, Singly, IInv, ListsInv
  <1>16. TypeOK'
    BY <1>0, <1>7 DEF IInv, TypeOK, MultiPcs
  <1> QED
    BY <1>4, <1>11, <1>12, <1>13, <1>14, <1>15, <1>16 DEF ListsInv

\* It is counted, and the next one comes, or none after a break.
LEMMA SingleReportLists ==
    ASSUME IInv, SingleReport
    PROVE  ListsInv' /\ TypeOK'
  <1> DEFINE c == Head(waiting)
  <1>0. /\ pc = "singleReport" /\ pc' = "single" /\ Singly /\ Singly'
        /\ failCount' = Count(c)
        /\ waiting' = IF Break(c) /\ failCount' # 0 THEN <<>> ELSE Tail(waiting)
        /\ UNCHANGED <<flags, registered, meOnly, nc, ncore_lines, i, created, list, posts,
                       left, failed, breakout, wpc, wcase, starts, outcome>>
    BY DEF SingleReport, Step, registry, work, results, Singly
  <1>1. /\ left = <<>> /\ waiting \in Seq(Cases) /\ IsInjective(waiting) /\ Holders = {}
        /\ ToSet(waiting) \subseteq Cases \cap Selected /\ ToSet(waiting) \subseteq ToSet(list)
        /\ ToSet(failed) \cap ToSet(list) = {} /\ Reported \subseteq ToSet(failed) \cup ToSet(list)
        /\ failCount = Cardinality(Reported) /\ Unreported = Current
    BY <1>0, OneByOne
  <1>2. waiting # <<>>
    BY <1>0 DEF IInv, ListsInv, StartedOnce
  <1>3. /\ c \in Cases /\ c \in ToSet(waiting) /\ Tail(waiting) \in Seq(Cases)
        /\ IsInjective(Tail(waiting)) /\ ToSet(Tail(waiting)) = ToSet(waiting) \ {c}
    BY <1>1, <1>2, Unlinked
  <1>4. /\ Registering' /\ WorkersCases'
        /\ Holders' = {} /\ HoldAt({"check", "sort"})' = {}
        /\ HoldAt({"run"})' = {} /\ HoldAt({"report"})' = {} /\ Selected' = Selected
    BY <1>0, OneByOneSame
  <1>5. Current = {c} /\ Current' = {} /\ Queued = ToSet(waiting) \ {c} /\ Queued' = ToSet(waiting')
    BY <1>0 DEF Current, Queued
  <1> HIDE DEF c
  <1>6. outcome[c] # "none" /\ c \notin Reported
    BY <1>0, <1>1, <1>5 DEF IInv, ListsInv, StartedOnce, Reported
  <1>7. Unreported' = {}
    BY <1>0, <1>4 DEF Unreported
  <1>8. Reported' = IF Failure(c) THEN Reported \cup {c} ELSE Reported
    BY <1>0, <1>1, <1>3, <1>5, <1>7 DEF Reported, Failure
  <1>9. /\ failCount' = Cardinality(Reported') /\ failCount' \in 0..NCases
        /\ failCount \in Nat /\ failCount' >= failCount
    BY <1>0, <1>1, <1>3, <1>6, <1>8, Counted
  <1>10. /\ waiting' \in Seq(Cases) /\ IsInjective(waiting') /\ ToSet(waiting') \subseteq ToSet(waiting) \ {c}
         /\ (Break(c) /\ failCount' # 0) \/ ToSet(waiting') = ToSet(waiting) \ {c}
    BY <1>0, <1>3, EmptyList
  <1>11. (Broken => Broken') /\ (Break(c) /\ failCount' # 0 => Broken')
    BY <1>0, <1>3, <1>9 DEF Broken, Break
  <1>12. OnePlace'
    BY <1>0, <1>1, <1>4, <1>10 DEF OnePlace, IInv, ListsInv
  <1>13. StartedOnce'
    BY <1>0, <1>1, <1>4, <1>5, <1>10, EmptyList DEF StartedOnce, IInv, ListsInv
  <1>14. SelectedOnly'
    BY <1>0, <1>1, <1>4, <1>10 DEF SelectedOnly, IInv, ListsInv
  <1>15. Accounted'
    BY <1>0, <1>1, <1>4, <1>6, <1>10, <1>11 DEF Accounted, IInv, ListsInv
  <1>16. Summed'
    BY <1>0, <1>1, <1>3, <1>8, <1>9, <1>10 DEF Summed, MultiPcs, Singly, Failure, IInv, ListsInv
  <1>17. TypeOK'
    BY <1>0, <1>9, <1>10 DEF IInv, TypeOK, MultiPcs
  <1> QED
    BY <1>4, <1>12, <1>13, <1>14, <1>15, <1>16, <1>17 DEF ListsInv

\* No case is left.
LEMMA SingleEndsLists ==
    ASSUME IInv, SingleEnds
    PROVE  ListsInv' /\ TypeOK'
  <1>0. /\ pc = "single" /\ pc' = "merge" /\ waiting = <<>> /\ Singly
        /\ UNCHANGED <<flags, registered, meOnly, nc, ncore_lines, i, created, list, posts, waiting,
                       left, failed, breakout, failCount, wpc, wcase, starts, outcome>>
    BY DEF SingleEnds, Step, registry, work, utd, results, Singly
  <1>1. /\ left = <<>> /\ Holders = {} /\ HoldAt({"report"}) = {} /\ Unreported = {}
    BY <1>0, OneByOne
  <1>2. /\ Registering' /\ WorkersCases'
        /\ Holders' = {} /\ HoldAt({"check", "sort"})' = {}
        /\ HoldAt({"run"})' = {} /\ HoldAt({"report"})' = {} /\ Selected' = Selected
    BY <1>0, OneByOneSame
  <1>3. UNCHANGED <<Current, Queued, Broken>> /\ Current = {}
    BY <1>0 DEF Current, Queued, Broken, Break
  <1>4. Reported' = Reported
    BY <1>0, <1>1, <1>2 DEF Reported, Unreported, Failure
  <1>5. OnePlace' /\ StartedOnce' /\ SelectedOnly'
    BY <1>0, <1>1, <1>2, <1>3 DEF OnePlace, StartedOnce, SelectedOnly, IInv, ListsInv
  <1>6. Accounted'
    BY <1>0, <1>1, <1>2, <1>3 DEF Accounted, Singly, IInv, ListsInv
  <1>7. Summed'
    BY <1>0, <1>4 DEF Summed, MultiPcs, Singly, Failure, IInv, ListsInv
  <1>8. TypeOK'
    BY <1>0 DEF IInv, TypeOK, MultiPcs
  <1> QED
    BY <1>2, <1>5, <1>6, <1>7, <1>8 DEF ListsInv

-----------------------------------------------------------------------------
(* The invariant and what follows from it.                                 *)

\* The invariant holds at the start of the program.
LEMMA InitIInv == Init => IInv
  <1> SUFFICES ASSUME Init PROVE IInv
    OBVIOUS
  <1>1. /\ flags \in [Cases -> SUBSET {"STANDALONE", "TESTMEONLY"}]
        /\ registered = 0 /\ meOnly = FALSE /\ nc = 0 /\ pc = "register"
        /\ ncore_lines = Lines /\ i = 0 /\ created = 0 /\ posts = 0
        /\ waiting = <<>> /\ left = <<>> /\ failed = <<>> /\ list = <<>>
        /\ breakout = FALSE /\ failCount = 0
        /\ wpc = [w \in Workers |-> "none"] /\ wcase = [w \in Workers |-> 0]
        /\ starts = [c \in Cases |-> 0] /\ outcome = [c \in Cases |-> "none"]
    BY DEF Init
  <1>2. TypeOK
    <2>1. 0 \in 0..Lines /\ Lines \in 0..Lines /\ 0 \in 0..NCases
      OBVIOUS
    <2>2. /\ wpc \in [Workers -> {"none", "get", "check", "sort", "run", "report", "post", "end"}]
          /\ wcase \in [Workers -> Cases \cup {0}] /\ starts \in [Cases -> 0..2]
          /\ outcome \in [Cases -> Outcomes \cup {"none"}]
      BY <1>1
    <2>3. posts + i <= Lines
      BY <1>1
    <2>4. meOnly \in BOOLEAN /\ breakout \in BOOLEAN
      BY <1>1
    <2> QED
      BY <1>1, <2>1, <2>2, <2>3, <2>4, EmptyList DEF TypeOK
  <1>3. UtdOutlivesWorkers /\ WorkersCases
    BY <1>1 DEF UtdOutlivesWorkers, WorkersCases
  <1>4. /\ Holders = {} /\ HoldAt({"check", "sort"}) = {} /\ HoldAt({"run"}) = {}
        /\ HoldAt({"report"}) = {}
    BY <1>1 DEF Holders, HoldAt
  <1>5. Current = {} /\ Queued = {} /\ ~Singly
    BY <1>1, EmptyList DEF Current, Queued, Singly
  <1>6. Threads
    <2>1. {w \in Workers : wpc[w] = "end"} = {}
      BY <1>1
    <2>2. \A w \in Workers : w > 0
      BY DEF Workers
    <2> QED
      <3>1. \A w \in Workers : wpc[w] = "none" <=> w > created
        BY <1>1, <2>2
      <3>2. posts = Cardinality({w \in Workers : wpc[w] = "end"})
        BY <1>1, <2>1, FS_EmptySet
      <3>3. Lines - ncore_lines = i - created /\ i <= ncore_lines + 1 /\ created <= i
            /\ created <= ncore_lines /\ ncore_lines >= 1 /\ created = 0 /\ i = 0
        BY <1>1
      <3> QED
        BY <1>1, <3>1, <3>2, <3>3 DEF Threads
  <1>7. Registering
    <2>1. 1..0 = {}
      OBVIOUS
    <2> QED
      BY <1>1, <2>1, EmptyList DEF Registering
  <1>8. OnePlace /\ StartedOnce
    BY <1>1, <1>4, <1>5, EmptyList DEF OnePlace, StartedOnce
  <1>9. SelectedOnly /\ Accounted
    BY <1>1, <1>5 DEF SelectedOnly, Accounted
  <1>10. Reported = {}
    BY <1>1 DEF Reported, Failure
  <1>11. Summed
    BY <1>1, <1>5, <1>10, EmptyList, FS_EmptySet DEF Summed, MultiPcs
  <1> QED
    BY <1>2, <1>3, <1>6, <1>7, <1>8, <1>9, <1>11 DEF IInv, ListsInv

\* Every step keeps it.
LEMMA NextIInv == IInv /\ [Next]_vars => IInv'
  <1> SUFFICES ASSUME IInv, [Next]_vars PROVE IInv'
    OBVIOUS
  <1>1. Threads' /\ UtdOutlivesWorkers'
    BY NextThreads
  <1>2. CASE UNCHANGED vars
    <2>1. UNCHANGED <<flags, registered, meOnly, nc, pc, ncore_lines, i, created, list, posts,
                      waiting, left, failed, breakout, failCount, wpc, wcase, starts, outcome>>
      BY <1>2 DEF vars, registry, main, utd, work, results
    <2>2. /\ UNCHANGED <<Holders, HoldAt({"check", "sort"}), HoldAt({"run"}), HoldAt({"report"})>>
          /\ UNCHANGED <<Current, Queued, Singly, Selected, Broken>>
      BY <2>1 DEF Holders, HoldAt, Current, Queued, Singly, Selected, Broken, Break
    <2>3. Reported' = Reported
      BY <2>1, <2>2 DEF Reported, Unreported, Failure
    <2>4. TypeOK'
      BY <2>1 DEF IInv, TypeOK, MultiPcs
    <2>5. Registering' /\ OnePlace' /\ StartedOnce' /\ WorkersCases'
      BY <2>1, <2>2 DEF IInv, ListsInv, Registering, OnePlace, StartedOnce, WorkersCases
    <2>6. SelectedOnly' /\ Accounted' /\ Summed'
      BY <2>1, <2>2, <2>3
      DEF IInv, ListsInv, SelectedOnly, Accounted, Summed, Failure, MultiPcs
    <2> QED
      BY <1>1, <2>4, <2>5, <2>6 DEF IInv, ListsInv
  <1>3. ASSUME NEW w \in Workers, WorkerStep(w) PROVE ListsInv' /\ TypeOK'
    BY <1>1, <1>3, GetLists, StopsLists, CheckLists, SortLists, FinishLists, ReportLists,
       ThreadStepLists
    DEF WorkerStep
  <1>4. CASE AddTestCase \/ RunTest
    BY <1>1, <1>4, AddTestCaseLists, RunTestLists DEF IInv
  <1>5. CASE Create \/ CreateFails \/ Created \/ WaitOne
    BY <1>1, <1>5, ThreadStepLists DEF IInv
  <1>6. CASE Collect \/ Merge
    BY <1>1, <1>6, CollectLists, MergeLists DEF IInv
  <1>7. CASE SingleStart \/ SingleFinish \/ SingleReport \/ SingleEnds
    BY <1>1, <1>7, SingleStartLists, SingleFinishLists, SingleReportLists, SingleEndsLists
    DEF IInv
  <1> QED
    BY <1>1, <1>2, <1>3, <1>4, <1>5, <1>6, <1>7 DEF Next, MainStep, IInv

\* It holds in every state.
LEMMA Invariant == Spec => []IInv
  BY InitIInv, NextIInv, PTL DEF Spec

\* The variables keep their types; the failures counted are never more than the cases.
THEOREM TypeCorrect == Spec => []TypeOK
  <1>1. IInv => TypeOK
    BY DEF IInv
  <1> QED
    BY <1>1, Invariant, PTL

\* A case is executed once at most, by a worker or by the main thread (unittest.cpp,
\* PtRunTestThreadProc and SingleThreadTest).
THEOREM NoCaseTwice == Spec => []RunsOnce
  <1>1. IInv => RunsOnce
    BY DEF IInv, ListsInv, StartedOnce, RunsOnce
  <1> QED
    BY <1>1, Invariant, PTL

\* A STANDALONE case is executed while no other one is: the workers set such cases
\* aside, and when SingleThreadTest comes to them every worker has posted.
THEOREM StandaloneRunsAlone == Spec => []StandaloneAlone
  <1>1. ASSUME IInv PROVE StandaloneAlone
    <2>1. CASE pc = "singleRun"
      <3>1. \A w \in Workers : wpc[w] # "run"
        BY <1>1, <2>1, NoHolders DEF IInv
      <3>2. Running = {Head(waiting)}
        BY <2>1, <3>1 DEF Running
      <3>3. Cardinality(Running) = 1
        BY <3>2, FS_Singleton
      <3> QED
        BY <3>3 DEF StandaloneAlone
    <2>2. CASE pc # "singleRun"
      <3>1. \A c \in Running : "STANDALONE" \notin flags[c]
        BY <1>1, <2>2 DEF Running, IInv, ListsInv, WorkersCases
      <3> QED
        BY <3>1 DEF StandaloneAlone
    <2> QED
      BY <2>1, <2>2
  <1> QED
    BY <1>1, Invariant, PTL

\* AddTestCase: once a case has TESTMEONLY, no case without it is executed, whenever
\* it was registered.
THEOREM TestMeOnly == Spec => []OnlySelected
  <1>1. ASSUME IInv PROVE OnlySelected
    <2>1. CASE pc = "register"
      BY <1>1, <2>1 DEF IInv, ListsInv, Registering, OnlySelected
    <2>2. CASE pc # "register"
      BY <1>1, <2>2 DEF IInv, ListsInv, SelectedOnly, OnlySelected
    <2> QED
      BY <2>1, <2>2
  <1> QED
    BY <1>1, Invariant, PTL

\* No case is lost between the lists: at the end of RunTest each selected one has been
\* executed, unless a break has ended the run.
THEOREM NoCaseLost == Spec => []NothingSkipped
  <1>1. ASSUME IInv PROVE NothingSkipped
    <2>1. SUFFICES ASSUME pc = "done", ~Broken
                   PROVE  \A c \in Selected : outcome[c] # "none"
      BY DEF NothingSkipped, Broken
    <2>2. Holders = {} /\ waiting = <<>> /\ left = <<>>
      BY <1>1, <2>1, NoHolders DEF IInv, ListsInv, Accounted
    <2> QED
      BY <1>1, <2>1, <2>2, EmptyList DEF IInv, ListsInv, Accounted
  <1> QED
    BY <1>1, Invariant, PTL

\* RunTest returns the number of failed cases, and its summary has each of them once.
THEOREM SummaryIsComplete == Spec => []SummaryComplete
  <1>1. ASSUME IInv PROVE SummaryComplete
    <2>1. SUFFICES ASSUME pc = "done"
                   PROVE  /\ failCount = Cardinality({c \in Cases : Failure(c)})
                          /\ {c \in Cases : Failure(c)} \subseteq ToSet(list)
                          /\ IsInjective(list)
      BY DEF SummaryComplete
    <2>2. HoldAt({"report"}) = {}
      BY <1>1, <2>1, NoHolders DEF IInv
    <2>3. Unreported = {}
      BY <2>1, <2>2 DEF Unreported
    <2>4. Reported = {c \in Cases : Failure(c)}
      BY <2>3 DEF Reported
    <2> QED
      BY <1>1, <2>1, <2>4 DEF IInv, ListsInv, Summed, OnePlace
  <1> QED
    BY <1>1, Invariant, PTL

\* MultiThreadTest does not leave its loop before every worker it has created has
\* posted, whichever of the calls of Thread::Run have failed.
THEOREM FrameOutlivesWorkers == Spec => []UtdOutlivesWorkers
  <1>1. IInv => UtdOutlivesWorkers
    BY DEF IInv
  <1> QED
    BY <1>1, Invariant, PTL

\* MultiThreadTest does not wait for a post that nobody will make: if every creation
\* that its bound counts has succeeded, and no worker is left, either a post is there
\* or all have been received.
PostsSuffice ==
    pc = "wait" /\ created = ncore_lines /\ (\A w \in Workers : wpc[w] \in {"none", "end"}) =>
        posts > 0 \/ AllWaited

\* This is what keeps RunTerminates from failing, also when a worker leaves because of
\* a break.
THEOREM NoPostMissing == Spec => []PostsSuffice
  <1>1. ASSUME IInv PROVE PostsSuffice
    <2>1. SUFFICES ASSUME pc = "wait", created = ncore_lines,
                          \A w \in Workers : wpc[w] \in {"none", "end"}
                   PROVE  posts > 0 \/ i >= ncore_lines
      BY DEF PostsSuffice, AllWaited
    <2>2. /\ Ended \subseteq 1..created /\ Cardinality(1..created) = created
          /\ created \in Nat /\ created <= Lines
      BY <1>1, EndedWorkers DEF IInv
    <2>3. \A w \in 1..created : w \in Workers /\ wpc[w] # "none"
      BY <1>1, <2>2 DEF IInv, Threads, Workers
    <2>4. Ended = 1..created
      BY <2>1, <2>2, <2>3 DEF Ended
    <2>5. posts + i = created
      BY <1>1, <2>1, <2>2, <2>4 DEF IInv, Threads, Ended
    <2> QED
      BY <1>1, <2>1, <2>5 DEF IInv, TypeOK
  <1> QED
    BY <1>1, Invariant, PTL

-----------------------------------------------------------------------------
(* The abstract runner: every step is one of TestSuite's or changes nothing *)
(* of what it sees.                                                        *)

\* The cases that have begun and not ended.
Executing == {c \in Cases : starts[c] > 0 /\ outcome[c] = "none"}

\* Each of them is with the thread that executes it, and SingleThreadTest runs only
\* when the workers have not been told to stop.
InExecution ==
    /\ Executing \subseteq Running
    /\ Singly => ~breakout

\* While the workers step, they alone execute cases.
LEMMA WorkersRun ==
    ASSUME pc # "singleRun"
    PROVE  Running = {wcase[w] : w \in {v \in Workers : wpc[v] = "run"}}
  BY DEF Running

\* What is executed stays with its thread if no thread begins or ends a case.
LEMMA QuietRun ==
    ASSUME InExecution, pc # "singleRun", pc' # "singleRun", UNCHANGED results,
           \A v \in Workers : wpc[v] = "run" => wpc'[v] = "run" /\ wcase'[v] = wcase[v]
    PROVE  Executing' \subseteq Running'
  <1>1. Executing' = Executing
    BY DEF Executing, results
  <1>2. Running \subseteq Running'
    BY DEF Running
  <1> QED
    BY <1>1, <1>2 DEF InExecution

\* A worker begins and ends only its own case.
LEMMA WorkerInExecution ==
    ASSUME IInv, InExecution, NEW w \in Workers, WorkerStep(w)
    PROVE  InExecution'
  <1>1. pc \in {"create", "wait"} /\ pc' = pc
    BY WorkerGoes DEF main
  <1>2. ~Singly'
    BY <1>1 DEF Singly
  <1>3. /\ wpc \in [Workers -> {"none", "get", "check", "sort", "run", "report", "post", "end"}]
        /\ wcase \in [Workers -> Cases \cup {0}] /\ starts \in [Cases -> 0..2]
        /\ outcome \in [Cases -> Outcomes \cup {"none"}]
    BY DEF IInv, TypeOK
  <1>4. CASE Get(w) \/ Stops(w) \/ Sort(w) \/ Report(w) \/ Post(w)
    <2>1. UNCHANGED results /\ wpc[w] # "run"
          /\ \A v \in Workers : v # w => wpc'[v] = wpc[v] /\ wcase'[v] = wcase[v]
      BY <1>3, <1>4 DEF Get, Stops, Sort, Report, Post, Go, results
    <2> QED
      BY <1>1, <1>2, <2>1, QuietRun DEF InExecution
  <1>5. CASE Check(w)
    <2>1. CASE Go(w, "check", "sort") /\ UNCHANGED starts
      <3>1. UNCHANGED results /\ wpc[w] # "run"
            /\ \A v \in Workers : v # w => wpc'[v] = wpc[v] /\ wcase'[v] = wcase[v]
        BY <1>3, <1>5, <2>1 DEF Check, Go, results
      <3> QED
        BY <1>1, <1>2, <3>1, QuietRun DEF InExecution
    <2>2. CASE Go(w, "check", "run") /\ starts' = [starts EXCEPT ![wcase[w]] = @ + 1]
      <3>1. /\ UNCHANGED <<wcase, outcome>> /\ wpc[w] # "run" /\ wpc'[w] = "run"
            /\ \A v \in Workers : v # w => wpc'[v] = wpc[v]
        BY <1>3, <1>5, <2>2 DEF Check, Go
      <3>2. Executing' \subseteq Executing \cup {wcase[w]}
        BY <1>3, <2>2, <3>1 DEF Executing
      <3>3. Running \cup {wcase[w]} \subseteq Running'
        BY <1>1, <3>1, WorkersRun DEF Running
      <3> QED
        BY <1>2, <3>2, <3>3 DEF InExecution
    <2> QED
      BY <1>5, <2>1, <2>2 DEF Check
  <1>6. CASE Finish(w)
    <2> DEFINE c == wcase[w]
    <2>1. /\ wpc[w] = "run" /\ Ends(c) /\ wcase' = wcase
          /\ \A v \in Workers : v # w => wpc'[v] = wpc[v]
      BY <1>3, <1>6 DEF Finish, Go
    <2>2. c \in Cases /\ outcome[c] = "none"
      BY <1>3, <2>1 DEF IInv, ListsInv, WorkersCases, StartedOnce, HoldAt
    <2>3. /\ outcome'[c] # "none" /\ \A d \in Cases : d # c => outcome'[d] = outcome[d]
          /\ starts' = starts
      BY <1>3, <2>1, <2>2, EndsOutcome
    <2>4. Executing' \subseteq Executing \ {c}
      BY <2>3 DEF Executing
    <2>5. Running \ {c} \subseteq Running'
      BY <1>1, <2>1, WorkersRun DEF Running
    <2> QED
      BY <1>2, <2>4, <2>5 DEF InExecution
  <1> QED
    BY <1>4, <1>5, <1>6 DEF WorkerStep

\* The main thread begins and ends the cases of SingleThreadTest.
LEMMA MainInExecution ==
    ASSUME IInv, InExecution, MainStep
    PROVE  InExecution'
  <1>1. CASE AddTestCase \/ RunTest \/ Create \/ CreateFails \/ Created \/ WaitOne \/ Collect
             \/ Merge \/ SingleReport \/ SingleEnds
    <2>1. pc # "singleRun" /\ pc' # "singleRun" /\ UNCHANGED <<results, wcase, breakout>>
      BY <1>1 DEF AddTestCase, RunTest, Create, CreateFails, Created, WaitOne, Collect, Merge,
                  SingleReport, SingleEnds, Step, work, utd
    <2>2. \A v \in Workers : wpc[v] = "run" => wpc'[v] = "run"
      <3>1. CASE Create
        <4>1. wpc' = [wpc EXCEPT ![created + 1] = "get"] /\ created \in Nat
          BY <3>1 DEF Create, IInv, TypeOK
        <4>2. \A v \in Workers : wpc[v] = "run" => v # created + 1
          BY <4>1 DEF IInv, Threads, Workers
        <4> QED
          BY <4>1, <4>2 DEF IInv, TypeOK
      <3>2. CASE ~Create
        BY <1>1, <3>2 DEF AddTestCase, RunTest, CreateFails, Created, WaitOne, Collect, Merge,
                          SingleReport, SingleEnds, work
      <3> QED
        BY <3>1, <3>2
    <2>3. Executing' \subseteq Running'
      BY <2>1, <2>2, QuietRun
    <2>4. Singly' => ~breakout'
      <3>1. CASE RunTest
        BY <2>1, <3>1 DEF RunTest, IInv, ListsInv, Registering
      <3>2. CASE Collect
        BY <2>1, <3>2 DEF Collect, Step, Singly
      <3>3. CASE ~RunTest /\ ~Collect
        <4>1. Singly' => Singly
          BY <1>1, <3>3 DEF AddTestCase, Create, CreateFails, Created, WaitOne, Merge,
                            SingleReport, SingleEnds, Step, Singly
        <4> QED
          BY <2>1, <4>1 DEF InExecution
      <3> QED
        BY <3>1, <3>2, <3>3
    <2> QED
      BY <2>3, <2>4 DEF InExecution
  <1> DEFINE c == Head(waiting)
  <1>2. CASE SingleStart
    <2>1. /\ pc = "single" /\ pc' = "singleRun" /\ Singly
          /\ starts' = [starts EXCEPT ![c] = @ + 1]
          /\ UNCHANGED <<wpc, wcase, outcome, breakout, waiting>>
      BY <1>2 DEF SingleStart, Step, Starts, Singly, work, utd
    <2>2. starts \in [Cases -> 0..2]
      BY DEF IInv, TypeOK
    <2>3. Executing' \subseteq Executing \cup {c}
      BY <2>1, <2>2 DEF Executing
    <2>4. Running \cup {c} \subseteq Running'
      BY <2>1 DEF Running
    <2> QED
      BY <2>1, <2>3, <2>4 DEF InExecution
  <1>3. CASE SingleFinish
    <2>1. /\ pc = "singleRun" /\ pc' = "singleReport" /\ Singly /\ Ends(c)
          /\ UNCHANGED <<wpc, wcase, breakout, waiting>>
      BY <1>3 DEF SingleFinish, Step, Singly, work, utd
    <2>2. /\ waiting \in Seq(Cases) /\ IsInjective(waiting)
          /\ outcome \in [Cases -> Outcomes \cup {"none"}]
      BY <2>1, OneByOne
    <2>3. waiting # <<>> /\ c \in Current
      BY <2>1 DEF IInv, ListsInv, StartedOnce, Current
    <2>4. c \in Cases /\ outcome[c] = "none"
      BY <2>1, <2>2, <2>3, Unlinked DEF IInv, ListsInv, StartedOnce
    <2>5. /\ outcome'[c] # "none" /\ \A d \in Cases : d # c => outcome'[d] = outcome[d]
          /\ starts' = starts
      BY <2>1, <2>2, <2>4, EndsOutcome
    <2>6. Executing' \subseteq Executing \ {c}
      BY <2>5 DEF Executing
    <2>7. Running \ {c} \subseteq Running'
      BY <2>1 DEF Running
    <2> QED
      BY <2>1, <2>6, <2>7 DEF InExecution
  <1> QED
    BY <1>1, <1>2, <1>3 DEF MainStep

\* Every step keeps each case in execution with its thread.
LEMMA NextInExecution == IInv /\ InExecution /\ [Next]_vars => InExecution'
  <1> SUFFICES ASSUME IInv, InExecution, [Next]_vars PROVE InExecution'
    OBVIOUS
  <1>1. CASE UNCHANGED vars
    BY <1>1 DEF vars, main, work, results, utd, InExecution, Executing, Running, Singly
  <1> QED
    BY <1>1, WorkerInExecution, MainInExecution DEF Next

\* Both modules see the same cases.
LEMMA SameCases ==
    /\ Promise!Cases = Cases /\ Promise!Selected = Selected /\ Promise!Executing = Executing
    /\ Promise!Failures = {c \in Cases : Failure(c)} /\ Promise!Outcomes = Outcomes
    /\ \A c \in Cases : Promise!Standalone(c) <=> "STANDALONE" \in flags[c]
  BY DEF Promise!Cases, Cases, Promise!Selected, Selected, Promise!Executing, Executing,
         Promise!Failures, Failure, Promise!Outcomes, Outcomes, Promise!Standalone

\* Both modules count with the same operator.
LEMMA SameCardinality == \A S : Promise!Cardinality(S) = Cardinality(S)
  BY DEF Promise!Cardinality, Cardinality

\* A break that the runner has seen is one of the abstract runner.
LEMMA BrokenSeen ==
    ASSUME IInv, Broken
    PROVE  Promise!Broken
  <1>1. failCount = Cardinality(Reported) /\ failCount # 0
    BY DEF IInv, ListsInv, Summed, Broken, TypeOK
  <1>2. Reported # {}
    BY <1>1, FS_EmptySet
  <1>3. Promise!Failures # {}
    BY <1>2, SameCases DEF Reported
  <1>4. \E c \in Cases : Break(c)
    BY DEF Broken
  <1> QED
    BY <1>3, <1>4, SameCases DEF Promise!Broken, Break

\* A case ends, by whichever thread.
LEMMA EndsImplements ==
    ASSUME TypeOK, NEW c \in Cases, Ends(c), starts[c] = 1, outcome[c] = "none",
           Phase = "running", UNCHANGED <<flags, breakout, Phase, Total, Summary>>
    PROVE  Promise!Next
  <1>1. c \in Promise!Executing
    BY SameCases DEF Executing
  <1>2. \E o \in Promise!Outcomes : outcome' = [outcome EXCEPT ![c] = o]
    BY SameCases DEF Ends
  <1>3. Promise!End(c)
    BY <1>1, <1>2 DEF Promise!End, Promise!results, Ends
  <1> QED
    BY <1>3, SameCases DEF Promise!Next

\* A case begins, beside none that is executed, or is none that must be alone.
LEMMA StartsImplements ==
    ASSUME TypeOK, NEW c \in Selected, starts[c] = 0, starts' = [starts EXCEPT ![c] = @ + 1],
           Phase = "running", ~breakout,
           Executing = {} \/ \A d \in Executing \cup {c} : "STANDALONE" \notin flags[d],
           UNCHANGED <<flags, breakout, outcome, Phase, Total, Summary>>
    PROVE  Promise!Next
  <1>1. c \in Cases /\ starts' = [starts EXCEPT ![c] = 1]
    BY DEF Selected, TypeOK
  <1>2. \A d \in Promise!Executing : ~Promise!Standalone(c) /\ ~Promise!Standalone(d)
    BY <1>1, SameCases DEF Executing
  <1>3. Promise!Start(c)
    BY <1>1, <1>2, SameCases DEF Promise!Start, Promise!results
  <1> QED
    BY <1>1, <1>3, SameCases DEF Promise!Next

\* Every step of a worker is one of TestSuite or changes nothing of it.
LEMMA WorkerImplements ==
    ASSUME IInv, IInv', InExecution, NEW w \in Workers, WorkerStep(w)
    PROVE  Promise!Next \/ UNCHANGED Promise!vars
  <1>1. pc \in {"create", "wait"} /\ pc' = pc /\ flags' = flags
    BY WorkerGoes DEF main, registry
  <1>2. /\ Phase = "running" /\ Phase' = "running" /\ Total = 0 /\ Total' = 0
        /\ Summary = {} /\ Summary' = {}
    BY <1>1 DEF Phase, Total, Summary
  <1>3. /\ wcase \in [Workers -> Cases \cup {0}] /\ starts \in [Cases -> 0..2] /\ TypeOK
        /\ breakout \in BOOLEAN
    BY DEF IInv, TypeOK
  <1>4. CASE Get(w) \/ Stops(w) \/ Sort(w) \/ Post(w)
    <2>1. UNCHANGED <<starts, outcome, breakout>>
      BY <1>4 DEF Get, Stops, Sort, Post, results, utd
    <2> QED
      BY <1>1, <1>2, <2>1 DEF Promise!vars, Promise!results
  <1>5. CASE Check(w)
    <2> DEFINE c == wcase[w]
    <2>1. /\ wpc[w] = "check" /\ c # 0 /\ ~breakout /\ UNCHANGED <<breakout, outcome>>
          /\ \/ starts' = starts
             \/ "STANDALONE" \notin flags[c] /\ starts' = [starts EXCEPT ![c] = @ + 1]
      BY <1>5 DEF Check, SetAside, Go, utd
    <2>2. CASE starts' = starts
      BY <1>1, <1>2, <2>1, <2>2 DEF Promise!vars, Promise!results
    <2>3. CASE "STANDALONE" \notin flags[c] /\ starts' = [starts EXCEPT ![c] = @ + 1]
      <3>1. w \in HoldAt({"check", "sort"}) /\ w \in Holders
        BY <2>1 DEF HoldAt, Holders
      <3>2. c \in Selected /\ starts[c] = 0
        BY <1>1, <3>1 DEF IInv, ListsInv, SelectedOnly, StartedOnce
      <3>3. \A d \in Executing : "STANDALONE" \notin flags[d]
        BY <1>1, WorkersRun DEF InExecution, IInv, ListsInv, WorkersCases
      <3> QED
        BY <1>1, <1>2, <1>3, <2>1, <2>3, <3>2, <3>3, StartsImplements
    <2> QED
      BY <2>1, <2>2, <2>3
  <1>6. CASE Finish(w)
    <2> DEFINE c == wcase[w]
    <2>1. wpc[w] = "run" /\ Ends(c) /\ breakout' = breakout
      BY <1>6 DEF Finish, Go, utd
    <2>2. c \in Cases /\ outcome[c] = "none" /\ starts[c] = 1
      BY <1>3, <2>1 DEF IInv, ListsInv, WorkersCases, StartedOnce, HoldAt
    <2> QED
      BY <1>1, <1>2, <1>3, <2>1, <2>2, EndsImplements
  <1>7. CASE Report(w)
    <2>1. UNCHANGED <<starts, outcome>> /\ (breakout => breakout')
      BY <1>7 DEF Report, results
    <2>2. CASE breakout' = breakout
      BY <1>1, <1>2, <2>1, <2>2 DEF Promise!vars, Promise!results
    <2>3. CASE breakout' # breakout
      <3>1. breakout' = TRUE
        BY <1>3, <2>1, <2>3 DEF IInv, TypeOK
      <3>2. Broken'
        BY <3>1 DEF IInv, ListsInv, Accounted
      <3>3. failCount' = Cardinality(Reported') /\ failCount' # 0
        BY <3>2 DEF IInv, ListsInv, Summed, Broken, TypeOK
      <3>4. Promise!Broken
        <4>1. Reported' # {}
          BY <3>3, FS_EmptySet
        <4>2. Promise!Failures # {}
          BY <2>1, <4>1, SameCases DEF Reported, Failure
        <4>3. \E c \in Cases : Break(c)
          BY <2>1, <3>2 DEF Broken, Break
        <4> QED
          BY <4>2, <4>3, SameCases DEF Promise!Broken, Break
      <3>5. Promise!Stop
        BY <1>1, <1>2, <2>1, <3>1, <3>4 DEF Promise!Stop, Promise!results
      <3> QED
        BY <3>5 DEF Promise!Next
    <2> QED
      BY <2>2, <2>3
  <1> QED
    BY <1>4, <1>5, <1>6, <1>7 DEF WorkerStep

\* Every step of the main thread is one of TestSuite or changes nothing of it.
LEMMA MainImplements ==
    ASSUME IInv, IInv', InExecution, MainStep
    PROVE  Promise!Next \/ UNCHANGED Promise!vars
  <1>0. TypeOK /\ flags' = flags /\ breakout' = breakout
    BY DEF IInv, MainStep, AddTestCase, RunTest, Create, CreateFails, Created, WaitOne, Collect,
           Merge, SingleStart, SingleFinish, SingleReport, SingleEnds, registry, utd
  <1>1. CASE AddTestCase \/ Create \/ CreateFails \/ Created \/ WaitOne \/ Collect \/ SingleReport
             \/ SingleEnds
    <2>1. /\ UNCHANGED <<starts, outcome>> /\ pc # "done" /\ pc' # "done"
          /\ pc = "register" <=> pc' = "register"
      BY <1>1 DEF AddTestCase, Create, CreateFails, Created, WaitOne, Collect, SingleReport,
                  SingleEnds, Step, results
    <2>2. UNCHANGED <<Phase, Total, Summary>>
      BY <2>1 DEF Phase, Total, Summary
    <2> QED
      BY <1>0, <2>1, <2>2 DEF Promise!vars, Promise!results
  <1>2. CASE RunTest
    <2>1. pc = "register" /\ pc' \in {"single", "create"} /\ UNCHANGED <<starts, outcome>>
      BY <1>2 DEF RunTest, results
    <2>2. Phase = "open" /\ Phase' = "running" /\ UNCHANGED <<Total, Summary>>
      BY <2>1 DEF Phase, Total, Summary
    <2>3. Promise!Open
      BY <1>0, <2>1, <2>2 DEF Promise!Open, Promise!results
    <2> QED
      BY <2>3 DEF Promise!Next
  <1> DEFINE c == Head(waiting)
  <1>3. CASE SingleStart
    <2>1. /\ pc = "single" /\ pc' = "singleRun" /\ Singly /\ waiting # <<>>
          /\ starts' = [starts EXCEPT ![c] = @ + 1] /\ outcome' = outcome
      BY <1>3 DEF SingleStart, Step, Starts, Singly
    <2>2. /\ Phase = "running" /\ UNCHANGED <<Phase, Total, Summary>> /\ ~breakout
      BY <2>1 DEF Phase, Total, Summary, InExecution
    <2>3. /\ waiting \in Seq(Cases) /\ IsInjective(waiting)
          /\ \A w \in Workers : wpc[w] \in {"none", "end"}
          /\ ToSet(waiting) \subseteq Cases \cap Selected
      BY <2>1, OneByOne
    <2>4. c \in ToSet(waiting)
      BY <2>1, <2>3, Unlinked
    <2>5. c \in Selected /\ starts[c] = 0
      BY <2>1, <2>3, <2>4 DEF IInv, ListsInv, StartedOnce, Queued, Current
    <2>6. Executing = {}
      BY <2>1, <2>3 DEF InExecution, Running
    <2> QED
      BY <1>0, <2>1, <2>2, <2>5, <2>6, StartsImplements
  <1>4. CASE SingleFinish
    <2>1. pc = "singleRun" /\ pc' = "singleReport" /\ Ends(c) /\ Singly
      BY <1>4 DEF SingleFinish, Step, Singly
    <2>2. Phase = "running" /\ UNCHANGED <<Phase, Total, Summary>>
      BY <2>1 DEF Phase, Total, Summary
    <2>3. waiting \in Seq(Cases) /\ IsInjective(waiting) /\ waiting # <<>> /\ c \in Current
      BY <2>1, OneByOne DEF IInv, ListsInv, StartedOnce, Current
    <2>4. c \in Cases /\ outcome[c] = "none" /\ starts[c] = 1
      BY <2>1, <2>3, Unlinked DEF IInv, ListsInv, StartedOnce
    <2> QED
      BY <1>0, <2>1, <2>2, <2>4, EndsImplements
  <1>5. CASE Merge
    <2>1. pc = "merge" /\ pc' = "done" /\ UNCHANGED <<starts, outcome>>
      BY <1>5 DEF Merge, Step, results
    <2>2. Phase = "running" /\ Phase' = "closed"
      BY <2>1 DEF Phase
    <2>3. Executing = {}
      <3>1. \A w \in Workers : wpc[w] \in {"none", "end"}
        BY <2>1, NoHolders DEF IInv
      <3> QED
        BY <2>1, <3>1 DEF InExecution, Running
    <2>4. Promise!Broken \/ \A d \in Selected : outcome[d] # "none"
      <3>1. CASE Broken
        BY <3>1, BrokenSeen
      <3>2. CASE ~Broken
        <4>1. Holders = {} /\ waiting = <<>> /\ left = <<>>
          BY <2>1, <3>2, NoHolders DEF IInv, ListsInv, Accounted
        <4> QED
          BY <2>1, <3>2, <4>1, EmptyList DEF IInv, ListsInv, Accounted
      <3> QED
        BY <3>1, <3>2
    <2>5. /\ failCount' = Cardinality({d \in Cases : Failure(d)})
          /\ {d \in ToSet(list') : Failure(d)'} = {d \in Cases : Failure(d)}
      <3>1. HoldAt({"report"})' = {}
        BY <2>1 DEF IInv, UtdOutlivesWorkers, HoldAt
      <3>2. Reported' = {d \in Cases : Failure(d)}
        BY <2>1, <3>1 DEF Reported, Unreported, Failure
      <3>3. failCount' = Cardinality(Reported') /\ Reported' \subseteq ToSet(list')
        BY <2>1 DEF IInv, ListsInv, Summed
      <3>4. ToSet(list') \subseteq Cases
        BY Members DEF IInv, TypeOK
      <3> QED
        BY <2>1, <3>2, <3>3, <3>4 DEF Failure
    <2>6. Total' = Promise!Cardinality(Promise!Failures) /\ Summary' = Promise!Failures
      BY <2>1, <2>5, SameCases, SameCardinality DEF Total, Summary
    <2>7. Promise!Close
      BY <1>0, <2>1, <2>2, <2>3, <2>4, <2>6, SameCases DEF Promise!Close
    <2> QED
      BY <2>7 DEF Promise!Next
  <1> QED
    BY <1>1, <1>2, <1>3, <1>4, <1>5 DEF MainStep

\* RunTest implements TestSuite, for any cases, flags, outcomes and workers: nothing
\* of what is promised depends on how the workers' steps and the main thread's mix.
THEOREM ImplementsPromise == Spec => ImplementsTestSuite
  <1>1. Init => InExecution /\ Promise!Init
    <2> SUFFICES ASSUME Init PROVE InExecution /\ Promise!Init
      OBVIOUS
    <2>1. Phase = "open" /\ Total = 0 /\ Summary = {}
      BY DEF Init, Phase, Total, Summary
    <2>2. Executing = {} /\ ~Singly
      BY DEF Init, Executing, Singly
    <2> QED
      BY <2>1, <2>2, SameCases DEF Init, InExecution, Promise!Init, Promise!Cases, Cases
  <1>2. IInv /\ InExecution /\ [Next]_vars => InExecution'
    BY NextInExecution
  <1>3. IInv /\ InExecution /\ [Next]_vars => [Promise!Next]_(Promise!vars)
    <2> SUFFICES ASSUME IInv, InExecution, [Next]_vars
                 PROVE  Promise!Next \/ UNCHANGED Promise!vars
      OBVIOUS
    <2>1. CASE UNCHANGED vars
      BY <2>1 DEF vars, registry, main, utd, results, Promise!vars, Promise!results, Phase,
                  Total, Summary, Failure
    <2> QED
      BY <2>1, NextIInv, WorkerImplements, MainImplements DEF Next
  <1> QED
    BY <1>1, <1>2, <1>3, Invariant, PTL DEF Spec, ImplementsTestSuite, Promise!Spec
=============================================================================
