--------------------------- MODULE AlgorithmsProofs ---------------------------
(* Proofs about the other algorithms of a case, for inputs of any size: matches *)
(* and lines of processes (Correlation), queries (CaseQueries) and rule files   *)
(* (RuleFormat). Induction and folds are those of LayoutProofs. The theorems    *)
(* about Spec say it of every log and case of MCAlgorithms.                     *)
EXTENDS LayoutProofs, TLAPS

-----------------------------------------------------------------------------
(* Lines of processes. Events in order of time; the table of a replay holds,   *)
(* for each number, the last that was created under it and has not ended.      *)

AreEvents(S) ==
    IsFiniteSet(S) /\ (\A e \in S : e.id \in Nat /\ e.at \in Nat) /\ \A e, f \in S : e.id = f.id => e = f
EarlierIn(S) == {p \in S \X S : Earlier(p[1], p[2])}
IsLog(events) ==
    /\ events \in Seq(ToSet(events)) /\ AreEvents(ToSet(events))
    /\ \A i, j \in 1 .. Len(events) : i < j => Earlier(events[i], events[j])

LEMMA LogIs ==
    ASSUME NEW events, IsLog(events)
    PROVE  /\ Len(events) \in Nat /\ DOMAIN events = 1 .. Len(events)
           /\ ToSet(events) = {events[i] : i \in 1 .. Len(events)}
           /\ \A i \in 1 .. Len(events) : events[i] \in ToSet(events) /\ events[i].at \in Nat
           /\ \A i, j \in 1 .. Len(events) : i < j => events[i].at <= events[j].at
           /\ \A i, j \in 1 .. Len(events) : events[i] = events[j] => i = j
<1>1. /\ Len(events) \in Nat /\ DOMAIN events = 1 .. Len(events)
      /\ ToSet(events) = {events[i] : i \in 1 .. Len(events)}
  BY DEF IsLog, ToSet
<1>2. \A i \in 1 .. Len(events) : events[i] \in ToSet(events) /\ events[i].at \in Nat /\ events[i].id \in Nat
  BY <1>1 DEF IsLog, AreEvents
<1>3. \A i, j \in 1 .. Len(events) : i < j => events[i].at <= events[j].at /\ events[i] # events[j]
  <2>1. ASSUME NEW i \in 1 .. Len(events), NEW j \in 1 .. Len(events), i < j
        PROVE  events[i].at <= events[j].at /\ events[i] # events[j]
    <3>1. Earlier(events[i], events[j])
      BY <2>1 DEF IsLog
    <3>2. QED BY <1>2, <3>1 DEF Earlier
  <2>2. QED BY <2>1
<1>4. \A i, j \in 1 .. Len(events) : i < j \/ i = j \/ j < i
  BY <1>1
<1>5. QED BY <1>1, <1>2, <1>3, <1>4

LEMMA EarlierIsStrict ==
    ASSUME NEW S, AreEvents(S)
    PROVE  /\ StrictOrder(S, EarlierIn(S))
           /\ \A x \in S : Below(S, EarlierIn(S), x) = {y \in S : Earlier(y, x)}
<1>1. \A e \in S : e.id \in Nat /\ e.at \in Nat
  BY DEF AreEvents
<1>2. \A e \in S : ~Earlier(e, e)
  BY <1>1 DEF Earlier
<1>3. \A e, f \in S : e # f => Earlier(e, f) \/ Earlier(f, e)
  BY <1>1 DEF Earlier, AreEvents
<1>4. \A e, f, g \in S : Earlier(e, f) /\ Earlier(f, g) => Earlier(e, g)
  BY <1>1 DEF Earlier
<1>5. \A e, f \in S : <<e, f>> \in EarlierIn(S) <=> Earlier(e, f)
  BY DEF EarlierIn
<1>6. QED BY <1>2, <1>3, <1>4, <1>5 DEF StrictOrder, Below

LEMMA EarlierLists ==
    ASSUME NEW S, AreEvents(S)
    PROVE  /\ Lists(Ordered(S, Earlier), S)
           /\ \A i, j \in 1 .. Len(Ordered(S, Earlier)) : i < j => Earlier(Ordered(S, Earlier)[i], Ordered(S, Earlier)[j])
<1> DEFINE seq == Ordered(S, Earlier)
           R == EarlierIn(S)
           n == Cardinality(S)
<1>1. StrictOrder(S, R) /\ \A x \in S : Below(S, R, x) = {y \in S : Earlier(y, x)}
  BY EarlierIsStrict
<1>2. IsFiniteSet(S)
  BY DEF AreEvents
<1>3. seq = [i \in 1 .. n |-> CHOOSE x \in S : Cardinality({y \in S : Earlier(y, x)}) = i - 1]
  BY DEF Ordered
<1>4. ASSUME NEW i \in 1 .. n PROVE seq[i] \in S /\ Cardinality(Below(S, R, seq[i])) = i - 1
  <2>1. \E x \in S : Cardinality(Below(S, R, x)) = i - 1
    <3> HIDE DEF R
    <3>1. QED BY <1>1, <1>2, PlacesAreTaken
  <2>2. \E x \in S : Cardinality({y \in S : Earlier(y, x)}) = i - 1
    BY <1>1, <2>1
  <2>3. seq[i] = CHOOSE x \in S : Cardinality({y \in S : Earlier(y, x)}) = i - 1
    BY <1>3
  <2> HIDE DEF seq, R
  <2>4. seq[i] \in S /\ Cardinality({y \in S : Earlier(y, seq[i])}) = i - 1
    BY <2>2, <2>3
  <2>5. QED BY <1>1, <2>4
<1>5. DOMAIN seq = 1 .. n /\ seq = [i \in 1 .. n |-> seq[i]]
  BY <1>3
<1> HIDE DEF seq, R
<1>6. Lists(seq, S) /\ \A i, j \in 1 .. Len(seq) : i < j => <<seq[i], seq[j]>> \in R
  BY <1>1, <1>2, <1>4, <1>5, PlacedIsListed
<1>7. QED BY <1>6 DEF seq, R, EarlierIn

LEMMA ListedIsLog ==
    ASSUME NEW S, AreEvents(S), NEW seq, Lists(seq, S), \A i, j \in 1 .. Len(seq) : i < j => Earlier(seq[i], seq[j])
    PROVE  IsLog(seq) /\ ToSet(seq) = S
<1>1. seq \in Seq(S) /\ \A x \in S : \E i \in 1 .. Len(seq) : seq[i] = x
  BY DEF Lists
<1>2. ToSet(seq) = {seq[i] : i \in 1 .. Len(seq)}
  BY <1>1 DEF ToSet
<1>3. ToSet(seq) = S
  BY <1>1, <1>2
<1>4. QED BY <1>1, <1>3 DEF IsLog

LEMMA LogsArePrepared ==
    ASSUME NEW E, NEW things0 \in Seq(E), \A e \in E : e.id \in Nat /\ e.at \in Nat,
           \A i, j \in DOMAIN things0 : things0[i].id = things0[j].id => i = j
    PROVE  IsLog(Prepare(things0)) /\ ToSet(Prepare(things0)) = {e \in ToSet(things0) : e.at # Undated}
<1> DEFINE S == {e \in ToSet(things0) : e.at # Undated}
           seq == Prepare(things0)
<1>1. ToSet(things0) \subseteq E /\ ToSet(things0) = {things0[i] : i \in 1 .. Len(things0)}
  BY DEF ToSet
<1>2. IsFiniteSet(ToSet(things0))
  <2>1. things0 \in Surjection(1 .. Len(things0), ToSet(things0)) /\ Len(things0) \in Nat
    BY <1>1 DEF Surjection
  <2>2. IsFiniteSet(1 .. Len(things0))
    BY <2>1, FS_Interval
  <2>3. QED BY <2>1, <2>2, FS_Surjection
<1>3. \A e, f \in ToSet(things0) : e.id = f.id => e = f
  BY DEF ToSet
<1>4. AreEvents(S)
  <2>1. IsFiniteSet(S)
    BY <1>2, FS_Subset
  <2>2. QED BY <1>1, <1>3, <2>1 DEF AreEvents
<1>5. seq = Ordered(S, Earlier)
  BY DEF Prepare
<1> HIDE DEF S, seq
<1>6. Lists(seq, S) /\ \A i, j \in 1 .. Len(seq) : i < j => Earlier(seq[i], seq[j])
  BY <1>4, <1>5, EarlierLists
<1>7. IsLog(seq) /\ ToSet(seq) = S
  BY <1>4, <1>6, ListedIsLog
<1>8. QED BY <1>7 DEF seq, S

\* What happened to a number up to a time, among the first k events.
Marks(events, pid, t, k) ==
    {j \in 1 .. k : events[j].at <= t /\ events[j].event \in {"create", "exit"} /\ ChildPid(events[j]) = pid}
Tables(pids, n) == [pids -> 0 .. n]
TableStep(events, t, table, i) ==
    IF events[i].at > t \/ events[i].event \notin {"create", "exit"} THEN table
    ELSE [table EXCEPT ![ChildPid(events[i])] = IF events[i].event = "create" THEN i ELSE 0]
Tabled(events, pids, t, k, table) ==
    \A pid \in pids :
       /\ table[pid] = 0 => \A j \in Marks(events, pid, t, k) :
                                events[j].event = "create" => \E m \in Marks(events, pid, t, k) : m > j
       /\ table[pid] # 0 => /\ table[pid] \in Marks(events, pid, t, k) /\ events[table[pid]].event = "create"
                            /\ \A m \in Marks(events, pid, t, k) : m <= table[pid]

LEMMA TableStaysTabled ==
    ASSUME NEW events, NEW n \in Nat, NEW pids, NEW t, NEW k \in 1 .. n, NEW table \in Tables(pids, n),
           ChildPid(events[k]) \in pids, events[k].at \in Nat, t \in Nat, Tabled(events, pids, t, k - 1, table)
    PROVE  Tabled(events, pids, t, k, TableStep(events, t, table, k))
<1> DEFINE next == TableStep(events, t, table, k)
           old(pid) == Marks(events, pid, t, k - 1)
           new(pid) == Marks(events, pid, t, k)
           counts == ~(events[k].at > t \/ events[k].event \notin {"create", "exit"})
           c == ChildPid(events[k])
<1>1. ASSUME NEW pid \in pids
      PROVE  /\ new(pid) = IF counts /\ c = pid THEN old(pid) \cup {k} ELSE old(pid)
             /\ \A j \in old(pid) : j \in Nat /\ j < k
             /\ next[pid] = IF counts /\ c = pid THEN (IF events[k].event = "create" THEN k ELSE 0) ELSE table[pid]
  <2>1. 1 .. k = (1 .. (k - 1)) \cup {k}
    OBVIOUS
  <2>2. new(pid) = IF counts /\ c = pid THEN old(pid) \cup {k} ELSE old(pid)
    <3>1. new(pid) = old(pid) \cup {j \in {k} : events[j].at <= t /\ events[j].event \in {"create", "exit"}
                                                /\ ChildPid(events[j]) = pid}
      BY <2>1 DEF Marks
    <3>2. counts <=> events[k].at <= t /\ events[k].event \in {"create", "exit"}
      OBVIOUS
    <3> HIDE DEF counts
    <3>3. QED BY <3>1, <3>2
  <2>3. \A j \in old(pid) : j \in Nat /\ j < k
    BY DEF Marks
  <2>4. next[pid] = IF counts /\ c = pid THEN (IF events[k].event = "create" THEN k ELSE 0) ELSE table[pid]
    BY DEF TableStep, Tables
  <2>5. QED BY <2>2, <2>3, <2>4
<1> HIDE DEF next, old, new, counts, c
<1>2. ASSUME NEW pid \in pids
      PROVE  /\ next[pid] = 0 => \A j \in new(pid) : events[j].event = "create" => \E m \in new(pid) : m > j
             /\ next[pid] # 0 => /\ next[pid] \in new(pid) /\ events[next[pid]].event = "create"
                                 /\ \A m \in new(pid) : m <= next[pid]
  <2>1. CASE ~(counts /\ c = pid)
    BY <1>1, <2>1 DEF Tabled, old
  <2>2. CASE counts /\ c = pid /\ events[k].event = "create"
    <3>1. next[pid] = k /\ new(pid) = old(pid) \cup {k} /\ k # 0
      BY <1>1, <2>2
    <3>2. QED BY <1>1, <2>2, <3>1
  <2>3. CASE counts /\ c = pid /\ events[k].event # "create"
    <3>1. next[pid] = 0 /\ new(pid) = old(pid) \cup {k}
      BY <1>1, <2>3
    <3>2. QED BY <1>1, <2>3, <3>1
  <2>4. QED BY <2>1, <2>2, <2>3
<1>3. QED BY <1>2 DEF Tabled, new, next

LEMMA TableIsTabled ==
    ASSUME NEW events, IsLog(events), NEW pids, \A e \in ToSet(events) : ChildPid(e) \in pids, NEW t \in Nat
    PROVE  /\ TableAt(events, pids, t) \in Tables(pids, Len(events))
           /\ Tabled(events, pids, t, Len(events), TableAt(events, pids, t))
<1> DEFINE n == Len(events)
           numbers == [i \in DOMAIN events |-> i]
           base == [pid \in pids |-> 0]
           X == Tables(pids, n)
           f == [z \in X \X (1 .. n) |-> TableStep(events, t, z[1], z[2])]
           Folds(g) == g = [s \in SUBSET DOMAIN numbers |->
                               IF s = {} THEN base ELSE TableStep(events, t, g[s \ {Max(s)}], numbers[Max(s)])]
           h == CHOOSE g : Folds(g)
<1>1. /\ n \in Nat /\ DOMAIN events = 1 .. n /\ DOMAIN numbers = 1 .. n /\ \A k \in 1 .. n : numbers[k] = k
      /\ \A k \in 1 .. n : ChildPid(events[k]) \in pids /\ events[k].at \in Nat
  BY LogIs
<1>2. base \in X /\ Tabled(events, pids, t, 0, base)
  BY <1>1 DEF Tables, Tabled, Marks
<1> HIDE DEF base
<1>3. f \in [X \X (1 .. n) -> X]
  <2>1. ASSUME NEW table \in X, NEW k \in 1 .. n PROVE TableStep(events, t, table, k) \in X
    BY <1>1 DEF TableStep, Tables
  <2> HIDE DEF X
  <2>2. QED BY <2>1
<1>4. PICK g \in [SUBSET (1 .. n) -> X] : FoldOn(g, n, base, f)
  <2> HIDE DEF X, f, n
  <2>1. QED BY <1>1, <1>2, <1>3, FoldExists
<1>5. Folds(g)
  <2>1. ASSUME NEW s \in SUBSET (1 .. n), s # {}
        PROVE  f[<<g[s \ {Max(s)}], Max(s)>>] = TableStep(events, t, g[s \ {Max(s)}], numbers[Max(s)])
    <3>1. s \in SUBSET (0 .. n)
      OBVIOUS
    <3>2. Max(s) \in 1 .. n
      <4> HIDE DEF n
      <4>1. QED BY <1>1, <2>1, <3>1, MaxBelow
    <3>3. g[s \ {Max(s)}] \in X /\ numbers[Max(s)] = Max(s)
      <4> HIDE DEF X, numbers, n
      <4>1. QED BY <1>1, <1>4, <3>2
    <3> HIDE DEF X, numbers, n
    <3>4. QED BY <3>2, <3>3
  <2> HIDE DEF X, f, n, numbers
  <2>2. QED BY <1>1, <1>4, <2>1 DEF FoldOn
<1> HIDE DEF X, f
<1>6. Folds(h)
  <2> HIDE DEF Folds
  <2>1. QED BY <1>5
<1>7. TableAt(events, pids, t) = h[1 .. n]
  <2>1. TableAt(events, pids, t) = h[DOMAIN numbers]
    BY DEF TableAt, FoldLeftDomain, FoldLeft, MapThenFoldSet, base, TableStep
  <2> HIDE DEF h, numbers, n
  <2>2. QED BY <1>1, <2>1
<1> HIDE DEF h, numbers, n
<1>8. /\ h[1 .. 0] = base
      /\ \A k \in 1 .. n : h[1 .. k] = TableStep(events, t, h[1 .. (k - 1)], k)
  <2>1. 1 .. 0 = {} /\ h[1 .. 0] = base
    BY <1>1, <1>6
  <2>2. ASSUME NEW k \in 1 .. n PROVE h[1 .. k] = TableStep(events, t, h[1 .. (k - 1)], k)
    <3>1. Ends(n, k)
      BY <1>1, Intervals
    <3>2. h[1 .. k] = TableStep(events, t, h[(1 .. k) \ {Max(1 .. k)}], numbers[Max(1 .. k)])
      BY <1>1, <1>6, <3>1 DEF Ends
    <3>3. QED BY <1>1, <3>1, <3>2 DEF Ends
  <2>3. QED BY <2>1, <2>2
<1> DEFINE Fine == {k \in 0 .. n : h[1 .. k] \in X /\ Tabled(events, pids, t, k, h[1 .. k])}
<1>9. 0 \in Fine
  BY <1>1, <1>2, <1>8
<1>10. ASSUME NEW k \in 1 .. n, k - 1 \in Fine PROVE k \in Fine
  <2> DEFINE table == h[1 .. (k - 1)]
  <2>1. h[1 .. k] = TableStep(events, t, table, k) /\ table \in X /\ Tabled(events, pids, t, k - 1, table)
    BY <1>8, <1>10
  <2> HIDE DEF table
  <2>2. TableStep(events, t, table, k) \in X
    BY <1>1, <2>1 DEF TableStep, Tables, X
  <2>3. Tabled(events, pids, t, k, TableStep(events, t, table, k))
    BY <1>1, <2>1, TableStaysTabled DEF X
  <2>4. QED BY <1>1, <2>1, <2>2, <2>3
<1>11. n \in Fine
  <2> HIDE DEF Fine
  <2>1. n \in 0 .. n
    BY <1>1
  <2>2. QED BY <1>1, <1>9, <1>10, <2>1, UpTo
<1>12. QED BY <1>7, <1>11 DEF n, X

\* The search in a number's lifetimes finds what the replay has in its table.
LEMMA ResolveIs ==
    ASSUME NEW events, IsLog(events), NEW pids, \A e \in ToSet(events) : ChildPid(e) \in pids, NEW t \in Nat,
           NEW pid \in pids
    PROVE  Resolve(events, pid, t) = TableAt(events, pids, t)[pid] /\ Resolve(events, pid, t) \in 0 .. Len(events)
<1> DEFINE n == Len(events)
           S == {0} \cup {j \in Created(events, pid) : events[j].at <= t}
           i == Max(S)
           M == Marks(events, pid, t, n)
           e == TableAt(events, pids, t)[pid]
           ends == {j \in DOMAIN events : /\ j > i /\ events[j].event \in {"create", "exit"}
                                          /\ ChildPid(events[j]) = ChildPid(events[i])}
<1>1. /\ n \in Nat /\ DOMAIN events = 1 .. n /\ \A j \in 1 .. n : events[j].at \in Nat
      /\ \A j, k \in 1 .. n : j < k => events[j].at <= events[k].at
  <2>1. n \in Nat /\ DOMAIN events = 1 .. n /\ \A k \in 1 .. n : events[k].at \in Nat
    BY LogIs
  <2>2. \A j, k \in 1 .. n : j < k => events[j].at <= events[k].at
    BY LogIs
  <2> HIDE DEF n
  <2>3. QED BY <2>1, <2>2
<1>2. TableAt(events, pids, t) \in Tables(pids, n) /\ Tabled(events, pids, t, n, TableAt(events, pids, t))
  BY TableIsTabled
<1>3. /\ e \in 0 .. n
      /\ e = 0 => \A j \in M : events[j].event = "create" => \E m \in M : m > j
      /\ e # 0 => e \in M /\ events[e].event = "create" /\ \A m \in M : m <= e
  BY <1>2 DEF Tables, Tabled
<1>4. Resolve(events, pid, t) = IF i # 0 /\ EndOf(events, i) # Never /\ t >= EndOf(events, i) THEN 0 ELSE i
  BY DEF Resolve
<1>5. EndOf(events, i) = IF ends = {} THEN Never ELSE events[Min(ends)].at
  BY DEF EndOf
<1> HIDE DEF n, e
<1>6. M \subseteq 1 .. n /\ \A j \in 1 .. n : j \in M <=> /\ events[j].at <= t /\ events[j].event \in {"create", "exit"}
                                                            /\ ChildPid(events[j]) = pid
  BY DEF Marks
<1>7. S = {0} \cup {j \in M : events[j].event = "create"}
  BY <1>1, <1>6 DEF Created
<1>8. i \in S /\ \A j \in S : j <= i
  <2> HIDE DEF M, S
  <2>1. M \subseteq 0 .. n /\ 0 \in 0 .. n
    BY <1>1, <1>6
  <2>2. S \in SUBSET (0 .. n) /\ S # {}
    BY <1>7, <2>1
  <2>3. QED BY <1>1, <2>2, MaxBelow DEF i
<1> HIDE DEF M, S, i
<1>9. i \in 0 .. n /\ (i # 0 => i \in M /\ events[i].event = "create")
  BY <1>6, <1>7, <1>8, <1>1
<1>10. CASE e # 0
  <2>1. e \in M /\ events[e].event = "create" /\ \A m \in M : m <= e
    BY <1>3, <1>10
  <2>2. e \in S
    BY <1>7, <2>1
  <2>3. e <= i /\ e \in 1 .. n
    BY <1>6, <1>8, <2>1, <2>2
  <2>4. i # 0
    BY <2>3, <1>9
  <2>5. i = e
    <3>1. i <= e
      BY <1>9, <2>1, <2>4
    <3>2. QED BY <1>9, <2>3, <3>1
  <2>6. CASE ends = {}
    BY <1>4, <1>5, <1>9, <2>5, <2>6 DEF n, e
  <2>7. CASE ends # {}
    <3>1. Min(ends) \in ends
      <4>1. ends \in SUBSET Nat
        BY <1>1
      <4> HIDE DEF ends
      <4>2. QED BY <2>7, <4>1, MinIsLeast
    <3> DEFINE m == Min(ends)
    <3>2. m \in 1 .. n /\ m > i /\ events[m].event \in {"create", "exit"} /\ ChildPid(events[m]) = ChildPid(events[i])
      BY <1>1, <3>1
    <3> HIDE DEF m
    <3>3. ChildPid(events[i]) = pid
      BY <1>6, <1>9, <2>4
    <3>4. m \notin M
      BY <1>9, <2>1, <2>5, <3>2
    <3>5. ~(events[m].at <= t) /\ events[m].at \in Nat
      BY <1>1, <1>6, <3>2, <3>3, <3>4
    <3>6. EndOf(events, i) = events[m].at
      BY <1>5, <2>7 DEF m
    <3>7. ~(t >= EndOf(events, i))
      BY <3>5, <3>6
    <3>8. QED BY <1>4, <1>9, <2>5, <3>7 DEF n, e
  <2>8. QED BY <2>6, <2>7
<1>11. CASE e = 0 /\ i = 0
  <2>1. Resolve(events, pid, t) = 0
    BY <1>4, <1>11
  <2>2. QED BY <1>1, <1>11, <2>1 DEF n, e
<1>12. CASE e = 0 /\ i # 0
  <2>1. PICK m \in M : m > i
    BY <1>3, <1>9, <1>12
  <2>2. ChildPid(events[i]) = pid /\ ChildPid(events[m]) = pid /\ m \in 1 .. n /\ events[m].event \in {"create", "exit"}
        /\ events[m].at <= t
    BY <1>6, <1>9, <1>12, <2>1
  <2>3. m \in ends
    BY <1>1, <2>1, <2>2
  <2>4. ends \in SUBSET (1 .. n)
    BY <1>1
  <2> HIDE DEF ends
  <2>5. Min(ends) \in ends /\ Min(ends) <= m
    <3>1. ends \in SUBSET Nat /\ ends # {}
      BY <1>1, <2>3, <2>4
    <3>2. QED BY <2>3, <3>1, MinIsLeast
  <2> DEFINE l == Min(ends)
  <2>6. l \in 1 .. n /\ l <= m /\ EndOf(events, i) = events[l].at
    BY <1>5, <2>3, <2>4, <2>5
  <2> HIDE DEF l
  <2>7. events[l].at \in Nat /\ events[l].at <= events[m].at /\ events[m].at \in Nat
    <3>1. l < m \/ l = m
      BY <1>1, <2>2, <2>6
    <3>2. events[l].at \in Nat /\ events[m].at \in Nat
      BY <1>1, <2>2, <2>6
    <3>3. QED BY <1>1, <2>2, <2>6, <3>1, <3>2
  <2>8. EndOf(events, i) # Never /\ t >= EndOf(events, i)
    BY <2>2, <2>6, <2>7 DEF Never
  <2>9. Resolve(events, pid, t) = 0
    BY <1>4, <1>12, <2>8
  <2>10. QED BY <1>1, <1>12, <2>9 DEF n, e
<1>13. QED BY <1>10, <1>11, <1>12

Creator(events, pids, e) == IF ParentPid(e) = Absent THEN 0 ELSE TableAt(events, pids, e.at)[ParentPid(e)]

LEMMA ParentIs ==
    ASSUME NEW events, IsLog(events), NEW pids,
           \A e \in ToSet(events) : ChildPid(e) \in pids /\ ParentPid(e) \in pids
    PROVE  \A e \in ToSet(events) : /\ ParentOf(events, e) = Creator(events, pids, e)
                                    /\ ParentOf(events, e) \in 0 .. Len(events)
<1> SUFFICES ASSUME NEW e \in ToSet(events)
             PROVE  /\ ParentOf(events, e) = Creator(events, pids, e)
                    /\ ParentOf(events, e) \in 0 .. Len(events)
  OBVIOUS
<1>1. e.at \in Nat /\ Len(events) \in Nat
  BY LogIs
<1>2. CASE ParentPid(e) = Absent
  BY <1>1, <1>2 DEF ParentOf, Creator
<1>3. CASE ParentPid(e) # Absent
  <2>1. ParentPid(e) \in pids /\ \A f \in ToSet(events) : ChildPid(f) \in pids
    OBVIOUS
  <2>2. /\ Resolve(events, ParentPid(e), e.at) = TableAt(events, pids, e.at)[ParentPid(e)]
        /\ Resolve(events, ParentPid(e), e.at) \in 0 .. Len(events)
    BY <1>1, <2>1, ResolveIs
  <2>3. QED BY <1>3, <2>2 DEF ParentOf, Creator
<1>4. QED BY <1>2, <1>3

\* The walk up: from each that is there to its own creator, and nowhere from none.
Walk(events, e, depth, up) ==
    /\ up \in [0 .. depth -> 0 .. Len(events)] /\ up[0] = ParentOf(events, e)
    /\ \A d \in 1 .. depth : up[d] = IF up[d - 1] = 0 THEN 0 ELSE ParentOf(events, events[up[d - 1]])

StopsAtNone(events, e, depth, up) ==
    Ancestors(events, e, depth) = [d \in 1 .. Min({x \in 0 .. depth : up[x] = 0} \cup {depth + 1}) |-> up[d - 1]]

LEMMA AncestorsWalk ==
    ASSUME NEW events, Len(events) \in Nat, DOMAIN events = 1 .. Len(events), NEW e \in ToSet(events),
           \A f \in ToSet(events) : ParentOf(events, f) \in 0 .. Len(events), NEW depth \in Nat
    PROVE  \E up : Walk(events, e, depth, up) /\ StopsAtNone(events, e, depth, up)
<1> DEFINE n == Len(events)
           Step(u, d) == IF u[d - 1] = 0 THEN 0 ELSE ParentOf(events, events[u[d - 1]])
           Is(u) == u = [d \in 0 .. depth |-> IF d = 0 THEN ParentOf(events, e)
                                              ELSE IF u[d - 1] = 0 THEN 0 ELSE ParentOf(events, events[u[d - 1]])]
           up == CHOOSE u : Is(u)
           Fine == {d \in 0 .. depth : \E u : Walk(events, e, d, u)}
<1>1. ASSUME NEW x \in 0 .. n, x # 0 PROVE ParentOf(events, events[x]) \in 0 .. n
  BY <1>1 DEF ToSet
<1>2. 0 \in Fine
  <2> DEFINE u == [d \in 0 .. 0 |-> ParentOf(events, e)]
  <2>1. Walk(events, e, 0, u)
    BY DEF Walk
  <2> HIDE DEF u
  <2>2. QED BY <2>1
<1>3. ASSUME NEW d \in 1 .. depth, d - 1 \in Fine PROVE d \in Fine
  <2>1. PICK u : Walk(events, e, d - 1, u)
    BY <1>3
  <2> DEFINE v == [x \in 0 .. d |-> IF x = d THEN Step(u, d) ELSE u[x]]
  <2>2. u \in [0 .. (d - 1) -> 0 .. n] /\ d - 1 \in 0 .. (d - 1)
    BY <2>1 DEF Walk
  <2>3. Step(u, d) \in 0 .. n
    <3>1. u[d - 1] \in 0 .. n
      BY <2>2
    <3>2. QED BY <1>1, <3>1
  <2> HIDE DEF n
  <2>4. /\ v \in [0 .. d -> 0 .. n] /\ v[d] = Step(u, d) /\ \A x \in 0 .. (d - 1) : v[x] = u[x]
    <3> HIDE DEF Step
    <3>1. \A x \in 0 .. d : x # d => x \in 0 .. (d - 1)
      OBVIOUS
    <3>2. QED BY <2>2, <2>3, <3>1
  <2> HIDE DEF v
  <2>5. ASSUME NEW x \in 1 .. d PROVE v[x] = IF v[x - 1] = 0 THEN 0 ELSE ParentOf(events, events[v[x - 1]])
    <3>1. x - 1 \in 0 .. (d - 1) /\ v[x - 1] = u[x - 1]
      BY <2>4
    <3>2. CASE x = d
      BY <2>4, <3>1, <3>2
    <3>3. CASE x # d
      <4>1. x \in 1 .. (d - 1) /\ x \in 0 .. (d - 1)
        BY <3>3
      <4>2. u[x] = IF u[x - 1] = 0 THEN 0 ELSE ParentOf(events, events[u[x - 1]])
        BY <2>1, <4>1 DEF Walk
      <4>3. QED BY <2>4, <3>1, <4>1, <4>2
    <3>4. QED BY <3>2, <3>3
  <2>6. v[0] = ParentOf(events, e)
    BY <2>1, <2>4 DEF Walk
  <2>7. Walk(events, e, d, v)
    BY <2>4, <2>5, <2>6 DEF Walk, n
  <2>8. QED BY <2>7
<1>4. PICK u : Walk(events, e, depth, u)
  <2>1. depth \in Fine
    <3> HIDE DEF Fine
    <3>1. depth \in 0 .. depth
      OBVIOUS
    <3>2. QED BY <1>2, <1>3, <3>1, UpTo
  <2>2. QED BY <2>1
<1>5. Is(u)
  <2>1. u \in [0 .. depth -> 0 .. n] /\ u[0] = ParentOf(events, e)
        /\ \A d \in 1 .. depth : u[d] = IF u[d - 1] = 0 THEN 0 ELSE ParentOf(events, events[u[d - 1]])
    BY <1>4 DEF Walk
  <2> HIDE DEF n
  <2>2. ASSUME NEW d \in 0 .. depth
        PROVE  u[d] = IF d = 0 THEN ParentOf(events, e)
                      ELSE IF u[d - 1] = 0 THEN 0 ELSE ParentOf(events, events[u[d - 1]])
    <3>1. d = 0 \/ d \in 1 .. depth
      OBVIOUS
    <3>2. QED BY <2>1, <3>1
  <2>3. QED BY <2>1, <2>2
<1>6. Is(up)
  <2> HIDE DEF Is
  <2>1. QED BY <1>5
<1>7. StopsAtNone(events, e, depth, up)
  BY DEF Ancestors, StopsAtNone
<1> HIDE DEF up
<1>8. Walk(events, e, depth, up)
  <2>1. /\ DOMAIN up = 0 .. depth /\ up[0] = ParentOf(events, e)
        /\ \A d \in 1 .. depth : up[d] = IF up[d - 1] = 0 THEN 0 ELSE ParentOf(events, events[up[d - 1]])
    <3>1. \A d \in 1 .. depth : d \in 0 .. depth /\ d # 0
      OBVIOUS
    <3>2. 0 \in 0 .. depth
      OBVIOUS
    <3>3. QED BY <1>6, <3>1, <3>2
  <2>2. up = [d \in 0 .. depth |-> up[d]]
    BY <1>6
  <2> DEFINE Good == {d \in 0 .. depth : up[d] \in 0 .. n}
  <2>3. 0 \in Good
    BY <2>1
  <2>4. ASSUME NEW d \in 1 .. depth, d - 1 \in Good PROVE d \in Good
    <3>1. up[d] = IF up[d - 1] = 0 THEN 0 ELSE ParentOf(events, events[up[d - 1]])
      BY <2>1
    <3>2. up[d - 1] \in 0 .. n
      BY <2>4
    <3>3. up[d] \in 0 .. n
      BY <1>1, <3>1, <3>2
    <3>4. QED BY <3>3
  <2>5. \A d \in 0 .. depth : d \in Good
    <3> HIDE DEF Good
    <3>1. QED BY <2>3, <2>4, UpTo
  <2>6. up \in [0 .. depth -> 0 .. n]
    BY <2>2, <2>5
  <2>7. QED BY <2>1, <2>6 DEF Walk
<1>9. QED BY <1>7, <1>8

\* A process and those behind it.
LineOf(events, e, depth) ==
    LET up == Ancestors(events, e, depth)
    IN <<e>> \o [d \in DOMAIN up |-> events[up[d]]]
Climbs(events, pids, depth, l) ==
    \A k \in 2 .. depth + 2 :
        IF k \in DOMAIN l THEN l[k] = events[Creator(events, pids, l[k - 1])]
        ELSE k > Len(l) + 1 \/ Creator(events, pids, l[k - 1]) = 0

LEMMA Prepended ==
    ASSUME NEW S, NEW x \in S, NEW tail \in Seq(S)
    PROVE  /\ Len(<<x>> \o tail) = Len(tail) + 1 /\ DOMAIN (<<x>> \o tail) = 1 .. Len(tail) + 1
           /\ (<<x>> \o tail)[1] = x
           /\ \A k \in 2 .. Len(tail) + 1 : (<<x>> \o tail)[k] = tail[k - 1]
<1> DEFINE l == <<x>> \o tail
<1>1. l \in Seq(S) /\ Len(l) = Len(tail) + 1
  OBVIOUS
<1>2. \A k \in 1 .. Len(tail) + 1 : l[k] = IF k <= 1 THEN x ELSE tail[k - 1]
  OBVIOUS
<1> HIDE DEF l
<1>3. Len(tail) \in Nat /\ DOMAIN l = 1 .. Len(tail) + 1
  BY <1>1
<1>4. l[1] = x /\ \A k \in 2 .. Len(tail) + 1 : l[k] = tail[k - 1]
  BY <1>2, <1>3
<1>5. QED BY <1>1, <1>3, <1>4 DEF l

LEMMA LinesClimb ==
    ASSUME NEW events, IsLog(events), NEW pids,
           \A f \in ToSet(events) : ChildPid(f) \in pids /\ ParentPid(f) \in pids,
           NEW e \in ToSet(events), ParentOf(events, e) # 0, NEW depth \in Nat
    PROVE  LineOf(events, e, depth)[1] = e /\ Climbs(events, pids, depth, LineOf(events, e, depth))
<1> DEFINE n == Len(events)
           l == LineOf(events, e, depth)
<1>1. /\ n \in Nat /\ DOMAIN events = 1 .. n
      /\ \A f \in ToSet(events) : ParentOf(events, f) = Creator(events, pids, f) /\ ParentOf(events, f) \in 0 .. n
      /\ \A x \in 1 .. n : events[x] \in ToSet(events)
  BY LogIs, ParentIs
<1>2. PICK up : Walk(events, e, depth, up) /\ StopsAtNone(events, e, depth, up)
  <2>1. \A f \in ToSet(events) : ParentOf(events, f) \in 0 .. Len(events)
    BY <1>1
  <2>2. QED BY <1>1, <2>1, AncestorsWalk
<1> DEFINE M == {x \in 0 .. depth : up[x] = 0} \cup {depth + 1}
           m == Min(M)
<1>3. m \in M /\ \A x \in M : m <= x
  <2>1. M \in SUBSET Nat /\ M # {}
    OBVIOUS
  <2> HIDE DEF M
  <2>2. QED BY <2>1, MinIsLeast
<1>4. /\ up \in [0 .. depth -> 0 .. n] /\ up[0] = Creator(events, pids, e) /\ up[0] # 0
      /\ \A d \in 1 .. depth : up[d - 1] # 0 => up[d] = ParentOf(events, events[up[d - 1]])
  <2>1. \A d \in 1 .. depth : up[d] = IF up[d - 1] = 0 THEN 0 ELSE ParentOf(events, events[up[d - 1]])
    BY <1>2 DEF Walk
  <2>2. up \in [0 .. depth -> 0 .. n] /\ up[0] = ParentOf(events, e)
    BY <1>2 DEF Walk
  <2>3. QED BY <1>1, <2>1, <2>2
<1>5. /\ m \in 1 .. depth + 1
      /\ \A x \in 0 .. depth : x < m => up[x] # 0
      /\ m # depth + 1 => up[m] = 0
  <2>1. m \in 0 .. depth + 1 /\ m # 0
    BY <1>3, <1>4
  <2>2. QED BY <1>3, <2>1
<1>6. Ancestors(events, e, depth) = [d \in 1 .. m |-> up[d - 1]]
  BY <1>2 DEF StopsAtNone
<1> HIDE DEF m, M
<1>7. l = <<e>> \o [d \in 1 .. m |-> events[up[d - 1]]]
  <2>1. \A d \in 1 .. m : Ancestors(events, e, depth)[d] = up[d - 1]
    BY <1>6
  <2>2. DOMAIN Ancestors(events, e, depth) = 1 .. m
    BY <1>6
  <2>3. QED BY <2>1, <2>2 DEF LineOf
<1> HIDE DEF l, n
<1>8. \A d \in 1 .. m : d - 1 \in 0 .. depth /\ up[d - 1] \in 1 .. n /\ events[up[d - 1]] \in ToSet(events)
  <2>1. ASSUME NEW d \in 1 .. m PROVE d - 1 \in 0 .. depth /\ up[d - 1] \in 1 .. n /\ events[up[d - 1]] \in ToSet(events)
    <3>1. d - 1 \in 0 .. depth /\ d - 1 < m
      BY <1>5
    <3>2. up[d - 1] \in 0 .. n /\ up[d - 1] # 0
      BY <1>4, <1>5, <3>1
    <3>3. up[d - 1] \in 1 .. n
      BY <1>1, <3>2
    <3>4. QED BY <1>1, <3>1, <3>3
  <2>2. QED BY <2>1
<1>9. Len(l) = m + 1 /\ DOMAIN l = 1 .. m + 1 /\ l[1] = e /\ \A k \in 2 .. m + 1 : l[k] = events[up[k - 2]]
  <2> DEFINE tail == [d \in 1 .. m |-> events[up[d - 1]]]
  <2>1. tail \in Seq(ToSet(events)) /\ Len(tail) = m
    BY <1>5, <1>8
  <2>2. \A k \in 2 .. m + 1 : k - 1 \in 1 .. m /\ tail[k - 1] = events[up[k - 2]]
    <3>1. ASSUME NEW k \in 2 .. m + 1 PROVE k - 1 \in 1 .. m /\ tail[k - 1] = events[up[k - 2]]
      <4>1. k - 1 \in 1 .. m /\ (k - 1) - 1 = k - 2
        BY <1>5
      <4>2. QED BY <4>1
    <3>2. QED BY <3>1
  <2> HIDE DEF tail
  <2>3. l = <<e>> \o tail
    BY <1>7 DEF tail
  <2>4. /\ Len(l) = m + 1 /\ DOMAIN l = 1 .. m + 1 /\ l[1] = e
        /\ \A k \in 2 .. m + 1 : l[k] = tail[k - 1]
    BY <2>1, <2>3, Prepended
  <2>5. QED BY <2>2, <2>4
\* An event further up is the creator of the one before it.
<1>10. \A k \in 2 .. m + 2 : l[k - 1] \in ToSet(events) /\ (k - 2 \in 0 .. depth => up[k - 2] = Creator(events, pids, l[k - 1]))
  <2>1. CASE TRUE
    <3>1. l[1] = e /\ up[0] = Creator(events, pids, e)
      BY <1>4, <1>9
    <3>2. ASSUME NEW k \in 3 .. m + 2
          PROVE  l[k - 1] \in ToSet(events) /\ (k - 2 \in 0 .. depth => up[k - 2] = Creator(events, pids, l[k - 1]))
      <4>1. k - 1 \in 2 .. m + 1 /\ (k - 1) - 2 = (k - 2) - 1 /\ k - 2 \in 1 .. m
        BY <1>5
      <4>2. l[k - 1] = events[up[(k - 2) - 1]]
        BY <1>9, <4>1
      <4>3. up[(k - 2) - 1] \in 1 .. n /\ events[up[(k - 2) - 1]] \in ToSet(events)
        BY <1>8, <4>1
      <4>4. ASSUME k - 2 \in 0 .. depth PROVE up[k - 2] = ParentOf(events, l[k - 1])
        <5>1. k - 2 \in 1 .. depth
          BY <4>1, <4>4
        <5>2. up[(k - 2) - 1] # 0
          BY <4>3
        <5>3. QED BY <1>4, <4>2, <5>1, <5>2
      <4>5. QED BY <1>1, <4>2, <4>3, <4>4
    <3>3. \A k \in 2 .. m + 2 : k = 2 \/ k \in 3 .. m + 2
      BY <1>5
    <3>4. ASSUME NEW k \in 2 .. m + 2
          PROVE  l[k - 1] \in ToSet(events) /\ (k - 2 \in 0 .. depth => up[k - 2] = Creator(events, pids, l[k - 1]))
      <4>1. CASE k = 2
        BY <3>1, <4>1
      <4>2. CASE k \in 3 .. m + 2
        BY <3>2, <4>2
      <4>3. QED BY <3>3, <4>1, <4>2
    <3>5. QED BY <3>4
  <2>2. QED BY <2>1
<1>11. ASSUME NEW k \in 2 .. depth + 2
       PROVE  IF k \in DOMAIN l THEN l[k] = events[Creator(events, pids, l[k - 1])]
              ELSE k > Len(l) + 1 \/ Creator(events, pids, l[k - 1]) = 0
  <2>1. k - 2 \in 0 .. depth
    BY <1>11
  <2>2. CASE k \in 2 .. m + 1
    <3>1. k \in 2 .. m + 2 /\ k \in DOMAIN l
      BY <1>5, <1>9, <2>2
    <3>2. up[k - 2] = Creator(events, pids, l[k - 1])
      BY <1>10, <2>1, <3>1
    <3>3. QED BY <1>9, <2>2, <3>1, <3>2
  <2>3. CASE k = m + 2
    <3>1. k \in 2 .. m + 2 /\ k \notin DOMAIN l
      BY <1>5, <1>9, <2>3
    <3>2. up[k - 2] = Creator(events, pids, l[k - 1])
      BY <1>10, <2>1, <3>1
    <3>3. k - 2 = m /\ m # depth + 1
      BY <1>5, <2>1, <2>3
    <3>4. up[k - 2] = 0
      BY <1>5, <3>3
    <3>5. QED BY <3>1, <3>2, <3>4
  <2>4. CASE k > m + 2
    BY <1>5, <1>9, <2>4
  <2>5. QED BY <1>5, <2>2, <2>3, <2>4
<1>12. l[1] = e /\ Climbs(events, pids, depth, l)
  BY <1>9, <1>11 DEF Climbs
<1>13. QED BY <1>12 DEF l

\* Whatever the log, however its process numbers are used again and however deep the rule looks, the
\* search in each number's lifetimes finds the processes a replay of the log has at that moment: each
\* line climbs from creator to creator, and a process is in one exactly if its parent's number was taken.
THEOREM EveryLineageIsReplay ==
    ASSUME NEW events, IsLog(events), NEW rule, rule.depth \in Nat
    PROVE  Replays(rule, events)
<1> DEFINE pids == {ChildPid(e) : e \in ToSet(events)} \cup {ParentPid(e) : e \in ToSet(events)}
           S == {e \in ToSet(events) : e.event = "create" /\ ParentOf(events, e) # 0}
           children == Ordered(S, Earlier)
           lines == ToSet(Lineage(rule, events))
<1>1. \A e \in ToSet(events) : ChildPid(e) \in pids /\ ParentPid(e) \in pids
  OBVIOUS
<1>2. AreEvents(S)
  <2>1. S \subseteq ToSet(events) /\ AreEvents(ToSet(events))
    BY DEF IsLog
  <2> HIDE DEF S
  <2>2. IsFiniteSet(S)
    BY <2>1, FS_Subset DEF AreEvents
  <2>3. QED BY <2>1, <2>2 DEF AreEvents
<1>3. Lists(children, S)
  <2> HIDE DEF S
  <2>1. QED BY <1>2, EarlierLists
<1> HIDE DEF pids, S
<1>4. Lineage(rule, events) = [i \in DOMAIN children |-> LineOf(events, children[i], rule.depth)]
  BY DEF Lineage, LineOf, S
<1> HIDE DEF children
<1>5. /\ DOMAIN children = 1 .. Len(children) /\ \A i \in DOMAIN children : children[i] \in S
      /\ \A x \in S : \E i \in DOMAIN children : children[i] = x
  <2>1. children \in Seq(S) /\ \A x \in S : \E i \in 1 .. Len(children) : children[i] = x
    BY <1>3 DEF Lists
  <2>2. QED BY <2>1, SMTT(30)
<1>6. lines = {LineOf(events, e, rule.depth) : e \in S}
  <2>1. lines = {LineOf(events, children[i], rule.depth) : i \in DOMAIN children}
    BY <1>4 DEF ToSet
  <2> HIDE DEF lines
  <2>2. QED BY <1>5, <2>1
<1> HIDE DEF lines
<1>7. ASSUME NEW e \in S
      PROVE  /\ LineOf(events, e, rule.depth)[1] = e
             /\ Climbs(events, pids, rule.depth, LineOf(events, e, rule.depth))
  <2>1. e \in ToSet(events) /\ ParentOf(events, e) # 0
    BY DEF S
  <2>2. QED BY <1>1, <2>1, LinesClimb
<1>8. \A e \in ToSet(events) : (e.event = "create" /\ Creator(events, pids, e) # 0) <=> \E l \in lines : l[1] = e
  <2>1. \A e \in ToSet(events) : e \in S <=> e.event = "create" /\ Creator(events, pids, e) # 0
    BY <1>1, ParentIs DEF S
  <2>2. \A e : e \in S => \E l \in lines : l[1] = e
    BY <1>6, <1>7
  <2>3. \A l \in lines : l[1] \in S
    BY <1>6, <1>7
  <2>4. QED BY <2>1, <2>2, <2>3
<1>9. \A l \in lines : Climbs(events, pids, rule.depth, l)
  BY <1>6, <1>7
<1>10. QED BY <1>8, <1>9 DEF Replays, Climbs, Creator, pids, lines

-----------------------------------------------------------------------------
(* Matches. The events a chain is made of are alike: of one host, unless the   *)
(* rule looks at all of them, and with the values that must be shared.         *)

Alike(rule, e, f) ==
    (rule.scope = "global" \/ e.computer = f.computer) /\ KeyOf(e, rule.slots) = KeyOf(f, rule.slots)
NotAfter(e, f) == e = f \/ Earlier(e, f)
InWindow(rule, m) ==
    rule.algorithm = "temporal" =>
       /\ \A s \in 2 .. Len(rule.seq) : m[s].at - m[s - 1].at <= rule.within
       /\ rule.total > 0 => m[Len(rule.seq)].at - m[1].at <= rule.total
\* A chain of events of D that is a match of the rule.
GoodChain(rule, D, m) ==
    /\ m \in [1 .. Len(rule.seq) -> D]
    /\ \A i, j \in 1 .. Len(rule.seq) : i < j => Earlier(m[i], m[j])
    /\ \A s \in 1 .. Len(rule.seq) : m[s].event = rule.seq[s]
    /\ \A i, j \in 1 .. Len(rule.seq) : Alike(rule, m[i], m[j])
    /\ \A i \in 1 .. Len(rule.seq), k \in rule.slots : m[i].keys[k] # Absent
    /\ InWindow(rule, m)
IsRule(rule) == DOMAIN rule.seq = 1 .. Len(rule.seq) /\ Len(rule.seq) \in Nat \ {0}

LEMMA InOrderIsOrdered ==
    ASSUME NEW S, AreEvents(S), NEW n \in Nat, NEW m \in [1 .. n -> S],
           \A i, j \in 1 .. n : i < j => Earlier(m[i], m[j]), \A x \in S : \E i \in 1 .. n : m[i] = x
    PROVE  Ordered(S, Earlier) = m /\ Cardinality(S) = n
<1>1. \A x, y \in S : ~Earlier(x, x) /\ ~(Earlier(x, y) /\ Earlier(y, x))
  BY DEF AreEvents, Earlier
<1>2. \A i, j \in 1 .. n : i < j \/ i = j \/ j < i
  OBVIOUS
<1>3. \A i, j \in 1 .. n : m[i] = m[j] => i = j
  BY <1>1, <1>2
<1>4. ASSUME NEW k \in 0 .. n
      PROVE  Cardinality({m[i] : i \in 1 .. k}) = k
  <2> DEFINE f == [i \in 1 .. k |-> m[i]]
             T == {m[i] : i \in 1 .. k}
  <2>1. \A i \in 1 .. k : i \in 1 .. n
    OBVIOUS
  <2>2. f \in Surjection(1 .. k, T) /\ f \in Injection(1 .. k, T)
    <3>1. f \in [1 .. k -> T] /\ \A t \in T : \E i \in 1 .. k : f[i] = t
      OBVIOUS
    <3>2. \A i, j \in 1 .. k : f[i] = f[j] => i = j
      BY <1>3, <2>1
    <3> HIDE DEF f, T
    <3>3. QED BY <3>1, <3>2 DEF Surjection, Injection, IsInjective
  <2>3. IsFiniteSet(1 .. k) /\ Cardinality(1 .. k) = k
    BY FS_Interval
  <2> HIDE DEF f, T
  <2>4. Cardinality(T) = k
    BY <2>2, <2>3, FS_Surjection
  <2>5. QED BY <2>4 DEF T
<1>5. S = {m[i] : i \in 1 .. n}
  OBVIOUS
<1>6. Cardinality(S) = n
  <2>1. n \in 0 .. n
    OBVIOUS
  <2>2. Cardinality({m[i] : i \in 1 .. n}) = n
    BY <1>4, <2>1, Zenon
  <2>3. QED BY <1>5, <2>2
<1>7. ASSUME NEW j \in 1 .. n PROVE Cardinality({y \in S : Earlier(y, m[j])}) = j - 1
  <2>1. \A i \in 1 .. n : Earlier(m[i], m[j]) <=> i < j
    BY <1>1, <1>2
  <2>2. j - 1 \in 0 .. n /\ \A i \in 1 .. n : i < j <=> i \in 1 .. (j - 1)
    OBVIOUS
  <2>3. \A i \in 1 .. (j - 1) : i \in 1 .. n
    OBVIOUS
  <2>4. {y \in S : Earlier(y, m[j])} = {m[i] : i \in 1 .. (j - 1)}
    BY <1>5, <2>1, <2>2, <2>3
  <2>5. QED BY <1>4, <2>2, <2>4
<1>8. ASSUME NEW i \in 1 .. n
      PROVE  (CHOOSE x \in S : Cardinality({y \in S : Earlier(y, x)}) = i - 1) = m[i]
  <2> DEFINE P(x) == Cardinality({y \in S : Earlier(y, x)}) = i - 1
             c == CHOOSE x \in S : P(x)
  <2>1. m[i] \in S /\ P(m[i])
    BY <1>7
  <2>2. \A x \in S : P(x) => x = m[i]
    <3>1. ASSUME NEW x \in S, P(x) PROVE x = m[i]
      <4>1. PICK j \in 1 .. n : m[j] = x
        OBVIOUS
      <4>2. Cardinality({y \in S : Earlier(y, x)}) = j - 1
        BY <1>7, <4>1
      <4>3. j - 1 = i - 1
        BY <3>1, <4>2
      <4>4. QED BY <4>1, <4>3
    <3>2. QED BY <3>1
  <2> HIDE DEF P
  <2>3. c \in S /\ P(c)
    BY <2>1
  <2>4. c = m[i]
    BY <2>2, <2>3
  <2>5. QED BY <2>4 DEF P
<1>9. Ordered(S, Earlier) = [i \in 1 .. n |-> CHOOSE x \in S : Cardinality({y \in S : Earlier(y, x)}) = i - 1]
  BY <1>6 DEF Ordered
<1>10. Ordered(S, Earlier) = m
  BY <1>8, <1>9
<1>11. QED BY <1>6, <1>10

LEMMA CandidateIs ==
    ASSUME NEW D, AreEvents(D), NEW rule, IsRule(rule), NEW S \in Candidates(rule, D)
    PROVE  \E m : GoodChain(rule, D, m) /\ S = {m[i] : i \in 1 .. Len(rule.seq)}
<1> DEFINE n == Len(rule.seq)
           c == Chain(S)
<1>1. S \subseteq D /\ Cardinality(S) = n /\ IsMatch(rule, S)
  BY DEF Candidates, kSubset
<1>2. AreEvents(S)
  BY <1>1, FS_Subset DEF AreEvents
<1>3. Lists(c, S) /\ \A i, j \in 1 .. Len(c) : i < j => Earlier(c[i], c[j])
  BY <1>2, EarlierLists DEF Chain
<1> HIDE DEF c
<1>4. /\ Len(c) = n /\ \A s \in DOMAIN c : c[s].event = rule.seq[s]
      /\ \A e, f \in S : rule.scope = "global" \/ e.computer = f.computer
      /\ \A e, f \in S : KeyOf(e, rule.slots) = KeyOf(f, rule.slots)
      /\ \A e \in S, k \in rule.slots : e.keys[k] # Absent
      /\ rule.algorithm = "temporal" =>
            /\ \A s \in 2 .. Len(c) : c[s].at - c[s - 1].at <= rule.within
            /\ rule.total > 0 => c[Len(c)].at - c[1].at <= rule.total
  BY <1>1 DEF IsMatch, c
<1>5. n \in Nat /\ c \in [1 .. n -> S] /\ S = {c[i] : i \in 1 .. n} /\ DOMAIN c = 1 .. n
  BY <1>3, <1>4, SMTT(30) DEF Lists, IsRule
<1>6. c \in [1 .. n -> D] /\ \A i \in 1 .. n : c[i] \in S
  BY <1>1, <1>5
<1>7. GoodChain(rule, D, c)
  <2>1. InWindow(rule, c)
    BY <1>4 DEF InWindow
  <2>2. \A i, j \in 1 .. n : Alike(rule, c[i], c[j])
    BY <1>4, <1>6 DEF Alike
  <2>3. \A i \in 1 .. n, k \in rule.slots : c[i].keys[k] # Absent
    BY <1>4, <1>6
  <2>4. \A s \in 1 .. n : c[s].event = rule.seq[s]
    BY <1>4, <1>5
  <2>5. \A i, j \in 1 .. n : i < j => Earlier(c[i], c[j])
    BY <1>3, <1>4
  <2>6. QED BY <1>6, <2>1, <2>2, <2>3, <2>4, <2>5 DEF GoodChain
<1>8. QED BY <1>5, <1>7

LEMMA GoodIsCandidate ==
    ASSUME NEW D, AreEvents(D), NEW rule, IsRule(rule), NEW m, GoodChain(rule, D, m)
    PROVE  /\ ToSet(m) = {m[i] : i \in 1 .. Len(rule.seq)} /\ ToSet(m) \in Candidates(rule, D)
           /\ IsMatch(rule, ToSet(m)) /\ Chain(ToSet(m)) = m
<1> DEFINE n == Len(rule.seq)
           S == {m[i] : i \in 1 .. n}
<1>1. n \in Nat \ {0} /\ m \in [1 .. n -> D]
  BY DEF IsRule, GoodChain
<1>2. ToSet(m) = S
  BY <1>1 DEF ToSet
<1>3. S \subseteq D /\ m \in [1 .. n -> S] /\ \A x \in S : \E i \in 1 .. n : m[i] = x
  BY <1>1
<1>4. AreEvents(S)
  <2>1. IsFiniteSet(S)
    <3> HIDE DEF S
    <3>1. QED BY <1>3, FS_Subset DEF AreEvents
  <2>2. QED BY <1>3, <2>1 DEF AreEvents
<1>5. Chain(S) = m /\ Cardinality(S) = n
  <2>1. \A i, j \in 1 .. n : i < j => Earlier(m[i], m[j])
    BY DEF GoodChain
  <2> HIDE DEF S, n
  <2>2. QED BY <1>1, <1>3, <1>4, <2>1, InOrderIsOrdered, ZenonT(60) DEF Chain
<1>6. Len(m) = n /\ DOMAIN m = 1 .. n
  <2> HIDE DEF n
  <2>1. QED BY <1>1
<1>7. IsMatch(rule, S)
  <2>1. /\ \A s \in 1 .. n : m[s].event = rule.seq[s]
        /\ \A i, j \in 1 .. n : Alike(rule, m[i], m[j])
        /\ \A i \in 1 .. n, k \in rule.slots : m[i].keys[k] # Absent
        /\ InWindow(rule, m)
    BY DEF GoodChain
  <2>2. \A e, f \in S : Alike(rule, e, f)
    BY <2>1
  <2>3. \A e \in S, k \in rule.slots : e.keys[k] # Absent
    BY <2>1
  <2> HIDE DEF S
  <2>4. rule.algorithm = "temporal" =>
           /\ \A s \in 2 .. n : m[s].at - m[s - 1].at <= rule.within
           /\ rule.total > 0 => m[n].at - m[1].at <= rule.total
    BY <2>1 DEF InWindow
  <2> HIDE DEF n
  <2>5. \A e, f \in S : (rule.scope = "global" \/ e.computer = f.computer) /\ KeyOf(e, rule.slots) = KeyOf(f, rule.slots)
    BY <2>2 DEF Alike
  <2>6. QED BY <1>5, <1>6, <2>1, <2>3, <2>4, <2>5 DEF IsMatch, n
<1>8. S \in Candidates(rule, D)
  <2> HIDE DEF S
  <2>1. QED BY <1>3, <1>5, <1>7 DEF Candidates, kSubset
<1>9. QED BY <1>2, <1>5, <1>7, <1>8

\* Of two matches, the first is over before the second begins, or they have nothing to do with each other.
Parted(rule, m, k) == ~Alike(rule, m[1], k[1]) \/ Earlier(m[Len(rule.seq)], k[1])
\* A match that ends between the first and the last event of a chain.
EndsIn(rule, k, m) ==
    Alike(rule, k[1], m[1]) /\ NotAfter(m[1], k[Len(rule.seq)]) /\ NotAfter(k[Len(rule.seq)], m[Len(rule.seq)])
\* Matches that leave no room for another: one of them ends in every chain there is.
Solves(rule, D, found) ==
    /\ found \in Seq([1 .. Len(rule.seq) -> D]) /\ Len(found) \in Nat
    /\ \A i \in 1 .. Len(found) : GoodChain(rule, D, found[i])
    /\ \A i, j \in 1 .. Len(found) : i < j => Parted(rule, found[i], found[j])
    /\ \A m : GoodChain(rule, D, m) => \E i \in 1 .. Len(found) : EndsIn(rule, found[i], m)

LEMMA AlikeIs ==
    ASSUME NEW rule
    PROVE  /\ \A e : Alike(rule, e, e)
           /\ \A e, f : Alike(rule, e, f) => Alike(rule, f, e)
           /\ \A e, f, g : Alike(rule, e, f) /\ Alike(rule, f, g) => Alike(rule, e, g)
BY DEF Alike

LEMMA EarlierIs ==
    ASSUME NEW D, AreEvents(D)
    PROVE  /\ \A e \in D : ~Earlier(e, e)
           /\ \A e, f, g \in D : Earlier(e, f) /\ Earlier(f, g) => Earlier(e, g)
           /\ \A e, f \in D : e = f \/ Earlier(e, f) \/ Earlier(f, e)
BY DEF AreEvents, Earlier

LEMMA ChainIs ==
    ASSUME NEW D, AreEvents(D), NEW rule, IsRule(rule), NEW m, GoodChain(rule, D, m)
    PROVE  /\ m[1] \in D /\ m[Len(rule.seq)] \in D /\ 1 \in 1 .. Len(rule.seq) /\ Len(rule.seq) \in 1 .. Len(rule.seq)
           /\ \A i \in 1 .. Len(rule.seq) : /\ m[i] \in D /\ Alike(rule, m[1], m[i])
                                            /\ NotAfter(m[1], m[i]) /\ NotAfter(m[i], m[Len(rule.seq)])
<1> DEFINE n == Len(rule.seq)
<1>1. /\ n \in Nat \ {0} /\ m \in [1 .. n -> D]
      /\ \A i, j \in 1 .. n : i < j => Earlier(m[i], m[j])
      /\ \A i, j \in 1 .. n : Alike(rule, m[i], m[j])
  BY DEF IsRule, GoodChain
<1> HIDE DEF n
<1>2. 1 \in 1 .. n /\ n \in 1 .. n /\ \A i \in 1 .. n : (i = 1 \/ 1 < i) /\ (i = n \/ i < n)
  BY <1>1
<1>3. \A i \in 1 .. n : m[i] \in D /\ Alike(rule, m[1], m[i])
  BY <1>1, <1>2
<1>4. \A i \in 1 .. n : NotAfter(m[1], m[i]) /\ NotAfter(m[i], m[n])
  BY <1>1, <1>2 DEF NotAfter
<1>5. QED BY <1>2, <1>3, <1>4 DEF n

LEMMA SolvedIsPacked ==
    ASSUME NEW D, AreEvents(D), NEW rule, IsRule(rule), NEW found, Solves(rule, D, found)
    PROVE  \E P \in kSubset(Len(found), Candidates(rule, D)) : Packing(rule, P)
<1> DEFINE n == Len(rule.seq)
           N == Len(found)
           F == [i \in 1 .. N |-> ToSet(found[i])]
           P == {F[i] : i \in 1 .. N}
<1>1. /\ N \in Nat /\ \A i \in 1 .. N : GoodChain(rule, D, found[i])
      /\ \A i, j \in 1 .. N : i < j => Parted(rule, found[i], found[j])
  BY DEF Solves
<1>2. ASSUME NEW i \in 1 .. N
      PROVE  F[i] \in Candidates(rule, D) /\ Chain(F[i]) = found[i] /\ F[i] = {found[i][s] : s \in 1 .. n}
  BY <1>1, GoodIsCandidate
<1> HIDE DEF F
<1>3. ASSUME NEW i \in 1 .. N
      PROVE  /\ found[i][1] \in D /\ found[i][n] \in D /\ found[i][1] \in F[i]
             /\ \A e \in F[i] : /\ e \in D /\ Alike(rule, found[i][1], e)
                                /\ NotAfter(found[i][1], e) /\ NotAfter(e, found[i][n])
  <2>1. GoodChain(rule, D, found[i])
    BY <1>1
  <2>2. /\ found[i][1] \in D /\ found[i][n] \in D /\ 1 \in 1 .. n
        /\ \A s \in 1 .. n : /\ found[i][s] \in D /\ Alike(rule, found[i][1], found[i][s])
                             /\ NotAfter(found[i][1], found[i][s]) /\ NotAfter(found[i][s], found[i][n])
    BY <2>1, ChainIs
  <2> HIDE DEF n
  <2>3. QED BY <1>2, <2>2
<1> HIDE DEF n, N
<1>4. ASSUME NEW i \in 1 .. N, NEW j \in 1 .. N, i < j
      PROVE  F[i] # F[j] /\ (~SameGroup(rule, F[i], F[j]) \/ Apart(F[i], F[j]))
                         /\ (~SameGroup(rule, F[j], F[i]) \/ Apart(F[j], F[i]))
  <2>1. ~Alike(rule, found[i][1], found[j][1]) \/ Earlier(found[i][n], found[j][1])
    BY <1>1, <1>4 DEF Parted, n
  <2>2. F[i] # F[j]
    <3>1. ASSUME F[i] = F[j] PROVE FALSE
      <4>1. found[i] = found[j]
        BY <1>2, <3>1
      <4>2. Earlier(found[i][n], found[i][1])
        BY <2>1, <4>1, AlikeIs
      <4>3. NotAfter(found[i][1], found[i][n])
        BY <1>3
      <4>4. QED BY <1>3, <4>2, <4>3, EarlierIs DEF NotAfter
    <3>2. QED BY <3>1
  <2>3. CASE ~Alike(rule, found[i][1], found[j][1])
    <3>1. ~Alike(rule, found[j][1], found[i][1])
      BY <2>3, AlikeIs
    <3>2. ~SameGroup(rule, F[i], F[j]) /\ ~SameGroup(rule, F[j], F[i])
      BY <1>3, <2>3, <3>1 DEF SameGroup, Alike
    <3>3. QED BY <2>2, <3>2
  <2>4. CASE Earlier(found[i][n], found[j][1])
    <3>1. \A e \in F[i], f \in F[j] : Earlier(e, f)
      <4>1. ASSUME NEW e \in F[i], NEW f \in F[j] PROVE Earlier(e, f)
        <5>1. e \in D /\ f \in D /\ NotAfter(e, found[i][n]) /\ NotAfter(found[j][1], f)
          BY <1>3
        <5>2. found[i][n] \in D /\ found[j][1] \in D
          BY <1>3
        <5>3. Earlier(e, found[j][1])
          BY <2>4, <5>1, <5>2, EarlierIs DEF NotAfter
        <5>4. QED BY <5>1, <5>2, <5>3, EarlierIs DEF NotAfter
      <4>2. QED BY <4>1
    <3>2. QED BY <2>2, <3>1 DEF Apart
  <2>5. QED BY <2>1, <2>3, <2>4
<1>5. \A i, j \in 1 .. N : i < j \/ i = j \/ j < i
  BY <1>1
<1>6. Packing(rule, P)
  <2>1. ASSUME NEW i \in 1 .. N, NEW j \in 1 .. N
        PROVE  F[i] = F[j] \/ ~SameGroup(rule, F[i], F[j]) \/ Apart(F[i], F[j])
    BY <1>4, <1>5
  <2>2. QED BY <2>1 DEF Packing
<1>7. Cardinality(P) = N
  <2>1. F \in Surjection(1 .. N, P) /\ F \in Injection(1 .. N, P)
    <3>1. F \in [1 .. N -> P] /\ \A t \in P : \E i \in 1 .. N : F[i] = t
      BY DEF F
    <3>2. \A i, j \in 1 .. N : F[i] = F[j] => i = j
      BY <1>4, <1>5
    <3> HIDE DEF P
    <3>3. QED BY <3>1, <3>2 DEF Surjection, Injection, IsInjective
  <2>2. IsFiniteSet(1 .. N) /\ Cardinality(1 .. N) = N
    BY <1>1, FS_Interval
  <2> HIDE DEF P
  <2>3. QED BY <2>1, <2>2, FS_Surjection
<1>8. P \subseteq Candidates(rule, D)
  BY <1>2
<1> HIDE DEF P
<1>9. P \in kSubset(N, Candidates(rule, D))
  BY <1>7, <1>8 DEF kSubset
<1>10. QED BY <1>6, <1>9 DEF N

LEMMA SolvedLeavesNone ==
    ASSUME NEW D, AreEvents(D), NEW rule, IsRule(rule), NEW found, Solves(rule, D, found)
    PROVE  ~ \E P \in kSubset(Len(found) + 1, Candidates(rule, D)) : Packing(rule, P)
<1> SUFFICES ASSUME NEW P \in kSubset(Len(found) + 1, Candidates(rule, D)), Packing(rule, P) PROVE FALSE
  OBVIOUS
<1> DEFINE n == Len(rule.seq)
           N == Len(found)
           Hit(S, m, i) == GoodChain(rule, D, m) /\ S = {m[s] : s \in 1 .. n} /\ EndsIn(rule, found[i], m)
           pick(S) == CHOOSE i \in 1 .. N : \E m : Hit(S, m, i)
           g == [S \in P |-> pick(S)]
<1>1. N \in Nat /\ P \subseteq Candidates(rule, D) /\ Cardinality(P) = N + 1
  BY DEF Solves, kSubset
<1>2. IsFiniteSet(P)
  <2>1. P \subseteq SUBSET D
    BY <1>1 DEF Candidates, kSubset
  <2>2. IsFiniteSet(SUBSET D)
    BY FS_SUBSET DEF AreEvents
  <2>3. QED BY <2>1, <2>2, FS_Subset
<1>3. ASSUME NEW S \in P PROVE \E i \in 1 .. N : \E m : Hit(S, m, i)
  <2>1. PICK m : GoodChain(rule, D, m) /\ S = {m[s] : s \in 1 .. n}
    BY <1>1, CandidateIs
  <2>2. PICK i \in 1 .. N : EndsIn(rule, found[i], m)
    BY <2>1 DEF Solves
  <2>3. Hit(S, m, i)
    BY <2>1, <2>2
  <2> HIDE DEF Hit
  <2>4. QED BY <2>3
<1>4. ASSUME NEW S \in P PROVE pick(S) \in 1 .. N /\ \E m : Hit(S, m, pick(S))
  <2> HIDE DEF Hit, N
  <2>1. QED BY <1>3
<1> HIDE DEF pick
<1>5. g \in [P -> 1 .. N] /\ \A S \in P : g[S] \in 1 .. N /\ \E m : Hit(S, m, g[S])
  <2> HIDE DEF Hit, N
  <2>1. QED BY <1>4
<1> HIDE DEF g
<1>6. PICK S \in P, T \in P : S # T /\ g[S] = g[T]
  <2> HIDE DEF N
  <2>1. IsFiniteSet(1 .. N) /\ Cardinality(1 .. N) = N
    BY <1>1, FS_Interval
  <2>2. Cardinality(1 .. N) < Cardinality(P)
    BY <1>1, <2>1
  <2>3. g \in [P -> 1 .. N]
    BY <1>5
  <2>4. \E S, T \in P : S # T /\ g[S] = g[T]
    <3> DEFINE R == 1 .. N
    <3> HIDE DEF R
    <3>1. IsFiniteSet(R) /\ Cardinality(R) < Cardinality(P) /\ g \in [P -> R]
      BY <2>1, <2>2, <2>3 DEF R
    <3>2. QED BY <1>2, <3>1, FS_PigeonHole
  <2>5. QED BY <2>4
<1> DEFINE i == g[S]
           x == found[i][n]
<1>7. PICK m : Hit(S, m, i)
  BY <1>5
<1>8. PICK k : Hit(T, k, i)
  BY <1>5, <1>6
<1>9. /\ m[1] \in D /\ m[n] \in D /\ 1 \in 1 .. n /\ n \in 1 .. n /\ m[1] \in S /\ m[n] \in S
      /\ \A s \in 1 .. n : Alike(rule, m[1], m[s])
  BY <1>7, ChainIs
<1>10. /\ k[1] \in D /\ k[n] \in D /\ k[1] \in T /\ k[n] \in T
       /\ \A s \in 1 .. n : Alike(rule, k[1], k[s])
  BY <1>8, ChainIs
<1>11. /\ Alike(rule, found[i][1], m[1]) /\ NotAfter(m[1], x) /\ NotAfter(x, m[n])
       /\ Alike(rule, found[i][1], k[1]) /\ NotAfter(k[1], x) /\ NotAfter(x, k[n])
  BY <1>7, <1>8 DEF EndsIn
<1>12. x \in D
  <2>1. GoodChain(rule, D, found[i]) /\ i \in 1 .. N
    BY <1>5 DEF Solves
  <2>2. QED BY <2>1, ChainIs
<1>13. SameGroup(rule, S, T)
  <2>1. Alike(rule, m[1], k[1])
    BY <1>11, AlikeIs
  <2>2. \A e \in S : Alike(rule, e, m[1])
    BY <1>7, <1>9, AlikeIs
  <2>3. \A f \in T : Alike(rule, k[1], f)
    BY <1>8, <1>10
  <2>4. \A e \in S, f \in T : Alike(rule, e, f)
    BY <2>1, <2>2, <2>3, AlikeIs
  <2>5. QED BY <2>4 DEF SameGroup, Alike
<1>14. Apart(S, T)
  BY <1>6, <1>13 DEF Packing
<1> HIDE DEF n, i, x
<1>15. Earlier(m[n], k[1]) \/ Earlier(k[n], m[1])
  BY <1>9, <1>10, <1>14 DEF Apart
<1>16. CASE Earlier(m[n], k[1])
  <2>1. Earlier(x, k[1])
    BY <1>9, <1>10, <1>11, <1>12, <1>16, EarlierIs DEF NotAfter
  <2>2. QED BY <1>10, <1>11, <1>12, <2>1, EarlierIs DEF NotAfter
<1>17. CASE Earlier(k[n], m[1])
  <2>1. Earlier(x, m[1])
    BY <1>9, <1>10, <1>11, <1>12, <1>17, EarlierIs DEF NotAfter
  <2>2. QED BY <1>9, <1>11, <1>12, <2>1, EarlierIs DEF NotAfter
<1>18. QED BY <1>15, <1>16, <1>17

\* What two parts of a log give are the matches of both, if no event of one is like one of the other.
LEMMA JoinSolves ==
    ASSUME NEW rule, IsRule(rule), NEW A, NEW B, \A e \in A, f \in B : ~Alike(rule, e, f),
           NEW fa, Solves(rule, A, fa), NEW fb, Solves(rule, B, fb)
    PROVE  Solves(rule, A \cup B, fa \o fb)
<1> DEFINE n == Len(rule.seq)
           D == A \cup B
           f == fa \o fb
           a == Len(fa)
           b == Len(fb)
<1>1. /\ n \in Nat \ {0} /\ fa \in Seq([1 .. n -> A]) /\ a \in Nat /\ fb \in Seq([1 .. n -> B]) /\ b \in Nat
      /\ \A i \in 1 .. a : GoodChain(rule, A, fa[i])
      /\ \A i \in 1 .. b : GoodChain(rule, B, fb[i])
  BY DEF IsRule, Solves
<1>2. /\ f \in Seq([1 .. n -> D]) /\ Len(f) = a + b
      /\ \A i \in 1 .. a : f[i] = fa[i]
      /\ \A i \in 1 .. b : f[a + i] = fb[i]
  <2> DEFINE X == [1 .. n -> D]
  <2>1. fa \in Seq(X) /\ fb \in Seq(X)
    <3>1. [1 .. n -> A] \subseteq X /\ [1 .. n -> B] \subseteq X
      OBVIOUS
    <3> DEFINE XA == [1 .. n -> A]
               XB == [1 .. n -> B]
    <3> HIDE DEF X, XA, XB
    <3>2. fa \in Seq(XA) /\ fb \in Seq(XB) /\ XA \subseteq X /\ XB \subseteq X
      BY <1>1, <3>1 DEF XA, XB
    <3>3. QED BY <3>2
  <2>2. /\ fa \o fb \in Seq(X) /\ Len(fa \o fb) = Len(fa) + Len(fb)
        /\ \A i \in 1 .. Len(fa) : (fa \o fb)[i] = fa[i]
        /\ \A i \in 1 .. Len(fb) : (fa \o fb)[Len(fa) + i] = fb[i]
    <3> HIDE DEF X
    <3>1. QED BY <2>1
  <2>3. QED BY <2>2
<1>3. \A i \in 1 .. a + b : i \in 1 .. a \/ \E j \in 1 .. b : i = a + j
  <2>1. ASSUME NEW i \in 1 .. a + b, i \notin 1 .. a PROVE \E j \in 1 .. b : i = a + j
    <3>1. i - a \in 1 .. b /\ i = a + (i - a)
      BY <1>1, <2>1
    <3>2. QED BY <3>1
  <2>2. QED BY <2>1
<1>4. ASSUME NEW m, GoodChain(rule, A, m) \/ GoodChain(rule, B, m)
      PROVE  GoodChain(rule, D, m)
  <2>1. m \in [1 .. n -> A] \/ m \in [1 .. n -> B]
    BY <1>4 DEF GoodChain
  <2>2. m \in [1 .. n -> D]
    BY <2>1
  <2>3. QED BY <1>4, <2>2 DEF GoodChain
<1>5. ASSUME NEW m, GoodChain(rule, D, m)
      PROVE  GoodChain(rule, A, m) \/ GoodChain(rule, B, m)
  <2>1. m \in [1 .. n -> D] /\ \A i, j \in 1 .. n : Alike(rule, m[i], m[j])
    BY <1>5 DEF GoodChain
  <2>2. (\A i \in 1 .. n : m[i] \in A) \/ (\A i \in 1 .. n : m[i] \in B)
    <3>1. \A i \in 1 .. n : m[i] \in A \/ m[i] \in B
      BY <2>1
    <3>2. QED BY <2>1, <3>1
  <2>3. m \in [1 .. n -> A] \/ m \in [1 .. n -> B]
    BY <2>1, <2>2
  <2>4. QED BY <1>5, <2>3 DEF GoodChain
<1> HIDE DEF f, a, b
<1>6. ASSUME NEW i \in 1 .. a + b PROVE GoodChain(rule, D, f[i])
  <2> HIDE DEF D
  <2>1. CASE i \in 1 .. a
    BY <1>1, <1>2, <1>4, <2>1
  <2>2. CASE \E j \in 1 .. b : i = a + j
    BY <1>1, <1>2, <1>4, <2>2
  <2>3. QED BY <1>3, <2>1, <2>2
<1>7. ASSUME NEW i \in 1 .. a + b, NEW j \in 1 .. a + b, i < j PROVE Parted(rule, f[i], f[j])
  <2>1. CASE i \in 1 .. a /\ j \in 1 .. a
    <3>1. \A p, q \in 1 .. a : p < q => Parted(rule, fa[p], fa[q])
      BY DEF Solves, a
    <3>2. QED BY <1>2, <1>7, <2>1, <3>1
  <2>2. CASE i \in 1 .. a /\ \E q \in 1 .. b : j = a + q
    <3>1. PICK q \in 1 .. b : j = a + q
      BY <2>2
    <3>2. GoodChain(rule, A, fa[i]) /\ GoodChain(rule, B, fb[q])
      BY <1>1, <2>2, <3>1
    <3>3. fa[i][1] \in A /\ fb[q][1] \in B
      <4>1. fa[i] \in [1 .. n -> A] /\ fb[q] \in [1 .. n -> B] /\ 1 \in 1 .. n
        BY <1>1, <3>2 DEF GoodChain
      <4>2. QED BY <4>1
    <3>4. QED BY <1>2, <2>2, <3>1, <3>3 DEF Parted
  <2>3. CASE (\E p \in 1 .. b : i = a + p) /\ \E q \in 1 .. b : j = a + q
    <3>1. PICK p \in 1 .. b, q \in 1 .. b : i = a + p /\ j = a + q
      BY <2>3
    <3>2. p < q
      BY <1>1, <1>7, <3>1
    <3>3. Parted(rule, fb[p], fb[q])
      BY <3>2 DEF Solves, b
    <3>4. QED BY <1>2, <3>1, <3>3
  <2>4. ~((\E p \in 1 .. b : i = a + p) /\ j \in 1 .. a)
    BY <1>1, <1>7
  <2>5. QED BY <1>3, <2>1, <2>2, <2>3, <2>4
<1>8. ASSUME NEW m, GoodChain(rule, D, m) PROVE \E i \in 1 .. a + b : EndsIn(rule, f[i], m)
  <2>1. CASE GoodChain(rule, A, m)
    <3>1. PICK i \in 1 .. a : EndsIn(rule, fa[i], m)
      BY <2>1 DEF Solves, a
    <3>2. i \in 1 .. a + b /\ f[i] = fa[i]
      BY <1>1, <1>2
    <3>3. QED BY <3>1, <3>2
  <2>2. CASE GoodChain(rule, B, m)
    <3>1. PICK i \in 1 .. b : EndsIn(rule, fb[i], m)
      BY <2>2 DEF Solves, b
    <3>2. a + i \in 1 .. a + b
      BY <1>1
    <3>3. f[a + i] = fb[i]
      BY <1>2
    <3>4. QED BY <3>1, <3>2, <3>3
  <2>3. QED BY <1>5, <1>8, <2>1, <2>2
<1>9. Len(f) \in Nat
  BY <1>1, <1>2
<1> HIDE DEF n, D
<1>10. Solves(rule, D, f)
  BY <1>2, <1>6, <1>7, <1>8, <1>9 DEF Solves, n
<1>11. QED BY <1>10 DEF D, f

\* f[i] is the first i sequences put together.
Flattened(ss, k, f) ==
    /\ f[1] = ss[1]
    /\ \A i \in 2 .. k : f[i] = f[i - 1] \o ss[i]
    /\ FlattenSeq(ss) = f[k]

LEMMA FlattenIs ==
    ASSUME NEW X, NEW k \in Nat \ {0}, NEW ss \in [1 .. k -> Seq(X)]
    PROVE  \E f \in [1 .. k -> Seq(X)] : Flattened(ss, k, f)
<1> DEFINE Is(f, d) == /\ f \in [1 .. d -> Seq(X)] /\ f[1] = ss[1]
                       /\ \A i \in 2 .. d : f[i] = f[i - 1] \o ss[i]
           Folds(f) == f = [i \in 1 .. k |-> IF i = 1 THEN ss[i] ELSE f[i - 1] \o ss[i]]
           h == CHOOSE f : Folds(f)
           Fine == {d \in 0 .. (k - 1) : \E f : Is(f, d + 1)}
<1>1. 0 \in Fine
  <2> DEFINE f == [i \in 1 .. 1 |-> ss[1]]
  <2>1. f \in [1 .. 1 -> Seq(X)] /\ f[1] = ss[1]
    OBVIOUS
  <2> HIDE DEF f
  <2>2. Is(f, 0 + 1)
    BY <2>1
  <2>3. 0 \in 0 .. (k - 1)
    OBVIOUS
  <2> HIDE DEF Is
  <2>4. QED BY <2>2, <2>3
<1>2. ASSUME NEW d \in 1 .. (k - 1), d - 1 \in Fine PROVE d \in Fine
  <2>1. PICK f : Is(f, (d - 1) + 1)
    BY <1>2
  <2>2. /\ f \in [1 .. d -> Seq(X)] /\ f[1] = ss[1] /\ \A i \in 2 .. d : f[i] = f[i - 1] \o ss[i]
    <3>1. (d - 1) + 1 = d
      OBVIOUS
    <3>2. QED BY <2>1, <3>1
  <2> DEFINE new == f[d] \o ss[d + 1]
             g == [i \in 1 .. d + 1 |-> IF i = d + 1 THEN new ELSE f[i]]
  <2>3. new \in Seq(X)
    <3>1. f[d] \in Seq(X) /\ ss[d + 1] \in Seq(X)
      BY <2>2
    <3>2. QED BY <3>1
  <2> HIDE DEF new
  <2>4. \A i \in 1 .. d + 1 : i # d + 1 => i \in 1 .. d
    OBVIOUS
  <2>5. g \in [1 .. d + 1 -> Seq(X)] /\ g[d + 1] = new /\ \A i \in 1 .. d : g[i] = f[i]
    BY <2>2, <2>3, <2>4
  <2> HIDE DEF g
  <2>6. ASSUME NEW i \in 2 .. d + 1 PROVE g[i] = g[i - 1] \o ss[i]
    <3>1. CASE i = d + 1
      <4>1. i - 1 = d /\ d \in 1 .. d
        BY <3>1
      <4>2. QED BY <2>5, <3>1, <4>1 DEF new
    <3>2. CASE i # d + 1
      <4>1. i \in 2 .. d /\ i \in 1 .. d /\ i - 1 \in 1 .. d
        BY <3>2
      <4>2. QED BY <2>2, <2>5, <4>1
    <3>3. QED BY <3>1, <3>2
  <2>7. g[1] = ss[1]
    BY <2>2, <2>5
  <2>8. Is(g, d + 1)
    BY <2>5, <2>6, <2>7
  <2> HIDE DEF Is
  <2>9. QED BY <2>8
<1>3. PICK f : Is(f, k)
  <2>1. k - 1 \in 0 .. (k - 1) /\ k - 1 \in Nat /\ (k - 1) + 1 = k
    OBVIOUS
  <2>2. k - 1 \in Fine
    <3> HIDE DEF Fine
    <3>1. QED BY <1>1, <1>2, <2>1, UpTo
  <2>3. QED BY <2>1, <2>2
<1>4. Folds(f)
  <2>1. \A i \in 1 .. k : i = 1 \/ i \in 2 .. k
    OBVIOUS
  <2>2. QED BY <1>3, <2>1
<1>5. Folds(h)
  <2> HIDE DEF Folds
  <2>1. QED BY <1>4
<1>6. FlattenSeq(ss) = h[k]
  <2>1. Len(ss) = k /\ Len(ss) # 0
    OBVIOUS
  <2>2. QED BY <2>1 DEF FlattenSeq
<1> HIDE DEF h
<1>7. \A i \in 1 .. k : h[i] = IF i = 1 THEN ss[i] ELSE h[i - 1] \o ss[i]
  BY <1>5
<1>8. h[1] = ss[1] /\ \A i \in 2 .. k : h[i] = h[i - 1] \o ss[i]
  <2>1. 1 \in 1 .. k /\ \A i \in 2 .. k : i \in 1 .. k /\ i # 1
    OBVIOUS
  <2>2. QED BY <1>7, <2>1
<1>9. h \in [1 .. k -> Seq(X)]
  <2> DEFINE Good == {d \in 0 .. (k - 1) : h[d + 1] \in Seq(X)}
  <2>1. 0 \in Good
    BY <1>8
  <2>2. ASSUME NEW d \in 1 .. (k - 1), d - 1 \in Good PROVE d \in Good
    <3> DEFINE x == h[d]
               y == ss[d + 1]
    <3>1. (d - 1) + 1 = d /\ d + 1 \in 2 .. k /\ d + 1 \in 1 .. k /\ (d + 1) - 1 = d /\ d \in 0 .. (k - 1)
      OBVIOUS
    <3>2. x \in Seq(X) /\ y \in Seq(X)
      BY <2>2, <3>1
    <3>3. h[d + 1] = x \o y
      BY <1>8, <3>1
    <3> HIDE DEF x, y
    <3>4. x \o y \in Seq(X)
      BY <3>2
    <3>5. QED BY <3>1, <3>3, <3>4
  <2>3. \A d \in 0 .. (k - 1) : d \in Good
    <3> HIDE DEF Good
    <3>1. k - 1 \in Nat
      OBVIOUS
    <3>2. QED BY <2>1, <2>2, <3>1, UpTo
  <2>4. ASSUME NEW i \in 1 .. k PROVE h[i] \in Seq(X)
    <3>1. i - 1 \in 0 .. (k - 1) /\ (i - 1) + 1 = i
      OBVIOUS
    <3>2. QED BY <2>3, <3>1
  <2>5. h = [i \in 1 .. k |-> h[i]]
    <3>1. h = [i \in 1 .. k |-> IF i = 1 THEN ss[i] ELSE h[i - 1] \o ss[i]]
      BY <1>5
    <3>2. QED BY <1>7, <3>1
  <2>6. QED BY <2>4, <2>5
<1>10. QED BY <1>6, <1>8, <1>9 DEF Flattened

\* What parts of a log give, part by part, are the matches of all of them.
LEMMA FlattenSolves ==
    ASSUME NEW rule, IsRule(rule), NEW k \in Nat, NEW D, NEW ss, ss = [p \in 1 .. k |-> ss[p]],
           \A p \in 1 .. k : Solves(rule, D[p], ss[p]),
           \A p, q \in 1 .. k : p # q => \A e \in D[p], f \in D[q] : ~Alike(rule, e, f)
    PROVE  Solves(rule, UNION {D[p] : p \in 1 .. k}, FlattenSeq(ss))
<1> DEFINE n == Len(rule.seq)
           All(d) == UNION {D[p] : p \in 1 .. d}
           X == [1 .. n -> All(k)]
<1>1. n \in Nat \ {0}
  BY DEF IsRule
<1>2. CASE k = 0
  <2>1. ss = <<>> /\ FlattenSeq(ss) = ss /\ Len(ss) = 0
    <3>1. DOMAIN ss = 1 .. 0
      BY <1>2
    <3>2. ss = <<>>
      BY <3>1, <1>2
    <3>3. QED BY <3>2 DEF FlattenSeq
  <2>2. All(0) = {}
    OBVIOUS
  <2>3. \A m : ~GoodChain(rule, {}, m)
    <3>1. ASSUME NEW m, GoodChain(rule, {}, m) PROVE FALSE
      <4>1. m \in [1 .. n -> {}] /\ 1 \in 1 .. n
        BY <1>1, <3>1 DEF GoodChain
      <4>2. QED BY <4>1
    <3>2. QED BY <3>1
  <2>4. <<>> \in Seq([1 .. n -> {}])
    OBVIOUS
  <2>5. 1 .. Len(<<>>) = {} /\ Len(<<>>) \in Nat
    OBVIOUS
  <2> HIDE DEF All
  <2>6. Solves(rule, {}, <<>>)
    BY <2>3, <2>4, <2>5 DEF Solves
  <2>7. QED BY <1>2, <2>1, <2>2, <2>6 DEF All
<1>3. CASE k # 0
  <2>1. k \in Nat \ {0}
    BY <1>3
  <2>2. ss \in [1 .. k -> Seq(X)]
    <3>1. ASSUME NEW p \in 1 .. k PROVE ss[p] \in Seq(X)
      <4> DEFINE Y == [1 .. n -> D[p]]
      <4>1. ss[p] \in Seq(Y)
        BY DEF Solves
      <4>2. D[p] \subseteq All(k)
        OBVIOUS
      <4>3. Y \subseteq X
        <5> HIDE DEF All
        <5>1. QED BY <4>2
      <4> HIDE DEF X, Y
      <4>4. QED BY <4>1, <4>3
    <3> HIDE DEF X
    <3>2. QED BY <3>1
  <2>3. PICK f \in [1 .. k -> Seq(X)] : Flattened(ss, k, f)
    <3> HIDE DEF X
    <3>1. QED BY <2>1, <2>2, FlattenIs
  <2> DEFINE Fine == {d \in 0 .. (k - 1) : Solves(rule, All(d + 1), f[d + 1])}
  <2>4. 0 \in Fine
    <3>1. All(1) = D[1] /\ 1 \in 1 .. k /\ 0 \in 0 .. (k - 1) /\ 0 + 1 = 1
      BY <2>1
    <3> HIDE DEF All
    <3>2. QED BY <2>3, <3>1 DEF Flattened
  <2>5. ASSUME NEW d \in 1 .. (k - 1), d - 1 \in Fine PROVE d \in Fine
    <3> DEFINE A == All(d)
               B == D[d + 1]
    <3>1. /\ (d - 1) + 1 = d /\ d + 1 \in 2 .. k /\ d + 1 \in 1 .. k /\ (d + 1) - 1 = d /\ d \in 0 .. (k - 1)
          /\ \A p \in 1 .. d : p \in 1 .. k /\ p # d + 1
          /\ \A p \in 1 .. d + 1 : p \in 1 .. d \/ p = d + 1
          /\ \A p \in 1 .. d : p \in 1 .. d + 1
          /\ d + 1 \in 1 .. d + 1
      BY <2>1
    <3>2. Solves(rule, A, f[d]) /\ Solves(rule, B, ss[d + 1])
      <4> HIDE DEF All
      <4>1. QED BY <2>5, <3>1
    <3>3. All(d + 1) = A \cup B
      <4>1. \A e \in All(d + 1) : e \in A \cup B
        BY <3>1
      <4>2. \A e \in A \cup B : e \in All(d + 1)
        BY <3>1
      <4>3. QED BY <4>1, <4>2
    <3>4. \A e \in A, g \in B : ~Alike(rule, e, g)
      BY <3>1
    <3> HIDE DEF A, B
    <3>5. Solves(rule, A \cup B, f[d] \o ss[d + 1])
      BY <3>2, <3>4, JoinSolves
    <3>6. f[d + 1] = f[d] \o ss[d + 1]
      BY <2>3, <3>1 DEF Flattened
    <3> HIDE DEF All
    <3>7. QED BY <3>1, <3>3, <3>5, <3>6
  <2>6. k - 1 \in 0 .. (k - 1) /\ k - 1 \in Nat /\ (k - 1) + 1 = k
    BY <2>1
  <2>7. k - 1 \in Fine
    <3> HIDE DEF Fine
    <3>1. QED BY <2>4, <2>5, <2>6, UpTo
  <2> HIDE DEF All
  <2>8. Solves(rule, All(k), f[k])
    BY <2>6, <2>7
  <2>9. QED BY <2>3, <2>8 DEF All, Flattened
<1>4. QED BY <1>2, <1>3

LEMMA WidenSolves ==
    ASSUME NEW rule, NEW A, NEW D, A \subseteq D, NEW found, Solves(rule, A, found),
           \A m : GoodChain(rule, D, m) => \A i \in 1 .. Len(rule.seq) : m[i] \in A
    PROVE  Solves(rule, D, found)
<1> DEFINE n == Len(rule.seq)
           X == [1 .. n -> A]
           Y == [1 .. n -> D]
<1>1. X \subseteq Y
  OBVIOUS
<1>2. found \in Seq(Y)
  <2>1. found \in Seq(X)
    BY DEF Solves
  <2> HIDE DEF X, Y
  <2>2. QED BY <1>1, <2>1
<1>3. \A m : GoodChain(rule, A, m) => GoodChain(rule, D, m)
  BY <1>1 DEF GoodChain
<1>4. \A m : GoodChain(rule, D, m) => GoodChain(rule, A, m)
  <2>1. ASSUME NEW m, GoodChain(rule, D, m) PROVE m \in X
    <3>1. m \in Y /\ \A i \in 1 .. n : m[i] \in A
      BY <2>1 DEF GoodChain
    <3>2. QED BY <3>1
  <2>2. QED BY <2>1 DEF GoodChain
<1>5. QED BY <1>2, <1>3, <1>4 DEF Solves

\* A part of a log in which all events are alike, and the same of positions in it as of its events.
IsCell(rule, c) ==
    /\ IsLog(c)
    /\ \A i, j \in 1 .. Len(c) : Alike(rule, c[i], c[j])
    /\ \A i \in 1 .. Len(c), k \in rule.slots : c[i].keys[k] # Absent
EventsAt(c, q) == [s \in DOMAIN q |-> c[q[s]]]
FitsAt(rule, c, q) ==
    /\ q \in [1 .. Len(rule.seq) -> 1 .. Len(c)]
    /\ \A s, t \in 1 .. Len(rule.seq) : s < t => q[s] < q[t]
    /\ \A s \in 1 .. Len(rule.seq) : c[q[s]].event = rule.seq[s]
    /\ InWindow(rule, EventsAt(c, q))
Stabs(rule, c, found) ==
    /\ found \in Seq([1 .. Len(rule.seq) -> 1 .. Len(c)])
    /\ \A i \in 1 .. Len(found) : FitsAt(rule, c, found[i])
    /\ \A i, j \in 1 .. Len(found) : i < j => found[i][Len(rule.seq)] < found[j][1]
    /\ \A q : FitsAt(rule, c, q) =>
           \E i \in 1 .. Len(found) : q[1] <= found[i][Len(rule.seq)] /\ found[i][Len(rule.seq)] <= q[Len(rule.seq)]

LEMMA FittingIsGood ==
    ASSUME NEW rule, IsRule(rule), NEW c, IsCell(rule, c), NEW q, FitsAt(rule, c, q)
    PROVE  GoodChain(rule, ToSet(c), EventsAt(c, q)) /\ \A s \in 1 .. Len(rule.seq) : EventsAt(c, q)[s] = c[q[s]]
<1> DEFINE n == Len(rule.seq)
           m == EventsAt(c, q)
<1>1. n \in Nat \ {0} /\ IsLog(c)
  BY DEF IsRule, IsCell
<1>2. /\ q \in [1 .. n -> 1 .. Len(c)]
      /\ \A s, t \in 1 .. n : s < t => q[s] < q[t]
      /\ \A s \in 1 .. n : c[q[s]].event = rule.seq[s]
      /\ InWindow(rule, m)
  BY DEF FitsAt
<1>3. \A i \in 1 .. Len(c) : c[i] \in ToSet(c)
  BY <1>1, LogIs
<1>4. m \in [1 .. n -> ToSet(c)] /\ \A s \in 1 .. n : m[s] = c[q[s]]
  BY <1>2, <1>3 DEF EventsAt
<1>5. \A s \in 1 .. n : q[s] \in 1 .. Len(c)
  BY <1>2
<1>6. /\ \A i, j \in 1 .. Len(c) : i < j => Earlier(c[i], c[j])
      /\ \A i, j \in 1 .. Len(c) : Alike(rule, c[i], c[j])
      /\ \A i \in 1 .. Len(c), k \in rule.slots : c[i].keys[k] # Absent
  BY DEF IsCell, IsLog
<1> HIDE DEF m
<1>7. \A s, t \in 1 .. n : s < t => Earlier(m[s], m[t])
  BY <1>2, <1>4, <1>5, <1>6
<1>8. \A s \in 1 .. n : m[s].event = rule.seq[s]
  BY <1>2, <1>4
<1>9. (\A s, t \in 1 .. n : Alike(rule, m[s], m[t])) /\ \A s \in 1 .. n, k \in rule.slots : m[s].keys[k] # Absent
  BY <1>4, <1>5, <1>6, SMTT(30)
<1>10. GoodChain(rule, ToSet(c), m)
  BY <1>2, <1>4, <1>7, <1>8, <1>9 DEF GoodChain
<1>11. QED BY <1>4, <1>10 DEF m

LEMMA GoodIsFitting ==
    ASSUME NEW rule, IsRule(rule), NEW c, IsCell(rule, c), NEW m, GoodChain(rule, ToSet(c), m)
    PROVE  \E q : FitsAt(rule, c, q) /\ m = EventsAt(c, q)
<1> DEFINE n == Len(rule.seq)
           at(s) == CHOOSE i \in 1 .. Len(c) : c[i] = m[s]
           q == [s \in 1 .. n |-> at(s)]
<1>1. n \in Nat \ {0} /\ IsLog(c)
  BY DEF IsRule, IsCell
<1>2. m \in [1 .. n -> ToSet(c)]
  BY DEF GoodChain
<1>3. /\ ToSet(c) = {c[i] : i \in 1 .. Len(c)} /\ Len(c) \in Nat
      /\ \A i, j \in 1 .. Len(c) : i < j => Earlier(c[i], c[j])
  BY <1>1, LogIs DEF IsLog
<1>4. ASSUME NEW s \in 1 .. n PROVE at(s) \in 1 .. Len(c) /\ c[at(s)] = m[s]
  <2>1. \E i \in 1 .. Len(c) : c[i] = m[s]
    BY <1>2, <1>3
  <2>2. QED BY <2>1
<1> HIDE DEF at
<1>5. q \in [1 .. n -> 1 .. Len(c)] /\ \A s \in 1 .. n : q[s] \in 1 .. Len(c) /\ c[q[s]] = m[s]
  BY <1>4
<1> HIDE DEF q
<1>6. m = EventsAt(c, q)
  <2>1. DOMAIN q = 1 .. n /\ m = [s \in 1 .. n |-> m[s]]
    BY <1>2, <1>5
  <2>2. QED BY <1>5, <2>1 DEF EventsAt
<1>7. ASSUME NEW s \in 1 .. n, NEW t \in 1 .. n, s < t PROVE q[s] < q[t]
  <2>1. Earlier(m[s], m[t]) /\ m[s] \in ToSet(c) /\ m[t] \in ToSet(c)
    BY <1>2, <1>7 DEF GoodChain
  <2>2. q[s] \in 1 .. Len(c) /\ q[t] \in 1 .. Len(c) /\ c[q[s]] = m[s] /\ c[q[t]] = m[t]
    BY <1>5
  <2>3. AreEvents(ToSet(c))
    BY <1>1 DEF IsLog
  <2>4. q[s] # q[t] /\ ~(q[t] < q[s])
    BY <1>3, <2>1, <2>2, <2>3, EarlierIs
  <2>5. QED BY <1>3, <2>2, <2>4
<1>8. FitsAt(rule, c, q)
  <2>1. \A s \in 1 .. n : c[q[s]].event = rule.seq[s]
    BY <1>5 DEF GoodChain
  <2>2. InWindow(rule, EventsAt(c, q))
    BY <1>6 DEF GoodChain
  <2>3. QED BY <1>5, <1>7, <2>1, <2>2 DEF FitsAt
<1>9. QED BY <1>6, <1>8

\* Positions that leave no room for others stand for matches that leave none.
LEMMA CellSolves ==
    ASSUME NEW rule, IsRule(rule), NEW c, IsCell(rule, c), NEW found, Stabs(rule, c, found)
    PROVE  Solves(rule, ToSet(c), AsEvents(c, found))
<1> DEFINE n == Len(rule.seq)
           N == Len(found)
           D == ToSet(c)
           f == AsEvents(c, found)
           X == [1 .. n -> D]
<1>1. n \in Nat \ {0} /\ 1 \in 1 .. n /\ n \in 1 .. n
  BY DEF IsRule
<1>2. N \in Nat /\ DOMAIN found = 1 .. N
  BY DEF Stabs
<1>3. f = [i \in 1 .. N |-> EventsAt(c, found[i])]
  BY <1>2 DEF AsEvents, EventsAt
<1>4. ASSUME NEW i \in 1 .. N
      PROVE  GoodChain(rule, D, EventsAt(c, found[i])) /\ \A s \in 1 .. n : EventsAt(c, found[i])[s] = c[found[i][s]]
  <2>1. FitsAt(rule, c, found[i])
    BY DEF Stabs
  <2>2. QED BY <2>1, FittingIsGood
<1>5. \A i \in 1 .. N, s \in 1 .. n : found[i][s] \in 1 .. Len(c)
  <2>1. \A i \in 1 .. N : found[i] \in [1 .. n -> 1 .. Len(c)]
    BY DEF Stabs, FitsAt
  <2>2. QED BY <2>1
<1>6. /\ \A i \in 1 .. N : GoodChain(rule, D, f[i]) /\ \A s \in 1 .. n : f[i][s] = c[found[i][s]]
      /\ Len(f) = N /\ f \in Seq(X)
  <2>1. \A i \in 1 .. N : f[i] = EventsAt(c, found[i])
    BY <1>3
  <2>2. DOMAIN f = 1 .. N
    BY <1>3
  <2>3. \A i \in 1 .. N : EventsAt(c, found[i]) \in X
    BY <1>4 DEF GoodChain
  <2>4. f \in [1 .. N -> X]
    <3> HIDE DEF X
    <3>1. QED BY <1>3, <2>3
  <2> HIDE DEF f, X
  <2>5. Len(f) = N /\ f \in Seq(X)
    BY <1>2, <2>4
  <2>6. QED BY <1>4, <2>1, <2>5
<1> HIDE DEF f
<1>7. IsLog(c) /\ Len(c) \in Nat /\ \A i, j \in 1 .. Len(c) : i < j => Earlier(c[i], c[j])
  BY LogIs DEF IsCell, IsLog
<1>8. ASSUME NEW i \in 1 .. N, NEW j \in 1 .. N, i < j PROVE Parted(rule, f[i], f[j])
  <2>1. found[i][n] < found[j][1]
    BY <1>8 DEF Stabs
  <2>2. Earlier(c[found[i][n]], c[found[j][1]])
    BY <1>1, <1>5, <1>7, <2>1
  <2>3. QED BY <1>1, <1>6, <2>2 DEF Parted
<1>9. ASSUME NEW m, GoodChain(rule, D, m) PROVE \E i \in 1 .. N : EndsIn(rule, f[i], m)
  <2>1. PICK q : FitsAt(rule, c, q) /\ m = EventsAt(c, q)
    BY <1>9, GoodIsFitting
  <2>2. PICK i \in 1 .. N : q[1] <= found[i][n] /\ found[i][n] <= q[n]
    BY <2>1 DEF Stabs
  <2>3. \A s \in 1 .. n : m[s] = c[q[s]] /\ q[s] \in 1 .. Len(c)
    <3>1. q \in [1 .. n -> 1 .. Len(c)]
      BY <2>1 DEF FitsAt
    <3>2. QED BY <2>1, <3>1 DEF EventsAt
  <2>4. /\ f[i][1] = c[found[i][1]] /\ f[i][n] = c[found[i][n]] /\ found[i][1] \in 1 .. Len(c) /\ found[i][n] \in 1 .. Len(c)
        /\ m[1] = c[q[1]] /\ m[n] = c[q[n]] /\ q[1] \in 1 .. Len(c) /\ q[n] \in 1 .. Len(c)
    BY <1>1, <1>5, <1>6, <2>3
  <2>5. Alike(rule, f[i][1], m[1])
    BY <2>4 DEF IsCell
  <2>6. \A p, r \in 1 .. Len(c) : p <= r => NotAfter(c[p], c[r])
    <3>1. \A p, r \in 1 .. Len(c) : p <= r => p = r \/ p < r
      BY <1>7
    <3>2. QED BY <1>7, <3>1 DEF NotAfter
  <2>7. NotAfter(m[1], f[i][n]) /\ NotAfter(f[i][n], m[n])
    BY <2>2, <2>4, <2>6
  <2>8. QED BY <2>5, <2>7 DEF EndsIn
<1> HIDE DEF D
<1>10. Solves(rule, D, f)
  BY <1>2, <1>6, <1>8, <1>9 DEF Solves
<1>11. QED BY <1>10 DEF D, f

\* Where the last match ended, and what both sweeps have found when they are at position k.
Reach(rule, found) == IF found = <<>> THEN 0 ELSE found[Len(found)][Len(rule.seq)]
Kept(rule, c, k, found) ==
    /\ found \in Seq([1 .. Len(rule.seq) -> 1 .. Len(c)])
    /\ \A i \in 1 .. Len(found) : FitsAt(rule, c, found[i]) /\ found[i][Len(rule.seq)] <= k
    /\ \A i, j \in 1 .. Len(found) : i < j => found[i][Len(rule.seq)] < found[j][1]
    /\ \A q : FitsAt(rule, c, q) /\ q[Len(rule.seq)] <= k =>
           \E i \in 1 .. Len(found) : q[1] <= found[i][Len(rule.seq)] /\ found[i][Len(rule.seq)] <= q[Len(rule.seq)]

LEMMA FitsBetween ==
    ASSUME NEW rule, IsRule(rule), NEW c, IsCell(rule, c), NEW q, FitsAt(rule, c, q)
    PROVE  /\ 1 \in 1 .. Len(rule.seq) /\ Len(rule.seq) \in 1 .. Len(rule.seq) /\ Len(c) \in Nat
           /\ \A s \in 1 .. Len(rule.seq) : q[s] \in 1 .. Len(c) /\ q[1] <= q[s] /\ q[s] <= q[Len(rule.seq)]
<1> DEFINE n == Len(rule.seq)
<1>1. n \in Nat \ {0} /\ Len(c) \in Nat
  BY LogIs DEF IsRule, IsCell
<1>2. q \in [1 .. n -> 1 .. Len(c)] /\ \A s, t \in 1 .. n : s < t => q[s] < q[t]
  BY DEF FitsAt
<1> HIDE DEF n
<1>3. 1 \in 1 .. n /\ n \in 1 .. n /\ \A s \in 1 .. n : (1 = s \/ 1 < s) /\ (s = n \/ s < n)
  BY <1>1
<1>4. ASSUME NEW s \in 1 .. n PROVE q[s] \in 1 .. Len(c) /\ q[1] <= q[s] /\ q[s] <= q[n]
  <2>1. q[s] \in 1 .. Len(c) /\ q[1] \in 1 .. Len(c) /\ q[n] \in 1 .. Len(c)
    BY <1>2, <1>3
  <2>2. q[1] = q[s] \/ q[1] < q[s]
    BY <1>2, <1>3
  <2>3. q[s] = q[n] \/ q[s] < q[n]
    BY <1>2, <1>3
  <2>4. QED BY <1>1, <2>1, <2>2, <2>3
<1>5. QED BY <1>1, <1>3, <1>4 DEF n

LEMMA ReachIs ==
    ASSUME NEW rule, IsRule(rule), NEW c, IsCell(rule, c), NEW k \in 0 .. Len(c), NEW found, Kept(rule, c, k, found)
    PROVE  /\ Len(found) \in Nat /\ Reach(rule, found) \in 0 .. k
           /\ \A i \in 1 .. Len(found) : found[i][Len(rule.seq)] <= Reach(rule, found)
           /\ Reach(rule, found) # 0 => Len(found) \in 1 .. Len(found) /\ found[Len(found)][Len(rule.seq)] = Reach(rule, found)
<1> DEFINE n == Len(rule.seq)
           N == Len(found)
<1>1. N \in Nat /\ (found = <<>> <=> N = 0)
  BY DEF Kept
<1>2. \A i \in 1 .. N : /\ found[i][n] \in 1 .. Len(c) /\ found[i][1] \in 1 .. Len(c) /\ found[i][n] <= k
                        /\ found[i][1] <= found[i][n]
  <2>1. ASSUME NEW i \in 1 .. N
        PROVE  found[i][n] \in 1 .. Len(c) /\ found[i][1] \in 1 .. Len(c) /\ found[i][n] <= k /\ found[i][1] <= found[i][n]
    <3>1. FitsAt(rule, c, found[i]) /\ found[i][n] <= k
      BY DEF Kept
    <3>2. QED BY <3>1, FitsBetween
  <2>2. QED BY <2>1
<1>3. CASE N = 0
  <2>1. Reach(rule, found) = 0 /\ 1 .. N = {}
    BY <1>1, <1>3 DEF Reach
  <2>2. QED BY <1>1, <2>1
<1>4. CASE N # 0
  <2>1. Reach(rule, found) = found[N][n] /\ N \in 1 .. N
    BY <1>1, <1>4 DEF Reach
  <2>2. ASSUME NEW i \in 1 .. N PROVE found[i][n] <= found[N][n]
    <3>1. CASE i = N
      BY <1>2, <2>1, <3>1
    <3>2. CASE i # N
      <4>1. i < N
        BY <1>1, <3>2
      <4>2. found[i][n] < found[N][1]
        BY <2>1, <4>1 DEF Kept
      <4>3. QED BY <1>2, <2>1, <4>2
    <3>3. QED BY <3>1, <3>2
  <2>3. found[N][n] \in 0 .. k
    BY <1>2, <2>1
  <2> HIDE DEF N, n
  <2>4. QED BY <1>1, <2>1, <2>2, <2>3 DEF N, n
<1>5. QED BY <1>3, <1>4

LEMMA FoundStays ==
    ASSUME NEW rule, IsRule(rule), NEW c, IsCell(rule, c), NEW k \in 1 .. Len(c), NEW found, Kept(rule, c, k - 1, found),
           \A q : FitsAt(rule, c, q) /\ q[Len(rule.seq)] = k => q[1] <= Reach(rule, found)
    PROVE  Kept(rule, c, k, found)
<1> DEFINE n == Len(rule.seq)
           N == Len(found)
<1>1. /\ N \in Nat /\ Len(c) \in Nat /\ \A i \in 1 .. N : found[i][n] <= Reach(rule, found)
      /\ Reach(rule, found) # 0 => N \in 1 .. N /\ found[N][n] = Reach(rule, found)
      /\ Reach(rule, found) \in 0 .. (k - 1)
  <2>1. Len(c) \in Nat
    BY LogIs DEF IsCell
  <2>2. k - 1 \in 0 .. Len(c)
    BY <2>1
  <2>3. QED BY <2>1, <2>2, ReachIs
<1>2. ASSUME NEW i \in 1 .. N PROVE FitsAt(rule, c, found[i]) /\ found[i][n] <= k
  <2>1. FitsAt(rule, c, found[i]) /\ found[i][n] <= k - 1
    BY DEF Kept
  <2>2. found[i][n] \in 1 .. Len(c)
    BY <2>1, FitsBetween
  <2>3. QED BY <2>1, <2>2
<1>3. ASSUME NEW q, FitsAt(rule, c, q), q[n] <= k
      PROVE  \E i \in 1 .. N : q[1] <= found[i][n] /\ found[i][n] <= q[n]
  <2>1. q[n] \in 1 .. Len(c) /\ q[1] \in 1 .. Len(c)
    BY <1>3, FitsBetween
  <2>2. CASE q[n] <= k - 1
    BY <1>3, <2>2 DEF Kept
  <2>3. CASE q[n] = k
    <3>1. q[1] <= Reach(rule, found)
      BY <1>3, <2>3
    <3>2. Reach(rule, found) # 0 /\ Reach(rule, found) <= k
      BY <1>1, <2>1, <3>1
    <3>3. QED BY <1>1, <2>3, <3>1, <3>2
  <2>4. QED BY <1>3, <2>1, <2>2, <2>3
<1>4. QED BY <1>2, <1>3 DEF Kept

LEMMA FoundGrows ==
    ASSUME NEW rule, IsRule(rule), NEW c, IsCell(rule, c), NEW k \in 1 .. Len(c), NEW found, Kept(rule, c, k - 1, found),
           NEW new, FitsAt(rule, c, new), new[Len(rule.seq)] = k, Reach(rule, found) < new[1]
    PROVE  Kept(rule, c, k, Append(found, new)) /\ Reach(rule, Append(found, new)) = k
<1> DEFINE n == Len(rule.seq)
           N == Len(found)
           X == [1 .. n -> 1 .. Len(c)]
           f == Append(found, new)
<1>1. N \in Nat /\ Len(c) \in Nat /\ (\A i \in 1 .. N : found[i][n] <= Reach(rule, found)) /\ Reach(rule, found) \in 0 .. (k - 1)
  <2>1. Len(c) \in Nat
    BY LogIs DEF IsCell
  <2>2. k - 1 \in 0 .. Len(c)
    BY <2>1
  <2>3. QED BY <2>1, <2>2, ReachIs
<1>2. found \in Seq(X) /\ new \in X
  BY DEF Kept, FitsAt
<1>3. /\ f \in Seq(X) /\ Len(f) = N + 1 /\ f # <<>> /\ f[N + 1] = new
      /\ \A i \in 1 .. N : f[i] = found[i]
  <2> HIDE DEF X
  <2>1. QED BY <1>2
<1> HIDE DEF f
<1>4. ASSUME NEW i \in 1 .. N
      PROVE  /\ FitsAt(rule, c, found[i]) /\ found[i][n] <= k - 1 /\ found[i][n] \in 1 .. Len(c)
             /\ found[i][n] < new[1]
  <2>1. FitsAt(rule, c, found[i]) /\ found[i][n] <= k - 1
    BY DEF Kept
  <2>2. found[i][n] \in 1 .. Len(c) /\ new[1] \in 1 .. Len(c)
    BY <2>1, FitsBetween
  <2>3. found[i][n] <= Reach(rule, found)
    BY <1>1
  <2> HIDE DEF n
  <2>4. QED BY <1>1, <2>1, <2>2, <2>3
<1>5. \A i \in 1 .. N + 1 : i \in 1 .. N \/ i = N + 1
  BY <1>1
<1>6. ASSUME NEW i \in 1 .. N + 1 PROVE FitsAt(rule, c, f[i]) /\ f[i][n] <= k
  BY <1>3, <1>4, <1>5
<1>7. ASSUME NEW i \in 1 .. N + 1, NEW j \in 1 .. N + 1, i < j PROVE f[i][n] < f[j][1]
  <2>1. i \in 1 .. N
    BY <1>1, <1>7
  <2>2. CASE j \in 1 .. N
    <3>1. found[i][n] < found[j][1]
      BY <1>7, <2>1, <2>2 DEF Kept
    <3>2. QED BY <1>3, <2>1, <2>2, <3>1
  <2>3. CASE j = N + 1
    BY <1>3, <1>4, <2>1, <2>3
  <2>4. QED BY <1>5, <2>2, <2>3
<1>8. ASSUME NEW q, FitsAt(rule, c, q), q[n] <= k
      PROVE  \E i \in 1 .. N + 1 : q[1] <= f[i][n] /\ f[i][n] <= q[n]
  <2>1. q[n] \in 1 .. Len(c) /\ q[1] \in 1 .. Len(c) /\ q[1] <= q[n]
    BY <1>8, FitsBetween
  <2>2. CASE q[n] <= k - 1
    <3>1. PICK i \in 1 .. N : q[1] <= found[i][n] /\ found[i][n] <= q[n]
      BY <1>8, <2>2 DEF Kept
    <3>2. i \in 1 .. N + 1 /\ f[i] = found[i]
      BY <1>1, <1>3
    <3>3. QED BY <3>1, <3>2
  <2>3. CASE q[n] = k
    <3>1. N + 1 \in 1 .. N + 1 /\ f[N + 1][n] = k
      BY <1>1, <1>3
    <3>2. QED BY <2>1, <2>3, <3>1
  <2>4. QED BY <1>8, <2>1, <2>2, <2>3
<1>9. Kept(rule, c, k, f)
  <2> HIDE DEF n, N
  <2>1. QED BY <1>3, <1>6, <1>7, <1>8 DEF Kept, n
<1>10. Reach(rule, f) = k
  BY <1>3 DEF Reach
<1>11. QED BY <1>9, <1>10 DEF f

LEMMA NothingKept ==
    ASSUME NEW rule, IsRule(rule), NEW c, IsCell(rule, c)
    PROVE  Kept(rule, c, 0, <<>>)
<1>1. \A q : FitsAt(rule, c, q) => ~(q[Len(rule.seq)] <= 0)
  <2>1. ASSUME NEW q, FitsAt(rule, c, q) PROVE ~(q[Len(rule.seq)] <= 0)
    <3>1. q[Len(rule.seq)] \in 1 .. Len(c) /\ Len(c) \in Nat
      BY <2>1, FitsBetween
    <3>2. QED BY <3>1
  <2>2. QED BY <2>1
<1>2. <<>> \in Seq([1 .. Len(rule.seq) -> 1 .. Len(c)]) /\ 1 .. Len(<<>>) = {}
  OBVIOUS
<1>3. QED BY <1>1, <1>2 DEF Kept

LEMMA AllKept ==
    ASSUME NEW rule, IsRule(rule), NEW c, IsCell(rule, c), NEW found, Kept(rule, c, Len(c), found)
    PROVE  Solves(rule, ToSet(c), AsEvents(c, found))
<1>1. \A q : FitsAt(rule, c, q) => q[Len(rule.seq)] <= Len(c)
  <2>1. ASSUME NEW q, FitsAt(rule, c, q) PROVE q[Len(rule.seq)] <= Len(c)
    <3>1. q[Len(rule.seq)] \in 1 .. Len(c) /\ Len(c) \in Nat
      BY <2>1, FitsBetween
    <3>2. QED BY <3>1
  <2>2. QED BY <2>1
<1>2. Stabs(rule, c, found)
  BY <1>1 DEF Kept, Stabs
<1>3. QED BY <1>2, CellSolves

\* A beginning of a match after position r, up to position k: its first t steps.
Begins(rule, c, q, t, r, k) ==
    /\ \A s \in 1 .. t : r < q[s] /\ q[s] <= k /\ c[q[s]].event = rule.seq[s]
    /\ \A s, u \in 1 .. t : s < u => q[s] < q[u]
\* What the sweep for sequences holds: no beginning since the last match is longer than its own.
Sweeps(rule, c) ==
    {st \in [chain : Seq(1 .. Len(c)), found : Seq([1 .. Len(rule.seq) -> 1 .. Len(c)])] : Len(st.chain) < Len(rule.seq)}
Swept(rule, c, k, st) ==
    /\ Kept(rule, c, k, st.found)
    /\ Begins(rule, c, st.chain, Len(st.chain), Reach(rule, st.found), k)
    /\ \A q \in [1 .. Len(rule.seq) -> 1 .. Len(c)], t \in 1 .. Len(rule.seq) :
           Begins(rule, c, q, t, Reach(rule, st.found), k) => t <= Len(st.chain)

LEMMA SweepStep ==
    ASSUME NEW rule, IsRule(rule), rule.algorithm # "temporal", NEW c, IsCell(rule, c), NEW k \in 1 .. Len(c),
           NEW st \in Sweeps(rule, c), Swept(rule, c, k - 1, st)
    PROVE  /\ Accept(rule.seq, c, st, k) \in Sweeps(rule, c)
           /\ Swept(rule, c, k, Accept(rule.seq, c, st, k))
<1> DEFINE n == Len(rule.seq)
           L == Len(c)
           X == [1 .. n -> 1 .. L]
           p == st.chain
           t0 == Len(p)
           found == st.found
           r == Reach(rule, found)
           chain == Append(p, k)
<1>1. /\ n \in Nat \ {0} /\ L \in Nat /\ p \in Seq(1 .. L) /\ found \in Seq(X) /\ t0 \in Nat /\ t0 < n
      /\ st = [chain |-> p, found |-> found]
  <2>1. L \in Nat
    BY LogIs DEF IsCell
  <2>2. p \in Seq(1 .. L) /\ found \in Seq(X) /\ t0 < n /\ st = [chain |-> p, found |-> found]
    BY DEF Sweeps
  <2>3. QED BY <2>1, <2>2 DEF IsRule
<1>2. /\ Kept(rule, c, k - 1, found)
      /\ Begins(rule, c, p, t0, r, k - 1)
      /\ \A q \in X, t \in 1 .. n : Begins(rule, c, q, t, r, k - 1) => t <= t0
  BY DEF Swept
<1>3. r \in 0 .. (k - 1)
  <2>1. k - 1 \in 0 .. L
    BY <1>1
  <2>2. QED BY <1>2, <2>1, ReachIs
<1>4. /\ Len(chain) = t0 + 1 /\ chain \in Seq(1 .. L) /\ chain[t0 + 1] = k
      /\ \A s \in 1 .. t0 : chain[s] = p[s] /\ p[s] \in 1 .. L
  <2>1. k \in 1 .. L
    OBVIOUS
  <2> HIDE DEF L
  <2>2. QED BY <1>1, <2>1
<1> HIDE DEF chain, p, found, X
\* A beginning that ends at the position goes on from one that ends before it.
<1>5. ASSUME NEW q \in X, NEW t \in 1 .. n, Begins(rule, c, q, t, r, k), ~(t <= t0)
      PROVE  t = t0 + 1 /\ q[t] = k /\ c[k].event = rule.seq[t0 + 1]
  <2>1. \A s \in 1 .. n : q[s] \in 1 .. L
    BY DEF X
  <2>2. t \in Nat /\ t \in 1 .. t /\ t \in 1 .. n
    BY <1>1
  <2>3. ~(q[t] <= k - 1)
    <3>1. ASSUME q[t] <= k - 1 PROVE FALSE
      <4>1. ASSUME NEW s \in 1 .. t PROVE q[s] <= k - 1
        <5>1. s = t \/ (s < t /\ s \in 1 .. t /\ s \in 1 .. n)
          BY <2>2, <1>1
        <5>2. s < t => q[s] < q[t]
          BY <1>5, <2>2 DEF Begins
        <5>3. q[s] \in 1 .. L /\ q[t] \in 1 .. L
          BY <2>1, <2>2, <5>1
        <5>4. QED BY <3>1, <5>1, <5>2, <5>3
      <4>2. Begins(rule, c, q, t, r, k - 1)
        BY <1>5, <4>1 DEF Begins
      <4>3. QED BY <1>2, <1>5, <4>2
    <3>2. QED BY <3>1
  <2>4. q[t] = k /\ c[k].event = rule.seq[t]
    <3>1. q[t] <= k /\ c[q[t]].event = rule.seq[t] /\ q[t] \in 1 .. L
      BY <1>5, <2>1, <2>2 DEF Begins
    <3>2. QED BY <2>3, <3>1
  <2>5. t = t0 + 1
    <3>1. CASE t = 1
      BY <1>1, <1>5, <3>1
    <3>2. CASE t # 1
      <4>1. t - 1 \in 1 .. n /\ \A s \in 1 .. (t - 1) : s \in 1 .. t /\ s < t /\ s \in 1 .. n
        BY <1>1, <2>2, <3>2
      <4>2. ASSUME NEW s \in 1 .. (t - 1) PROVE q[s] <= k - 1
        <5>1. q[s] < q[t] /\ q[s] \in 1 .. L
          BY <1>5, <2>1, <2>2, <4>1 DEF Begins
        <5>2. QED BY <2>4, <5>1
      <4>3. Begins(rule, c, q, t - 1, r, k - 1)
        BY <1>5, <4>1, <4>2 DEF Begins
      <4>4. t - 1 <= t0
        BY <1>2, <4>1, <4>3
      <4>5. QED BY <1>1, <1>5, <2>2, <4>4
    <3>3. QED BY <3>1, <3>2
  <2>6. QED BY <2>4, <2>5
<1>6. ASSUME NEW q, FitsAt(rule, c, q), q[n] = k, r < q[1]
      PROVE  q \in X /\ n \in 1 .. n /\ Begins(rule, c, q, n, r, k)
  <2>1. /\ n \in 1 .. n /\ 1 \in 1 .. n
        /\ \A s \in 1 .. n : q[s] \in 1 .. L /\ q[1] <= q[s] /\ q[s] <= q[n]
    BY <1>6, FitsBetween
  <2>2. q \in X /\ (\A s, u \in 1 .. n : s < u => q[s] < q[u]) /\ \A s \in 1 .. n : c[q[s]].event = rule.seq[s]
    BY <1>6 DEF FitsAt, X
  <2>3. \A s \in 1 .. n : r < q[s] /\ q[s] <= k
    BY <1>3, <1>6, <2>1
  <2>4. QED BY <2>1, <2>2, <2>3 DEF Begins
<1>7. \A q : FitsAt(rule, c, q) => q[1] \in 1 .. L
  BY FitsBetween
<1>8. Begins(rule, c, p, t0, r, k)
  <2>1. ASSUME NEW s \in 1 .. t0 PROVE p[s] <= k
    <3>1. p[s] <= k - 1 /\ p[s] \in 1 .. L
      BY <1>2, <1>4 DEF Begins
    <3>2. QED BY <3>1
  <2>2. QED BY <1>2, <2>1 DEF Begins
<1>9. CASE c[k].event # rule.seq[t0 + 1]
  <2>1. Accept(rule.seq, c, st, k) = st
    BY <1>9 DEF Accept, p
  <2>2. \A q \in X, t \in 1 .. n : Begins(rule, c, q, t, r, k) => t <= t0
    BY <1>5, <1>9
  <2>3. ASSUME NEW q, FitsAt(rule, c, q), q[n] = k PROVE q[1] <= r
    <3>1. ~(r < q[1])
      <4>1. ASSUME r < q[1] PROVE FALSE
        <5>1. n <= t0
          BY <1>6, <2>2, <2>3, <4>1
        <5>2. QED BY <1>1, <5>1
      <4>2. QED BY <4>1
    <3>2. QED BY <1>3, <1>7, <2>3, <3>1
  <2>4. Kept(rule, c, k, found)
    BY <1>2, <2>3, FoundStays
  <2>5. Swept(rule, c, k, st)
    BY <1>8, <2>2, <2>4 DEF Swept, p, found, X
  <2>6. QED BY <2>1, <2>5
<1>10. CASE c[k].event = rule.seq[t0 + 1]
  <2>1. Begins(rule, c, chain, t0 + 1, r, k)
    <3>1. \A s \in 1 .. t0 + 1 : s \in 1 .. t0 \/ s = t0 + 1
      BY <1>1
    <3>2. ASSUME NEW s \in 1 .. t0 + 1 PROVE r < chain[s] /\ chain[s] <= k /\ c[chain[s]].event = rule.seq[s]
      <4>1. CASE s \in 1 .. t0
        BY <1>4, <1>8, <4>1 DEF Begins
      <4>2. CASE s = t0 + 1
        BY <1>3, <1>4, <1>10, <4>2
      <4>3. QED BY <3>1, <4>1, <4>2
    <3>3. ASSUME NEW s \in 1 .. t0 + 1, NEW u \in 1 .. t0 + 1, s < u PROVE chain[s] < chain[u]
      <4>1. s \in 1 .. t0
        BY <1>1, <3>3
      <4>2. CASE u \in 1 .. t0
        BY <1>4, <1>8, <3>3, <4>1, <4>2 DEF Begins
      <4>3. CASE u = t0 + 1
        <5>1. p[s] <= k - 1 /\ chain[s] = p[s] /\ p[s] \in 1 .. L
          BY <1>2, <1>4, <4>1 DEF Begins
        <5>2. QED BY <1>4, <4>3, <5>1
      <4>4. QED BY <3>1, <4>2, <4>3
    <3>4. QED BY <3>2, <3>3 DEF Begins
  <2>2. CASE t0 + 1 < n
    <3> DEFINE new == [st EXCEPT !.chain = chain]
    <3>1. Accept(rule.seq, c, st, k) = new
      BY <1>4, <1>10, <2>2 DEF Accept, p, chain
    <3>2. new = [chain |-> chain, found |-> found]
      BY <1>1
    <3> HIDE DEF new
    <3>3. new \in Sweeps(rule, c)
      <4>1. [chain |-> chain, found |-> found] \in [chain : Seq(1 .. L), found : Seq(X)]
        BY <1>1, <1>4
      <4>2. QED BY <1>4, <2>2, <3>2, <4>1 DEF Sweeps, X
    <3>4. ASSUME NEW q \in X, NEW t \in 1 .. n, Begins(rule, c, q, t, r, k) PROVE t <= t0 + 1
      BY <1>1, <1>5, <3>4
    <3>5. ASSUME NEW q, FitsAt(rule, c, q), q[n] = k PROVE q[1] <= r
      <4>1. ~(r < q[1])
        <5>1. ASSUME r < q[1] PROVE FALSE
          <6>1. n <= t0 + 1
            BY <1>6, <3>4, <3>5, <5>1
          <6>2. QED BY <1>1, <2>2, <6>1
        <5>2. QED BY <5>1
      <4>2. QED BY <1>3, <1>7, <3>5, <4>1
    <3>6. Kept(rule, c, k, found)
      BY <1>2, <3>5, FoundStays
    <3>7. new.chain = chain /\ new.found = found
      BY <3>2
    <3>8. Swept(rule, c, k, new)
      BY <1>4, <2>1, <3>4, <3>6, <3>7 DEF Swept, X
    <3>9. QED BY <3>1, <3>3, <3>8
  <2>3. CASE ~(t0 + 1 < n)
    <3> DEFINE f == Append(found, chain)
               new == [chain |-> <<>>, found |-> f]
    <3>1. Accept(rule.seq, c, st, k) = new
      BY <1>4, <1>10, <2>3 DEF Accept, p, chain, found
    <3>2. t0 + 1 = n
      BY <1>1, <2>3
    <3>3. chain \in X
      BY <1>4, <3>2 DEF X
    <3>4. FitsAt(rule, c, chain)
      BY <2>1, <3>2, <3>3 DEF FitsAt, Begins, InWindow, X
    <3>5. chain[n] = k /\ r < chain[1]
      <4>1. 1 \in 1 .. t0 + 1
        BY <1>1
      <4>2. QED BY <1>4, <2>1, <3>2, <4>1 DEF Begins
    <3>6. Kept(rule, c, k, f) /\ Reach(rule, f) = k
      BY <1>2, <3>4, <3>5, FoundGrows
    <3>7. ASSUME NEW q \in X, NEW t \in 1 .. n, Begins(rule, c, q, t, k, k) PROVE t <= 0
      <4>1. 1 \in 1 .. t /\ 1 \in 1 .. n
        BY <1>1
      <4>2. k < q[1] /\ q[1] <= k /\ q[1] \in 1 .. L
        BY <3>7, <4>1 DEF Begins, X
      <4>3. QED BY <4>2
    <3>8. f \in Seq(X)
      BY <1>1, <3>3
    <3> HIDE DEF f
    <3>9. new \in Sweeps(rule, c)
      <4>1. <<>> \in Seq(1 .. L) /\ Len(<<>>) = 0
        OBVIOUS
      <4>2. QED BY <1>1, <3>8, <4>1 DEF Sweeps, X
    <3>10. Begins(rule, c, <<>>, 0, k, k)
      BY DEF Begins
    <3>11. Swept(rule, c, k, new)
      <4>1. new.chain = <<>> /\ new.found = f /\ Len(<<>>) = 0
        OBVIOUS
      <4> HIDE DEF new
      <4>2. QED BY <3>6, <3>7, <3>10, <4>1 DEF Swept, X
    <3>12. QED BY <3>1, <3>9, <3>11
  <2>4. QED BY <2>2, <2>3
<1>11. QED BY <1>9, <1>10

LEMMA SweepSolves ==
    ASSUME NEW rule, IsRule(rule), rule.algorithm # "temporal", NEW c, IsCell(rule, c)
    PROVE  Solves(rule, ToSet(c), Sweep(rule.seq, c))
<1> DEFINE n == Len(c)
           numbers == [i \in DOMAIN c |-> i]
           base == [chain |-> <<>>, found |-> <<>>]
           X == Sweeps(rule, c)
           f == [z \in X \X (1 .. n) |-> Accept(rule.seq, c, z[1], z[2])]
           Folds(g) == g = [s \in SUBSET DOMAIN numbers |->
                               IF s = {} THEN base ELSE Accept(rule.seq, c, g[s \ {Max(s)}], numbers[Max(s)])]
           h == CHOOSE g : Folds(g)
           Fine == {k \in 0 .. n : h[1 .. k] \in X /\ Swept(rule, c, k, h[1 .. k])}
<1>1. n \in Nat /\ DOMAIN c = 1 .. n /\ DOMAIN numbers = 1 .. n /\ \A k \in 1 .. n : numbers[k] = k
  BY LogIs DEF IsCell
<1>2. base \in X /\ Swept(rule, c, 0, base)
  <2>1. Len(rule.seq) \in Nat \ {0} /\ base.chain = <<>> /\ base.found = <<>> /\ Len(<<>>) = 0
    BY DEF IsRule
  <2>2. base \in X
    BY <2>1 DEF Sweeps
  <2>3. Kept(rule, c, 0, <<>>)
    BY NothingKept
  <2>4. Reach(rule, <<>>) = 0
    BY DEF Reach
  <2>5. Begins(rule, c, <<>>, 0, 0, 0)
    BY DEF Begins
  <2>6. ASSUME NEW q \in [1 .. Len(rule.seq) -> 1 .. n], NEW t \in 1 .. Len(rule.seq), Begins(rule, c, q, t, 0, 0)
        PROVE  t <= 0
    <3>1. 1 \in 1 .. t /\ 1 \in 1 .. Len(rule.seq)
      BY <2>1
    <3>2. 0 < q[1] /\ q[1] <= 0 /\ q[1] \in 1 .. n
      BY <2>6, <3>1 DEF Begins
    <3>3. QED BY <1>1, <3>2
  <2> HIDE DEF base
  <2>7. QED BY <2>1, <2>2, <2>3, <2>4, <2>5, <2>6 DEF Swept
<1> HIDE DEF base
<1>3. f \in [X \X (1 .. n) -> X]
  <2> DEFINE Y == {k - 1 : k \in 1 .. n}
             a(st, k) == Accept(rule.seq, c, st, k)
  <2>1. ASSUME NEW st \in X, NEW k \in 1 .. n PROVE a(st, k) \in X
    <3>1. /\ st.chain \in Seq(1 .. n) /\ st.found \in Seq([1 .. Len(rule.seq) -> 1 .. n]) /\ Len(st.chain) < Len(rule.seq)
          /\ st = [chain |-> st.chain, found |-> st.found] /\ Len(rule.seq) \in Nat
      BY DEF Sweeps, IsRule
    <3> DEFINE chain == Append(st.chain, k)
    <3>2. chain \in Seq(1 .. n) /\ Len(chain) = Len(st.chain) + 1 /\ Len(st.chain) \in Nat
      <4> DEFINE Z == 1 .. n
      <4> HIDE DEF Z
      <4>1. st.chain \in Seq(Z) /\ k \in Z
        BY <3>1 DEF Z
      <4>2. QED BY <4>1 DEF Z
    <3> HIDE DEF chain
    <3>3. CASE c[k].event # rule.seq[Len(st.chain) + 1]
      BY <3>3 DEF Accept
    <3>4. CASE c[k].event = rule.seq[Len(st.chain) + 1] /\ Len(chain) < Len(rule.seq)
      <4>1. a(st, k) = [chain |-> chain, found |-> st.found]
        BY <3>1, <3>4 DEF Accept, chain
      <4>2. QED BY <3>1, <3>2, <3>4, <4>1 DEF Sweeps
    <3>5. CASE c[k].event = rule.seq[Len(st.chain) + 1] /\ ~(Len(chain) < Len(rule.seq))
      <4>1. a(st, k) = [chain |-> <<>>, found |-> Append(st.found, chain)]
        BY <3>5 DEF Accept, chain
      <4>2. chain \in [1 .. Len(rule.seq) -> 1 .. n]
        <5>1. Len(chain) = Len(rule.seq)
          BY <3>1, <3>2, <3>5
        <5>2. QED BY <3>2, <5>1
      <4>3. Append(st.found, chain) \in Seq([1 .. Len(rule.seq) -> 1 .. n])
        BY <3>1, <4>2
      <4>4. Len(<<>>) < Len(rule.seq) /\ <<>> \in Seq(1 .. n)
        BY <3>1, <3>2
      <4>5. QED BY <4>1, <4>3, <4>4 DEF Sweeps
    <3>6. QED BY <3>3, <3>4, <3>5
  <2> HIDE DEF X
  <2>2. QED BY <2>1
<1>4. PICK g \in [SUBSET (1 .. n) -> X] : FoldOn(g, n, base, f)
  <2> HIDE DEF X, f, n
  <2>1. QED BY <1>1, <1>2, <1>3, FoldExists
<1>5. Folds(g)
  <2>1. ASSUME NEW s \in SUBSET (1 .. n), s # {}
        PROVE  f[<<g[s \ {Max(s)}], Max(s)>>] = Accept(rule.seq, c, g[s \ {Max(s)}], numbers[Max(s)])
    <3>1. s \in SUBSET (0 .. n)
      OBVIOUS
    <3>2. Max(s) \in 1 .. n
      <4> HIDE DEF n
      <4>1. QED BY <1>1, <2>1, <3>1, MaxBelow
    <3>3. g[s \ {Max(s)}] \in X /\ numbers[Max(s)] = Max(s)
      <4> HIDE DEF X, numbers, n
      <4>1. QED BY <1>1, <1>4, <3>2
    <3> HIDE DEF X, numbers, n
    <3>4. QED BY <3>2, <3>3
  <2> HIDE DEF X, f, n, numbers
  <2>2. QED BY <1>1, <1>4, <2>1 DEF FoldOn
<1> HIDE DEF X, f
<1>6. Folds(h)
  <2> HIDE DEF Folds
  <2>1. QED BY <1>5
<1>7. Sweep(rule.seq, c) = AsEvents(c, h[1 .. n].found)
  <2>1. Sweep(rule.seq, c) = AsEvents(c, h[DOMAIN numbers].found)
    BY DEF Sweep, FoldLeftDomain, FoldLeft, MapThenFoldSet, base
  <2> HIDE DEF h, numbers, n
  <2>2. QED BY <1>1, <2>1
<1> HIDE DEF h, numbers
<1>8. /\ h[1 .. 0] = base
      /\ \A k \in 1 .. n : h[1 .. k] = Accept(rule.seq, c, h[1 .. (k - 1)], k)
  <2> HIDE DEF n
  <2>1. 1 .. 0 = {} /\ h[1 .. 0] = base
    BY <1>1, <1>6
  <2>2. ASSUME NEW k \in 1 .. n PROVE h[1 .. k] = Accept(rule.seq, c, h[1 .. (k - 1)], k)
    <3>1. Ends(n, k)
      BY <1>1, Intervals
    <3>2. h[1 .. k] = Accept(rule.seq, c, h[(1 .. k) \ {Max(1 .. k)}], numbers[Max(1 .. k)])
      BY <1>1, <1>6, <3>1 DEF Ends
    <3>3. QED BY <1>1, <3>1, <3>2 DEF Ends
  <2>3. QED BY <2>1, <2>2
<1>9. 0 \in Fine
  BY <1>1, <1>2, <1>8
<1>10. ASSUME NEW k \in 1 .. n, k - 1 \in Fine PROVE k \in Fine
  <2> DEFINE st == h[1 .. (k - 1)]
  <2>1. h[1 .. k] = Accept(rule.seq, c, st, k) /\ st \in X /\ Swept(rule, c, k - 1, st)
    BY <1>8, <1>10
  <2> HIDE DEF st
  <2>2. Accept(rule.seq, c, st, k) \in X /\ Swept(rule, c, k, Accept(rule.seq, c, st, k))
    BY <2>1, SweepStep DEF X
  <2>3. k \in 0 .. n
    BY <1>1
  <2>4. QED BY <2>1, <2>2, <2>3
<1>11. n \in Fine
  <2> HIDE DEF Fine, n
  <2>1. n \in 0 .. n
    BY <1>1
  <2>2. QED BY <1>1, <1>9, <1>10, <2>1, UpTo
<1> DEFINE found == h[1 .. n].found
<1>12. Kept(rule, c, n, found)
  BY <1>11 DEF Swept
<1> HIDE DEF found, h
<1>13. Solves(rule, ToSet(c), AsEvents(c, found))
  BY <1>12, AllKept
<1>14. QED BY <1>7, <1>13 DEF found

\* The sweep within a window: what one event changes, for a rule that names each event once.
Windows(rule, c) ==
    LET n == Len(rule.seq)
    IN [last : [1 .. n -> 0 .. Len(c)], prev : [1 .. n -> 0 .. Len(c)], found : Seq([1 .. n -> 0 .. Len(c)])]
NamesOnce(rule) ==
    /\ Len(rule.seq) # 1
    /\ \A s, t \in 1 .. Len(rule.seq) : rule.seq[s] = rule.seq[t] => s = t
Nowhere(rule) == [s \in 1 .. Len(rule.seq) |-> 0]
Reached(st, k, u) ==
    [last |-> [st.last EXCEPT ![u] = k], prev |-> [st.prev EXCEPT ![u] = IF u = 1 THEN 0 ELSE st.last[u - 1]],
     found |-> st.found]
Caught(rule, st, k) ==
    LET n == Len(rule.seq)
    IN [s \in 1 .. n |-> IF s = n THEN k ELSE IF s = n - 1 THEN st.last[s] ELSE st.prev[s + 1]]

LEMMA FreshIs ==
    ASSUME NEW rule, IsRule(rule), NEW x
    PROVE  [Fresh(rule.seq) EXCEPT !.found = x] = [last |-> Nowhere(rule), prev |-> Nowhere(rule), found |-> x]
<1> DEFINE z == Nowhere(rule)
<1>1. DOMAIN rule.seq = 1 .. Len(rule.seq)
  BY DEF IsRule
<1>2. Fresh(rule.seq) = [last |-> z, prev |-> z, found |-> <<>>]
  BY <1>1 DEF Fresh, Nowhere
<1> HIDE DEF z
<1>3. [[last |-> z, prev |-> z, found |-> <<>>] EXCEPT !.found = x] = [last |-> z, prev |-> z, found |-> x]
  OBVIOUS
<1>4. [Fresh(rule.seq) EXCEPT !.found = x] = [last |-> z, prev |-> z, found |-> x]
  BY <1>2, <1>3
<1>5. QED BY <1>4 DEF z

LEMMA VisitStaysTyped ==
    ASSUME NEW rule, IsRule(rule), NEW c, NEW k \in 1 .. Len(c), NEW st \in Windows(rule, c), Len(c) \in Nat
    PROVE  Visit(rule, c, st, k) \in Windows(rule, c)
<1> DEFINE n == Len(rule.seq)
           L == Len(c)
           done(s) == Completes(rule, c, st, k, s)
           last == [s \in 1 .. n |-> Remembers(done(s), k, st.last[s])]
           prev == [s \in 1 .. n |-> IF last[s] # k THEN st.prev[s] ELSE IF s = 1 THEN 0 ELSE st.last[s - 1]]
           chain == [s \in 1 .. n |-> IF s = n THEN k ELSE prev[s + 1]]
           Y == [1 .. n -> 0 .. L]
<1>1. n \in Nat \ {0} /\ DOMAIN rule.seq = 1 .. n /\ k \in 0 .. L
  BY DEF IsRule
<1>2. /\ st.last \in Y /\ st.prev \in Y /\ st.found \in Seq(Y)
      /\ st = [last |-> st.last, prev |-> st.prev, found |-> st.found]
  BY DEF Windows
<1> HIDE DEF done
<1>3. last \in Y
  BY <1>1, <1>2 DEF Remembers
<1> HIDE DEF last
<1>4. prev \in Y
  <2>1. \A s \in 1 .. n : s # 1 => s - 1 \in 1 .. n
    BY <1>1
  <2>2. QED BY <1>1, <1>2, <2>1, SMTT(30)
<1> HIDE DEF prev
<1>5. chain \in Y
  <2>1. \A s \in 1 .. n : s # n => s + 1 \in 1 .. n
    BY <1>1
  <2>2. QED BY <1>1, <1>4, <2>1
<1> HIDE DEF chain
<1>6. Append(st.found, chain) \in Seq(Y)
  <2> HIDE DEF Y
  <2>1. QED BY <1>2, <1>5
<1>7. Visit(rule, c, st, k) = IF last[n] # k THEN [st EXCEPT !.last = last, !.prev = prev]
                              ELSE [Fresh(rule.seq) EXCEPT !.found = Append(st.found, chain)]
  BY <1>1 DEF Visit, last, prev, chain, done
<1>8. [st EXCEPT !.last = last, !.prev = prev] = [last |-> last, prev |-> prev, found |-> st.found]
  <2> DEFINE e == [st EXCEPT !.last = last, !.prev = prev]
  <2>1. /\ DOMAIN e = {"last", "prev", "found"} /\ e.last = last /\ e.prev = prev /\ e.found = st.found
        /\ e = [f \in {"last", "prev", "found"} |-> e[f]]
    BY <1>2
  <2> HIDE DEF e
  <2>2. e = [last |-> last, prev |-> prev, found |-> st.found]
    BY <2>1
  <2>3. QED BY <2>2 DEF e
<1>9. [Fresh(rule.seq) EXCEPT !.found = Append(st.found, chain)]
          = [last |-> Nowhere(rule), prev |-> Nowhere(rule), found |-> Append(st.found, chain)]
  BY FreshIs
<1>10. Nowhere(rule) \in Y
  BY <1>1 DEF Nowhere
<1>11. QED BY <1>2, <1>3, <1>4, <1>6, <1>7, <1>8, <1>9, <1>10, ZenonT(60) DEF Windows

LEMMA VisitIs ==
    ASSUME NEW rule, IsRule(rule), NamesOnce(rule), NEW c, Len(c) \in Nat, NEW k \in 1 .. Len(c),
           NEW st \in Windows(rule, c), \A s \in 1 .. Len(rule.seq) : st.last[s] < k
    PROVE  /\ (\A u \in 1 .. Len(rule.seq) : ~Completes(rule, c, st, k, u)) => Visit(rule, c, st, k) = st
           /\ \A u \in 1 .. Len(rule.seq) :
                  Completes(rule, c, st, k, u) /\ u # Len(rule.seq) => Visit(rule, c, st, k) = Reached(st, k, u)
           /\ Completes(rule, c, st, k, Len(rule.seq)) =>
                  Visit(rule, c, st, k) = [last |-> Nowhere(rule), prev |-> Nowhere(rule),
                                           found |-> Append(st.found, Caught(rule, st, k))]
<1> DEFINE n == Len(rule.seq)
           L == Len(c)
           done(s) == Completes(rule, c, st, k, s)
           last == [s \in 1 .. n |-> Remembers(done(s), k, st.last[s])]
           prev == [s \in 1 .. n |-> IF last[s] # k THEN st.prev[s] ELSE IF s = 1 THEN 0 ELSE st.last[s - 1]]
           chain == [s \in 1 .. n |-> IF s = n THEN k ELSE prev[s + 1]]
           Y == [1 .. n -> 0 .. L]
<1>1. n \in Nat \ {0, 1} /\ DOMAIN rule.seq = 1 .. n /\ k \in 0 .. L
  BY DEF IsRule, NamesOnce
<1>2. /\ st.last \in Y /\ st.prev \in Y /\ st.found \in Seq(Y)
      /\ st = [last |-> st.last, prev |-> st.prev, found |-> st.found]
  BY DEF Windows
<1>3. \A s, u \in 1 .. n : done(s) /\ done(u) => s = u
  BY DEF Completes, NamesOnce
<1>4. Visit(rule, c, st, k) = IF last[n] # k THEN [st EXCEPT !.last = last, !.prev = prev]
                              ELSE [Fresh(rule.seq) EXCEPT !.found = Append(st.found, chain)]
  BY <1>1 DEF Visit
<1> HIDE DEF done
<1>5. \A s \in 1 .. n : (done(s) => last[s] = k) /\ (~done(s) => last[s] = st.last[s] /\ last[s] # k)
  <2>1. \A s \in 1 .. n : st.last[s] # k
    <3>1. \A s \in 1 .. n : st.last[s] \in 0 .. L /\ st.last[s] < k
      BY <1>2
    <3>2. QED BY <3>1
  <2>2. QED BY <2>1 DEF Remembers
<1>6. last = [s \in 1 .. n |-> last[s]]
  OBVIOUS
<1> HIDE DEF last
<1>7. \A s \in 1 .. n : /\ ~done(s) => prev[s] = st.prev[s]
                        /\ done(s) => prev[s] = IF s = 1 THEN 0 ELSE st.last[s - 1]
  BY <1>5
<1>8. prev = [s \in 1 .. n |-> prev[s]]
  OBVIOUS
<1>9. chain = [s \in 1 .. n |-> IF s = n THEN k ELSE prev[s + 1]]
  OBVIOUS
<1> HIDE DEF prev, chain
<1>10. ASSUME \A u \in 1 .. n : ~done(u) PROVE Visit(rule, c, st, k) = st
  <2>1. last = st.last /\ prev = st.prev
    BY <1>2, <1>5, <1>6, <1>7, <1>8, <1>10
  <2>2. last[n] # k
    BY <1>1, <1>5, <1>10
  <2>3. QED BY <1>2, <1>4, <2>1, <2>2
<1>11. ASSUME NEW u \in 1 .. n, done(u), u # n PROVE Visit(rule, c, st, k) = Reached(st, k, u)
  <2>1. last = [st.last EXCEPT ![u] = k]
    BY <1>2, <1>3, <1>5, <1>6, <1>11
  <2>2. prev = [st.prev EXCEPT ![u] = IF u = 1 THEN 0 ELSE st.last[u - 1]]
    BY <1>2, <1>3, <1>7, <1>8, <1>11, ZenonT(60)
  <2>3. last[n] # k
    BY <1>1, <1>3, <1>5, <1>11
  <2>4. QED BY <1>2, <1>4, <2>1, <2>2, <2>3 DEF Reached
<1>12. ASSUME done(n)
       PROVE  Visit(rule, c, st, k) = [last |-> Nowhere(rule), prev |-> Nowhere(rule),
                                       found |-> Append(st.found, Caught(rule, st, k))]
  <2>1. last[n] = k
    BY <1>1, <1>5, <1>12
  <2>2. chain = Caught(rule, st, k)
    <3>1. ASSUME NEW s \in 1 .. n, s # n PROVE prev[s + 1] = IF s = n - 1 THEN st.last[s] ELSE st.prev[s + 1]
      <4>1. s + 1 \in 1 .. n /\ (s = n - 1 <=> s + 1 = n) /\ (s + 1) - 1 = s /\ s + 1 # 1 /\ n \in 1 .. n
        BY <1>1, <3>1
      <4>2. s + 1 = n => done(s + 1)
        BY <1>12
      <4>3. s + 1 # n => ~done(s + 1)
        BY <1>3, <1>12, <4>1
      <4>4. QED BY <1>7, <4>1, <4>2, <4>3
    <3>2. QED BY <1>9, <3>1 DEF Caught
  <2>3. [Fresh(rule.seq) EXCEPT !.found = Append(st.found, chain)]
            = [last |-> Nowhere(rule), prev |-> Nowhere(rule), found |-> Append(st.found, chain)]
    BY FreshIs
  <2>4. QED BY <1>4, <2>1, <2>2, <2>3
<1>13. QED BY <1>10, <1>11, <1>12 DEF done

LEMMA AnchorIs ==
    ASSUME NEW prev, NEW i
    PROVE  /\ AnchorOf(prev, 1, i) = i
           /\ prev[2] # 0 => AnchorOf(prev, 2, i) = prev[2]
<1>1. AnchorOf(prev, 1, i) = i
  <2> DEFINE Is(at) == at = [k \in 0 .. 1 - 1 |-> IF k = 0 THEN i ELSE
                                IF prev[1 - k + 1] = 0 THEN at[k - 1] ELSE prev[1 - k + 1]]
             a == CHOOSE at : Is(at)
  <2>1. Is([k \in 0 .. 1 - 1 |-> i])
    OBVIOUS
  <2>2. Is(a)
    <3> HIDE DEF Is
    <3>1. QED BY <2>1
  <2>3. AnchorOf(prev, 1, i) = a[1 - 1]
    BY DEF AnchorOf
  <2> HIDE DEF a
  <2>4. QED BY <2>2, <2>3
<1>2. ASSUME prev[2] # 0 PROVE AnchorOf(prev, 2, i) = prev[2]
  <2> DEFINE Is(at) == at = [k \in 0 .. 2 - 1 |-> IF k = 0 THEN i ELSE
                                IF prev[2 - k + 1] = 0 THEN at[k - 1] ELSE prev[2 - k + 1]]
             a == CHOOSE at : Is(at)
  <2>1. Is([k \in 0 .. 2 - 1 |-> IF k = 0 THEN i ELSE prev[2]])
    BY <1>2
  <2>2. Is(a)
    <3> HIDE DEF Is
    <3>1. QED BY <2>1
  <2>3. AnchorOf(prev, 2, i) = a[2 - 1]
    BY DEF AnchorOf
  <2> HIDE DEF a
  <2>4. QED BY <1>2, <2>2, <2>3
<1>3. QED BY <1>1, <1>2

Close(rule, c, i, j) == c[j].at - c[i].at <= rule.within
Inside(rule, c, i, j) == rule.total > 0 => c[j].at - c[i].at <= rule.total
\* The code keeps one candidate for each step: enough for up to three steps that differ.
IsWindowRule(rule) ==
    /\ rule.algorithm = "temporal" /\ Len(rule.seq) \in {2, 3} /\ NamesOnce(rule)
    /\ rule.within \in Int /\ rule.total \in Int
\* Two events after position r, up to position k, that a match may begin with.
Two(rule, c, i, j, r, k) ==
    /\ r < i /\ i < j /\ j <= k /\ c[i].event = rule.seq[1] /\ c[j].event = rule.seq[2]
    /\ Close(rule, c, i, j) /\ Inside(rule, c, i, j)
\* What is remembered for a step is as late as anything else that could have completed it.
Latest1(rule, c, st, r, k) ==
    /\ st.last[1] # 0 => r < st.last[1] /\ c[st.last[1]].event = rule.seq[1]
    /\ \A j \in 1 .. Len(c) : r < j /\ j <= k /\ c[j].event = rule.seq[1] => j <= st.last[1]
Latest2(rule, c, st, r, k) ==
    /\ st.last[2] # 0 => /\ Two(rule, c, st.prev[2], st.last[2], r, k)
                         /\ \A j \in 1 .. Len(c) : r < j /\ j < st.last[2] /\ c[j].event = rule.seq[1] => j <= st.prev[2]
    /\ \A i, j \in 1 .. Len(c) : Two(rule, c, i, j, r, k) => j <= st.last[2]
Watched(rule, c, k, st) ==
    /\ Kept(rule, c, k, st.found)
    /\ st.last[Len(rule.seq)] = 0 /\ \A s \in 1 .. Len(rule.seq) : st.last[s] <= k
    /\ Latest1(rule, c, st, Reach(rule, st.found), k)
    /\ Len(rule.seq) = 3 => Latest2(rule, c, st, Reach(rule, st.found), k)

LEMMA FitsAtIs ==
    ASSUME NEW rule, IsRule(rule), IsWindowRule(rule), NEW c, NEW q \in [1 .. Len(rule.seq) -> 1 .. Len(c)]
    PROVE  /\ Len(rule.seq) = 2 =>
                  (FitsAt(rule, c, q) <=> /\ q[1] < q[2] /\ c[q[1]].event = rule.seq[1] /\ c[q[2]].event = rule.seq[2]
                                          /\ Close(rule, c, q[1], q[2]) /\ Inside(rule, c, q[1], q[2]))
           /\ Len(rule.seq) = 3 =>
                  (FitsAt(rule, c, q) <=>
                      /\ q[1] < q[2] /\ q[2] < q[3]
                      /\ c[q[1]].event = rule.seq[1] /\ c[q[2]].event = rule.seq[2] /\ c[q[3]].event = rule.seq[3]
                      /\ Close(rule, c, q[1], q[2]) /\ Close(rule, c, q[2], q[3]) /\ Inside(rule, c, q[1], q[3]))
<1> DEFINE n == Len(rule.seq)
           m == EventsAt(c, q)
<1>1. rule.algorithm = "temporal"
  BY DEF IsWindowRule
<1>2. \A s \in 1 .. n : m[s] = c[q[s]] /\ q[s] \in Int
  <2>1. \A s \in 1 .. n : m[s] = c[q[s]]
    BY DEF EventsAt
  <2>2. \A s \in 1 .. n : q[s] \in 1 .. Len(c)
    OBVIOUS
  <2>3. QED BY <2>1, <2>2
<1>3. FitsAt(rule, c, q) <=>
          /\ \A s, t \in 1 .. n : s < t => q[s] < q[t]
          /\ \A s \in 1 .. n : c[q[s]].event = rule.seq[s]
          /\ \A s \in 2 .. n : m[s].at - m[s - 1].at <= rule.within
          /\ rule.total > 0 => m[n].at - m[1].at <= rule.total
  BY <1>1 DEF FitsAt, InWindow
<1> HIDE DEF m
<1>4. CASE n = 2
  <2>1. 1 .. n = {1, 2} /\ 2 .. n = {2} /\ 2 - 1 = 1
    BY <1>4
  <2>2. (\A s, t \in {1, 2} : s < t => q[s] < q[t]) <=> q[1] < q[2]
    BY <1>2, <2>1
  <2>3. QED BY <1>2, <1>3, <1>4, <2>1, <2>2 DEF Close, Inside
<1>5. CASE n = 3
  <2>1. 1 .. n = {1, 2, 3} /\ 2 .. n = {2, 3} /\ 2 - 1 = 1 /\ 3 - 1 = 2
    BY <1>5
  <2>2. (\A s, t \in {1, 2, 3} : s < t => q[s] < q[t]) <=> (q[1] < q[2] /\ q[2] < q[3])
    BY <1>2, <2>1
  <2>3. QED BY <1>2, <1>3, <1>5, <2>1, <2>2 DEF Close, Inside
<1>6. n \in {2, 3}
  BY DEF IsWindowRule
<1>7. QED BY <1>4, <1>5, <1>6

LEMMA CompletesIs ==
    ASSUME NEW rule, IsRule(rule), IsWindowRule(rule), NEW c, IsCell(rule, c), NEW k \in 1 .. Len(c),
           NEW st \in Windows(rule, c), Watched(rule, c, k - 1, st)
    PROVE  /\ Completes(rule, c, st, k, 1) <=> c[k].event = rule.seq[1]
           /\ Completes(rule, c, st, k, 2) <=> /\ c[k].event = rule.seq[2] /\ st.last[1] # 0
                                               /\ Close(rule, c, st.last[1], k) /\ Inside(rule, c, st.last[1], k)
           /\ Len(rule.seq) = 3 =>
                 (Completes(rule, c, st, k, 3) <=> /\ c[k].event = rule.seq[3] /\ st.last[2] # 0
                                                   /\ Close(rule, c, st.last[2], k) /\ Inside(rule, c, st.prev[2], k))
<1> DEFINE r == Reach(rule, st.found)
<1>1. r \in 0 .. (k - 1)
  <2>1. Kept(rule, c, k - 1, st.found) /\ Len(c) \in Nat
    BY LogIs DEF Watched, IsCell
  <2>2. k - 1 \in 0 .. Len(c)
    BY <2>1
  <2>3. QED BY <2>1, <2>2, ReachIs
<1> HIDE DEF r
<1>2. Completes(rule, c, st, k, 1) <=> c[k].event = rule.seq[1]
  BY DEF Completes
<1>3. Completes(rule, c, st, k, 2) <=> /\ c[k].event = rule.seq[2] /\ st.last[1] # 0
                                       /\ Close(rule, c, st.last[1], k) /\ Inside(rule, c, st.last[1], k)
  <2>1. 2 > 1 /\ 2 - 1 = 1 /\ AnchorOf(st.prev, 1, st.last[1]) = st.last[1]
    BY AnchorIs
  <2>2. QED BY <2>1 DEF Completes, Close, Inside
<1>4. ASSUME Len(rule.seq) = 3
      PROVE  Completes(rule, c, st, k, 3) <=> /\ c[k].event = rule.seq[3] /\ st.last[2] # 0
                                              /\ Close(rule, c, st.last[2], k) /\ Inside(rule, c, st.prev[2], k)
  <2>1. st.last[2] # 0 => st.prev[2] # 0
    <3>1. st.last[2] # 0 => r < st.prev[2]
      BY <1>4 DEF Watched, Latest2, Two, r
    <3>2. QED BY <1>1, <3>1
  <2>2. 3 > 1 /\ 3 - 1 = 2 /\ (st.prev[2] # 0 => AnchorOf(st.prev, 2, st.last[2]) = st.prev[2])
    BY AnchorIs
  <2>3. QED BY <2>1, <2>2 DEF Completes, Close, Inside
<1>5. QED BY <1>2, <1>3, <1>4

LEMMA WatchStep ==
    ASSUME NEW rule, IsRule(rule), IsWindowRule(rule), NEW c, IsCell(rule, c), NEW k \in 1 .. Len(c),
           NEW st \in Windows(rule, c), Watched(rule, c, k - 1, st)
    PROVE  Watched(rule, c, k, Visit(rule, c, st, k))
<1> DEFINE n == Len(rule.seq)
           L == Len(c)
           last == st.last
           prev == st.prev
           found == st.found
           r == Reach(rule, found)
           done(u) == Completes(rule, c, st, k, u)
           close(i, j) == Close(rule, c, i, j)
           inside(i, j) == Inside(rule, c, i, j)
<1>1. /\ n \in {2, 3} /\ L \in Nat /\ DOMAIN rule.seq = 1 .. n /\ 1 \in 1 .. n /\ 2 \in 1 .. n /\ n \in 1 .. n
      /\ NamesOnce(rule) /\ \A s, u \in 1 .. n : rule.seq[s] = rule.seq[u] => s = u
      /\ \A s \in 1 .. n : last[s] \in 0 .. L /\ prev[s] \in 0 .. L /\ last[s] < k /\ last[s] <= k - 1
      /\ last \in [1 .. n -> 0 .. L] /\ prev \in [1 .. n -> 0 .. L]
  <2>1. L \in Nat /\ n \in {2, 3} /\ NamesOnce(rule) /\ DOMAIN rule.seq = 1 .. n
    BY LogIs DEF IsCell, IsWindowRule, IsRule
  <2>2. 1 \in 1 .. n /\ 2 \in 1 .. n /\ n \in 1 .. n
    <3>1. n = 2 \/ n = 3
      BY <2>1
    <3> HIDE DEF n
    <3>2. QED BY <3>1
  <2>3. last \in [1 .. n -> 0 .. L] /\ prev \in [1 .. n -> 0 .. L]
    BY DEF Windows
  <2>4. ASSUME NEW s \in 1 .. n PROVE last[s] \in 0 .. L /\ prev[s] \in 0 .. L /\ last[s] < k /\ last[s] <= k - 1
    <3>1. last[s] \in 0 .. L /\ prev[s] \in 0 .. L /\ last[s] <= k - 1
      BY <2>3 DEF Watched
    <3>2. QED BY <3>1
  <2>5. QED BY <2>1, <2>2, <2>3, <2>4 DEF NamesOnce
<1>2. /\ Kept(rule, c, k - 1, found) /\ last[n] = 0 /\ Latest1(rule, c, st, r, k - 1)
      /\ n = 3 => Latest2(rule, c, st, r, k - 1)
  BY DEF Watched
<1>3. r \in 0 .. (k - 1)
  <2>1. k - 1 \in 0 .. L
    BY <1>1
  <2>2. QED BY <1>2, <2>1, ReachIs
<1>4. \A i, j \in 1 .. L : c[i].at \in Nat /\ c[j].at \in Nat /\ (i <= j => c[i].at <= c[j].at)
  <2>1. \A i, j \in 1 .. L : c[i].at \in Nat /\ c[j].at \in Nat /\ (i < j => c[i].at <= c[j].at)
    BY LogIs DEF IsCell
  <2>2. \A i, j \in 1 .. L : i <= j => i = j \/ i < j
    BY <1>1
  <2>3. QED BY <2>1, <2>2
<1>5. rule.within \in Int /\ rule.total \in Int
  BY DEF IsWindowRule
\* A later beginning is as close, and leaves as much of the window.
<1>6. ASSUME NEW i \in 1 .. L, NEW j \in 1 .. L, i <= j, NEW l \in 1 .. L
      PROVE  (close(i, l) => close(j, l)) /\ (inside(i, l) => inside(j, l))
  <2> DEFINE a == c[i].at
             b == c[j].at
             e == c[l].at
  <2>1. a \in Nat /\ b \in Nat /\ e \in Nat /\ a <= b
    BY <1>4, <1>6
  <2> HIDE DEF a, b, e
  <2>2. \A w \in Int : e - a <= w => e - b <= w
    BY <2>1
  <2>3. QED BY <1>5, <2>2 DEF Close, Inside, a, b, e
<1>7. ASSUME NEW i \in 1 .. L, NEW l \in 1 .. L, NEW j \in 1 .. L, l <= j PROVE inside(i, j) => inside(i, l)
  <2> DEFINE a == c[i].at
             b == c[j].at
             e == c[l].at
  <2>1. a \in Nat /\ b \in Nat /\ e \in Nat /\ e <= b
    BY <1>4, <1>7
  <2> HIDE DEF a, b, e
  <2>2. \A w \in Int : b - a <= w => e - a <= w
    BY <2>1
  <2>3. QED BY <1>5, <2>2 DEF Inside, a, b, e
<1>8. /\ done(1) <=> c[k].event = rule.seq[1]
      /\ done(2) <=> c[k].event = rule.seq[2] /\ last[1] # 0 /\ close(last[1], k) /\ inside(last[1], k)
      /\ n = 3 => (done(3) <=> c[k].event = rule.seq[3] /\ last[2] # 0 /\ close(last[2], k) /\ inside(prev[2], k))
  BY CompletesIs
<1>9. /\ last[1] # 0 => r < last[1] /\ last[1] \in 1 .. L /\ c[last[1]].event = rule.seq[1]
      /\ \A j \in 1 .. L : r < j /\ j <= k - 1 /\ c[j].event = rule.seq[1] => last[1] # 0 /\ j <= last[1]
  <2>1. /\ last[1] # 0 => r < last[1] /\ c[last[1]].event = rule.seq[1]
        /\ \A j \in 1 .. L : r < j /\ j <= k - 1 /\ c[j].event = rule.seq[1] => j <= last[1]
    BY <1>2 DEF Latest1
  <2>2. last[1] \in 0 .. L
    BY <1>1
  <2>3. QED BY <1>1, <2>1, <2>2
\* Two events that end at the position are seen.
<1>10. ASSUME NEW i \in 1 .. L, Two(rule, c, i, k, r, k) PROVE done(2)
  <2>1. r < i /\ i <= k - 1 /\ c[i].event = rule.seq[1] /\ c[k].event = rule.seq[2] /\ close(i, k) /\ inside(i, k)
    <3>1. r < i /\ i < k /\ c[i].event = rule.seq[1] /\ c[k].event = rule.seq[2] /\ close(i, k) /\ inside(i, k)
      BY <1>10 DEF Two
    <3>2. QED BY <3>1
  <2>2. last[1] # 0 /\ i <= last[1] /\ last[1] \in 1 .. L
    BY <1>9, <2>1
  <2>3. k \in 1 .. L
    OBVIOUS
  <2> HIDE DEF L, last, close, inside, done
  <2>4. close(last[1], k) /\ inside(last[1], k)
    BY <1>6, <2>1, <2>2, <2>3
  <2>5. QED BY <1>8, <2>1, <2>2, <2>4
<1>11. n = 3 /\ last[2] # 0 => Two(rule, c, prev[2], last[2], r, k)
  <2>1. \A i, j \in 0 .. L : Two(rule, c, i, j, r, k - 1) => Two(rule, c, i, j, r, k)
    BY <1>1 DEF Two
  <2>2. last[2] \in 0 .. L /\ prev[2] \in 0 .. L
    BY <1>1
  <2>3. QED BY <1>2, <2>1, <2>2 DEF Latest2
<1>12. \A i, j \in 1 .. L : Two(rule, c, i, j, r, k) => j = k \/ Two(rule, c, i, j, r, k - 1)
  BY <1>1 DEF Two
\* So is a match that ends at it.
<1>13. ASSUME NEW q, FitsAt(rule, c, q), q[n] = k PROVE q[1] \in 1 .. L /\ (r < q[1] => done(n))
  <2>1. q \in [1 .. n -> 1 .. L] /\ \A s \in 1 .. n : q[s] \in 1 .. L
    BY <1>13 DEF FitsAt
  <2>2. q[1] \in 1 .. L /\ q[2] \in 1 .. L
    BY <1>1, <2>1
  <2>3. CASE n = 2
    <3>1. q[1] < q[2] /\ c[q[1]].event = rule.seq[1] /\ c[k].event = rule.seq[2] /\ close(q[1], k) /\ inside(q[1], k)
      BY <1>13, <2>1, <2>3, FitsAtIs, ZenonT(30)
    <3>2. r < q[1] => Two(rule, c, q[1], k, r, k)
      BY <1>13, <2>3, <3>1 DEF Two
    <3>3. QED BY <1>10, <2>2, <2>3, <3>2
  <2>4. CASE n = 3
    <3>1. /\ q[1] < q[2] /\ q[2] < k /\ c[q[1]].event = rule.seq[1] /\ c[q[2]].event = rule.seq[2]
          /\ c[k].event = rule.seq[3] /\ close(q[1], q[2]) /\ close(q[2], k) /\ inside(q[1], k)
      <4>1. q[3] = k /\ FitsAt(rule, c, q) /\ q \in [1 .. n -> 1 .. L]
        BY <1>13, <2>1, <2>4
      <4>2. /\ q[1] < q[2] /\ q[2] < q[3] /\ c[q[1]].event = rule.seq[1] /\ c[q[2]].event = rule.seq[2]
            /\ c[q[3]].event = rule.seq[3] /\ close(q[1], q[2]) /\ close(q[2], q[3]) /\ inside(q[1], q[3])
        <5> HIDE DEF close, inside
        <5>1. QED BY <2>4, <4>1, FitsAtIs DEF close, inside
      <4> HIDE DEF close, inside
      <4>3. QED BY <4>1, <4>2
    <3>2. ASSUME r < q[1] PROVE done(3)
      <4>1. k \in 1 .. L /\ q[2] <= k /\ q[2] <= k - 1
        BY <2>2, <3>1
      <4>2. inside(q[1], q[2])
        BY <1>7, <2>2, <3>1, <4>1
      <4>3. Two(rule, c, q[1], q[2], r, k - 1)
        BY <3>1, <3>2, <4>1, <4>2 DEF Two
      <4>4. /\ q[2] <= last[2]
            /\ last[2] # 0 => \A j \in 1 .. L : r < j /\ j < last[2] /\ c[j].event = rule.seq[1] => j <= prev[2]
        BY <1>2, <2>2, <2>4, <4>3 DEF Latest2
      <4>5. last[2] \in 1 .. L /\ prev[2] \in 0 .. L
        BY <1>1, <2>2, <4>4
      <4>6. q[1] <= prev[2]
        BY <2>2, <3>1, <3>2, <4>4, <4>5
      <4>7. prev[2] \in 1 .. L
        BY <2>2, <4>5, <4>6
      <4>8. close(last[2], k)
        BY <1>6, <2>2, <3>1, <4>1, <4>4, <4>5
      <4>9. inside(prev[2], k)
        BY <1>6, <2>2, <3>1, <4>1, <4>6, <4>7
      <4>10. last[2] # 0
        BY <4>5
      <4>11. QED BY <1>8, <2>4, <3>1, <4>8, <4>9, <4>10
    <3>3. QED BY <2>2, <2>4, <3>2
  <2>5. QED BY <1>1, <2>3, <2>4
<1>14. ASSUME ~done(n) PROVE Kept(rule, c, k, found)
  <2>1. ASSUME NEW q, FitsAt(rule, c, q), q[n] = k PROVE q[1] <= r
    <3>1. q[1] \in 1 .. L /\ ~(r < q[1])
      BY <1>13, <1>14, <2>1
    <3>2. QED BY <1>3, <3>1
  <2>2. QED BY <1>2, <2>1, FoundStays
<1>15. \A s, u \in 1 .. n : done(s) /\ done(u) => s = u
  BY <1>1 DEF Completes
<1> HIDE DEF done, close, inside
<1>16. /\ (\A u \in 1 .. n : ~done(u)) => Visit(rule, c, st, k) = st
       /\ \A u \in 1 .. n : done(u) /\ u # n => Visit(rule, c, st, k) = Reached(st, k, u)
       /\ done(n) => Visit(rule, c, st, k) = [last |-> Nowhere(rule), prev |-> Nowhere(rule),
                                              found |-> Append(found, Caught(rule, st, k))]
  BY <1>1, VisitIs DEF done
<1>17. CASE \A u \in 1 .. n : ~done(u)
  <2>1. Visit(rule, c, st, k) = st /\ Kept(rule, c, k, found)
    BY <1>1, <1>14, <1>16, <1>17
  <2>2. \A s \in 1 .. n : last[s] <= k
    BY <1>1
  <2>3. Latest1(rule, c, st, r, k)
    <3>1. ASSUME NEW j \in 1 .. L, r < j, j <= k, c[j].event = rule.seq[1] PROVE j <= last[1]
      <4>1. j # k
        BY <1>1, <1>8, <1>17, <3>1
      <4>2. QED BY <1>9, <3>1, <4>1
    <3>2. QED BY <1>9, <3>1 DEF Latest1
  <2>4. ASSUME n = 3 PROVE Latest2(rule, c, st, r, k)
    <3>1. ASSUME NEW i \in 1 .. L, NEW j \in 1 .. L, Two(rule, c, i, j, r, k) PROVE j <= last[2]
      <4>1. j # k
        BY <1>1, <1>10, <1>17, <3>1
      <4>2. QED BY <1>2, <1>12, <2>4, <3>1, <4>1 DEF Latest2
    <3>2. QED BY <1>2, <1>11, <2>4, <3>1 DEF Latest2
  <2>5. QED BY <1>2, <2>1, <2>2, <2>3, <2>4 DEF Watched
<1>18. CASE done(1)
  <2>1. 1 # n /\ ~done(2) /\ ~done(n)
    BY <1>1, <1>15, <1>18
  <2> DEFINE new == Reached(st, k, 1)
  <2>2. Visit(rule, c, st, k) = new /\ Kept(rule, c, k, found)
    BY <1>1, <1>14, <1>16, <1>18, <2>1
  <2>3. new.found = found /\ new.last[1] = k /\ \A s \in 1 .. n : s # 1 => new.last[s] = last[s] /\ new.prev[s] = prev[s]
    BY <1>1 DEF Reached
  <2> HIDE DEF new
  <2>4. ASSUME NEW s \in 1 .. n PROVE new.last[s] <= k
    <3>1. k \in Int /\ last[s] \in Int /\ last[s] <= k
      BY <1>1
    <3>2. new.last[s] = k \/ new.last[s] = last[s]
      BY <2>3
    <3>3. QED BY <3>1, <3>2
  <2>5. Latest1(rule, c, new, r, k)
    BY <1>3, <1>8, <1>18, <2>3 DEF Latest1
  <2>6. ASSUME n = 3 PROVE Latest2(rule, c, new, r, k)
    <3>1. new.last[2] = last[2] /\ new.prev[2] = prev[2]
      BY <1>1, <2>3
    <3>2. ASSUME NEW i \in 1 .. L, NEW j \in 1 .. L, Two(rule, c, i, j, r, k) PROVE j <= last[2]
      <4>1. j # k
        BY <1>10, <2>1, <3>2
      <4>2. QED BY <1>2, <1>12, <2>6, <3>2, <4>1 DEF Latest2
    <3>3. QED BY <1>2, <1>11, <2>6, <3>1, <3>2 DEF Latest2
  <2>7. new.last[n] = 0
    BY <1>1, <1>2, <2>1, <2>3
  <2>8. QED BY <2>2, <2>3, <2>4, <2>5, <2>6, <2>7 DEF Watched
<1>19. CASE n = 3 /\ done(2)
  <2>1. ~done(1) /\ ~done(n) /\ 2 # n
    BY <1>1, <1>15, <1>19
  <2> DEFINE new == Reached(st, k, 2)
  <2>2. Visit(rule, c, st, k) = new /\ Kept(rule, c, k, found)
    BY <1>1, <1>14, <1>16, <1>19, <2>1
  <2>3. /\ new.found = found /\ new.last[2] = k /\ new.prev[2] = last[1]
        /\ \A s \in 1 .. n : s # 2 => new.last[s] = last[s]
    BY <1>1 DEF Reached
  <2> HIDE DEF new
  <2>4. ASSUME NEW s \in 1 .. n PROVE new.last[s] <= k
    <3>1. CASE s = 2
      BY <2>3, <3>1
    <3>2. CASE s # 2
      <4> DEFINE x == last[s]
      <4>1. x \in 0 .. L /\ x < k /\ new.last[s] = x
        BY <1>1, <2>3, <3>2
      <4> HIDE DEF x
      <4>2. QED BY <1>1, <4>1
    <3>3. QED BY <3>1, <3>2
  <2>5. new.last[1] = last[1]
    BY <1>1, <2>3
  <2>6. Latest1(rule, c, new, r, k)
    <3>1. ASSUME NEW j \in 1 .. L, r < j, j <= k, c[j].event = rule.seq[1] PROVE j <= last[1]
      <4>1. j # k
        BY <1>8, <2>1, <3>1
      <4>2. QED BY <1>9, <3>1, <4>1
    <3>2. QED BY <1>9, <2>5, <3>1 DEF Latest1
  <2>7. Latest2(rule, c, new, r, k)
    <3>1. /\ last[1] # 0 /\ close(last[1], k) /\ inside(last[1], k) /\ c[k].event = rule.seq[2] /\ last[1] < k
          /\ r < last[1] /\ c[last[1]].event = rule.seq[1]
      BY <1>1, <1>8, <1>9, <1>19
    <3>2. Two(rule, c, last[1], k, r, k)
      BY <3>1 DEF Two, close, inside
    <3>3. \A j \in 1 .. L : r < j /\ j < k /\ c[j].event = rule.seq[1] => j <= last[1]
      BY <1>9
    <3>4. \A i, j \in 1 .. L : Two(rule, c, i, j, r, k) => j <= k
      BY DEF Two
    <3>5. QED BY <2>3, <3>2, <3>3, <3>4 DEF Latest2
  <2>8. new.last[n] = 0
    BY <1>1, <1>2, <2>1, <2>3
  <2>9. QED BY <2>2, <2>3, <2>4, <2>6, <2>7, <2>8 DEF Watched
<1>20. CASE done(n)
  <2> DEFINE q == Caught(rule, st, k)
             new == [last |-> Nowhere(rule), prev |-> Nowhere(rule), found |-> Append(found, q)]
  <2>1. Visit(rule, c, st, k) = new
    BY <1>16, <1>20
  <2>2. q \in [1 .. n -> 1 .. L] /\ FitsAt(rule, c, q) /\ q[n] = k /\ r < q[1]
    <3>1. CASE n = 2
      <4>1. q[1] = last[1] /\ q[2] = k /\ q = [s \in 1 .. n |-> q[s]]
        BY <1>1, <3>1 DEF Caught
      <4> HIDE DEF q
      <4>2. /\ last[1] \in 1 .. L /\ r < last[1] /\ last[1] < k /\ c[last[1]].event = rule.seq[1]
            /\ c[k].event = rule.seq[2] /\ close(last[1], k) /\ inside(last[1], k)
        BY <1>1, <1>8, <1>9, <1>20, <3>1
      <4>3. q \in [1 .. n -> 1 .. L]
        <5>1. \A s \in 1 .. n : s = 1 \/ s = 2
          BY <3>1
        <5>2. QED BY <4>1, <4>2, <5>1
      <4>4. FitsAt(rule, c, q)
        BY <3>1, <4>1, <4>2, <4>3, FitsAtIs DEF close, inside
      <4>5. QED BY <3>1, <4>1, <4>2, <4>3, <4>4
    <3>2. CASE n = 3
      <4>1. q[1] = prev[2] /\ q[2] = last[2] /\ q[3] = k /\ q = [s \in 1 .. n |-> q[s]]
        BY <1>1, <3>2 DEF Caught
      <4> HIDE DEF q
      <4>2. c[k].event = rule.seq[3] /\ last[2] # 0 /\ close(last[2], k) /\ inside(prev[2], k)
        BY <1>8, <1>20, <3>2
      <4>3. Two(rule, c, prev[2], last[2], r, k - 1)
        BY <1>2, <3>2, <4>2 DEF Latest2
      <4>4. /\ r < prev[2] /\ prev[2] < last[2] /\ c[prev[2]].event = rule.seq[1] /\ c[last[2]].event = rule.seq[2]
            /\ close(prev[2], last[2])
        BY <4>3 DEF Two, close
      <4>5. last[2] \in 1 .. L /\ prev[2] \in 1 .. L /\ last[2] < k
        <5>1. last[2] \in 0 .. L /\ prev[2] \in 0 .. L /\ last[2] < k
          BY <1>1
        <5>2. QED BY <1>3, <4>2, <4>4, <5>1
      <4>6. q \in [1 .. n -> 1 .. L]
        <5>1. \A s \in 1 .. n : s = 1 \/ s = 2 \/ s = 3
          BY <3>2
        <5>2. QED BY <4>1, <4>5, <5>1
      <4>7. FitsAt(rule, c, q)
        BY <3>2, <4>1, <4>2, <4>4, <4>5, <4>6, FitsAtIs DEF close, inside
      <4>8. QED BY <3>2, <4>1, <4>4, <4>6, <4>7
    <3>3. QED BY <1>1, <3>1, <3>2
  <2> HIDE DEF q
  <2>3. Kept(rule, c, k, Append(found, q)) /\ Reach(rule, Append(found, q)) = k
    BY <1>2, <2>2, FoundGrows
  <2>4. new.found = Append(found, q) /\ \A s \in 1 .. n : new.last[s] = 0
    BY DEF Nowhere
  <2> HIDE DEF new
  <2>5. new.last[n] = 0 /\ new.last[1] = 0 /\ new.last[2] = 0 /\ \A s \in 1 .. n : new.last[s] <= k
    BY <1>1, <2>4
  <2>6. Latest1(rule, c, new, k, k)
    <3>1. \A j \in 1 .. L : ~(k < j /\ j <= k)
      OBVIOUS
    <3>2. QED BY <2>5, <3>1 DEF Latest1
  <2>7. Latest2(rule, c, new, k, k)
    <3>1. \A i, j \in 1 .. L : ~(k < i /\ i < j /\ j <= k)
      OBVIOUS
    <3>2. QED BY <2>5, <3>1 DEF Latest2, Two
  <2>8. QED BY <2>1, <2>3, <2>4, <2>5, <2>6, <2>7 DEF Watched
<1>21. QED
  <2>1. \A u \in 1 .. n : u = 1 \/ (n = 3 /\ u = 2) \/ u = n
    <3>1. n = 2 \/ n = 3
      BY <1>1
    <3> HIDE DEF n
    <3>2. QED BY <3>1
  <2>2. QED BY <1>17, <1>18, <1>19, <1>20, <2>1

\* The windowed sweep, event by event.
LEMMA WindowSteps ==
    ASSUME NEW rule, IsRule(rule), NEW c, Len(c) \in Nat, DOMAIN c = 1 .. Len(c)
    PROVE  \E h \in [0 .. Len(c) -> Windows(rule, c)] :
               /\ h[0] = Fresh(rule.seq) /\ \A k \in 1 .. Len(c) : h[k] = Visit(rule, c, h[k - 1], k)
               /\ Windowed(rule, c) = AsEvents(c, h[Len(c)].found)
<1> DEFINE n == Len(c)
           numbers == [i \in DOMAIN c |-> i]
           base == Fresh(rule.seq)
           X == Windows(rule, c)
           f == [z \in X \X (1 .. n) |-> Visit(rule, c, z[1], z[2])]
           Folds(g) == g = [s \in SUBSET DOMAIN numbers |->
                               IF s = {} THEN base ELSE Visit(rule, c, g[s \ {Max(s)}], numbers[Max(s)])]
           h == CHOOSE g : Folds(g)
           w == [k \in 0 .. n |-> h[1 .. k]]
           Fine == {k \in 0 .. n : h[1 .. k] \in X}
<1>1. n \in Nat /\ DOMAIN c = 1 .. n /\ DOMAIN numbers = 1 .. n /\ \A k \in 1 .. n : numbers[k] = k
  OBVIOUS
<1>2. base \in X
  <2>1. Len(rule.seq) \in Nat \ {0} /\ DOMAIN rule.seq = 1 .. Len(rule.seq)
    BY DEF IsRule
  <2>2. QED BY <1>1, <2>1 DEF Fresh, Windows
<1> HIDE DEF base
<1>3. f \in [X \X (1 .. n) -> X]
  <2>1. ASSUME NEW st \in X, NEW k \in 1 .. n PROVE Visit(rule, c, st, k) \in X
    BY <1>1, VisitStaysTyped
  <2> HIDE DEF X
  <2>2. QED BY <2>1
<1>4. PICK g \in [SUBSET (1 .. n) -> X] : FoldOn(g, n, base, f)
  <2> HIDE DEF X, f, n
  <2>1. QED BY <1>1, <1>2, <1>3, FoldExists
<1>5. Folds(g)
  <2>1. ASSUME NEW s \in SUBSET (1 .. n), s # {}
        PROVE  f[<<g[s \ {Max(s)}], Max(s)>>] = Visit(rule, c, g[s \ {Max(s)}], numbers[Max(s)])
    <3>1. s \in SUBSET (0 .. n)
      OBVIOUS
    <3>2. Max(s) \in 1 .. n
      <4> HIDE DEF n
      <4>1. QED BY <1>1, <2>1, <3>1, MaxBelow
    <3>3. g[s \ {Max(s)}] \in X /\ numbers[Max(s)] = Max(s)
      <4> HIDE DEF X, numbers, n
      <4>1. QED BY <1>1, <1>4, <3>2
    <3> HIDE DEF X, numbers, n
    <3>4. QED BY <3>2, <3>3
  <2> HIDE DEF X, f, n, numbers
  <2>2. QED BY <1>1, <1>4, <2>1 DEF FoldOn
<1> HIDE DEF X, f
<1>6. Folds(h)
  <2> HIDE DEF Folds
  <2>1. QED BY <1>5
<1>7. Windowed(rule, c) = AsEvents(c, h[1 .. n].found)
  <2>1. Windowed(rule, c) = AsEvents(c, h[DOMAIN numbers].found)
    BY DEF Windowed, FoldLeftDomain, FoldLeft, MapThenFoldSet, base
  <2> HIDE DEF h, numbers, n
  <2>2. QED BY <1>1, <2>1
<1> HIDE DEF h, numbers, n
<1>8. /\ h[1 .. 0] = base
      /\ \A k \in 1 .. n : h[1 .. k] = Visit(rule, c, h[1 .. (k - 1)], k)
  <2>1. 1 .. 0 = {} /\ h[1 .. 0] = base
    BY <1>1, <1>6
  <2>2. ASSUME NEW k \in 1 .. n PROVE h[1 .. k] = Visit(rule, c, h[1 .. (k - 1)], k)
    <3>1. Ends(n, k)
      BY <1>1, Intervals
    <3>2. h[1 .. k] = Visit(rule, c, h[(1 .. k) \ {Max(1 .. k)}], numbers[Max(1 .. k)])
      BY <1>1, <1>6, <3>1 DEF Ends
    <3>3. QED BY <1>1, <3>1, <3>2 DEF Ends
  <2>3. QED BY <2>1, <2>2
<1>9. 0 \in Fine
  BY <1>1, <1>2, <1>8
<1>10. ASSUME NEW k \in 1 .. n, k - 1 \in Fine PROVE k \in Fine
  <2> DEFINE st == h[1 .. (k - 1)]
  <2>1. h[1 .. k] = Visit(rule, c, st, k) /\ st \in X
    BY <1>8, <1>10
  <2> HIDE DEF st
  <2>2. Visit(rule, c, st, k) \in X
    BY <1>1, <2>1, VisitStaysTyped DEF X, n
  <2>3. k \in 0 .. n
    BY <1>1
  <2>4. QED BY <2>1, <2>2, <2>3
<1>11. ASSUME NEW k \in 0 .. n PROVE k \in Fine
  <2>1. k \in Nat /\ \A i \in 1 .. k : i \in 1 .. n
    BY <1>1
  <2> HIDE DEF Fine
  <2>2. QED BY <1>9, <1>10, <2>1, UpTo, SMTT(30)
<1>12. w \in [0 .. n -> X] /\ \A k \in 0 .. n : w[k] = h[1 .. k]
  BY <1>11
<1> HIDE DEF w
<1>13. 0 \in 0 .. n /\ n \in 0 .. n /\ \A k \in 1 .. n : k \in 0 .. n /\ k - 1 \in 0 .. n
  BY <1>1
<1>14. w[0] = base /\ (\A k \in 1 .. n : w[k] = Visit(rule, c, w[k - 1], k)) /\ Windowed(rule, c) = AsEvents(c, w[n].found)
  BY <1>7, <1>8, <1>12, <1>13
<1>15. QED BY <1>12, <1>14 DEF n, X, base

LEMMA WindowedSolves ==
    ASSUME NEW rule, IsRule(rule), IsWindowRule(rule), NEW c, IsCell(rule, c)
    PROVE  Solves(rule, ToSet(c), Windowed(rule, c))
<1> DEFINE n == Len(c)
           base == Fresh(rule.seq)
           X == Windows(rule, c)
<1>1. n \in Nat /\ DOMAIN c = 1 .. n
  BY LogIs DEF IsCell
<1>2. Watched(rule, c, 0, base)
  <2>1. /\ Len(rule.seq) \in Nat \ {0} /\ DOMAIN rule.seq = 1 .. Len(rule.seq) /\ Len(rule.seq) \in {2, 3}
    BY DEF IsRule, IsWindowRule
  <2>2. base.found = <<>> /\ \A s \in 1 .. Len(rule.seq) : base.last[s] = 0
    BY <2>1 DEF Fresh
  <2>3. Kept(rule, c, 0, <<>>) /\ Reach(rule, <<>>) = 0
    BY NothingKept DEF Reach
  <2> HIDE DEF base
  <2>4. base.last[Len(rule.seq)] = 0 /\ base.last[1] = 0 /\ base.last[2] = 0 /\ \A s \in 1 .. Len(rule.seq) : base.last[s] <= 0
    <3>1. 1 \in 1 .. Len(rule.seq) /\ 2 \in 1 .. Len(rule.seq) /\ Len(rule.seq) \in 1 .. Len(rule.seq)
      <4> DEFINE m == Len(rule.seq)
      <4>1. m = 2 \/ m = 3
        BY <2>1
      <4> HIDE DEF m
      <4>2. QED BY <4>1 DEF m
    <3>2. QED BY <2>2, <3>1
  <2>5. Latest1(rule, c, base, 0, 0)
    <3>1. \A j \in 1 .. n : ~(0 < j /\ j <= 0)
      OBVIOUS
    <3>2. QED BY <2>4, <3>1 DEF Latest1
  <2>6. Latest2(rule, c, base, 0, 0)
    <3>1. \A i, j \in 1 .. n : ~(0 < i /\ i < j /\ j <= 0)
      OBVIOUS
    <3>2. QED BY <2>4, <3>1 DEF Latest2, Two
  <2>7. QED BY <2>2, <2>3, <2>4, <2>5, <2>6 DEF Watched
<1> HIDE DEF base, n, X
<1>3. PICK h \in [0 .. n -> X] : /\ h[0] = base /\ \A k \in 1 .. n : h[k] = Visit(rule, c, h[k - 1], k)
                                 /\ Windowed(rule, c) = AsEvents(c, h[n].found)
  BY <1>1, WindowSteps DEF n, X, base
<1> DEFINE Fine == {k \in 0 .. n : Watched(rule, c, k, h[k])}
<1>4. 0 \in Fine
  BY <1>1, <1>2, <1>3
<1>5. ASSUME NEW k \in 1 .. n, k - 1 \in Fine PROVE k \in Fine
  <2>1. h[k] = Visit(rule, c, h[k - 1], k) /\ h[k - 1] \in X /\ Watched(rule, c, k - 1, h[k - 1])
    BY <1>3, <1>5
  <2>2. Watched(rule, c, k, Visit(rule, c, h[k - 1], k))
    BY <2>1, WatchStep DEF X, n
  <2>3. k \in 0 .. n
    BY <1>1
  <2>4. QED BY <2>1, <2>2, <2>3
<1>6. n \in Fine
  <2> HIDE DEF Fine
  <2>1. n \in 0 .. n
    BY <1>1
  <2>2. QED BY <1>1, <1>4, <1>5, <2>1, UpTo
<1> DEFINE found == h[n].found
<1>7. Kept(rule, c, n, found)
  BY <1>6 DEF Watched
<1> HIDE DEF found
<1>8. Solves(rule, ToSet(c), AsEvents(c, found))
  BY <1>7, AllKept DEF n
<1>9. QED BY <1>3, <1>8 DEF found

\* The parts a label divides events into: logs, each of one value, and every event in one of them.
IsParted(label, parts) ==
    /\ Len(parts) \in Nat /\ DOMAIN parts = 1 .. Len(parts)
    /\ \A i \in 1 .. Len(parts) : IsLog(parts[i]) /\ ToSet(parts[i]) \subseteq DOMAIN label
    /\ \A i \in 1 .. Len(parts), e, f \in DOMAIN label :
           e \in ToSet(parts[i]) => (f \in ToSet(parts[i]) <=> label[f] = label[e])
    /\ \A e \in DOMAIN label : \E i \in 1 .. Len(parts) : e \in ToSet(parts[i])
    /\ \A i, j \in 1 .. Len(parts) : i # j => ToSet(parts[i]) \cap ToSet(parts[j]) = {}

LEMMA PartsAre ==
    ASSUME NEW label, AreEvents(DOMAIN label), NEW values, Lists(values, Range(label)), NEW parts,
           parts = [i \in DOMAIN values |-> Ordered({e \in DOMAIN label : label[e] = values[i]}, Earlier)]
    PROVE  IsParted(label, parts)
<1> DEFINE D == DOMAIN label
           N == Len(values)
           of(i) == {e \in D : label[e] = values[i]}
<1>1. N \in Nat /\ DOMAIN values = 1 .. N /\ Range(label) = {label[e] : e \in D}
  BY DEF Lists, Range
<1>2. DOMAIN parts = 1 .. N /\ \A i \in 1 .. N : parts[i] = Ordered(of(i), Earlier)
  BY <1>1
<1>3. Len(parts) = N
  BY <1>1, <1>2
<1>4. ASSUME NEW i \in 1 .. N PROVE IsLog(parts[i]) /\ ToSet(parts[i]) = of(i)
  <2>1. AreEvents(of(i))
    <3>1. of(i) \subseteq D
      OBVIOUS
    <3> HIDE DEF of
    <3>2. QED BY <3>1, FS_Subset DEF AreEvents
  <2> HIDE DEF of
  <2>2. QED BY <1>2, <2>1, EarlierLists, ListedIsLog
<1>5. \A e \in D : \E i \in 1 .. N : e \in of(i)
  <2>1. ASSUME NEW e \in D PROVE \E i \in 1 .. N : e \in of(i)
    <3>1. label[e] \in Range(label)
      BY <1>1
    <3>2. QED BY <3>1 DEF Lists
  <2>2. QED BY <2>1
<1>6. \A i, j \in 1 .. N : i # j => of(i) \cap of(j) = {}
  <2>1. \A i, j \in 1 .. N : values[i] = values[j] => i = j
    BY DEF Lists
  <2>2. QED BY <2>1
<1>7. \A i \in 1 .. N : of(i) \subseteq D /\ \A e, f \in D : e \in of(i) => (f \in of(i) <=> label[f] = label[e])
  OBVIOUS
<1> HIDE DEF N, of
<1>8. \A i \in 1 .. N : ToSet(parts[i]) = of(i)
  BY <1>4
<1>9. \A i \in 1 .. N : IsLog(parts[i]) /\ ToSet(parts[i]) \subseteq D
  BY <1>4, <1>7, SMTT(30)
<1>10. \A i \in 1 .. N, e, f \in D : e \in ToSet(parts[i]) => (f \in ToSet(parts[i]) <=> label[f] = label[e])
  <2>1. ASSUME NEW i \in 1 .. N
        PROVE  \A e, f \in D : e \in ToSet(parts[i]) => (f \in ToSet(parts[i]) <=> label[f] = label[e])
    BY <1>7, <1>8, SMTT(30)
  <2>2. QED BY <2>1
<1>11. \A e \in D : \E i \in 1 .. N : e \in ToSet(parts[i])
  BY <1>5, <1>8
<1>12. \A i, j \in 1 .. N : i # j => ToSet(parts[i]) \cap ToSet(parts[j]) = {}
  BY <1>6, <1>8
<1>13. QED BY <1>1, <1>2, <1>3, <1>9, <1>10, <1>11, <1>12, ZenonT(30) DEF IsParted

\* A set of numbers, least first.
InNumberOrder(S, seq) ==
    seq = [i \in 1 .. Cardinality(S) |-> CHOOSE x \in S : Cardinality({y \in S : y < x}) = i - 1]

LEMMA NumbersList ==
    ASSUME NEW S, IsFiniteSet(S), S \subseteq Nat, NEW seq, InNumberOrder(S, seq)
    PROVE  Lists(seq, S)
<1> DEFINE R == {p \in S \X S : p[1] < p[2]}
           n == Cardinality(S)
<1>1. \A x, y \in S : <<x, y>> \in R <=> x < y
  OBVIOUS
<1> HIDE DEF R
<1>2. StrictOrder(S, R) /\ \A x \in S : Below(S, R, x) = {y \in S : y < x}
  <2>1. /\ \A x \in S : ~(x < x)
        /\ \A x, y \in S : x # y => x < y \/ y < x
        /\ \A x, y, z \in S : x < y /\ y < z => x < z
    OBVIOUS
  <2>2. StrictOrder(S, R)
    BY <1>1, <2>1 DEF StrictOrder
  <2>3. ASSUME NEW x \in S PROVE Below(S, R, x) = {y \in S : y < x}
    BY <1>1 DEF Below
  <2>4. QED BY <2>2, <2>3
<1>3. seq = [i \in 1 .. n |-> CHOOSE x \in S : Cardinality({y \in S : y < x}) = i - 1]
  BY DEF InNumberOrder
<1>4. ASSUME NEW i \in 1 .. n PROVE seq[i] \in S /\ Cardinality(Below(S, R, seq[i])) = i - 1
  <2>1. \E x \in S : Cardinality(Below(S, R, x)) = i - 1
    BY <1>2, PlacesAreTaken
  <2>2. \E x \in S : Cardinality({y \in S : y < x}) = i - 1
    BY <1>2, <2>1
  <2>3. seq[i] = CHOOSE x \in S : Cardinality({y \in S : y < x}) = i - 1
    BY <1>3
  <2>4. seq[i] \in S /\ Cardinality({y \in S : y < seq[i]}) = i - 1
    BY <2>2, <2>3
  <2>5. QED BY <1>2, <2>4
<1>5. DOMAIN seq = 1 .. n /\ seq = [i \in 1 .. n |-> seq[i]]
  <2> DEFINE at(i) == CHOOSE x \in S : Cardinality({y \in S : y < x}) = i - 1
  <2>1. seq = [i \in 1 .. n |-> at(i)]
    BY <1>3
  <2> HIDE DEF at
  <2>2. QED BY <2>1
<1>6. QED BY <1>2, <1>4, <1>5, PlacedIsListed

\* A host of its own for each group, or one group.
LEMMA GroupsAreParted ==
    ASSUME NEW ds, IsLog(ds), \A e \in ToSet(ds) : e.computer \in Nat, NEW scope, scope # "global"
    PROVE  IsParted([e \in ToSet(ds) |-> e.computer], Groups(ds, scope))
<1> DEFINE D == ToSet(ds)
           label == [e \in D |-> e.computer]
           S == Range(label)
           values == Ordered(S, LAMBDA a, b : a < b)
<1>1. AreEvents(D) /\ DOMAIN label = D
  BY DEF IsLog
<1>2. S = {label[e] : e \in D} /\ S \subseteq Nat
  BY DEF Range
<1>3. IsFiniteSet(S)
  <2> HIDE DEF label, S, D
  <2>1. QED BY <1>1, <1>2, ImageIsFinite DEF AreEvents
<1>4. Groups(ds, scope) = [i \in DOMAIN values |-> Ordered({e \in DOMAIN label : label[e] = values[i]}, Earlier)]
  BY DEF Groups, PartsBy
<1> HIDE DEF S
<1>5. Lists(values, S)
  <2>1. InNumberOrder(S, values)
    BY DEF Ordered, InNumberOrder
  <2> HIDE DEF values
  <2>2. QED BY <1>2, <1>3, <2>1, NumbersList
<1> HIDE DEF values, label, D
<1>6. IsParted(label, Groups(ds, scope))
  BY <1>1, <1>4, <1>5, PartsAre DEF S
<1>7. QED BY <1>6 DEF label, D

\* The values of a label in the order they first appear.
LEMMA FirstOf ==
    ASSUME NEW D, AreEvents(D), NEW T, T \subseteq D, T # {}
    PROVE  \E e \in T : \A f \in T : NotAfter(e, f)
<1>1. AreEvents(T)
  BY FS_Subset DEF AreEvents
<1> DEFINE seq == Ordered(T, Earlier)
<1>2. Lists(seq, T) /\ \A i, j \in 1 .. Len(seq) : i < j => Earlier(seq[i], seq[j])
  BY <1>1, EarlierLists
<1> HIDE DEF seq
<1>3. seq \in Seq(T) /\ Len(seq) \in Nat /\ \A x \in T : \E i \in 1 .. Len(seq) : seq[i] = x
  BY <1>2 DEF Lists
<1>4. 1 \in 1 .. Len(seq)
  BY <1>3
<1>5. \A f \in T : NotAfter(seq[1], f)
  <2>1. ASSUME NEW f \in T PROVE NotAfter(seq[1], f)
    <3>1. PICK i \in 1 .. Len(seq) : seq[i] = f
      BY <1>3
    <3>2. i = 1 \/ 1 < i
      BY <1>3
    <3>3. QED BY <1>2, <1>4, <3>1, <3>2 DEF NotAfter
  <2>2. QED BY <2>1
<1>6. seq[1] \in T
  BY <1>3, <1>4
<1>7. QED BY <1>5, <1>6

\* The values of a label, first seen first.
InFirstOrder(label, S, seq) ==
    seq = [i \in 1 .. Cardinality(S) |->
               CHOOSE x \in S : Cardinality({y \in S : AppearsBefore(label, y, x)}) = i - 1]

LEMMA FirstsList ==
    ASSUME NEW label, AreEvents(DOMAIN label), NEW S, S = Range(label), NEW seq, InFirstOrder(label, S, seq)
    PROVE  Lists(seq, S)
<1> DEFINE D == DOMAIN label
           R == {p \in S \X S : AppearsBefore(label, p[1], p[2])}
           n == Cardinality(S)
           IsFirst(e, v) == e \in D /\ label[e] = v /\ \A f \in D : label[f] = v => NotAfter(e, f)
           first(v) == CHOOSE e : IsFirst(e, v)
<1>1. S = {label[e] : e \in D}
  BY DEF Range
<1>2. IsFiniteSet(S)
  BY <1>1, ImageIsFinite DEF AreEvents
<1>3. ASSUME NEW v \in S PROVE IsFirst(first(v), v)
  <2> DEFINE T == {e \in D : label[e] = v}
  <2>1. T \subseteq D /\ T # {}
    BY <1>1
  <2>2. \E e \in T : \A f \in T : NotAfter(e, f)
    <3> HIDE DEF T, D
    <3>1. QED BY <2>1, FirstOf DEF D
  <2>3. \E e : IsFirst(e, v)
    BY <2>2
  <2> HIDE DEF IsFirst
  <2>4. QED BY <2>3
<1> HIDE DEF first
<1>4. ASSUME NEW v \in S, NEW w \in S
      PROVE  AppearsBefore(label, v, w) <=> Earlier(first(v), first(w))
  <2>1. IsFirst(first(v), v) /\ IsFirst(first(w), w)
    BY <1>3
  <2>2. ASSUME AppearsBefore(label, v, w) PROVE Earlier(first(v), first(w))
    <3>1. PICK e \in D : label[e] = v /\ \A f \in D : label[f] = w => Earlier(e, f)
      BY <2>2 DEF AppearsBefore
    <3>2. Earlier(e, first(w)) /\ NotAfter(first(v), e) /\ first(v) \in D /\ first(w) \in D
      BY <2>1, <3>1
    <3> HIDE DEF D
    <3>3. QED BY <3>1, <3>2, EarlierIs DEF NotAfter, D
  <2>3. ASSUME Earlier(first(v), first(w)) PROVE AppearsBefore(label, v, w)
    <3>1. ASSUME NEW f \in D, label[f] = w PROVE Earlier(first(v), f)
      <4>1. NotAfter(first(w), f) /\ first(v) \in D /\ first(w) \in D
        BY <2>1, <3>1
      <4> HIDE DEF D
      <4>2. QED BY <2>3, <4>1, <3>1, EarlierIs DEF NotAfter, D
    <3>2. QED BY <2>1, <3>1 DEF AppearsBefore
  <2>4. QED BY <2>2, <2>3
<1>5. \A x, y \in S : <<x, y>> \in R <=> Earlier(first(x), first(y))
  BY <1>4
<1>6. \A v, w \in S : first(v) \in D /\ (first(v) = first(w) => v = w)
  BY <1>3
<1>7. \A x \in S : Below(S, R, x) = {y \in S : AppearsBefore(label, y, x)}
  BY DEF Below
<1> HIDE DEF R, D
<1>8. StrictOrder(S, R)
  <2>1. \A x \in S : ~Earlier(first(x), first(x))
    BY <1>6, EarlierIs DEF D
  <2>2. \A x, y \in S : x # y => Earlier(first(x), first(y)) \/ Earlier(first(y), first(x))
    BY <1>6, EarlierIs DEF D
  <2>3. \A x, y, z \in S : Earlier(first(x), first(y)) /\ Earlier(first(y), first(z)) => Earlier(first(x), first(z))
    BY <1>6, EarlierIs DEF D
  <2>4. QED BY <1>5, <2>1, <2>2, <2>3 DEF StrictOrder
<1>9. seq = [i \in 1 .. n |-> CHOOSE x \in S : Cardinality({y \in S : AppearsBefore(label, y, x)}) = i - 1]
  BY DEF InFirstOrder
<1>10. ASSUME NEW i \in 1 .. n PROVE seq[i] \in S /\ Cardinality(Below(S, R, seq[i])) = i - 1
  <2>1. \E x \in S : Cardinality(Below(S, R, x)) = i - 1
    BY <1>2, <1>8, PlacesAreTaken
  <2>2. \E x \in S : Cardinality({y \in S : AppearsBefore(label, y, x)}) = i - 1
    BY <1>7, <2>1
  <2>3. seq[i] = CHOOSE x \in S : Cardinality({y \in S : AppearsBefore(label, y, x)}) = i - 1
    BY <1>9
  <2>4. seq[i] \in S /\ Cardinality({y \in S : AppearsBefore(label, y, seq[i])}) = i - 1
    BY <2>2, <2>3
  <2>5. QED BY <1>7, <2>4
<1>11. DOMAIN seq = 1 .. n /\ seq = [i \in 1 .. n |-> seq[i]]
  <2> DEFINE at(i) == CHOOSE x \in S : Cardinality({y \in S : AppearsBefore(label, y, x)}) = i - 1
  <2>1. seq = [i \in 1 .. n |-> at(i)]
    BY <1>9
  <2> HIDE DEF at
  <2>2. QED BY <2>1
<1>12. QED BY <1>2, <1>8, <1>10, <1>11, PlacedIsListed

LEMMA BucketsAreParted ==
    ASSUME NEW group, IsLog(group), NEW slots
    PROVE  IsParted([e \in Keyed(group, slots) |-> KeyOf(e, slots)], Buckets(group, slots))
<1> DEFINE D == Keyed(group, slots)
           label == [e \in D |-> KeyOf(e, slots)]
           values == Ordered(Range(label), LAMBDA v, w : AppearsBefore(label, v, w))
<1>1. AreEvents(D) /\ DOMAIN label = D
  <2>1. D \subseteq ToSet(group) /\ AreEvents(ToSet(group))
    BY DEF Keyed, IsLog
  <2> HIDE DEF D
  <2>2. QED BY <2>1, FS_Subset DEF AreEvents
<1>2. Buckets(group, slots) = [i \in DOMAIN values |-> Ordered({e \in DOMAIN label : label[e] = values[i]}, Earlier)]
  BY DEF Buckets, PartsBy
<1> HIDE DEF label, D
<1>3. Lists(values, Range(label))
  <2> DEFINE S == Range(label)
  <2>1. InFirstOrder(label, S, values)
    BY DEF Ordered, InFirstOrder
  <2> HIDE DEF values, S
  <2>2. Lists(values, S)
    BY <1>1, <2>1, FirstsList DEF S
  <2>3. QED BY <2>2 DEF S
<1> HIDE DEF values
<1>4. IsParted(label, Buckets(group, slots))
  BY <1>1, <1>2, <1>3, PartsAre
<1>5. QED BY <1>4 DEF label, D

LEMMA PartsSolve ==
    ASSUME NEW rule, IsRule(rule), NEW label, NEW parts, IsParted(label, parts), NEW D, DOMAIN label \subseteq D,
           NEW ss, ss = [i \in DOMAIN parts |-> ss[i]], \A i \in DOMAIN parts : Solves(rule, ToSet(parts[i]), ss[i]),
           \A e, f \in DOMAIN label : label[e] # label[f] => ~Alike(rule, e, f),
           \A m : GoodChain(rule, D, m) => \A s \in 1 .. Len(rule.seq) : m[s] \in DOMAIN label
    PROVE  Solves(rule, D, FlattenSeq(ss))
<1> DEFINE k == Len(parts)
           C == [i \in 1 .. k |-> ToSet(parts[i])]
           A == UNION {C[i] : i \in 1 .. k}
<1>1. k \in Nat /\ DOMAIN parts = 1 .. k
  BY DEF IsParted
<1>2. \A i \in 1 .. k : C[i] = ToSet(parts[i]) /\ C[i] \subseteq DOMAIN label
  BY DEF IsParted
<1>3. A = DOMAIN label
  <2>1. \A e \in DOMAIN label : \E i \in 1 .. k : e \in C[i]
    BY <1>2 DEF IsParted
  <2> HIDE DEF C
  <2>2. QED BY <1>2, <2>1
<1>4. \A i, j \in 1 .. k : i # j => \A e \in C[i], f \in C[j] : ~Alike(rule, e, f)
  <2>1. ASSUME NEW i \in 1 .. k, NEW j \in 1 .. k, i # j, NEW e \in C[i], NEW f \in C[j] PROVE ~Alike(rule, e, f)
    <3>1. e \in DOMAIN label /\ f \in DOMAIN label /\ e \in ToSet(parts[i]) /\ f \in ToSet(parts[j])
      BY <1>2
    <3>2. f \notin ToSet(parts[i])
      BY <2>1, <3>1 DEF IsParted
    <3>3. label[f] # label[e]
      BY <3>1, <3>2 DEF IsParted
    <3>4. QED BY <3>1, <3>3
  <2> HIDE DEF C
  <2>2. QED BY <2>1
<1>5. \A i \in 1 .. k : Solves(rule, C[i], ss[i])
  BY <1>1, <1>2
<1>6. ss = [i \in 1 .. k |-> ss[i]]
  BY <1>1
<1> HIDE DEF k, C
<1>7. Solves(rule, A, FlattenSeq(ss))
  BY <1>1, <1>4, <1>5, <1>6, FlattenSolves, SMTT(30)
<1> HIDE DEF A
<1>8. QED BY <1>3, <1>7, WidenSolves

\* The rules the claim is about: those of the code that has no window of more than three steps.
IsOrderRule(rule) ==
    /\ IsRule(rule)
    /\ \/ rule.algorithm = "sequence" /\ rule.slots = {}
       \/ rule.algorithm = "field"
       \/ IsWindowRule(rule)

LEMMA CellsSolve ==
    ASSUME NEW rule, IsOrderRule(rule), NEW c, IsCell(rule, c)
    PROVE  /\ rule.algorithm \in {"sequence", "field"} => Solves(rule, ToSet(c), Sweep(rule.seq, c))
           /\ rule.algorithm = "temporal" => Solves(rule, ToSet(c), Windowed(rule, c))
<1>1. IsRule(rule)
  BY DEF IsOrderRule
<1>2. CASE rule.algorithm \in {"sequence", "field"}
  <2>1. rule.algorithm # "temporal"
    BY <1>2
  <2>2. QED BY <1>1, <1>2, <2>1, SweepSolves
<1>3. CASE rule.algorithm = "temporal"
  <2>1. IsWindowRule(rule) /\ rule.algorithm \notin {"sequence", "field"}
    BY <1>3 DEF IsOrderRule
  <2>2. QED BY <1>1, <2>1, WindowedSolves
<1>4. QED BY <1>2, <1>3

LEMMA MatchesSolve ==
    ASSUME NEW rule, IsOrderRule(rule), NEW group, IsLog(group),
           \A e, f \in ToSet(group) : rule.scope = "global" \/ e.computer = f.computer
    PROVE  Solves(rule, ToSet(group), Matches(rule, group))
<1> DEFINE D == ToSet(group)
<1>1. IsRule(rule)
  BY DEF IsOrderRule
<1>2. CASE rule.algorithm = "sequence"
  <2>1. rule.slots = {}
    BY <1>2 DEF IsOrderRule, IsWindowRule
  <2>2. \A e, f : KeyOf(e, rule.slots) = KeyOf(f, rule.slots)
    BY <2>1 DEF KeyOf
  <2>3. IsCell(rule, group)
    <3>1. \A i \in 1 .. Len(group) : group[i] \in D
      BY LogIs
    <3>2. QED BY <2>1, <2>2, <3>1 DEF IsCell, Alike
  <2>4. Matches(rule, group) = Sweep(rule.seq, group)
    BY <1>2 DEF Matches
  <2>5. QED BY <1>2, <2>3, <2>4, CellsSolve
<1>3. CASE rule.algorithm \in {"field", "temporal"}
  <2> DEFINE slots == rule.slots
             K == Keyed(group, slots)
             label == [e \in K |-> KeyOf(e, slots)]
             parts == Buckets(group, slots)
             one(c) == IF rule.algorithm = "field" THEN Sweep(rule.seq, c) ELSE Windowed(rule, c)
             ss == [i \in DOMAIN parts |-> one(parts[i])]
  <2>1. IsParted(label, parts) /\ DOMAIN label = K /\ K \subseteq D
    BY BucketsAreParted DEF Keyed
  <2>2. \A e \in K : e \in D /\ label[e] = KeyOf(e, slots) /\ \A s \in slots : e.keys[s] # Absent
    BY DEF Keyed
  <2> HIDE DEF label, parts, K
  <2>3. ASSUME NEW i \in DOMAIN parts PROVE IsCell(rule, parts[i])
    <3>1. i \in 1 .. Len(parts) /\ IsLog(parts[i]) /\ ToSet(parts[i]) \subseteq K
      BY <2>1 DEF IsParted
    <3>2. \A j \in 1 .. Len(parts[i]) : parts[i][j] \in ToSet(parts[i]) /\ parts[i][j] \in K
      BY <3>1, LogIs
    <3>3. \A e, f \in ToSet(parts[i]) : label[f] = label[e]
      BY <2>1, <3>1 DEF IsParted
    <3>4. \A e, f \in ToSet(parts[i]) : Alike(rule, e, f)
      BY <2>2, <3>1, <3>3 DEF Alike
    <3>5. QED BY <2>2, <3>1, <3>2, <3>4 DEF IsCell
  <2>4. \A i \in DOMAIN parts : Solves(rule, ToSet(parts[i]), ss[i])
    <3>1. ASSUME NEW i \in DOMAIN parts PROVE Solves(rule, ToSet(parts[i]), one(parts[i]))
      BY <1>3, <2>3, CellsSolve
    <3> HIDE DEF one
    <3>2. QED BY <3>1
  <2>5. \A e, f \in K : label[e] # label[f] => ~Alike(rule, e, f)
    BY <2>2 DEF Alike
  <2>6. ASSUME NEW m, GoodChain(rule, D, m), NEW s \in 1 .. Len(rule.seq) PROVE m[s] \in K
    <3>1. m \in [1 .. Len(rule.seq) -> D] /\ \A t \in slots : m[s].keys[t] # Absent
      BY <2>6 DEF GoodChain
    <3>2. QED BY <3>1 DEF Keyed, K
  <2>7. ss = [i \in DOMAIN parts |-> ss[i]]
    OBVIOUS
  <2>8. Matches(rule, group) = FlattenSeq(ss)
    <3>1. CASE rule.algorithm = "field"
      BY <3>1 DEF Matches, parts
    <3>2. CASE rule.algorithm = "temporal"
      BY <3>2 DEF Matches, parts
    <3>3. QED BY <1>3, <3>1, <3>2
  <2> HIDE DEF ss, D
  <2>9. Solves(rule, D, FlattenSeq(ss))
    BY <1>1, <2>1, <2>4, <2>5, <2>6, <2>7, PartsSolve
  <2>10. QED BY <2>8, <2>9 DEF D
<1>4. rule.algorithm \in {"sequence", "field", "temporal"}
  BY DEF IsOrderRule, IsWindowRule
<1>5. QED BY <1>2, <1>3, <1>4

\* All the matches of a rule, group by group, before they are capped.
AllMatches(rule, groups) == FlattenSeq([g \in DOMAIN groups |-> Matches(rule, groups[g])])

LEMMA GroupsSolve ==
    ASSUME NEW ds, IsLog(ds), \A e \in ToSet(ds) : e.computer \in Nat, NEW rule, IsOrderRule(rule)
    PROVE  Solves(rule, ToSet(ds), AllMatches(rule, Groups(ds, rule.scope)))
<1> DEFINE D == ToSet(ds)
           parts == Groups(ds, rule.scope)
           ss == [g \in DOMAIN parts |-> Matches(rule, parts[g])]
<1>1. IsRule(rule) /\ AllMatches(rule, Groups(ds, rule.scope)) = FlattenSeq(ss)
  BY DEF IsOrderRule, AllMatches
<1>2. ss = [g \in DOMAIN parts |-> ss[g]] /\ \A g \in DOMAIN parts : ss[g] = Matches(rule, parts[g])
  OBVIOUS
<1>3. CASE rule.scope # "global"
  <2> DEFINE label == [e \in D |-> e.computer]
  <2>1. IsParted(label, parts) /\ DOMAIN label = D
    BY <1>3, GroupsAreParted
  <2>2. \A e, f \in D : label[e] # label[f] => ~Alike(rule, e, f)
    BY <1>3 DEF Alike
  <2>3. \A e, f \in D : label[e] = label[f] => e.computer = f.computer
    OBVIOUS
  <2> HIDE DEF label, parts, D, ss
  <2>4. ASSUME NEW i \in DOMAIN parts PROVE Solves(rule, ToSet(parts[i]), ss[i])
    <3>1. i \in 1 .. Len(parts) /\ IsLog(parts[i]) /\ ToSet(parts[i]) \subseteq D
      BY <2>1 DEF IsParted
    <3>2. \A e, f \in ToSet(parts[i]) : e.computer = f.computer
      BY <2>1, <2>3, <3>1 DEF IsParted
    <3>3. QED BY <1>2, <3>1, <3>2, MatchesSolve
  <2>5. \A m : GoodChain(rule, D, m) => \A s \in 1 .. Len(rule.seq) : m[s] \in DOMAIN label
    BY <2>1 DEF GoodChain
  <2>6. Solves(rule, D, FlattenSeq(ss))
    BY <1>1, <1>2, <2>1, <2>2, <2>4, <2>5, PartsSolve
  <2>7. QED BY <1>1, <2>6 DEF D
<1>4. CASE rule.scope = "global"
  <2> DEFINE k == IF ds = <<>> THEN 0 ELSE 1
             C == [p \in 1 .. k |-> D]
  <2>1. Len(parts) = k /\ DOMAIN parts = 1 .. k /\ \A p \in 1 .. k : parts[p] = ds
    <3>1. parts = IF ds = <<>> THEN <<>> ELSE <<ds>>
      BY <1>4 DEF Groups, PartsBy
    <3> HIDE DEF parts
    <3>2. CASE ds = <<>>
      BY <3>1, <3>2
    <3>3. CASE ds # <<>>
      <4>1. parts = <<ds>> /\ k = 1
        BY <3>1, <3>3
      <4>2. Len(<<ds>>) = 1 /\ DOMAIN <<ds>> = 1 .. 1 /\ <<ds>>[1] = ds
        OBVIOUS
      <4> HIDE DEF k
      <4>3. QED BY <4>1, <4>2
    <3>4. QED BY <3>2, <3>3
  <2>2. k \in {0, 1}
    OBVIOUS
  <2>3. UNION {C[p] : p \in 1 .. k} = D
    <3>1. CASE ds = <<>>
      <4>1. D = {} /\ k = 0
        BY <3>1 DEF ToSet
      <4>2. QED BY <4>1
    <3>2. CASE ds # <<>>
      BY <3>2
    <3>3. QED BY <3>1, <3>2
  <2>4. \A p \in 1 .. k : C[p] = D
    OBVIOUS
  <2> HIDE DEF k, C, parts, ss, D
  <2>5. \A p \in 1 .. k : Solves(rule, C[p], ss[p])
    <3>1. Solves(rule, D, Matches(rule, ds))
      BY <1>4, MatchesSolve DEF D
    <3>2. QED BY <1>2, <2>1, <2>4, <3>1
  <2>6. \A p, q \in 1 .. k : p # q => \A e \in C[p], f \in C[q] : ~Alike(rule, e, f)
    BY <2>2
  <2>7. ss = [p \in 1 .. k |-> ss[p]] /\ k \in Nat
    BY <1>2, <2>1, <2>2
  <2>8. Solves(rule, UNION {C[p] : p \in 1 .. k}, FlattenSeq(ss))
    BY <1>1, <2>5, <2>6, <2>7, FlattenSolves, SMTT(30)
  <2>9. QED BY <1>1, <2>3, <2>8 DEF D
<1>5. QED BY <1>3, <1>4

\* Whatever the events, a rule that joins events in an order - a sequence, one of a shared field,
\* or two or three different steps within a window - keeps only what it asks for, each match once
\* and in order of time, and all it found, kept or counted, is as much as any choice of matches
\* that do not overlap could hold. (autograph: one sweep over each bucket, no backtracking.)
THEOREM EveryMatchIsMaximal ==
    ASSUME NEW events, IsLog(Prepare(events)), \A e \in ToSet(Prepare(events)) : e.computer \in Nat,
           NEW rule, IsOrderRule(rule)
    PROVE  LET result == Generate(rule, events)
           IN /\ \A m \in ToSet(result.matches) : IsMatch(rule, ToSet(m)) /\ Chain(ToSet(m)) = m
              /\ IsLargestPacking(rule, ToSet(Prepare(events)), Len(result.matches) + result.dropped)
<1> DEFINE ds == Prepare(events)
           D == ToSet(ds)
           all == AllMatches(rule, Groups(ds, rule.scope))
           kept == Min({Len(all), MaxMatches})
           matches == SubSeq(all, 1, kept)
<1>1. AreEvents(D) /\ IsRule(rule) /\ Solves(rule, D, all)
  BY GroupsSolve DEF IsLog, IsOrderRule
<1>2. Generate(rule, events) = [matches |-> matches, dropped |-> Len(all) - kept]
  BY DEF Generate, AllMatches
<1> HIDE DEF all, D
<1>3. all \in Seq([1 .. Len(rule.seq) -> D]) /\ Len(all) \in Nat
  BY <1>1 DEF Solves
<1>4. kept \in 0 .. Len(all)
  <2> DEFINE n == Len(all)
  <2>1. (\A a, b \in Nat : Min({a, b}) = IF a <= b THEN a ELSE b)
    BY DEF Min
  <2> HIDE DEF n
  <2>2. n \in Nat
    BY <1>3 DEF n
  <2>3. Min({n, MaxMatches}) \in 0 .. n
    BY <2>1, <2>2, MaxMatchesAssumption
  <2>4. QED BY <2>3 DEF n
<1> HIDE DEF kept
<1>5. matches = [i \in 1 .. kept |-> all[i]] /\ Len(matches) = kept
  BY <1>3, <1>4
<1>6. ASSUME NEW m \in ToSet(matches) PROVE IsMatch(rule, ToSet(m)) /\ Chain(ToSet(m)) = m
  <2>1. PICK i \in 1 .. kept : m = all[i]
    BY <1>5 DEF ToSet
  <2>2. i \in 1 .. Len(all)
    BY <1>4
  <2>3. GoodChain(rule, D, m)
    BY <1>1, <2>1, <2>2 DEF Solves
  <2>4. QED BY <1>1, <2>3, GoodIsCandidate
<1>7. Len(matches) + (Len(all) - kept) = Len(all)
  BY <1>3, <1>4, <1>5
<1>8. IsLargestPacking(rule, D, Len(all))
  BY <1>1, SolvedIsPacked, SolvedLeavesNone DEF IsLargestPacking
<1> HIDE DEF matches
<1>9. Generate(rule, events).matches = matches /\ Generate(rule, events).dropped = Len(all) - kept
  BY <1>2
<1>10. QED BY <1>6, <1>7, <1>8, <1>9 DEF D

-----------------------------------------------------------------------------
(* Queries. Every total the views of a case show is the size of a set, taken   *)
(* apart by slices of time and by lanes.                                       *)

\* The union of some of the parts.
Pooled(X, s) == UNION {X[i] : i \in s}
ArePieces(X, D) ==
    /\ IsFiniteSet(D) /\ DOMAIN X = D /\ \A i \in D : IsFiniteSet(X[i])
    /\ \A i, j \in D : i # j => X[i] \cap X[j] = {}

LEMMA InPooled == ASSUME NEW X, NEW s PROVE \A p : p \in Pooled(X, s) <=> \E i \in s : p \in X[i]
BY DEF Pooled

LEMMA PooledAdds ==
    ASSUME NEW X, NEW D, ArePieces(X, D), NEW s \in SUBSET D, NEW x \in s
    PROVE  Cardinality(Pooled(X, s)) = Cardinality(X[x]) + Cardinality(Pooled(X, s \ {x}))
<1> DEFINE t == s \ {x}
           A == X[x]
           B == Pooled(X, t)
<1>1. Pooled(X, s) = A \cup B
  BY DEF Pooled
<1>2. A \cap B = {}
  BY DEF ArePieces, Pooled
<1>3. IsFiniteSet(A)
  BY DEF ArePieces
<1>4. IsFiniteSet(B)
  <2>1. IsFiniteSet(t)
    BY FS_Subset DEF ArePieces
  <2>2. IsFiniteSet({X[i] : i \in t})
    <3>1. t \subseteq DOMAIN X
      BY DEF ArePieces
    <3> HIDE DEF t
    <3>2. QED BY <2>1, <3>1, ImageIsFinite
  <2>3. \A Y \in {X[i] : i \in t} : IsFiniteSet(Y)
    BY DEF ArePieces
  <2>4. QED BY <2>2, <2>3, FS_UNION DEF Pooled
<1> HIDE DEF A, B
<1>5. Cardinality(A \cup B) = Cardinality(A) + Cardinality(B) - Cardinality(A \cap B)
  BY <1>3, <1>4, FS_Union
<1>6. Cardinality(A) \in Nat /\ Cardinality(B) \in Nat /\ Cardinality({}) = 0
  BY <1>3, <1>4, FS_CardinalityType, FS_EmptySet
<1>7. Cardinality(A \cup B) = Cardinality(A) + Cardinality(B)
  <2> DEFINE a == Cardinality(A)
             b == Cardinality(B)
             c == Cardinality(A \cap B)
  <2>1. c = 0
    BY <1>2, <1>6
  <2>2. Cardinality(A \cup B) = a + b - c /\ a \in Nat /\ b \in Nat
    BY <1>5, <1>6
  <2> HIDE DEF a, b, c
  <2>3. Cardinality(A \cup B) = a + b
    BY <2>1, <2>2
  <2>4. QED BY <2>3 DEF a, b
<1>8. QED BY <1>1, <1>7 DEF A, B

\* The values of a function are added in an order nobody says.
Adds(f, g) ==
    g = [s \in SUBSET DOMAIN f |->
            IF s = {} THEN 0 ELSE f[CHOOSE x \in s : TRUE] + g[s \ {CHOOSE x \in s : TRUE}]]

LEMMA TotalIs == ASSUME NEW f PROVE Total(f) = (CHOOSE g : Adds(f, g))[DOMAIN f]
BY DEF Total, SumFunction, SumFunctionOnSet, FoldFunctionOnSet, MapThenFoldSet, Adds

Measures(f, X, D) == DOMAIN f = D /\ \A i \in D : f[i] = Cardinality(X[i])

LEMMA SumOfParts ==
    ASSUME NEW X, NEW D, ArePieces(X, D), NEW f, Measures(f, X, D)
    PROVE  Total(f) = Cardinality(Pooled(X, D)) /\ Total(f) \in Nat
<1> DEFINE first(s) == CHOOSE x \in s : TRUE
           size == [s \in SUBSET D |-> Cardinality(Pooled(X, s))]
           g == CHOOSE h : Adds(f, h)
<1>1. (\A s \in SUBSET D : s # {} => first(s) \in s) /\ DOMAIN f = D /\ \A i \in D : f[i] = Cardinality(X[i])
  BY DEF Measures
<1>2. Cardinality(Pooled(X, {})) = 0
  BY FS_EmptySet DEF Pooled
<1> HIDE DEF first
<1>3. Adds(f, size)
  <2> DEFINE e == [s \in SUBSET D |-> IF s = {} THEN 0 ELSE f[first(s)] + size[s \ {first(s)}]]
  <2>1. ASSUME NEW s \in SUBSET D PROVE size[s] = e[s]
    <3>1. CASE s = {}
      BY <1>2, <3>1
    <3>2. CASE s # {}
      <4>1. first(s) \in s /\ first(s) \in D /\ s \ {first(s)} \in SUBSET D
        BY <1>1, <3>2
      <4>2. Cardinality(Pooled(X, s)) = Cardinality(X[first(s)]) + Cardinality(Pooled(X, s \ {first(s)}))
        BY <4>1, PooledAdds
      <4>3. QED BY <1>1, <3>2, <4>1, <4>2
    <3>3. QED BY <3>1, <3>2
  <2>2. size = e
    BY <2>1
  <2> HIDE DEF size
  <2>3. QED BY <1>1, <2>2 DEF Adds, first
<1>4. Adds(f, g)
  <2> HIDE DEF size
  <2>1. QED BY <1>3
<1> HIDE DEF g
<1>5. \A s \in SUBSET D : g[s] = IF s = {} THEN 0 ELSE f[first(s)] + g[s \ {first(s)}]
  BY <1>1, <1>4 DEF Adds, first
<1> DEFINE n == Cardinality(D)
           Fine == {k \in 0 .. n : \A s \in SUBSET D : Cardinality(s) = k => g[s] = Cardinality(Pooled(X, s))}
<1>6. n \in Nat /\ \A s \in SUBSET D : IsFiniteSet(s) /\ Cardinality(s) \in Nat
  BY FS_Subset, FS_CardinalityType DEF ArePieces
<1>7. 0 \in Fine
  <2>1. \A s \in SUBSET D : Cardinality(s) = 0 => s = {}
    BY <1>6, FS_EmptySet
  <2>2. {} \in SUBSET D
    OBVIOUS
  <2>3. g[{}] = 0
    BY <1>5, <2>2
  <2>4. \A s \in SUBSET D : Cardinality(s) = 0 => g[s] = Cardinality(Pooled(X, s))
    BY <1>2, <2>1, <2>3
  <2>5. QED BY <1>6, <2>4
<1>8. ASSUME NEW k \in 1 .. n, k - 1 \in Fine PROVE k \in Fine
  <2>1. ASSUME NEW s \in SUBSET D, Cardinality(s) = k PROVE g[s] = Cardinality(Pooled(X, s))
    <3>1. s # {}
      BY <2>1, FS_EmptySet
    <3> DEFINE x == first(s)
               t == s \ {x}
    <3>2. x \in s /\ x \in D /\ t \in SUBSET D
      BY <1>1, <3>1
    <3>3. Cardinality(t) = k - 1
      BY <1>6, <2>1, <3>2, FS_RemoveElement
    <3> HIDE DEF x
    <3>4. g[t] = Cardinality(Pooled(X, t))
      BY <1>8, <3>2, <3>3
    <3>5. Cardinality(Pooled(X, s)) = Cardinality(X[x]) + Cardinality(Pooled(X, t))
      BY <3>2, PooledAdds
    <3>6. g[s] = f[x] + g[t]
      BY <1>5, <3>1 DEF x
    <3>7. QED BY <1>1, <3>2, <3>4, <3>5, <3>6
  <2>2. QED BY <1>6, <2>1
<1>9. \A k \in 0 .. n : k \in Fine
  <2> HIDE DEF Fine
  <2>1. QED BY <1>6, <1>7, <1>8, UpTo
<1>10. g[D] = Cardinality(Pooled(X, D))
  <2>1. n \in 0 .. n /\ D \in SUBSET D
    BY <1>6
  <2>2. QED BY <1>9, <2>1
<1>11. IsFiniteSet(Pooled(X, D))
  <2>1. IsFiniteSet({X[i] : i \in D})
    BY ImageIsFinite DEF ArePieces
  <2>2. \A Y \in {X[i] : i \in D} : IsFiniteSet(Y)
    BY DEF ArePieces
  <2>3. QED BY <2>1, <2>2, FS_UNION DEF Pooled
<1>12. Total(f) = g[D]
  BY <1>1, TotalIs DEF g
<1>13. QED BY <1>10, <1>11, <1>12, FS_CardinalityType

LEMMA SameSize ==
    ASSUME NEW S, IsFiniteSet(S), NEW f, DOMAIN f = S, \A x, y \in S : f[x] = f[y] => x = y
    PROVE  IsFiniteSet({f[x] : x \in S}) /\ Cardinality({f[x] : x \in S}) = Cardinality(S)
<1> DEFINE T == {f[x] : x \in S}
           g == [x \in S |-> f[x]]
<1>1. g \in Surjection(S, T) /\ g \in Injection(S, T)
  <2>1. g \in [S -> T]
    OBVIOUS
  <2>2. \A t \in T : \E x \in S : g[x] = t
    OBVIOUS
  <2>3. \A x, y \in S : g[x] = g[y] => x = y
    OBVIOUS
  <2> HIDE DEF g, T
  <2>4. QED BY <2>1, <2>2, <2>3 DEF Surjection, Injection, IsInjective
<1> HIDE DEF g, T
<1>2. IsFiniteSet(T) /\ Cardinality(T) = Cardinality(S)
  BY <1>1, FS_Surjection
<1>3. QED BY <1>2 DEF T

\* Things that all lie in one of the slices.
Spread(s, events) ==
    /\ IsFiniteSet(events) /\ s.count \in Nat \ {0}
    /\ \A x \in events : SliceOf(s, x.at) \in 0 .. s.count - 1

LEMMA SlicesCover ==
    ASSUME NEW from \in Int, NEW to \in Int, NEW count \in Nat \ {0}
    PROVE  /\ Slices(from, to, count).count \in Nat \ {0}
           /\ \A t \in Int : t >= from => SliceOf(Slices(from, to, count), t) \in 0 .. Slices(from, to, count).count - 1
<1> DEFINE s == Slices(from, to, count)
           width == (to - from) \div count
<1>1. s.from = from /\ s.width = width /\ s.count = IF to <= from \/ width = 0 THEN 1 ELSE count
  BY DEF Slices
<1>2. s.count \in Nat \ {0}
  BY <1>1
<1>3. ASSUME NEW t \in Int, t >= from PROVE SliceOf(s, t) \in 0 .. s.count - 1
  <2>1. CASE s.count = 1
    BY <2>1 DEF SliceOf
  <2>2. CASE s.count # 1
    <3>1. to > from /\ width # 0
      BY <1>1, <2>2
    <3>2. width \in Nat \ {0}
      <4>1. to - from \in Nat
        BY <3>1
      <4>2. \A a \in Nat : a \div count \in Nat
        OBVIOUS
      <4>3. QED BY <3>1, <4>1, <4>2
    <3> HIDE DEF width, s
    <3> DEFINE i == (t - from) \div width
    <3>3. i \in Nat
      <4>1. t - from \in Nat
        BY <1>3
      <4>2. \A a \in Nat : a \div width \in Nat
        BY <3>2
      <4>3. QED BY <4>1, <4>2
    <3>4. SliceOf(s, t) = IF i < 0 THEN -1 ELSE Min({i, s.count - 1})
      BY <1>1, <1>3, <2>2 DEF SliceOf
    <3> HIDE DEF i
    <3>5. \A a, b \in Nat : Min({a, b}) \in 0 .. b
      <4>1. \A a, b \in Nat : Min({a, b}) = IF a <= b THEN a ELSE b
        BY DEF Min
      <4>2. QED BY <4>1
    <3>6. s.count - 1 \in Nat
      BY <1>2
    <3>7. QED BY <3>3, <3>4, <3>5, <3>6
  <2>3. QED BY <2>1, <2>2
<1>4. QED BY <1>2, <1>3

\* What is cut into slices adds up to what was cut.
CutUp(f, s, events) ==
    /\ DOMAIN f = 0 .. s.count - 1
    /\ \A i \in 0 .. s.count - 1 : f[i] = Cardinality({x \in events : SliceOf(s, x.at) = i})

LEMMA SlicesAdd ==
    ASSUME NEW s, NEW events, Spread(s, events), NEW f, CutUp(f, s, events)
    PROVE  Total(f) = Cardinality(events) /\ Total(f) \in Nat
<1> DEFINE D == 0 .. s.count - 1
           X == [i \in D |-> {x \in events : SliceOf(s, x.at) = i}]
<1>1. IsFiniteSet(D)
  BY FS_Interval DEF Spread
<1>2. DOMAIN X = D /\ \A i \in D : IsFiniteSet(X[i]) /\ X[i] = {x \in events : SliceOf(s, x.at) = i}
  BY FS_Subset DEF Spread
<1>3. \A i, j \in D : i # j => X[i] \cap X[j] = {}
  OBVIOUS
<1>4. \A x \in events : SliceOf(s, x.at) \in D
  BY DEF Spread
<1>5. Measures(f, X, D)
  BY DEF CutUp, Measures
<1> HIDE DEF X, D
<1>6. Pooled(X, D) = events
  BY <1>2, <1>4 DEF Pooled
<1>7. ArePieces(X, D)
  BY <1>1, <1>2, <1>3 DEF ArePieces
<1>8. QED BY <1>5, <1>6, <1>7, SumOfParts

LEMMA HistogramAdds ==
    ASSUME NEW s, NEW events, Spread(s, events)
    PROVE  Total(Histogram(s, events)) = Cardinality(events)
<1> DEFINE f == Histogram(s, events)
<1>1. CutUp(f, s, events)
  BY DEF Histogram, CutUp
<1> HIDE DEF f
<1>2. Total(f) = Cardinality(events)
  BY <1>1, SlicesAdd
<1>3. QED BY <1>2 DEF f

LEMMA LaneAdds ==
    ASSUME NEW s, NEW events, Spread(s, events), NEW l
    PROVE  /\ Total(Counts(s, events, l)) = Cardinality({x \in events : l \in x.lanes})
           /\ Total(Counts(s, events, l)) \in Nat
<1> DEFINE f == Counts(s, events, l)
           E == {x \in events : l \in x.lanes}
<1>1. DOMAIN f = 0 .. s.count - 1 /\ \A i \in 0 .. s.count - 1 : f[i] = Cardinality({x \in events : SliceOf(s, x.at) = i /\ l \in x.lanes})
  BY DEF Counts
<1>2. \A i \in 0 .. s.count - 1 : {x \in events : SliceOf(s, x.at) = i /\ l \in x.lanes} = {x \in E : SliceOf(s, x.at) = i}
  OBVIOUS
<1>3. Spread(s, E)
  <2>1. IsFiniteSet(E)
    BY FS_Subset DEF Spread
  <2>2. QED BY <2>1 DEF Spread
<1> HIDE DEF f, E
<1>4. CutUp(f, s, E)
  BY <1>1, <1>2 DEF CutUp
<1>5. Total(f) = Cardinality(E) /\ Total(f) \in Nat
  BY <1>3, <1>4, SlicesAdd
<1>6. QED BY <1>5 DEF f, E

\* Each thing with each of its lanes.
AreLaned(events) == IsFiniteSet(events) /\ \A x \in events : IsFiniteSet(x.lanes) /\ x.lanes \subseteq Int
LanesOf(events) == UNION {x.lanes : x \in events}
InLanes(events) == {p \in LanesOf(events) \X events : p[1] \in p[2].lanes}

LEMMA LanedIsFinite ==
    ASSUME NEW events, AreLaned(events)
    PROVE  IsFiniteSet(LanesOf(events)) /\ LanesOf(events) \subseteq Int /\ IsFiniteSet(InLanes(events))
<1> DEFINE f == [x \in events |-> x.lanes]
           L == LanesOf(events)
<1>1. {x.lanes : x \in events} = {f[x] : x \in events} /\ DOMAIN f = events
  OBVIOUS
<1>2. IsFiniteSet({f[x] : x \in events})
  <2> HIDE DEF f
  <2>1. QED BY <1>1, ImageIsFinite DEF AreLaned
<1>3. \A Y \in {x.lanes : x \in events} : IsFiniteSet(Y) /\ Y \subseteq Int
  BY DEF AreLaned
<1> HIDE DEF f
<1>4. IsFiniteSet(L) /\ L \subseteq Int
  BY <1>1, <1>2, <1>3, FS_UNION DEF LanesOf
<1>5. IsFiniteSet(L \X events)
  BY <1>4, FS_Product DEF AreLaned
<1>6. IsFiniteSet(InLanes(events))
  BY <1>5, FS_Subset DEF InLanes
<1>7. QED BY <1>4, <1>6

OfLane(B, l) == {x \in B : l \in x.lanes}
OnlyLane(events, B, l) == {p \in InLanes(events) : p[1] = l /\ p[2] \in B}

LEMMA PairsOf ==
    ASSUME NEW events, AreLaned(events), NEW B, B \subseteq events, NEW l
    PROVE  Cardinality(OnlyLane(events, B, l)) = Cardinality(OfLane(B, l))
<1> DEFINE E == {x \in B : l \in x.lanes}
           f == [x \in E |-> <<l, x>>]
<1>1. {p \in InLanes(events) : p[1] = l /\ p[2] \in B} = {f[x] : x \in E}
  <2>1. ASSUME NEW p \in InLanes(events), p[1] = l, p[2] \in B PROVE p \in {f[x] : x \in E}
    <3>1. p = <<l, p[2]>> /\ p[2] \in E
      BY <2>1 DEF InLanes
    <3>2. QED BY <3>1
  <2>2. ASSUME NEW x \in E PROVE f[x] \in InLanes(events) /\ f[x][1] = l /\ f[x][2] \in B
    BY DEF InLanes, LanesOf
  <2> HIDE DEF f, E
  <2>3. QED BY <2>1, <2>2
<1>2. IsFiniteSet(E)
  BY FS_Subset DEF AreLaned
<1>3. DOMAIN f = E /\ \A x, y \in E : f[x] = f[y] => x = y
  OBVIOUS
<1> HIDE DEF f, E
<1>4. Cardinality({f[x] : x \in E}) = Cardinality(E)
  BY <1>2, <1>3, SameSize
<1>5. QED BY <1>1, <1>4 DEF E, OfLane, OnlyLane

\* The busiest lane first.
InBusyOrder(s, events, L, seq) ==
    seq = [i \in 1 .. Cardinality(L) |->
               CHOOSE x \in L : Cardinality({y \in L : BusierLane(s, events, y, x)}) = i - 1]

LEMMA BusyOrderLists ==
    ASSUME NEW s, NEW events, Spread(s, events), NEW L, IsFiniteSet(L), L \subseteq Int,
           NEW seq, InBusyOrder(s, events, L, seq)
    PROVE  Lists(seq, L)
<1> DEFINE R == {p \in L \X L : BusierLane(s, events, p[1], p[2])}
           n == Cardinality(L)
           t(l) == Total(Counts(s, events, l))
<1>1. \A l \in L : t(l) \in Nat
  BY LaneAdds
<1>2. \A l, m \in L : BusierLane(s, events, l, m) <=> t(l) > t(m) \/ (t(l) = t(m) /\ l < m)
  BY DEF BusierLane
<1> HIDE DEF t
<1>3. \A l, m \in L : <<l, m>> \in R <=> t(l) > t(m) \/ (t(l) = t(m) /\ l < m)
  BY <1>2
<1>4. \A x \in L : Below(L, R, x) = {y \in L : BusierLane(s, events, y, x)}
  BY DEF Below
<1> HIDE DEF R
<1>5. StrictOrder(L, R)
  <2>1. \A x \in L : <<x, x>> \notin R
    BY <1>1, <1>3
  <2>2. \A x, y \in L : x # y => <<x, y>> \in R \/ <<y, x>> \in R
    BY <1>1, <1>3
  <2>3. \A x, y, z \in L : <<x, y>> \in R /\ <<y, z>> \in R => <<x, z>> \in R
    BY <1>1, <1>3
  <2>4. QED BY <2>1, <2>2, <2>3 DEF StrictOrder
<1>6. ASSUME NEW i \in 1 .. n PROVE seq[i] \in L /\ Cardinality(Below(L, R, seq[i])) = i - 1
  <2>1. \E x \in L : Cardinality(Below(L, R, x)) = i - 1
    BY <1>5, PlacesAreTaken
  <2>2. \E x \in L : Cardinality({y \in L : BusierLane(s, events, y, x)}) = i - 1
    BY <1>4, <2>1
  <2>3. seq[i] = CHOOSE x \in L : Cardinality({y \in L : BusierLane(s, events, y, x)}) = i - 1
    BY DEF InBusyOrder
  <2>4. seq[i] \in L /\ Cardinality({y \in L : BusierLane(s, events, y, seq[i])}) = i - 1
    BY <2>2, <2>3
  <2>5. QED BY <1>4, <2>4
<1>7. DOMAIN seq = 1 .. n /\ seq = [i \in 1 .. n |-> seq[i]]
  <2> DEFINE at(i) == CHOOSE x \in L : Cardinality({y \in L : BusierLane(s, events, y, x)}) = i - 1
  <2>1. seq = [i \in 1 .. n |-> at(i)]
    BY DEF InBusyOrder
  <2> HIDE DEF at
  <2>2. QED BY <2>1
<1>8. QED BY <1>5, <1>6, <1>7, PlacedIsListed

LEMMA LaneOrderLists ==
    ASSUME NEW s, NEW events, Spread(s, events), AreLaned(events)
    PROVE  Lists(LaneOrder(s, events), LanesOf(events))
<1> DEFINE seq == LaneOrder(s, events)
           L == LanesOf(events)
           M == UNION {x.lanes : x \in {y \in events : SliceOf(s, y.at) >= 0}}
<1>1. M = L
  <2>1. {y \in events : SliceOf(s, y.at) >= 0} = events
    BY DEF Spread
  <2>2. QED BY <2>1 DEF LanesOf
<1>2. InBusyOrder(s, events, L, seq)
  <2>1. InBusyOrder(s, events, M, seq)
    BY DEF LaneOrder, Ordered, InBusyOrder
  <2> HIDE DEF M, seq, L
  <2>2. QED BY <1>1, <2>1
<1> HIDE DEF seq, L
<1>3. IsFiniteSet(L) /\ L \subseteq Int
  BY LanedIsFinite DEF L
<1>4. Lists(seq, L)
  BY <1>2, <1>3, BusyOrderLists
<1>5. QED BY <1>4 DEF seq, L

\* The lanes that are folded into one, slice by slice.
FoldedCounts(s, events, seq) ==
    [i \in 0 .. s.count - 1 |-> Total([j \in DOMAIN seq |-> Counts(s, events, seq[j])[i]])]
OfFolded(events, seq) == {p \in InLanes(events) : \E j \in DOMAIN seq : p[1] = seq[j]}

LEMMA FoldedAdds ==
    ASSUME NEW s, NEW events, Spread(s, events), AreLaned(events),
           NEW seq \in Seq(LanesOf(events)), \A i, j \in DOMAIN seq : seq[i] = seq[j] => i = j
    PROVE  Total(FoldedCounts(s, events, seq)) = Cardinality(OfFolded(events, seq))
<1> DEFINE P == {p \in InLanes(events) : \E j \in DOMAIN seq : p[1] = seq[j]}
           f == FoldedCounts(s, events, seq)
           D == 0 .. s.count - 1
           X == [i \in D |-> {p \in P : SliceOf(s, p[2].at) = i}]
           B(i) == {x \in events : SliceOf(s, x.at) = i}
           Y(i) == [j \in DOMAIN seq |-> {p \in InLanes(events) : p[1] = seq[j] /\ p[2] \in B(i)}]
           g(i) == [j \in DOMAIN seq |-> Counts(s, events, seq[j])[i]]
<1>1. IsFiniteSet(InLanes(events)) /\ IsFiniteSet(D) /\ IsFiniteSet(DOMAIN seq)
  BY LanedIsFinite, FS_Interval, SMTT(30) DEF Spread
<1>2. \A p \in InLanes(events) : p[2] \in events /\ SliceOf(s, p[2].at) \in D
  BY DEF InLanes, Spread
<1>3. ASSUME NEW i \in D PROVE f[i] = Cardinality(X[i])
  <2>1. ASSUME NEW j \in DOMAIN seq PROVE g(i)[j] = Cardinality(Y(i)[j])
    <3>1. Counts(s, events, seq[j])[i] = Cardinality({x \in events : SliceOf(s, x.at) = i /\ seq[j] \in x.lanes})
      BY DEF Counts
    <3>2. {x \in events : SliceOf(s, x.at) = i /\ seq[j] \in x.lanes} = {x \in B(i) : seq[j] \in x.lanes}
      OBVIOUS
    <3>3. B(i) \subseteq events
      OBVIOUS
    <3> HIDE DEF B
    <3>4. Cardinality(OnlyLane(events, B(i), seq[j])) = Cardinality(OfLane(B(i), seq[j]))
      BY <3>3, PairsOf
    <3>5. g(i)[j] = Counts(s, events, seq[j])[i] /\ Y(i)[j] = {p \in InLanes(events) : p[1] = seq[j] /\ p[2] \in B(i)}
      OBVIOUS
    <3> HIDE DEF g, Y
    <3>6. QED BY <3>1, <3>2, <3>4, <3>5 DEF OfLane, OnlyLane
  <2>2. Measures(g(i), Y(i), DOMAIN seq)
    <3>1. DOMAIN g(i) = DOMAIN seq
      OBVIOUS
    <3> HIDE DEF g, Y
    <3>2. QED BY <2>1, <3>1 DEF Measures
  <2>3. ArePieces(Y(i), DOMAIN seq)
    <3>1. \A j \in DOMAIN seq : IsFiniteSet(Y(i)[j])
      BY <1>1, FS_Subset
    <3>2. \A j, m \in DOMAIN seq : j # m => Y(i)[j] \cap Y(i)[m] = {}
      OBVIOUS
    <3>3. DOMAIN Y(i) = DOMAIN seq
      OBVIOUS
    <3> HIDE DEF Y
    <3>4. QED BY <1>1, <3>1, <3>2, <3>3 DEF ArePieces
  <2>4. Pooled(Y(i), DOMAIN seq) = X[i]
    <3>1. X[i] = {p \in InLanes(events) : \E j \in DOMAIN seq : p[1] = seq[j] /\ p[2] \in B(i)}
      BY <1>2
    <3>2. \A p : p \in Pooled(Y(i), DOMAIN seq) <=> \E j \in DOMAIN seq : p \in Y(i)[j]
      BY InPooled
    <3>3. \A j \in DOMAIN seq : Y(i)[j] = {p \in InLanes(events) : p[1] = seq[j] /\ p[2] \in B(i)}
      OBVIOUS
    <3> HIDE DEF X, Y, B
    <3>4. \A p : p \in X[i] <=> p \in Pooled(Y(i), DOMAIN seq)
      BY <3>1, <3>2, <3>3
    <3>5. QED BY <3>4
  <2>5. f[i] = Total(g(i))
    BY DEF FoldedCounts
  <2> HIDE DEF g, Y, X
  <2>6. QED BY <2>2, <2>3, <2>4, <2>5, SumOfParts
<1>4. Measures(f, X, D)
  <2>1. DOMAIN f = D
    BY DEF FoldedCounts
  <2> HIDE DEF X, f
  <2>2. QED BY <1>3, <2>1 DEF Measures
<1>5. ArePieces(X, D)
  <2>1. \A i \in D : IsFiniteSet(X[i])
    BY <1>1, FS_Subset
  <2>2. \A i, j \in D : i # j => X[i] \cap X[j] = {}
    OBVIOUS
  <2>3. DOMAIN X = D
    OBVIOUS
  <2> HIDE DEF X, D
  <2>4. QED BY <1>1, <2>1, <2>2, <2>3 DEF ArePieces
<1>6. Pooled(X, D) = P
  <2>1. \A p : p \in Pooled(X, D) <=> \E i \in D : p \in X[i]
    BY ZenonT(60) DEF Pooled
  <2>2. \A p \in P : SliceOf(s, p[2].at) \in D
    BY <1>2
  <2>3. QED BY <2>1, <2>2
<1> HIDE DEF X, D, P, f
<1>7. Total(f) = Cardinality(P)
  BY <1>4, <1>5, <1>6, SumOfParts
<1>8. QED BY <1>7 DEF P, f, OfFolded

\* Capped or not, the lanes hold each thing once for each lane it is in.
LEMMA LanesAddUp ==
    ASSUME NEW s, NEW events, Spread(s, events), AreLaned(events)
    PROVE  LaneTotals(BuildLanes(s, events)) = Cardinality(InLanes(events))
<1> DEFINE order == LaneOrder(s, events)
           lanes == BuildLanes(s, events)
           n == Len(order)
           k == Min({n, MaxLanes})
           folded == SubSeq(order, MaxLanes + 1, n)
           L == LanesOf(events)
           D == DOMAIN lanes
           Rest == {p \in InLanes(events) : \E j \in DOMAIN folded : p[1] = folded[j]}
           X == [i \in D |-> IF i <= k THEN {p \in InLanes(events) : p[1] = order[i]} ELSE Rest]
           f == [l \in D |-> Total(lanes[l].counts)]
           rest == [i \in 0 .. s.count - 1 |-> Total([j \in DOMAIN folded |-> Counts(s, events, folded[j])[i]])]
           shown == [i \in 1 .. k |-> [key |-> order[i], counts |-> Counts(s, events, order[i])]]
           other == [key |-> LaneOther, counts |-> rest]
<1>1. Lists(order, L) /\ IsFiniteSet(InLanes(events))
  BY LaneOrderLists, LanedIsFinite
<1>2. lanes = shown \o (IF folded = <<>> THEN <<>> ELSE <<other>>)
  BY DEF BuildLanes
<1> HIDE DEF order, lanes, rest
<1>3. order \in Seq(L) /\ n \in Nat /\ \A i \in 1 .. n : order[i] \in L
  BY <1>1 DEF Lists
<1>4. MaxLanes \in Nat /\ k \in Nat /\ k <= n /\ k <= MaxLanes /\ (k = n \/ k = MaxLanes)
  <2>1. \A a, b \in Nat : Min({a, b}) = IF a <= b THEN a ELSE b
    BY DEF Min
  <2>2. QED BY <1>3, <2>1, MaxLanesAssumption
<1> HIDE DEF k
<1>5. folded \in Seq(L) /\ Len(folded) = (IF MaxLanes < n THEN n - MaxLanes ELSE 0)
      /\ \A j \in 1 .. Len(folded) : folded[j] = order[MaxLanes + j]
  BY <1>3, <1>4
<1> HIDE DEF folded
<1>6. (folded = <<>>) <=> (n <= MaxLanes)
  BY <1>3, <1>4, <1>5
<1>7. D = 1 .. (IF n <= MaxLanes THEN k ELSE k + 1)
      /\ (\A i \in 1 .. k : lanes[i] = [key |-> order[i], counts |-> Counts(s, events, order[i])])
      /\ (n > MaxLanes => lanes[k + 1] = [key |-> LaneOther, counts |-> rest])
  <2>1. CASE n <= MaxLanes
    <3>1. lanes = shown \o <<>>
      BY <1>2, <1>6, <2>1
    <3>2. lanes = shown
      BY <1>4, <3>1
    <3>3. QED BY <1>3, <1>4, <2>1, <3>2
  <2>2. CASE n > MaxLanes
    <3>1. lanes = shown \o <<other>>
      BY <1>2, <1>3, <1>4, <1>6, <2>2
    <3>2. Len(shown) = k /\ Len(<<other>>) = 1 /\ <<other>>[1] = other
      BY <1>4
    <3>3. Len(lanes) = k + 1 /\ D = 1 .. k + 1 /\ lanes[k + 1] = other /\ \A i \in 1 .. k : lanes[i] = shown[i]
      BY <1>4, <3>1, <3>2
    <3>4. QED BY <1>3, <1>4, <2>2, <3>3
  <2>3. QED BY <1>3, <1>4, <2>1, <2>2
<1> HIDE DEF D
<1>8. \A p \in InLanes(events) : p[1] \in L /\ p[2] \in events /\ p[1] \in p[2].lanes
  BY DEF InLanes
<1>9. ASSUME NEW l \in D PROVE f[l] = Cardinality(X[l])
  <2>1. CASE l <= k
    <3>1. l \in 1 .. k /\ lanes[l].counts = Counts(s, events, order[l])
      <4>1. l \in 1 .. k
        BY <1>3, <1>4, <1>7, <2>1
      <4>2. lanes[l] = [key |-> order[l], counts |-> Counts(s, events, order[l])]
        BY <1>7, <4>1
      <4>3. QED BY <4>1, <4>2
    <3>2. Total(Counts(s, events, order[l])) = Cardinality({x \in events : order[l] \in x.lanes})
      BY LaneAdds
    <3>3. Cardinality(OnlyLane(events, events, order[l])) = Cardinality(OfLane(events, order[l]))
      BY PairsOf
    <3>4. {p \in InLanes(events) : p[1] = order[l] /\ p[2] \in events} = {p \in InLanes(events) : p[1] = order[l]}
      BY <1>8
    <3>5. X[l] = {p \in InLanes(events) : p[1] = order[l]} /\ f[l] = Total(lanes[l].counts)
      BY <2>1
    <3> HIDE DEF X, f
    <3>6. QED BY <3>1, <3>2, <3>3, <3>4, <3>5 DEF OfLane, OnlyLane
  <2>2. CASE l > k
    <3>1. n > MaxLanes /\ l = k + 1
      BY <1>3, <1>4, <1>7, <2>2
    <3>2. lanes[l].counts = rest
      BY <1>7, <3>1
    <3>3. \A i, j \in DOMAIN folded : folded[i] = folded[j] => i = j
      BY <1>1, <1>3, <1>4, <1>5, <3>1, SMTT(30) DEF Lists
    <3>4. folded \in Seq(LanesOf(events))
      BY <1>5
    <3>5. Total(rest) = Cardinality(Rest)
      BY <3>3, <3>4, FoldedAdds DEF rest, Rest, FoldedCounts, OfFolded
    <3>6. X[l] = Rest
      BY <1>4, <1>7, <2>2
    <3>7. f[l] = Total(lanes[l].counts)
      OBVIOUS
    <3> HIDE DEF X, f, Rest
    <3>8. QED BY <3>2, <3>5, <3>6, <3>7
  <2>3. l \in Nat
    BY <1>4, <1>7
  <2>4. QED BY <1>4, <2>1, <2>2, <2>3
<1>10. Measures(f, X, D)
  <2>1. DOMAIN f = D
    OBVIOUS
  <2> HIDE DEF f, X
  <2>2. QED BY <1>9, <2>1 DEF Measures
<1>11. /\ \A i \in D, p \in InLanes(events) : i <= k => (p \in X[i] <=> p[1] = order[i])
       /\ \A i \in D, p \in InLanes(events) : ~(i <= k) => (p \in X[i] <=> \E j \in 1 .. n - MaxLanes : p[1] = order[MaxLanes + j])
  <2>1. ASSUME NEW i \in D, NEW p \in InLanes(events), ~(i <= k)
        PROVE  p \in X[i] <=> \E j \in 1 .. n - MaxLanes : p[1] = order[MaxLanes + j]
    <3>1. n > MaxLanes
      BY <1>3, <1>4, <1>7, <2>1
    <3>2. Len(folded) = n - MaxLanes /\ DOMAIN folded = 1 .. n - MaxLanes /\ \A j \in 1 .. n - MaxLanes : folded[j] = order[MaxLanes + j]
      BY <1>3, <1>4, <1>5, <3>1
    <3>3. X[i] = Rest
      BY <1>4, <1>7, <2>1
    <3>4. p \in X[i] <=> \E j \in DOMAIN folded : p[1] = folded[j]
      BY <3>3
    <3> HIDE DEF X, Rest
    <3>5. QED BY <3>2, <3>4
  <2>2. ASSUME NEW i \in D, NEW p \in InLanes(events), i <= k PROVE p \in X[i] <=> p[1] = order[i]
    BY <2>2
  <2> HIDE DEF X
  <2>3. QED BY <2>1, <2>2
<1>12. ArePieces(X, D)
  <2>1. \A i \in D : X[i] \subseteq InLanes(events)
    OBVIOUS
  <2>2. \A i \in D : IsFiniteSet(X[i])
    <3> HIDE DEF X
    <3>1. QED BY <1>1, <2>1, FS_Subset
  <2>3. DOMAIN X = D
    OBVIOUS
  <2> HIDE DEF X
  <2>4. IsFiniteSet(D)
    <3> DEFINE m == IF n <= MaxLanes THEN k ELSE k + 1
    <3>1. m \in Nat
      BY <1>4
    <3>2. D = 1 .. m
      BY <1>7
    <3> HIDE DEF m
    <3>3. QED BY <3>1, <3>2, FS_Interval
  <2>5. \A i, j \in D : i < j => X[i] \cap X[j] = {}
    <3>1. SUFFICES ASSUME NEW i \in D, NEW j \in D, i < j, NEW p \in InLanes(events), p \in X[i], p \in X[j] PROVE FALSE
      BY <2>1
    <3>2. i \in 1 .. k /\ p[1] = order[i]
      BY <1>3, <1>4, <1>7, <1>11, <3>1
    <3>3. \E m \in 1 .. n : m # i /\ p[1] = order[m]
      <4>1. CASE j <= k
        BY <1>4, <1>7, <1>11, <3>1, <3>2, <4>1
      <4>2. CASE j > k
        <5>1. PICK m \in 1 .. n - MaxLanes : p[1] = order[MaxLanes + m]
          <6>1. ~(j <= k) /\ j \in D
            BY <1>4, <1>7, <3>1, <4>2
          <6>2. QED BY <1>11, <3>1, <6>1
        <5>2. QED BY <1>3, <1>4, <3>2, <5>1
      <4>3. QED BY <1>4, <1>7, <4>1, <4>2
    <3>4. i \in 1 .. n /\ \A a, b \in 1 .. n : order[a] = order[b] => a = b
      BY <1>1, <1>3, <1>4, <3>2 DEF Lists
    <3>5. QED BY <3>2, <3>3, <3>4
  <2>6. \A i, j \in D : i # j => X[i] \cap X[j] = {}
    BY <1>4, <1>7, <2>5
  <2>7. QED BY <2>2, <2>3, <2>4, <2>6 DEF ArePieces
<1>13. Pooled(X, D) = InLanes(events)
  <2>1. \A i \in D : X[i] \subseteq InLanes(events)
    OBVIOUS
  <2> HIDE DEF X
  <2>2. ASSUME NEW p \in InLanes(events) PROVE \E i \in D : p \in X[i]
    <3>1. PICK m \in 1 .. n : order[m] = p[1]
      BY <1>1, <1>8 DEF Lists
    <3>2. CASE m <= k
      BY <1>4, <1>7, <1>11, <3>1, <3>2
    <3>3. CASE m > k
      <4>1. k + 1 \in D /\ n > MaxLanes /\ k = MaxLanes
        BY <1>3, <1>4, <1>7, <3>1, <3>3
      <4>2. m - MaxLanes \in 1 .. n - MaxLanes /\ order[MaxLanes + (m - MaxLanes)] = p[1]
        BY <1>3, <1>4, <3>1, <3>3, <4>1
      <4> DEFINE j == m - MaxLanes
      <4> HIDE DEF j
      <4>3. j \in 1 .. n - MaxLanes /\ p[1] = order[MaxLanes + j]
        BY <4>2 DEF j
      <4>4. p \in X[k + 1]
        <5>1. ~(k + 1 <= k)
          BY <1>4
        <5>2. \E a \in 1 .. n - MaxLanes : p[1] = order[MaxLanes + a]
          BY <4>3
        <5> HIDE DEF X
        <5>3. QED BY <1>11, <4>1, <5>1, <5>2
      <4>5. QED BY <4>1, <4>4
    <3>4. QED BY <1>4, <3>1, <3>2, <3>3
  <2>3. QED BY <2>1, <2>2 DEF Pooled
<1> HIDE DEF f, X
<1>14. Total(f) = Cardinality(InLanes(events))
  BY <1>10, <1>12, <1>13, SumOfParts
<1>15. LaneTotals(lanes) = Total(f)
  BY DEF LaneTotals, f, D
<1>16. QED BY <1>14, <1>15 DEF lanes

LEMMA EveryThingIsLaned ==
    ASSUME NEW events, AreLaned(events), \A x \in events : x.lanes # {}
    PROVE  /\ Cardinality(InLanes(events)) >= Cardinality(events)
           /\ (\A x \in events : \E l : x.lanes = {l}) => Cardinality(InLanes(events)) = Cardinality(events)
<1> DEFINE P == InLanes(events)
           f == [p \in P |-> p[2]]
<1>1. IsFiniteSet(P)
  BY LanedIsFinite
<1>2. \A p \in P : p \in LanesOf(events) \X events /\ p[2] \in events /\ p[1] \in p[2].lanes
  BY DEF InLanes
<1>3. \A x \in events : \E p \in P : p[2] = x
  <2>1. ASSUME NEW x \in events PROVE \E p \in P : p[2] = x
    <3>1. PICK l : l \in x.lanes
      OBVIOUS
    <3>2. <<l, x>> \in P
      BY <3>1 DEF InLanes, LanesOf
    <3>3. QED BY <3>2
  <2>2. QED BY <2>1
<1> HIDE DEF P
<1>4. f \in [P -> events] /\ DOMAIN f = P /\ \A p \in P : f[p] = p[2]
  BY <1>2
<1> HIDE DEF f
<1>5. f \in Surjection(P, events)
  BY <1>3, <1>4 DEF Surjection
<1>6. IsFiniteSet(events) /\ Cardinality(events) <= Cardinality(P) /\ (Cardinality(events) = Cardinality(P) <=> f \in Injection(P, events))
  BY <1>1, <1>5, FS_Surjection
<1>7. Cardinality(events) \in Nat /\ Cardinality(P) \in Nat
  BY <1>1, <1>6, FS_CardinalityType
<1>8. ASSUME \A x \in events : \E l : x.lanes = {l} PROVE f \in Injection(P, events)
  <2>1. ASSUME NEW p \in P, NEW r \in P, p[2] = r[2] PROVE p = r
    <3>1. p[1] = r[1]
      BY <1>2, <1>8, <2>1
    <3>2. p = <<p[1], p[2]>> /\ r = <<r[1], r[2]>>
      BY <1>2
    <3>3. QED BY <2>1, <3>1, <3>2
  <2>2. QED BY <1>4, <2>1 DEF Injection, IsInjective
<1>9. QED BY <1>6, <1>7, <1>8 DEF P

LEMMA NothingAddsUp == ASSUME NEW f, DOMAIN f = {} PROVE Total(f) = 0
<1> DEFINE X == f
<1>1. ArePieces(f, {}) /\ Measures(f, f, {})
  BY FS_EmptySet DEF ArePieces, Measures
<1>2. Pooled(f, {}) = {}
  BY DEF Pooled
<1>3. QED BY <1>1, <1>2, SumOfParts, FS_EmptySet, ZenonT(30)

LEMMA NoLanesAddUp == LaneTotals(<<>>) = 0
<1> DEFINE f == [l \in DOMAIN <<>> |-> Total(<<>>[l].counts)]
<1>1. DOMAIN f = {}
  OBVIOUS
<1> HIDE DEF f
<1>2. Total(f) = 0
  BY <1>1, NothingAddsUp
<1>3. QED BY <1>2 DEF f, LaneTotals

\* A case as it is stored, whatever the relations point at, and a query of it.
IsCase(events, rels) ==
    /\ IsFiniteSet(events) /\ \A e, f \in events : e.id = f.id => e = f
    /\ \A e \in events : e.at \in Nat /\ e.computer \in Nat
    /\ IsFiniteSet(rels) /\ \A r, t \in rels : r.id = t.id => r = t
    /\ \A r \in rels : r.graph \in Nat /\ r.rule \in Nat
QueryFields == {"event", "source", "least", "relation", "undated", "from", "to", "state", "tag", "descending"}
IsQuery(q) ==
    /\ DOMAIN q = QueryFields /\ q.from \in Int /\ q.to \in Int
    /\ q.undated = "include" => q.state = "" /\ q.tag = {}

\* The count is the length of the list, and two pages of the list are the list.
ListAgrees(events, rels, recs, q, page) ==
    LET list == OrderedIDs(events, rels, recs, q)
    IN /\ CountEvents(events, rels, recs, q) = Len(list)
       /\ Len(list) = Cardinality(MatchingRows(events, rels, recs, q))
       /\ WindowIDs(list, 0, page) \o WindowIDs(list, page, 0) = list

LEMMA ListsAgree ==
    ASSUME NEW events, NEW rels, IsCase(events, rels), NEW recs, NEW q, IsQuery(q), NEW page \in Nat \ {0}
    PROVE  ListAgrees(events, rels, recs, q, page)
<1> DEFINE M == MatchingRows(events, rels, recs, q)
           rows == Ordered(M, LAMBDA e, f : RowBefore(q.descending, e, f))
           list == OrderedIDs(events, rels, recs, q)
           n == Cardinality(M)
           ids == {rows[i].id : i \in 1 .. n}
<1>1. M \subseteq events
  BY DEF MatchingRows
<1>2. n \in Nat
  BY <1>1, FS_Subset, FS_CardinalityType DEF IsCase
<1>3. DOMAIN rows = 1 .. n
  BY DEF Ordered
<1>4. list = [i \in DOMAIN rows |-> rows[i].id]
  BY DEF OrderedIDs
<1> HIDE DEF rows, list, n
<1>5. list \in Seq(ids) /\ Len(list) = n
  BY <1>2, <1>3, <1>4
<1>6. WindowIDs(list, 0, page) \o WindowIDs(list, page, 0) = list
  <2>1. \A a, b \in Nat : Min({a, b}) = IF a <= b THEN a ELSE b
    BY DEF Min
  <2> DEFINE m == Min({page, n})
  <2>2. m \in 0 .. n /\ m <= page /\ (m = n \/ m = page)
    BY <1>2, <2>1
  <2> HIDE DEF m
  <2>3. WindowIDs(list, 0, page) = SubSeq(list, 1, m) /\ WindowIDs(list, page, 0) = SubSeq(list, page + 1, n)
    <3>1. 0 + page = page /\ 0 + 1 = 1 /\ page > 0 /\ ~(0 > 0)
      OBVIOUS
    <3>2. m = Min({0 + page, Len(list)})
      BY <1>5, <3>1 DEF m
    <3>3. QED BY <1>5, <3>1, <3>2 DEF WindowIDs
  <2>4. SubSeq(list, page + 1, n) = SubSeq(list, m + 1, n)
    BY <1>2, <1>5, <2>2
  <2>5. SubSeq(list, 1, m) \o SubSeq(list, m + 1, n) = list
    BY <1>2, <1>5, <2>2
  <2>6. QED BY <2>3, <2>4, <2>5
<1>7. CASE ~FastPath(q)
  BY <1>5, <1>6, <1>7 DEF CountEvents, ListAgrees, list, n
<1>8. CASE FastPath(q)
  <2>1. q.source = "" /\ q.least = 0 /\ q.relation = "" /\ q.undated = "include" /\ q.state = "" /\ q.tag = {}
    BY <1>8 DEF FastPath, IsQuery
  <2>2. \A e \in events : MatchesHash(recs, q, e) /\ MatchesUndated(q, e)
    BY <2>1 DEF MatchesHash, MatchesUndated, HashesIn, HashesOut
  <2>3. M = {e \in events : Indexed(q, e)}
    <3>1. \A e \in events : e \in M <=> Indexed(q, e)
      <4>1. ~(q.least > 0) /\ q.relation \notin {"any", "system", "user"} /\ q.source = ""
        <5>1. ~(0 > 0) /\ "" \notin {"any", "system", "user"}
          OBVIOUS
        <5>2. ~(q.least > 0)
          BY <2>1, <5>1
        <5>3. q.relation \notin {"any", "system", "user"}
          BY <2>1, <5>1
        <5>4. QED BY <2>1, <5>2, <5>3
      <4>2. QED BY <2>2, <4>1 DEF MatchingRows
    <3> HIDE DEF M
    <3>2. QED BY <1>1, <3>1
  <2>4. CountEvents(events, rels, recs, q) = Cardinality({e \in events : Indexed(q, e)})
    BY <1>8 DEF CountEvents
  <2> HIDE DEF M
  <2>5. CountEvents(events, rels, recs, q) = n
    BY <2>3, <2>4 DEF n
  <2>6. QED BY <1>5, <1>6, <2>5 DEF ListAgrees, list, n, M
<1>9. QED BY <1>7, <1>8

LEMMA CutInTwo ==
    ASSUME NEW S, IsFiniteSet(S), NEW T, T \subseteq S
    PROVE  Cardinality(T) + Cardinality(S \ T) = Cardinality(S)
<1> DEFINE U == S \ T
<1>1. IsFiniteSet(T) /\ IsFiniteSet(U)
  BY FS_Subset
<1>2. T \cup U = S /\ T \cap U = {}
  OBVIOUS
<1> HIDE DEF U
<1>3. Cardinality(T \cup U) = Cardinality(T) + Cardinality(U) - Cardinality(T \cap U)
  BY <1>1, FS_Union
<1>4. Cardinality(T) \in Nat /\ Cardinality(U) \in Nat
  BY <1>1, FS_CardinalityType
<1>5. Cardinality(S) = Cardinality(T) + Cardinality(U) - 0
  BY <1>2, <1>3, FS_EmptySet
<1>6. QED BY <1>4, <1>5 DEF U

LEMMA DrawnAdds ==
    ASSUME NEW from \in Int, NEW to \in Int, NEW count \in Nat \ {0}, NEW events, IsFiniteSet(events),
           \A x \in events : x.at \in Int /\ x.at >= from
    PROVE  LET s == Slices(from, to, count)
           IN Spread(s, events) /\ Total(Histogram(s, events)) = Cardinality(events)
<1> DEFINE s == Slices(from, to, count)
<1>1. s.count \in Nat \ {0} /\ \A t \in Int : t >= from => SliceOf(s, t) \in 0 .. s.count - 1
  BY SlicesCover
<1> HIDE DEF s
<1>2. Spread(s, events)
  BY <1>1 DEF Spread
<1>3. Total(Histogram(s, events)) = Cardinality(events)
  BY <1>2, HistogramAdds
<1>4. QED BY <1>2, <1>3 DEF s

LEMMA LanesAreFinite ==
    ASSUME NEW events, NEW rels, IsCase(events, rels), NEW group, NEW e \in events
    PROVE  /\ LaneKey(rels, group, e) # {} /\ LaneKey(rels, group, e) \subseteq Int /\ IsFiniteSet(LaneKey(rels, group, e))
           /\ group # "graph" => \E l : LaneKey(rels, group, e) = {l}
<1> DEFINE R == {x \in rels : e.id \in {x.from, x.to}}
           g == [r \in R |-> r.graph]
           graphs == {g[r] : r \in R} \ {0}
<1>1. {r.graph : r \in R} = {g[r] : r \in R} /\ DOMAIN g = R
  OBVIOUS
<1>2. IsFiniteSet(R)
  BY FS_Subset DEF IsCase
<1>3. \A x \in {g[r] : r \in R} : x \in Int
  <2>1. \A r \in R : g[r] \in Int
    BY DEF IsCase
  <2> HIDE DEF g, R
  <2>2. QED BY <2>1
<1>4. IsFiniteSet(graphs)
  <2>1. IsFiniteSet({g[r] : r \in R})
    <3> HIDE DEF R, g
    <3>1. QED BY <1>1, <1>2, ImageIsFinite
  <2>2. QED BY <2>1, FS_Subset
<1>5. e.computer \in Int /\ LaneNone \in Int
  BY DEF IsCase, LaneNone
<1>6. LaneKey(rels, group, e) = IF group # "graph" THEN {IF group = "computer" THEN e.computer ELSE LaneNone}
                                ELSE IF graphs = {} THEN {LaneNone} ELSE graphs
  BY <1>1 DEF LaneKey
<1>7. IsFiniteSet({e.computer}) /\ IsFiniteSet({LaneNone})
  BY FS_Singleton
<1> HIDE DEF graphs
<1>8. graphs \subseteq Int
  BY <1>3 DEF graphs
<1>9. CASE group # "graph"
  <2>1. CASE group = "computer"
    BY <1>5, <1>6, <1>7, <2>1
  <2>2. CASE group # "computer"
    BY <1>5, <1>6, <1>7, <1>9, <2>2
  <2>3. QED BY <2>1, <2>2
<1>10. CASE group = "graph"
  BY <1>4, <1>5, <1>6, <1>7, <1>8, <1>10
<1>11. QED BY <1>9, <1>10

\* What a timeline says of the events of a query.
TimelineAgrees(events, rels, recs, q, count, group) ==
    LET line == TimelineGrouped(events, rels, recs, q, count, group)
        all  == MatchingRows(events, rels, recs, [q EXCEPT !.undated = "include"])
    IN /\ line.dated + line.undated = Cardinality(all)
       /\ q.undated = "exclude" => line.dated = Cardinality(MatchingRows(events, rels, recs, q))
       /\ Total(line.counts) = line.dated
       /\ group \notin {"", "graph"} => LaneTotals(line.lanes) = line.dated
       /\ group = "graph" => LaneTotals(line.lanes) >= line.dated

LEMMA TimelineRows ==
    ASSUME NEW events, NEW rels, NEW recs, NEW q, IsQuery(q)
    PROVE  LET all == MatchingRows(events, rels, recs, [q EXCEPT !.undated = "include"])
           IN /\ all \subseteq events /\ \A e \in all : q.from # Unbounded => e.at >= q.from
              /\ q.undated = "exclude" => MatchingRows(events, rels, recs, q) = {e \in all : e.at # NoTime}
<1> DEFINE w == [q EXCEPT !.undated = "include"]
<1>1. /\ w.event = q.event /\ w.from = q.from /\ w.to = q.to /\ w.relation = q.relation /\ w.source = q.source
      /\ w.least = q.least /\ w.state = q.state /\ w.tag = q.tag /\ w.undated = "include"
  BY DEF IsQuery, QueryFields
<1> HIDE DEF w
<1>2. \A e \in events : Indexed(w, e) <=> Indexed(q, e)
  BY <1>1 DEF Indexed
<1>3. Related(rels, w) = Related(rels, q)
  BY <1>1 DEF Related
<1>4. HashesIn(recs, w) = HashesIn(recs, q) /\ HashesOut(recs, w) = HashesOut(recs, q)
  BY <1>1 DEF HashesIn, HashesOut
<1>5. \A e \in events : MatchesHash(recs, w, e) <=> MatchesHash(recs, q, e)
  BY <1>4 DEF MatchesHash
<1>6. \A e \in events : MatchesUndated(w, e)
  BY <1>1 DEF MatchesUndated
<1>7. q.undated = "exclude" => \A e \in events : MatchesUndated(q, e) <=> e.at # NoTime
  BY DEF MatchesUndated
<1>8. MatchingRows(events, rels, recs, w) \subseteq events /\ MatchingRows(events, rels, recs, q) \subseteq events
  BY DEF MatchingRows
<1>9. \A e \in MatchingRows(events, rels, recs, w) : q.from # Unbounded => e.at >= q.from
  BY <1>1 DEF MatchingRows, Indexed
<1>10. ASSUME q.undated = "exclude", NEW e \in events
       PROVE  e \in MatchingRows(events, rels, recs, q) <=> e \in MatchingRows(events, rels, recs, w) /\ e.at # NoTime
  BY <1>1, <1>2, <1>3, <1>5, <1>6, <1>7, <1>10 DEF MatchingRows
<1>11. q.undated = "exclude" => MatchingRows(events, rels, recs, q) = {e \in MatchingRows(events, rels, recs, w) : e.at # NoTime}
  BY <1>8, <1>10
<1>12. QED BY <1>8, <1>9, <1>11 DEF w

LEMMA TimelinesAgree ==
    ASSUME NEW events, NEW rels, IsCase(events, rels), NEW recs, NEW q, IsQuery(q),
           NEW count \in Nat \ {0}, NEW group
    PROVE  TimelineAgrees(events, rels, recs, q, count, group)
<1> DEFINE all == MatchingRows(events, rels, recs, [q EXCEPT !.undated = "include"])
           dated == {e \in all : e.at # NoTime}
           line == TimelineGrouped(events, rels, recs, q, count, group)
           first == Min({e.at : e \in dated})
           last == Max({e.at : e \in dated})
           from == IF q.from # Unbounded THEN Max({q.from, first}) ELSE first
           to == IF q.to # Unbounded THEN Min({q.to, last}) ELSE last
           s == Slices(from, to, count)
           things0 == {[id |-> e.id, at |-> e.at, lanes |-> LaneKey(rels, group, e)] : e \in dated}
<1>1. all \subseteq events /\ (\A e \in all : q.from # Unbounded => e.at >= q.from)
      /\ (q.undated = "exclude" => MatchingRows(events, rels, recs, q) = dated)
  BY TimelineRows, ZenonT(30)
<1>2. line = IF dated = {} THEN NoTimeline(Cardinality(all))
             ELSE [dated |-> Cardinality(dated), undated |-> Cardinality(all \ dated),
                   counts |-> Histogram(s, dated), lanes |-> IF group = "" THEN <<>> ELSE BuildLanes(s, things0)]
  BY DEF TimelineGrouped
<1> HIDE DEF line, all
<1>3. dated \subseteq all /\ \A e \in dated : e \in events /\ e.at \in Nat
  BY <1>1 DEF IsCase
<1>4. IsFiniteSet(all) /\ IsFiniteSet(dated) /\ Cardinality(dated) \in Nat
      /\ Cardinality(dated) + Cardinality(all \ dated) = Cardinality(all)
  <2> HIDE DEF dated
  <2>1. IsFiniteSet(all)
    BY <1>1, FS_Subset DEF IsCase
  <2>2. IsFiniteSet(dated) /\ IsFiniteSet(all \ dated)
    BY <1>3, <2>1, FS_Subset
  <2>3. Cardinality(dated) \in Nat /\ Cardinality(all \ dated) \in Nat
    BY <2>2, FS_CardinalityType
  <2>4. QED BY <1>3, <2>1, <2>2, <2>3, CutInTwo
<1> HIDE DEF dated
<1>5. CASE dated = {}
  <2>1. line.dated = 0 /\ line.undated = Cardinality(all) /\ line.counts = <<>> /\ line.lanes = <<>>
    BY <1>2, <1>5 DEF NoTimeline
  <2>2. Total(<<>>) = 0
    BY NothingAddsUp
  <2>3. LaneTotals(<<>>) = 0
    BY NoLanesAddUp
  <2>4. Cardinality(dated) = 0 /\ Cardinality(all) \in Nat
    BY <1>4, <1>5, FS_EmptySet, FS_CardinalityType
  <2>5. line.dated + line.undated = Cardinality(all) /\ Total(line.counts) = line.dated
        /\ LaneTotals(line.lanes) = line.dated
    BY <2>1, <2>2, <2>3, <2>4
  <2>6. q.undated = "exclude" => line.dated = Cardinality(MatchingRows(events, rels, recs, q))
    BY <1>1, <2>1, <2>4
  <2>7. LaneTotals(line.lanes) >= line.dated
    BY <2>1, <2>3
  <2>8. QED BY <2>5, <2>6, <2>7 DEF TimelineAgrees, line, all
<1>6. CASE dated # {}
  <2>1. first \in Nat /\ last \in Nat /\ \A e \in dated : first <= e.at
    <3> DEFINE S == {e.at : e \in dated}
               f == [e \in dated |-> e.at]
    <3>1. S = {f[e] : e \in dated} /\ DOMAIN f = dated
      OBVIOUS
    <3>2. IsFiniteSet({f[e] : e \in dated})
      <4> HIDE DEF f
      <4>1. QED BY <1>4, <3>1, ImageIsFinite
    <3>3. S \in SUBSET Nat /\ S # {} /\ \A e \in dated : e.at \in S
      BY <1>3, <1>6
    <3> HIDE DEF S, f
    <3>4. Min(S) \in S /\ \A k \in S : Min(S) <= k
      BY <3>3, MinIsLeast
    <3>5. Max(S) \in S
      BY <3>1, <3>2, <3>3, MaxIsGreatest
    <3>6. QED BY <3>3, <3>4, <3>5 DEF S
  <2> HIDE DEF first, last
  <2>2. from \in Int /\ to \in Int /\ \A e \in dated : e.at >= from
    <3>1. \A a, b \in Int : Min({a, b}) = (IF a <= b THEN a ELSE b) /\ Max({a, b}) = IF a >= b THEN a ELSE b
      <4>1. \A a, b \in Int : Min({a, b}) = IF a <= b THEN a ELSE b
        BY DEF Min
      <4>2. \A a, b \in Int : Max({a, b}) = IF a >= b THEN a ELSE b
        BY DEF Max
      <4>3. QED BY <4>1, <4>2
    <3>2. q.from \in Int /\ q.to \in Int
      BY DEF IsQuery
    <3>3. from = first \/ (q.from # Unbounded /\ (from = first \/ from = q.from))
      BY <2>1, <3>1, <3>2
    <3>4. to \in Int
      BY <2>1, <3>1, <3>2
    <3> HIDE DEF from, to
    <3>5. from \in Int
      BY <2>1, <3>2, <3>3
    <3>6. \A e \in dated : e.at >= from
      BY <1>1, <1>3, <2>1, <3>2, <3>3
    <3>7. QED BY <3>4, <3>5, <3>6
  <2> HIDE DEF from, to
  <2>3. Total(Histogram(s, dated)) = Cardinality(dated)
    BY <1>3, <1>4, <2>2, DrawnAdds
  <2> DEFINE f == [e \in dated |-> [id |-> e.id, at |-> e.at, lanes |-> LaneKey(rels, group, e)]]
  <2>4. things0 = {f[e] : e \in dated} /\ DOMAIN f = dated
    OBVIOUS
  <2>5. \A e \in dated : f[e].id = e.id /\ f[e].at = e.at /\ f[e].lanes = LaneKey(rels, group, e)
    OBVIOUS
  <2> HIDE DEF f, things0
  <2>6. IsFiniteSet(things0) /\ Cardinality(things0) = Cardinality(dated)
    <3>1. \A d, e \in dated : f[d] = f[e] => d = e
      BY <1>3, <2>5 DEF IsCase
    <3>2. QED BY <1>4, <2>4, <3>1, SameSize
  <2>7. \A x \in things0 : \E e \in dated : x.at = e.at /\ x.lanes = LaneKey(rels, group, e)
    BY <2>4, <2>5
  <2>8. Spread(s, things0)
    <3>1. \A x \in things0 : x.at \in Int /\ x.at >= from
      BY <1>3, <2>2, <2>7
    <3>2. QED BY <2>2, <2>6, <3>1, DrawnAdds
  <2>9. AreLaned(things0) /\ (\A x \in things0 : x.lanes # {}) /\ (group # "graph" => \A x \in things0 : \E l : x.lanes = {l})
    <3>1. ASSUME NEW x \in things0
          PROVE  x.lanes # {} /\ x.lanes \subseteq Int /\ IsFiniteSet(x.lanes) /\ (group # "graph" => \E l : x.lanes = {l})
      <4>1. PICK e \in dated : x.lanes = LaneKey(rels, group, e)
        BY <2>7
      <4>2. e \in events
        BY <1>3
      <4>3. QED BY <4>1, <4>2, LanesAreFinite
    <3>2. QED BY <2>6, <3>1 DEF AreLaned
  <2> HIDE DEF s
  <2>10. LaneTotals(BuildLanes(s, things0)) = Cardinality(InLanes(things0))
    BY <2>8, <2>9, LanesAddUp
  <2>11. Cardinality(InLanes(things0)) >= Cardinality(dated) /\ (group # "graph" => Cardinality(InLanes(things0)) = Cardinality(dated))
    BY <2>6, <2>9, EveryThingIsLaned
  <2>12. line.dated = Cardinality(dated) /\ line.undated = Cardinality(all \ dated) /\ line.counts = Histogram(s, dated)
         /\ (group # "" => line.lanes = BuildLanes(s, things0))
    BY <1>2, <1>6
  <2>13. line.dated + line.undated = Cardinality(all) /\ Total(line.counts) = line.dated
    BY <1>4, <2>3, <2>12 DEF s
  <2>14. q.undated = "exclude" => line.dated = Cardinality(MatchingRows(events, rels, recs, q))
    BY <1>1, <2>12
  <2>15. group \notin {"", "graph"} => LaneTotals(line.lanes) = line.dated
    BY <2>10, <2>11, <2>12
  <2>16. group = "graph" => LaneTotals(line.lanes) >= line.dated
    BY <2>10, <2>11, <2>12
  <2>17. QED BY <2>13, <2>14, <2>15, <2>16 DEF TimelineAgrees, line, all
<1>7. QED BY <1>5, <1>6

\* What the relations over time account for.
HeatmapAgrees(events, rels, graph, from, to, count, group) ==
    LET heat == RelationHeatmap(events, rels, graph, from, to, count, group)
    IN /\ heat.placed + heat.outside + heat.undated = heat.total
       /\ LaneTotals(heat.lanes) = heat.placed /\ Total(heat.counts) = heat.placed

EndTimes(events, id) == {e.at : e \in {x \in events : x.id = id}} \ {NoTime}

LEMMA EndTimesAre ==
    ASSUME NEW events, NEW rels, IsCase(events, rels), NEW id
    PROVE  /\ IsFiniteSet(EndTimes(events, id)) /\ EndTimes(events, id) \subseteq Nat \ {0}
           /\ \A t \in EndTimes(events, id) : \E e \in events : e.id = id /\ e.at = t
           /\ \A e \in events : e.id = id /\ e.at # 0 => e.at \in EndTimes(events, id)
<1> DEFINE E == {x \in events : x.id = id}
           f == [e \in E |-> e.at]
<1>1. {e.at : e \in E} = {f[e] : e \in E} /\ DOMAIN f = E
  OBVIOUS
<1>2. IsFiniteSet(E)
  BY FS_Subset DEF IsCase
<1>3. IsFiniteSet({f[e] : e \in E})
  <2> HIDE DEF f, E
  <2>1. QED BY <1>1, <1>2, ImageIsFinite
<1>4. IsFiniteSet(EndTimes(events, id))
  <2> HIDE DEF f
  <2>1. QED BY <1>1, <1>3, FS_Subset DEF EndTimes
<1>5. EndTimes(events, id) \subseteq Nat \ {0} /\ \A t \in EndTimes(events, id) : \E e \in events : e.id = id /\ e.at = t
  BY DEF EndTimes, IsCase, NoTime
<1>6. \A e \in events : e.id = id /\ e.at # 0 => e.at \in EndTimes(events, id)
  BY DEF EndTimes, NoTime
<1>7. QED BY <1>4, <1>5, <1>6

LEMMA RelationsHaveTimes ==
    ASSUME NEW events, NEW rels, IsCase(events, rels), NEW r \in rels
    PROVE  RelationTime(events, r) \in Nat /\ (RelationTime(events, r) # NoTime => Anchor(events, r).computer \in Nat)
<1> DEFINE A == EndTimes(events, r.from)
           B == EndTimes(events, r.to)
           t == RelationTime(events, r)
<1>1. t = IF A = {} \/ B = {} THEN NoTime ELSE Max(A \cup B)
  BY DEF RelationTime, EndTimes
<1>2. /\ IsFiniteSet(A) /\ A \subseteq Nat \ {0} /\ \A x \in A : \E e \in events : e.id = r.from /\ e.at = x
      /\ \A e \in events : e.id = r.from /\ e.at # 0 => e.at \in A
  BY EndTimesAre
<1>3. IsFiniteSet(B) /\ B \subseteq Nat \ {0} /\ \A x \in B : \E e \in events : e.id = r.to /\ e.at = x
  BY EndTimesAre
<1> DEFINE Stands(e) == e.at = t /\ (e.id = r.from \/ (e.id = r.to /\ \A f \in events : f.id = r.from => f.at < e.at))
<1>4. Anchor(events, r) = CHOOSE e \in events : Stands(e)
  BY DEF Anchor
<1> HIDE DEF A, B, t
<1>5. ASSUME A # {}, B # {} PROVE t \in A \cup B /\ t \in Nat \ {0} /\ \A x \in A \cup B : x <= t
  <2> DEFINE S == A \cup B
  <2>1. IsFiniteSet(S)
    BY <1>2, <1>3, FS_Union
  <2>2. S \in SUBSET Nat /\ S # {} /\ t = Max(S)
    BY <1>1, <1>2, <1>3, <1>5
  <2> HIDE DEF S
  <2>3. t \in S /\ \A x \in S : x <= t
    BY <2>1, <2>2, MaxIsGreatest
  <2>4. QED BY <1>2, <1>3, <2>3 DEF S
<1>6. t \in Nat
  BY <1>1, <1>5 DEF NoTime
<1>7. ASSUME t # NoTime PROVE \E e \in events : Stands(e)
  <2>1. A # {} /\ B # {}
    BY <1>1, <1>7
  <2>2. CASE t \in A
    BY <1>2, <2>2
  <2>3. CASE t \notin A
    <3>1. t \in B
      BY <1>5, <2>1, <2>3
    <3>2. PICK e \in events : e.id = r.to /\ e.at = t
      BY <1>3, <3>1
    <3>3. ASSUME NEW f \in events, f.id = r.from PROVE f.at < t
      <4>1. f.at \in Nat
        BY DEF IsCase
      <4>2. CASE f.at = 0
        BY <1>5, <2>1, <4>2
      <4>3. CASE f.at # 0
        <5>1. f.at \in A /\ f.at # t
          BY <1>2, <2>3, <3>3, <4>3
        <5>2. f.at <= t /\ t \in Nat
          BY <1>5, <2>1, <5>1
        <5>3. QED BY <4>1, <5>1, <5>2
      <4>4. QED BY <4>2, <4>3
    <3>4. QED BY <3>2, <3>3
  <2>4. QED BY <2>2, <2>3
<1> HIDE DEF Stands
<1>8. t # NoTime => Anchor(events, r) \in events
  BY <1>4, <1>7
<1>9. QED BY <1>6, <1>8 DEF t, IsCase

LEMMA HeatmapsAgree ==
    ASSUME NEW events, NEW rels, IsCase(events, rels), NEW graph, NEW from \in Int, NEW to \in Int,
           NEW count \in Nat \ {0}, NEW group
    PROVE  HeatmapAgrees(events, rels, graph, from, to, count, group)
<1> DEFINE of == {r \in rels : graph = 0 \/ r.graph = graph}
           time(r) == RelationTime(events, r)
           timed == {r \in of : time(r) # NoTime}
           outside == {r \in timed : (from # Unbounded /\ time(r) < from) \/ (to # Unbounded /\ time(r) > to)}
           inside == timed \ outside
           lane(r) == HeatmapKey(events, group, r)
           placed == {[id |-> r.id, at |-> time(r), lanes |-> {lane(r)}] : r \in inside}
           a == IF from # Unbounded THEN from ELSE Min({x.at : x \in placed})
           b == IF to # Unbounded THEN to ELSE Max({x.at : x \in placed})
           s == Slices(a, b, count)
           heat == RelationHeatmap(events, rels, graph, from, to, count, group)
           f == [r \in inside |-> [id |-> r.id, at |-> time(r), lanes |-> {lane(r)}]]
<1>1. heat = [total |-> Cardinality(of), undated |-> Cardinality(of \ timed), outside |-> Cardinality(outside),
              placed |-> Cardinality(placed), counts |-> IF placed = {} THEN <<>> ELSE Histogram(s, placed),
              lanes |-> IF placed = {} THEN <<>> ELSE BuildLanes(s, placed)]
  BY DEF RelationHeatmap
<1> HIDE DEF heat, time, lane
<1>2. \A r \in inside : r \in rels /\ time(r) # NoTime /\ (from # Unbounded => ~(time(r) < from))
  OBVIOUS
<1>3. IsFiniteSet(of) /\ timed \subseteq of /\ outside \subseteq timed
  BY FS_Subset DEF IsCase
<1>4. placed = {f[r] : r \in inside} /\ DOMAIN f = inside
      /\ \A r \in inside : f[r].id = r.id /\ f[r].at = time(r) /\ f[r].lanes = {lane(r)}
  OBVIOUS
<1> HIDE DEF of, timed, outside, placed, f
<1>5. IsFiniteSet(timed) /\ IsFiniteSet(outside) /\ IsFiniteSet(inside)
  BY <1>3, FS_Subset
<1>6. /\ Cardinality(timed) + Cardinality(of \ timed) = Cardinality(of)
      /\ Cardinality(outside) + Cardinality(inside) = Cardinality(timed)
      /\ \A S \in {of \ timed, outside, inside} : Cardinality(S) \in Nat
  BY <1>3, <1>5, CutInTwo, FS_Subset, FS_CardinalityType
<1> HIDE DEF inside
<1>7. IsFiniteSet(placed) /\ Cardinality(placed) = Cardinality(inside)
  <2>1. \A r, t \in inside : f[r] = f[t] => r = t
    BY <1>2, <1>4 DEF IsCase
  <2>2. QED BY <1>4, <1>5, <2>1, SameSize
<1>8. \A r \in inside : time(r) \in Nat /\ lane(r) \in Int
  <2>1. ASSUME NEW r \in inside PROVE time(r) \in Nat /\ lane(r) \in Int
    <3>1. r \in rels /\ RelationTime(events, r) # NoTime
      BY <1>2 DEF time
    <3>2. RelationTime(events, r) \in Nat /\ Anchor(events, r).computer \in Nat
      BY <3>1, RelationsHaveTimes
    <3>3. r.rule \in Int /\ LaneNone \in Int
      BY <3>1 DEF IsCase, LaneNone
    <3>4. HeatmapKey(events, group, r) \in {r.rule, Anchor(events, r).computer, LaneNone}
      BY DEF HeatmapKey
    <3>5. QED BY <3>2, <3>3, <3>4 DEF time, lane
  <2>2. QED BY <2>1
<1>9. \A x \in placed : \E r \in inside : x.at = time(r) /\ x.lanes = {lane(r)}
  BY <1>4
<1>10. AreLaned(placed) /\ (\A x \in placed : x.lanes # {}) /\ (\A x \in placed : \E l : x.lanes = {l})
  <2>1. ASSUME NEW x \in placed PROVE x.lanes # {} /\ x.lanes \subseteq Int /\ IsFiniteSet(x.lanes) /\ \E l : x.lanes = {l}
    <3>1. PICK r \in inside : x.lanes = {lane(r)}
      BY <1>9
    <3>2. IsFiniteSet({lane(r)})
      BY FS_Singleton
    <3>3. QED BY <1>8, <3>1, <3>2
  <2>2. QED BY <1>7, <2>1 DEF AreLaned
<1>11. LaneTotals(heat.lanes) = Cardinality(placed) /\ Total(heat.counts) = Cardinality(placed)
  <2>1. CASE placed = {}
    <3>1. heat.counts = <<>> /\ heat.lanes = <<>>
      BY <1>1, <2>1
    <3>2. Total(<<>>) = 0 /\ LaneTotals(<<>>) = 0
      BY NothingAddsUp, NoLanesAddUp
    <3>3. QED BY <2>1, <3>1, <3>2, FS_EmptySet
  <2>2. CASE placed # {}
    <3>1. heat.counts = Histogram(s, placed) /\ heat.lanes = BuildLanes(s, placed)
      BY <1>1, <2>2
    <3>2. a \in Int /\ b \in Int /\ \A x \in placed : x.at \in Int /\ x.at >= a
      <4> DEFINE S == {x.at : x \in placed}
                 g == [x \in placed |-> x.at]
      <4>1. S = {g[x] : x \in placed} /\ DOMAIN g = placed
        OBVIOUS
      <4>2. IsFiniteSet({g[x] : x \in placed})
        <5> HIDE DEF g
        <5>1. QED BY <1>7, <4>1, ImageIsFinite
      <4>3. \A x \in placed : x.at \in Nat /\ x.at \in S /\ (from # Unbounded => ~(x.at < from))
        BY <1>2, <1>8, <1>9
      <4>4. S \in SUBSET Nat /\ S # {}
        BY <2>2, <4>3
      <4> HIDE DEF S, g
      <4>5. Min(S) \in S /\ \A k \in S : Min(S) <= k
        BY <4>4, MinIsLeast
      <4>6. Max(S) \in S
        BY <4>1, <4>2, <4>4, MaxIsGreatest
      <4>7. a = (IF from # Unbounded THEN from ELSE Min(S)) /\ b = IF to # Unbounded THEN to ELSE Max(S)
        BY DEF S
      <4> HIDE DEF a, b
      <4>8. a \in Int /\ b \in Int
        BY <4>4, <4>5, <4>6, <4>7
      <4>9. \A x \in placed : x.at \in Int /\ x.at >= a
        BY <4>3, <4>4, <4>5, <4>7
      <4>10. QED BY <4>8, <4>9
    <3> HIDE DEF a, b
    <3>3. Spread(s, placed) /\ Total(Histogram(s, placed)) = Cardinality(placed)
      BY <1>7, <3>2, DrawnAdds
    <3> HIDE DEF s
    <3>4. LaneTotals(BuildLanes(s, placed)) = Cardinality(InLanes(placed))
      BY <1>10, <3>3, LanesAddUp
    <3>5. Cardinality(InLanes(placed)) = Cardinality(placed)
      BY <1>10, EveryThingIsLaned
    <3>6. QED BY <3>1, <3>3, <3>4, <3>5
  <2>3. QED BY <2>1, <2>2
<1>12. heat.total = Cardinality(of) /\ heat.undated = Cardinality(of \ timed) /\ heat.outside = Cardinality(outside)
       /\ heat.placed = Cardinality(placed)
  BY <1>1
<1>13. heat.placed + heat.outside + heat.undated = heat.total
  BY <1>6, <1>7, <1>12
<1>14. QED BY <1>11, <1>12, <1>13 DEF HeatmapAgrees, heat

\* Every view of a query agrees on what it matches, whatever the case: the list is as long as the
\* index counts and is its pages put together, a timeline places each dated event once - in a lane
\* of a host once, in the lanes of its graphs at least once, however many lanes there are and
\* whether or not the smallest are folded - and the relations over time account for each relation.
\* (graphene_query.go, graphene_timeline.go, graphene_heatmap.go.) Except the hashes of the
\* findings together with undated events, which IsQuery leaves out: there the index counts more.
THEOREM EveryQueryAgrees ==
    ASSUME NEW events, NEW rels, IsCase(events, rels), NEW recs, NEW count \in Nat \ {0}, NEW group
    PROVE  /\ \A q : IsQuery(q) => /\ \A page \in Nat \ {0} : ListAgrees(events, rels, recs, q, page)
                                   /\ TimelineAgrees(events, rels, recs, q, count, group)
           /\ \A graph, from, to : from \in Int /\ to \in Int =>
                  HeatmapAgrees(events, rels, graph, from, to, count, group)
BY ListsAgree, TimelinesAgree, HeatmapsAgree

-----------------------------------------------------------------------------
(* The logs the rules look at: an event per id, with a time and a host.        *)

Entries(E) == \A e \in E : e.id \in Nat /\ e.at \in Nat /\ e.computer \in Nat
LogsAreLogs ==
    study \in {"sequences", "windows", "processes"} =>
        (\E E : things \in Seq(E) /\ Entries(E)) /\ \A i \in DOMAIN things : things[i].id = i

LEMMA EventAdded ==
    ASSUME \E E : things \in Seq(E) /\ Entries(E), \A i \in DOMAIN things : things[i].id = i,
           NEW event, event.id = Len(things) + 1, event.at \in Nat, event.computer \in Nat,
           things' = Append(things, event)
    PROVE  (\E E : things' \in Seq(E) /\ Entries(E)) /\ \A i \in DOMAIN things' : things'[i].id = i
<1>1. PICK E : things \in Seq(E) /\ Entries(E)
  OBVIOUS
<1> DEFINE F == E \cup {event}
<1>2. Len(things) \in Nat /\ DOMAIN things = 1 .. Len(things)
  BY <1>1
<1>3. Entries(F)
  BY <1>1, <1>2 DEF Entries
<1>4. things \in Seq(F) /\ event \in F
  BY <1>1
<1> HIDE DEF F
<1>5. things' \in Seq(F) /\ DOMAIN things' = 1 .. Len(things) + 1 /\ things'[Len(things) + 1] = event
      /\ \A i \in 1 .. Len(things) : things'[i] = things[i]
  BY <1>2, <1>4
<1>6. \A i \in 1 .. Len(things) + 1 : i = Len(things) + 1 \/ i \in 1 .. Len(things)
  BY <1>2
<1>7. QED BY <1>2, <1>3, <1>5, <1>6

LEMMA LatestIs ==
    ASSUME \E E : things \in Seq(E) /\ Entries(E)
    PROVE  Latest \in Nat
<1>1. PICK E : things \in Seq(E) /\ Entries(E)
  OBVIOUS
<1>2. CASE things = <<>>
  BY <1>2 DEF Latest
<1>3. CASE things # <<>>
  <2>1. Last(things) \in E
    BY <1>1, <1>3 DEF Last
  <2>2. QED BY <1>1, <1>3, <2>1 DEF Latest, Entries
<1>4. QED BY <1>2, <1>3

LEMMA LogsAreSeen ==
    ASSUME LogsAreLogs, study \in {"sequences", "windows", "processes"}
    PROVE  /\ IsLog(Prepare(things)) /\ ToSet(Prepare(things)) = {e \in ToSet(things) : e.at # Undated}
           /\ \A e \in ToSet(things) : e.computer \in Nat
<1>1. PICK E : things \in Seq(E) /\ Entries(E)
  BY DEF LogsAreLogs
<1>2. \A i, j \in DOMAIN things : things[i].id = things[j].id => i = j
  BY DEF LogsAreLogs
<1>3. \A e \in E : e.id \in Nat /\ e.at \in Nat /\ e.computer \in Nat
  BY <1>1 DEF Entries
<1>4. IsLog(Prepare(things)) /\ ToSet(Prepare(things)) = {e \in ToSet(things) : e.at # Undated}
  BY <1>1, <1>2, <1>3, LogsArePrepared
<1>5. \A e \in ToSet(things) : e \in E
  BY <1>1 DEF ToSet
<1>6. QED BY <1>3, <1>4, <1>5

LEMMA LogsStay == Spec => []LogsAreLogs
<1>1. Init => LogsAreLogs
  <2>1. <<>> \in Seq({}) /\ Entries({}) /\ \A i \in DOMAIN <<>> : <<>>[i].id = i
    BY DEF Entries
  <2>2. QED BY <2>1 DEF Init, LogsAreLogs
<1>2. LogsAreLogs /\ [Next]_vars => LogsAreLogs'
  <2> SUFFICES ASSUME LogsAreLogs, [Next]_vars, study' \in {"sequences", "windows", "processes"} PROVE LogsAreLogs'
    BY DEF LogsAreLogs
  <2> DEFINE Joins(event) == study' = study /\ things' = Append(things, event)
                             /\ event.id = Len(things) + 1 /\ event.at \in Nat /\ event.computer \in Nat
  <2>1. ASSUME NEW event, Joins(event) PROVE LogsAreLogs'
    BY <2>1, EventAdded DEF LogsAreLogs
  <2>2. ASSUME study' = study PROVE Latest \in Nat /\ Len(things) \in Nat
    <3>1. \E E : things \in Seq(E) /\ Entries(E)
      BY <2>2 DEF LogsAreLogs
    <3>2. Len(things) \in Nat
      BY <3>1
    <3>3. QED BY <3>1, <3>2, LatestIs
  <2>3. CASE LogEvent
    <3>1. PICK kind \in {"a", "b"}, at \in {Undated, NextId, MaxLog},
               who \in {<<1, 1>>, <<1, 2>>, <<1, Absent>>, <<2, 1>>} :
              Add([id |-> NextId, at |-> at, event |-> kind, computer |-> who[1],
                   keys |-> [NoKeys EXCEPT !.logon = who[2]]])
      BY <2>3, ZenonT(30) DEF LogEvent
    <3> DEFINE keys == [NoKeys EXCEPT !.logon = who[2]]
               event == [id |-> NextId, at |-> at, event |-> kind, computer |-> who[1], keys |-> keys]
    <3>2. study' = study /\ things' = Append(things, event) /\ Len(things) < MaxLog
      BY <2>3, <3>1 DEF LogEvent, Add
    <3> HIDE DEF keys
    <3>3. event.id = Len(things) + 1 /\ event.at = at /\ event.computer = who[1]
      BY DEF NextId
    <3>4. at \in Nat /\ who[1] \in Nat
      BY <2>2, <3>2, LogBounds DEF Undated, NextId
    <3> HIDE DEF event
    <3>5. Joins(event)
      BY <3>2, <3>3, <3>4
    <3>6. QED BY <2>1, <3>5
  <2>4. CASE TimedEvent
    <3>1. PICK kind \in {"a", "b", "c"}, gap \in 0 .. 2 :
              Add([id |-> NextId, at |-> Latest + gap, event |-> kind, computer |-> 1, keys |-> NoKeys])
      BY <2>4 DEF TimedEvent
    <3> DEFINE event == [id |-> NextId, at |-> Latest + gap, event |-> kind, computer |-> 1, keys |-> NoKeys]
    <3>2. study' = study /\ things' = Append(things, event)
      BY <3>1 DEF Add
    <3>3. event.id = Len(things) + 1 /\ event.at = Latest + gap /\ event.computer = 1
      BY DEF NextId
    <3>4. Latest + gap \in Nat
      BY <2>2, <3>2
    <3> HIDE DEF event
    <3>5. Joins(event)
      BY <3>2, <3>3, <3>4
    <3>6. QED BY <2>1, <3>5
  <2>5. CASE ProcessEvent
    <3>1. PICK kind \in {"create", "exit"}, gap \in 0 .. 1, pid \in {1, 2}, other \in {1, 2, Absent} :
              \E keys \in {[NoKeys EXCEPT !.pid = pid, !.parent = other], [NoKeys EXCEPT !.new = pid, !.pid = other]} :
                  Add([id |-> NextId, at |-> Latest + gap, event |-> kind, computer |-> 1, keys |-> keys])
      BY <2>5, ZenonT(30) DEF ProcessEvent
    <3> DEFINE a == [NoKeys EXCEPT !.pid = pid, !.parent = other]
               b == [NoKeys EXCEPT !.new = pid, !.pid = other]
    <3>2. PICK keys \in {a, b} :
              Add([id |-> NextId, at |-> Latest + gap, event |-> kind, computer |-> 1, keys |-> keys])
      BY <3>1
    <3> HIDE DEF a, b
    <3> DEFINE event == [id |-> NextId, at |-> Latest + gap, event |-> kind, computer |-> 1, keys |-> keys]
    <3>3. study' = study /\ things' = Append(things, event)
      BY <3>2 DEF Add
    <3>4. event.id = Len(things) + 1 /\ event.at = Latest + gap /\ event.computer = 1
      BY DEF NextId
    <3>5. Latest + gap \in Nat
      BY <2>2, <3>3
    <3> HIDE DEF event
    <3>6. Joins(event)
      BY <3>3, <3>4, <3>5
    <3>7. QED BY <2>1, <3>6
  <2>6. CASE UNCHANGED vars
    BY <2>6 DEF LogsAreLogs, vars
  <2>7. ~Card /\ ~FourNodes /\ ~Relate /\ ~Row /\ ~Link /\ ~RuleLine
    BY DEF Card, FourNodes, Relate, Row, Link, RuleLine, Add
  <2>8. QED BY <2>3, <2>4, <2>5, <2>6, <2>7 DEF Next
<1>3. QED BY <1>1, <1>2, PTL DEF Spec

\* The lines of processes are those of a replay in whatever log is looked at.
THEOREM LineageIsAlwaysReplay == Spec => []LineageIsReplay
<1>1. LogsAreLogs => LineageIsReplay
  <2> SUFFICES ASSUME LogsAreLogs, study = "processes" PROVE LineageIsReplay
    BY DEF LineageIsReplay
  <2>1. IsLog(Prepare(things))
    BY LogsAreSeen
  <2> DEFINE rule == [Rule("lineage", <<>>, "computer", {}, 0, 0) EXCEPT !.depth = 1]
  <2>2. rule.depth \in Nat
    BY DEF Rule
  <2> HIDE DEF rule
  <2>3. Replays(rule, Prepare(things))
    BY <2>1, <2>2, EveryLineageIsReplay
  <2>4. QED BY <2>3 DEF LineageIsReplay, rule
<1>2. QED BY <1>1, LogsStay, PTL
LEMMA RulesAreOrderRules ==
    /\ \A rule \in OrderRules : IsOrderRule(rule)
    /\ \A rule \in WindowRules : IsOrderRule(rule)
<1>1. ASSUME NEW rule \in OrderRules PROVE IsOrderRule(rule)
  <2>1. PICK scope \in {"computer", "global"} :
            \/ rule = Rule("sequence", <<"a", "b">>, scope, {}, 0, 0)
            \/ rule = Rule("sequence", <<"a", "b", "a">>, scope, {}, 0, 0)
            \/ rule = Rule("field", <<"a", "b">>, scope, {"logon"}, 0, 0)
    BY DEF OrderRules
  <2>2. rule.seq \in {<<"a", "b">>, <<"a", "b", "a">>}
        /\ ((rule.algorithm = "sequence" /\ rule.slots = {}) \/ rule.algorithm = "field")
    BY <2>1 DEF Rule
  <2>3. IsRule(rule)
    BY <2>2 DEF IsRule
  <2>4. QED BY <2>2, <2>3 DEF IsOrderRule
<1>2. ASSUME NEW rule \in WindowRules PROVE IsOrderRule(rule)
  <2>1. PICK w \in {1, 2} \X {0, 2, 3} :
            \/ rule = Rule("temporal", <<"a", "b">>, "computer", {}, w[1], w[2])
            \/ rule = Rule("temporal", <<"a", "b", "c">>, "computer", {}, w[1], w[2])
    BY DEF WindowRules
  <2>2. rule.seq \in {<<"a", "b">>, <<"a", "b", "c">>} /\ rule.algorithm = "temporal"
        /\ rule.within = w[1] /\ rule.total = w[2]
    BY <2>1 DEF Rule
  <2> DEFINE seq == rule.seq
  <2>3. DOMAIN seq = 1 .. Len(seq) /\ Len(seq) \in {2, 3} /\ \A s, t \in 1 .. Len(seq) : seq[s] = seq[t] => s = t
    <3>1. seq = <<"a", "b">> \/ seq = <<"a", "b", "c">>
      BY <2>2
    <3> HIDE DEF seq
    <3>2. CASE seq = <<"a", "b">>
      <4>1. DOMAIN seq = 1 .. 2 /\ Len(seq) = 2 /\ seq[1] = "a" /\ seq[2] = "b"
        BY <3>2
      <4>2. \A s \in 1 .. 2 : s = 1 \/ s = 2
        OBVIOUS
      <4>3. QED BY <4>1, <4>2
    <3>3. CASE seq = <<"a", "b", "c">>
      <4>1. DOMAIN seq = 1 .. 3 /\ Len(seq) = 3 /\ seq[1] = "a" /\ seq[2] = "b" /\ seq[3] = "c"
        BY <3>3
      <4>2. \A s \in 1 .. 3 : s = 1 \/ s = 2 \/ s = 3
        OBVIOUS
      <4>3. QED BY <4>1, <4>2
    <3>4. QED BY <3>1, <3>2, <3>3
  <2> HIDE DEF seq
  <2>4. IsRule(rule) /\ NamesOnce(rule) /\ Len(rule.seq) \in {2, 3}
    <3>1. \A n \in {2, 3} : n \in Nat \ {0} /\ n # 1
      OBVIOUS
    <3>2. Len(seq) \in Nat \ {0} /\ Len(seq) # 1
      BY <2>3, <3>1
    <3>3. IsRule(rule)
      BY <2>3, <3>2 DEF IsRule, seq
    <3>4. NamesOnce(rule)
      BY <2>3, <3>2 DEF NamesOnce, seq
    <3>5. QED BY <2>3, <3>3, <3>4 DEF seq
  <2>5. QED BY <2>2, <2>4 DEF IsOrderRule, IsWindowRule
<1>3. QED BY <1>1, <1>2

\* The matches of every order and window rule are matches, and as many as there can be, in whatever
\* log is looked at.
THEOREM MatchesAreAlwaysMaximal == Spec => []MatchesAreMaximal
<1>1. LogsAreLogs => MatchesAreMaximal
  <2> SUFFICES ASSUME LogsAreLogs, study \in {"sequences", "windows"} PROVE MatchesAreMaximal
    BY DEF MatchesAreMaximal
  <2> DEFINE dated == {e \in ToSet(things) : e.at # Undated}
  <2>1. IsLog(Prepare(things)) /\ ToSet(Prepare(things)) = dated /\ \A e \in dated : e.computer \in Nat
    BY LogsAreSeen
  <2> HIDE DEF dated
  <2>2. ASSUME NEW rule, IsOrderRule(rule)
        PROVE  LET result == Generate(rule, things)
               IN /\ \A m \in ToSet(result.matches) : IsMatch(rule, ToSet(m)) /\ Chain(ToSet(m)) = m
                  /\ IsLargestPacking(rule, dated, Len(result.matches) + result.dropped)
    BY <2>1, <2>2, EveryMatchIsMaximal
  <2>3. \A rule \in IF study = "sequences" THEN OrderRules ELSE WindowRules : IsOrderRule(rule)
    BY RulesAreOrderRules
  <2>4. QED BY <2>2, <2>3 DEF MatchesAreMaximal, dated
<1>2. QED BY <1>1, LogsStay, PTL

-----------------------------------------------------------------------------
(* The cases the queries are asked of.                                         *)

RowsOfCase == [id : Nat, at : Nat, event : {"4624", "4688"}, source : {"f1", "f2"}, copies : Nat, hash : {h1, h2}, computer : Nat]
LinksOfCase == [id : Nat, from : Nat, to : Nat, graph : Nat, rule : Nat, by : {"user", "system"}]
CasesAreCases ==
    study = "case" =>
        /\ things \in Seq(RowsOfCase) /\ \A i \in DOMAIN things : things[i].id = i
        /\ links \in Seq(LinksOfCase) /\ \A i \in DOMAIN links : links[i].id = i

LEMMA CasesStay == Spec => []CasesAreCases
<1>1. Init => CasesAreCases
  BY DEF Init, CasesAreCases
<1>2. CasesAreCases /\ [Next]_vars => CasesAreCases'
  <2> SUFFICES ASSUME CasesAreCases, [Next]_vars, study' = "case" PROVE CasesAreCases'
    BY DEF CasesAreCases
  <2>1. CASE Row
    <3>1. study = "case" /\ UNCHANGED <<study, links>>
      BY <2>1 DEF Row, Add
    <3>2. /\ things \in Seq(RowsOfCase) /\ \A i \in DOMAIN things : things[i].id = i
          /\ links \in Seq(LinksOfCase) /\ \A i \in DOMAIN links : links[i].id = i
      BY <3>1 DEF CasesAreCases
    <3>3. PICK at \in {NoTime, 1, 5}, what \in {<<"4624", "f1", 0, h1>>, <<"4624", "f2", 3, h2>>, <<"4688", "f1", 2, h2>>} :
              things' = Append(things, [id |-> Len(things) + 1, at |-> at, event |-> what[1], source |-> what[2],
                                        copies |-> what[3], hash |-> what[4], computer |-> Len(things) + 1])
      BY <2>1 DEF Row, Add, NextId
    <3>4. at \in Nat /\ what[1] \in {"4624", "4688"} /\ what[2] \in {"f1", "f2"} /\ what[3] \in Nat /\ what[4] \in {h1, h2}
      <4>1. what[1] \in {"4624", "4688"} /\ what[2] \in {"f1", "f2"} /\ what[3] \in Nat /\ what[4] \in {h1, h2}
        <5>1. CASE what = <<"4624", "f1", 0, h1>>
          BY <5>1
        <5>2. CASE what = <<"4624", "f2", 3, h2>>
          BY <5>2
        <5>3. CASE what = <<"4688", "f1", 2, h2>>
          BY <5>3
        <5>4. QED BY <5>1, <5>2, <5>3
      <4>2. at \in Nat
        BY DEF NoTime
      <4>3. QED BY <4>1, <4>2
    <3> DEFINE row == [id |-> Len(things) + 1, at |-> at, event |-> what[1], source |-> what[2],
                       copies |-> what[3], hash |-> what[4], computer |-> Len(things) + 1]
    <3>5. row \in RowsOfCase /\ row.id = Len(things) + 1
      BY <3>2, <3>4 DEF RowsOfCase
    <3>6. things' = Append(things, row)
      BY <3>3
    <3> HIDE DEF row
    <3>7. things' \in Seq(RowsOfCase) /\ \A i \in DOMAIN things' : things'[i].id = i
      BY <3>2, <3>5, <3>6
    <3>8. QED BY <3>1, <3>2, <3>7 DEF CasesAreCases
  <2>2. CASE Link
    <3>1. study = "case" /\ UNCHANGED <<study, things>>
      BY <2>2 DEF Link
    <3>2. /\ things \in Seq(RowsOfCase) /\ \A i \in DOMAIN things : things[i].id = i
          /\ links \in Seq(LinksOfCase) /\ \A i \in DOMAIN links : links[i].id = i
      BY <3>1 DEF CasesAreCases
    <3>3. PICK from \in DOMAIN things, to \in DOMAIN things, graph \in 0 .. 2 :
              links' = Append(links, [id |-> Len(links) + 1, from |-> from, to |-> to, graph |-> graph,
                                      rule |-> graph, by |-> IF graph = 0 THEN "user" ELSE "system"])
      BY <2>2 DEF Link
    <3> DEFINE link == [id |-> Len(links) + 1, from |-> from, to |-> to, graph |-> graph,
                        rule |-> graph, by |-> IF graph = 0 THEN "user" ELSE "system"]
    <3>4. link \in LinksOfCase /\ link.id = Len(links) + 1
      <4>1. from \in Nat /\ to \in Nat /\ graph \in Nat /\ Len(links) + 1 \in Nat
        BY <3>2
      <4>2. (IF graph = 0 THEN "user" ELSE "system") \in {"user", "system"}
        OBVIOUS
      <4> DEFINE by == IF graph = 0 THEN "user" ELSE "system"
      <4>3. by \in {"user", "system"}
        BY <4>2
      <4> HIDE DEF by
      <4>4. [id |-> Len(links) + 1, from |-> from, to |-> to, graph |-> graph, rule |-> graph, by |-> by] \in LinksOfCase
        BY <4>1, <4>3 DEF LinksOfCase
      <4>5. link = [id |-> Len(links) + 1, from |-> from, to |-> to, graph |-> graph, rule |-> graph, by |-> by]
        BY DEF by
      <4>6. link.id = Len(links) + 1
        OBVIOUS
      <4> HIDE DEF link
      <4>7. QED BY <4>4, <4>5, <4>6
    <3>5. links' = Append(links, link)
      BY <3>3
    <3> HIDE DEF link
    <3>6. links' \in Seq(LinksOfCase) /\ \A i \in DOMAIN links' : links'[i].id = i
      BY <3>2, <3>4, <3>5
    <3>7. QED BY <3>1, <3>2, <3>6 DEF CasesAreCases
  <2>3. CASE UNCHANGED vars
    BY <2>3 DEF CasesAreCases, vars
  <2>4. ~LogEvent /\ ~TimedEvent /\ ~ProcessEvent /\ ~Card /\ ~FourNodes /\ ~Relate /\ ~RuleLine
    BY DEF LogEvent, TimedEvent, ProcessEvent, Card, FourNodes, Relate, RuleLine, Add
  <2>5. QED BY <2>1, <2>2, <2>3, <2>4 DEF Next
<1>3. QED BY <1>1, <1>2, PTL DEF Spec

LEMMA StudiedCase == ASSUME CasesAreCases, study = "case" PROVE IsCase(ToSet(things), ToSet(links))
<1>1. /\ things \in Seq(RowsOfCase) /\ \A i \in DOMAIN things : things[i].id = i
      /\ links \in Seq(LinksOfCase) /\ \A i \in DOMAIN links : links[i].id = i
  BY DEF CasesAreCases
<1>2. IsFiniteSet(ToSet(things)) /\ IsFiniteSet(ToSet(links))
  <2>1. ToSet(things) = {things[i] : i \in DOMAIN things} /\ ToSet(links) = {links[i] : i \in DOMAIN links}
    BY DEF ToSet
  <2>2. IsFiniteSet(DOMAIN things) /\ IsFiniteSet(DOMAIN links)
    <3>1. DOMAIN things = 1 .. Len(things) /\ DOMAIN links = 1 .. Len(links) /\ Len(things) \in Nat /\ Len(links) \in Nat
      BY <1>1
    <3>2. QED BY <3>1, FS_Interval
  <2>3. QED BY <2>1, <2>2, ImageIsFinite
<1>3. \A e \in ToSet(things) : e \in RowsOfCase /\ \E i \in DOMAIN things : e = things[i] /\ e.id = i
  BY <1>1 DEF ToSet
<1>4. \A r \in ToSet(links) : r \in LinksOfCase /\ \E i \in DOMAIN links : r = links[i] /\ r.id = i
  BY <1>1 DEF ToSet
<1>5. \A e \in ToSet(things) : e.at \in Nat /\ e.computer \in Nat
  BY <1>3 DEF RowsOfCase
<1>6. \A r \in ToSet(links) : r.graph \in Nat /\ r.rule \in Nat
  BY <1>4 DEF LinksOfCase
<1>7. (\A e, f \in ToSet(things) : e.id = f.id => e = f) /\ (\A r, t \in ToSet(links) : r.id = t.id => r = t)
  BY <1>3, <1>4
<1>8. QED BY <1>2, <1>5, <1>6, <1>7 DEF IsCase

LEMMA StudiedQueries == \A q \in Queries \cup {Plain} : IsQuery(q)
<1> DEFINE Shaped(q) == DOMAIN q = QueryFields /\ q.from \in Int /\ q.to \in Int
           one == 1
           three == 3
           four == 4
<1>1. Unbounded \in Int /\ one \in Int /\ three \in Int /\ four \in Int
  BY DEF Unbounded
<1>2. Shaped(Plain) /\ Plain.undated = "exclude" /\ Plain.state = "" /\ Plain.tag = {} /\ DOMAIN Plain = QueryFields
  BY <1>1 DEF Plain, Query, QueryFields
<1> HIDE DEF one, three, four
<1>3. ASSUME NEW q \in Queries PROVE IsQuery(q)
  <2>1. ASSUME NEW u \in {"exclude", "include", "only"}, q = [Plain EXCEPT !.undated = u] PROVE IsQuery(q)
    BY <1>2, <2>1 DEF IsQuery, QueryFields
  <2>2. CASE q = Query("4624", "f1", 0, "", "include", Unbounded, 4)
    <3>1. DOMAIN q = QueryFields /\ q.from = Unbounded /\ q.to = four /\ q.state = "" /\ q.tag = {}
      BY <2>2 DEF Query, QueryFields, four
    <3>2. QED BY <1>1, <3>1 DEF IsQuery
  <2>3. CASE q = Query("", "", 2, "any", "include", 1, Unbounded)
    <3>1. DOMAIN q = QueryFields /\ q.from = one /\ q.to = Unbounded /\ q.state = "" /\ q.tag = {}
      BY <2>3 DEF Query, QueryFields, one
    <3>2. QED BY <1>1, <3>1 DEF IsQuery
  <2>4. CASE q = [Plain EXCEPT !.relation = "user", !.descending = TRUE]
    BY <1>2, <2>4 DEF IsQuery, QueryFields
  <2>5. CASE q = [Plain EXCEPT !.state = "none"]
    BY <1>2, <2>5 DEF IsQuery, QueryFields
  <2>6. CASE q = [Plain EXCEPT !.state = "flagged", !.tag = {tag}]
    BY <1>2, <2>6 DEF IsQuery, QueryFields
  <2>7. CASE q = [Plain EXCEPT !.from = 1, !.to = 3, !.undated = "include"]
    <3> DEFINE q1 == [Plain EXCEPT !.from = one]
               q2 == [q1 EXCEPT !.to = three]
    <3>1. Shaped(q1) /\ q1.state = "" /\ q1.tag = {} /\ DOMAIN q1 = QueryFields
      BY <1>1, <1>2 DEF QueryFields
    <3>2. Shaped(q2) /\ q2.state = "" /\ q2.tag = {} /\ DOMAIN q2 = QueryFields
      <4> HIDE DEF q1
      <4>1. QED BY <1>1, <3>1 DEF QueryFields
    <3>3. q = [q2 EXCEPT !.undated = "include"]
      BY <2>7 DEF one, three
    <3> HIDE DEF q1, q2
    <3>4. QED BY <3>2, <3>3 DEF IsQuery, QueryFields
  <2>8. QED BY <2>1, <2>2, <2>3, <2>4, <2>5, <2>6, <2>7 DEF Queries
<1>4. IsQuery(Plain)
  BY <1>2 DEF IsQuery
<1>5. QED BY <1>3, <1>4

\* Every view of a query agrees on what it matches, in every case a study looks at, of any size.
THEOREM QueriesAlwaysAgree == Spec => []QueriesAgree
<1>1. CasesAreCases => QueriesAgree
  <2> SUFFICES ASSUME CasesAreCases, study = "case" PROVE QueriesAgree
    BY DEF QueriesAgree
  <2> DEFINE rows == ToSet(things)
             rels == ToSet(links)
             recs == Records
             list(q) == OrderedIDs(rows, rels, recs, q)
             line(q, n, by) == TimelineGrouped(rows, rels, recs, q, n, by)
             heat(g, by, to) == RelationHeatmap(rows, rels, g, Unbounded, to, 3, by)
             all(q) == MatchingRows(rows, rels, recs, [q EXCEPT !.undated = "include"])
  <2>1. IsCase(rows, rels)
    BY StudiedCase
  <2> HIDE DEF rows, rels, recs
  <2>2. \A q \in Queries \cup {Plain} : IsQuery(q)
    BY StudiedQueries
  <2>3. 2 \in Nat \ {0} /\ 3 \in Nat \ {0} /\ Unbounded \in Int /\ 3 \in Int
    BY DEF Unbounded
  <2>4. ASSUME NEW q \in Queries
        PROVE  /\ CountEvents(rows, rels, recs, q) = Len(list(q))
               /\ WindowIDs(list(q), 0, 2) \o WindowIDs(list(q), 2, 0) = list(q)
               /\ line(q, 3, "computer").dated + line(q, 3, "computer").undated = Cardinality(all(q))
               /\ q.undated = "exclude" => line(q, 3, "computer").dated = Len(list(q))
               /\ LaneTotals(line(q, 3, "computer").lanes) = line(q, 3, "computer").dated
               /\ Total(line(q, 3, "computer").counts) = line(q, 3, "computer").dated
    <3>1. ListAgrees(rows, rels, recs, q, 2)
      BY <2>1, <2>2, <2>3, EveryQueryAgrees
    <3>2. TimelineAgrees(rows, rels, recs, q, 3, "computer")
      BY <2>1, <2>2, <2>3, EveryQueryAgrees
    <3>3. QED BY <3>1, <3>2 DEF ListAgrees, TimelineAgrees
  <2>5. LaneTotals(line(Plain, 2, "graph").lanes) >= line(Plain, 2, "graph").dated
    <3>1. TimelineAgrees(rows, rels, recs, Plain, 2, "graph")
      BY <2>1, <2>2, <2>3, EveryQueryAgrees
    <3>2. QED BY <3>1 DEF TimelineAgrees
  <2>6. ASSUME NEW g \in {0, 1}, NEW by \in {"rule", "computer"}, NEW to \in {Unbounded, 3}
        PROVE  /\ heat(g, by, to).placed + heat(g, by, to).outside + heat(g, by, to).undated = heat(g, by, to).total
               /\ LaneTotals(heat(g, by, to).lanes) = heat(g, by, to).placed
               /\ Total(heat(g, by, to).counts) = heat(g, by, to).placed
    <3>1. to \in Int
      BY <2>3
    <3>2. HeatmapAgrees(rows, rels, g, Unbounded, to, 3, by)
      BY <2>1, <2>3, <3>1, EveryQueryAgrees
    <3>3. QED BY <3>2 DEF HeatmapAgrees
  <2> HIDE DEF list, line, heat, all
  <2>7. /\ \A q \in Queries :
              /\ CountEvents(rows, rels, recs, q) = Len(list(q))
              /\ WindowIDs(list(q), 0, 2) \o WindowIDs(list(q), 2, 0) = list(q)
              /\ line(q, 3, "computer").dated + line(q, 3, "computer").undated = Cardinality(all(q))
              /\ q.undated = "exclude" => line(q, 3, "computer").dated = Len(list(q))
              /\ LaneTotals(line(q, 3, "computer").lanes) = line(q, 3, "computer").dated
              /\ Total(line(q, 3, "computer").counts) = line(q, 3, "computer").dated
        /\ \A g \in {0, 1}, by \in {"rule", "computer"}, to \in {Unbounded, 3} :
              /\ heat(g, by, to).placed + heat(g, by, to).outside + heat(g, by, to).undated = heat(g, by, to).total
              /\ LaneTotals(heat(g, by, to).lanes) = heat(g, by, to).placed
              /\ Total(heat(g, by, to).counts) = heat(g, by, to).placed
    BY <2>4, <2>6
  <2>8. \A q \in Asked : q \in Queries
    BY DEF Asked
  <2>9. QED BY <2>5, <2>7, <2>8 DEF QueriesAgree, list, line, heat, all, rows, rels, recs
<1>2. QED BY <1>1, CasesStay, PTL

-----------------------------------------------------------------------------
(* Rule files.                                                                 *)

\* The fields of a rule as they are decoded, whatever is in them.
IsSpec(s, T) ==
    /\ DOMAIN s = Fields /\ s.format_version \in Int /\ s.lineage_depth \in Int
    /\ {s.sequence, s.labels, s.match_fields, s.lineage_create_ids, s.channels} \subseteq Seq(T)

LEMMA TrimmedIs ==
    ASSUME NEW x
    PROVE  Trimmed(x).body = x.body /\ Trimmed(Trimmed(x)) = Trimmed(x) /\ (IsBlank(Trimmed(x)) <=> IsBlank(x))
           /\ (Malformed(Trimmed(x)) <=> Malformed(x)) /\ Length(Trimmed(x)) = Length(x)
<1>1. Trimmed(x).body = x.body
  BY DEF Trimmed, Text
<1>2. Trimmed(Trimmed(x)) = Trimmed(x)
  BY <1>1 DEF Trimmed
<1>3. (IsBlank(Trimmed(x)) <=> IsBlank(x)) /\ (Malformed(Trimmed(x)) <=> Malformed(x))
  BY <1>1 DEF IsBlank, Malformed
<1>4. Length(Trimmed(x)) = Length(x)
  BY <1>1, <1>3 DEF Length
<1>5. QED BY <1>1, <1>2, <1>3, <1>4

LEMMA TrimAllIs ==
    ASSUME NEW T, NEW l \in Seq(T)
    PROVE  /\ DOMAIN TrimAll(l) = DOMAIN l /\ Len(TrimAll(l)) = Len(l) /\ (TrimAll(l) = <<>> <=> l = <<>>)
           /\ \A i \in DOMAIN l : TrimAll(l)[i].body = l[i].body
           /\ TrimAll(TrimAll(l)) = TrimAll(l)
<1> DEFINE t == TrimAll(l)
<1>1. DOMAIN t = DOMAIN l /\ \A i \in DOMAIN l : t[i] = Trimmed(l[i])
  BY DEF TrimAll
<1>2. t \in Seq({Trimmed(l[i]) : i \in DOMAIN l}) /\ Len(t) = Len(l)
  BY DEF TrimAll
<1>3. t = <<>> <=> l = <<>>
  BY <1>2
<1>4. \A i \in DOMAIN l : t[i].body = l[i].body /\ Trimmed(t[i]) = t[i]
  BY <1>1, TrimmedIs
<1>5. TrimAll(t) = t
  <2>1. t = [i \in DOMAIN t |-> t[i]]
    BY DEF TrimAll
  <2>2. TrimAll(t) = [i \in DOMAIN t |-> Trimmed(t[i])]
    BY DEF TrimAll
  <2>3. \A i \in DOMAIN t : Trimmed(t[i]) = t[i]
    BY <1>1, <1>4
  <2> HIDE DEF t
  <2>4. QED BY <2>1, <2>2, <2>3
<1>6. QED BY <1>1, <1>2, <1>3, <1>4, <1>5

\* What the loader makes of each field.
LEMMA NormalizeIs ==
    ASSUME NEW T, NEW s, IsSpec(s, T)
    PROVE  LET k == Normalize(s)
           IN /\ k = [f \in Fields |-> k[f]]
              /\ k.format_version = (IF s.format_version = 0 THEN 1 ELSE s.format_version)
              /\ k.name = Trimmed(s.name) /\ k.description = Trimmed(s.description)
              /\ k.relation_type = (IF s.relation_type \in {Text("temporal"), Text("default")} THEN s.relation_type
                                    ELSE Text("correlation"))
              /\ k.algorithm = Text(AlgorithmOf(s)) /\ k.match_scope = Text(ScopeOf(s))
              /\ k.labels = TrimAll(s.labels) /\ k.match_fields = TrimAll(s.match_fields)
              /\ k.lineage_create_ids = TrimAll(s.lineage_create_ids) /\ k.channels = TrimAll(s.channels)
              /\ k.window_within = Trimmed(s.window_within) /\ k.window_total = Trimmed(s.window_total)
              /\ k.sequence = TrimAll(s.sequence) /\ k.lineage_depth = s.lineage_depth
<1>1. Fields = {"format_version", "name", "description", "relation_type", "algorithm", "sequence", "labels", "match_fields",
                "match_scope", "window_within", "window_total", "lineage_create_ids", "lineage_depth", "channels"}
  BY DEF Fields, Zero
<1>2. DOMAIN s = Fields
  BY DEF IsSpec
<1> DEFINE n == NormalizeFields(s)
<1>3. /\ DOMAIN n = Fields
      /\ n.format_version = (IF s.format_version = 0 THEN 1 ELSE s.format_version)
      /\ n.name = Trimmed(s.name) /\ n.description = Trimmed(s.description)
      /\ n.relation_type = (IF s.relation_type \in {Text("temporal"), Text("default")} THEN s.relation_type
                            ELSE Text("correlation"))
      /\ n.algorithm = Text(AlgorithmOf(s)) /\ n.match_scope = Text(ScopeOf(s))
      /\ n.labels = TrimAll(s.labels) /\ n.match_fields = TrimAll(s.match_fields)
      /\ n.lineage_create_ids = TrimAll(s.lineage_create_ids) /\ n.channels = TrimAll(s.channels)
      /\ n.window_within = Trimmed(s.window_within) /\ n.window_total = Trimmed(s.window_total)
      /\ n.sequence = s.sequence /\ n.lineage_depth = s.lineage_depth
  BY <1>1, <1>2 DEF NormalizeFields
<1>4. Normalize(s) = [n EXCEPT !.sequence = TrimAll(n.sequence)]
  BY DEF Normalize
<1> HIDE DEF n
<1>5. QED BY <1>1, <1>3, <1>4

LEMMA KeptIsRead ==
    ASSUME NEW T, NEW s, IsSpec(s, T)
    PROVE  LET k == Normalize(s)
           IN AlgorithmOf(k) = AlgorithmOf(s) /\ ScopeOf(k) = ScopeOf(s) /\ IsSpec(k, {Trimmed(x) : x \in T})
<1> DEFINE k == Normalize(s)
<1>1. k.algorithm.body = AlgorithmOf(s) /\ k.match_scope.body = ScopeOf(s)
  <2>1. k.algorithm = Text(AlgorithmOf(s)) /\ k.match_scope = Text(ScopeOf(s))
    BY NormalizeIs
  <2> HIDE DEF k
  <2>2. QED BY <2>1 DEF Text
<1>2. AlgorithmOf(s) # "" /\ ScopeOf(s) # ""
  BY DEF AlgorithmOf, ScopeOf, IsBlank
<1>3. IsSpec(k, {Trimmed(x) : x \in T})
  <2>1. ASSUME NEW l \in Seq(T) PROVE TrimAll(l) \in Seq({Trimmed(x) : x \in T})
    BY DEF TrimAll
  <2>2. DOMAIN k = Fields
    BY NormalizeIs
  <2>3. s.format_version \in Int /\ s.lineage_depth \in Int
        /\ {s.sequence, s.labels, s.match_fields, s.lineage_create_ids, s.channels} \subseteq Seq(T)
    BY DEF IsSpec
  <2>4. k.format_version \in Int /\ k.lineage_depth \in Int
    BY <2>3, NormalizeIs
  <2>5. k.sequence = TrimAll(s.sequence) /\ k.labels = TrimAll(s.labels) /\ k.match_fields = TrimAll(s.match_fields)
        /\ k.lineage_create_ids = TrimAll(s.lineage_create_ids) /\ k.channels = TrimAll(s.channels)
    BY NormalizeIs
  <2> HIDE DEF k
  <2>6. QED BY <2>1, <2>2, <2>3, <2>4, <2>5 DEF IsSpec
<1> HIDE DEF k
<1>4. QED BY <1>1, <1>2, <1>3 DEF AlgorithmOf, ScopeOf, IsBlank, k

\* Normalizing neither mends a rule nor breaks it, and does nothing the second time: what the
\* loader keeps is accepted as the file was, and kept as it is. (normalize of rules.go against
\* validate.go, for every rule.)
THEOREM NormalizedRulesAreStable ==
    ASSUME NEW T, NEW s, IsSpec(s, T)
    PROVE  Problems(Normalize(s)) = Problems(s) /\ Normalize(Normalize(s)) = Normalize(s)
<1> DEFINE k == Normalize(s)
           m == Normalize(k)
<1>1. AlgorithmOf(k) = AlgorithmOf(s) /\ ScopeOf(k) = ScopeOf(s) /\ IsSpec(k, {Trimmed(x) : x \in T})
  BY KeptIsRead
<1>2. s.format_version \in Int
      /\ s.sequence \in Seq(T) /\ s.labels \in Seq(T) /\ s.match_fields \in Seq(T) /\ s.lineage_create_ids \in Seq(T) /\ s.channels \in Seq(T)
  BY DEF IsSpec
<1>3. /\ k = [f \in Fields |-> k[f]] /\ k.format_version = (IF s.format_version = 0 THEN 1 ELSE s.format_version)
      /\ k.name = Trimmed(s.name) /\ k.description = Trimmed(s.description)
      /\ k.relation_type \in {Text("temporal"), Text("default"), Text("correlation")}
      /\ k.algorithm = Text(AlgorithmOf(s)) /\ k.match_scope = Text(ScopeOf(s))
      /\ k.labels = TrimAll(s.labels) /\ k.match_fields = TrimAll(s.match_fields)
      /\ k.lineage_create_ids = TrimAll(s.lineage_create_ids) /\ k.channels = TrimAll(s.channels)
      /\ k.window_within = Trimmed(s.window_within) /\ k.window_total = Trimmed(s.window_total)
      /\ k.sequence = TrimAll(s.sequence) /\ k.lineage_depth = s.lineage_depth
  BY NormalizeIs
<1> HIDE DEF k
<1>4. /\ m = [f \in Fields |-> m[f]] /\ m.format_version = (IF k.format_version = 0 THEN 1 ELSE k.format_version)
      /\ m.name = Trimmed(k.name) /\ m.description = Trimmed(k.description)
      /\ m.relation_type = (IF k.relation_type \in {Text("temporal"), Text("default")} THEN k.relation_type
                            ELSE Text("correlation"))
      /\ m.algorithm = Text(AlgorithmOf(k)) /\ m.match_scope = Text(ScopeOf(k))
      /\ m.labels = TrimAll(k.labels) /\ m.match_fields = TrimAll(k.match_fields)
      /\ m.lineage_create_ids = TrimAll(k.lineage_create_ids) /\ m.channels = TrimAll(k.channels)
      /\ m.window_within = Trimmed(k.window_within) /\ m.window_total = Trimmed(k.window_total)
      /\ m.sequence = TrimAll(k.sequence) /\ m.lineage_depth = k.lineage_depth
  BY <1>1, NormalizeIs
<1> HIDE DEF m
<1>5. m = k
  <2>1. m.format_version = k.format_version /\ m.relation_type = k.relation_type /\ m.algorithm = k.algorithm
        /\ m.match_scope = k.match_scope /\ m.lineage_depth = k.lineage_depth
    BY <1>1, <1>3, <1>4
  <2>2. m.name = k.name /\ m.description = k.description /\ m.window_within = k.window_within /\ m.window_total = k.window_total
    BY <1>3, <1>4, TrimmedIs
  <2>3. \A l \in Seq(T) : TrimAll(TrimAll(l)) = TrimAll(l)
    BY TrimAllIs
  <2>4. m.labels = k.labels /\ m.match_fields = k.match_fields /\ m.lineage_create_ids = k.lineage_create_ids
        /\ m.channels = k.channels /\ m.sequence = k.sequence
    BY <1>2, <1>3, <1>4, <2>3
  <2>5. Fields = {"format_version", "name", "description", "relation_type", "algorithm", "sequence", "labels", "match_fields",
                  "match_scope", "window_within", "window_total", "lineage_create_ids", "lineage_depth", "channels"}
    BY DEF Fields, Zero
  <2>6. \A f \in Fields : m[f] = k[f]
    BY <2>1, <2>2, <2>4, <2>5
  <2>7. QED BY <1>3, <1>4, <2>6
<1>6. Problems(k) = Problems(s)
  <2>1. ASSUME NEW l \in Seq(T) PROVE /\ DOMAIN TrimAll(l) = DOMAIN l /\ Len(TrimAll(l)) = Len(l) /\ (TrimAll(l) = <<>> <=> l = <<>>)
                                      /\ \A i \in DOMAIN l : TrimAll(l)[i].body = l[i].body
    BY TrimAllIs
  <2>2. BlankEntries(k, "sequence") = BlankEntries(s, "sequence")
        /\ BlankEntries(k, "lineage_create_ids") = BlankEntries(s, "lineage_create_ids") /\ BlankEntries(k, "channels") = BlankEntries(s, "channels")
    <3>1. ASSUME NEW f, s[f] \in Seq(T), k[f] = TrimAll(s[f]) PROVE BlankEntries(k, f) = BlankEntries(s, f)
      <4>1. {j \in DOMAIN k[f] : IsBlank(k[f][j])} = {j \in DOMAIN s[f] : IsBlank(s[f][j])}
        BY <2>1, <3>1 DEF IsBlank
      <4>2. QED BY <4>1 DEF BlankEntries
    <3>2. QED BY <1>2, <1>3, <3>1
  <2>3. SequenceProblems(k) = SequenceProblems(s)
    BY <1>2, <1>3, <2>1, <2>2 DEF SequenceProblems
  <2>4. MatchFieldProblems(k) = MatchFieldProblems(s)
    <3> DEFINE wrong(t, j) == t.match_fields[j].body \notin Slots
                              \/ \E i \in 1 .. j - 1 : t.match_fields[i].body = t.match_fields[j].body
    <3>1. DOMAIN k.match_fields = DOMAIN s.match_fields
          /\ \A i \in DOMAIN s.match_fields : k.match_fields[i].body = s.match_fields[i].body
      BY <1>2, <1>3, <2>1
    <3>2. \A j \in DOMAIN s.match_fields : 1 .. j - 1 \subseteq DOMAIN s.match_fields
      BY <1>2
    <3>3. \A j \in DOMAIN s.match_fields : wrong(k, j) <=> wrong(s, j)
      BY <3>1, <3>2
    <3>4. MatchFieldProblems(k) = {<<"match_fields", i>> : i \in {j \in DOMAIN k.match_fields : wrong(k, j)}}
          /\ MatchFieldProblems(s) = {<<"match_fields", i>> : i \in {j \in DOMAIN s.match_fields : wrong(s, j)}}
      BY DEF MatchFieldProblems
    <3> HIDE DEF wrong
    <3>5. {j \in DOMAIN k.match_fields : wrong(k, j)} = {j \in DOMAIN s.match_fields : wrong(s, j)}
      BY <3>1, <3>3
    <3>6. QED BY <3>4, <3>5
  <2>5. /\ (IsBlank(k.name) <=> IsBlank(s.name))
        /\ (IsBlank(k.window_within) <=> IsBlank(s.window_within)) /\ (IsBlank(k.window_total) <=> IsBlank(s.window_total))
        /\ (Malformed(k.window_within) <=> Malformed(s.window_within)) /\ (Malformed(k.window_total) <=> Malformed(s.window_total))
        /\ Length(k.window_within) = Length(s.window_within) /\ Length(k.window_total) = Length(s.window_total)
    BY <1>3, TrimmedIs
  <2>6. DurationProblems(k, "window_within") = DurationProblems(s, "window_within")
        /\ DurationProblems(k, "window_total") = DurationProblems(s, "window_total")
    BY <2>5 DEF DurationProblems
  <2>7. WindowProblems(k) = WindowProblems(s)
    BY <2>5, <2>6 DEF WindowProblems, If
  <2>8. LineageProblems(k) = LineageProblems(s) /\ ScopeProblems(k) = ScopeProblems(s)
    BY <1>1, <1>3, <2>2 DEF LineageProblems, ScopeProblems
  <2>9. (k.format_version > 1 <=> s.format_version > 1) /\ (k.match_fields = <<>> <=> s.match_fields = <<>>)
    BY <1>2, <1>3, <2>1
  <2>10. If(IsBlank(k.name), "name") = If(IsBlank(s.name), "name")
         /\ If(AlgorithmOf(k) = "field" /\ k.match_fields = <<>>, "match_fields")
            = If(AlgorithmOf(s) = "field" /\ s.match_fields = <<>>, "match_fields")
    BY <1>1, <2>5, <2>9 DEF If
  <2> DEFINE fmt(t) == t.format_version > 1
  <2>11. fmt(k) <=> fmt(s)
    BY <2>9
  <2> HIDE DEF fmt
  <2>12. QED BY <1>1, <2>2, <2>3, <2>4, <2>7, <2>8, <2>10, <2>11 DEF Problems, fmt
<1>7. QED BY <1>5, <1>6 DEF k, m

\* The engine refuses nothing that the validator has accepted: what each algorithm looks at again
\* is among what was looked at before. (the checks at the entry of sequence.go, field.go and
\* temporal.go against validate.go.)
THEOREM AcceptedIsNeverRefused ==
    ASSUME NEW T, NEW s, IsSpec(s, T), Accepted(s)
    PROVE  ~Refused(Compiled(s)) /\ ~Refused(Compiled(Normalize(s)))
<1>1. ASSUME NEW U, NEW r, IsSpec(r, U), Accepted(r) PROVE ~Refused(Compiled(r))
  <2> DEFINE a == AlgorithmOf(r)
             c == Compiled(r)
  <2>1. ASSUME NEW wrong \in BOOLEAN, NEW f, If(wrong, f) = {} PROVE ~wrong
    BY <2>1 DEF If
  <2>2. /\ a \in {"sequence", "field", "temporal", "lineage"}
        /\ RequiresSequence(a) => SequenceProblems(r) = {}
        /\ If(a = "field" /\ r.match_fields = <<>>, "match_fields") = {}
        /\ "match_fields" \in Reads[a] => MatchFieldProblems(r) = {}
        /\ "window_within" \in Reads[a] => WindowProblems(r) = {}
    <3>1. DOMAIN Reads = {"sequence", "field", "temporal", "lineage"}
      BY DEF Reads
    <3> HIDE DEF a
    <3>2. QED BY <1>1, <3>1 DEF Accepted, Problems, a
  <2>3. Reads["sequence"] = {} /\ Reads["lineage"] = {"lineage_create_ids", "lineage_depth", "match_scope"}
        /\ Reads["field"] = {"match_fields", "match_scope"}
        /\ Reads["temporal"] = {"window_within", "window_total", "match_fields", "match_scope"}
    BY DEF Reads
  <2>4. c.algorithm = a /\ c.seq = r.sequence /\ c.within = Length(r.window_within)
        /\ c.slots = IF "match_fields" \in Reads[a] THEN {r.match_fields[i].body : i \in DOMAIN r.match_fields} ELSE {}
    BY DEF Compiled
  <2> HIDE DEF a, c
  <2>5. RequiresSequence(a) => Len(r.sequence) >= 2
    <3>1. RequiresSequence(a) => If(Len(r.sequence) \notin 2 .. MaxSequence, "sequence") = {}
      BY <2>2 DEF SequenceProblems
    <3>2. RequiresSequence(a) => Len(r.sequence) \in 2 .. MaxSequence
      BY <2>1, <3>1
    <3>3. MaxSequence \in Nat
      BY RuleFormatAssumption
    <3>4. QED BY <3>2, <3>3
  <2>6. c.slots \subseteq Slots
    <3>1. "match_fields" \in Reads[a] => \A j \in DOMAIN r.match_fields : r.match_fields[j].body \in Slots
      BY <2>2 DEF MatchFieldProblems
    <3>2. QED BY <2>4, <3>1
  <2>7. a = "field" => c.slots # {}
    <3>1. a = "field" => r.match_fields # <<>>
      BY <2>1, <2>2
    <3>2. r.match_fields \in Seq(U)
      BY <1>1 DEF IsSpec
    <3>3. a = "field" => 1 \in DOMAIN r.match_fields
      BY <3>1, <3>2
    <3>4. QED BY <2>3, <2>4, <3>3, SMTT(30)
  <2>8. a = "temporal" => c.within \in Nat /\ c.within > 0
    <3>1. a = "temporal" => /\ If(IsBlank(r.window_within), "window_within") = {}
                            /\ DurationProblems(r, "window_within") = {}
      BY <2>2, <2>3 DEF WindowProblems
    <3>2. a = "temporal" => /\ ~IsBlank(r.window_within)
                            /\ ~(~IsBlank(r.window_within) /\ (Malformed(r.window_within) \/ Length(r.window_within) \notin 1 .. MaxWindow))
      BY <2>1, <3>1 DEF DurationProblems
    <3>3. a = "temporal" => Length(r.window_within) \in 1 .. MaxWindow
      BY <3>2
    <3>4. MaxWindow \in Nat
      BY RuleFormatAssumption
    <3>5. QED BY <2>4, <3>3, <3>4
  <2>9. Len(r.sequence) \in Nat
    BY <1>1 DEF IsSpec
  <2>10. ~(RequiresSequence(c.algorithm) /\ Len(c.seq) < 2) /\ ~(c.algorithm = "temporal" /\ c.within <= 0)
    BY <2>4, <2>5, <2>8, <2>9
  <2>11. QED BY <2>4, <2>6, <2>7, <2>10 DEF Refused, c
<1>2. IsSpec(Normalize(s), {Trimmed(x) : x \in T}) /\ Accepted(Normalize(s))
  BY KeptIsRead, NormalizedRulesAreStable DEF Accepted
<1>3. QED BY <1>1, <1>2

LEMMA GenerateReads ==
    ASSUME NEW r, NEW t, r.scope = t.scope, \A group : Matches(r, group) = Matches(t, group)
    PROVE  \A log : Generate(r, log) = Generate(t, log)
<1>1. ASSUME NEW log PROVE Generate(r, log) = Generate(t, log)
  <2> DEFINE groups == Groups(Prepare(log), r.scope)
             all(rule) == FlattenSeq([g \in DOMAIN groups |-> Matches(rule, groups[g])])
             kept(rule) == Min({Len(all(rule)), MaxMatches})
  <2>1. all(r) = all(t)
    <3>1. [g \in DOMAIN groups |-> Matches(r, groups[g])] = [g \in DOMAIN groups |-> Matches(t, groups[g])]
      OBVIOUS
    <3>2. QED BY <3>1
  <2>2. /\ Generate(r, log) = [matches |-> SubSeq(all(r), 1, kept(r)), dropped |-> Len(all(r)) - kept(r)]
        /\ Generate(t, log) = [matches |-> SubSeq(all(t), 1, kept(t)), dropped |-> Len(all(t)) - kept(t)]
    BY DEF Generate
  <2> HIDE DEF all
  <2>3. QED BY <2>1, <2>2
<1>2. QED BY <1>1

\* A field that the author is told to have no use for has none: without it the engine finds the
\* same in every log, whatever is in the field. (advisories of validate.go against what each
\* algorithm reads.)
THEOREM InertFieldsChangeNothing ==
    ASSUME NEW T, NEW s, IsSpec(s, T), NEW f \in Inert(s)
    PROVE  \A log : Evaluate([s EXCEPT ![f] = Zero[f]], log) = Evaluate(s, log)
<1> DEFINE t == [s EXCEPT ![f] = Zero[f]]
           a == AlgorithmOf(s)
           c == Compiled(s)
           d == Compiled(t)
<1>1. DOMAIN s = Fields
  BY DEF IsSpec
<1>2. /\ a \in {"sequence", "field", "temporal", "lineage"} /\ f \notin Reads[a]
      /\ f \in {"match_fields", "window_within", "window_total", "lineage_create_ids", "lineage_depth", "sequence"}
      /\ a # "lineage" => f # "sequence"
  <2>1. DOMAIN Reads = {"sequence", "field", "temporal", "lineage"}
    BY DEF Reads
  <2> HIDE DEF a
  <2>2. QED BY <2>1 DEF Inert, RequiresSequence, a
<1>3. Reads["sequence"] = {} /\ Reads["lineage"] = {"lineage_create_ids", "lineage_depth", "match_scope"}
      /\ Reads["field"] = {"match_fields", "match_scope"}
      /\ Reads["temporal"] = {"window_within", "window_total", "match_fields", "match_scope"}
  BY DEF Reads
<1>4. \A h \in Fields : h # f => t[h] = s[h]
  BY <1>1
<1>5. Fields = {"format_version", "name", "description", "relation_type", "algorithm", "sequence", "labels", "match_fields",
                "match_scope", "window_within", "window_total", "lineage_create_ids", "lineage_depth", "channels"}
  BY DEF Fields, Zero
<1> HIDE DEF t
<1>6. t.algorithm = s.algorithm /\ t.match_scope = s.match_scope
  BY <1>2, <1>4, <1>5
<1>7. AlgorithmOf(t) = a /\ ScopeOf(t) = ScopeOf(s)
  BY <1>6 DEF AlgorithmOf, ScopeOf
<1>8. /\ a # "lineage" => t.sequence = s.sequence
      /\ a = "temporal" => t.window_within = s.window_within /\ t.window_total = s.window_total
      /\ "match_fields" \in Reads[a] => t.match_fields = s.match_fields
      /\ a = "lineage" => t.lineage_create_ids = s.lineage_create_ids /\ t.lineage_depth = s.lineage_depth
  BY <1>2, <1>3, <1>4, <1>5
<1> HIDE DEF a
<1>9. /\ c.algorithm = a /\ d.algorithm = a /\ c.scope = d.scope
      /\ a # "lineage" => c.seq = d.seq
      /\ c.slots = d.slots
      /\ a = "temporal" => c.within = d.within /\ c.total = d.total
      /\ a = "lineage" => c.depth = d.depth
  BY <1>7, <1>8 DEF Compiled, a
<1> HIDE DEF c, d
<1>10. Refused(c) <=> Refused(d)
  BY <1>2, <1>9 DEF Refused, RequiresSequence
<1>11. ASSUME NEW group PROVE Matches(c, group) = Matches(d, group)
  <2>1. CASE a = "sequence"
    BY <1>9, <2>1 DEF Matches
  <2>2. CASE a = "field"
    BY <1>9, <2>2 DEF Matches
  <2>3. CASE a = "temporal"
    <3>1. ASSUME NEW events PROVE Windowed(c, events) = Windowed(d, events)
      <4>1. c.seq = d.seq /\ c.within = d.within /\ c.total = d.total
        BY <1>9, <2>3
      <4>2. QED BY <4>1 DEF Windowed, Visit, Completes
    <3>2. QED BY <1>9, <2>3, <3>1 DEF Matches
  <2>4. CASE a = "lineage"
    BY <1>9, <2>4 DEF Matches, Lineage
  <2>5. QED BY <1>2, <2>1, <2>2, <2>3, <2>4
<1>12. \A log : Generate(c, log) = Generate(d, log)
  BY <1>9, <1>11, GenerateReads
<1>13. a = "lineage" => \A log : AsProcesses(s, log) = AsProcesses(t, log)
  <2>1. a = "lineage" => CreateIDs(s) = CreateIDs(t)
    BY <1>8 DEF CreateIDs
  <2>2. QED BY <2>1 DEF AsProcesses
<1>14. ASSUME NEW log PROVE Evaluate(t, log) = Evaluate(s, log)
  <2> DEFINE given == IF a = "lineage" THEN AsProcesses(s, log) ELSE log
  <2>1. given = IF a = "lineage" THEN AsProcesses(t, log) ELSE log
    BY <1>13
  <2> HIDE DEF given
  <2>2. Evaluate(s, log) = IF Refused(c) THEN [matches |-> <<>>, dropped |-> 0] ELSE Generate(c, given)
    BY <1>9 DEF Evaluate, c, given
  <2>3. Evaluate(t, log) = IF Refused(d) THEN [matches |-> <<>>, dropped |-> 0] ELSE Generate(d, given)
    BY <1>9, <2>1 DEF Evaluate, d
  <2>4. QED BY <1>10, <1>12, <2>2, <2>3
<1>15. QED BY <1>14 DEF t

\* Reformatting, line by line.
FileLines(K, V) == [key : K, value : V]
Reline(file, out, i) ==
    IF i # Min(Lines(file, file[i].key)) THEN out ELSE Append(out, file[Max(Lines(file, file[i].key))])
Rewrites(file, out, k) ==
    /\ \A j \in DOMAIN out : \E i \in DOMAIN file : out[j].key = file[i].key /\ out[j] = file[Max(Lines(file, file[i].key))]
    /\ \A i \in 1 .. k : \E j \in DOMAIN out : out[j].key = file[i].key

LEMMA LastLine ==
    ASSUME NEW K, NEW V, NEW file \in Seq(FileLines(K, V)), NEW i \in DOMAIN file
    PROVE  LET S == Lines(file, file[i].key)
           IN /\ Max(S) \in S /\ Max(S) \in DOMAIN file /\ file[Max(S)] \in FileLines(K, V)
              /\ Min(S) \in S /\ Min(S) \in DOMAIN file /\ Min(S) <= i
<1> DEFINE S == Lines(file, file[i].key)
<1>1. Len(file) \in Nat /\ DOMAIN file = 1 .. Len(file) /\ \A j \in DOMAIN file : file[j] \in FileLines(K, V)
  OBVIOUS
<1>2. S \in SUBSET (0 .. Len(file)) /\ S \in SUBSET Nat /\ i \in S /\ S \subseteq DOMAIN file
  BY <1>1 DEF Lines
<1> HIDE DEF S
<1>3. QED BY <1>1, <1>2, MaxBelow, MinIsLeast DEF S

LEMMA RewriteStep ==
    ASSUME NEW K, NEW V, NEW file \in Seq(FileLines(K, V)), NEW i \in DOMAIN file, NEW out \in Seq(FileLines(K, V))
    PROVE  /\ Reline(file, out, i) \in Seq(FileLines(K, V))
           /\ Rewrites(file, out, i - 1) => Rewrites(file, Reline(file, out, i), i)
<1> DEFINE S == Lines(file, file[i].key)
           new == Append(out, file[Max(S)])
<1>1. /\ Max(S) \in S /\ Max(S) \in DOMAIN file /\ file[Max(S)] \in FileLines(K, V)
      /\ Min(S) \in S /\ Min(S) \in DOMAIN file /\ Min(S) <= i
  BY LastLine
<1>2. file[Max(S)].key = file[i].key /\ file[Min(S)].key = file[i].key /\ i \in 1 .. Len(file) /\ Len(file) \in Nat
  BY <1>1 DEF Lines
<1> HIDE DEF S
<1>3. /\ new \in Seq(FileLines(K, V)) /\ DOMAIN new = DOMAIN out \cup {Len(out) + 1}
      /\ new[Len(out) + 1] = file[Max(S)] /\ \A j \in DOMAIN out : new[j] = out[j]
  <2> DEFINE L == FileLines(K, V)
             last == file[Max(S)]
  <2>1. out \in Seq(L) /\ last \in L
    BY <1>1
  <2> HIDE DEF L, last
  <2>2. QED BY <2>1 DEF L, last
<1> HIDE DEF new
<1>4. CASE i # Min(S)
  <2>1. Reline(file, out, i) = out
    BY <1>4 DEF Reline, S
  <2>2. Min(S) \in 1 .. (i - 1)
    BY <1>1, <1>2, <1>4
  <2>3. ASSUME Rewrites(file, out, i - 1), NEW m \in 1 .. i PROVE \E j \in DOMAIN out : out[j].key = file[m].key
    <3>1. m \in 1 .. (i - 1) \/ m = i
      BY <1>2
    <3>2. QED BY <1>2, <2>2, <2>3, <3>1 DEF Rewrites
  <2>4. QED BY <2>1, <2>3 DEF Rewrites
<1>5. CASE i = Min(S)
  <2>1. Reline(file, out, i) = new
    BY <1>5 DEF Reline, S, new
  <2>2. ASSUME Rewrites(file, out, i - 1), NEW m \in 1 .. i PROVE \E j \in DOMAIN new : new[j].key = file[m].key
    <3>1. m \in 1 .. (i - 1) \/ m = i
      BY <1>2
    <3>2. QED BY <1>2, <1>3, <2>2, <3>1, SMTT(30) DEF Rewrites
  <2>3. ASSUME Rewrites(file, out, i - 1), NEW j \in DOMAIN new
        PROVE  \E m \in DOMAIN file : new[j].key = file[m].key /\ new[j] = file[Max(Lines(file, file[m].key))]
    BY <1>2, <1>3, <2>3, ZenonT(30) DEF Rewrites, S
  <2>4. QED BY <1>3, <2>1, <2>2, <2>3 DEF Rewrites
<1>6. QED BY <1>4, <1>5

LEMMA PrettyRewrites ==
    ASSUME NEW K, NEW V, NEW file \in Seq(FileLines(K, V))
    PROVE  Pretty(file) \in Seq(FileLines(K, V)) /\ Rewrites(file, Pretty(file), Len(file))
<1> DEFINE n == Len(file)
           numbers == [i \in DOMAIN file |-> i]
           X == Seq(FileLines(K, V))
           f == [z \in X \X (1 .. n) |-> Reline(file, z[1], z[2])]
           Folds(g) == g = [s \in SUBSET DOMAIN numbers |->
                               IF s = {} THEN <<>> ELSE Reline(file, g[s \ {Max(s)}], numbers[Max(s)])]
           h == CHOOSE g : Folds(g)
           Fine == {k \in 0 .. n : h[1 .. k] \in X /\ Rewrites(file, h[1 .. k], k)}
<1>1. n \in Nat /\ DOMAIN file = 1 .. n /\ DOMAIN numbers = 1 .. n /\ \A k \in 1 .. n : numbers[k] = k
  OBVIOUS
<1>2. <<>> \in X /\ Rewrites(file, <<>>, 0)
  BY DEF Rewrites
<1>3. f \in [X \X (1 .. n) -> X]
  BY <1>1, RewriteStep
<1>4. PICK g \in [SUBSET (1 .. n) -> X] : FoldOn(g, n, <<>>, f)
  <2> HIDE DEF X, f, n
  <2>1. QED BY <1>1, <1>2, <1>3, FoldExists
<1>5. Folds(g)
  <2>1. ASSUME NEW s \in SUBSET (1 .. n), s # {}
        PROVE  f[<<g[s \ {Max(s)}], Max(s)>>] = Reline(file, g[s \ {Max(s)}], numbers[Max(s)])
    <3>1. Max(s) \in 1 .. n
      <4>1. s \in SUBSET (0 .. n)
        OBVIOUS
      <4> HIDE DEF n
      <4>2. QED BY <1>1, <2>1, <4>1, MaxBelow
    <3>2. g[s \ {Max(s)}] \in X /\ numbers[Max(s)] = Max(s)
      <4> HIDE DEF X, numbers, n
      <4>1. QED BY <1>1, <1>4, <3>1
    <3> HIDE DEF X, numbers, n
    <3>3. QED BY <3>1, <3>2
  <2> HIDE DEF X, f, n, numbers
  <2>2. QED BY <1>1, <1>4, <2>1 DEF FoldOn
<1> HIDE DEF X, f
<1>6. Folds(h)
  <2> HIDE DEF Folds
  <2>1. QED BY <1>5
<1>7. Pretty(file) = h[1 .. n]
  <2>1. Pretty(file) = h[DOMAIN numbers]
    BY DEF Pretty, FoldLeftDomain, FoldLeft, MapThenFoldSet, Reline
  <2> HIDE DEF h, numbers, n
  <2>2. QED BY <1>1, <2>1
<1> HIDE DEF h, numbers
<1>8. h[1 .. 0] = <<>> /\ \A k \in 1 .. n : h[1 .. k] = Reline(file, h[1 .. (k - 1)], k)
  <2> HIDE DEF n
  <2>1. 1 .. 0 = {} /\ h[1 .. 0] = <<>>
    BY <1>1, <1>6
  <2>2. ASSUME NEW k \in 1 .. n PROVE h[1 .. k] = Reline(file, h[1 .. (k - 1)], k)
    <3>1. Ends(n, k)
      BY <1>1, Intervals
    <3>2. h[1 .. k] = Reline(file, h[(1 .. k) \ {Max(1 .. k)}], numbers[Max(1 .. k)])
      BY <1>1, <1>6, <3>1 DEF Ends
    <3>3. QED BY <1>1, <3>1, <3>2 DEF Ends
  <2>3. QED BY <2>1, <2>2
<1>9. 0 \in Fine
  BY <1>1, <1>2, <1>8
<1>10. ASSUME NEW k \in 1 .. n, k - 1 \in Fine PROVE k \in Fine
  <2> DEFINE o == h[1 .. (k - 1)]
  <2>1. h[1 .. k] = Reline(file, o, k) /\ o \in X /\ Rewrites(file, o, k - 1) /\ k \in DOMAIN file /\ k \in 0 .. n
    BY <1>1, <1>8, <1>10
  <2> HIDE DEF o
  <2>2. Reline(file, o, k) \in X /\ Rewrites(file, Reline(file, o, k), k)
    BY <2>1, RewriteStep DEF X
  <2>3. QED BY <2>1, <2>2
<1>11. n \in Fine
  <2> HIDE DEF Fine, n
  <2>1. n \in 0 .. n
    BY <1>1
  <2>2. QED BY <1>1, <1>9, <1>10, <2>1, UpTo
<1>12. QED BY <1>7, <1>11 DEF X

\* Reformatting a file leaves its rule and what is said of it, whatever keys it repeats and in
\* whatever order. (format.go against Parse and advisories.)
THEOREM ReformattedReadsTheSame ==
    ASSUME NEW K, NEW V, NEW file \in Seq([key : K, value : V])
    PROVE  Decode(Pretty(file)) = Decode(file) /\ Advisories(Pretty(file)) = Advisories(file)
<1> DEFINE out == Pretty(file)
<1>1. file \in Seq(FileLines(K, V))
  BY DEF FileLines
<1>2. out \in Seq(FileLines(K, V)) /\ Rewrites(file, out, Len(file)) /\ DOMAIN file = 1 .. Len(file)
  BY <1>1, PrettyRewrites
<1> HIDE DEF out
<1>3. /\ \A j \in DOMAIN out : \E i \in DOMAIN file :
             out[j].key = file[i].key /\ out[j] = file[Max(Lines(file, file[i].key))]
      /\ \A i \in DOMAIN file : \E j \in DOMAIN out : out[j].key = file[i].key
  BY <1>2 DEF Rewrites
<1>4. ASSUME NEW f
      PROVE  /\ Lines(out, f) = {} <=> Lines(file, f) = {}
             /\ Lines(out, f) # {} => out[Max(Lines(out, f))] = file[Max(Lines(file, f))]
  <2>1. Lines(out, f) = {} <=> Lines(file, f) = {}
    <3>1. Lines(out, f) # {} <=> \E j \in DOMAIN out : out[j].key = f
      BY DEF Lines
    <3>2. Lines(file, f) # {} <=> \E i \in DOMAIN file : file[i].key = f
      BY DEF Lines
    <3>3. QED BY <1>3, <3>1, <3>2
  <2>2. ASSUME NEW j \in DOMAIN out, out[j].key = f PROVE out[j] = file[Max(Lines(file, f))]
    BY <1>3, <2>2
  <2>3. ASSUME Lines(out, f) # {} PROVE Max(Lines(out, f)) \in DOMAIN out /\ out[Max(Lines(out, f))].key = f
    <3>1. PICK j \in DOMAIN out : out[j].key = f
      BY <2>3 DEF Lines
    <3>2. Max(Lines(out, out[j].key)) \in Lines(out, out[j].key)
      BY <1>2, LastLine
    <3>3. QED BY <3>1, <3>2 DEF Lines
  <2>4. QED BY <2>1, <2>2, <2>3
<1>5. Decode(out) = Decode(file)
  BY <1>4 DEF Decode
<1>6. UnknownFields(out) = UnknownFields(file)
  <2>1. {out[i].key : i \in DOMAIN out} = {file[i].key : i \in DOMAIN file}
    BY <1>3
  <2>2. QED BY <2>1 DEF UnknownFields
<1>7. QED BY <1>5, <1>6 DEF Advisories, out

-----------------------------------------------------------------------------
(* The pattern of a rule, found once.                                          *)

\* Events a fixed time apart.
IsPaced(log, gap) ==
    /\ Len(log) \in Nat /\ log = [i \in 1 .. Len(log) |-> log[i]]
    /\ \A i \in 1 .. Len(log) : log[i].id = i /\ log[i].at = 1 + (i - 1) * gap

LEMMA TimesGrow ==
    ASSUME NEW gap \in Nat
    PROVE  /\ \A i \in Nat : i * gap \in Nat /\ (i + 1) * gap = i * gap + gap
           /\ \A i, j \in Nat : i <= j => i * gap <= j * gap
<1>1. \A i \in Nat : i * gap \in Nat /\ (i + 1) * gap = i * gap + gap
  OBVIOUS
<1>2. ASSUME NEW i \in Nat, NEW j \in Nat, i <= j PROVE i * gap <= j * gap
  <2>1. PICK d \in Nat : j = i + d
    <3>1. j - i \in Nat /\ j = i + (j - i)
      BY <1>2
    <3>2. QED BY <3>1
  <2>2. j * gap = i * gap + d * gap
    BY <2>1
  <2>3. i * gap \in Nat /\ d * gap \in Nat
    BY <1>1
  <2>4. QED BY <2>2, <2>3
<1>3. QED BY <1>1, <1>2

LEMMA PacedIsLog ==
    ASSUME NEW gap \in Nat, NEW log, IsPaced(log, gap)
    PROVE  /\ IsLog(log) /\ Prepare(log) = log /\ Cardinality(ToSet(log)) = Len(log)
           /\ \A c : IsLog(c) /\ ToSet(c) \subseteq ToSet(log) =>
                  Len(c) <= Len(log) /\ (Len(c) = Len(log) => c = log) /\ (ToSet(c) = ToSet(log) => c = log)
<1> DEFINE n == Len(log)
           D == ToSet(log)
<1>1. /\ n \in Nat /\ DOMAIN log = 1 .. n /\ log = [i \in 1 .. n |-> log[i]] /\ D = {log[i] : i \in 1 .. n}
      /\ \A i \in 1 .. n : log[i].id = i /\ log[i].at = 1 + (i - 1) * gap
  BY DEF IsPaced, ToSet
<1> HIDE DEF n, D
<1>2. \A i \in 1 .. n : log[i] \in D /\ log[i].id \in Nat /\ log[i].at \in Nat /\ log[i].at # 0
  <2>1. ASSUME NEW i \in 1 .. n PROVE 1 + (i - 1) * gap \in Nat \ {0}
    <3>1. i - 1 \in Nat
      BY <1>1
    <3>2. (i - 1) * gap \in Nat
      BY <3>1, TimesGrow
    <3>3. QED BY <3>2
  <2>2. QED BY <1>1, <2>1
<1>3. ASSUME NEW i \in 1 .. n, NEW j \in 1 .. n, i < j PROVE Earlier(log[i], log[j])
  <2>1. i - 1 \in Nat /\ j - 1 \in Nat /\ i - 1 <= j - 1
    BY <1>1, <1>3
  <2>2. (i - 1) * gap \in Nat /\ (j - 1) * gap \in Nat /\ (i - 1) * gap <= (j - 1) * gap
    BY <2>1, TimesGrow
  <2>3. log[i].at <= log[j].at /\ log[i].at \in Nat /\ log[j].at \in Nat
    BY <1>1, <2>2
  <2>4. log[i].id < log[j].id
    BY <1>1, <1>3
  <2>5. QED BY <2>3, <2>4 DEF Earlier
<1>4. AreEvents(D)
  <2>1. IsFiniteSet(D)
    <3>1. IsFiniteSet(1 .. n)
      BY <1>1, FS_Interval
    <3>2. log \in Surjection(1 .. n, D)
      BY <1>1, <1>2 DEF Surjection
    <3>3. QED BY <3>1, <3>2, FS_Surjection
  <2>2. \A e \in D : \E i \in 1 .. n : e = log[i]
    BY <1>1
  <2>3. ASSUME NEW e \in D, NEW f \in D, e.id = f.id PROVE e = f
    <3>1. PICK i \in 1 .. n, j \in 1 .. n : e = log[i] /\ f = log[j]
      BY <2>2
    <3>2. QED BY <1>1, <2>3, <3>1, SMTT(30)
  <2>4. \A e \in D : e.id \in Nat /\ e.at \in Nat
    BY <1>2, <2>2
  <2>5. QED BY <2>1, <2>3, <2>4 DEF AreEvents
<1>5. log \in Seq(D) /\ log \in [1 .. n -> D]
  <2>1. [i \in 1 .. n |-> log[i]] \in [1 .. n -> D]
    BY <1>2
  <2>2. log \in [1 .. n -> D]
    BY <1>1, <2>1, Zenon
  <2>3. n \in Nat
    BY <1>1
  <2>4. QED BY <2>2, <2>3
<1>6. IsLog(log)
  BY <1>3, <1>4, <1>5 DEF IsLog, n, D
<1>7. Ordered(D, Earlier) = log /\ Cardinality(D) = n
  <2>1. \A x \in D : \E i \in 1 .. n : log[i] = x
    BY <1>1
  <2>2. QED BY <1>1, <1>3, <1>4, <1>5, <2>1, InOrderIsOrdered, ZenonT(60)
<1>8. Prepare(log) = log
  <2>1. \A e \in D : e.at # Undated
    <3>1. ASSUME NEW e \in D PROVE e.at # Undated
      <4>1. PICK i \in 1 .. n : e = log[i]
        BY <1>1
      <4>2. QED BY <1>2, <4>1 DEF Undated
    <3>2. QED BY <3>1
  <2>2. {e \in ToSet(log) : e.at # Undated} = D
    BY <2>1 DEF D
  <2>3. QED BY <1>7, <2>2 DEF Prepare
<1>9. ASSUME NEW c, IsLog(c), ToSet(c) \subseteq D
      PROVE  Len(c) <= n /\ (Len(c) = n => c = log) /\ (ToSet(c) = D => c = log)
  <2> DEFINE C == ToSet(c)
  <2>1. AreEvents(C) /\ C \subseteq D /\ Len(c) \in Nat
    BY <1>9, LogIs DEF IsLog
  <2>2. Ordered(C, Earlier) = c /\ Cardinality(C) = Len(c)
    <3>1. c \in [1 .. Len(c) -> C] /\ \A x \in C : \E i \in 1 .. Len(c) : c[i] = x
      <4>1. c \in Seq(C) /\ C = {c[i] : i \in 1 .. Len(c)}
        BY <1>9, LogIs DEF IsLog
      <4> HIDE DEF C
      <4>2. QED BY <4>1
    <3>2. \A i, j \in 1 .. Len(c) : i < j => Earlier(c[i], c[j])
      BY <1>9 DEF IsLog
    <3> HIDE DEF C
    <3>3. QED BY <2>1, <3>1, <3>2, InOrderIsOrdered
  <2> HIDE DEF C
  <2>3. Cardinality(C) <= Cardinality(D) /\ (Cardinality(D) = Cardinality(C) => D = C)
    BY <1>4, <2>1, FS_Subset DEF AreEvents
  <2>4. QED BY <1>7, <2>2, <2>3 DEF C
<1>10. QED BY <1>6, <1>7, <1>8, <1>9 DEF n, D

\* Something is in the parts put together exactly if something is in one of them.
IsList(x) == x \in Seq(ToSet(x))

LEMMA FlattenHolds ==
    ASSUME NEW k \in Nat, NEW ss, ss = [i \in 1 .. k |-> ss[i]], \A i \in 1 .. k : IsList(ss[i])
    PROVE  IsList(FlattenSeq(ss)) /\ (FlattenSeq(ss) # <<>> <=> \E i \in 1 .. k : ss[i] # <<>>)
<1> DEFINE X == UNION {ToSet(ss[i]) : i \in 1 .. k}
<1>1. CASE k = 0
  <2>1. ss = <<>>
    <3>1. DOMAIN ss = 1 .. 0
      BY <1>1
    <3>2. QED BY <3>1, <1>1
  <2>2. FlattenSeq(ss) = <<>>
    BY <2>1 DEF FlattenSeq
  <2>3. IsList(<<>>) /\ 1 .. 0 = {}
    BY DEF IsList
  <2>4. QED BY <1>1, <2>2, <2>3
<1>2. CASE k # 0
  <2>1. k \in Nat \ {0}
    BY <1>2
  <2>2. \A i \in 1 .. k : ss[i] \in Seq(X)
    <3>1. ASSUME NEW i \in 1 .. k PROVE ss[i] \in Seq(X)
      <4> DEFINE Y == ToSet(ss[i])
      <4>1. Y \subseteq X /\ ss[i] \in Seq(Y)
        BY DEF IsList
      <4> HIDE DEF X, Y
      <4>2. QED BY <4>1
    <3>2. QED BY <3>1
  <2> HIDE DEF X
  <2>3. PICK f \in [1 .. k -> Seq(X)] : Flattened(ss, k, f)
    BY <2>1, <2>2, FlattenIs
  <2> DEFINE Fine == {d \in 0 .. (k - 1) : f[d + 1] # <<>> <=> \E i \in 1 .. d + 1 : ss[i] # <<>>}
  <2>4. 0 \in Fine
    <3>1. 0 \in 0 .. (k - 1) /\ 1 .. 0 + 1 = {1} /\ 0 + 1 = 1
      BY <2>1
    <3>2. QED BY <2>3, <3>1 DEF Flattened
  <2>5. ASSUME NEW d \in 1 .. (k - 1), d - 1 \in Fine PROVE d \in Fine
    <3>1. /\ (d - 1) + 1 = d /\ d + 1 \in 2 .. k /\ d + 1 \in 1 .. k /\ (d + 1) - 1 = d /\ d \in 0 .. (k - 1) /\ d \in 1 .. k
          /\ \A i \in 1 .. d + 1 : i \in 1 .. d \/ i = d + 1
          /\ \A i \in 1 .. d : i \in 1 .. d + 1
          /\ d + 1 \in 1 .. d + 1
      BY <2>1
    <3>2. f[d + 1] = f[d] \o ss[d + 1] /\ f[d] \in Seq(X) /\ ss[d + 1] \in Seq(X)
      BY <2>2, <2>3, <3>1 DEF Flattened
    <3>3. f[d + 1] # <<>> <=> f[d] # <<>> \/ ss[d + 1] # <<>>
      BY <3>2
    <3>4. f[d] # <<>> <=> \E i \in 1 .. d : ss[i] # <<>>
      BY <2>5, <3>1
    <3>5. QED BY <3>1, <3>3, <3>4
  <2>6. k - 1 \in 0 .. (k - 1) /\ k - 1 \in Nat /\ (k - 1) + 1 = k /\ k \in 1 .. k
    BY <2>1
  <2>7. k - 1 \in Fine
    <3> HIDE DEF Fine
    <3>1. QED BY <2>4, <2>5, <2>6, UpTo
  <2>8. FlattenSeq(ss) = f[k] /\ f[k] \in Seq(X)
    BY <2>3, <2>6 DEF Flattened
  <2>9. IsList(f[k])
    BY <2>8 DEF IsList, ToSet
  <2>10. QED BY <2>6, <2>7, <2>8, <2>9
<1>3. QED BY <1>1, <1>2

\* What is found is kept, if there is room for one.
LEMMA GenerateFinds ==
    ASSUME NEW rule, NEW log, IsList(AllMatches(rule, Groups(Prepare(log), rule.scope)))
    PROVE  Generate(rule, log).matches # <<>> <=> AllMatches(rule, Groups(Prepare(log), rule.scope)) # <<>>
<1> DEFINE all == AllMatches(rule, Groups(Prepare(log), rule.scope))
           kept == Min({Len(all), MaxMatches})
<1>1. Generate(rule, log).matches = SubSeq(all, 1, kept)
  BY DEF Generate, AllMatches
<1>2. all \in Seq(ToSet(all)) /\ Len(all) \in Nat
  BY DEF IsList
<1> HIDE DEF all
<1>3. \A a, b \in Nat : Min({a, b}) = IF a <= b THEN a ELSE b
  BY DEF Min
<1>4. kept \in 0 .. Len(all) /\ (kept = 0 <=> Len(all) = 0)
  BY <1>2, <1>3, MaxMatchesAssumption
<1> HIDE DEF kept
<1>5. SubSeq(all, 1, kept) = <<>> <=> kept = 0
  BY <1>2, <1>4
<1>6. all = <<>> <=> Len(all) = 0
  BY <1>2
<1>7. QED BY <1>1, <1>4, <1>5, <1>6 DEF all


\* The groups of a log are parts of one host each, or the log; they hold it whole if it is of one host.
OneHost(scope, D) == \A e, f \in D : scope = "global" \/ e.computer = f.computer

LEMMA GroupsAre ==
    ASSUME NEW ds, IsLog(ds), \A e \in ToSet(ds) : e.computer \in Nat, NEW scope
    PROVE  LET groups == Groups(ds, scope)
           IN /\ Len(groups) \in Nat /\ DOMAIN groups = 1 .. Len(groups)
              /\ \A g \in 1 .. Len(groups) : /\ IsLog(groups[g]) /\ ToSet(groups[g]) \subseteq ToSet(ds)
                                             /\ OneHost(scope, ToSet(groups[g]))
              /\ OneHost(scope, ToSet(ds)) /\ ds # <<>> => \E g \in 1 .. Len(groups) : ToSet(groups[g]) = ToSet(ds)
<1> DEFINE groups == Groups(ds, scope)
           D == ToSet(ds)
<1>1. ds # <<>> => D # {}
  BY DEF IsLog, ToSet
<1>2. CASE scope = "global"
  <2>1. groups = IF ds = <<>> THEN <<>> ELSE <<ds>>
    BY <1>2 DEF Groups
  <2>2. \A E : OneHost(scope, E)
    BY <1>2 DEF OneHost
  <2> HIDE DEF groups
  <2>3. CASE ds = <<>>
    BY <2>1, <2>3 DEF groups
  <2>4. CASE ds # <<>>
    <3>1. Len(groups) = 1 /\ DOMAIN groups = 1 .. 1 /\ groups[1] = ds
      BY <2>1, <2>4
    <3>2. 1 \in 1 .. 1 /\ \A g \in 1 .. 1 : groups[g] = ds
      BY <3>1
    <3>3. QED BY <2>2, <3>1, <3>2 DEF groups
  <2>5. QED BY <2>3, <2>4
<1>3. CASE scope # "global"
  <2> DEFINE label == [e \in D |-> e.computer]
  <2>1. IsParted(label, groups) /\ DOMAIN label = D /\ \A e \in D : label[e] = e.computer
    BY <1>3, GroupsAreParted
  <2> HIDE DEF label, groups, D
  <2>2. Len(groups) \in Nat /\ DOMAIN groups = 1 .. Len(groups)
    BY <2>1 DEF IsParted
  <2>3. ASSUME NEW g \in 1 .. Len(groups)
        PROVE  IsLog(groups[g]) /\ ToSet(groups[g]) \subseteq D /\ OneHost(scope, ToSet(groups[g]))
    <3>1. IsLog(groups[g]) /\ ToSet(groups[g]) \subseteq D
      BY <2>1 DEF IsParted
    <3>2. ASSUME NEW e \in ToSet(groups[g]), NEW f \in ToSet(groups[g]) PROVE e.computer = f.computer
      <4>1. label[f] = label[e] /\ e \in D /\ f \in D
        BY <2>1, <3>1 DEF IsParted
      <4>2. QED BY <2>1, <4>1
    <3>3. QED BY <3>1, <3>2 DEF OneHost
  <2>4. ASSUME OneHost(scope, D), ds # <<>> PROVE \E g \in 1 .. Len(groups) : ToSet(groups[g]) = D
    <3>1. PICK e \in D : TRUE
      BY <1>1, <2>4
    <3>2. PICK g \in 1 .. Len(groups) : e \in ToSet(groups[g])
      BY <2>1, <3>1 DEF IsParted
    <3>3. \A f \in D : f \in ToSet(groups[g])
      <4>1. ASSUME NEW f \in D PROVE f \in ToSet(groups[g])
        <5>1. label[f] = label[e]
          BY <1>3, <2>1, <2>4 DEF OneHost
        <5>2. QED BY <2>1, <3>2, <5>1 DEF IsParted
      <4>2. QED BY <4>1
    <3>4. ToSet(groups[g]) \subseteq D
      BY <2>3
    <3>5. ToSet(groups[g]) = D
      BY <3>3, <3>4
    <3>6. QED BY <3>5
  <2>5. QED BY <2>2, <2>3, <2>4 DEF groups, D
<1>4. QED BY <1>2, <1>3

\* The buckets of a group are its cells; they hold it whole if it is one.
LEMMA BucketsAre ==
    ASSUME NEW rule, NEW group, IsLog(group), OneHost(rule.scope, ToSet(group))
    PROVE  LET buckets == Buckets(group, rule.slots)
           IN /\ Len(buckets) \in Nat /\ DOMAIN buckets = 1 .. Len(buckets)
              /\ \A b \in 1 .. Len(buckets) : IsCell(rule, buckets[b]) /\ ToSet(buckets[b]) \subseteq ToSet(group)
              /\ IsCell(rule, group) /\ group # <<>> => \E b \in 1 .. Len(buckets) : ToSet(buckets[b]) = ToSet(group)
<1> DEFINE slots == rule.slots
           D == ToSet(group)
           K == Keyed(group, slots)
           label == [e \in K |-> KeyOf(e, slots)]
           buckets == Buckets(group, slots)
<1>1. IsParted(label, buckets) /\ DOMAIN label = K /\ K \subseteq D
  BY BucketsAreParted DEF Keyed
<1>2. \A e \in K : e \in D /\ label[e] = KeyOf(e, slots) /\ \A s \in slots : e.keys[s] # Absent
  BY DEF Keyed
<1>3. (\A e \in D, s \in slots : e.keys[s] # Absent) => K = D
  BY DEF Keyed
<1> HIDE DEF label, buckets, K
<1>4. ASSUME NEW b \in 1 .. Len(buckets) PROVE IsCell(rule, buckets[b]) /\ ToSet(buckets[b]) \subseteq D
  <2>1. IsLog(buckets[b]) /\ ToSet(buckets[b]) \subseteq K
    BY <1>1 DEF IsParted
  <2>2. \A j \in 1 .. Len(buckets[b]) : buckets[b][j] \in ToSet(buckets[b]) /\ buckets[b][j] \in K
    BY <2>1, LogIs
  <2>3. \A e, f \in ToSet(buckets[b]) : label[f] = label[e]
    BY <1>1, <2>1 DEF IsParted
  <2>4. \A e, f \in ToSet(buckets[b]) : Alike(rule, e, f)
    BY <1>2, <2>1, <2>3 DEF Alike, OneHost
  <2>5. QED BY <1>1, <1>2, <2>1, <2>2, <2>4 DEF IsCell
<1>5. ASSUME IsCell(rule, group), group # <<>> PROVE \E b \in 1 .. Len(buckets) : ToSet(buckets[b]) = D
  <2>1. D = {group[i] : i \in 1 .. Len(group)}
    BY LogIs
  <2>2. \A e \in D, s \in slots : e.keys[s] # Absent
    BY <1>5, <2>1 DEF IsCell
  <2>3. \A e, f \in D : KeyOf(e, slots) = KeyOf(f, slots)
    BY <1>5, <2>1 DEF IsCell, Alike
  <2>4. PICK e \in D : TRUE
    BY <1>5 DEF IsLog, ToSet
  <2> HIDE DEF D
  <2>5. K = D
    BY <1>3, <2>2
  <2>6. PICK b \in 1 .. Len(buckets) : e \in ToSet(buckets[b])
    BY <1>1, <2>4, <2>5 DEF IsParted
  <2>7. \A f \in D : f \in ToSet(buckets[b])
    <3>1. ASSUME NEW f \in D PROVE f \in ToSet(buckets[b])
      <4>1. label[f] = label[e]
        BY <1>2, <2>3, <2>5
      <4>2. QED BY <1>1, <2>5, <2>6, <4>1 DEF IsParted
    <3>2. QED BY <3>1
  <2>8. QED BY <1>4, <2>7, SMTT(30)
<1>6. Len(buckets) \in Nat /\ DOMAIN buckets = 1 .. Len(buckets)
  BY <1>1 DEF IsParted
<1>7. QED BY <1>4, <1>5, <1>6 DEF buckets, D

\* The sweep within a window, for any rule: what one event changes.
LEMMA VisitHas ==
    ASSUME NEW rule, IsRule(rule), NEW c, NEW k, NEW st \in Windows(rule, c)
    PROVE  LET n == Len(rule.seq)
               v == Visit(rule, c, st, k)
               done(s) == Completes(rule, c, st, k, s)
           IN /\ done(n) => v.found # <<>>
              /\ ~done(n) /\ st.last[n] # k =>
                     /\ v.found = st.found
                     /\ \A s \in 1 .. n : /\ v.last[s] = IF done(s) THEN k ELSE st.last[s]
                                          /\ v.prev[s] = IF v.last[s] # k THEN st.prev[s]
                                                         ELSE IF s = 1 THEN 0 ELSE st.last[s - 1]
<1> DEFINE n == Len(rule.seq)
           Y == [1 .. n -> 0 .. Len(c)]
           done(s) == Completes(rule, c, st, k, s)
           last == [s \in 1 .. n |-> Remembers(done(s), k, st.last[s])]
           prev == [s \in 1 .. n |-> IF last[s] # k THEN st.prev[s] ELSE IF s = 1 THEN 0 ELSE st.last[s - 1]]
           chain == [s \in 1 .. n |-> IF s = n THEN k ELSE prev[s + 1]]
           v == Visit(rule, c, st, k)
<1>1. n \in 1 .. n /\ DOMAIN rule.seq = 1 .. n
  BY DEF IsRule
<1>2. st.found \in Seq(Y) /\ st = [last |-> st.last, prev |-> st.prev, found |-> st.found]
  BY DEF Windows
<1>3. v = IF last[n] # k THEN [st EXCEPT !.last = last, !.prev = prev]
          ELSE [Fresh(rule.seq) EXCEPT !.found = Append(st.found, chain)]
  BY <1>1 DEF Visit
<1>4. \A s \in 1 .. n : last[s] = IF done(s) THEN k ELSE st.last[s]
  BY DEF Remembers
<1> HIDE DEF done, Y
<1>5. ASSUME done(n) PROVE v.found # <<>>
  <2>1. last[n] = k
    BY <1>1, <1>4, <1>5
  <2> HIDE DEF last, chain, v
  <2>2. v.found = Append(st.found, chain)
    BY <1>3, <2>1, FreshIs
  <2>3. QED BY <1>2, <2>2
<1>6. ASSUME ~done(n), st.last[n] # k PROVE v = [last |-> last, prev |-> prev, found |-> st.found]
  <2>1. last[n] # k
    BY <1>1, <1>4, <1>6
  <2> HIDE DEF last, prev, v
  <2>2. QED BY <1>2, <1>3, <2>1
<1>7. ASSUME ~done(n), st.last[n] # k
      PROVE  /\ v.found = st.found
             /\ \A s \in 1 .. n : /\ v.last[s] = IF done(s) THEN k ELSE st.last[s]
                                  /\ v.prev[s] = IF v.last[s] # k THEN st.prev[s] ELSE IF s = 1 THEN 0 ELSE st.last[s - 1]
  <2>1. v.last = last /\ v.prev = prev /\ v.found = st.found
    <3> HIDE DEF v, last, prev
    <3>1. QED BY <1>6, <1>7
  <2>2. \A s \in 1 .. n : prev[s] = IF last[s] # k THEN st.prev[s] ELSE IF s = 1 THEN 0 ELSE st.last[s - 1]
    OBVIOUS
  <2> HIDE DEF v, last, prev
  <2>3. QED BY <1>4, <2>1, <2>2
<1>8. QED BY <1>5, <1>7 DEF done

\* Before a step can be completed there are as many events behind it.
Behind(rule, k, st) ==
    st.found = <<>> /\ \A s \in 1 .. Len(rule.seq) : st.last[s] = 0 \/ (s <= st.last[s] /\ st.last[s] <= k)

LEMMA StaysBehind ==
    ASSUME NEW rule, IsRule(rule), Len(rule.seq) >= 2, NEW c, Len(c) \in Nat, NEW k \in 1 .. Len(c), k < Len(rule.seq),
           NEW st \in Windows(rule, c), Behind(rule, k - 1, st)
    PROVE  /\ ~Completes(rule, c, st, k, Len(rule.seq)) /\ \A s \in 1 .. Len(rule.seq) : st.last[s] # k
           /\ Behind(rule, k, Visit(rule, c, st, k))
<1> DEFINE n == Len(rule.seq)
           v == Visit(rule, c, st, k)
           done(s) == Completes(rule, c, st, k, s)
<1>1. n \in Nat /\ k \in Nat \ {0} /\ \A s \in 1 .. n : st.last[s] \in Nat
  <2>1. st.last \in [1 .. n -> 0 .. Len(c)]
    BY DEF Windows
  <2>2. QED BY <2>1 DEF IsRule
<1> HIDE DEF n
<1>2. \A s \in 1 .. n : st.last[s] = 0 \/ (s <= st.last[s] /\ st.last[s] <= k - 1)
  BY DEF Behind, n
<1>3. \A s \in 1 .. n : st.last[s] # k
  BY <1>1, <1>2
<1>4. \A s \in 1 .. n : done(s) => s <= k
  <2>1. ASSUME NEW s \in 1 .. n, done(s), s > 1 PROVE s <= k
    <3>1. s - 1 \in 1 .. n /\ s - 1 \in Nat
      BY <1>1, <2>1
    <3>2. st.last[s - 1] # 0
      BY <2>1 DEF Completes
    <3>3. QED BY <1>1, <1>2, <3>1, <3>2
  <2>2. QED BY <1>1, <2>1
<1>5. n \in 1 .. n /\ ~done(n)
  BY <1>1, <1>4 DEF n
<1>6. v.found = st.found /\ \A s \in 1 .. n : v.last[s] = IF done(s) THEN k ELSE st.last[s]
  BY <1>3, <1>5, VisitHas DEF n
<1> HIDE DEF v, done
<1>7. \A s \in 1 .. n : v.last[s] = 0 \/ (s <= v.last[s] /\ v.last[s] <= k)
  BY <1>1, <1>2, <1>4, <1>6
<1>8. Behind(rule, k, v)
  BY <1>6, <1>7 DEF Behind, n
<1>9. QED BY <1>3, <1>5, <1>8 DEF n, v, done

\* A log shorter than the rule is left without a match.
LEMMA TooShortForWindow ==
    ASSUME NEW rule, IsRule(rule), Len(rule.seq) >= 2, NEW c, Len(c) \in Nat, DOMAIN c = 1 .. Len(c), Len(c) < Len(rule.seq)
    PROVE  Windowed(rule, c) = <<>>
<1> DEFINE n == Len(c)
           X == Windows(rule, c)
<1>1. PICK h \in [0 .. n -> X] : /\ h[0] = Fresh(rule.seq) /\ \A k \in 1 .. n : h[k] = Visit(rule, c, h[k - 1], k)
                                 /\ Windowed(rule, c) = AsEvents(c, h[n].found)
  BY WindowSteps
<1> DEFINE Fine == {k \in 0 .. n : Behind(rule, k, h[k])}
<1>2. 0 \in Fine
  <2>1. Behind(rule, 0, Fresh(rule.seq))
    BY DEF Behind, Fresh, IsRule
  <2>2. QED BY <1>1, <2>1
<1>3. ASSUME NEW k \in 1 .. n, k - 1 \in Fine PROVE k \in Fine
  <2>1. h[k] = Visit(rule, c, h[k - 1], k) /\ h[k - 1] \in X /\ Behind(rule, k - 1, h[k - 1]) /\ k \in 0 .. n
    BY <1>1, <1>3
  <2>2. k < Len(rule.seq)
    BY DEF IsRule
  <2>3. Behind(rule, k, Visit(rule, c, h[k - 1], k))
    BY <2>1, <2>2, StaysBehind
  <2>4. QED BY <2>1, <2>3
<1>4. n \in Fine
  <2> HIDE DEF Fine
  <2>1. n \in 0 .. n
    OBVIOUS
  <2>2. QED BY <1>2, <1>3, <2>1, UpTo
<1>5. h[n].found = <<>>
  BY <1>4 DEF Behind
<1>6. AsEvents(c, <<>>) = <<>>
  BY DEF AsEvents
<1>7. QED BY <1>1, <1>5, <1>6

\* A chain of events that follow on each other began with the first.
LEMMA AnchorIsFirst ==
    ASSUME NEW n \in Nat, NEW prev, NEW s \in 1 .. n, \A t \in 2 .. s : prev[t] = t - 1
    PROVE  AnchorOf(prev, s, s) = 1
<1> DEFINE Is(at) == at = [k \in 0 .. s - 1 |-> IF k = 0 THEN s ELSE
                              IF prev[s - k + 1] = 0 THEN at[k - 1] ELSE prev[s - k + 1]]
           a == CHOOSE at : Is(at)
           w == [k \in 0 .. s - 1 |-> s - k]
<1>1. \A k \in 0 .. s - 1 : k # 0 => s - k + 1 \in 2 .. s /\ (s - k + 1) - 1 = s - k /\ s - k # 0
  OBVIOUS
<1>2. \A k \in 0 .. s - 1 : k # 0 => prev[s - k + 1] = s - k /\ s - k # 0
  BY <1>1
<1>3. Is(w)
  <2>1. \A k \in 0 .. s - 1 : s - k = IF k = 0 THEN s ELSE IF prev[s - k + 1] = 0 THEN w[k - 1] ELSE prev[s - k + 1]
    BY <1>2
  <2>2. QED BY <2>1
<1>4. Is(a)
  <2> HIDE DEF Is, w
  <2>1. QED BY <1>3
<1>5. AnchorOf(prev, s, s) = a[s - 1]
  BY DEF AnchorOf
<1> HIDE DEF a
<1>6. CASE s = 1
  BY <1>4, <1>5, <1>6
<1>7. CASE s # 1
  <2>1. s - 1 \in 0 .. s - 1 /\ s - 1 # 0 /\ s - (s - 1) + 1 = 2 /\ s - (s - 1) = 1
    BY <1>7
  <2>2. prev[2] = 1
    BY <1>2, <2>1
  <2>3. a[s - 1] = IF prev[2] = 0 THEN a[(s - 1) - 1] ELSE prev[2]
    BY <1>4, <2>1
  <2>4. QED BY <1>5, <2>2, <2>3
<1>8. QED BY <1>6, <1>7

\* The pattern of a window rule: as many events as steps, each the one its step names, a gap between each two.
IsPatternOf(rule, log, gap) ==
    /\ IsRule(rule) /\ Len(rule.seq) >= 2 /\ rule.within \in Int /\ rule.total \in Int
    /\ IsPaced(log, gap) /\ Len(log) = Len(rule.seq) /\ \A i \in 1 .. Len(log) : log[i].event = rule.seq[i]
Timely(rule, gap, k) == k > 1 => gap <= rule.within /\ (rule.total > 0 => (k - 1) * gap <= rule.total)
Differs(rule) == \A s, t \in 1 .. Len(rule.seq) : rule.seq[s] = rule.seq[t] => s = t
\* The rules of which the code measures the whole of a chain from its first event.
Measured(rule) == rule.total <= 0 \/ Len(rule.seq) <= 3 \/ Differs(rule)
OnPace(rule, gap, k, st) ==
    /\ Behind(rule, k, st)
    /\ k > 0 => /\ st.last[k] = k <=> Timely(rule, gap, k)
                /\ Timely(rule, gap, k) => \A s \in 2 .. k : Differs(rule) \/ s = k => st.prev[s] = s - 1

LEMMA PacedTimes ==
    ASSUME NEW rule, NEW log, NEW gap \in Nat, IsPatternOf(rule, log, gap), NEW k \in 2 .. Len(rule.seq)
    PROVE  /\ log[k].at - log[k - 1].at = gap /\ log[k].at - log[1].at = (k - 1) * gap /\ (k - 1) * gap \in Nat
           /\ Timely(rule, gap, k) => Timely(rule, gap, k - 1)
<1> DEFINE n == Len(rule.seq)
<1>1. n \in Nat /\ k \in 1 .. n /\ k - 1 \in 1 .. n /\ 1 \in 1 .. n /\ k - 2 \in Nat /\ k - 1 \in Nat /\ k - 2 <= k - 1
      /\ (k - 1) - 1 = k - 2 /\ (k - 2) + 1 = k - 1 /\ 0 \in Nat /\ 1 - 1 = 0
  BY DEF IsPatternOf, IsRule
<1>2. (k - 1) * gap = (k - 2) * gap + gap /\ (k - 2) * gap \in Nat /\ (k - 1) * gap \in Nat /\ (k - 2) * gap <= (k - 1) * gap
      /\ 0 * gap = 0
  BY <1>1, TimesGrow
<1>3. log[k].at = 1 + (k - 1) * gap /\ log[k - 1].at = 1 + ((k - 1) - 1) * gap /\ log[1].at = 1 + (1 - 1) * gap
  BY <1>1 DEF IsPatternOf, IsPaced
<1>4. rule.within \in Int /\ rule.total \in Int
  BY DEF IsPatternOf
<1> HIDE DEF n
<1>5. log[k - 1].at = 1 + (k - 2) * gap /\ log[1].at = 1 + 0 * gap
  BY <1>1, <1>3
<1> DEFINE x == (k - 1) * gap
           y == (k - 2) * gap
<1>6. x = y + gap /\ x \in Nat /\ y \in Nat /\ y <= x /\ log[k].at = 1 + x /\ log[k - 1].at = 1 + y /\ log[1].at = 1
  BY <1>2, <1>3, <1>5
<1>7. /\ Timely(rule, gap, k) <=> (gap <= rule.within /\ (rule.total > 0 => x <= rule.total))
      /\ Timely(rule, gap, k - 1) <=> (k - 1 > 1 => gap <= rule.within /\ (rule.total > 0 => y <= rule.total))
  <2>1. Timely(rule, gap, k - 1) <=> (k - 1 > 1 => gap <= rule.within /\ (rule.total > 0 => ((k - 1) - 1) * gap <= rule.total))
    BY DEF Timely
  <2>2. k > 1
    OBVIOUS
  <2>3. QED BY <1>1, <2>1, <2>2 DEF Timely
<1> HIDE DEF x, y
<1>8. QED BY <1>4, <1>6, <1>7 DEF x

LEMMA CompletesInTime ==
    ASSUME NEW rule, NEW log, NEW gap \in Nat, IsPatternOf(rule, log, gap), Measured(rule),
           NEW k \in 1 .. Len(rule.seq), NEW st \in Windows(rule, log), OnPace(rule, gap, k - 1, st)
    PROVE  Completes(rule, log, st, k, k) <=> Timely(rule, gap, k)
<1> DEFINE n == Len(rule.seq)
<1>1. n \in Nat /\ k \in Nat /\ log[k].event = rule.seq[k] /\ rule.within \in Int /\ rule.total \in Int
  BY DEF IsPatternOf, IsRule
<1>2. CASE k = 1
  BY <1>1, <1>2 DEF Completes, Timely
<1>3. CASE k # 1
  <2>1. k \in 2 .. n /\ k - 1 \in 1 .. n /\ k > 1 /\ k - 1 > 0 /\ k - 1 \in Nat /\ k - 1 # 0
    BY <1>1, <1>3
  <2>2. /\ log[k].at - log[k - 1].at = gap /\ log[k].at - log[1].at = (k - 1) * gap /\ (k - 1) * gap \in Nat
        /\ Timely(rule, gap, k) => Timely(rule, gap, k - 1)
    BY <2>1, PacedTimes
  <2>3. /\ st.last[k - 1] = 0 \/ (k - 1 <= st.last[k - 1] /\ st.last[k - 1] <= k - 1)
        /\ st.last[k - 1] = k - 1 <=> Timely(rule, gap, k - 1)
        /\ Timely(rule, gap, k - 1) => \A s \in 2 .. k - 1 : Differs(rule) \/ s = k - 1 => st.prev[s] = s - 1
    BY <2>1 DEF OnPace, Behind
  <2>4. st.last[k - 1] \in Nat
    <3>1. st.last \in [1 .. n -> 0 .. Len(log)]
      BY DEF Windows
    <3>2. QED BY <2>1, <3>1
  <2>5. st.last[k - 1] \in {0, k - 1}
    BY <2>1, <2>3, <2>4
  <2>6. CASE ~Timely(rule, gap, k - 1)
    <3>1. st.last[k - 1] = 0
      BY <2>3, <2>5, <2>6
    <3>2. QED BY <2>1, <2>2, <2>6, <3>1 DEF Completes
  <2>7. CASE Timely(rule, gap, k - 1)
    <3>1. st.last[k - 1] = k - 1
      BY <2>3, <2>7
    <3>2. rule.total > 0 => AnchorOf(st.prev, k - 1, k - 1) = 1
      <4>1. ASSUME rule.total > 0, NEW t \in 2 .. k - 1 PROVE st.prev[t] = t - 1
        <5>1. n <= 3 \/ Differs(rule)
          BY <1>1, <4>1 DEF Measured
        <5>2. n <= 3 => t = k - 1
          BY <1>1
        <5>3. QED BY <2>3, <2>7, <5>1, <5>2
      <4>2. QED BY <1>1, <2>1, <4>1, AnchorIsFirst
    <3>3. Completes(rule, log, st, k, k) <=>
              /\ log[k].at - log[k - 1].at <= rule.within
              /\ rule.total > 0 => log[k].at - log[AnchorOf(st.prev, k - 1, k - 1)].at <= rule.total
      BY <1>1, <2>1, <3>1 DEF Completes
    <3>4. QED BY <2>1, <2>2, <3>2, <3>3 DEF Timely
  <2>8. QED BY <2>6, <2>7
<1>4. QED BY <1>2, <1>3

LEMMA PaceStep ==
    ASSUME NEW rule, NEW log, NEW gap \in Nat, IsPatternOf(rule, log, gap), Measured(rule),
           NEW k \in 1 .. Len(rule.seq), k # Len(rule.seq), NEW st \in Windows(rule, log), OnPace(rule, gap, k - 1, st)
    PROVE  OnPace(rule, gap, k, Visit(rule, log, st, k))
<1> DEFINE n == Len(rule.seq)
           v == Visit(rule, log, st, k)
           done(s) == Completes(rule, log, st, k, s)
<1>1. /\ n \in Nat /\ k \in Nat /\ k > 0 /\ k < n /\ IsRule(rule) /\ n >= 2 /\ Len(log) = n
      /\ k \in 1 .. n /\ \A s \in 2 .. k : s \in 1 .. n /\ s - 1 \in 1 .. n
  BY DEF IsPatternOf, IsRule
<1>2. Behind(rule, k - 1, st)
  BY DEF OnPace
<1>3. ~done(n) /\ (\A s \in 1 .. n : st.last[s] # k) /\ Behind(rule, k, v)
  BY <1>1, <1>2, StaysBehind
<1>4. n \in 1 .. n
  BY <1>1
<1>5. \A s \in 1 .. n : /\ v.last[s] = IF done(s) THEN k ELSE st.last[s]
                        /\ v.prev[s] = IF v.last[s] # k THEN st.prev[s] ELSE IF s = 1 THEN 0 ELSE st.last[s - 1]
  BY <1>1, <1>3, <1>4, VisitHas
<1>6. done(k) <=> Timely(rule, gap, k)
  BY CompletesInTime
<1>7. \A s \in 1 .. n : Differs(rule) /\ s # k => ~done(s)
  BY <1>1 DEF Completes, Differs, IsPatternOf
<1> HIDE DEF n, v, done
<1>8. v.last[k] = k <=> Timely(rule, gap, k)
  BY <1>1, <1>3, <1>5, <1>6
<1>9. ASSUME Timely(rule, gap, k), NEW s \in 2 .. k, Differs(rule) \/ s = k PROVE v.prev[s] = s - 1
  <2>1. k \in 2 .. n /\ k - 1 > 0 /\ s \in 1 .. n
    BY <1>1
  <2>2. Timely(rule, gap, k - 1)
    BY <1>9, <2>1, PacedTimes DEF n
  <2>3. st.last[k - 1] = k - 1 /\ \A t \in 2 .. k - 1 : Differs(rule) \/ t = k - 1 => st.prev[t] = t - 1
    BY <2>1, <2>2 DEF OnPace
  <2>4. CASE s = k
    <3>1. v.last[s] = k /\ s # 1
      BY <1>8, <1>9, <2>1, <2>4
    <3>2. QED BY <1>5, <2>1, <2>3, <2>4, <3>1
  <2>5. CASE s # k
    <3>1. Differs(rule) /\ ~done(s) /\ s \in 2 .. k - 1
      BY <1>1, <1>7, <1>9, <2>1, <2>5
    <3>2. v.last[s] # k
      BY <1>3, <1>5, <2>1, <3>1
    <3>3. QED BY <1>5, <2>1, <2>3, <3>1, <3>2
  <2>6. QED BY <2>4, <2>5
<1>10. QED BY <1>1, <1>3, <1>8, <1>9 DEF OnPace, v

\* The sweep finds its own pattern exactly when each gap and the whole of it are within bounds.
LEMMA WindowFinds ==
    ASSUME NEW rule, NEW log, NEW gap \in Nat, IsPatternOf(rule, log, gap), Measured(rule)
    PROVE  Windowed(rule, log) # <<>> <=> Timely(rule, gap, Len(rule.seq))
<1> DEFINE n == Len(rule.seq)
           X == Windows(rule, log)
<1>1. n \in Nat /\ n >= 2 /\ IsRule(rule) /\ Len(log) = n /\ DOMAIN log = 1 .. n /\ log = [i \in 1 .. n |-> log[i]]
  BY DEF IsPatternOf, IsRule, IsPaced
<1>2. PICK h \in [0 .. n -> X] : /\ h[0] = Fresh(rule.seq) /\ \A k \in 1 .. n : h[k] = Visit(rule, log, h[k - 1], k)
                                 /\ Windowed(rule, log) = AsEvents(log, h[n].found)
  <2>1. Len(log) \in Nat /\ DOMAIN log = 1 .. Len(log) /\ Len(log) = n
    BY <1>1
  <2>2. \E h \in [0 .. Len(log) -> Windows(rule, log)] :
            /\ h[0] = Fresh(rule.seq) /\ \A k \in 1 .. Len(log) : h[k] = Visit(rule, log, h[k - 1], k)
            /\ Windowed(rule, log) = AsEvents(log, h[Len(log)].found)
    BY <1>1, <2>1, WindowSteps
  <2> HIDE DEF n
  <2>3. QED BY <2>1, <2>2
<1> DEFINE Fine == {k \in 0 .. n - 1 : OnPace(rule, gap, k, h[k])}
<1>3. 0 \in Fine
  <2>1. OnPace(rule, gap, 0, Fresh(rule.seq))
    BY <1>1 DEF OnPace, Behind, Fresh, IsRule
  <2>2. 0 \in 0 .. n - 1
    BY <1>1
  <2>3. QED BY <1>2, <2>1, <2>2
<1>4. ASSUME NEW k \in 1 .. n - 1, k - 1 \in Fine PROVE k \in Fine
  <2>1. k \in 1 .. n /\ k - 1 \in 0 .. n /\ k \in 0 .. n - 1 /\ k # n
    BY <1>1
  <2>2. h[k] = Visit(rule, log, h[k - 1], k) /\ h[k - 1] \in X /\ OnPace(rule, gap, k - 1, h[k - 1])
    BY <1>2, <1>4, <2>1
  <2>3. OnPace(rule, gap, k, Visit(rule, log, h[k - 1], k))
    BY <2>1, <2>2, PaceStep
  <2>4. QED BY <2>1, <2>2, <2>3
<1>5. n - 1 \in Fine
  <2> HIDE DEF Fine, n
  <2>1. n - 1 \in 0 .. n - 1 /\ n - 1 \in Nat
    BY <1>1
  <2>2. QED BY <1>3, <1>4, <2>1, UpTo
<1> DEFINE st == h[n - 1]
           v == Visit(rule, log, st, n)
<1>6. st \in X /\ OnPace(rule, gap, n - 1, st) /\ h[n] = v /\ n \in 1 .. n /\ n - 1 \in 0 .. n /\ n \in 0 .. n
  <2>1. n \in 1 .. n /\ n - 1 \in 0 .. n /\ n \in 0 .. n
    BY <1>1
  <2>2. QED BY <1>2, <1>5, <2>1
<1>7. h[n] \in X
  BY <1>2, <1>6
<1> HIDE DEF st
<1>8. Completes(rule, log, st, n, n) <=> Timely(rule, gap, n)
  BY <1>6, CompletesInTime
<1>9. st.found = <<>> /\ st.last[n] # n
  <2>1. st.found = <<>> /\ (st.last[n] = 0 \/ st.last[n] <= n - 1)
    BY <1>6 DEF OnPace, Behind
  <2>2. QED BY <1>1, <2>1
<1>10. v.found # <<>> <=> Timely(rule, gap, n)
  BY <1>1, <1>6, <1>8, <1>9, VisitHas
<1>11. Windowed(rule, log) # <<>> <=> v.found # <<>>
  <2> DEFINE Y == [1 .. n -> 0 .. Len(log)]
  <2>1. v.found \in Seq(Y)
    BY <1>6, <1>7 DEF Windows
  <2> HIDE DEF v, Y
  <2>2. DOMAIN AsEvents(log, v.found) = DOMAIN v.found
    BY DEF AsEvents
  <2>3. v.found = <<>> => AsEvents(log, v.found) = <<>>
    BY DEF AsEvents
  <2>4. v.found # <<>> => DOMAIN v.found # {}
    BY <2>1
  <2>5. QED BY <1>2, <1>6, <2>2, <2>3, <2>4
<1>12. QED BY <1>10, <1>11

LEMMA WindowedIsList ==
    ASSUME NEW rule, IsRule(rule), NEW c, IsLog(c)
    PROVE  IsList(Windowed(rule, c))
<1> DEFINE n == Len(c)
<1>1. n \in Nat /\ DOMAIN c = 1 .. n
  BY LogIs
<1>2. PICK h \in [0 .. n -> Windows(rule, c)] : Windowed(rule, c) = AsEvents(c, h[n].found)
  BY <1>1, WindowSteps
<1> DEFINE Y == [1 .. Len(rule.seq) -> 0 .. n]
           found == h[n].found
           f == AsEvents(c, found)
<1>3. found \in Seq(Y)
  <2>1. h[n] \in Windows(rule, c)
    BY <1>1, <1>2
  <2>2. QED BY <2>1 DEF Windows
<1> HIDE DEF Y, found
<1>4. f = [m \in DOMAIN found |-> f[m]]
  BY DEF AsEvents
<1> DEFINE k == Len(found)
<1>5. k \in Nat /\ f = [m \in 1 .. k |-> f[m]]
  BY <1>3, <1>4
<1> HIDE DEF f, k
<1>6. ToSet(f) = {f[m] : m \in 1 .. k}
  BY <1>5 DEF ToSet
<1>7. f \in Seq(ToSet(f))
  BY <1>5, <1>6
<1>8. QED BY <1>2, <1>7 DEF IsList, f, found

LEMMA PatternIs ==
    ASSUME NEW rule, NEW log, NEW gap \in Nat, IsPatternOf(rule, log, gap)
    PROVE  /\ IsRule(rule) /\ IsLog(log) /\ Prepare(log) = log /\ log # <<>> /\ Len(log) = Len(rule.seq)
           /\ \A c : IsLog(c) /\ ToSet(c) \subseteq ToSet(log) =>
                  (Len(c) = Len(log) => c = log) /\ (ToSet(c) = ToSet(log) => c = log) /\ (c = log \/ Len(c) < Len(rule.seq))
<1>1. IsRule(rule) /\ IsPaced(log, gap) /\ Len(log) = Len(rule.seq) /\ Len(log) \in Nat \ {0}
  BY DEF IsPatternOf, IsRule
<1>2. /\ IsLog(log) /\ Prepare(log) = log
      /\ \A c : IsLog(c) /\ ToSet(c) \subseteq ToSet(log) =>
             Len(c) <= Len(log) /\ (Len(c) = Len(log) => c = log) /\ (ToSet(c) = ToSet(log) => c = log)
  BY <1>1, PacedIsLog
<1>3. \A c : IsLog(c) => Len(c) \in Nat
  BY LogIs
<1>4. log # <<>>
  BY <1>1
<1>5. \A c : IsLog(c) /\ ToSet(c) \subseteq ToSet(log) => c = log \/ Len(c) < Len(rule.seq)
  <2>1. ASSUME NEW c, IsLog(c), ToSet(c) \subseteq ToSet(log), c # log PROVE Len(c) < Len(rule.seq)
    <3>1. Len(c) <= Len(log) /\ Len(c) # Len(log) /\ Len(c) \in Nat
      BY <1>2, <1>3, <2>1
    <3>2. QED BY <1>1, <3>1
  <2>2. QED BY <2>1
<1>6. QED BY <1>1, <1>2, <1>4, <1>5

\* In one group, and in all of them, a window rule finds its pattern if it may.
LEMMA GroupFinds ==
    ASSUME NEW rule, NEW log, NEW gap \in Nat, IsPatternOf(rule, log, gap), Measured(rule), rule.algorithm = "temporal",
           NEW group, IsLog(group), ToSet(group) \subseteq ToSet(log), OneHost(rule.scope, ToSet(group))
    PROVE  LET may == IsCell(rule, log) /\ Timely(rule, gap, Len(rule.seq))
               found == Matches(rule, group)
           IN IsList(found) /\ (found # <<>> => may) /\ (may /\ ToSet(group) = ToSet(log) => found # <<>>)
<1> DEFINE may == IsCell(rule, log) /\ Timely(rule, gap, Len(rule.seq))
           buckets == Buckets(group, rule.slots)
           k == Len(buckets)
           ss == [b \in DOMAIN buckets |-> Windowed(rule, buckets[b])]
<1>1. /\ IsRule(rule) /\ log # <<>>
      /\ \A c : IsLog(c) /\ ToSet(c) \subseteq ToSet(log) =>
             (ToSet(c) = ToSet(log) => c = log) /\ (c = log \/ Len(c) < Len(rule.seq))
  BY PatternIs
<1>2. Matches(rule, group) = FlattenSeq(ss)
  BY DEF Matches
<1>3. /\ k \in Nat /\ DOMAIN buckets = 1 .. k
      /\ \A b \in 1 .. k : IsCell(rule, buckets[b]) /\ ToSet(buckets[b]) \subseteq ToSet(group)
      /\ IsCell(rule, group) /\ group # <<>> => \E b \in 1 .. k : ToSet(buckets[b]) = ToSet(group)
  BY BucketsAre
<1> HIDE DEF buckets, k
<1>4. ss = [b \in 1 .. k |-> ss[b]] /\ \A b \in 1 .. k : ss[b] = Windowed(rule, buckets[b])
  BY <1>3
<1> HIDE DEF ss
<1>5. \A b \in 1 .. k : IsLog(buckets[b]) /\ ToSet(buckets[b]) \subseteq ToSet(log)
  BY <1>3 DEF IsCell
<1>6. \A b \in 1 .. k : IsList(ss[b])
  BY <1>1, <1>4, <1>5, WindowedIsList
<1>7. IsList(FlattenSeq(ss)) /\ (FlattenSeq(ss) # <<>> <=> \E b \in 1 .. k : ss[b] # <<>>)
  BY <1>3, <1>4, <1>6, FlattenHolds
<1>8. Windowed(rule, log) # <<>> <=> Timely(rule, gap, Len(rule.seq))
  BY WindowFinds
<1>9. ASSUME NEW b \in 1 .. k, ss[b] # <<>> PROVE may
  <2>1. ~(Len(buckets[b]) < Len(rule.seq))
    <3>1. Len(buckets[b]) \in Nat /\ DOMAIN buckets[b] = 1 .. Len(buckets[b]) /\ Len(rule.seq) >= 2
      BY <1>5, LogIs DEF IsPatternOf
    <3>2. QED BY <1>1, <1>4, <1>9, <3>1, TooShortForWindow
  <2>2. buckets[b] = log
    BY <1>1, <1>5, <2>1
  <2>3. QED BY <1>3, <1>4, <1>8, <1>9, <2>2
<1>10. ASSUME may, ToSet(group) = ToSet(log) PROVE \E b \in 1 .. k : ss[b] # <<>>
  <2>1. group = log
    BY <1>1, <1>10
  <2>2. PICK b \in 1 .. k : ToSet(buckets[b]) = ToSet(log)
    BY <1>1, <1>3, <1>10, <2>1
  <2>3. buckets[b] = log
    BY <1>1, <1>5, <2>2
  <2>4. QED BY <1>4, <1>8, <1>10, <2>3
<1>11. QED BY <1>2, <1>7, <1>9, <1>10

LEMMA CellIsOneHost ==
    ASSUME NEW rule, NEW log, IsCell(rule, log) PROVE OneHost(rule.scope, ToSet(log))
<1>1. ToSet(log) = {log[i] : i \in 1 .. Len(log)}
  BY LogIs DEF IsCell
<1>2. QED BY <1>1 DEF IsCell, Alike, OneHost

LEMMA TemporalFinds ==
    ASSUME NEW rule, NEW log, NEW gap \in Nat, IsPatternOf(rule, log, gap), Measured(rule), rule.algorithm = "temporal",
           \A i \in 1 .. Len(log) : log[i].computer \in Nat
    PROVE  LET all == AllMatches(rule, Groups(log, rule.scope))
           IN IsList(all) /\ (all # <<>> <=> IsCell(rule, log) /\ Timely(rule, gap, Len(rule.seq)))
<1> DEFINE may == IsCell(rule, log) /\ Timely(rule, gap, Len(rule.seq))
           groups == Groups(log, rule.scope)
           k == Len(groups)
           ss == [g \in DOMAIN groups |-> Matches(rule, groups[g])]
<1>1. IsLog(log) /\ log # <<>>
  BY PatternIs
<1>2. \A e \in ToSet(log) : e.computer \in Nat
  <2>1. ToSet(log) = {log[i] : i \in 1 .. Len(log)}
    BY <1>1, LogIs
  <2>2. QED BY <2>1
<1>3. /\ k \in Nat /\ DOMAIN groups = 1 .. k
      /\ \A g \in 1 .. k : IsLog(groups[g]) /\ ToSet(groups[g]) \subseteq ToSet(log) /\ OneHost(rule.scope, ToSet(groups[g]))
      /\ OneHost(rule.scope, ToSet(log)) => \E g \in 1 .. k : ToSet(groups[g]) = ToSet(log)
  BY <1>1, <1>2, GroupsAre
<1>4. AllMatches(rule, Groups(log, rule.scope)) = FlattenSeq(ss)
  BY DEF AllMatches
<1> HIDE DEF groups, k
<1>5. ss = [g \in 1 .. k |-> ss[g]] /\ \A g \in 1 .. k : ss[g] = Matches(rule, groups[g])
  BY <1>3
<1> HIDE DEF ss
<1>6. \A g \in 1 .. k : IsList(ss[g]) /\ (ss[g] # <<>> => may) /\ (may /\ ToSet(groups[g]) = ToSet(log) => ss[g] # <<>>)
  BY <1>3, <1>5, GroupFinds
<1>7. IsList(FlattenSeq(ss)) /\ (FlattenSeq(ss) # <<>> <=> \E g \in 1 .. k : ss[g] # <<>>)
  BY <1>3, <1>5, <1>6, FlattenHolds
<1>8. may => \E g \in 1 .. k : ToSet(groups[g]) = ToSet(log)
  BY <1>3, CellIsOneHost
<1> HIDE DEF may
<1>9. QED BY <1>4, <1>6, <1>7, <1>8 DEF may

\* A rule that only asks for an order finds its pattern if the events are alike.
LEMMA OrderFinds ==
    ASSUME NEW rule, NEW log, NEW gap \in Nat, IsPatternOf(rule, log, gap), IsOrderRule(rule), rule.algorithm # "temporal",
           \A i \in 1 .. Len(log) : log[i].computer \in Nat
    PROVE  LET all == AllMatches(rule, Groups(log, rule.scope))
           IN IsList(all) /\ (all # <<>> <=> IsCell(rule, log))
<1> DEFINE n == Len(rule.seq)
           D == ToSet(log)
           all == AllMatches(rule, Groups(log, rule.scope))
<1>1. /\ IsLog(log) /\ IsRule(rule) /\ Len(log) = n
      /\ \A c : IsLog(c) /\ ToSet(c) \subseteq D => (Len(c) = n => c = log)
  BY PatternIs
<1>2. /\ n \in Nat \ {0} /\ DOMAIN log = 1 .. n /\ D = {log[i] : i \in 1 .. n} /\ log \in Seq(D)
      /\ \A i, j \in 1 .. n : i < j => Earlier(log[i], log[j])
      /\ \A i \in 1 .. n : log[i] \in D /\ log[i].event = rule.seq[i]
  BY <1>1, LogIs DEF IsLog, IsRule, IsPatternOf
<1>3. \A e \in D : e.computer \in Nat
  BY <1>1, <1>2
<1>4. Solves(rule, D, all)
  BY <1>1, <1>3, GroupsSolve
<1> HIDE DEF all, D, n
<1>5. all \in Seq([1 .. n -> D]) /\ Len(all) \in Nat /\ (all # <<>> <=> \E i \in 1 .. Len(all) : TRUE)
  <2> DEFINE Y == [1 .. n -> D]
  <2>1. all \in Seq(Y)
    BY <1>4 DEF Solves, n
  <2> HIDE DEF Y
  <2>2. Len(all) \in Nat /\ (all # <<>> <=> 1 \in 1 .. Len(all)) /\ (1 \in 1 .. Len(all) <=> 1 .. Len(all) # {})
    BY <2>1
  <2>3. QED BY <2>1, <2>2 DEF Y
<1>6. IsList(all)
  <2> DEFINE Y == [1 .. n -> D]
  <2>1. all \in Seq(Y)
    BY <1>5
  <2> HIDE DEF Y
  <2>2. QED BY <2>1 DEF IsList, ToSet
<1>7. ASSUME NEW m, GoodChain(rule, D, m) PROVE IsCell(rule, log)
  <2>1. /\ m \in [1 .. n -> D] /\ \A i, j \in 1 .. n : i < j => Earlier(m[i], m[j])
        /\ \A i, j \in 1 .. n : Alike(rule, m[i], m[j])
        /\ \A i \in 1 .. n, s \in rule.slots : m[i].keys[s] # Absent
    BY <1>7 DEF GoodChain, n
  <2>2. ToSet(m) \subseteq D /\ m \in Seq(ToSet(m)) /\ Len(m) = n
    <3>1. ToSet(m) = {m[i] : i \in 1 .. n} /\ n \in Nat
      BY <1>2, <2>1 DEF ToSet
    <3>2. m \in [1 .. n -> {m[i] : i \in 1 .. n}]
      BY <2>1
    <3>3. ToSet(m) \subseteq D
      BY <2>1, <3>1
    <3>4. m \in [1 .. n -> ToSet(m)]
      BY <3>1, <3>2
    <3> DEFINE T == ToSet(m)
    <3>5. m \in [1 .. n -> T] /\ n \in Nat
      BY <3>1, <3>4
    <3> HIDE DEF T
    <3>6. m \in Seq(T) /\ Len(m) = n
      BY <3>5, SMTT(20)
    <3>7. QED BY <3>3, <3>6 DEF T
  <2>3. AreEvents(ToSet(m))
    <3>1. AreEvents(D)
      BY <1>1 DEF IsLog, D
    <3>2. QED BY <2>2, <3>1, FS_Subset DEF AreEvents
  <2>4. IsLog(m)
    BY <2>1, <2>2, <2>3 DEF IsLog
  <2>5. m = log
    BY <1>1, <2>2, <2>4
  <2>6. QED BY <1>1, <2>1, <2>5 DEF IsCell
<1>8. ASSUME IsCell(rule, log) PROVE GoodChain(rule, D, log)
  <2>1. log \in [1 .. n -> D]
    BY <1>2
  <2>2. InWindow(rule, log)
    BY DEF InWindow
  <2>3. QED BY <1>1, <1>2, <1>8, <2>1, <2>2 DEF GoodChain, IsCell, n
<1>9. all # <<>> => \E m : GoodChain(rule, D, m)
  BY <1>4, <1>5 DEF Solves
<1>10. GoodChain(rule, D, log) => all # <<>>
  BY <1>4, <1>5 DEF Solves
<1>11. QED BY <1>6, <1>7, <1>8, <1>9, <1>10 DEF all

\* The pattern of a lineage rule: a process and the one it creates, a gap later.
IsFamily(log, gap) ==
    /\ IsPaced(log, gap) /\ Len(log) = 2
    /\ \A i \in 1 .. 2 : /\ log[i].event = "create" /\ log[i].computer \in Nat
                         /\ log[i].keys.new = i /\ log[i].keys.pid = i - 1 /\ log[i].keys.parent = Absent

LEMMA LineageIsList ==
    ASSUME NEW rule, NEW c, IsLog(c)
    PROVE  /\ IsList(Lineage(rule, c))
           /\ Lineage(rule, c) # <<>> <=> \E e \in ToSet(c) : e.event = "create" /\ ParentOf(c, e) # 0
<1> DEFINE S == {e \in ToSet(c) : e.event = "create" /\ ParentOf(c, e) # 0}
           children == Ordered(S, Earlier)
           k == Len(children)
           f == Lineage(rule, c)
<1>1. AreEvents(S)
  <2>1. AreEvents(ToSet(c)) /\ S \subseteq ToSet(c)
    BY DEF IsLog
  <2> HIDE DEF S
  <2>2. QED BY <2>1, FS_Subset DEF AreEvents
<1>2. Lists(children, S)
  BY <1>1, EarlierLists
<1>3. f = [i \in DOMAIN children |-> f[i]]
  BY DEF Lineage
<1> HIDE DEF children, f, S
<1>4. k \in Nat /\ DOMAIN children = 1 .. k /\ S = {children[i] : i \in 1 .. k}
  BY <1>2 DEF Lists
<1> HIDE DEF k
<1>5. f = [i \in 1 .. k |-> f[i]] /\ ToSet(f) = {f[i] : i \in 1 .. k}
  BY <1>3, <1>4 DEF ToSet
<1>6. f \in Seq(ToSet(f))
  BY <1>4, <1>5
<1>7. f # <<>> <=> S # {}
  <2>1. f # <<>> <=> k # 0
    BY <1>4, <1>5
  <2>2. S # {} <=> 1 .. k # {}
    BY <1>4
  <2>3. QED BY <1>4, <2>1, <2>2
<1>8. QED BY <1>6, <1>7 DEF IsList, f, S

LEMMA FamilyIs ==
    ASSUME NEW log, NEW gap \in Nat, IsFamily(log, gap)
    PROVE  /\ IsLog(log) /\ log # <<>> /\ Prepare(log) = log
           /\ \A c : IsLog(c) /\ ToSet(c) = ToSet(log) => c = log
           /\ \A c : IsLog(c) /\ ToSet(c) \subseteq ToSet(log) =>
                  ((\E e \in ToSet(c) : e.event = "create" /\ ParentOf(c, e) # 0) <=> c = log)
<1>1. /\ Len(log) = 2 /\ IsLog(log) /\ Prepare(log) = log /\ IsPaced(log, gap)
      /\ \A c : IsLog(c) /\ ToSet(c) \subseteq ToSet(log) => (ToSet(c) = ToSet(log) => c = log)
  BY PacedIsLog DEF IsFamily
<1>2. DOMAIN log = 1 .. 2 /\ ToSet(log) = {log[1], log[2]} /\ log[1] \in ToSet(log) /\ log[2] \in ToSet(log) /\ log # <<>>
  <2>1. DOMAIN log = 1 .. 2 /\ ToSet(log) = {log[i] : i \in 1 .. 2}
    BY <1>1, LogIs
  <2>2. 1 .. 2 = {1, 2}
    OBVIOUS
  <2>3. QED BY <2>1, <2>2
<1>3. /\ log[1].event = "create" /\ log[2].event = "create"
      /\ ChildPid(log[1]) = 1 /\ ChildPid(log[2]) = 2 /\ ParentPid(log[1]) = 0 /\ ParentPid(log[2]) = 1
  <2>1. 1 \in 1 .. 2 /\ 2 \in 1 .. 2 /\ 1 - 1 = 0 /\ 2 - 1 = 1
    OBVIOUS
  <2>2. /\ log[1].event = "create" /\ log[1].keys.new = 1 /\ log[1].keys.pid = 0 /\ log[1].keys.parent = Absent
        /\ log[2].event = "create" /\ log[2].keys.new = 2 /\ log[2].keys.pid = 1 /\ log[2].keys.parent = Absent
    BY <2>1 DEF IsFamily
  <2>3. QED BY <2>2 DEF ChildPid, ParentPid, Absent
<1>4. log[1].at = 1 /\ log[2].at \in Nat /\ 1 <= log[2].at
  <2>1. log[1].at = 1 + (1 - 1) * gap /\ log[2].at = 1 + (2 - 1) * gap
    BY <1>1 DEF IsPaced
  <2>2. (1 - 1) * gap = 0 /\ (2 - 1) * gap = gap
    OBVIOUS
  <2>3. QED BY <2>1, <2>2
<1>5. ParentOf(log, log[2]) # 0
  <2> DEFINE J == {j \in Created(log, 1) : log[j].at <= log[2].at}
  <2>1. Created(log, 1) = {1}
    <3>1. \A i \in 1 .. 2 : i = 1 \/ i = 2
      OBVIOUS
    <3>2. QED BY <1>2, <1>3, <3>1 DEF Created
  <2>2. {0} \cup J = {0, 1}
    BY <1>4, <2>1
  <2>3. Max({0, 1}) = 1
    BY DEF Max
  <2>4. EndOf(log, 1) = Never
    <3>1. \A j \in DOMAIN log : j > 1 => ChildPid(log[j]) # ChildPid(log[1])
      <4>1. \A j \in 1 .. 2 : j > 1 => j = 2
        OBVIOUS
      <4>2. QED BY <1>2, <1>3, <4>1
    <3>2. {j \in DOMAIN log : j > 1 /\ log[j].event \in {"create", "exit"} /\ ChildPid(log[j]) = ChildPid(log[1])} = {}
      BY <3>1
    <3>3. QED BY <3>2 DEF EndOf
  <2>5. Resolve(log, 1, log[2].at) = 1
    BY <2>2, <2>3, <2>4 DEF Resolve
  <2>6. QED BY <1>3, <2>5 DEF ParentOf, Absent
<1>6. ASSUME NEW c, IsLog(c), ToSet(c) \subseteq ToSet(log), NEW e \in ToSet(c), ParentOf(c, e) # 0 PROVE c = log
  <2>1. ParentPid(e) # 0
    BY <1>6 DEF ParentOf, Absent
  <2>2. e = log[2]
    BY <1>2, <1>3, <1>6, <2>1
  <2>3. Created(c, 1) # {}
    <3>1. ASSUME Created(c, 1) = {} PROVE FALSE
      <4>1. {0} \cup {j \in Created(c, 1) : c[j].at <= e.at} = {0}
        BY <3>1
      <4>2. Max({0}) = 0
        BY DEF Max
      <4>3. Resolve(c, 1, e.at) = 0
        BY <4>1, <4>2 DEF Resolve
      <4>4. QED BY <1>3, <1>6, <2>2, <4>3 DEF ParentOf
    <3>2. QED BY <3>1
  <2>4. PICK i \in DOMAIN c : ChildPid(c[i]) = 1
    BY <2>3 DEF Created
  <2>5. c[i] \in ToSet(c)
    BY DEF ToSet
  <2>6. c[i] = log[1]
    BY <1>2, <1>3, <1>6, <2>4, <2>5
  <2>7. ToSet(c) = ToSet(log)
    BY <1>2, <1>6, <2>2, <2>5, <2>6
  <2>8. QED BY <1>1, <1>6, <2>7
<1>7. \A c : IsLog(c) /\ ToSet(c) \subseteq ToSet(log) =>
          ((\E e \in ToSet(c) : e.event = "create" /\ ParentOf(c, e) # 0) <=> c = log)
  BY <1>2, <1>3, <1>5, <1>6
<1>8. \A c : IsLog(c) /\ ToSet(c) = ToSet(log) => c = log
  BY <1>1
<1>9. QED BY <1>1, <1>2, <1>7, <1>8

\* A lineage rule finds the pair if it is on one host or the rule does not mind.
LEMMA LineageFinds ==
    ASSUME NEW rule, NEW log, NEW gap \in Nat, IsFamily(log, gap), rule.algorithm = "lineage"
    PROVE  LET all == AllMatches(rule, Groups(log, rule.scope))
           IN IsList(all) /\ (all # <<>> <=> OneHost(rule.scope, ToSet(log)))
<1> DEFINE groups == Groups(log, rule.scope)
           k == Len(groups)
           ss == [g \in DOMAIN groups |-> Matches(rule, groups[g])]
<1>1. /\ IsLog(log) /\ log # <<>>
      /\ \A c : IsLog(c) /\ ToSet(c) = ToSet(log) => c = log
      /\ \A c : IsLog(c) /\ ToSet(c) \subseteq ToSet(log) =>
             ((\E e \in ToSet(c) : e.event = "create" /\ ParentOf(c, e) # 0) <=> c = log)
  BY FamilyIs
<1>2. \A e \in ToSet(log) : e.computer \in Nat
  <2>1. ToSet(log) = {log[i] : i \in 1 .. Len(log)}
    BY <1>1, LogIs
  <2>2. QED BY <2>1 DEF IsFamily
<1>3. /\ k \in Nat /\ DOMAIN groups = 1 .. k
      /\ \A g \in 1 .. k : IsLog(groups[g]) /\ ToSet(groups[g]) \subseteq ToSet(log) /\ OneHost(rule.scope, ToSet(groups[g]))
      /\ OneHost(rule.scope, ToSet(log)) => \E g \in 1 .. k : ToSet(groups[g]) = ToSet(log)
  BY <1>1, <1>2, GroupsAre
<1>4. AllMatches(rule, Groups(log, rule.scope)) = FlattenSeq(ss)
  BY DEF AllMatches
<1> HIDE DEF groups, k
<1>5. ss = [g \in 1 .. k |-> ss[g]] /\ \A g \in 1 .. k : ss[g] = Lineage(rule, groups[g])
  BY <1>3 DEF Matches
<1> HIDE DEF ss
<1>6. \A g \in 1 .. k : IsList(ss[g]) /\ (ss[g] # <<>> <=> groups[g] = log)
  <2>1. ASSUME NEW g \in 1 .. k PROVE IsList(ss[g]) /\ (ss[g] # <<>> <=> groups[g] = log)
    BY <1>1, <1>3, <1>5, LineageIsList
  <2>2. QED BY <2>1
<1>7. IsList(FlattenSeq(ss)) /\ (FlattenSeq(ss) # <<>> <=> \E g \in 1 .. k : ss[g] # <<>>)
  BY <1>3, <1>5, <1>6, FlattenHolds
<1>8. (\E g \in 1 .. k : groups[g] = log) <=> OneHost(rule.scope, ToSet(log))
  BY <1>1, <1>3
<1>9. QED BY <1>4, <1>6, <1>7, <1>8

\* What is known of a rule that was accepted, and of what the engine is given of it.
LEMMA AcceptedHas ==
    ASSUME NEW T, NEW s, IsSpec(s, T), Accepted(s)
    PROVE  LET a == AlgorithmOf(s)
           IN /\ a \in {"sequence", "field", "temporal", "lineage"}
              /\ a # "lineage" => Len(s.sequence) \in Nat /\ Len(s.sequence) >= 2
              /\ a = "temporal" => /\ Length(s.window_within) \in Nat /\ Length(s.window_total) \in Nat
                                   /\ Length(s.window_total) > 0 <=> ~IsBlank(s.window_total)
<1> DEFINE a == AlgorithmOf(s)
<1>1. ASSUME NEW wrong \in BOOLEAN, NEW f, If(wrong, f) = {} PROVE ~wrong
  BY <1>1 DEF If
<1>2. /\ a \in {"sequence", "field", "temporal", "lineage"}
      /\ RequiresSequence(a) => SequenceProblems(s) = {}
      /\ "window_within" \in Reads[a] => WindowProblems(s) = {}
  <2>1. DOMAIN Reads = {"sequence", "field", "temporal", "lineage"}
    BY DEF Reads
  <2> HIDE DEF a
  <2>2. QED BY <2>1 DEF Accepted, Problems, a
<1>3. a = "temporal" => "window_within" \in Reads[a]
  BY DEF Reads
<1> HIDE DEF a
<1>4. a # "lineage" => Len(s.sequence) \in Nat /\ Len(s.sequence) >= 2
  <2>1. a # "lineage" => If(Len(s.sequence) \notin 2 .. MaxSequence, "sequence") = {}
    BY <1>2 DEF SequenceProblems, RequiresSequence
  <2>2. a # "lineage" => Len(s.sequence) \in 2 .. MaxSequence
    BY <1>1, <2>1
  <2>3. MaxSequence \in Nat
    BY RuleFormatAssumption
  <2>4. QED BY <2>2, <2>3
<1>5. ASSUME a = "temporal"
      PROVE  /\ Length(s.window_within) \in Nat /\ Length(s.window_total) \in Nat
             /\ Length(s.window_total) > 0 <=> ~IsBlank(s.window_total)
  <2>1. /\ If(IsBlank(s.window_within), "window_within") = {}
        /\ DurationProblems(s, "window_within") = {} /\ DurationProblems(s, "window_total") = {}
    BY <1>2, <1>3, <1>5 DEF WindowProblems
  <2>2. /\ ~IsBlank(s.window_within)
        /\ ~(~IsBlank(s.window_within) /\ (Malformed(s.window_within) \/ Length(s.window_within) \notin 1 .. MaxWindow))
        /\ ~(~IsBlank(s.window_total) /\ (Malformed(s.window_total) \/ Length(s.window_total) \notin 1 .. MaxWindow))
    BY <1>1, <2>1 DEF DurationProblems
  <2>3. Length(s.window_within) \in 1 .. MaxWindow /\ (~IsBlank(s.window_total) => Length(s.window_total) \in 1 .. MaxWindow)
    BY <2>2
  <2>4. IsBlank(s.window_total) => Length(s.window_total) = 0
    BY DEF Length
  <2>5. MaxWindow \in Nat
    BY RuleFormatAssumption
  <2>6. QED BY <2>3, <2>4, <2>5
<1>6. QED BY <1>2, <1>4, <1>5 DEF a

LEMMA KeptCompiled ==
    ASSUME NEW T, NEW s, IsSpec(s, T), Accepted(s)
    PROVE  LET rule == Compiled(Normalize(s))
               a == AlgorithmOf(s)
           IN /\ rule.algorithm = a /\ rule.scope = ScopeOf(s) /\ rule.slots \subseteq Slots
              /\ rule.within = Length(s.window_within) /\ rule.total = Length(s.window_total)
              /\ Len(rule.seq) = Len(s.sequence) /\ DOMAIN rule.seq = 1 .. Len(s.sequence)
              /\ DOMAIN s.sequence = 1 .. Len(s.sequence) /\ Len(s.sequence) \in Nat
              /\ \A i \in 1 .. Len(s.sequence) : rule.seq[i] = Text(s.sequence[i].body)
              /\ rule.slots = IF a \in {"field", "temporal"} THEN {s.match_fields[i].body : i \in DOMAIN s.match_fields} ELSE {}
              /\ CreateIDs(Normalize(s)) = CreateIDs(s)
<1> DEFINE k == Normalize(s)
           a == AlgorithmOf(s)
           rule == Compiled(k)
<1>1. /\ AlgorithmOf(k) = a /\ ScopeOf(k) = ScopeOf(s)
      /\ k.sequence = TrimAll(s.sequence) /\ k.match_fields = TrimAll(s.match_fields)
      /\ k.lineage_create_ids = TrimAll(s.lineage_create_ids)
      /\ k.window_within = Trimmed(s.window_within) /\ k.window_total = Trimmed(s.window_total)
  BY KeptIsRead, NormalizeIs, ZenonT(30)
<1>2. s.sequence \in Seq(T) /\ s.match_fields \in Seq(T) /\ s.lineage_create_ids \in Seq(T)
  BY DEF IsSpec
<1>3. ~Refused(rule)
  BY AcceptedIsNeverRefused
<1>4. a \in {"sequence", "field", "temporal", "lineage"}
  BY AcceptedHas
<1>5. Reads[a] = IF a = "sequence" THEN {} ELSE IF a = "field" THEN {"match_fields", "match_scope"}
                 ELSE IF a = "temporal" THEN {"window_within", "window_total", "match_fields", "match_scope"}
                 ELSE {"lineage_create_ids", "lineage_depth", "match_scope"}
  <2> HIDE DEF a
  <2>1. QED BY <1>4 DEF Reads
<1> HIDE DEF a, k
<1>6. "match_fields" \in Reads[a] <=> a \in {"field", "temporal"}
  BY <1>4, <1>5
<1>7. Length(k.window_within) = Length(s.window_within) /\ Length(k.window_total) = Length(s.window_total)
  BY <1>1, TrimmedIs
<1>8. /\ rule.algorithm = a /\ rule.seq = k.sequence /\ rule.scope = ScopeOf(s)
      /\ rule.slots = IF a \in {"field", "temporal"} THEN {k.match_fields[i].body : i \in DOMAIN k.match_fields} ELSE {}
      /\ rule.within = Length(s.window_within) /\ rule.total = Length(s.window_total)
  BY <1>1, <1>6, <1>7 DEF Compiled
<1>9. rule.slots \subseteq Slots
  BY <1>3 DEF Refused
<1> HIDE DEF rule
<1>10. ASSUME NEW l \in Seq(T)
       PROVE  /\ DOMAIN TrimAll(l) = DOMAIN l /\ DOMAIN l = 1 .. Len(l) /\ Len(l) \in Nat /\ Len(TrimAll(l)) = Len(l)
              /\ \A i \in DOMAIN l : TrimAll(l)[i].body = l[i].body /\ TrimAll(l)[i] = Text(l[i].body)
  <2>1. \A i \in DOMAIN l : TrimAll(l)[i] = Text(l[i].body)
    BY DEF TrimAll, Trimmed
  <2>2. QED BY <2>1, TrimAllIs
<1>11. {k.match_fields[i].body : i \in DOMAIN k.match_fields} = {s.match_fields[i].body : i \in DOMAIN s.match_fields}
  <2>1. DOMAIN k.match_fields = DOMAIN s.match_fields
        /\ \A i \in DOMAIN s.match_fields : k.match_fields[i].body = s.match_fields[i].body
    BY <1>1, <1>2, <1>10
  <2>2. QED BY <2>1
<1>12. CreateIDs(k) = CreateIDs(s)
  <2>1. {k.lineage_create_ids[i].body : i \in DOMAIN k.lineage_create_ids}
            = {s.lineage_create_ids[i].body : i \in DOMAIN s.lineage_create_ids}
    BY <1>1, <1>2, <1>10
  <2>2. QED BY <2>1 DEF CreateIDs
<1>13. /\ Len(rule.seq) = Len(s.sequence) /\ DOMAIN rule.seq = 1 .. Len(s.sequence)
       /\ DOMAIN s.sequence = 1 .. Len(s.sequence) /\ Len(s.sequence) \in Nat
       /\ \A i \in 1 .. Len(s.sequence) : rule.seq[i] = Text(s.sequence[i].body)
  BY <1>1, <1>2, <1>8, <1>10
<1>14. QED BY <1>8, <1>9, <1>11, <1>12, <1>13 DEF rule, a, k

\* The events of a pattern are alike, but for the last if it is odd.
LogonAt(i, n, odd) == IF i = n /\ odd = "missing" THEN Absent ELSE IF i = n /\ odd = "value" THEN 2 ELSE 1
Odds == {"", "host", "value", "missing"}

LEMMA PatternIsCell ==
    ASSUME NEW rule, NEW log, NEW odd \in Odds, IsLog(log), Len(log) >= 2,
           \A i \in 1 .. Len(log) : log[i].computer = (IF i = Len(log) /\ odd = "host" THEN 2 ELSE 1),
           \A i \in 1 .. Len(log), k \in rule.slots :
               log[i].keys[k] = (IF k = "logon" THEN LogonAt(i, Len(log), odd) ELSE 1)
    PROVE  /\ IsCell(rule, log) <=>
                  ((odd = "host" => rule.scope = "global") /\ (odd \in {"value", "missing"} => "logon" \notin rule.slots))
           /\ OneHost(rule.scope, ToSet(log)) <=> (odd = "host" => rule.scope = "global")
<1> DEFINE n == Len(log)
           slots == rule.slots
           alike(i, j) == Alike(rule, log[i], log[j])
<1>1. n \in Nat /\ 1 \in 1 .. n /\ n \in 1 .. n /\ 1 # n
  BY LogIs
<1>2. (\A i, j \in 1 .. n : rule.scope = "global" \/ log[i].computer = log[j].computer) <=> (odd = "host" => rule.scope = "global")
  BY <1>1
<1>3. (\A i, j \in 1 .. n : KeyOf(log[i], slots) = KeyOf(log[j], slots)) <=> (odd \in {"value", "missing"} => "logon" \notin slots)
  <2>1. ASSUME odd \in {"value", "missing"}, "logon" \in slots PROVE KeyOf(log[1], slots) # KeyOf(log[n], slots)
    <3>1. log[1].keys["logon"] = 1 /\ log[n].keys["logon"] # 1
      BY <1>1, <2>1 DEF LogonAt, Absent
    <3>2. KeyOf(log[1], slots)["logon"] = 1 /\ KeyOf(log[n], slots)["logon"] # 1
      BY <2>1, <3>1 DEF KeyOf
    <3>3. QED BY <3>2
  <2>2. ASSUME odd \in {"value", "missing"} => "logon" \notin slots, NEW i \in 1 .. n, NEW j \in 1 .. n
        PROVE  KeyOf(log[i], slots) = KeyOf(log[j], slots)
    <3>1. ASSUME NEW k \in slots PROVE log[i].keys[k] = log[j].keys[k]
      BY <2>2 DEF LogonAt
    <3>2. QED BY <3>1 DEF KeyOf
  <2>3. QED BY <1>1, <2>1, <2>2
<1>4. (odd \in {"value", "missing"} => "logon" \notin slots) => \A i \in 1 .. n, k \in slots : log[i].keys[k] # Absent
  BY DEF LogonAt, Absent
<1>5. (\A i, j \in 1 .. n : alike(i, j)) <=>
          ((odd = "host" => rule.scope = "global") /\ (odd \in {"value", "missing"} => "logon" \notin slots))
  <2>1. (\A i, j \in 1 .. n : alike(i, j)) <=>
            /\ \A i, j \in 1 .. n : rule.scope = "global" \/ log[i].computer = log[j].computer
            /\ \A i, j \in 1 .. n : KeyOf(log[i], slots) = KeyOf(log[j], slots)
    BY DEF Alike
  <2> HIDE DEF alike, slots
  <2>2. QED BY <1>2, <1>3, <2>1
<1>6. ToSet(log) = {log[i] : i \in 1 .. n}
  BY LogIs
<1>7. OneHost(rule.scope, ToSet(log)) <=> \A i, j \in 1 .. n : rule.scope = "global" \/ log[i].computer = log[j].computer
  BY <1>6 DEF OneHost
<1>8. IsCell(rule, log) <=> (\A i, j \in 1 .. n : alike(i, j)) /\ \A i \in 1 .. n, k \in slots : log[i].keys[k] # Absent
  BY DEF IsCell
<1> HIDE DEF alike, slots, n
<1>9. QED BY <1>2, <1>4, <1>5, <1>7, <1>8 DEF slots, n

LEMMA GapsArePaced ==
    ASSUME NEW log, NEW n \in Nat, NEW gap, DOMAIN log = 1 .. n, log = [i \in 1 .. n |-> log[i]],
           \A i \in 1 .. n : log[i].id = i /\ log[i].at = 1 + (i - 1) * gap
    PROVE  IsPaced(log, gap) /\ Len(log) = n
<1>1. Len(log) = n
  <2> DEFINE E == {log[i] : i \in 1 .. n}
  <2>1. log \in [1 .. n -> E]
    OBVIOUS
  <2> HIDE DEF E
  <2>2. QED BY <2>1
<1>2. QED BY <1>1 DEF IsPaced

\* The pattern of a rule that names a sequence: its steps.
LEMMA SequencePattern ==
    ASSUME NEW T, NEW s, IsSpec(s, T), Accepted(s), AlgorithmOf(s) # "lineage", NEW gap \in Nat, NEW odd \in Odds
    PROVE  LET log == PatternLog(s, gap, odd)
               rule == Compiled(Normalize(s))
               n == Len(s.sequence)
           IN /\ IsPatternOf(rule, log, gap) /\ Len(log) = n /\ n \in Nat /\ n >= 2
              /\ \A i \in 1 .. n : log[i].computer = (IF i = n /\ odd = "host" THEN 2 ELSE 1)
              /\ \A i \in 1 .. n, k \in rule.slots : log[i].keys[k] = (IF k = "logon" THEN LogonAt(i, n, odd) ELSE 1)
<1> DEFINE log == PatternLog(s, gap, odd)
           rule == Compiled(Normalize(s))
           n == Len(s.sequence)
           body(i) == s.sequence[i].body
           keys(i) == PatternKeys(s, i, LogonAt(i, n, odd))
<1>1. /\ n \in Nat /\ n >= 2 /\ DOMAIN s.sequence = 1 .. n /\ RequiresSequence(AlgorithmOf(s))
  BY AcceptedHas, KeptCompiled DEF RequiresSequence
<1>2. /\ Len(rule.seq) = n /\ DOMAIN rule.seq = 1 .. n /\ \A i \in 1 .. n : rule.seq[i] = Text(body(i))
      /\ rule.slots \subseteq Slots /\ rule.within = Length(s.window_within) /\ rule.total = Length(s.window_total)
  BY KeptCompiled
<1>3. Pattern(s) = [i \in 1 .. n |-> body(i)]
  BY <1>1 DEF Pattern
<1>4. DOMAIN Pattern(s) = 1 .. n /\ Len(Pattern(s)) = n /\ \A i \in 1 .. n : Pattern(s)[i] = body(i)
  <2>1. Pattern(s) \in [1 .. n -> {body(i) : i \in 1 .. n}] /\ \A i \in 1 .. n : Pattern(s)[i] = body(i)
    BY <1>3
  <2> DEFINE E == {body(i) : i \in 1 .. n}
  <2> HIDE DEF E, body, n
  <2>2. Pattern(s) \in [1 .. n -> E]
    BY <2>1 DEF E
  <2>3. QED BY <1>1, <2>1, <2>2
<1>5. \A t \in DOMAIN Durations : Durations[t] \in Int
  BY RuleFormatAssumption
<1>6. rule.within \in Int /\ rule.total \in Int
  BY <1>2, <1>5 DEF Length, Malformed
<1> HIDE DEF rule, n, body
<1>7. /\ log = [i \in 1 .. n |-> log[i]] /\ DOMAIN log = 1 .. n
      /\ \A i \in 1 .. n : /\ log[i].id = i /\ log[i].at = 1 + (i - 1) * gap /\ log[i].event = Text(body(i))
                           /\ log[i].computer = (IF i = n /\ odd = "host" THEN 2 ELSE 1)
                           /\ log[i].keys = keys(i)
  BY <1>4 DEF PatternLog, LogonAt
<1> HIDE DEF log
<1>8. \A i \in 1 .. n, k \in rule.slots : log[i].keys[k] = (IF k = "logon" THEN LogonAt(i, n, odd) ELSE 1)
  <2>1. ASSUME NEW i \in 1 .. n, NEW k \in rule.slots
        PROVE  log[i].keys[k] = IF k = "logon" THEN LogonAt(i, n, odd) ELSE 1
    <3>1. k \in Slots \cup DOMAIN NoKeys /\ log[i].keys = keys(i)
      BY <1>2, <1>7
    <3>2. QED BY <1>1, <3>1 DEF PatternKeys
  <2>2. QED BY <2>1
<1>9. IsPaced(log, gap) /\ Len(log) = n
  <2>1. \A i \in 1 .. n : log[i].id = i /\ log[i].at = 1 + (i - 1) * gap
    BY <1>7
  <2>2. DOMAIN log = 1 .. n /\ log = [i \in 1 .. n |-> log[i]] /\ n \in Nat
    BY <1>1, <1>7
  <2>3. QED BY <2>1, <2>2, GapsArePaced
<1>10. IsRule(rule) /\ Len(rule.seq) = n /\ n >= 2 /\ \A i \in 1 .. n : log[i].event = rule.seq[i]
  BY <1>1, <1>2, <1>7 DEF IsRule
<1>11. IsPatternOf(rule, log, gap)
  BY <1>6, <1>9, <1>10 DEF IsPatternOf
<1>12. QED BY <1>1, <1>7, <1>8, <1>9, <1>11 DEF log, rule, n

\* The pattern of a lineage rule, as the engine reads it: two creations.
LEMMA CreateIDsAreSome ==
    ASSUME NEW T, NEW s, IsSpec(s, T)
    PROVE  SetToSeq(CreateIDs(s))[1] \in CreateIDs(s) /\ Last(SetToSeq(CreateIDs(s))) \in CreateIDs(s)
<1> DEFINE C == CreateIDs(s)
           given == {s.lineage_create_ids[i].body : i \in DOMAIN s.lineage_create_ids}
           k == Cardinality(C)
           f == SetToSeq(C)
<1>1. IsFiniteSet(C) /\ C # {}
  <2>1. DOMAIN s.lineage_create_ids = 1 .. Len(s.lineage_create_ids) /\ Len(s.lineage_create_ids) \in Nat
    BY DEF IsSpec
  <2>2. IsFiniteSet(given)
    <3>1. IsFiniteSet(1 .. Len(s.lineage_create_ids))
      BY <2>1, FS_Interval
    <3>2. [i \in 1 .. Len(s.lineage_create_ids) |-> s.lineage_create_ids[i].body]
              \in Surjection(1 .. Len(s.lineage_create_ids), given)
      BY <2>1 DEF Surjection
    <3> HIDE DEF given
    <3>3. QED BY <3>1, <3>2, FS_Surjection
  <2> HIDE DEF given
  <2>3. IsFiniteSet(given \ {""}) /\ IsFiniteSet({"4688"})
    BY <2>2, FS_Subset, FS_Singleton
  <2>4. C = IF given \ {""} = {} THEN {"4688"} ELSE given \ {""}
    BY DEF CreateIDs, given
  <2>5. QED BY <2>3, <2>4
<1> HIDE DEF C
<1>2. k \in Nat /\ k # 0 /\ ExistsBijection(1 .. k, C)
  BY <1>1, FS_CardinalityType, FS_EmptySet
<1>3. PICK g \in [1 .. k -> C] : IsInjective(g)
  BY <1>2 DEF ExistsBijection, Bijection, Injection
<1>4. f \in [1 .. k -> C]
  BY <1>3 DEF SetToSeq
<1> HIDE DEF f, k
<1>5. Len(f) = k /\ 1 \in 1 .. k /\ k \in 1 .. k
  BY <1>2, <1>4
<1>6. QED BY <1>4, <1>5 DEF Last, C, f

LEMMA FamilyPattern ==
    ASSUME NEW T, NEW s, IsSpec(s, T), Accepted(s), AlgorithmOf(s) = "lineage", NEW gap \in Nat, NEW odd \in Odds
    PROVE  LET log == AsProcesses(Normalize(s), PatternLog(s, gap, odd))
           IN IsFamily(log, gap) /\ \A i \in 1 .. 2 : log[i].computer = (IF i = 2 /\ odd = "host" THEN 2 ELSE 1)
<1> DEFINE ids == SetToSeq(CreateIDs(s))
           raw == PatternLog(s, gap, odd)
           log == AsProcesses(Normalize(s), raw)
           keys(i) == PatternKeys(s, i, LogonAt(i, 2, odd))
<1>1. ~RequiresSequence(AlgorithmOf(s)) /\ CreateIDs(Normalize(s)) = CreateIDs(s)
  BY KeptCompiled DEF RequiresSequence
<1>2. ids[1] \in CreateIDs(s) /\ Last(ids) \in CreateIDs(s)
  BY CreateIDsAreSome
<1>3. Pattern(s) = <<ids[1], Last(ids)>>
  BY <1>1 DEF Pattern
<1> HIDE DEF ids
<1>4. DOMAIN Pattern(s) = 1 .. 2 /\ Len(Pattern(s)) = 2 /\ \A i \in 1 .. 2 : Pattern(s)[i] \in CreateIDs(s)
  <2>1. \A i \in 1 .. 2 : i = 1 \/ i = 2
    OBVIOUS
  <2>2. QED BY <1>2, <1>3, <2>1
<1>5. /\ DOMAIN raw = 1 .. 2
      /\ \A i \in 1 .. 2 : raw[i] = [id |-> i, at |-> 1 + (i - 1) * gap, event |-> Text(Pattern(s)[i]),
                                     computer |-> IF i = 2 /\ odd = "host" THEN 2 ELSE 1, keys |-> keys(i)]
  BY <1>4 DEF PatternLog, LogonAt
<1> HIDE DEF raw, keys
<1>6. \A i \in 1 .. 2 : raw[i].event.body \in CreateIDs(Normalize(s))
  BY <1>1, <1>4, <1>5 DEF Text
<1>7. /\ log = [i \in 1 .. 2 |-> log[i]] /\ DOMAIN log = 1 .. 2
      /\ \A i \in 1 .. 2 : log[i] = [raw[i] EXCEPT !.event = "create"]
  BY <1>5, <1>6 DEF AsProcesses
<1> HIDE DEF log
<1>8. \A i \in 1 .. 2 : /\ log[i].id = i /\ log[i].at = 1 + (i - 1) * gap /\ log[i].event = "create"
                        /\ log[i].computer = (IF i = 2 /\ odd = "host" THEN 2 ELSE 1) /\ log[i].keys = keys(i)
  BY <1>5, <1>7
<1>9. \A i \in 1 .. 2 : keys(i).new = i /\ keys(i).pid = i - 1 /\ keys(i).parent = Absent
  <2>1. {"new", "pid", "parent"} \subseteq DOMAIN NoKeys
    BY DEF NoKeys
  <2>2. QED BY <1>1, <2>1 DEF keys, PatternKeys
<1>10. IsPaced(log, gap) /\ Len(log) = 2
  <2>1. \A i \in 1 .. 2 : log[i].id = i /\ log[i].at = 1 + (i - 1) * gap
    BY <1>8
  <2>2. DOMAIN log = 1 .. 2 /\ log = [i \in 1 .. 2 |-> log[i]]
    BY <1>7
  <2>3. log \in Seq({log[i] : i \in 1 .. 2}) /\ Len(log) = 2
    BY <2>2
  <2>4. QED BY <2>1, <2>2, <2>3 DEF IsPaced
<1>11. QED BY <1>8, <1>9, <1>10 DEF IsFamily, log, raw

\* A rule that is accepted finds its own pattern, whatever the gaps: exactly when the gaps, the
\* hosts and the values are the ones it asks for. (the four algorithms against what validate.go
\* accepts; not for the window rules of which temporal.go measures the whole from a later event,
\* nor for a sequence rule of the global scope where the last event is another host's.)
THEOREM EveryPatternIsFound ==
    ASSUME NEW T, NEW s, IsSpec(s, T), Accepted(s), ~Retraced(s), NEW gap \in Nat, NEW odd \in Odds,
           ~CrossesHosts(s, odd)
    PROVE  Evaluate(Normalize(s), PatternLog(s, gap, odd)).matches # <<>> <=> AsksFor(s, gap, odd)
<1> DEFINE kept == Normalize(s)
           rule == Compiled(kept)
           raw == PatternLog(s, gap, odd)
           log == IF rule.algorithm = "lineage" THEN AsProcesses(kept, raw) ELSE raw
           a == AlgorithmOf(s)
           n == Len(s.sequence)
           all == AllMatches(rule, Groups(log, rule.scope))
<1>1. Evaluate(kept, raw) = Generate(rule, log)
  BY AcceptedIsNeverRefused DEF Evaluate
<1>2. /\ rule.algorithm = a /\ rule.scope = ScopeOf(s) /\ rule.slots \subseteq Slots
      /\ rule.within = Length(s.window_within) /\ rule.total = Length(s.window_total)
      /\ Len(rule.seq) = n /\ DOMAIN s.sequence = 1 .. n
      /\ \A i \in 1 .. n : rule.seq[i] = Text(s.sequence[i].body)
      /\ rule.slots = IF a \in {"field", "temporal"} THEN {s.match_fields[i].body : i \in DOMAIN s.match_fields} ELSE {}
  BY KeptCompiled
<1>3. /\ a \in {"sequence", "field", "temporal", "lineage"}
      /\ a = "temporal" => /\ Length(s.window_within) \in Nat /\ Length(s.window_total) \in Nat
                           /\ Length(s.window_total) > 0 <=> ~IsBlank(s.window_total)
  BY AcceptedHas
<1>4. ASSUME IsList(all), Prepare(log) = log
      PROVE  Generate(rule, log).matches # <<>> <=> all # <<>>
  BY <1>4, GenerateFinds
<1>5. CASE a = "lineage"
  <2>1. log = AsProcesses(kept, raw)
    BY <1>2, <1>5
  <2>2. IsFamily(log, gap) /\ \A i \in 1 .. 2 : log[i].computer = (IF i = 2 /\ odd = "host" THEN 2 ELSE 1)
    <3> DEFINE read == AsProcesses(kept, raw)
    <3>1. IsFamily(read, gap) /\ \A i \in 1 .. 2 : read[i].computer = (IF i = 2 /\ odd = "host" THEN 2 ELSE 1)
      BY <1>5, FamilyPattern
    <3> HIDE DEF log, read
    <3>2. log = read
      BY <2>1 DEF read
    <3>3. QED BY <3>1, <3>2
  <2> HIDE DEF log, rule, kept, raw
  <2>3. IsLog(log) /\ Prepare(log) = log /\ Len(log) = 2
    BY <2>2, FamilyIs DEF IsFamily
  <2>4. IsList(all) /\ (all # <<>> <=> OneHost(rule.scope, ToSet(log)))
    BY <1>2, <1>5, <2>2, LineageFinds
  <2>5. rule.slots = {}
    BY <1>2, <1>5
  <2>6. OneHost(rule.scope, ToSet(log)) <=> (odd = "host" => rule.scope = "global")
    <3>1. Len(log) >= 2 /\ \A i \in 1 .. Len(log) : log[i].computer = (IF i = Len(log) /\ odd = "host" THEN 2 ELSE 1)
      BY <2>2, <2>3
    <3>2. \A i \in 1 .. Len(log), k \in rule.slots :
              log[i].keys[k] = (IF k = "logon" THEN LogonAt(i, Len(log), odd) ELSE 1)
      BY <2>5
    <3>3. QED BY <2>3, <3>1, <3>2, PatternIsCell
  <2>7. AsksFor(s, gap, odd) <=> (odd = "host" => ScopeOf(s) = "global")
    <3>1. a # "sequence" /\ a # "field" /\ a # "temporal"
      BY <1>5
    <3>2. QED BY <3>1 DEF AsksFor, a
  <2>8. QED BY <1>1, <1>2, <1>4, <2>3, <2>4, <2>6, <2>7 DEF kept, raw
<1>6. CASE a # "lineage"
  <2>1. log = raw
    BY <1>2, <1>6
  <2>2. /\ IsPatternOf(rule, log, gap) /\ Len(log) = n /\ n \in Nat /\ n >= 2
        /\ \A i \in 1 .. n : log[i].computer = (IF i = n /\ odd = "host" THEN 2 ELSE 1)
        /\ \A i \in 1 .. n, k \in rule.slots : log[i].keys[k] = (IF k = "logon" THEN LogonAt(i, n, odd) ELSE 1)
    <3> HIDE DEF log
    <3>1. /\ IsPatternOf(rule, raw, gap) /\ Len(raw) = n /\ n \in Nat /\ n >= 2
          /\ \A i \in 1 .. n : raw[i].computer = (IF i = n /\ odd = "host" THEN 2 ELSE 1)
          /\ \A i \in 1 .. n, k \in rule.slots : raw[i].keys[k] = (IF k = "logon" THEN LogonAt(i, n, odd) ELSE 1)
      BY <1>6, SequencePattern
    <3> HIDE DEF rule, kept, raw, n
    <3>2. QED BY <2>1, <3>1
  <2> HIDE DEF log, rule, kept, raw
  <2>3. IsRule(rule) /\ IsLog(log) /\ Prepare(log) = log
    BY <2>2, PatternIs
  <2>4. \A i \in 1 .. Len(log) : log[i].computer \in Nat
    <3> HIDE DEF n
    <3>1. ASSUME NEW i \in 1 .. n PROVE log[i].computer \in Nat
      BY <2>2
    <3>2. QED BY <2>2, <3>1
  <2> HIDE DEF n
  <2>5. IsCell(rule, log) <=>
            ((odd = "host" => rule.scope = "global") /\ (odd \in {"value", "missing"} => "logon" \notin rule.slots))
    <3>1. Len(log) >= 2 /\ \A i \in 1 .. Len(log) : log[i].computer = (IF i = Len(log) /\ odd = "host" THEN 2 ELSE 1)
      BY <2>2
    <3>2. \A i \in 1 .. Len(log), k \in rule.slots :
              log[i].keys[k] = (IF k = "logon" THEN LogonAt(i, Len(log), odd) ELSE 1)
      BY <2>2
    <3>3. QED BY <2>3, <3>1, <3>2, PatternIsCell
  <2>6. (odd \in {"value", "missing"} => "logon" \notin rule.slots) <=>
            (odd \in {"value", "missing"} /\ a \in {"field", "temporal"} =>
                 \A i \in DOMAIN s.match_fields : s.match_fields[i].body # "logon")
    <3>1. "logon" \in {s.match_fields[i].body : i \in DOMAIN s.match_fields}
              <=> \E i \in DOMAIN s.match_fields : s.match_fields[i].body = "logon"
      OBVIOUS
    <3> HIDE DEF a
    <3>2. "logon" \notin rule.slots <=> (a \in {"field", "temporal"} =>
                 \A i \in DOMAIN s.match_fields : s.match_fields[i].body # "logon")
      BY <1>2, <3>1
    <3>3. QED BY <3>2
  <2>7. CASE a # "temporal"
    <3>1. IsOrderRule(rule) /\ rule.algorithm # "temporal"
      BY <1>2, <1>3, <1>6, <2>3, <2>7 DEF IsOrderRule
    <3>2. IsList(all) /\ (all # <<>> <=> IsCell(rule, log))
      BY <2>2, <2>4, <3>1, OrderFinds
    <3>3. AsksFor(s, gap, odd) <=>
              /\ odd = "host" => ScopeOf(s) = "global"
              /\ odd \in {"value", "missing"} /\ a \in {"field", "temporal"} =>
                     \A i \in DOMAIN s.match_fields : s.match_fields[i].body # "logon"
      BY <2>7 DEF AsksFor, CrossesHosts
    <3> HIDE DEF all, a
    <3>4. Generate(rule, log).matches # <<>> <=> AsksFor(s, gap, odd)
      BY <1>2, <1>4, <2>3, <2>5, <2>6, <3>2, <3>3
    <3>5. QED BY <1>1, <2>1, <3>4 DEF kept, raw
  <2>8. CASE a = "temporal"
    <3>1. rule.total \in Nat /\ rule.within \in Nat /\ (rule.total > 0 <=> ~IsBlank(s.window_total))
      BY <1>2, <1>3, <2>8
    <3>2. Measured(rule)
      <4>1. Len(rule.seq) = n /\ DOMAIN s.sequence = 1 .. n /\ \A i \in 1 .. n : rule.seq[i].body = s.sequence[i].body
        <5>1. \A x : Text(x).body = x
          BY DEF Text
        <5>2. QED BY <1>2, <5>1
      <4>2. (rule.total > 0 /\ Len(rule.seq) > 3) => \A i, j \in DOMAIN s.sequence : i # j => s.sequence[i].body # s.sequence[j].body
        BY <2>8, <3>1, <4>1 DEF Retraced, n
      <4>3. (rule.total > 0 /\ Len(rule.seq) > 3) => Differs(rule)
        BY <4>1, <4>2 DEF Differs
      <4>4. rule.total <= 0 \/ Len(rule.seq) <= 3 \/ (rule.total > 0 /\ Len(rule.seq) > 3)
        BY <2>2, <3>1, <4>1
      <4>5. QED BY <4>3, <4>4 DEF Measured
    <3>3. IsList(all) /\ (all # <<>> <=> IsCell(rule, log) /\ Timely(rule, gap, Len(rule.seq)))
      BY <1>2, <2>2, <2>4, <2>8, <3>2, TemporalFinds
    <3>4. Timely(rule, gap, Len(rule.seq)) <=>
              (gap <= Length(s.window_within) /\ (~IsBlank(s.window_total) => gap * (n - 1) <= Length(s.window_total)))
      <4>1. n - 1 \in Nat /\ n > 1
        BY <2>2
      <4>2. \A i, j \in Nat : i * j = j * i
        OBVIOUS
      <4>3. (n - 1) * gap = gap * (n - 1)
        BY <4>1, <4>2
      <4>4. QED BY <1>2, <3>1, <4>1, <4>3 DEF Timely
    <3>5. AsksFor(s, gap, odd) <=>
              /\ odd = "host" => ScopeOf(s) = "global"
              /\ odd \in {"value", "missing"} /\ a \in {"field", "temporal"} =>
                     \A i \in DOMAIN s.match_fields : s.match_fields[i].body # "logon"
              /\ gap <= Length(s.window_within) /\ (~IsBlank(s.window_total) => gap * (n - 1) <= Length(s.window_total))
      BY <2>8 DEF AsksFor, n
    <3> HIDE DEF all, a
    <3>6. Generate(rule, log).matches # <<>> <=> AsksFor(s, gap, odd)
      BY <1>2, <1>4, <2>3, <2>5, <2>6, <3>3, <3>4, <3>5
    <3>7. QED BY <1>1, <2>1, <3>6 DEF kept, raw
  <2>9. QED BY <2>7, <2>8
<1>7. QED BY <1>5, <1>6

\* The study of rule files, at every step: a file is made of the lines of the list, and what is
\* decoded of it has lists where a rule has lists, and numbers where it has numbers.
RulesAreLines == study = "rules" => things \in Seq(DOMAIN RuleLines)

LEMMA RulesStay == Spec => []RulesAreLines
<1>1. Init => RulesAreLines
  BY DEF Init, RulesAreLines
<1>2. RulesAreLines /\ [Next]_vars => RulesAreLines'
  <2> SUFFICES ASSUME RulesAreLines, [Next]_vars, study' = "rules" PROVE things' \in Seq(DOMAIN RuleLines)
    BY DEF RulesAreLines, RuleLines
  <2> DEFINE numbers == DOMAIN RuleLines
  <2>1. CASE RuleLine
    <3>1. things \in Seq(numbers) /\ \E i \in numbers : things' = Append(things, i)
      BY <2>1 DEF RuleLine, Add, RulesAreLines
    <3> HIDE DEF numbers
    <3>2. things' \in Seq(numbers)
      BY <3>1
    <3>3. QED BY <3>2 DEF numbers
  <2>2. CASE UNCHANGED vars
    BY <2>2 DEF RulesAreLines, vars
  <2>3. ~LogEvent /\ ~TimedEvent /\ ~ProcessEvent /\ ~Card /\ ~FourNodes /\ ~Relate /\ ~Row /\ ~Link
    BY DEF LogEvent, TimedEvent, ProcessEvent, Card, FourNodes, Relate, Row, Link, Add
  <2>4. QED BY <2>1, <2>2, <2>3 DEF Next
<1>3. QED BY <1>1, <1>2, PTL DEF Spec

Texts == {Text("a"), Text("b"), Text("pid"), Text("colour"), Text("l"), Text(""),
          Padded("a"), Padded("logon"), Padded("pid"), Padded("l"), Padded("")}
ListFields == {"sequence", "labels", "match_fields", "lineage_create_ids", "channels"}
NumberFields == {"format_version", "lineage_depth"}
FitsField(line) ==
    /\ line = Line(line.key, line.value)
    /\ line.key \in ListFields => line.value \in Seq(Texts)
    /\ line.key \in NumberFields => line.value \in Int

LEMMA FittingLines ==
    /\ \A key, value : key \notin ListFields \cup NumberFields => FitsField(Line(key, value))
    /\ \A key \in ListFields, value \in Seq(Texts) : FitsField(Line(key, value))
    /\ \A key \in NumberFields, value \in Int : FitsField(Line(key, value))
<1>1. \A key, value : Line(key, value).key = key /\ Line(key, value).value = value
  BY DEF Line
<1>2. ListFields \cap NumberFields = {}
  BY DEF ListFields, NumberFields
<1>3. QED BY <1>1, <1>2 DEF FitsField

LEMMA LinesFit == \A i \in DOMAIN RuleLines : FitsField(RuleLines[i])
<1> DEFINE fits(line) == FitsField(line)
<1>1. \A value : \A key \in {"name", "algorithm", "match_scope", "window_within", "window_total", "colour"} :
          fits(Line(key, value))
  <2>1. \A key \in {"name", "algorithm", "match_scope", "window_within", "window_total", "colour"} :
            key \notin ListFields \cup NumberFields
    BY DEF ListFields, NumberFields
  <2>2. QED BY <2>1, FittingLines
<1>2. /\ Text("a") \in Texts /\ Text("b") \in Texts /\ Text("pid") \in Texts /\ Text("colour") \in Texts
      /\ Text("l") \in Texts /\ Text("") \in Texts
      /\ Padded("a") \in Texts /\ Padded("logon") \in Texts /\ Padded("pid") \in Texts /\ Padded("l") \in Texts
      /\ Padded("") \in Texts
  BY DEF Texts
<1>3. \A x, y, z \in Texts : <<x>> \in Seq(Texts) /\ <<x, y>> \in Seq(Texts) /\ <<x, y, z>> \in Seq(Texts)
  OBVIOUS
<1>4. \A x, y \in Texts : <<x, x, x, x>> \in Seq(Texts) /\ <<x, y, x, y, x>> \in Seq(Texts)
  OBVIOUS
<1>5. \A key \in {"sequence", "labels", "match_fields", "lineage_create_ids", "channels"}, value \in Seq(Texts) :
          fits(Line(key, value))
  BY FittingLines DEF ListFields
<1>6. fits(Line("lineage_depth", 1)) /\ fits(Line("lineage_depth", -1)) /\ fits(Line("lineage_depth", MaxDepth + 1))
      /\ fits(Line("format_version", 2))
  <2>1. MaxDepth + 1 \in Int
    <3>1. MaxDepth \in Nat
      BY RuleFormatAssumption
    <3>2. QED BY <3>1
  <2>2. QED BY <2>1, FittingLines DEF NumberFields
<1>7. {<<Text("a")>>, <<Padded("a"), Text("b")>>, <<Text("a"), Padded("")>>, <<Text("a"), Text("b"), Text("a")>>,
       <<Text("a"), Text("a"), Text("a"), Text("a")>>, <<Text("a"), Text("b"), Text("a"), Text("b"), Text("a")>>,
       <<Text("pid"), Padded("logon")>>, <<Text("pid"), Padded("pid")>>, <<Text("colour")>>, <<Text("")>>,
       <<Padded("l")>>, <<Text("l"), Text("l"), Text("l")>>, <<Padded("")>>} \subseteq Seq(Texts)
  <2> DEFINE L == Seq(Texts)
  <2>1. \A x, y, z \in Texts : <<x>> \in L /\ <<x, y>> \in L /\ <<x, y, z>> \in L /\ <<x, x, x, x>> \in L /\ <<x, y, x, y, x>> \in L
    BY <1>3, <1>4
  <2> HIDE DEF L
  <2>2. /\ <<Text("a")>> \in L /\ <<Padded("a"), Text("b")>> \in L /\ <<Text("a"), Padded("")>> \in L
        /\ <<Text("a"), Text("b"), Text("a")>> \in L /\ <<Text("a"), Text("a"), Text("a"), Text("a")>> \in L
        /\ <<Text("a"), Text("b"), Text("a"), Text("b"), Text("a")>> \in L
        /\ <<Text("pid"), Padded("logon")>> \in L /\ <<Text("pid"), Padded("pid")>> \in L /\ <<Text("colour")>> \in L
        /\ <<Text("")>> \in L /\ <<Padded("l")>> \in L /\ <<Text("l"), Text("l"), Text("l")>> \in L /\ <<Padded("")>> \in L
    BY <1>2, <2>1
  <2>3. QED BY <2>2, Zenon DEF L
<1> HIDE DEF fits
<1>8. \A i \in DOMAIN RuleLines : fits(RuleLines[i])
  <2>1. DOMAIN RuleLines = 1 .. 35
    BY DEF RuleLines
  <2>2. fits(RuleLines[1]) /\ fits(RuleLines[2]) /\ fits(RuleLines[3]) /\ fits(RuleLines[4]) /\ fits(RuleLines[5]) /\ fits(RuleLines[6]) /\ fits(RuleLines[7])
    BY <1>1, <1>5, <1>6, <1>7 DEF RuleLines
  <2>3. fits(RuleLines[8]) /\ fits(RuleLines[9]) /\ fits(RuleLines[10]) /\ fits(RuleLines[11]) /\ fits(RuleLines[12]) /\ fits(RuleLines[13]) /\ fits(RuleLines[14])
    BY <1>1, <1>5, <1>6, <1>7 DEF RuleLines
  <2>4. fits(RuleLines[15]) /\ fits(RuleLines[16]) /\ fits(RuleLines[17]) /\ fits(RuleLines[18]) /\ fits(RuleLines[19]) /\ fits(RuleLines[20]) /\ fits(RuleLines[21])
    BY <1>1, <1>5, <1>6, <1>7 DEF RuleLines
  <2>5. fits(RuleLines[22]) /\ fits(RuleLines[23]) /\ fits(RuleLines[24]) /\ fits(RuleLines[25]) /\ fits(RuleLines[26]) /\ fits(RuleLines[27]) /\ fits(RuleLines[28])
    BY <1>1, <1>5, <1>6, <1>7 DEF RuleLines
  <2>6. fits(RuleLines[29]) /\ fits(RuleLines[30]) /\ fits(RuleLines[31]) /\ fits(RuleLines[32]) /\ fits(RuleLines[33]) /\ fits(RuleLines[34]) /\ fits(RuleLines[35])
    BY <1>1, <1>5, <1>6, <1>7 DEF RuleLines
  <2>7. QED BY <2>1, <2>2, <2>3, <2>4, <2>5, <2>6
<1>9. QED BY <1>8 DEF fits

LEMMA DecodedIsSpec ==
    ASSUME RulesAreLines, study = "rules"
    PROVE  /\ IsSpec(Decode(File), Texts)
           /\ Decode(Pretty(File)) = Decode(File) /\ Advisories(Pretty(File)) = Advisories(File)
<1> DEFINE K == {RuleLines[i].key : i \in DOMAIN RuleLines}
           V == {RuleLines[i].value : i \in DOMAIN RuleLines}
           s == Decode(File)
<1>1. things \in Seq(DOMAIN RuleLines)
  BY DEF RulesAreLines
<1>2. \A j \in DOMAIN RuleLines : RuleLines[j] \in FileLines(K, V)
  <2>1. ASSUME NEW j \in DOMAIN RuleLines PROVE RuleLines[j] \in FileLines(K, V)
    <3>1. RuleLines[j].key \in K /\ RuleLines[j].value \in V
      OBVIOUS
    <3>2. RuleLines[j] = [key |-> RuleLines[j].key, value |-> RuleLines[j].value]
      BY LinesFit DEF FitsField, Line
    <3> HIDE DEF K, V
    <3>3. QED BY <3>1, <3>2 DEF FileLines
  <2>2. QED BY <2>1
<1>3. File \in Seq(FileLines(K, V)) /\ DOMAIN File = DOMAIN things /\ \A i \in DOMAIN File : FitsField(File[i])
  <2> DEFINE L == FileLines(K, V)
             numbers == DOMAIN RuleLines
  <2>1. (\A j \in numbers : RuleLines[j] \in L /\ FitsField(RuleLines[j])) /\ things \in Seq(numbers)
    BY <1>1, <1>2, LinesFit
  <2>2. File = [i \in DOMAIN things |-> RuleLines[things[i]]]
    BY DEF File
  <2> HIDE DEF L, numbers
  <2>3. File \in Seq(L) /\ DOMAIN File = DOMAIN things /\ \A i \in DOMAIN File : FitsField(File[i])
    BY <2>1, <2>2
  <2>4. QED BY <2>3 DEF L
<1> HIDE DEF K, V
<1>4. ASSUME NEW f \in Fields
      PROVE  s[f] = Zero[f] \/ \E i \in DOMAIN File : File[i].key = f /\ s[f] = File[i].value
  <2>1. s[f] = IF Lines(File, f) = {} THEN Zero[f] ELSE File[Max(Lines(File, f))].value
    BY DEF Decode
  <2>2. ASSUME Lines(File, f) # {} PROVE Max(Lines(File, f)) \in DOMAIN File /\ File[Max(Lines(File, f))].key = f
    <3>1. PICK i \in DOMAIN File : File[i].key = f
      BY <2>2 DEF Lines
    <3>2. Max(Lines(File, File[i].key)) \in Lines(File, File[i].key)
      BY <1>3, <3>1, LastLine
    <3>3. QED BY <3>1, <3>2 DEF Lines
  <2>3. QED BY <2>1, <2>2
<1>5. DOMAIN s = Fields
  BY DEF Decode
<1> HIDE DEF s
<1>6. /\ ListFields \subseteq Fields /\ \A f \in ListFields : Zero[f] = <<>>
      /\ NumberFields \subseteq Fields /\ \A f \in NumberFields : Zero[f] = 0
  BY DEF ListFields, NumberFields, Fields, Zero
<1>7. \A f \in ListFields : s[f] \in Seq(Texts)
  <2> DEFINE L == Seq(Texts)
  <2>1. <<>> \in L
    OBVIOUS
  <2>2. \A i \in DOMAIN File : File[i].key \in ListFields => File[i].value \in L
    BY <1>3 DEF FitsField
  <2> HIDE DEF L
  <2>3. \A f \in ListFields : s[f] \in L
    BY <1>4, <1>6, <2>1, <2>2
  <2>4. QED BY <2>3 DEF L
<1>8. \A f \in NumberFields : s[f] \in Int
  <2>1. \A i \in DOMAIN File : File[i].key \in NumberFields => File[i].value \in Int
    BY <1>3 DEF FitsField
  <2>2. QED BY <1>4, <1>6, <2>1
<1>9. IsSpec(s, Texts)
  <2>1. s.format_version \in Int /\ s.lineage_depth \in Int
    BY <1>8 DEF NumberFields
  <2>2. /\ s.sequence \in Seq(Texts) /\ s.labels \in Seq(Texts) /\ s.match_fields \in Seq(Texts)
        /\ s.lineage_create_ids \in Seq(Texts) /\ s.channels \in Seq(Texts)
    BY <1>7 DEF ListFields
  <2>3. QED BY <1>5, <2>1, <2>2 DEF IsSpec
<1>10. Decode(Pretty(File)) = Decode(File) /\ Advisories(Pretty(File)) = Advisories(File)
  BY <1>3, ReformattedReadsTheSame DEF FileLines
<1>11. QED BY <1>9, <1>10 DEF s

\* What is inert in a rule is inert in what is kept of it.
LEMMA KeptInert ==
    ASSUME NEW T, NEW s, IsSpec(s, T)
    PROVE  Inert(s) \subseteq Inert(Normalize(s))
<1> DEFINE k == Normalize(s)
<1>1. /\ k.sequence = TrimAll(s.sequence) /\ k.match_fields = TrimAll(s.match_fields)
      /\ k.lineage_create_ids = TrimAll(s.lineage_create_ids) /\ k.lineage_depth = s.lineage_depth
      /\ k.window_within = Trimmed(s.window_within) /\ k.window_total = Trimmed(s.window_total)
      /\ AlgorithmOf(k) = AlgorithmOf(s)
  BY KeptIsRead, NormalizeIs
<1> HIDE DEF k
<1>2. \A l \in Seq(T) : TrimAll(l) = <<>> <=> l = <<>>
  BY TrimAllIs
<1>3. s.sequence \in Seq(T) /\ s.match_fields \in Seq(T) /\ s.lineage_create_ids \in Seq(T)
  BY DEF IsSpec
<1>4. /\ k.sequence = <<>> <=> s.sequence = <<>>
      /\ k.match_fields = <<>> <=> s.match_fields = <<>>
      /\ k.lineage_create_ids = <<>> <=> s.lineage_create_ids = <<>>
  BY <1>1, <1>2, <1>3
<1>5. (IsBlank(k.window_within) <=> IsBlank(s.window_within)) /\ (IsBlank(k.window_total) <=> IsBlank(s.window_total))
  BY <1>1, TrimmedIs
<1>6. Zero.sequence = <<>> /\ Zero.match_fields = <<>> /\ Zero.lineage_create_ids = <<>>
  BY DEF Zero
<1>7. ASSUME NEW f \in {"match_fields", "window_within", "window_total", "lineage_create_ids", "lineage_depth", "sequence"}
      PROVE  IsSet(k, f) <=> IsSet(s, f)
  <2>1. CASE f \in {"window_within", "window_total"}
    <3>1. (IsSet(k, f) <=> ~IsBlank(k[f])) /\ (IsSet(s, f) <=> ~IsBlank(s[f]))
      BY <2>1 DEF IsSet
    <3>2. QED BY <1>5, <2>1, <3>1
  <2>2. CASE f \notin {"window_within", "window_total"}
    <3>1. (IsSet(k, f) <=> k[f] # Zero[f]) /\ (IsSet(s, f) <=> s[f] # Zero[f])
      BY <2>2 DEF IsSet
    <3>2. QED BY <1>1, <1>4, <1>6, <1>7, <2>2, <3>1
  <2>3. QED BY <2>1, <2>2
<1>8. QED BY <1>1, <1>7 DEF Inert, k

\* What the engine makes of a rule that was accepted, in every case of its pattern.
LEMMA AcceptedRuns ==
    ASSUME NEW T, NEW s, IsSpec(s, T), Accepted(s)
    PROVE  /\ Accepted(Normalize(s)) /\ Normalize(Normalize(s)) = Normalize(s)
           /\ \A gap \in Nat, odd \in Odds :
                  \/ Retraced(s) \/ CrossesHosts(s, odd)
                  \/ Evaluate(Normalize(s), PatternLog(s, gap, odd)).matches # <<>> <=> AsksFor(s, gap, odd)
           /\ \A f \in Inert(s) : \A log : Evaluate([Normalize(s) EXCEPT ![f] = Zero[f]], log) = Evaluate(Normalize(s), log)
<1> DEFINE k == Normalize(s)
<1>1. Accepted(k) /\ Normalize(k) = k
  BY NormalizedRulesAreStable DEF Accepted
<1>2. \A gap \in Nat, odd \in Odds :
          \/ Retraced(s) \/ CrossesHosts(s, odd)
          \/ Evaluate(k, PatternLog(s, gap, odd)).matches # <<>> <=> AsksFor(s, gap, odd)
  BY EveryPatternIsFound
<1>3. ASSUME NEW f \in Inert(s) PROVE \A log : Evaluate([k EXCEPT ![f] = Zero[f]], log) = Evaluate(k, log)
  <2>1. IsSpec(k, {Trimmed(x) : x \in T}) /\ f \in Inert(k)
    BY KeptIsRead, KeptInert
  <2> HIDE DEF k
  <2>2. QED BY <2>1, InertFieldsChangeNothing
<1> HIDE DEF k
<1>4. QED BY <1>1, <1>2, <1>3 DEF k

\* Rule files, of any number of the lines of the list, whatever the bounds of the schema: a rule
\* that is accepted runs as it is written, and reformatting a file leaves its rule. (As the
\* invariant says it; validate.go and rules.go against the four algorithms.)
THEOREM AcceptedRulesAlwaysRunAsWritten == Spec => []AcceptedRulesRunAsWritten
<1>1. ASSUME RulesAreLines PROVE AcceptedRulesRunAsWritten
  <2> DEFINE s == Decode(File)
             kept == Normalize(s)
             log(case) == PatternLog(s, case[1], case[2])
             cases == (0 .. 3) \X {""} \cup {1} \X {"host", "value", "missing"}
  <2> SUFFICES ASSUME study = "rules"
               PROVE  /\ Decode(Pretty(File)) = s /\ Advisories(Pretty(File)) = Advisories(File)
                      /\ Accepted(s) =>
                            (/\ Accepted(kept) /\ Normalize(kept) = kept
                             /\ \A case \in cases :
                                    (/\ \/ Retraced(s) \/ CrossesHosts(s, case[2])
                                        \/ Evaluate(kept, log(case)).matches # <<>> <=> AsksFor(s, case[1], case[2])
                                     /\ \A f \in Inert(s) :
                                            Evaluate([kept EXCEPT ![f] = Zero[f]], log(case)) = Evaluate(kept, log(case))))
    BY Zenon DEF AcceptedRulesRunAsWritten
  <2>1. IsSpec(s, Texts) /\ Decode(Pretty(File)) = s /\ Advisories(Pretty(File)) = Advisories(File)
    BY <1>1, DecodedIsSpec
  <2>2. \A case \in cases : case[1] \in Nat /\ case[2] \in Odds
    <3>1. "" \in Odds /\ "host" \in Odds /\ "value" \in Odds /\ "missing" \in Odds
      BY Zenon DEF Odds
    <3> DEFINE plain == {""}
               oddly == {"host", "value", "missing"}
    <3>2. plain \subseteq Odds /\ oddly \subseteq Odds
      BY <3>1, Zenon
    <3>3. cases = ((0 .. 3) \X plain) \cup ({1} \X oddly)
      BY Zenon
    <3> HIDE DEF cases, plain, oddly
    <3>4. \A case \in (0 .. 3) \X plain : case[1] \in Nat /\ case[2] \in Odds
      BY <3>2
    <3>5. \A case \in {1} \X oddly : case[1] \in Nat /\ case[2] \in Odds
      BY <3>2
    <3>6. QED BY <3>3, <3>4, <3>5
  <2> HIDE DEF s, cases
  <2>3. ASSUME Accepted(s)
        PROVE  /\ Accepted(kept) /\ Normalize(kept) = kept
               /\ \A gap \in Nat, odd \in Odds :
                      \/ Retraced(s) \/ CrossesHosts(s, odd)
                      \/ Evaluate(kept, PatternLog(s, gap, odd)).matches # <<>> <=> AsksFor(s, gap, odd)
               /\ \A f \in Inert(s) : \A l : Evaluate([kept EXCEPT ![f] = Zero[f]], l) = Evaluate(kept, l)
    BY <2>1, <2>3, AcceptedRuns
  <2> HIDE DEF kept
  <2>4. QED BY <2>1, <2>2, <2>3
<1>2. QED BY <1>1, RulesStay, PTL
=============================================================================
