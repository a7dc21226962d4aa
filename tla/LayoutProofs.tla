------------------------------ MODULE LayoutProofs ------------------------------
(* Proofs about layouts and clusters (GraphLayout), for graphs of any size. A   *)
(* loop of the code is a fold here; what is true after each step of it is       *)
(* proved by induction, a section and an invariant for each loop. The theorems  *)
(* about Spec say it of every graph MCAlgorithms can draw.                      *)
EXTENDS MCAlgorithms, FiniteSetTheorems, FunctionTheorems, WellFoundedInduction, TLAPS

-----------------------------------------------------------------------------
(* Induction and recursion. The provers cannot use an induction rule for a     *)
(* formula, so it is used for a set: the counterexamples have a least one.     *)

LEMMA LeastOf ==
    ASSUME NEW S \in SUBSET Nat, S # {}
    PROVE  \E m \in S : \A k \in S : m <= k
<1>1. PICK m \in S : \A k \in S : ~(<<k, m>> \in OpToRel(<, Nat))
  BY NatLessThanWellFounded, WFMin
<1>2. \A k \in S : ~(k < m)
  BY <1>1 DEF OpToRel
<1>3. QED BY <1>2

LEMMA UpTo ==
    ASSUME NEW n \in Nat, NEW S, 0 \in S, \A k \in 1 .. n : k - 1 \in S => k \in S
    PROVE  \A k \in 0 .. n : k \in S
<1> DEFINE Bad == {k \in 0 .. n : k \notin S}
<1>1. SUFFICES ASSUME Bad # {} PROVE FALSE
  OBVIOUS
<1>2. PICK k \in Bad : \A j \in Bad : k <= j
  <2>1. Bad \in SUBSET Nat
    OBVIOUS
  <2>2. QED BY <1>1, <2>1, LeastOf
<1>3. k # 0
  OBVIOUS
<1>4. k - 1 \in S
  BY <1>2, <1>3
<1>5. QED BY <1>3, <1>4

LEMMA MinIsLeast ==
    ASSUME NEW S \in SUBSET Nat, S # {}
    PROVE  Min(S) \in S /\ \A k \in S : Min(S) <= k
BY LeastOf DEF Min

LEMMA MaxBelow ==
    ASSUME NEW n \in Nat, NEW S \in SUBSET (0 .. n), S # {}
    PROVE  Max(S) \in S /\ \A k \in S : k <= Max(S)
<1> DEFINE T == {k \in 0 .. n : n - k \in S}
<1>1. T \in SUBSET Nat /\ T # {}
  <2>1. PICK s \in S : TRUE
    OBVIOUS
  <2>2. n - s \in T
    BY <2>1
  <2>3. QED BY <2>2
<1>2. PICK m \in T : \A k \in T : m <= k
  BY <1>1, LeastOf
<1>3. n - m \in S /\ \A k \in S : k <= n - m
  <2>1. ASSUME NEW k \in S PROVE k <= n - m
    <3>1. n - k \in T
      OBVIOUS
    <3>2. m <= n - k
      BY <1>2, <3>1
    <3>3. m \in 0 .. n /\ k \in 0 .. n
      OBVIOUS
    <3> HIDE DEF T
    <3>4. QED BY <3>2, <3>3
  <2>2. QED BY <2>1
<1>4. QED BY <1>3 DEF Max

\* A finite set of naturals has an upper bound.
LEMMA FiniteIsBounded ==
    ASSUME NEW S \in SUBSET Nat, IsFiniteSet(S)
    PROVE  \E n \in Nat : S \subseteq 0 .. n
<1> DEFINE Bounded(T) == \E n \in Nat : T \subseteq 0 .. n
           Fine == {c \in Nat : \A T \in SUBSET S : Cardinality(T) = c => Bounded(T)}
<1>1. Cardinality(S) \in Nat
  BY FS_CardinalityType
<1>2. \A T \in SUBSET S : IsFiniteSet(T) /\ Cardinality(T) \in Nat
  BY FS_Subset, FS_CardinalityType
<1>3. 0 \in Fine
  <2>1. ASSUME NEW T \in SUBSET S, Cardinality(T) = 0 PROVE Bounded(T)
    <3>1. T = {}
      BY <1>2, <2>1, FS_EmptySet
    <3>2. QED BY <3>1
  <2>2. QED BY <2>1
<1>4. ASSUME NEW c \in 1 .. Cardinality(S), c - 1 \in Fine PROVE c \in Fine
  <2>1. ASSUME NEW T \in SUBSET S, Cardinality(T) = c PROVE Bounded(T)
    <3>0. IsFiniteSet(T) /\ Cardinality(T) # 0
      BY <1>1, <1>2, <2>1
    <3>1. PICK x \in T : TRUE
      BY <3>0, FS_EmptySet
    <3>2. Cardinality(T \ {x}) = c - 1
      BY <1>2, <2>1, <3>1, FS_RemoveElement
    <3>3. PICK n \in Nat : T \ {x} \subseteq 0 .. n
      BY <1>4, <3>2
    <3>4. x \in Nat
      OBVIOUS
    <3>5. CASE x <= n
      BY <3>3, <3>4, <3>5
    <3>6. CASE x > n
      BY <3>3, <3>4, <3>6
    <3>7. QED BY <3>4, <3>5, <3>6
  <2>2. QED BY <2>1, <1>1
<1>5. \A c \in 0 .. Cardinality(S) : c \in Fine
  BY <1>1, <1>3, <1>4, UpTo
<1>6. QED BY <1>1, <1>5

LEMMA MaxIsGreatest ==
    ASSUME NEW S \in SUBSET Nat, IsFiniteSet(S), S # {}
    PROVE  Max(S) \in S /\ \A k \in S : k <= Max(S)
BY FiniteIsBounded, MaxBelow

-----------------------------------------------------------------------------
(* Folds. MapThenFoldSet is a recursive function on the subsets of 1 .. n: it  *)
(* exists because it does for the subsets of every smaller interval.           *)

FoldOn(g, n, base, f) ==
    \A s \in SUBSET (1 .. n) : g[s] = IF s = {} THEN base ELSE f[<<g[s \ {Max(s)}], Max(s)>>]

LEMMA FoldExists ==
    ASSUME NEW n \in Nat, NEW X, NEW base \in X, NEW f \in [X \X (1 .. n) -> X]
    PROVE  \E g \in [SUBSET (1 .. n) -> X] : FoldOn(g, n, base, f)
<1> DEFINE Sets(k) == {s \in SUBSET (1 .. n) : s \subseteq 1 .. k}
           Good(g, k) ==
               /\ g \in [Sets(k) -> X]
               /\ \A s \in Sets(k) : g[s] = IF s = {} THEN base ELSE f[<<g[s \ {Max(s)}], Max(s)>>]
           Fine == {k \in 0 .. n : \E g : Good(g, k)}
<1>1. 0 \in Fine
  <2>1. Good([s \in Sets(0) |-> base], 0)
    OBVIOUS
  <2> HIDE DEF Good
  <2>2. QED BY <2>1
<1>2. ASSUME NEW k \in 1 .. n, k - 1 \in Fine PROVE k \in Fine
  <2>1. PICK g : Good(g, k - 1)
    BY <1>2
  <2> DEFINE e == [s \in Sets(k) |-> IF s = {} THEN base ELSE f[<<g[s \ {Max(s)}], Max(s)>>]]
  <2>2. ASSUME NEW s \in Sets(k), s # {}
        PROVE  Max(s) \in 1 .. n /\ s \ {Max(s)} \in Sets(k - 1)
    <3>1. s \in SUBSET (0 .. n)
      OBVIOUS
    <3>2. Max(s) \in s /\ \A j \in s : j <= Max(s)
      BY <2>2, <3>1, MaxBelow
    <3>3. ASSUME NEW j \in s \ {Max(s)} PROVE j \in 1 .. (k - 1)
      <4>1. j \in 1 .. k /\ Max(s) \in 1 .. k /\ j <= Max(s) /\ j # Max(s)
        BY <3>2
      <4> HIDE DEF Sets
      <4>2. QED BY <4>1
    <3>4. Max(s) \in 1 .. n
      BY <3>2
    <3>5. s \ {Max(s)} \subseteq 1 .. (k - 1)
      BY <3>3
    <3>6. QED BY <3>4, <3>5
  <2>3. ASSUME NEW s \in Sets(k - 1) PROVE e[s] = g[s]
    <3>1. s \in Sets(k)
      OBVIOUS
    <3>2. e[s] = IF s = {} THEN base ELSE f[<<g[s \ {Max(s)}], Max(s)>>]
      BY <3>1
    <3>3. QED BY <2>1, <3>2
  <2>4. e \in [Sets(k) -> X]
    BY <2>1, <2>2
  <2>5. ASSUME NEW s \in Sets(k)
        PROVE  e[s] = IF s = {} THEN base ELSE f[<<e[s \ {Max(s)}], Max(s)>>]
    BY <2>2, <2>3
  <2>6. Good(e, k)
    BY <2>4, <2>5
  <2> HIDE DEF Good
  <2>7. QED BY <2>6
<1>3. \A k \in 0 .. n : k \in Fine
  <2> HIDE DEF Fine
  <2>1. QED BY <1>1, <1>2, UpTo
<1>4. PICK g : Good(g, n)
  <2> HIDE DEF Good
  <2>1. n \in 0 .. n
    OBVIOUS
  <2>2. QED BY <1>3, <2>1
<1>5. Sets(n) = SUBSET (1 .. n)
  OBVIOUS
<1>6. FoldOn(g, n, base, f) /\ g \in [SUBSET (1 .. n) -> X]
  BY <1>4, <1>5 DEF FoldOn
<1>7. QED BY <1>6

\* 1 .. k is taken apart at its end.
Ends(n, k) ==
    1 .. k \in SUBSET (1 .. n) /\ 1 .. k # {} /\ Max(1 .. k) = k /\ (1 .. k) \ {k} = 1 .. (k - 1)

LEMMA Intervals ==
    ASSUME NEW n \in Nat
    PROVE  1 .. 0 = {} /\ \A k \in 1 .. n : Ends(n, k)
<1>1. ASSUME NEW k \in 1 .. n PROVE Max(1 .. k) = k
  <2>1. 1 .. k \in SUBSET (0 .. k) /\ 1 .. k # {} /\ k \in Nat
    OBVIOUS
  <2>2. Max(1 .. k) \in 1 .. k /\ \A j \in 1 .. k : j <= Max(1 .. k)
    BY <2>1, MaxBelow
  <2>3. QED BY <2>2
<1>2. QED BY <1>1 DEF Ends

-----------------------------------------------------------------------------
(* Union-find: the parents form a forest, in which each node has a root and a  *)
(* height that falls towards it.                                               *)

IsTree(N, parent, root, height) ==
    /\ parent \in [N -> N] /\ root \in [N -> N] /\ height \in [N -> Nat]
    /\ \A m \in N : /\ parent[root[m]] = root[m]
                    /\ parent[m] = m => root[m] = m
                    /\ parent[m] # m => root[m] = root[parent[m]] /\ height[parent[m]] < height[m]
IsForest(N, parent) == \E root \in [N -> N], height \in [N -> Nat] : IsTree(N, parent, root, height)

LEMMA RootIs ==
    ASSUME NEW N, NEW parent, NEW root, NEW height, IsTree(N, parent, root, height)
    PROVE  \A n \in N : Root(parent, n) = root[n]
<1> DEFINE Climbs(g) == g = [m \in DOMAIN parent |-> IF parent[m] = m THEN m ELSE g[parent[m]]]
           up == CHOOSE g : Climbs(g)
<1>1. Climbs(root)
  BY DEF IsTree
<1>2. Climbs(up)
  <2> HIDE DEF Climbs
  <2>1. QED BY <1>1
<1>3. up = [m \in N |-> IF parent[m] = m THEN m ELSE up[parent[m]]]
  BY <1>2 DEF IsTree
<1>4. \A n \in N : Root(parent, n) = up[n]
  BY DEF Root
<1> HIDE DEF up, Climbs
<1> DEFINE Wrong == {m \in N : up[m] # root[m]}
           Heights == {height[m] : m \in Wrong}
<1>5. ASSUME Wrong # {} PROVE FALSE
  <2>1. Heights \in SUBSET Nat /\ Heights # {}
    BY <1>5 DEF IsTree
  <2>2. PICK b \in Wrong : \A m \in Wrong : height[b] <= height[m]
    <3>1. PICK k \in Heights : \A j \in Heights : k <= j
      BY <2>1, LeastOf
    <3>2. QED BY <3>1
  <2>3. parent[b] # b
    BY <1>3, <2>2 DEF IsTree
  <2>4. parent[b] \in N /\ height[parent[b]] < height[b] /\ height[b] \in Nat /\ height[parent[b]] \in Nat
    BY <2>2, <2>3 DEF IsTree
  <2>5. parent[b] \notin Wrong
    BY <2>2, <2>4
  <2>6. QED BY <1>3, <2>2, <2>3, <2>4, <2>5 DEF IsTree
<1>6. QED BY <1>4, <1>5

Hung(N, root, a, b, parent) ==
    \E r \in [N -> N], h \in [N -> Nat] :
        /\ IsTree(N, parent, r, h)
        /\ \A m \in N : r[m] = IF root[m] = a THEN b ELSE root[m]
LEMMA Hanging ==
    ASSUME NEW N, NEW parent, NEW root, NEW height, IsTree(N, parent, root, height),
           NEW a \in N, NEW b \in N, parent[a] = a, parent[b] = b
    PROVE  Hung(N, root, a, b, [parent EXCEPT ![a] = b])
<1> DEFINE p == [parent EXCEPT ![a] = b]
           r == [m \in N |-> IF root[m] = a THEN b ELSE root[m]]
           h == [m \in N |-> IF root[m] = a /\ a # b THEN height[m] + height[b] + 1 ELSE height[m]]
<1>1. p \in [N -> N] /\ r \in [N -> N] /\ h \in [N -> Nat]
  BY DEF IsTree
<1>2. root[a] = a /\ root[b] = b
  BY DEF IsTree
<1>3. ASSUME NEW m \in N PROVE p[r[m]] = r[m]
  BY <1>2 DEF IsTree
<1>4. ASSUME NEW m \in N, p[m] = m PROVE r[m] = m
  BY <1>2, <1>4 DEF IsTree
<1>5. ASSUME NEW m \in N, p[m] # m PROVE r[m] = r[p[m]] /\ h[p[m]] < h[m]
  <2>1. CASE m = a
    <3>1. p[m] = b /\ a # b
      BY <1>5, <2>1 DEF IsTree
    <3>2. QED BY <1>2, <2>1, <3>1 DEF IsTree
  <2>2. CASE m # a
    <3>1. p[m] = parent[m] /\ parent[m] # m /\ parent[m] \in N
      BY <1>5, <2>2 DEF IsTree
    <3>2. root[m] = root[parent[m]] /\ height[parent[m]] < height[m]
      BY <3>1 DEF IsTree
    <3>3. height[m] \in Nat /\ height[parent[m]] \in Nat /\ height[b] \in Nat
      BY <3>1 DEF IsTree
    <3>4. QED BY <3>1, <3>2, <3>3
  <2>3. QED BY <2>1, <2>2
<1>6. IsTree(N, p, r, h)
  <2> HIDE DEF p, r, h
  <2>1. QED BY <1>1, <1>3, <1>4, <1>5 DEF IsTree
<1>7. \A m \in N : r[m] = IF root[m] = a THEN b ELSE root[m]
  OBVIOUS
<1> HIDE DEF p, r, h
<1>8. Hung(N, root, a, b, p)
  BY <1>1, <1>6, <1>7 DEF Hung
<1>9. QED BY <1>8 DEF p

\* What a union does to the roots: those of one class get the root of the other.
Spliced(N, root, a, b, parent) ==
    \E r \in [N -> N], h \in [N -> Nat] :
        /\ IsTree(N, parent, r, h)
        /\ r[a] = r[b]
        /\ \A m \in N : root[m] \in {root[a], root[b]} => r[m] \in {root[a], root[b]}
        /\ \A m \in N : root[m] \notin {root[a], root[b]} => r[m] = root[m]
        /\ \A m, k \in N : root[m] = root[k] => r[m] = r[k]
LEMMA UnionMerges ==
    ASSUME NEW N, NEW parent, NEW root, NEW height, IsTree(N, parent, root, height), NEW a \in N, NEW b \in N
    PROVE  Spliced(N, root, a, b, Union(parent, a, b))
<1> DEFINE ra == root[a]
           rb == root[b]
           size(x) == Cardinality({n \in DOMAIN parent : Root(parent, n) = x})
<1>1. Root(parent, a) = ra /\ Root(parent, b) = rb
  BY RootIs
<1>2. Union(parent, a, b) = IF size(ra) < size(rb) THEN [parent EXCEPT ![ra] = rb] ELSE [parent EXCEPT ![rb] = ra]
  BY <1>1 DEF Union
<1>3. ra \in N /\ rb \in N /\ parent[ra] = ra /\ parent[rb] = rb /\ root[a] = ra /\ root[b] = rb
  BY DEF IsTree
<1> HIDE DEF ra, rb, size
<1>4. CASE size(ra) < size(rb)
  <2>0. Hung(N, root, ra, rb, [parent EXCEPT ![ra] = rb])
    BY <1>3, Hanging
  <2>1. PICK r \in [N -> N], h \in [N -> Nat] :
            /\ IsTree(N, [parent EXCEPT ![ra] = rb], r, h)
            /\ \A m \in N : r[m] = IF root[m] = ra THEN rb ELSE root[m]
    BY <2>0 DEF Hung
  <2>2. IsTree(N, Union(parent, a, b), r, h)
    BY <1>2, <1>4, <2>1
  <2>3. QED BY <1>3, <2>1, <2>2 DEF Spliced, ra, rb
<1>5. CASE ~(size(ra) < size(rb))
  <2>0. Hung(N, root, rb, ra, [parent EXCEPT ![rb] = ra])
    BY <1>3, Hanging
  <2>1. PICK r \in [N -> N], h \in [N -> Nat] :
            /\ IsTree(N, [parent EXCEPT ![rb] = ra], r, h)
            /\ \A m \in N : r[m] = IF root[m] = rb THEN ra ELSE root[m]
    BY <2>0 DEF Hung
  <2>2. IsTree(N, Union(parent, a, b), r, h)
    BY <1>2, <1>5, <2>1
  <2>3. QED BY <1>3, <2>1, <2>2 DEF Spliced, ra, rb
<1>6. QED BY <1>4, <1>5

\* What holds after k relations: their ends have one root, and only what they connect does.
Connected(N, rels, k, root) ==
    /\ \A i \in 1 .. k : {rels[i].from, rels[i].to} \subseteq N => root[rels[i].from] = root[rels[i].to]
    /\ \A S \in SUBSET N : Closed(N, rels, S) => \A m, n \in N : root[m] = root[n] => (m \in S <=> n \in S)
Joined(N, rels, k, parent) ==
    \E root \in [N -> N], height \in [N -> Nat] : IsTree(N, parent, root, height) /\ Connected(N, rels, k, root)

OneRelation(N, parent, r) == IF {r.from, r.to} \subseteq N THEN Union(parent, r.from, r.to) ELSE parent

LEMMA RelationJoins ==
    ASSUME NEW N, NEW rels \in Seq([from : Nat, to : Nat, rule : Nat]), NEW k \in 1 .. Len(rels),
           NEW parent, Joined(N, rels, k - 1, parent)
    PROVE  Joined(N, rels, k, OneRelation(N, parent, rels[k]))
<1>1. PICK root \in [N -> N], height \in [N -> Nat] :
          IsTree(N, parent, root, height) /\ Connected(N, rels, k - 1, root)
  BY DEF Joined
<1>2. CASE ~({rels[k].from, rels[k].to} \subseteq N)
  <2>1. Connected(N, rels, k, root)
    <3>1. \A i \in 1 .. k : i # k => i \in 1 .. (k - 1)
      OBVIOUS
    <3>2. QED BY <1>1, <1>2, <3>1 DEF Connected
  <2>2. QED BY <1>1, <1>2, <2>1 DEF Joined, OneRelation
<1>3. CASE {rels[k].from, rels[k].to} \subseteq N
  <2> DEFINE a == rels[k].from
             b == rels[k].to
  <2>1. a \in N /\ b \in N
    BY <1>3
  <2>0. Spliced(N, root, a, b, Union(parent, a, b))
    BY <1>1, <2>1, UnionMerges
  <2>2. PICK r \in [N -> N], h \in [N -> Nat] :
            /\ IsTree(N, Union(parent, a, b), r, h)
            /\ r[a] = r[b]
            /\ \A m \in N : root[m] \in {root[a], root[b]} => r[m] \in {root[a], root[b]}
            /\ \A m \in N : root[m] \notin {root[a], root[b]} => r[m] = root[m]
            /\ \A m, n \in N : root[m] = root[n] => r[m] = r[n]
    BY <2>0 DEF Spliced
  <2>3. ASSUME NEW i \in 1 .. k, {rels[i].from, rels[i].to} \subseteq N
        PROVE  r[rels[i].from] = r[rels[i].to]
    <3>1. CASE i = k
      BY <2>2, <3>1
    <3>2. CASE i # k
      <4>1. i \in 1 .. (k - 1)
        BY <3>2
      <4>2. root[rels[i].from] = root[rels[i].to]
        BY <1>1, <2>3, <4>1 DEF Connected
      <4>3. rels[i].from \in N /\ rels[i].to \in N
        BY <2>3
      <4>4. QED BY <2>2, <4>2, <4>3
    <3>3. QED BY <3>1, <3>2
  <2>4. ASSUME NEW S \in SUBSET N, Closed(N, rels, S), NEW m \in N, NEW n \in N, r[m] = r[n]
        PROVE  m \in S <=> n \in S
    <3>1. a \in S <=> b \in S
      BY <1>3, <2>4 DEF Closed, ToSet
    <3>2. \A x, y \in N : root[x] = root[y] => (x \in S <=> y \in S)
      BY <1>1, <2>4 DEF Connected
    <3>3. CASE root[m] \in {root[a], root[b]}
      <4>1. r[m] \in {root[a], root[b]}
        BY <2>1, <2>2, <3>3
      <4>2. root[n] \in {root[a], root[b]}
        BY <2>2, <2>4, <4>1
      <4>3. QED BY <2>1, <3>1, <3>2, <3>3, <4>2
    <3>4. CASE root[m] \notin {root[a], root[b]}
      <4>1. root[n] \notin {root[a], root[b]}
        BY <2>1, <2>2, <2>4, <3>4
      <4>2. QED BY <2>2, <2>4, <3>2, <3>4, <4>1
    <3>5. QED BY <3>3, <3>4
  <2>5. Connected(N, rels, k, r)
    BY <2>3, <2>4 DEF Connected
  <2>6. QED BY <1>3, <2>2, <2>5 DEF Joined, OneRelation
<1>4. QED BY <1>2, <1>3

LEMMA RelationKeepsForest ==
    ASSUME NEW N, NEW parent \in [N -> N], IsForest(N, parent), NEW r
    PROVE  OneRelation(N, parent, r) \in [N -> N] /\ IsForest(N, OneRelation(N, parent, r))
<1>1. CASE {r.from, r.to} \subseteq N
  <2>1. PICK root, height : IsTree(N, parent, root, height)
    BY DEF IsForest
  <2>2. r.from \in N /\ r.to \in N
    BY <1>1
  <2>3. Spliced(N, root, r.from, r.to, Union(parent, r.from, r.to))
    BY <2>1, <2>2, UnionMerges
  <2>4. PICK rr \in [N -> N], h \in [N -> Nat] : IsTree(N, Union(parent, r.from, r.to), rr, h)
    BY <2>3 DEF Spliced
  <2>5. Union(parent, r.from, r.to) \in [N -> N] /\ IsForest(N, Union(parent, r.from, r.to))
    BY <2>4 DEF IsForest, IsTree
  <2>6. QED BY <1>1, <2>5 DEF OneRelation
<1>2. CASE ~({r.from, r.to} \subseteq N)
  BY <1>2 DEF OneRelation
<1>3. QED BY <1>1, <1>2

\* The partition that the union-find of Components ends with.
LEMMA ComponentsAreJoined ==
    ASSUME NEW nodes, NEW rels, IsGraph(nodes, rels)
    PROVE  \E parent :
               /\ Joined(NodeIds(nodes), rels, Len(rels), parent)
               /\ Components(nodes, rels) =
                      {{m \in NodeIds(nodes) : Root(parent, m) = Root(parent, n)} : n \in NodeIds(nodes)}
<1> DEFINE N == NodeIds(nodes)
           n == Len(rels)
           base == [id \in N |-> id]
           X == {p \in [N -> N] : IsForest(N, p)}
           f == [z \in X \X (1 .. n) |-> OneRelation(N, z[1], rels[z[2]])]
           Folds(g) == g = [s \in SUBSET DOMAIN rels |->
                               IF s = {} THEN base ELSE OneRelation(N, g[s \ {Max(s)}], rels[Max(s)])]
           h == CHOOSE g : Folds(g)
<1>1. n \in Nat /\ DOMAIN rels = 1 .. n /\ rels \in Seq([from : Nat, to : Nat, rule : Nat])
  BY DEF IsGraph
<1>2. base \in X /\ Joined(N, rels, 0, base)
  <2> DEFINE flat == [id \in N |-> 0]
  <2>1. IsTree(N, base, base, flat) /\ base \in [N -> N] /\ flat \in [N -> Nat]
    BY DEF IsTree
  <2>2. Connected(N, rels, 0, base)
    BY DEF Connected
  <2> HIDE DEF base, flat
  <2>3. QED BY <2>1, <2>2 DEF IsForest, Joined
<1> HIDE DEF base
<1>3. f \in [X \X (1 .. n) -> X]
  BY RelationKeepsForest
<1>4. PICK g \in [SUBSET (1 .. n) -> X] : FoldOn(g, n, base, f)
  <2> HIDE DEF X, f
  <2>1. QED BY <1>1, <1>2, <1>3, FoldExists
<1>5. Folds(g)
  <2>1. ASSUME NEW s \in SUBSET (1 .. n), s # {}
        PROVE  f[<<g[s \ {Max(s)}], Max(s)>>] = OneRelation(N, g[s \ {Max(s)}], rels[Max(s)])
    <3>1. s \in SUBSET (0 .. n)
      OBVIOUS
    <3>2. Max(s) \in 1 .. n
      BY <1>1, <2>1, <3>1, MaxBelow
    <3>3. g[s \ {Max(s)}] \in X
      BY <1>4
    <3> HIDE DEF X
    <3>4. QED BY <3>2, <3>3
  <2> HIDE DEF X, f
  <2>2. QED BY <1>1, <1>4, <2>1 DEF FoldOn
<1> HIDE DEF X, f
<1>6. Folds(h)
  <2> HIDE DEF Folds
  <2>1. QED BY <1>5
<1>7. Components(nodes, rels) = {{m \in N : Root(h[1 .. n], m) = Root(h[1 .. n], k)} : k \in N}
  <2>1. Components(nodes, rels) = {{m \in N : Root(h[DOMAIN rels], m) = Root(h[DOMAIN rels], k)} : k \in N}
    BY DEF Components, FoldLeft, MapThenFoldSet, OneRelation, base
  <2> HIDE DEF h
  <2>2. QED BY <1>1, <2>1
<1> HIDE DEF h
<1>8. /\ h[1 .. 0] = base
      /\ \A k \in 1 .. n : h[1 .. k] = OneRelation(N, h[1 .. (k - 1)], rels[k])
  <2>1. 1 .. 0 = {} /\ h[1 .. 0] = base
    BY <1>1, <1>6
  <2>2. ASSUME NEW k \in 1 .. n PROVE h[1 .. k] = OneRelation(N, h[1 .. (k - 1)], rels[k])
    <3>1. Ends(n, k)
      BY <1>1, Intervals
    <3>2. h[1 .. k] = OneRelation(N, h[(1 .. k) \ {Max(1 .. k)}], rels[Max(1 .. k)])
      BY <1>1, <1>6, <3>1 DEF Ends
    <3>3. QED BY <3>1, <3>2 DEF Ends
  <2>3. QED BY <2>1, <2>2
<1> DEFINE Fine == {k \in 0 .. n : Joined(N, rels, k, h[1 .. k])}
<1>9. 0 \in Fine
  BY <1>1, <1>2, <1>8
<1>10. ASSUME NEW k \in 1 .. n, k - 1 \in Fine PROVE k \in Fine
  <2>1. h[1 .. k] = OneRelation(N, h[1 .. (k - 1)], rels[k])
    BY <1>8
  <2>2. Joined(N, rels, k - 1, h[1 .. (k - 1)])
    BY <1>10
  <2> DEFINE p == h[1 .. (k - 1)]
  <2> HIDE DEF p, N
  <2>3. Joined(N, rels, k, OneRelation(N, p, rels[k]))
    BY <1>1, <2>2, RelationJoins DEF p
  <2>4. QED BY <1>1, <2>1, <2>3 DEF p
<1>11. n \in Fine
  <2> HIDE DEF Fine
  <2>1. n \in 0 .. n
    BY <1>1
  <2>2. QED BY <1>1, <1>9, <1>10, <2>1, UpTo
<1>12. QED BY <1>7, <1>11

\* Whatever the graph, the clusterings are whole: a component is closed under the relations and no
\* part of it is, and none of the three clusterings leaves a node out. (clusters.go)
THEOREM EveryClusteringCovers ==
    ASSUME NEW nodes, NEW rels, IsGraph(nodes, rels)
    PROVE  ClustersCover(nodes, rels)
<1> DEFINE N == NodeIds(nodes)
<1>1. PICK parent :
          /\ Joined(N, rels, Len(rels), parent)
          /\ Components(nodes, rels) = {{m \in N : Root(parent, m) = Root(parent, n)} : n \in N}
  BY ComponentsAreJoined
<1>2. PICK root \in [N -> N], height \in [N -> Nat] :
          IsTree(N, parent, root, height) /\ Connected(N, rels, Len(rels), root)
  BY <1>1 DEF Joined
<1>3. Components(nodes, rels) = {{m \in N : root[m] = root[n]} : n \in N}
  <2>1. \A m \in N : Root(parent, m) = root[m]
    BY <1>2, RootIs
  <2>2. \A n \in N : {m \in N : Root(parent, m) = Root(parent, n)} = {m \in N : root[m] = root[n]}
    BY <2>1
  <2>3. QED BY <1>1, <2>2
<1>4. DOMAIN rels = 1 .. Len(rels)
  BY DEF IsGraph
<1> HIDE DEF N
<1>5. ASSUME NEW C \in Components(nodes, rels)
      PROVE  Closed(N, rels, C) /\ \A S \in SUBSET C : Closed(N, rels, S) => S \in {{}, C}
  <2>1. PICK n \in N : C = {m \in N : root[m] = root[n]}
    BY <1>3
  <2>2. Closed(N, rels, C)
    <3>1. ASSUME NEW i \in DOMAIN rels, {rels[i].from, rels[i].to} \subseteq N
          PROVE  rels[i].from \in C <=> rels[i].to \in C
      <4>1. root[rels[i].from] = root[rels[i].to]
        BY <1>2, <1>4, <3>1 DEF Connected
      <4>2. QED BY <2>1, <3>1, <4>1
    <3>2. QED BY <3>1 DEF Closed, ToSet
  <2>3. ASSUME NEW S \in SUBSET C, Closed(N, rels, S), S # {} PROVE S = C
    <3>1. PICK s \in S : TRUE
      BY <2>3
    <3>2. S \in SUBSET N
      BY <2>1
    <3>3. \A m \in C : m \in S <=> s \in S
      BY <1>2, <2>1, <2>3, <3>2 DEF Connected
    <3>4. QED BY <3>1, <3>3
  <2>4. QED BY <2>2, <2>3
<1>6. UNION Components(nodes, rels) = N /\ {} \notin Components(nodes, rels)
  BY <1>3
<1>7. UNION RuleClusters(nodes, rels) = N /\ {} \notin RuleClusters(nodes, rels)
  BY DEF RuleClusters, TouchedBy, N
<1>8. UNION SlotClusters(nodes) = N /\ {} \notin SlotClusters(nodes)
  BY SMTT(30) DEF SlotClusters, WithValue, NodeIds, N
<1>9. QED BY <1>5, <1>6, <1>7, <1>8 DEF ClustersCover, N

-----------------------------------------------------------------------------
(* Ranking: one node at a time, none before the nodes that point at it unless  *)
(* every node left has another of them behind it.                              *)

LEMMA ImageIsFinite ==
    ASSUME NEW S, IsFiniteSet(S), NEW f, S \subseteq DOMAIN f
    PROVE  IsFiniteSet({f[x] : x \in S})
<1> DEFINE T == {f[x] : x \in S}
           e == [x \in S |-> f[x]]
<1>1. e \in Surjection(S, T)
  BY DEF Surjection
<1> HIDE DEF T, e
<1>2. QED BY <1>1, FS_Surjection DEF T

IsNet(ids, edges) == IsFiniteSet(ids) /\ ids \subseteq Nat \ {0} /\ edges \subseteq ids \X ids

\* What holds when k nodes have been ranked.
Ranked(ids, edges, k, st) ==
    /\ Known(st.rank) \subseteq ids /\ st.rank \in [Known(st.rank) -> Nat] /\ Cardinality(Known(st.rank)) = k
    /\ st.broken \subseteq Known(st.rank) /\ (st.broken # {} => Cyclic(ids, edges))
    /\ \A n \in Known(st.rank) :
          /\ n \in st.broken \/ \A p \in Before(n, edges) : p \in Known(st.rank) /\ st.rank[p] < st.rank[n]
          /\ st.rank[n] > 0 => \E p \in Before(n, edges) \cap Known(st.rank) : st.rank[p] = st.rank[n] - 1

\* The rank of a node is zero, or one more than the highest before it.
LEMMA RankOf ==
    ASSUME NEW ids, NEW edges, IsNet(ids, edges), NEW st, NEW S, st.rank \in [S -> Nat], NEW n
    PROVE  /\ Rank(st, n, edges) \in Nat
           /\ \A p \in Before(n, edges) \cap S : st.rank[p] < Rank(st, n, edges)
           /\ Rank(st, n, edges) > 0 => \E p \in Before(n, edges) \cap S : st.rank[p] = Rank(st, n, edges) - 1
<1> DEFINE B == Before(n, edges) \cap S
           f == [p \in B |-> st.rank[p] + 1]
           T == {0} \cup {f[p] : p \in B}
<1>1. B \subseteq ids /\ IsFiniteSet(B)
  <2>1. B \subseteq ids
    BY DEF Before, IsNet
  <2>2. QED BY <2>1, FS_Subset DEF IsNet
<1>2. IsFiniteSet({f[p] : p \in B})
  <2>1. DOMAIN f = B
    OBVIOUS
  <2> HIDE DEF f, B
  <2>2. QED BY <1>1, <2>1, ImageIsFinite
<1>3. IsFiniteSet(T)
  BY <1>2, FS_Singleton, FS_Union
<1>4. T \in SUBSET Nat /\ T # {}
  OBVIOUS
<1>5. Max(T) \in T /\ \A k \in T : k <= Max(T)
  <2> HIDE DEF T
  <2>1. QED BY <1>3, <1>4, MaxIsGreatest
<1>6. Rank(st, n, edges) = Max(T)
  <2>1. T = {0} \cup {st.rank[p] + 1 : p \in B}
    OBVIOUS
  <2>2. DOMAIN st.rank = S
    OBVIOUS
  <2> HIDE DEF T
  <2>3. QED BY <2>1, <2>2 DEF Rank, Known
<1>7. ASSUME NEW p \in B PROVE st.rank[p] + 1 <= Max(T) /\ st.rank[p] \in Nat
  <2>1. st.rank[p] + 1 \in T
    OBVIOUS
  <2>2. QED BY <1>5, <2>1
<1>8. Max(T) \in Nat
  BY <1>4, <1>5
<1>9. ASSUME Max(T) > 0 PROVE \E p \in B : st.rank[p] = Max(T) - 1
  <2>1. PICK p \in B : Max(T) = st.rank[p] + 1
    BY <1>5, <1>9
  <2>2. st.rank[p] \in Nat
    OBVIOUS
  <2> HIDE DEF T
  <2>3. QED BY <2>1, <2>2
<1> HIDE DEF T
<1>10. QED BY <1>6, <1>7, <1>8, <1>9

LEMMA RankStep ==
    ASSUME NEW ids, NEW edges, IsNet(ids, edges), NEW k \in Nat, k < Cardinality(ids),
           NEW st, Ranked(ids, edges, k, st)
    PROVE  Ranked(ids, edges, k + 1, RankNext(ids, edges, st))
<1> DEFINE K == Known(st.rank)
           left == ids \ K
           ready == {n \in left : Before(n, edges) \subseteq K}
           n == Min(IF ready = {} THEN left ELSE ready)
           r == Rank(st, n, edges)
           next == RankNext(ids, edges, st)
<1>1. K \subseteq ids /\ st.rank \in [K -> Nat] /\ Cardinality(K) = k
  BY DEF Ranked
<1>2. left # {} /\ IsFiniteSet(K)
  <2>1. K # ids
    BY <1>1
  <2>2. QED BY <1>1, <2>1, FS_Subset DEF IsNet
<1>3. n \in left /\ (ready # {} => n \in ready)
  <2>1. left \subseteq Nat /\ ready \subseteq left
    BY DEF IsNet
  <2>2. CASE ready = {}
    BY <1>2, <2>1, <2>2, MinIsLeast
  <2>3. CASE ready # {}
    BY <2>1, <2>3, MinIsLeast
  <2>4. QED BY <2>2, <2>3
<1>4. /\ r \in Nat
      /\ \A p \in Before(n, edges) \cap K : st.rank[p] < r
      /\ r > 0 => \E p \in Before(n, edges) \cap K : st.rank[p] = r - 1
  <2> HIDE DEF n, K
  <2>1. QED BY <1>1, RankOf
<1>5. /\ next.rank = [z \in K \cup {n} |-> IF z = n THEN r ELSE st.rank[z]]
      /\ next.broken = IF ready = {} THEN st.broken \cup {n} ELSE st.broken
  BY DEF RankNext, Extended, Known
<1>6. ready = {} => Cyclic(ids, edges)
  <2>1. ASSUME ready = {}, NEW m \in left PROVE Before(m, edges) \cap left # {}
    BY <2>1 DEF Before, IsNet
  <2>2. QED BY <1>2, <2>1 DEF Cyclic, Circular
<1> HIDE DEF n, r, next
<1>7. Known(next.rank) = K \cup {n} /\ next.rank \in [K \cup {n} -> Nat]
  BY <1>1, <1>4, <1>5 DEF Known
<1>8. K \cup {n} \subseteq ids /\ Cardinality(K \cup {n}) = k + 1
  BY <1>1, <1>2, <1>3, FS_AddElement
<1>9. next.broken \subseteq K \cup {n} /\ (next.broken # {} => Cyclic(ids, edges))
  BY <1>5, <1>6 DEF Ranked
<1>10. ASSUME NEW m \in K \cup {n}
       PROVE  /\ m \in next.broken \/ \A p \in Before(m, edges) : p \in K \cup {n} /\ next.rank[p] < next.rank[m]
              /\ next.rank[m] > 0 => \E p \in Before(m, edges) \cap (K \cup {n}) : next.rank[p] = next.rank[m] - 1
  <2>1. CASE m = n
    <3>1. next.rank[m] = r /\ n \notin K
      BY <1>3, <1>5, <2>1
    <3>2. \A p \in K : next.rank[p] = st.rank[p]
      BY <1>5, <3>1
    <3>3. ready # {} => Before(n, edges) \subseteq K
      BY <1>3
    <3>4. QED BY <1>4, <1>5, <2>1, <3>1, <3>2, <3>3
  <2>2. CASE m # n
    <3>1. m \in K /\ next.rank[m] = st.rank[m] /\ n \notin K
      BY <1>3, <1>5, <2>2
    <3>2. \A p \in K : next.rank[p] = st.rank[p]
      BY <1>5, <3>1
    <3>3. /\ m \in st.broken \/ \A p \in Before(m, edges) : p \in K /\ st.rank[p] < st.rank[m]
          /\ st.rank[m] > 0 => \E p \in Before(m, edges) \cap K : st.rank[p] = st.rank[m] - 1
      BY <3>1 DEF Ranked
    <3>4. st.broken \subseteq next.broken
      BY <1>5
    <3>5. QED BY <3>1, <3>2, <3>3, <3>4
  <2>3. QED BY <2>1, <2>2
<1> HIDE DEF K
<1>11. QED BY <1>7, <1>8, <1>9, <1>10 DEF Ranked, next

\* A step has a result also where there is no node left to rank: the fold is a function of any state.
RankStates(ids) ==
    LET any == ids \cup {Min({})}
    IN [rank : UNION {[S -> Nat] : S \in SUBSET any}, broken : SUBSET any]

LEMMA RankStaysTyped ==
    ASSUME NEW ids, NEW edges, IsNet(ids, edges), NEW st \in RankStates(ids)
    PROVE  RankNext(ids, edges, st) \in RankStates(ids)
<1> DEFINE any == ids \cup {Min({})}
           K == Known(st.rank)
           left == ids \ K
           ready == {n \in left : Before(n, edges) \subseteq K}
           n == Min(IF ready = {} THEN left ELSE ready)
           next == RankNext(ids, edges, st)
<1>1. PICK S \in SUBSET any : st.rank \in [S -> Nat]
  BY DEF RankStates
<1>2. K = S /\ st.broken \in SUBSET any
  BY <1>1 DEF Known, RankStates
<1>3. n \in any
  <2>1. left \subseteq ids /\ ready \subseteq left /\ left \subseteq Nat
    BY DEF IsNet
  <2> HIDE DEF left, ready
  <2>2. CASE left = {}
    <3>1. ready = {}
      BY <2>1, <2>2
    <3>2. n = Min({})
      BY <2>2, <3>1
    <3>3. QED BY <3>2
  <2>3. CASE left # {}
    <3>1. n \in left
      BY <2>1, <2>3, MinIsLeast
    <3>2. QED BY <2>1, <3>1
  <2>4. QED BY <2>2, <2>3
<1> HIDE DEF n
<1>4. Rank(st, n, edges) \in Nat
  BY <1>1, RankOf
<1>5. next = [rank |-> Extended(st.rank, n, Rank(st, n, edges)),
              broken |-> IF ready = {} THEN st.broken \cup {n} ELSE st.broken]
  BY DEF RankNext, n
<1> HIDE DEF next, K, ready, any
<1>6. Extended(st.rank, n, Rank(st, n, edges)) \in [S \cup {n} -> Nat]
  BY <1>1, <1>4 DEF Extended
<1>7. S \cup {n} \in SUBSET any /\ st.broken \cup {n} \in SUBSET any
  BY <1>2, <1>3
<1>8. Extended(st.rank, n, Rank(st, n, edges)) \in UNION {[T -> Nat] : T \in SUBSET any}
  BY <1>6, <1>7
<1>9. next \in RankStates(ids)
  BY <1>2, <1>5, <1>7, <1>8 DEF RankStates, any
<1>10. QED BY <1>9 DEF next

LEMMA RankingIsRanked ==
    ASSUME NEW ids, NEW edges, IsNet(ids, edges)
    PROVE  Ranked(ids, edges, Cardinality(ids), Ranking(ids, edges))
<1> DEFINE n == Cardinality(ids)
           numbers == [i \in 1 .. n |-> i]
           base == [rank |-> NoFunction, broken |-> {}]
           X == RankStates(ids)
           f == [z \in X \X (1 .. n) |-> RankNext(ids, edges, z[1])]
           Folds(g) == g = [s \in SUBSET DOMAIN numbers |->
                               IF s = {} THEN base ELSE RankNext(ids, edges, g[s \ {Max(s)}])]
           h == CHOOSE g : Folds(g)
<1>1. n \in Nat /\ DOMAIN numbers = 1 .. n
  BY FS_CardinalityType DEF IsNet
<1>2. base \in X /\ Ranked(ids, edges, 0, base)
  <2>1. NoFunction \in [{} -> Nat] /\ Known(NoFunction) = {} /\ Cardinality({}) = 0
    BY FS_EmptySet DEF NoFunction, Known
  <2>2. QED BY <2>1 DEF RankStates, Ranked
<1> HIDE DEF base
<1>3. f \in [X \X (1 .. n) -> X]
  BY RankStaysTyped
<1>4. PICK g \in [SUBSET (1 .. n) -> X] : FoldOn(g, n, base, f)
  <2> HIDE DEF X, f
  <2>1. QED BY <1>1, <1>2, <1>3, FoldExists
<1>5. Folds(g)
  <2>1. ASSUME NEW s \in SUBSET (1 .. n), s # {}
        PROVE  f[<<g[s \ {Max(s)}], Max(s)>>] = RankNext(ids, edges, g[s \ {Max(s)}])
    <3>1. s \in SUBSET (0 .. n)
      OBVIOUS
    <3>2. Max(s) \in 1 .. n
      BY <1>1, <2>1, <3>1, MaxBelow
    <3>3. g[s \ {Max(s)}] \in X
      BY <1>4
    <3> HIDE DEF X
    <3>4. QED BY <3>2, <3>3
  <2> HIDE DEF X, f, numbers
  <2>2. QED BY <1>1, <1>4, <2>1 DEF FoldOn
<1> HIDE DEF X, f
<1>6. Folds(h)
  <2> HIDE DEF Folds
  <2>1. QED BY <1>5
<1>7. Ranking(ids, edges) = h[1 .. n]
  <2>1. Ranking(ids, edges) = h[DOMAIN numbers]
    BY DEF Ranking, Steps, FoldLeft, MapThenFoldSet, base
  <2> HIDE DEF h, numbers
  <2>2. QED BY <1>1, <2>1
<1> HIDE DEF h, numbers
<1>8. /\ h[1 .. 0] = base
      /\ \A k \in 1 .. n : h[1 .. k] = RankNext(ids, edges, h[1 .. (k - 1)])
  <2>1. 1 .. 0 = {} /\ h[1 .. 0] = base
    BY <1>1, <1>6
  <2>2. ASSUME NEW k \in 1 .. n PROVE h[1 .. k] = RankNext(ids, edges, h[1 .. (k - 1)])
    <3>1. Ends(n, k)
      BY <1>1, Intervals
    <3>2. h[1 .. k] = RankNext(ids, edges, h[(1 .. k) \ {Max(1 .. k)}])
      BY <1>1, <1>6, <3>1 DEF Ends
    <3>3. QED BY <3>1, <3>2 DEF Ends
  <2>3. QED BY <2>1, <2>2
<1> HIDE DEF n
<1> DEFINE Fine == {k \in 0 .. n : Ranked(ids, edges, k, h[1 .. k])}
<1>9. 0 \in Fine
  BY <1>1, <1>2, <1>8
<1>10. ASSUME NEW k \in 1 .. n, k - 1 \in Fine PROVE k \in Fine
  <2> DEFINE st == h[1 .. (k - 1)]
             j == k - 1
  <2>1. j \in Nat /\ j < n /\ k = j + 1 /\ h[1 .. k] = RankNext(ids, edges, st) /\ Ranked(ids, edges, j, st)
    BY <1>1, <1>8, <1>10
  <2> HIDE DEF st, j
  <2>2. Ranked(ids, edges, j + 1, RankNext(ids, edges, st))
    BY <2>1, RankStep DEF n
  <2>3. QED BY <1>1, <2>1, <2>2
<1>11. n \in Fine
  <2> HIDE DEF Fine
  <2>1. n \in 0 .. n
    BY <1>1
  <2>2. QED BY <1>1, <1>9, <1>10, <2>1, UpTo
<1>12. QED BY <1>7, <1>11 DEF n

LEMMA GraphIsNet ==
    ASSUME NEW nodes, NEW rels, IsGraph(nodes, rels)
    PROVE  IsNet(NodeIds(nodes), Edges(nodes, rels)) /\ Cardinality(NodeIds(nodes)) = Cardinality(nodes)
<1> DEFINE f == [n \in nodes |-> n.id]
<1>1. f \in Surjection(nodes, NodeIds(nodes)) /\ f \in Injection(nodes, NodeIds(nodes))
  BY DEF Surjection, Injection, IsInjective, NodeIds, IsGraph
<1>2. IsFiniteSet(NodeIds(nodes)) /\ Cardinality(NodeIds(nodes)) = Cardinality(nodes)
  <2> HIDE DEF f
  <2>1. QED BY <1>1, FS_Surjection DEF IsGraph
<1>3. NodeIds(nodes) \subseteq Nat \ {0}
  BY DEF NodeIds, IsGraph
<1>4. Edges(nodes, rels) \subseteq NodeIds(nodes) \X NodeIds(nodes)
  BY DEF Edges
<1>5. QED BY <1>2, <1>3, <1>4 DEF IsNet

\* Whatever the graph, the columns of the sequence profile are in order: an edge leads right unless
\* it leads into a node that was started from, which there is only on a cycle; and without a cycle
\* a column is a longest path. (sequence.go)
THEOREM EveryColumnIsOrdered ==
    ASSUME NEW nodes, NEW rels, IsGraph(nodes, rels)
    PROVE  ColumnsOrdered(nodes, rels)
<1> DEFINE ids == NodeIds(nodes)
           edges == Edges(nodes, rels)
           ranking == Ranking(ids, edges)
<1>1. IsNet(ids, edges)
  BY GraphIsNet
<1> HIDE DEF ids, edges
<1>2. Ranked(ids, edges, Cardinality(ids), ranking)
  BY <1>1, RankingIsRanked
<1> HIDE DEF ranking
<1>3. Known(ranking.rank) = ids
  BY <1>1, <1>2, FS_Subset DEF Ranked, IsNet
<1>4. ASSUME NEW e \in edges PROVE ranking.rank[e[1]] < ranking.rank[e[2]] \/ e[2] \in ranking.broken
  <2>1. e[2] \in ids /\ e[1] \in Before(e[2], edges)
    BY <1>1 DEF IsNet, Before
  <2>2. QED BY <1>2, <1>3, <2>1 DEF Ranked
<1>5. ASSUME ranking.broken = {}, Cyclic(ids, edges) PROVE FALSE
  <2>1. PICK S \in SUBSET ids : Circular(S, edges)
    BY <1>5 DEF Cyclic
  <2> DEFINE ranks == {ranking.rank[n] : n \in S}
  <2>2. ranking.rank \in [ids -> Nat]
    BY <1>2, <1>3 DEF Ranked
  <2>3. ranks \in SUBSET Nat /\ ranks # {}
    BY <2>1, <2>2 DEF Circular
  <2>4. PICK n \in S : \A m \in S : ranking.rank[n] <= ranking.rank[m]
    <3>1. PICK k \in ranks : \A j \in ranks : k <= j
      BY <2>3, LeastOf
    <3>2. QED BY <3>1
  <2>5. PICK p \in S : p \in Before(n, edges)
    BY <2>1 DEF Circular
  <2>6. ranking.rank[p] < ranking.rank[n]
    BY <1>2, <1>3, <1>5, <2>5 DEF Ranked
  <2>7. QED BY <2>2, <2>4, <2>6
<1>6. ranking.broken # {} => Cyclic(ids, edges)
  BY <1>2 DEF Ranked
<1>7. ASSUME NEW n \in ids, ranking.rank[n] > 0
      PROVE  \E p \in Before(n, edges) : ranking.rank[p] = ranking.rank[n] - 1
  BY <1>2, <1>3, <1>7 DEF Ranked
<1>8. QED BY <1>4, <1>5, <1>6, <1>7 DEF ColumnsOrdered, ids, edges, ranking

-----------------------------------------------------------------------------
(* Sorting: in a strict total order the number of elements below one is its    *)
(* place, and no two elements have the same.                                   *)

StrictOrder(S, R) ==
    /\ \A x \in S : <<x, x>> \notin R
    /\ \A x, y \in S : x # y => <<x, y>> \in R \/ <<y, x>> \in R
    /\ \A x, y, z \in S : <<x, y>> \in R /\ <<y, z>> \in R => <<x, z>> \in R
Below(S, R, x) == {y \in S : <<y, x>> \in R}

LEMMA BelowGrows ==
    ASSUME NEW S, IsFiniteSet(S), NEW R, StrictOrder(S, R), NEW x \in S, NEW y \in S, <<x, y>> \in R
    PROVE  Cardinality(Below(S, R, x)) < Cardinality(Below(S, R, y))
<1>1. Below(S, R, x) \subseteq Below(S, R, y) /\ x \in Below(S, R, y) /\ x \notin Below(S, R, x)
  BY DEF Below, StrictOrder
<1>2. IsFiniteSet(Below(S, R, x)) /\ IsFiniteSet(Below(S, R, y))
  <2>1. Below(S, R, x) \subseteq S /\ Below(S, R, y) \subseteq S
    BY DEF Below
  <2>2. QED BY <2>1, FS_Subset
<1>3. Cardinality(Below(S, R, x)) \in Nat /\ Cardinality(Below(S, R, y)) \in Nat
  BY <1>2, FS_CardinalityType
<1>4. /\ Cardinality(Below(S, R, x)) <= Cardinality(Below(S, R, y))
      /\ Cardinality(Below(S, R, y)) = Cardinality(Below(S, R, x)) => Below(S, R, y) = Below(S, R, x)
  BY <1>1, <1>2, FS_Subset
<1>5. QED BY <1>1, <1>3, <1>4

LEMMA PlacesAreTaken ==
    ASSUME NEW S, IsFiniteSet(S), NEW R, StrictOrder(S, R)
    PROVE  \A i \in 1 .. Cardinality(S) : \E x \in S : Cardinality(Below(S, R, x)) = i - 1
<1> DEFINE n == Cardinality(S)
           c == [x \in S |-> Cardinality(Below(S, R, x))]
           T == 0 .. (n - 1)
<1>1. n \in Nat
  BY FS_CardinalityType
<1>2. ASSUME NEW x \in S PROVE Cardinality(Below(S, R, x)) \in T
  <2>1. Below(S, R, x) \subseteq S /\ x \notin Below(S, R, x)
    BY DEF Below, StrictOrder
  <2>2. IsFiniteSet(Below(S, R, x)) /\ Cardinality(Below(S, R, x)) <= n /\ Cardinality(Below(S, R, x)) # n
    BY <2>1, FS_Subset
  <2>3. Cardinality(Below(S, R, x)) \in Nat
    BY <2>2, FS_CardinalityType
  <2>4. QED BY <1>1, <2>2, <2>3
<1>3. c \in Injection(S, T)
  <2>1. c \in [S -> T]
    BY <1>2
  <2>2. ASSUME NEW x \in S, NEW y \in S, c[x] = c[y] PROVE x = y
    <3>1. Cardinality(Below(S, R, x)) \in T /\ Cardinality(Below(S, R, y)) \in T
      BY <1>2
    <3>2. Cardinality(Below(S, R, x)) = Cardinality(Below(S, R, y))
      BY <2>2
    <3>3. <<x, y>> \notin R /\ <<y, x>> \notin R
      BY <1>1, <3>1, <3>2, BelowGrows
    <3>4. QED BY <3>3 DEF StrictOrder
  <2> HIDE DEF c
  <2>3. QED BY <2>1, <2>2 DEF Injection, IsInjective
<1>4. IsFiniteSet(T) /\ Cardinality(T) = n
  BY <1>1, FS_Interval, SMTT(30)
<1>5. c \in Surjection(S, T)
  <2> HIDE DEF c, T
  <2>1. QED BY <1>3, <1>4, FS_Injection DEF n
<1>6. ASSUME NEW i \in 1 .. n PROVE \E x \in S : Cardinality(Below(S, R, x)) = i - 1
  <2>1. i - 1 \in T
    BY <1>1
  <2>2. PICK x \in S : c[x] = i - 1
    BY <1>5, <2>1 DEF Surjection
  <2>3. QED BY <2>2
<1>7. QED BY <1>6

\* A sequence of all of S without repetition.
Lists(seq, S) ==
    /\ seq \in Seq(S) /\ Len(seq) = Cardinality(S) /\ \A x \in S : \E i \in 1 .. Len(seq) : seq[i] = x
    /\ \A i, j \in 1 .. Len(seq) : seq[i] = seq[j] => i = j

LEMMA PlacedIsListed ==
    ASSUME NEW S, IsFiniteSet(S), NEW R, StrictOrder(S, R), NEW seq,
           DOMAIN seq = 1 .. Cardinality(S), seq = [i \in 1 .. Cardinality(S) |-> seq[i]],
           \A i \in 1 .. Cardinality(S) : seq[i] \in S /\ Cardinality(Below(S, R, seq[i])) = i - 1
    PROVE  Lists(seq, S) /\ \A i, j \in 1 .. Len(seq) : i < j => <<seq[i], seq[j]>> \in R
<1> DEFINE n == Cardinality(S)
<1>1. n \in Nat
  BY FS_CardinalityType
<1>2. seq \in Seq(S) /\ Len(seq) = n
  BY <1>1
<1>3. \A i, j \in 1 .. n : seq[i] = seq[j] => i = j
  <2>1. ASSUME NEW i \in 1 .. n, NEW j \in 1 .. n, seq[i] = seq[j] PROVE i = j
    <3>1. i - 1 = j - 1
      BY <2>1
    <3>2. QED BY <1>1, <3>1
  <2>2. QED BY <2>1
<1>4. ASSUME NEW x \in S PROVE \E i \in 1 .. n : seq[i] = x
  <2>1. seq \in Injection(1 .. n, S)
    <3>1. seq \in [1 .. n -> S]
      OBVIOUS
    <3>2. QED BY <1>3, <3>1 DEF Injection, IsInjective
  <2>2. IsFiniteSet(1 .. n) /\ Cardinality(1 .. n) = n
    BY <1>1, FS_Interval
  <2>3. seq \in Surjection(1 .. n, S)
    BY <2>1, <2>2, FS_Injection
  <2>4. QED BY <2>3 DEF Surjection
<1>5. ASSUME NEW i \in 1 .. n, NEW j \in 1 .. n, i < j PROVE <<seq[i], seq[j]>> \in R
  <2>1. seq[i] \in S /\ seq[j] \in S /\ Cardinality(Below(S, R, seq[i])) = i - 1 /\ Cardinality(Below(S, R, seq[j])) = j - 1
    OBVIOUS
  <2>2. seq[i] # seq[j]
    BY <1>1, <1>3, <1>5
  <2>3. <<seq[j], seq[i]>> \notin R
    <3>1. ASSUME <<seq[j], seq[i]>> \in R PROVE FALSE
      <4>1. Cardinality(Below(S, R, seq[j])) < Cardinality(Below(S, R, seq[i]))
        BY <2>1, <3>1, BelowGrows
      <4>2. QED BY <1>1, <1>5, <2>1, <4>1
    <3>2. QED BY <3>1
  <2>4. QED BY <2>1, <2>2, <2>3 DEF StrictOrder
<1>6. QED BY <1>2, <1>3, <1>4, <1>5 DEF Lists

AreNodes(nodes) ==
    /\ IsFiniteSet(nodes) /\ nodes \subseteq [id : Nat \ {0}, at : Nat, key : Nat]
    /\ \A n, m \in nodes : n.id = m.id => n = m

InTime(nodes) == {p \in nodes \X nodes : Precedes(p[1], p[2])}

LEMMA TimeIsStrict ==
    ASSUME NEW nodes, AreNodes(nodes)
    PROVE  /\ StrictOrder(nodes, InTime(nodes))
           /\ \A x \in nodes : Below(nodes, InTime(nodes), x) = {y \in nodes : Precedes(y, x)}
<1>1. \A n \in nodes : n.id \in Nat /\ n.at \in Nat
  BY DEF AreNodes
<1>2. \A n \in nodes : ~Precedes(n, n)
  BY <1>1 DEF Precedes
<1>3. \A n, m \in nodes : n # m => Precedes(n, m) \/ Precedes(m, n)
  BY <1>1 DEF Precedes, AreNodes
<1>4. \A n, m, l \in nodes : Precedes(n, m) /\ Precedes(m, l) => Precedes(n, l)
  BY <1>1 DEF Precedes
<1>5. \A n, m \in nodes : <<n, m>> \in InTime(nodes) <=> Precedes(n, m)
  BY DEF InTime
<1>6. QED BY <1>2, <1>3, <1>4, <1>5 DEF StrictOrder, Below

\* InOrder lists the nodes, each before those it precedes.
LEMMA InOrderLists ==
    ASSUME NEW nodes, AreNodes(nodes)
    PROVE  Lists(InOrder(nodes), nodes)
<1> DEFINE seq == InOrder(nodes)
           R == InTime(nodes)
           n == Cardinality(nodes)
<1>1. StrictOrder(nodes, R) /\ \A x \in nodes : Below(nodes, R, x) = {y \in nodes : Precedes(y, x)}
  BY TimeIsStrict
<1>2. IsFiniteSet(nodes)
  BY DEF AreNodes
<1>3. seq = [i \in 1 .. n |-> CHOOSE x \in nodes : Cardinality({y \in nodes : Precedes(y, x)}) = i - 1]
  BY DEF InOrder, Ordered
<1>4. ASSUME NEW i \in 1 .. n PROVE seq[i] \in nodes /\ Cardinality(Below(nodes, R, seq[i])) = i - 1
  <2>1. \E x \in nodes : Cardinality(Below(nodes, R, x)) = i - 1
    <3> HIDE DEF R
    <3>1. QED BY <1>1, <1>2, PlacesAreTaken
  <2>2. \E x \in nodes : Cardinality({y \in nodes : Precedes(y, x)}) = i - 1
    BY <1>1, <2>1
  <2>3. seq[i] = CHOOSE x \in nodes : Cardinality({y \in nodes : Precedes(y, x)}) = i - 1
    BY <1>3
  <2> HIDE DEF seq, R
  <2>4. seq[i] \in nodes /\ Cardinality({y \in nodes : Precedes(y, seq[i])}) = i - 1
    BY <2>2, <2>3
  <2>5. QED BY <1>1, <2>4
<1>5. DOMAIN seq = 1 .. n /\ seq = [i \in 1 .. n |-> seq[i]]
  BY <1>3
<1> HIDE DEF seq, R
<1>6. QED BY <1>1, <1>2, <1>4, <1>5, PlacedIsListed DEF seq

-----------------------------------------------------------------------------
(* Columns and rows: two cards are in different columns, or in different rows. *)

LEMMA ColumnsApart ==
    ASSUME NEW g \in Nat, NEW a \in Int, NEW b \in Int, a < b
    PROVE  g * a \in Int /\ g * b \in Int /\ g * b - g * a >= g
<1>1. b = a + 1 + (b - a - 1) /\ b - a - 1 \in Nat
  OBVIOUS
<1>2. g * (b - a - 1) \in Nat
  BY <1>1
<1>3. g * b = g * a + g + g * (b - a - 1)
  OBVIOUS
<1>4. g * a \in Int /\ g * b \in Int
  OBVIOUS
<1>5. QED BY <1>2, <1>3, <1>4

LEMMA RowsDiffer ==
    ASSUME NEW nodes, AreNodes(nodes), NEW T \in SUBSET nodes, NEW n \in T, NEW m \in T, n # m
    PROVE  Cardinality({y \in T : Precedes(y, n)}) # Cardinality({y \in T : Precedes(y, m)})
<1>1. AreNodes(T) /\ IsFiniteSet(T)
  BY FS_Subset DEF AreNodes
<1>2. StrictOrder(T, InTime(T)) /\ \A x \in T : Below(T, InTime(T), x) = {y \in T : Precedes(y, x)}
  BY <1>1, TimeIsStrict
<1>3. \A x \in T : Cardinality(Below(T, InTime(T), x)) \in Nat
  <2>1. \A x \in T : Below(T, InTime(T), x) \subseteq T
    BY DEF Below
  <2>2. \A x \in T : IsFiniteSet(Below(T, InTime(T), x))
    BY <1>1, <2>1, FS_Subset
  <2>3. QED BY <2>2, FS_CardinalityType
<1> DEFINE c(x) == Cardinality({y \in T : Precedes(y, x)})
<1>4. \A x \in T : c(x) = Cardinality(Below(T, InTime(T), x))
  BY <1>2
<1> HIDE DEF c
<1>5. CASE <<n, m>> \in InTime(T)
  <2>1. Cardinality(Below(T, InTime(T), n)) < Cardinality(Below(T, InTime(T), m))
    BY <1>1, <1>2, <1>5, BelowGrows
  <2>2. c(n) # c(m)
    BY <1>3, <1>4, <2>1
  <2>3. QED BY <2>2 DEF c
<1>6. CASE <<m, n>> \in InTime(T)
  <2>1. Cardinality(Below(T, InTime(T), m)) < Cardinality(Below(T, InTime(T), n))
    BY <1>1, <1>2, <1>6, BelowGrows
  <2>2. c(n) # c(m)
    BY <1>3, <1>4, <2>1
  <2>3. QED BY <2>2 DEF c
<1>7. QED BY <1>2, <1>5, <1>6 DEF StrictOrder, c

\* The node of an id.
LEMMA NodeOf ==
    ASSUME NEW nodes, AreNodes(nodes), NEW id \in NodeIds(nodes)
    PROVE  (CHOOSE x \in nodes : x.id = id) \in nodes /\ (CHOOSE x \in nodes : x.id = id).id = id
BY DEF NodeIds

LEMMA SequenceIsSpaced ==
    ASSUME NEW nodes, NEW rels, IsGraph(nodes, rels)
    PROVE  SpacedBy(NodeIds(nodes), SequenceLayout(nodes, Edges(nodes, rels)), GapX)
<1> DEFINE ids == NodeIds(nodes)
           edges == Edges(nodes, rels)
           rank == Ranking(ids, edges).rank
           at == SequenceLayout(nodes, edges)
           node(id) == CHOOSE x \in nodes : x.id = id
           group(id) == {m \in nodes : rank[m.id] = rank[node(id).id]}
<1>1. AreNodes(nodes) /\ IsNet(ids, edges)
  BY GraphIsNet DEF IsGraph, AreNodes
<1>2. rank \in [ids -> Nat]
  <2>1. Ranked(ids, edges, Cardinality(ids), Ranking(ids, edges))
    BY <1>1, RankingIsRanked
  <2>2. Known(rank) = ids
    BY <1>1, <2>1, FS_Subset DEF Ranked, IsNet
  <2>3. QED BY <2>1, <2>2 DEF Ranked
<1>3. ASSUME NEW id \in ids
      PROVE  /\ at[id].x = GapX * rank[id]
             /\ at[id].y = Cardinality({m \in group(id) : Precedes(m, node(id))})
             /\ node(id) \in nodes /\ node(id).id = id
  <2>1. node(id) \in nodes /\ node(id).id = id
    BY <1>1, NodeOf
  <2>2. at[id] = [x |-> GapX * rank[id],
                  y |-> Cardinality({m \in nodes : rank[m.id] = rank[node(id).id] /\ Precedes(m, node(id))})]
    BY DEF SequenceLayout
  <2>3. {m \in nodes : rank[m.id] = rank[node(id).id] /\ Precedes(m, node(id))}
          = {m \in group(id) : Precedes(m, node(id))}
    OBVIOUS
  <2>4. QED BY <2>1, <2>2, <2>3
<1> HIDE DEF ids, edges, rank, at, node
<1>4. ASSUME NEW i \in ids, NEW j \in ids, i < j, at[i].y = at[j].y
      PROVE  at[i].x - at[j].x >= GapX \/ at[j].x - at[i].x >= GapX
  <2>1. rank[i] # rank[j]
    <3>1. ASSUME rank[i] = rank[j] PROVE FALSE
      <4>1. group(i) = group(j) /\ group(i) \in SUBSET nodes /\ node(i) \in group(i) /\ node(j) \in group(i)
        BY <1>3, <3>1
      <4>2. node(i) # node(j)
        <5>1. i \in Nat /\ j \in Nat /\ i # j
          BY <1>1, <1>4 DEF IsNet
        <5>2. QED BY <1>3, <5>1
      <4> HIDE DEF group
      <4>3. Cardinality({m \in group(i) : Precedes(m, node(i))}) # Cardinality({m \in group(i) : Precedes(m, node(j))})
        BY <1>1, <4>1, <4>2, RowsDiffer
      <4>4. at[i].y = Cardinality({m \in group(i) : Precedes(m, node(i))})
        BY <1>3
      <4>5. at[j].y = Cardinality({m \in group(i) : Precedes(m, node(j))})
        BY <1>3, <4>1
      <4>6. QED BY <1>4, <4>3, <4>4, <4>5
    <3>2. QED BY <3>1
  <2>2. rank[i] \in Nat /\ rank[j] \in Nat /\ GapX \in Nat
    BY <1>2, LayoutAssumption
  <2>3. at[i].x = GapX * rank[i] /\ at[j].x = GapX * rank[j]
    BY <1>3
  <2>4. CASE rank[i] < rank[j]
    <3>1. GapX * rank[j] - GapX * rank[i] >= GapX
      BY <2>2, <2>4, ColumnsApart
    <3>2. QED BY <2>3, <3>1
  <2>5. CASE rank[j] < rank[i]
    <3>1. GapX * rank[i] - GapX * rank[j] >= GapX
      BY <2>2, <2>5, ColumnsApart
    <3>2. QED BY <2>3, <3>1
  <2>6. QED BY <2>1, <2>2, <2>4, <2>5
<1>5. QED BY <1>4 DEF SpacedBy, ids, at, edges

Values(nodes) == {n.key : n \in nodes} \ {NoValue}
ValueOrder(nodes) == {p \in Values(nodes) \X Values(nodes) : ValueBefore(nodes, p[1], p[2])}

LEMMA ValuesAreStrict ==
    ASSUME NEW nodes, AreNodes(nodes)
    PROVE  /\ IsFiniteSet(Values(nodes)) /\ Values(nodes) \subseteq Nat \ {0}
           /\ StrictOrder(Values(nodes), ValueOrder(nodes))
           /\ \A v \in Values(nodes) :
                 Below(Values(nodes), ValueOrder(nodes), v) = {w \in Values(nodes) : ValueBefore(nodes, w, v)}
<1> DEFINE V == Values(nodes)
           seen(u) == {n.at : n \in Dated(WithValue(nodes, u))}
<1>1. IsFiniteSet(V)
  <2> DEFINE K == {n.key : n \in nodes}
             f == [n \in nodes |-> n.key]
  <2>1. f \in Surjection(nodes, K)
    BY DEF Surjection
  <2>2. IsFiniteSet(K)
    <3> HIDE DEF f, K
    <3>1. QED BY <2>1, FS_Surjection DEF AreNodes
  <2>3. V \subseteq K
    BY DEF Values
  <2> HIDE DEF K
  <2>4. QED BY <2>2, <2>3, FS_Subset
<1>2. V \subseteq Nat \ {0}
  BY DEF AreNodes, NoValue, Values
<1>3. \A u \in V : seen(u) \in SUBSET Nat
  BY DEF Dated, WithValue, AreNodes, Values
<1>4. \A u \in V : seen(u) # {} => Min(seen(u)) \in Nat
  <2> HIDE DEF seen
  <2>1. QED BY <1>3, MinIsLeast
<1> DEFINE m(u) == Min(seen(u))
<1>5. \A v, w \in V : ValueBefore(nodes, v, w) <=>
         \/ seen(v) # {} /\ seen(w) = {}
         \/ (seen(v) = {}) = (seen(w) = {}) /\ (IF seen(v) = {} \/ m(v) = m(w) THEN v < w ELSE m(v) < m(w))
  BY DEF ValueBefore
<1> HIDE DEF seen
<1>6. \A u \in V : seen(u) # {} => m(u) \in Nat
  BY <1>4
<1> HIDE DEF m, V
<1>7. \A v \in V : ~ValueBefore(nodes, v, v)
  BY <1>2, <1>5
<1>8. \A v, w \in V : v # w => ValueBefore(nodes, v, w) \/ ValueBefore(nodes, w, v)
  BY <1>2, <1>5, <1>6
<1>9. \A v, w, u \in V : ValueBefore(nodes, v, w) /\ ValueBefore(nodes, w, u) => ValueBefore(nodes, v, u)
  BY <1>2, <1>5, <1>6
<1>10. \A v, w \in V : <<v, w>> \in ValueOrder(nodes) <=> ValueBefore(nodes, v, w)
  BY DEF ValueOrder, V
<1>11. QED BY <1>1, <1>2, <1>7, <1>8, <1>9, <1>10 DEF StrictOrder, Below, V

\* Every value has a column, and only one.
LEMMA ValuesHaveColumns ==
    ASSUME NEW nodes, AreNodes(nodes)
    PROVE  /\ ColumnOrder(nodes) \in Seq(Nat)
           /\ \A n \in nodes : \E i \in 1 .. Len(ColumnOrder(nodes)) : ColumnOrder(nodes)[i] = n.key
<1> DEFINE V == Values(nodes)
           R == ValueOrder(nodes)
           k == Cardinality(V)
           seq == Ordered(V, LAMBDA v, w : ValueBefore(nodes, v, w))
           rest == IF WithValue(nodes, NoValue) = {} THEN <<>> ELSE <<NoValue>>
<1>1. /\ IsFiniteSet(V) /\ V \subseteq Nat \ {0} /\ StrictOrder(V, R)
      /\ \A v \in V : Below(V, R, v) = {w \in V : ValueBefore(nodes, w, v)}
  BY ValuesAreStrict
<1> DEFINE place(i) == CHOOSE x \in V : Cardinality({y \in V : ValueBefore(nodes, y, x)}) = i - 1
<1>2. seq = [i \in 1 .. k |-> place(i)]
  BY DEF Ordered
<1>3. ColumnOrder(nodes) = seq \o rest
  BY DEF ColumnOrder, Values
<1>4. \A n \in nodes : n.key \in V \/ (n.key = NoValue /\ rest = <<NoValue>>)
  BY DEF WithValue, Values
<1>5. rest \in Seq(Nat)
  BY DEF NoValue
<1> HIDE DEF V, R, seq, rest
<1>6. ASSUME NEW i \in 1 .. k PROVE seq[i] \in V /\ Cardinality(Below(V, R, seq[i])) = i - 1
  <2>1. \E x \in V : Cardinality(Below(V, R, x)) = i - 1
    BY <1>1, PlacesAreTaken
  <2>2. \E x \in V : Cardinality({y \in V : ValueBefore(nodes, y, x)}) = i - 1
    BY <1>1, <2>1
  <2>3. seq[i] = CHOOSE x \in V : Cardinality({y \in V : ValueBefore(nodes, y, x)}) = i - 1
    BY <1>2
  <2>4. seq[i] \in V /\ Cardinality({y \in V : ValueBefore(nodes, y, seq[i])}) = i - 1
    BY <2>2, <2>3
  <2>5. QED BY <1>1, <2>4
<1>7. Lists(seq, V)
  <2> HIDE DEF place
  <2>1. DOMAIN seq = 1 .. k /\ seq = [i \in 1 .. k |-> seq[i]]
    BY <1>2
  <2>2. QED BY <1>1, <1>6, <2>1, PlacedIsListed
<1>8. seq \in Seq(Nat)
  <2>1. seq \in Seq(V)
    BY <1>7 DEF Lists
  <2>2. \A i \in 1 .. Len(seq) : seq[i] \in V
    BY <2>1
  <2>3. \A i \in 1 .. Len(seq) : seq[i] \in Nat
    BY <1>1, <2>2
  <2>4. QED BY <2>1, <2>3
<1>9. seq \o rest \in Seq(Nat)
  BY <1>5, <1>8
<1>10. ASSUME NEW n \in nodes PROVE \E i \in 1 .. Len(seq \o rest) : (seq \o rest)[i] = n.key
  <2>1. CASE n.key \in V
    <3>1. PICK i \in 1 .. Len(seq) : seq[i] = n.key
      BY <1>7, <2>1 DEF Lists
    <3>2. i \in 1 .. Len(seq \o rest) /\ (seq \o rest)[i] = n.key
      BY <1>5, <1>8, <3>1
    <3>3. QED BY <3>2
  <2>2. CASE n.key = NoValue /\ rest = <<NoValue>>
    <3>1. Len(seq) + 1 \in 1 .. Len(seq \o rest) /\ (seq \o rest)[Len(seq) + 1] = n.key
      BY <1>5, <1>8, <2>2
    <3>2. QED BY <3>1
  <2>3. QED BY <1>4, <2>1, <2>2
<1>11. QED BY <1>3, <1>9, <1>10

LEMMA ResourceIsSpaced ==
    ASSUME NEW nodes, AreNodes(nodes)
    PROVE  SpacedBy(NodeIds(nodes), ResourceLayout(nodes), GapX)
<1> DEFINE ids == NodeIds(nodes)
           at == ResourceLayout(nodes)
           node(id) == CHOOSE x \in nodes : x.id = id
           seq == ColumnOrder(nodes)
           col(id) == SelectInSeq(seq, LAMBDA v : v = node(id).key)
           group(id) == WithValue(nodes, node(id).key)
<1>1. seq \in Seq(Nat) /\ \A n \in nodes : \E i \in 1 .. Len(seq) : seq[i] = n.key
  BY ValuesHaveColumns
<1>2. ASSUME NEW id \in ids
      PROVE  /\ at[id].x = GapX * col(id)
             /\ at[id].y = Cardinality({m \in group(id) : Precedes(m, node(id))})
  BY DEF ResourceLayout
<1>3. ASSUME NEW id \in ids PROVE node(id) \in nodes /\ node(id).id = id
  BY NodeOf
<1> HIDE DEF seq, at, node, ids
<1>4. ASSUME NEW id \in ids PROVE col(id) \in 1 .. Len(seq) /\ seq[col(id)] = node(id).key
  <2> DEFINE I == {i \in 1 .. Len(seq) : seq[i] = node(id).key}
  <2>1. I \in SUBSET Nat /\ I # {}
    BY <1>1, <1>3
  <2>2. col(id) = Min(I)
    BY <2>1 DEF SelectInSeq
  <2>3. Min(I) \in I
    <3> HIDE DEF I
    <3>1. QED BY <2>1, MinIsLeast
  <2> HIDE DEF col
  <2>4. QED BY <2>2, <2>3
<1> HIDE DEF col
<1>5. ASSUME NEW i \in ids, NEW j \in ids, i < j, at[i].y = at[j].y
      PROVE  at[i].x - at[j].x >= GapX \/ at[j].x - at[i].x >= GapX
  <2>1. col(i) # col(j)
    <3>1. ASSUME col(i) = col(j) PROVE FALSE
      <4>1. node(i).key = node(j).key
        BY <1>4, <3>1
      <4>2. group(i) = group(j) /\ group(i) \in SUBSET nodes /\ node(i) \in group(i) /\ node(j) \in group(i)
        BY <1>3, <4>1 DEF WithValue
      <4>3. node(i) # node(j)
        <5>1. i \in Nat /\ j \in Nat /\ i # j
          BY <1>5 DEF AreNodes, NodeIds, ids
        <5>2. QED BY <1>3, <5>1
      <4> HIDE DEF group
      <4>4. Cardinality({m \in group(i) : Precedes(m, node(i))}) # Cardinality({m \in group(i) : Precedes(m, node(j))})
        BY <4>2, <4>3, RowsDiffer
      <4>5. at[i].y = Cardinality({m \in group(i) : Precedes(m, node(i))})
        BY <1>2
      <4>6. at[j].y = Cardinality({m \in group(i) : Precedes(m, node(j))})
        BY <1>2, <4>2
      <4>7. QED BY <1>5, <4>4, <4>5, <4>6
    <3>2. QED BY <3>1
  <2>2. col(i) \in Nat /\ col(j) \in Nat /\ GapX \in Nat
    BY <1>1, <1>4, LayoutAssumption
  <2>3. at[i].x = GapX * col(i) /\ at[j].x = GapX * col(j)
    BY <1>2
  <2>4. CASE col(i) < col(j)
    <3>1. GapX * col(j) - GapX * col(i) >= GapX
      BY <2>2, <2>4, ColumnsApart
    <3>2. QED BY <2>3, <3>1
  <2>5. CASE col(j) < col(i)
    <3>1. GapX * col(i) - GapX * col(j) >= GapX
      BY <2>2, <2>5, ColumnsApart
    <3>2. QED BY <2>3, <3>1
  <2>6. QED BY <2>1, <2>2, <2>4, <2>5
<1>6. QED BY <1>5 DEF SpacedBy, ids, at

-----------------------------------------------------------------------------
(* Lanes: each holds cards that end before the next begins.                    *)

LEMMA DatedRange ==
    ASSUME NEW nodes, AreNodes(nodes)
    PROVE  CardWidth(nodes) \in Nat /\ CardWidth(nodes) >= 0 /\ \A n \in Dated(nodes) : AxisX(nodes, n) \in Int
<1> DEFINE D == Dated(nodes)
           T == {n.at : n \in D}
           f == [n \in D |-> n.at]
<1>1. D \subseteq nodes /\ IsFiniteSet(D)
  <2>1. D \subseteq nodes
    BY DEF Dated
  <2>2. QED BY <2>1, FS_Subset DEF AreNodes
<1>2. T \in SUBSET Nat
  BY <1>1 DEF AreNodes
<1>3. IsFiniteSet(T)
  <2>1. f \in Surjection(D, T)
    BY DEF Surjection
  <2> HIDE DEF f, D, T
  <2>2. QED BY <1>1, <2>1, FS_Surjection
<1>4. ASSUME D # {} PROVE TimeRange(nodes) \in Int /\ First(nodes) \in Nat
  <2>1. T # {}
    BY <1>4
  <2> HIDE DEF T
  <2>2. Max(T) \in Nat /\ Min(T) \in Nat
    BY <1>2, <1>3, <2>1, MaxIsGreatest, MinIsLeast
  <2>3. QED BY <2>2 DEF TimeRange, First, T
<1>5. \A n \in D : AxisX(nodes, n) \in Int
  <2>1. ASSUME NEW n \in D PROVE AxisX(nodes, n) \in Int
    <3>1. n.at \in Nat /\ First(nodes) \in Nat /\ Span \in Nat
      BY <1>1, <1>4, LayoutAssumption DEF AreNodes
    <3>2. QED BY <3>1 DEF AxisX
  <2>2. QED BY <2>1
<1>6. CardWidth(nodes) \in Nat
  <2>1. CASE D = {}
    BY <2>1, LayoutAssumption DEF CardWidth
  <2>2. CASE D # {}
    <3> DEFINE r == TimeRange(nodes)
               U == {r, 1}
    <3>1. r \in Int
      BY <1>4, <2>2
    <3> HIDE DEF r
    <3>2. \E x \in U : \A y \in U : x >= y
      <4>1. CASE r >= 1
        BY <3>1, <4>1
      <4>2. CASE ~(r >= 1)
        BY <3>1, <4>2
      <4>3. QED BY <4>1, <4>2
    <3>3. Max(U) \in U /\ \A y \in U : Max(U) >= y
      BY <3>2 DEF Max
    <3>4. Max(U) >= 1 /\ Max(U) \in Int
      BY <3>1, <3>3
    <3> HIDE DEF U
    <3> DEFINE mx == Max(U)
    <3>5. mx \in Nat /\ CardWidth(nodes) = GapX * mx
      BY <2>2, <3>4 DEF CardWidth, U, r
    <3> HIDE DEF mx
    <3>6. QED BY <3>5, LayoutAssumption
  <2>3. QED BY <2>1, <2>2
<1>7. QED BY <1>5, <1>6

\* What holds when the first k cards are in their lanes.
Laned(nodes, seq, width, k, st) ==
    /\ st.ends \in Seq(Int) /\ DOMAIN st.at = {seq[i].id : i \in 1 .. k}
    /\ \A id \in DOMAIN st.at :
          /\ st.at[id].x \in Int /\ st.at[id].y \in 1 .. Len(st.ends)
          /\ st.at[id].x + width <= st.ends[st.at[id].y]
    /\ \A i, j \in DOMAIN st.at :
          i # j /\ st.at[i].y = st.at[j].y =>
              st.at[i].x - st.at[j].x >= width \/ st.at[j].x - st.at[i].x >= width

LEMMA LaneStep ==
    ASSUME NEW nodes, AreNodes(nodes), NEW seq, Lists(seq, Dated(nodes)), NEW k \in 1 .. Len(seq),
           NEW st, Laned(nodes, seq, CardWidth(nodes), k - 1, st)
    PROVE  Laned(nodes, seq, CardWidth(nodes), k, LaneNext(nodes, st, seq[k]))
<1> DEFINE w == CardWidth(nodes)
           n == seq[k]
           x == AxisX(nodes, n)
           free == FreeLane(st.ends, x, w)
           lane == IF free = {} THEN Len(st.ends) + 1 ELSE Min(free)
           ends == IF free = {} THEN Append(st.ends, x + w) ELSE [st.ends EXCEPT ![lane] = x + w]
           next == LaneNext(nodes, st, n)
<1>1. w \in Nat /\ x \in Int /\ n \in Dated(nodes)
  <2>1. n \in Dated(nodes)
    BY DEF Lists
  <2>2. QED BY <2>1, DatedRange
<1>2. next.ends = ends /\ next.at = Extended(st.at, n.id, [x |-> x, y |-> lane])
  BY DEF LaneNext
<1>3. n.id \notin DOMAIN st.at /\ {seq[i].id : i \in 1 .. k} = DOMAIN st.at \cup {n.id}
  <2>1. DOMAIN st.at = {seq[i].id : i \in 1 .. (k - 1)}
    BY DEF Laned
  <2>2. \A i \in 1 .. k : i # k => i \in 1 .. (k - 1)
    OBVIOUS
  <2>3. \A i \in 1 .. (k - 1) : seq[i].id # n.id
    <3>1. ASSUME NEW i \in 1 .. (k - 1), seq[i].id = n.id PROVE FALSE
      <4>1. i \in 1 .. Len(seq) /\ k \in 1 .. Len(seq) /\ i # k
        BY DEF Lists
      <4>2. seq[i] \in nodes /\ seq[k] \in nodes
        BY <4>1 DEF Lists, Dated
      <4>3. seq[i] = seq[k]
        BY <3>1, <4>2 DEF AreNodes
      <4>4. QED BY <4>1, <4>3 DEF Lists
    <3>2. QED BY <3>1
  <2>4. QED BY <2>1, <2>2, <2>3
<1>4. /\ st.ends \in Seq(Int)
      /\ \A id \in DOMAIN st.at : /\ st.at[id].x \in Int /\ st.at[id].y \in 1 .. Len(st.ends)
                                 /\ st.at[id].x + w <= st.ends[st.at[id].y]
  BY DEF Laned
<1>5. /\ ends \in Seq(Int) /\ lane \in 1 .. Len(ends) /\ Len(st.ends) <= Len(ends) /\ ends[lane] = x + w
      /\ \A l \in 1 .. Len(st.ends) : l # lane => ends[l] = st.ends[l]
      /\ lane \in 1 .. Len(st.ends) => x >= st.ends[lane]
  <2>1. CASE free = {}
    BY <1>1, <1>4, <2>1, SMTT(30)
  <2>2. CASE free # {}
    <3>1. free \in SUBSET Nat /\ free \subseteq 1 .. Len(st.ends)
      BY <1>4 DEF FreeLane
    <3>2. lane \in free
      <4> HIDE DEF free
      <4>1. QED BY <2>2, <3>1, MinIsLeast
    <3>3. x >= st.ends[lane] /\ lane \in 1 .. Len(st.ends)
      BY <3>1, <3>2 DEF FreeLane
    <3> HIDE DEF free
    <3>4. ends = [st.ends EXCEPT ![lane] = x + w]
      BY <2>2
    <3> HIDE DEF ends, lane, x, w
    <3>5. QED BY <1>1, <1>4, <3>3, <3>4
  <2>3. QED BY <2>1, <2>2
<1> HIDE DEF ends, lane, x, w, next, n
<1>6. /\ DOMAIN next.at = DOMAIN st.at \cup {n.id}
      /\ next.at[n.id] = [x |-> x, y |-> lane]
      /\ \A id \in DOMAIN st.at : next.at[id] = st.at[id]
  BY <1>2, <1>3 DEF Extended
<1>7. ASSUME NEW id \in DOMAIN next.at
      PROVE  next.at[id].x \in Int /\ next.at[id].y \in 1 .. Len(ends) /\ next.at[id].x + w <= ends[next.at[id].y]
  <2>1. CASE id = n.id
    BY <1>1, <1>5, <1>6, <2>1, SMTT(30)
  <2>2. CASE id # n.id
    <3>1. id \in DOMAIN st.at /\ next.at[id] = st.at[id]
      BY <1>6, <2>2
    <3>2. st.at[id].x \in Int /\ st.at[id].y \in 1 .. Len(st.ends) /\ st.at[id].x + w <= st.ends[st.at[id].y]
      BY <1>4, <3>1
    <3>3. st.at[id].y \in 1 .. Len(ends)
      BY <1>4, <1>5, <3>2, SMTT(30)
    <3>4. CASE st.at[id].y = lane
      <4>1. st.at[id].x + w <= st.ends[lane] /\ st.ends[lane] \in Int /\ x >= st.ends[lane]
        BY <1>4, <1>5, <3>2, <3>4
      <4> DEFINE c == st.at[id].x
                 d == st.ends[lane]
                 e == ends[lane]
      <4>2. c + w <= e
        <5>1. e = x + w /\ c + w <= d /\ d \in Int /\ x >= d /\ c \in Int
          BY <1>5, <3>2, <4>1
        <5> HIDE DEF c, d, e
        <5>2. QED BY <1>1, <5>1
      <4>3. QED BY <3>1, <3>2, <3>3, <3>4, <4>2
    <3>5. CASE st.at[id].y # lane
      BY <1>5, <3>1, <3>2, <3>3, <3>5
    <3>6. QED BY <3>4, <3>5
  <2>3. QED BY <2>1, <2>2
<1>8. ASSUME NEW j \in DOMAIN st.at, st.at[j].y = lane PROVE x - st.at[j].x >= w
  <2>1. lane \in 1 .. Len(st.ends) /\ st.at[j].x + w <= st.ends[lane] /\ st.at[j].x \in Int /\ st.ends[lane] \in Int
    BY <1>4, <1>8
  <2>2. x >= st.ends[lane]
    BY <1>5, <2>1
  <2>3. QED BY <1>1, <2>1, <2>2
<1>9. ASSUME NEW i \in DOMAIN next.at, NEW j \in DOMAIN next.at, i # j, next.at[i].y = next.at[j].y
      PROVE  next.at[i].x - next.at[j].x >= w \/ next.at[j].x - next.at[i].x >= w
  <2>1. CASE i = n.id
    <3>1. j \in DOMAIN st.at /\ next.at[j] = st.at[j] /\ st.at[j].y = lane /\ next.at[i].x = x
      BY <1>6, <1>9, <2>1
    <3>2. QED BY <1>8, <3>1
  <2>2. CASE j = n.id
    <3>1. i \in DOMAIN st.at /\ next.at[i] = st.at[i] /\ st.at[i].y = lane /\ next.at[j].x = x
      BY <1>6, <1>9, <2>2
    <3>2. QED BY <1>8, <3>1
  <2>3. CASE i # n.id /\ j # n.id
    <3>1. i \in DOMAIN st.at /\ j \in DOMAIN st.at /\ next.at[i] = st.at[i] /\ next.at[j] = st.at[j]
      BY <1>6, <2>3
    <3>2. QED BY <1>9, <3>1 DEF Laned, w
  <2>4. QED BY <2>1, <2>2, <2>3
<1>10. next.ends \in Seq(Int) /\ DOMAIN next.at = {seq[i].id : i \in 1 .. k}
  BY <1>2, <1>3, <1>5, <1>6
<1>11. Laned(nodes, seq, w, k, next)
  BY <1>2, <1>7, <1>9, <1>10 DEF Laned
<1>12. QED BY <1>11 DEF w, next, n

LaneStates(nodes) == [ends : Seq(Int), at : UNION {[S -> [x : Int, y : Nat]] : S \in SUBSET NodeIds(nodes)}]

LEMMA LaneStaysTyped ==
    ASSUME NEW nodes, AreNodes(nodes), NEW n \in Dated(nodes), NEW st \in LaneStates(nodes)
    PROVE  LaneNext(nodes, st, n) \in LaneStates(nodes)
<1> DEFINE w == CardWidth(nodes)
           x == AxisX(nodes, n)
           free == FreeLane(st.ends, x, w)
           lane == IF free = {} THEN Len(st.ends) + 1 ELSE Min(free)
           ends == IF free = {} THEN Append(st.ends, x + w) ELSE [st.ends EXCEPT ![lane] = x + w]
           next == LaneNext(nodes, st, n)
<1>1. w \in Nat /\ x \in Int
  BY DatedRange
<1>2. next = [ends |-> ends, at |-> Extended(st.at, n.id, [x |-> x, y |-> lane])]
  BY DEF LaneNext
<1>3. st.ends \in Seq(Int)
  BY DEF LaneStates
<1>4. ends \in Seq(Int) /\ lane \in Nat
  <2>1. CASE free = {}
    BY <1>1, <1>3, <2>1
  <2>2. CASE free # {}
    <3>1. free \in SUBSET Nat /\ free \subseteq 1 .. Len(st.ends)
      BY <1>3 DEF FreeLane
    <3>2. lane \in 1 .. Len(st.ends)
      <4> HIDE DEF free
      <4>1. QED BY <2>2, <3>1, MinIsLeast
    <3> HIDE DEF free
    <3>3. ends = [st.ends EXCEPT ![lane] = x + w]
      BY <2>2
    <3> HIDE DEF ends, lane, x, w
    <3>4. QED BY <1>1, <1>3, <3>2, <3>3
  <2>3. QED BY <2>1, <2>2
<1>5. PICK S \in SUBSET NodeIds(nodes) : st.at \in [S -> [x : Int, y : Nat]]
  BY DEF LaneStates
<1>6. S \cup {n.id} \in SUBSET NodeIds(nodes)
  BY DEF Dated, NodeIds
<1> HIDE DEF ends, lane, x, w, next
<1>7. Extended(st.at, n.id, [x |-> x, y |-> lane]) \in [S \cup {n.id} -> [x : Int, y : Nat]]
  BY <1>1, <1>4, <1>5 DEF Extended
<1>8. next \in LaneStates(nodes)
  BY <1>2, <1>4, <1>6, <1>7 DEF LaneStates
<1>9. QED BY <1>8 DEF next

LEMMA LanesAreLaned ==
    ASSUME NEW nodes, AreNodes(nodes)
    PROVE  \E seq : /\ Lists(seq, Dated(nodes))
                    /\ Laned(nodes, seq, CardWidth(nodes), Len(seq), Lanes(nodes))
<1> DEFINE seq == InOrder(Dated(nodes))
           n == Len(seq)
           w == CardWidth(nodes)
           base == [ends |-> <<>>, at |-> NoFunction]
           X == LaneStates(nodes)
           f == [z \in X \X (1 .. n) |-> LaneNext(nodes, z[1], seq[z[2]])]
           Folds(g) == g = [s \in SUBSET DOMAIN seq |->
                               IF s = {} THEN base ELSE LaneNext(nodes, g[s \ {Max(s)}], seq[Max(s)])]
           h == CHOOSE g : Folds(g)
<1>1. Lists(seq, Dated(nodes))
  <2>1. AreNodes(Dated(nodes))
    <3>1. Dated(nodes) \subseteq nodes
      BY DEF Dated
    <3>2. QED BY <3>1, FS_Subset DEF AreNodes
  <2>2. QED BY <2>1, InOrderLists
<1>2. n \in Nat /\ DOMAIN seq = 1 .. n /\ \A k \in 1 .. n : seq[k] \in Dated(nodes)
  <2> HIDE DEF seq
  <2>1. QED BY <1>1 DEF Lists
<1>3. base \in X /\ Laned(nodes, seq, w, 0, base)
  <2>1. NoFunction \in [{} -> [x : Int, y : Nat]] /\ DOMAIN NoFunction = {}
    BY DEF NoFunction
  <2>2. base \in X
    <3>1. NoFunction \in UNION {[S -> [x : Int, y : Nat]] : S \in SUBSET NodeIds(nodes)}
      <4>1. {} \in SUBSET NodeIds(nodes)
        OBVIOUS
      <4>2. QED BY <2>1, <4>1
    <3>2. QED BY <3>1 DEF LaneStates
  <2>3. DOMAIN base.at = {} /\ base.ends = <<>>
    BY <2>1
  <2> HIDE DEF base, seq
  <2>4. Laned(nodes, seq, w, 0, base)
    BY <2>3 DEF Laned
  <2>5. QED BY <2>2, <2>4
<1>4. f \in [X \X (1 .. n) -> X]
  <2> HIDE DEF X, seq, n
  <2>1. \A st \in X, k \in 1 .. n : LaneNext(nodes, st, seq[k]) \in X
    BY <1>2, LaneStaysTyped DEF X
  <2>2. QED BY <2>1
<1> HIDE DEF base
<1>5. PICK g \in [SUBSET (1 .. n) -> X] : FoldOn(g, n, base, f)
  <2> HIDE DEF X, f, n
  <2>1. QED BY <1>2, <1>3, <1>4, FoldExists
<1>6. Folds(g)
  <2>1. ASSUME NEW s \in SUBSET (1 .. n), s # {}
        PROVE  f[<<g[s \ {Max(s)}], Max(s)>>] = LaneNext(nodes, g[s \ {Max(s)}], seq[Max(s)])
    <3>1. s \in SUBSET (0 .. n)
      OBVIOUS
    <3>2. Max(s) \in 1 .. n
      <4> HIDE DEF n
      <4>1. QED BY <1>2, <2>1, <3>1, MaxBelow
    <3>3. g[s \ {Max(s)}] \in X
      BY <1>5
    <3> HIDE DEF X
    <3>4. QED BY <3>2, <3>3
  <2> HIDE DEF X, f, n, seq
  <2>2. QED BY <1>2, <1>5, <2>1 DEF FoldOn
<1> HIDE DEF X, f
<1>7. Folds(h)
  <2> HIDE DEF Folds
  <2>1. QED BY <1>6
<1>8. Lanes(nodes) = h[1 .. n]
  <2>1. Lanes(nodes) = h[DOMAIN seq]
    BY DEF Lanes, FoldLeft, MapThenFoldSet, base
  <2> HIDE DEF h, seq, n
  <2>2. QED BY <1>2, <2>1
<1> HIDE DEF h, seq, n
<1>9. /\ h[1 .. 0] = base
      /\ \A k \in 1 .. n : h[1 .. k] = LaneNext(nodes, h[1 .. (k - 1)], seq[k])
  <2>1. 1 .. 0 = {} /\ h[1 .. 0] = base
    BY <1>2, <1>7
  <2>2. ASSUME NEW k \in 1 .. n PROVE h[1 .. k] = LaneNext(nodes, h[1 .. (k - 1)], seq[k])
    <3>1. Ends(n, k)
      BY <1>2, Intervals
    <3>2. h[1 .. k] = LaneNext(nodes, h[(1 .. k) \ {Max(1 .. k)}], seq[Max(1 .. k)])
      BY <1>2, <1>7, <3>1 DEF Ends
    <3>3. QED BY <3>1, <3>2 DEF Ends
  <2>3. QED BY <2>1, <2>2
<1> DEFINE Fine == {k \in 0 .. n : Laned(nodes, seq, w, k, h[1 .. k])}
<1> HIDE DEF w
<1>10. 0 \in Fine
  BY <1>2, <1>3, <1>9
<1>11. ASSUME NEW k \in 1 .. n, k - 1 \in Fine PROVE k \in Fine
  <2> DEFINE st == h[1 .. (k - 1)]
  <2>1. h[1 .. k] = LaneNext(nodes, st, seq[k]) /\ Laned(nodes, seq, w, k - 1, st)
    BY <1>9, <1>11
  <2> HIDE DEF st
  <2>2. Laned(nodes, seq, w, k, LaneNext(nodes, st, seq[k]))
    BY <1>1, <2>1, LaneStep DEF n, w
  <2>3. QED BY <1>2, <2>1, <2>2
<1>12. n \in Fine
  <2> HIDE DEF Fine
  <2>1. n \in 0 .. n
    BY <1>2
  <2>2. QED BY <1>2, <1>10, <1>11, <2>1, UpTo
<1>13. QED BY <1>1, <1>8, <1>12 DEF n, w

LEMMA TemporalIsSpaced ==
    ASSUME NEW nodes, AreNodes(nodes)
    PROVE  SpacedBy(NodeIds(nodes), TemporalLayout(nodes), CardWidth(nodes))
<1> DEFINE ids == NodeIds(nodes)
           at == TemporalLayout(nodes)
           lanes == Lanes(nodes)
           w == CardWidth(nodes)
           tray(id) == {n \in nodes \ Dated(nodes) : n.id < id}
<1>1. PICK seq : Lists(seq, Dated(nodes)) /\ Laned(nodes, seq, w, Len(seq), lanes)
  BY LanesAreLaned
<1>2. ASSUME NEW id \in ids
      PROVE  /\ id \in DOMAIN lanes.at => at[id] = lanes.at[id]
             /\ id \notin DOMAIN lanes.at => at[id].x = w * Cardinality(tray(id)) /\ at[id].y = Len(lanes.ends) + 2
  <2>1. at[id] = IF id \in DOMAIN lanes.at THEN lanes.at[id]
                 ELSE [x |-> w * Cardinality(tray(id)), y |-> Len(lanes.ends) + 2]
    BY DEF TemporalLayout
  <2> HIDE DEF at, lanes, w, tray
  <2>2. QED BY <2>1
<1>3. w \in Nat
  BY DatedRange
<1>4. \A id \in ids : id \in Nat
  BY DEF NodeIds, AreNodes
<1>5. ASSUME NEW id \in ids, id \notin DOMAIN lanes.at PROVE \E n \in nodes \ Dated(nodes) : n.id = id
  <2>1. PICK n \in nodes : n.id = id
    BY DEF NodeIds
  <2>2. n \notin Dated(nodes)
    <3>1. ASSUME n \in Dated(nodes) PROVE FALSE
      <4>1. PICK i \in 1 .. Len(seq) : seq[i] = n
        BY <1>1, <3>1 DEF Lists
      <4>2. n.id \in DOMAIN lanes.at
        BY <1>1, <4>1 DEF Laned
      <4>3. QED BY <1>5, <2>1, <4>2
    <3>2. QED BY <3>1
  <2>3. QED BY <2>1, <2>2
<1>6. ASSUME NEW id \in ids PROVE IsFiniteSet(tray(id)) /\ Cardinality(tray(id)) \in Nat
  <2>1. tray(id) \subseteq nodes
    OBVIOUS
  <2> HIDE DEF tray
  <2>2. QED BY <2>1, FS_Subset, FS_CardinalityType DEF AreNodes
<1>7. ASSUME NEW i \in ids, NEW j \in ids, i < j, i \notin DOMAIN lanes.at
      PROVE  Cardinality(tray(i)) < Cardinality(tray(j))
  <2>1. PICK n \in nodes \ Dated(nodes) : n.id = i
    BY <1>5, <1>7
  <2>2. n \in tray(j) /\ n \notin tray(i)
    BY <1>4, <1>7, <2>1
  <2>3. tray(i) \subseteq tray(j)
    <3>1. \A m \in nodes : m.id \in Nat
      BY DEF AreNodes
    <3>2. QED BY <1>4, <1>7, <3>1
  <2> HIDE DEF tray
  <2>4. /\ Cardinality(tray(i)) <= Cardinality(tray(j))
        /\ Cardinality(tray(j)) = Cardinality(tray(i)) => tray(j) = tray(i)
    BY <1>6, <2>3, FS_Subset
  <2>5. QED BY <1>6, <2>2, <2>4
<1> HIDE DEF tray, at, lanes, w, ids
<1>8. ASSUME NEW i \in ids, NEW j \in ids, i < j, at[i].y = at[j].y
      PROVE  at[i].x - at[j].x >= w \/ at[j].x - at[i].x >= w
  <2>1. CASE i \in DOMAIN lanes.at /\ j \in DOMAIN lanes.at
    <3>1. at[i] = lanes.at[i] /\ at[j] = lanes.at[j] /\ i # j
      BY <1>2, <1>4, <1>8, <2>1
    <3>2. QED BY <1>1, <1>8, <2>1, <3>1 DEF Laned
  <2>2. CASE i \notin DOMAIN lanes.at /\ j \notin DOMAIN lanes.at
    <3>1. at[i].x = w * Cardinality(tray(i)) /\ at[j].x = w * Cardinality(tray(j))
      BY <1>2, <2>2
    <3>2. Cardinality(tray(i)) < Cardinality(tray(j))
      BY <1>7, <1>8, <2>2
    <3>3. w * Cardinality(tray(j)) - w * Cardinality(tray(i)) >= w
      BY <1>3, <1>6, <3>2, ColumnsApart
    <3>4. QED BY <3>1, <3>3
  <2>3. ASSUME NEW a \in ids, NEW b \in ids, a \in DOMAIN lanes.at, b \notin DOMAIN lanes.at
        PROVE  at[a].y # at[b].y
    <3>1. at[a] = lanes.at[a] /\ at[b].y = Len(lanes.ends) + 2
      BY <1>2, <2>3
    <3>2. lanes.at[a].y \in 1 .. Len(lanes.ends) /\ Len(lanes.ends) \in Nat
      BY <1>1, <2>3 DEF Laned
    <3>3. QED BY <3>1, <3>2
  <2>4. QED BY <1>8, <2>1, <2>2, <2>3
<1>9. QED BY <1>8 DEF SpacedBy, ids, at, w

-----------------------------------------------------------------------------
(* The forest: a step of it finds a root when the stack is empty, and handles  *)
(* the node on top.                                                            *)

NextRoot(nodes, edges, st) ==
    LET roots == {n \in nodes : n.id \notin Known(st.parent) /\ Before(n.id, edges) = {}}
    IN IF roots # {} THEN InOrder(roots)[1].id ELSE Min(NodeIds(nodes) \ Known(st.parent))
NoRootsLeft(nodes, edges, st) == {n \in nodes : n.id \notin Known(st.parent) /\ Before(n.id, edges) = {}} = {}
Begun(nodes, edges, st) ==
    LET root == NextRoot(nodes, edges, st)
    IN IF st.stack # <<>> THEN st
       ELSE [stack |-> <<root>>, parent |-> Extended(st.parent, root, 0), kids |-> st.kids, leaves |-> st.leaves,
             forced |-> IF NoRootsLeft(nodes, edges, st) THEN st.forced \cup {root} ELSE st.forced]
KidsOf(nodes, edges, st) == {m \in nodes : m.id \in After(Head(st.stack), edges) \ Known(st.parent)}
KidIds(nodes, edges, st) ==
    LET kids == InOrder(KidsOf(nodes, edges, st)) IN [i \in DOMAIN kids |-> kids[i].id]
Handled(nodes, edges, st) ==
    LET kids == KidIds(nodes, edges, st)
        n    == Head(st.stack)
    IN [stack |-> kids \o Tail(st.stack), kids |-> Extended(st.kids, n, kids),
        parent |-> [m \in DOMAIN st.parent \cup ToSet(kids) |-> IF m \in DOMAIN st.parent THEN st.parent[m] ELSE n],
        leaves |-> IF kids = <<>> THEN Append(st.leaves, n) ELSE st.leaves, forced |-> st.forced]

Anyone(nodes) == NodeIds(nodes) \cup {Min({})}
ForestStates(nodes) ==
    LET any == Anyone(nodes)
    IN [stack : Seq(any), parent : UNION {[S -> any \cup {0}] : S \in SUBSET any},
        kids : UNION {[S -> Seq(any)] : S \in SUBSET any}, leaves : Seq(any), forced : SUBSET any]

\* The ids of the kids: those that are not taken, each once.
LEMMA KidsListed ==
    ASSUME NEW nodes, AreNodes(nodes), NEW edges, edges \subseteq NodeIds(nodes) \X NodeIds(nodes), NEW st
    PROVE  /\ Lists(KidIds(nodes, edges, st), After(Head(st.stack), edges) \ Known(st.parent))
           /\ DOMAIN KidIds(nodes, edges, st) = DOMAIN InOrder(KidsOf(nodes, edges, st))
           /\ ToSet(KidIds(nodes, edges, st)) = {m.id : m \in ToSet(InOrder(KidsOf(nodes, edges, st)))}
           /\ KidIds(nodes, edges, st) = <<>> <=> InOrder(KidsOf(nodes, edges, st)) = <<>>
<1> DEFINE S == KidsOf(nodes, edges, st)
           kids == InOrder(S)
           ids == KidIds(nodes, edges, st)
           T == After(Head(st.stack), edges) \ Known(st.parent)
           f == [m \in S |-> m.id]
<1>1. AreNodes(S)
  <2>1. S \subseteq nodes
    BY DEF KidsOf
  <2> HIDE DEF S
  <2>2. QED BY <2>1, FS_Subset DEF AreNodes
<1>2. Lists(kids, S)
  <2> HIDE DEF S
  <2>1. QED BY <1>1, InOrderLists
<1>3. T = {m.id : m \in S}
  <2>1. T \subseteq NodeIds(nodes)
    BY DEF After
  <2>2. QED BY <2>1 DEF KidsOf, NodeIds
<1>4. f \in Injection(S, T) /\ f \in Surjection(S, T)
  <2>1. \A x, y \in S : x.id = y.id => x = y
    BY <1>1 DEF AreNodes
  <2> HIDE DEF S, T
  <2>2. QED BY <1>3, <2>1 DEF Injection, Surjection, IsInjective
<1>5. Cardinality(T) = Cardinality(S)
  <2> HIDE DEF f, S, T
  <2>1. QED BY <1>1, <1>4, FS_Surjection DEF AreNodes
<1>6. ids = [i \in DOMAIN kids |-> kids[i].id]
  BY DEF KidIds
<1>7. kids \in Seq(S) /\ DOMAIN kids = 1 .. Len(kids)
  BY <1>2 DEF Lists
<1> HIDE DEF S, kids, ids, T
<1>8. ids \in Seq(T) /\ Len(ids) = Len(kids)
  BY <1>3, <1>6, <1>7
<1>9. Lists(ids, T)
  <2>1. Len(ids) = Cardinality(T)
    BY <1>2, <1>5, <1>8 DEF Lists
  <2>2. ASSUME NEW x \in T PROVE \E i \in 1 .. Len(ids) : ids[i] = x
    <3>1. PICK m \in S : x = m.id
      BY <1>3
    <3>2. PICK i \in 1 .. Len(kids) : kids[i] = m
      BY <1>2 DEF Lists
    <3>3. QED BY <1>6, <1>7, <1>8, <3>1, <3>2
  <2>3. ASSUME NEW i \in 1 .. Len(ids), NEW j \in 1 .. Len(ids), ids[i] = ids[j] PROVE i = j
    <3>1. kids[i] \in S /\ kids[j] \in S /\ kids[i].id = kids[j].id
      BY <1>6, <1>7, <1>8, <2>3
    <3>2. kids[i] = kids[j]
      BY <1>1, <3>1 DEF AreNodes
    <3>3. QED BY <1>2, <1>8, <3>2 DEF Lists
  <2>4. QED BY <1>8, <2>1, <2>2, <2>3 DEF Lists
<1>10. DOMAIN ids = DOMAIN kids
  BY <1>6
<1>11. ToSet(ids) = {m.id : m \in ToSet(kids)}
  BY <1>6, <1>10 DEF ToSet
<1>12. ids = <<>> <=> kids = <<>>
  <2>1. ids = <<>> <=> Len(ids) = 0
    BY <1>8
  <2>2. kids = <<>> <=> Len(kids) = 0
    BY <1>7
  <2>3. QED BY <1>8, <2>1, <2>2
<1>13. QED BY <1>9, <1>10, <1>11, <1>12 DEF ids, kids, S, T

LEMMA RootIsFree ==
    ASSUME NEW nodes, AreNodes(nodes), NEW edges, NEW st
    PROVE  /\ NextRoot(nodes, edges, st) \in Anyone(nodes)
           /\ ~(NodeIds(nodes) \subseteq Known(st.parent)) =>
                 NextRoot(nodes, edges, st) \in NodeIds(nodes) \ Known(st.parent)
           /\ ~NoRootsLeft(nodes, edges, st) => Before(NextRoot(nodes, edges, st), edges) = {}
<1> DEFINE taken == Known(st.parent)
           left == NodeIds(nodes) \ taken
           roots == {n \in nodes : n.id \notin taken /\ Before(n.id, edges) = {}}
           root == NextRoot(nodes, edges, st)
<1>1. root = IF roots # {} THEN InOrder(roots)[1].id ELSE Min(left)
  BY DEF NextRoot
<1>2. ASSUME roots # {} PROVE root \in left /\ Before(root, edges) = {}
  <2>1. AreNodes(roots) /\ roots \subseteq nodes
    <3>1. roots \subseteq nodes
      OBVIOUS
    <3> HIDE DEF roots
    <3>2. QED BY <3>1, FS_Subset DEF AreNodes
  <2>2. Lists(InOrder(roots), roots)
    <3> HIDE DEF roots
    <3>1. QED BY <2>1, InOrderLists
  <2>3. InOrder(roots)[1] \in roots
    <3>1. PICK n \in roots : TRUE
      BY <1>2
    <3> HIDE DEF roots
    <3>2. PICK i \in 1 .. Len(InOrder(roots)) : InOrder(roots)[i] = n
      BY <2>2 DEF Lists
    <3>3. QED BY <2>2, <3>2 DEF Lists
  <2>4. QED BY <1>1, <1>2, <2>3 DEF NodeIds
<1>3. ASSUME roots = {} PROVE root = Min(left) /\ (left # {} => root \in left)
  <2>1. left \in SUBSET Nat
    BY DEF NodeIds, AreNodes
  <2>2. root = Min(left)
    BY <1>1, <1>3
  <2> HIDE DEF left, root
  <2>3. QED BY <2>1, <2>2, MinIsLeast
<1>4. NoRootsLeft(nodes, edges, st) <=> roots = {}
  BY DEF NoRootsLeft
<1>5. left = {} <=> NodeIds(nodes) \subseteq taken
  OBVIOUS
<1>6. root \in Anyone(nodes)
  <2>1. CASE roots # {}
    BY <1>2, <2>1 DEF Anyone
  <2>2. CASE roots = {} /\ left # {}
    BY <1>3, <2>2 DEF Anyone
  <2>3. CASE roots = {} /\ left = {}
    <3> HIDE DEF left, root, roots
    <3>1. root = Min({})
      BY <1>3, <2>3
    <3>2. QED BY <3>1 DEF Anyone
  <2>4. QED BY <2>1, <2>2, <2>3
<1> HIDE DEF left, root, roots, taken
<1>7. QED BY <1>2, <1>3, <1>4, <1>5, <1>6 DEF root, left, taken

IsState(r) ==
    r = [stack |-> r.stack, parent |-> r.parent, kids |-> r.kids, leaves |-> r.leaves, forced |-> r.forced]
Rooted(r, x, z, v) == [r EXCEPT !.stack = x, !.parent = z, !.forced = v]
Grafted(r, x, y, z, u) == [r EXCEPT !.stack = x, !.kids = y, !.parent = z, !.leaves = u]
LEMMA Rewritten ==
    ASSUME NEW r, IsState(r), NEW x, NEW y, NEW z, NEW u, NEW v
    PROVE  /\ Grafted(r, x, y, z, u) = [stack |-> x, parent |-> z, kids |-> y, leaves |-> u, forced |-> r.forced]
           /\ Rooted(r, x, z, v) = [stack |-> x, parent |-> z, kids |-> r.kids, leaves |-> r.leaves, forced |-> v]
<1> DEFINE a == r.stack
           b == r.parent
           c == r.kids
           d == r.leaves
           e == r.forced
<1>0. r = [stack |-> a, parent |-> b, kids |-> c, leaves |-> d, forced |-> e]
  BY DEF IsState
<1> HIDE DEF a, b, c, d, e
<1> DEFINE r1 == [r EXCEPT !.stack = x]
<1>1. r1 = [stack |-> x, parent |-> b, kids |-> c, leaves |-> d, forced |-> e]
  BY <1>0
<1> HIDE DEF r1
<1> DEFINE r2 == [r1 EXCEPT !.kids = y]
           q2 == [r1 EXCEPT !.parent = z]
<1>2. r2 = [stack |-> x, parent |-> b, kids |-> y, leaves |-> d, forced |-> e]
  BY <1>1
<1>3. q2 = [stack |-> x, parent |-> z, kids |-> c, leaves |-> d, forced |-> e]
  BY <1>1
<1> HIDE DEF r2, q2
<1> DEFINE r3 == [r2 EXCEPT !.parent = z]
           q3 == [q2 EXCEPT !.forced = v]
<1>4. r3 = [stack |-> x, parent |-> z, kids |-> y, leaves |-> d, forced |-> e]
  BY <1>2
<1>5. q3 = [stack |-> x, parent |-> z, kids |-> c, leaves |-> d, forced |-> v]
  BY <1>3
<1> HIDE DEF r3
<1> DEFINE r4 == [r3 EXCEPT !.leaves = u]
<1>6. r4 = [stack |-> x, parent |-> z, kids |-> y, leaves |-> u, forced |-> e]
  BY <1>4
<1> HIDE DEF r4, q3
<1>7. r4 = Grafted(r, x, y, z, u)
  BY Zenon DEF r4, r3, r2, r1, Grafted
<1>8. q3 = Rooted(r, x, z, v)
  BY Zenon DEF q3, q2, r1, Rooted
<1>9. QED BY <1>5, <1>6, <1>7, <1>8 DEF c, d, e

LEMMA BegunStaysTyped ==
    ASSUME NEW nodes, AreNodes(nodes), NEW edges, NEW st \in ForestStates(nodes)
    PROVE  Begun(nodes, edges, st) \in ForestStates(nodes) /\ Begun(nodes, edges, st).stack # <<>>
<1> DEFINE any == Anyone(nodes)
           root == NextRoot(nodes, edges, st)
<1>1. root \in any
  BY RootIsFree
<1>2. PICK S \in SUBSET any : st.parent \in [S -> any \cup {0}]
  BY DEF ForestStates
<1> HIDE DEF any, root
<1>3. Extended(st.parent, root, 0) \in [S \cup {root} -> any \cup {0}] /\ S \cup {root} \in SUBSET any
  BY <1>1, <1>2 DEF Extended
<1>4. Extended(st.parent, root, 0) \in UNION {[T -> any \cup {0}] : T \in SUBSET any}
  BY <1>3
<1>5. CASE st.stack # <<>>
  BY <1>5 DEF Begun
<1>6. CASE st.stack = <<>>
  <2>1. Begun(nodes, edges, st) =
            [stack |-> <<root>>, parent |-> Extended(st.parent, root, 0), kids |-> st.kids, leaves |-> st.leaves,
             forced |-> IF NoRootsLeft(nodes, edges, st) THEN st.forced \cup {root} ELSE st.forced]
    BY <1>6 DEF Begun, root
  <2>2. <<root>> \in Seq(any) /\ <<root>> # <<>>
    BY <1>1
  <2>3. QED BY <1>1, <1>4, <2>1, <2>2 DEF ForestStates, any
<1>7. QED BY <1>5, <1>6

\* A step of the model is these two.
LEMMA ForestNextIs ==
    ASSUME NEW nodes, AreNodes(nodes), NEW edges, edges \subseteq NodeIds(nodes) \X NodeIds(nodes),
           NEW st \in ForestStates(nodes)
    PROVE  ForestNext(nodes, edges, st) = Handled(nodes, edges, Begun(nodes, edges, st))
<1> DEFINE taken == Known(st.parent)
           roots == {n \in nodes : n.id \notin taken /\ Before(n.id, edges) = {}}
           root == IF roots # {} THEN InOrder(roots)[1].id ELSE Min(NodeIds(nodes) \ taken)
           begin == IF st.stack # <<>> THEN st
                    ELSE [st EXCEPT !.stack = <<root>>, !.parent = Extended(@, root, 0),
                                    !.forced = IF roots = {} THEN @ \cup {root} ELSE @]
           n == Head(begin.stack)
           kids == InOrder({m \in nodes : m.id \in After(n, edges) \ Known(begin.parent)})
           next == [begin EXCEPT !.stack = [i \in DOMAIN kids |-> kids[i].id] \o Tail(@),
                                 !.kids = Extended(@, n, [i \in DOMAIN kids |-> kids[i].id]),
                                 !.parent = [m \in DOMAIN @ \cup {k.id : k \in ToSet(kids)} |->
                                                IF m \in DOMAIN @ THEN @[m] ELSE n],
                                 !.leaves = IF kids = <<>> THEN Append(@, n) ELSE @]
<1>1. ForestNext(nodes, edges, st) = next
  BY DEF ForestNext
<1>2. root = NextRoot(nodes, edges, st) /\ (roots = {} <=> NoRootsLeft(nodes, edges, st))
  BY DEF NextRoot, NoRootsLeft
<1> HIDE DEF root, roots
<1>3. begin = Begun(nodes, edges, st)
  <2>1. CASE st.stack # <<>>
    BY <2>1 DEF Begun
  <2>2. CASE ~(st.stack # <<>>)
    <3> DEFINE p == Extended(st.parent, root, 0)
               f == IF roots = {} THEN st.forced \cup {root} ELSE st.forced
    <3>1. IsState(st)
      BY DEF ForestStates, IsState
    <3>2. begin = Rooted(st, <<root>>, p, f)
      BY <2>2, Zenon DEF Rooted
    <3>3. Begun(nodes, edges, st) = [stack |-> <<root>>, parent |-> p, kids |-> st.kids, leaves |-> st.leaves, forced |-> f]
      BY <1>2, <2>2 DEF Begun
    <3> HIDE DEF p, f, begin, root
    <3>4. QED BY <3>1, <3>2, <3>3, Rewritten
  <2>3. QED BY <2>1, <2>2
<1> DEFINE ks == KidIds(nodes, edges, begin)
           tree == [m \in DOMAIN begin.parent \cup ToSet(ks) |-> IF m \in DOMAIN begin.parent THEN begin.parent[m] ELSE n]
           leaves == IF ks = <<>> THEN Append(begin.leaves, n) ELSE begin.leaves
<1>4. kids = InOrder(KidsOf(nodes, edges, begin)) /\ [i \in DOMAIN kids |-> kids[i].id] = ks
  BY DEF KidsOf, KidIds
<1>5. {k.id : k \in ToSet(kids)} = ToSet(ks) /\ (kids = <<>> <=> ks = <<>>)
  <2>1. kids = InOrder(KidsOf(nodes, edges, begin))
    BY <1>4
  <2> HIDE DEF kids, begin
  <2>2. /\ ToSet(ks) = {m.id : m \in ToSet(InOrder(KidsOf(nodes, edges, begin)))}
        /\ ks = <<>> <=> InOrder(KidsOf(nodes, edges, begin)) = <<>>
    BY KidsListed
  <2>3. QED BY <2>1, <2>2
<1>6. IsState(begin)
  <2> HIDE DEF begin
  <2>1. begin \in ForestStates(nodes)
    BY <1>3, BegunStaysTyped
  <2>2. QED BY <2>1 DEF ForestStates, IsState
<1> DEFINE stack == ks \o Tail(begin.stack)
           all == Extended(begin.kids, n, ks)
<1> HIDE DEF kids, begin, ks
<1>7. next = Grafted(begin, stack, all, tree, leaves)
  BY <1>4, <1>5, Zenon DEF Grafted
<1>8. Handled(nodes, edges, begin) = [stack |-> stack, kids |-> all, parent |-> tree, leaves |-> leaves,
                                      forced |-> begin.forced]
  BY DEF Handled, ks
<1> HIDE DEF next, tree, leaves, stack, all
<1>9. next = Handled(nodes, edges, begin)
  BY <1>6, <1>7, <1>8, Rewritten
<1>10. QED BY <1>1, <1>3, <1>9

LEMMA HandledStaysTyped ==
    ASSUME NEW nodes, AreNodes(nodes), NEW edges, edges \subseteq NodeIds(nodes) \X NodeIds(nodes),
           NEW st \in ForestStates(nodes), st.stack # <<>>
    PROVE  Handled(nodes, edges, st) \in ForestStates(nodes)
<1> DEFINE any == Anyone(nodes)
           kids == KidIds(nodes, edges, st)
           n == Head(st.stack)
           tree == [m \in DOMAIN st.parent \cup ToSet(kids) |-> IF m \in DOMAIN st.parent THEN st.parent[m] ELSE n]
           next == Handled(nodes, edges, st)
<1>1. kids \in Seq(any)
  <2> DEFINE T == After(Head(st.stack), edges) \ Known(st.parent)
  <2>1. kids \in Seq(T)
    BY KidsListed DEF Lists
  <2>2. T \subseteq any
    BY DEF After, Anyone
  <2> HIDE DEF T, any, kids
  <2>3. QED BY <2>1, <2>2
<1>2. st.stack \in Seq(any) /\ st.leaves \in Seq(any)
  BY DEF ForestStates
<1>3. PICK S \in SUBSET any : st.parent \in [S -> any \cup {0}]
  BY DEF ForestStates
<1>4. PICK R \in SUBSET any : st.kids \in [R -> Seq(any)]
  BY DEF ForestStates
<1> HIDE DEF any, kids
<1>5. n \in any /\ Tail(st.stack) \in Seq(any)
  BY <1>2
<1>6. next = [stack |-> kids \o Tail(st.stack), kids |-> Extended(st.kids, n, kids), parent |-> tree,
              leaves |-> IF kids = <<>> THEN Append(st.leaves, n) ELSE st.leaves, forced |-> st.forced]
  BY DEF Handled, kids
<1> HIDE DEF n, next
<1>7. ToSet(kids) \subseteq any
  BY <1>1 DEF ToSet
<1>8. S \cup ToSet(kids) \in SUBSET any /\ R \cup {n} \in SUBSET any
  BY <1>5, <1>7
<1>9. tree \in [S \cup ToSet(kids) -> any \cup {0}]
  BY <1>3, <1>5
<1>10. Extended(st.kids, n, kids) \in [R \cup {n} -> Seq(any)]
  BY <1>1, <1>4 DEF Extended
<1>11. tree \in UNION {[T -> any \cup {0}] : T \in SUBSET any}
  BY <1>8, <1>9
<1>12. Extended(st.kids, n, kids) \in UNION {[T -> Seq(any)] : T \in SUBSET any}
  BY <1>8, <1>10
<1>13. kids \o Tail(st.stack) \in Seq(any) /\ Append(st.leaves, n) \in Seq(any)
  BY <1>1, <1>2, <1>5
<1> HIDE DEF tree
<1>14. next \in ForestStates(nodes)
  BY <1>2, <1>6, <1>11, <1>12, <1>13 DEF ForestStates, any
<1>15. QED BY <1>14 DEF next

\* A sequence of all of S, each element once.
Once(seq, S) ==
    /\ seq \in Seq(S) /\ \A x \in S : \E i \in 1 .. Len(seq) : seq[i] = x
    /\ \A i, j \in 1 .. Len(seq) : seq[i] = seq[j] => i = j

LEMMA OnceTail ==
    ASSUME NEW S, NEW seq, Once(seq, S), seq # <<>>
    PROVE  Head(seq) \in S /\ Once(Tail(seq), S \ {Head(seq)})
<1>1. seq \in Seq(S) /\ Len(seq) \in Nat /\ Len(seq) > 0 /\ Head(seq) = seq[1] /\ Head(seq) \in S
  BY DEF Once
<1> DEFINE tail == Tail(seq)
<1>2. tail \in Seq(S) /\ Len(tail) = Len(seq) - 1 /\ \A i \in 1 .. Len(tail) : tail[i] = seq[i + 1]
  BY <1>1
<1> HIDE DEF tail
<1>3. \A i \in 1 .. Len(tail) : tail[i] \in S \ {Head(seq)}
  <2>1. ASSUME NEW i \in 1 .. Len(tail) PROVE tail[i] \in S /\ tail[i] # seq[1]
    <3>1. i + 1 \in 1 .. Len(seq) /\ 1 \in 1 .. Len(seq) /\ i + 1 # 1
      BY <1>1, <1>2
    <3>2. seq[i + 1] # seq[1]
      BY <3>1 DEF Once
    <3>3. QED BY <1>2, <3>2
  <2>2. QED BY <1>1, <2>1
<1>4. tail \in Seq(S \ {Head(seq)})
  <2>1. tail \in [1 .. Len(tail) -> S \ {Head(seq)}] /\ Len(tail) \in Nat
    BY <1>2, <1>3
  <2>2. QED BY <2>1
<1>5. ASSUME NEW x \in S \ {Head(seq)} PROVE \E i \in 1 .. Len(tail) : tail[i] = x
  <2>1. PICK i \in 1 .. Len(seq) : seq[i] = x
    BY DEF Once
  <2>2. i # 1
    BY <1>1, <1>5, <2>1
  <2>3. i - 1 \in 1 .. Len(tail) /\ (i - 1) + 1 = i
    BY <1>1, <1>2, <2>2
  <2>4. QED BY <1>2, <2>1, <2>3
<1>6. ASSUME NEW i \in 1 .. Len(tail), NEW j \in 1 .. Len(tail), tail[i] = tail[j] PROVE i = j
  <2>1. i + 1 \in 1 .. Len(seq) /\ j + 1 \in 1 .. Len(seq)
    BY <1>1, <1>2
  <2>2. seq[i + 1] = seq[j + 1]
    BY <1>2, <1>6
  <2>3. \A p, q \in 1 .. Len(seq) : seq[p] = seq[q] => p = q
    BY DEF Once
  <2>4. i + 1 = j + 1
    BY <2>1, <2>2, <2>3
  <2>5. QED BY <2>4
<1>7. QED BY <1>1, <1>4, <1>5, <1>6 DEF Once, tail

LEMMA OnceBoth ==
    ASSUME NEW S, NEW T, S \cap T = {}, NEW a, NEW b, Once(a, S), Once(b, T)
    PROVE  Once(a \o b, S \cup T)
<1> DEFINE c == a \o b
<1>1. a \in Seq(S \cup T) /\ b \in Seq(S \cup T)
  BY DEF Once
<1>2. /\ c \in Seq(S \cup T) /\ Len(c) = Len(a) + Len(b) /\ Len(a) \in Nat /\ Len(b) \in Nat
      /\ \A i \in 1 .. Len(a) : c[i] = a[i]
      /\ \A i \in 1 .. Len(b) : c[Len(a) + i] = b[i]
      /\ \A i \in 1 .. Len(c) : i \notin 1 .. Len(a) => i - Len(a) \in 1 .. Len(b) /\ c[i] = b[i - Len(a)]
  BY <1>1
<1>3. (\A i \in 1 .. Len(a) : a[i] \in S) /\ (\A i \in 1 .. Len(b) : b[i] \in T)
  BY DEF Once
<1> HIDE DEF c
<1>4. ASSUME NEW x \in S \cup T PROVE \E i \in 1 .. Len(c) : c[i] = x
  <2>1. CASE x \in S
    <3>1. PICK i \in 1 .. Len(a) : a[i] = x
      BY <2>1 DEF Once
    <3>2. i \in 1 .. Len(c)
      BY <1>2
    <3>3. QED BY <1>2, <3>1, <3>2
  <2>2. CASE x \in T
    <3>1. PICK i \in 1 .. Len(b) : b[i] = x
      BY <2>2 DEF Once
    <3>2. Len(a) + i \in 1 .. Len(c)
      BY <1>2
    <3>3. QED BY <1>2, <3>1, <3>2
  <2>3. QED BY <2>1, <2>2
<1>5. ASSUME NEW i \in 1 .. Len(c), NEW j \in 1 .. Len(c), c[i] = c[j] PROVE i = j
  <2>1. CASE i \in 1 .. Len(a) /\ j \in 1 .. Len(a)
    BY <1>2, <1>5, <2>1 DEF Once
  <2>2. CASE i \notin 1 .. Len(a) /\ j \notin 1 .. Len(a)
    <3>1. PICK p \in 1 .. Len(b), q \in 1 .. Len(b) : p = i - Len(a) /\ q = j - Len(a) /\ b[p] = b[q]
      BY <1>2, <1>5, <2>2
    <3>2. p = q
      BY <3>1 DEF Once
    <3>3. QED BY <1>2, <3>1, <3>2
  <2>3. CASE i \in 1 .. Len(a) /\ j \notin 1 .. Len(a)
    BY <1>2, <1>3, <1>5, <2>3
  <2>4. CASE i \notin 1 .. Len(a) /\ j \in 1 .. Len(a)
    BY <1>2, <1>3, <1>5, <2>4
  <2>5. QED BY <2>1, <2>2, <2>3, <2>4
<1>6. QED BY <1>2, <1>4, <1>5 DEF Once, c

\* What k steps leave: k nodes handled, the stack holding the others that are taken, each node under
\* one that points at it; a root nothing points at, or one of a cycle.
Grown(ids, edges, k, st) ==
    LET P == Known(st.parent)
        K == Known(st.kids)
    IN /\ P \subseteq ids /\ K \subseteq P /\ Cardinality(K) = k
       /\ Once(st.stack, P \ K)
       /\ st.parent \in [P -> K \cup {0}] /\ st.kids \in [K -> Seq(P)] /\ st.leaves \in Seq(K)
       /\ \A n \in P : /\ st.parent[n] = 0 => n \in st.forced \/ Before(n, edges) = {}
                       /\ st.parent[n] # 0 => <<st.parent[n], n>> \in edges
       /\ st.forced # {} => Cyclic(ids, edges)
       /\ \A p \in K : After(p, edges) \subseteq P

LEMMA BegunGrows ==
    ASSUME NEW nodes, AreNodes(nodes), NEW edges, edges \subseteq NodeIds(nodes) \X NodeIds(nodes),
           IsFiniteSet(NodeIds(nodes)), NEW k \in Nat, k < Cardinality(NodeIds(nodes)), NEW st,
           Grown(NodeIds(nodes), edges, k, st)
    PROVE  /\ Grown(NodeIds(nodes), edges, k, Begun(nodes, edges, st))
           /\ Begun(nodes, edges, st).stack # <<>>
<1> DEFINE ids == NodeIds(nodes)
           P == Known(st.parent)
           K == Known(st.kids)
           next == Begun(nodes, edges, st)
           root == NextRoot(nodes, edges, st)
           none == NoRootsLeft(nodes, edges, st)
<1>1. CASE st.stack # <<>>
  <2>1. next = st
    BY <1>1 DEF Begun
  <2> HIDE DEF next
  <2>2. QED BY <1>1, <2>1 DEF next
<1>2. ASSUME st.stack = <<>> PROVE Grown(ids, edges, k, next) /\ next.stack # <<>>
  <2>1. P = K
    BY <1>2 DEF Grown, Once
  <2>2. P \subseteq ids /\ P # ids /\ Cardinality(K) = k
    BY <2>1 DEF Grown
  <2>3. root \in ids \ P /\ (~none => Before(root, edges) = {})
    <3>1. ~(ids \subseteq P)
      BY <2>2
    <3> HIDE DEF ids, none, root
    <3>2. QED BY <3>1, RootIsFree DEF ids, none, root
  <2>4. ASSUME none PROVE Cyclic(ids, edges)
    <3> DEFINE S == ids \ P
    <3>1. S # {}
      BY <2>3
    <3>2. ASSUME NEW n \in S PROVE Before(n, edges) \cap S # {}
      <4>1. Before(n, edges) # {}
        BY <2>4 DEF NoRootsLeft, NodeIds
      <4>2. PICK e \in edges : e[2] = n
        BY <4>1 DEF Before
      <4>3. e[1] \in Before(n, edges)
        BY <4>2 DEF Before
      <4>4. e[1] \notin P
        <5>1. SUFFICES ASSUME e[1] \in P PROVE FALSE
          OBVIOUS
        <5>2. After(e[1], edges) \subseteq P
          BY <2>1, <5>1 DEF Grown
        <5>3. n \in After(e[1], edges)
          BY <4>2 DEF After
        <5>4. QED BY <3>2, <5>2, <5>3
      <4>5. QED BY <4>3, <4>4
    <3>3. QED BY <3>1, <3>2 DEF Cyclic, Circular
  <2>5. next = [stack |-> <<root>>, parent |-> Extended(st.parent, root, 0), kids |-> st.kids, leaves |-> st.leaves,
                forced |-> IF none THEN st.forced \cup {root} ELSE st.forced]
    BY <1>2 DEF Begun
  <2> DEFINE p == Extended(st.parent, root, 0)
             f == IF none THEN st.forced \cup {root} ELSE st.forced
  <2>6. /\ next.stack = <<root>> /\ next.parent = p /\ next.kids = st.kids /\ next.leaves = st.leaves
        /\ next.forced = f
    BY <2>5
  <2>7. f \in {st.forced, st.forced \cup {root}} /\ (f # {} => Cyclic(ids, edges)) /\ (none => root \in f)
        /\ st.forced \subseteq f
    BY <2>4 DEF Grown
  <2>8. /\ p \in [P \cup {root} -> K \cup {0}] /\ Known(p) = P \cup {root} /\ p[root] = 0
        /\ \A n \in P : p[n] = st.parent[n]
    BY <2>3 DEF Grown, Extended, Known
  <2> HIDE DEF next, p, f, none, root
  <2>9. <<root>> # <<>> /\ Once(<<root>>, (P \cup {root}) \ K)
    <3>1. (P \cup {root}) \ K = {root}
      BY <2>1, <2>3
    <3>2. <<root>> \in Seq({root}) /\ Len(<<root>>) = 1 /\ <<root>>[1] = root /\ <<root>> # <<>>
      OBVIOUS
    <3>3. QED BY <3>1, <3>2 DEF Once
  <2>10. /\ P \cup {root} \subseteq ids /\ K \subseteq P \cup {root} /\ Cardinality(K) = k
         /\ \A q \in K : After(q, edges) \subseteq P \cup {root}
    BY <2>1, <2>2, <2>3 DEF Grown
  <2>11. st.kids \in [K -> Seq(P \cup {root})] /\ st.leaves \in Seq(K)
    <3>1. st.kids \in [K -> Seq(P)] /\ st.leaves \in Seq(K)
      BY DEF Grown
    <3> HIDE DEF P, K
    <3>2. QED BY <3>1
  <2>12. ASSUME NEW n \in P \cup {root}
         PROVE  /\ p[n] = 0 => n \in f \/ Before(n, edges) = {}
                /\ p[n] # 0 => <<p[n], n>> \in edges
    <3>1. CASE n \in P
      BY <2>7, <2>8, <3>1 DEF Grown
    <3>2. CASE n = root
      BY <2>3, <2>7, <2>8, <3>2
    <3>3. QED BY <3>1, <3>2
  <2> HIDE DEF ids, P, K
  <2>13. QED BY <2>6, <2>7, <2>8, <2>9, <2>10, <2>11, <2>12 DEF Grown, K
<1>3. QED BY <1>1, <1>2

\* What handling a node does to a state that holds.
HandledIs(nodes, edges, st, n, kids, next) ==
    LET P == Known(st.parent)
        K == Known(st.kids)
    IN /\ n = Head(st.stack) /\ n \in P \ K /\ Once(Tail(st.stack), (P \ K) \ {n})
       /\ Once(kids, After(n, edges) \ P)
       /\ next.stack = kids \o Tail(st.stack) /\ next.forced = st.forced
       /\ Known(next.kids) = K \cup {n} /\ next.kids[n] = kids /\ \A p \in K : next.kids[p] = st.kids[p]
       /\ Known(next.parent) = P \cup ToSet(kids)
       /\ \A p \in P : next.parent[p] = st.parent[p]
       /\ \A p \in ToSet(kids) : p \notin P /\ next.parent[p] = n
       /\ next.leaves = IF kids = <<>> THEN Append(st.leaves, n) ELSE st.leaves
       /\ ToSet(kids) = After(n, edges) \ P

LEMMA HandlingIs ==
    ASSUME NEW nodes, AreNodes(nodes), NEW edges, edges \subseteq NodeIds(nodes) \X NodeIds(nodes),
           NEW k \in Nat, NEW st, Grown(NodeIds(nodes), edges, k, st), st.stack # <<>>
    PROVE  /\ HandledIs(nodes, edges, st, Head(st.stack), KidIds(nodes, edges, st), Handled(nodes, edges, st))
           /\ Handled(nodes, edges, st).parent \in [Known(Handled(nodes, edges, st).parent) -> Known(st.kids) \cup {0, Head(st.stack)}]
           /\ Handled(nodes, edges, st).kids = Extended(st.kids, Head(st.stack), KidIds(nodes, edges, st))
<1> DEFINE P == Known(st.parent)
           K == Known(st.kids)
           n == Head(st.stack)
           kids == KidIds(nodes, edges, st)
           next == Handled(nodes, edges, st)
           T == After(n, edges) \ P
           tree == [m \in DOMAIN st.parent \cup ToSet(kids) |-> IF m \in DOMAIN st.parent THEN st.parent[m] ELSE n]
<1>1. Lists(kids, T)
  BY KidsListed
<1>2. Once(kids, T)
  <2> HIDE DEF kids, T
  <2>1. QED BY <1>1 DEF Lists, Once
<1>3. n \in P \ K /\ Once(Tail(st.stack), (P \ K) \ {n})
  <2>1. Once(st.stack, P \ K)
    BY DEF Grown
  <2> HIDE DEF P, K
  <2>2. QED BY <2>1, OnceTail
<1>4. next = [stack |-> kids \o Tail(st.stack), kids |-> Extended(st.kids, n, kids), parent |-> tree,
              leaves |-> IF kids = <<>> THEN Append(st.leaves, n) ELSE st.leaves, forced |-> st.forced]
  BY DEF Handled
<1> DEFINE all == Extended(st.kids, n, kids)
<1>5. /\ next.stack = kids \o Tail(st.stack) /\ next.forced = st.forced /\ next.kids = all /\ next.parent = tree
      /\ next.leaves = IF kids = <<>> THEN Append(st.leaves, n) ELSE st.leaves
  BY <1>4
<1>6. ToSet(kids) = T
  <2> HIDE DEF kids, T
  <2>1. kids \in Seq(T) /\ \A x \in T : \E i \in 1 .. Len(kids) : kids[i] = x
    BY <1>2 DEF Once
  <2>2. DOMAIN kids = 1 .. Len(kids)
    BY <2>1
  <2>3. QED BY <2>1, <2>2 DEF ToSet
<1>7. /\ Known(tree) = P \cup ToSet(kids) /\ \A p \in P : tree[p] = st.parent[p]
      /\ \A p \in ToSet(kids) : p \notin P /\ tree[p] = n
  BY <1>6 DEF Known
<1>8. Known(all) = K \cup {n} /\ all[n] = kids /\ \A p \in K : all[p] = st.kids[p]
  BY <1>3 DEF Known, Extended
<1>9. tree \in [Known(tree) -> K \cup {0, n}]
  <2>1. \A p \in Known(tree) : tree[p] \in K \cup {0, n}
    BY <1>7 DEF Grown
  <2>2. QED BY <2>1 DEF Known
<1>10. HandledIs(nodes, edges, st, n, kids, next)
  <2> HIDE DEF P, K, n, kids, next, T, tree, all
  <2>1. QED BY <1>2, <1>3, <1>5, <1>6, <1>7, <1>8 DEF HandledIs, P, K, n, T
<1>11. QED BY <1>5, <1>9, <1>10

LEMMA HandledGrows ==
    ASSUME NEW nodes, AreNodes(nodes), NEW edges, edges \subseteq NodeIds(nodes) \X NodeIds(nodes),
           IsFiniteSet(NodeIds(nodes)), NEW k \in Nat, NEW st, Grown(NodeIds(nodes), edges, k, st), st.stack # <<>>
    PROVE  Grown(NodeIds(nodes), edges, k + 1, Handled(nodes, edges, st))
<1> DEFINE ids == NodeIds(nodes)
           P == Known(st.parent)
           K == Known(st.kids)
           n == Head(st.stack)
           kids == KidIds(nodes, edges, st)
           next == Handled(nodes, edges, st)
           T == After(n, edges) \ P
           Q == Known(next.parent)
           L == Known(next.kids)
<1>1. HandledIs(nodes, edges, st, n, kids, next)
  BY HandlingIs
<1>2. next.parent \in [Q -> K \cup {0, n}] /\ next.kids = Extended(st.kids, n, kids)
  BY HandlingIs
<1>3. Grown(ids, edges, k, st)
  OBVIOUS
<1>4. 0 \notin ids
  BY DEF NodeIds, AreNodes
<1>5. After(n, edges) \subseteq ids
  BY DEF After
<1> HIDE DEF ids, P, K, n, kids, next, T, Q, L
<1>6. /\ n = Head(st.stack) /\ n \in P \ K /\ Once(Tail(st.stack), (P \ K) \ {n})
      /\ Once(kids, T) /\ next.stack = kids \o Tail(st.stack) /\ next.forced = st.forced
      /\ L = K \cup {n} /\ Q = P \cup T /\ T = ToSet(kids)
      /\ next.leaves = IF kids = <<>> THEN Append(st.leaves, n) ELSE st.leaves
  BY <1>1 DEF HandledIs, P, K, Q, L, T
<1>7. Q \subseteq ids /\ L \subseteq Q
  BY <1>3, <1>5, <1>6 DEF Grown, P, K, T
<1>8. Cardinality(L) = k + 1
  <2>1. IsFiniteSet(K) /\ Cardinality(K) = k
    BY <1>3, FS_Subset DEF Grown, P, K, ids
  <2>2. QED BY <1>6, <2>1, FS_AddElement
<1>9. Once(next.stack, Q \ L)
  <2>1. T \cap ((P \ K) \ {n}) = {} /\ Q \ L = T \cup ((P \ K) \ {n})
    BY <1>3, <1>6 DEF Grown, P, K, T
  <2>2. QED BY <1>6, <2>1, OnceBoth
<1>10. next.parent \in [Q -> L \cup {0}]
  BY <1>2, <1>6
<1>11. next.kids \in [L -> Seq(Q)]
  <2>1. st.kids \in [K -> Seq(P)]
    BY <1>3 DEF Grown, P, K
  <2>2. kids \in Seq(Q)
    <3>1. kids \in Seq(T) /\ T \subseteq Q
      BY <1>6 DEF Once
    <3>2. QED BY <3>1
  <2>3. st.kids \in [K -> Seq(Q)]
    <3>1. P \subseteq Q
      BY <1>6
    <3>2. QED BY <2>1, <3>1
  <2>4. QED BY <1>2, <1>6, <2>2, <2>3 DEF Extended
<1>12. next.leaves \in Seq(L)
  <2>1. st.leaves \in Seq(K)
    BY <1>3 DEF Grown, K
  <2>2. st.leaves \in Seq(L) /\ n \in L
    BY <1>6, <2>1
  <2>3. QED BY <1>6, <2>2
<1>13. ASSUME NEW m \in Q
       PROVE  /\ next.parent[m] = 0 => m \in next.forced \/ Before(m, edges) = {}
              /\ next.parent[m] # 0 => <<next.parent[m], m>> \in edges
  <2>1. CASE m \in P
    <3>1. next.parent[m] = st.parent[m]
      BY <1>1, <2>1 DEF HandledIs, P
    <3>2. QED BY <1>3, <1>6, <2>1, <3>1 DEF Grown, P
  <2>2. CASE m \in T
    <3>1. next.parent[m] = n
      BY <1>1, <1>6, <2>2 DEF HandledIs
    <3>2. n # 0
      BY <1>3, <1>4, <1>6 DEF Grown, P
    <3>3. <<n, m>> \in edges
      <4>1. PICK e \in edges : e[1] = n /\ e[2] = m
        BY <2>2 DEF T, After
      <4>2. e = <<e[1], e[2]>>
        BY <4>1
      <4>3. QED BY <4>1, <4>2
    <3>4. QED BY <3>1, <3>2, <3>3
  <2>3. QED BY <1>6, <2>1, <2>2
<1>14. next.forced # {} => Cyclic(ids, edges)
  BY <1>3, <1>6 DEF Grown
<1>15. \A p \in L : After(p, edges) \subseteq Q
  BY <1>3, <1>6 DEF Grown, P, K, T
<1>16. Grown(ids, edges, k + 1, next)
  BY <1>7, <1>8, <1>9, <1>10, <1>11, <1>12, <1>13, <1>14, <1>15 DEF Grown, Q, L
<1>17. QED BY <1>16 DEF ids, next

\* The order of the walk: when a node was handled (t), how deep it hangs (d), and how many leaves were there
\* before it (s). What hangs under a node is handled before any later node that is no deeper.
Leaf(st, n) == IF st.kids[n] = <<>> THEN 1 ELSE 0
Kids(st, n) == {st.kids[n][i] : i \in 1 .. Len(st.kids[n])}
Walked(k, st, t, d, s) ==
    LET P == Known(st.parent)
        K == Known(st.kids)
    IN /\ t \in [K -> 0 .. (k - 1)] /\ \A n, m \in K : t[n] = t[m] => n = m
       /\ d \in [P -> Nat] /\ \A n \in P : d[n] = IF st.parent[n] = 0 THEN 0 ELSE d[st.parent[n]] + 1
       /\ \A i, j \in 1 .. Len(st.stack) : i < j => d[st.stack[j]] <= d[st.stack[i]]
       /\ \A n \in K : st.parent[n] # 0 => t[st.parent[n]] < t[n]
       /\ \A n \in K : \A c \in Kids(st, n) : c \in P /\ st.parent[c] = n
       /\ \A n, m \in K : t[n] < t[m] /\ d[m] <= d[n] => \A c \in Kids(st, n) : c \in K /\ t[c] < t[m]
Numbered(k, st, t, s) ==
    LET K == Known(st.kids)
    IN /\ s \in [K -> Nat] /\ \A n \in K : s[n] + Leaf(st, n) <= Len(st.leaves)
       /\ \A n, m \in K : t[n] < t[m] => s[n] + Leaf(st, n) <= s[m]
       /\ \A n \in K : st.kids[n] = <<>> => st.leaves[s[n] + 1] = n
       /\ \A i \in 1 .. Len(st.leaves) : s[st.leaves[i]] = i - 1

LEMMA BegunWalks ==
    ASSUME NEW nodes, AreNodes(nodes), NEW edges, edges \subseteq NodeIds(nodes) \X NodeIds(nodes),
           NEW k \in Nat, k < Cardinality(NodeIds(nodes)), NEW st, Grown(NodeIds(nodes), edges, k, st),
           NEW t, NEW d, NEW s, Walked(k, st, t, d, s), Numbered(k, st, t, s)
    PROVE  \E e : /\ Walked(k, Begun(nodes, edges, st), t, e, s)
                  /\ Numbered(k, Begun(nodes, edges, st), t, s)
<1> DEFINE ids == NodeIds(nodes)
           P == Known(st.parent)
           K == Known(st.kids)
           next == Begun(nodes, edges, st)
           root == NextRoot(nodes, edges, st)
<1>1. CASE st.stack # <<>>
  <2>1. next = st
    BY <1>1 DEF Begun
  <2> HIDE DEF next
  <2>2. QED BY <1>1, <2>1 DEF next
<1>2. ASSUME st.stack = <<>> PROVE \E e : Walked(k, next, t, e, s) /\ Numbered(k, next, t, s)
  <2>1. P = K
    <3>1. Once(st.stack, P \ K) /\ K \subseteq P
      BY DEF Grown
    <3> HIDE DEF P, K
    <3>2. P \ K = {}
      BY <1>2, <3>1 DEF Once
    <3>3. QED BY <3>1, <3>2
  <2>2. P \subseteq ids /\ P # ids /\ Cardinality(K) = k
    BY <2>1 DEF Grown
  <2>3. root \in ids \ P
    <3>1. ~(ids \subseteq P)
      BY <2>2
    <3> HIDE DEF ids, root
    <3>2. QED BY <3>1, RootIsFree DEF ids, root
  <2> DEFINE p == Extended(st.parent, root, 0)
             e == Extended(d, root, 0)
             f == IF NoRootsLeft(nodes, edges, st) THEN st.forced \cup {root} ELSE st.forced
  <2>4. next = [stack |-> <<root>>, parent |-> p, kids |-> st.kids, leaves |-> st.leaves, forced |-> f]
    BY <1>2 DEF Begun
  <2> HIDE DEF f
  <2>5. next.stack = <<root>> /\ next.parent = p /\ next.kids = st.kids /\ next.leaves = st.leaves
    BY <2>4
  <2>6. Known(p) = P \cup {root} /\ p[root] = 0 /\ \A n \in P : p[n] = st.parent[n] /\ p[n] \in K \cup {0}
    BY <2>3 DEF Grown, Extended, Known
  <2>7. /\ e \in [P \cup {root} -> Nat] /\ e[root] = 0 /\ \A n \in P : e[n] = d[n]
        /\ Known(next.kids) = K
    BY <2>3, <2>5 DEF Walked, Extended, Known
  <2> HIDE DEF next, root, p, e
  <2>8. \A n \in P \cup {root} : e[n] = IF p[n] = 0 THEN 0 ELSE e[p[n]] + 1
    BY <2>1, <2>6, <2>7 DEF Walked
  <2>9. \A i, j \in 1 .. Len(<<root>>) : ~(i < j)
    OBVIOUS
  <2>10. \A n \in K : Kids(next, n) = Kids(st, n) /\ Leaf(next, n) = Leaf(st, n)
    BY <2>5 DEF Kids, Leaf
  <2>11. \A n \in K : p[n] = st.parent[n]
    BY <2>1, <2>6
  <2>12. \A n \in K : \A c \in Kids(st, n) : c \in P \cup {root} /\ p[c] = n
    BY <2>6 DEF Walked
  <2>13. \A n, m \in K : t[n] < t[m] /\ e[m] <= e[n] => \A c \in Kids(st, n) : c \in K /\ t[c] < t[m]
    BY <2>1, <2>7 DEF Walked
  <2>14. \A n \in K : p[n] # 0 => t[p[n]] < t[n]
    BY <2>11 DEF Walked
  <2>15. t \in [K -> 0 .. (k - 1)] /\ \A n, m \in K : t[n] = t[m] => n = m
    BY DEF Walked
  <2>16. Numbered(k, next, t, s)
    BY <2>5, <2>7, <2>10 DEF Numbered
  <2> HIDE DEF P, K
  <2>17. Walked(k, next, t, e, s)
    BY <2>5, <2>6, <2>7, <2>8, <2>9, <2>10, <2>12, <2>13, <2>14, <2>15 DEF Walked
  <2>18. QED BY <2>16, <2>17
<1>3. QED BY <1>1, <1>2

LEMMA HandledWalks ==
    ASSUME NEW nodes, AreNodes(nodes), NEW edges, edges \subseteq NodeIds(nodes) \X NodeIds(nodes),
           NEW k \in Nat, NEW st, Grown(NodeIds(nodes), edges, k, st), st.stack # <<>>,
           NEW t, NEW d, NEW s, Walked(k, st, t, d, s), Numbered(k, st, t, s)
    PROVE  \E u, e, r : /\ Walked(k + 1, Handled(nodes, edges, st), u, e, r)
                        /\ Numbered(k + 1, Handled(nodes, edges, st), u, r)
<1> DEFINE ids == NodeIds(nodes)
           P == Known(st.parent)
           K == Known(st.kids)
           n == Head(st.stack)
           kids == KidIds(nodes, edges, st)
           next == Handled(nodes, edges, st)
           T == ToSet(kids)
           u == Extended(t, n, k)
           r == Extended(s, n, Len(st.leaves))
           e == [m \in P \cup T |-> IF m \in P THEN d[m] ELSE d[n] + 1]
<1>1. HandledIs(nodes, edges, st, n, kids, next)
  BY HandlingIs
<1>2. Grown(ids, edges, k, st)
  OBVIOUS
<1>3. 0 \notin ids
  BY DEF NodeIds, AreNodes
<1> HIDE DEF ids, n, kids, next
<1>4. /\ n \in P \ K /\ Known(next.kids) = K \cup {n} /\ next.kids[n] = kids
      /\ \A m \in K : next.kids[m] = st.kids[m]
      /\ Known(next.parent) = P \cup T /\ \A m \in P : next.parent[m] = st.parent[m]
      /\ \A m \in T : m \notin P /\ next.parent[m] = n
      /\ next.leaves = IF kids = <<>> THEN Append(st.leaves, n) ELSE st.leaves
      /\ next.stack = kids \o Tail(st.stack) /\ n = Head(st.stack)
  BY <1>1 DEF HandledIs
<1>5. K \subseteq P /\ P \subseteq ids /\ st.parent \in [P -> K \cup {0}] /\ n # 0
  BY <1>2, <1>3, <1>4 DEF Grown
<1>6. /\ t \in [K -> 0 .. (k - 1)] /\ d \in [P -> Nat] /\ s \in [K -> Nat]
      /\ st.leaves \in Seq(K) /\ Len(st.leaves) \in Nat
  BY <1>2 DEF Walked, Numbered, Grown
<1>7. st.stack \in Seq(P) /\ Len(st.stack) > 0 /\ Len(st.stack) \in Nat /\ n = st.stack[1]
  <2>1. st.stack \in Seq(P \ K)
    BY <1>2 DEF Grown, Once
  <2> HIDE DEF P, K
  <2>2. st.stack \in Seq(P)
    BY <2>1
  <2>3. QED BY <1>4, <2>2
<1>8. kids \in Seq(T) /\ Len(kids) \in Nat /\ DOMAIN kids = 1 .. Len(kids) /\ T = {kids[i] : i \in 1 .. Len(kids)}
  <2>1. \E U : kids \in Seq(U)
    BY <1>1 DEF HandledIs, Once
  <2>2. Len(kids) \in Nat /\ DOMAIN kids = 1 .. Len(kids)
    BY <2>1
  <2>3. T = {kids[i] : i \in 1 .. Len(kids)}
    BY <2>2 DEF ToSet
  <2>4. kids \in Seq(T)
    BY <2>1, <2>2, <2>3
  <2>5. QED BY <2>2, <2>3, <2>4
<1>9. /\ Kids(next, n) = T
      /\ \A m \in K : Kids(next, m) = Kids(st, m) /\ Leaf(next, m) = Leaf(st, m)
  BY <1>4, <1>8 DEF Kids, Leaf
<1> HIDE DEF P, K, T
<1>10. /\ u \in [K \cup {n} -> 0 .. k] /\ u[n] = k /\ \A m \in K : u[m] = t[m] /\ t[m] < k /\ t[m] \in Nat
  BY <1>4, <1>6 DEF Extended
<1>11. /\ r \in [K \cup {n} -> Nat] /\ r[n] = Len(st.leaves) /\ \A m \in K : r[m] = s[m]
  BY <1>4, <1>6 DEF Extended
<1>12. /\ e \in [P \cup T -> Nat] /\ (\A m \in P : e[m] = d[m]) /\ \A m \in T : e[m] = d[n] + 1
  BY <1>4, <1>5, <1>6
<1> HIDE DEF u, r, e
<1>13. \A m, l \in K \cup {n} : u[m] = u[l] => m = l
  <2>1. \A m, l \in K : t[m] = t[l] => m = l
    BY DEF Walked, K
  <2>2. QED BY <1>10, <2>1
<1>14. ASSUME NEW m \in P \cup T PROVE e[m] = IF next.parent[m] = 0 THEN 0 ELSE e[next.parent[m]] + 1
  <2>1. CASE m \in P
    <3>1. d[m] = IF st.parent[m] = 0 THEN 0 ELSE d[st.parent[m]] + 1
      BY <2>1 DEF Walked, P
    <3>2. st.parent[m] # 0 => st.parent[m] \in P
      BY <1>5, <2>1
    <3>3. QED BY <1>4, <1>12, <2>1, <3>1, <3>2
  <2>2. CASE m \in T
    BY <1>4, <1>5, <1>12, <2>2
  <2>3. QED BY <2>1, <2>2
<1>15. ASSUME NEW m \in P \ K PROVE d[m] <= d[n]
  <2>1. PICK i \in 1 .. Len(st.stack) : st.stack[i] = m
    BY <1>2, <1>15 DEF Grown, Once, P, K
  <2>2. CASE i = 1
    BY <1>4, <1>5, <1>6, <1>7, <2>1, <2>2
  <2>3. CASE i # 1
    <3>1. 1 < i /\ 1 \in 1 .. Len(st.stack)
      BY <2>1, <2>3, <1>7
    <3>2. QED BY <1>7, <2>1, <3>1 DEF Walked
  <2>4. QED BY <2>2, <2>3
<1>16. ASSUME NEW i \in 1 .. Len(next.stack), NEW j \in 1 .. Len(next.stack), i < j
       PROVE  e[next.stack[j]] <= e[next.stack[i]]
  <2> DEFINE tail == Tail(st.stack)
  <2>1. /\ tail \in Seq(P) /\ Len(tail) = Len(st.stack) - 1 /\ Len(tail) \in Nat
        /\ \A q \in 1 .. Len(tail) : tail[q] = st.stack[q + 1] /\ tail[q] \in P \ K
    <3>1. tail \in Seq((P \ K) \ {n})
      BY <1>1 DEF HandledIs, Once, P, K
    <3>2. \A q \in 1 .. Len(tail) : tail[q] \in P \ K
      BY <3>1
    <3>3. QED BY <1>7, <3>2
  <2> HIDE DEF tail
  <2>2. /\ Len(next.stack) = Len(kids) + Len(tail)
        /\ \A q \in 1 .. Len(next.stack) : /\ q <= Len(kids) => next.stack[q] = kids[q] /\ next.stack[q] \in T
                                           /\ q > Len(kids) => /\ q - Len(kids) \in 1 .. Len(tail)
                                                               /\ next.stack[q] = tail[q - Len(kids)]
    <3>1. next.stack = kids \o tail
      BY <1>4 DEF tail
    <3>2. kids \in Seq(T \cup P) /\ tail \in Seq(T \cup P)
      BY <1>8, <2>1
    <3>3. /\ Len(next.stack) = Len(kids) + Len(tail)
          /\ \A q \in 1 .. Len(next.stack) : next.stack[q] = IF q <= Len(kids) THEN kids[q] ELSE tail[q - Len(kids)]
      BY <3>1, <3>2
    <3>4. ASSUME NEW q \in 1 .. Len(next.stack), q <= Len(kids) PROVE next.stack[q] = kids[q] /\ next.stack[q] \in T
      BY <1>8, <3>3, <3>4
    <3>5. ASSUME NEW q \in 1 .. Len(next.stack), q > Len(kids)
          PROVE  q - Len(kids) \in 1 .. Len(tail) /\ next.stack[q] = tail[q - Len(kids)]
      BY <1>8, <2>1, <3>3, <3>5
    <3>6. QED BY <3>3, <3>4, <3>5
  <2>3. CASE j <= Len(kids)
    <3>1. i <= Len(kids)
      BY <1>8, <1>16, <2>1, <2>2, <2>3
    <3>2. e[next.stack[i]] = d[n] + 1 /\ e[next.stack[j]] = d[n] + 1
      BY <1>12, <2>2, <2>3, <3>1
    <3>3. d[n] \in Nat
      BY <1>4, <1>6
    <3>4. QED BY <3>2, <3>3
  <2>4. CASE i <= Len(kids) /\ j > Len(kids)
    <3>1. e[next.stack[i]] = d[n] + 1
      BY <1>12, <2>2, <2>4
    <3>2. next.stack[j] \in P \ K
      BY <2>1, <2>2, <2>4
    <3>3. e[next.stack[j]] <= d[n]
      BY <1>12, <1>15, <3>2
    <3>4. d[n] \in Nat /\ e[next.stack[j]] \in Nat
      BY <1>4, <1>6, <1>12, <3>2
    <3>5. QED BY <3>1, <3>3, <3>4
  <2>5. CASE i > Len(kids)
    <3>1. PICK a \in 1 .. Len(tail), b \in 1 .. Len(tail) : /\ a = i - Len(kids) /\ b = j - Len(kids) /\ a < b
                                                            /\ next.stack[i] = tail[a] /\ next.stack[j] = tail[b]
      <4>1. j > Len(kids) /\ i - Len(kids) < j - Len(kids)
        BY <1>8, <1>16, <2>5, <2>2
      <4>2. QED BY <2>2, <2>5, <4>1
    <3>2. PICK a1 \in 1 .. Len(st.stack), b1 \in 1 .. Len(st.stack) : a1 = a + 1 /\ b1 = b + 1 /\ a1 < b1
      <4>1. a + 1 \in 1 .. Len(st.stack) /\ b + 1 \in 1 .. Len(st.stack)
        BY <1>7, <2>1
      <4>2. a + 1 < b + 1
        BY <3>1
      <4>3. QED BY <4>1, <4>2
    <3>3. d[st.stack[b1]] <= d[st.stack[a1]]
      BY <3>2 DEF Walked
    <3>4. next.stack[i] = st.stack[a1] /\ next.stack[j] = st.stack[b1] /\ next.stack[i] \in P /\ next.stack[j] \in P
      BY <2>1, <3>1, <3>2
    <3>5. QED BY <1>12, <3>3, <3>4
  <2>6. QED BY <1>8, <2>3, <2>4, <2>5
<1>17. ASSUME NEW m \in K \cup {n}, next.parent[m] # 0 PROVE u[next.parent[m]] < u[m]
  <2>1. m \in P /\ next.parent[m] = st.parent[m] /\ st.parent[m] \in K
    BY <1>4, <1>5, <1>17
  <2>2. CASE m \in K
    <3>1. t[st.parent[m]] < t[m]
      BY <1>17, <2>1, <2>2 DEF Walked, K
    <3>2. QED BY <1>10, <2>1, <2>2, <3>1
  <2>3. CASE m = n
    BY <1>10, <2>1, <2>3
  <2>4. QED BY <2>2, <2>3
<1>18. ASSUME NEW m \in K, NEW c \in Kids(st, m) PROVE c \in P /\ st.parent[c] = m
  BY <1>18 DEF Walked, K, P
<1>19. ASSUME NEW m \in K \cup {n}, NEW c \in Kids(next, m) PROVE c \in P \cup T /\ next.parent[c] = m
  <2>1. CASE m \in K
    BY <1>4, <1>9, <1>18, <2>1
  <2>2. CASE m = n
    BY <1>4, <1>9, <2>2
  <2>3. QED BY <2>1, <2>2
<1>20. ASSUME NEW m \in K \cup {n}, NEW l \in K \cup {n}, u[m] < u[l], e[l] <= e[m], NEW c \in Kids(next, m)
       PROVE  c \in K \cup {n} /\ u[c] < u[l]
  <2>1. m \in K
    BY <1>10, <1>20
  <2>2. c \in Kids(st, m) /\ c \in P /\ st.parent[c] = m
    BY <1>9, <1>18, <1>20, <2>1
  <2>3. CASE l \in K
    <3>1. t[m] < t[l] /\ d[l] <= d[m]
      BY <1>5, <1>10, <1>12, <1>20, <2>1, <2>3
    <3>2. c \in K /\ t[c] < t[l]
      BY <2>1, <2>2, <2>3, <3>1 DEF Walked, K
    <3>3. QED BY <1>10, <2>3, <3>2
  <2>4. CASE l = n
    <3>1. d[n] <= d[m] /\ d[m] \in Nat /\ d[n] \in Nat
      BY <1>4, <1>5, <1>6, <1>12, <1>20, <2>1, <2>4
    <3>2. d[c] = d[m] + 1
      <4>1. m # 0
        BY <1>3, <1>5, <2>1
      <4>2. d[c] = IF st.parent[c] = 0 THEN 0 ELSE d[st.parent[c]] + 1
        BY <2>2 DEF Walked, P
      <4>3. QED BY <2>2, <4>1, <4>2
    <3>3. c \in K
      <4>1. SUFFICES ASSUME c \notin K PROVE FALSE
        OBVIOUS
      <4>2. d[c] <= d[n]
        BY <1>15, <2>2, <4>1
      <4>3. QED BY <3>1, <3>2, <4>2
    <3>4. QED BY <1>10, <2>4, <3>3
  <2>5. QED BY <2>3, <2>4
<1>21. Walked(k + 1, next, u, e, r)
  <2>1. (k + 1) - 1 = k /\ Known(next.kids) = K \cup {n} /\ Known(next.parent) = P \cup T
    BY <1>4
  <2>2. QED BY <1>10, <1>12, <1>13, <1>14, <1>16, <1>17, <1>19, <1>20, <2>1 DEF Walked
<1>22. Numbered(k + 1, next, u, r)
  <2> DEFINE size == Len(st.leaves)
             leaves == next.leaves
  <2>1. /\ size \in Nat /\ \A i \in 1 .. size : leaves[i] = st.leaves[i] /\ st.leaves[i] \in K
        /\ Len(leaves) = size + Leaf(next, n)
        /\ kids = <<>> => leaves[size + 1] = n
    <3>1. CASE kids = <<>>
      <4>1. leaves = Append(st.leaves, n) /\ Leaf(next, n) = 1
        BY <1>4, <3>1 DEF Leaf
      <4>2. st.leaves \in Seq(K \cup {n})
        BY <1>6
      <4> HIDE DEF leaves
      <4>3. QED BY <1>6, <4>1, <4>2
    <3>2. CASE kids # <<>>
      <4>1. leaves = st.leaves /\ Leaf(next, n) = 0
        BY <1>4, <3>2 DEF Leaf
      <4>2. QED BY <1>6, <3>2, <4>1
    <3>3. QED BY <3>1, <3>2
  <2>2. /\ \A m \in K : s[m] + Leaf(st, m) <= size
        /\ \A m, l \in K : t[m] < t[l] => s[m] + Leaf(st, m) <= s[l]
        /\ \A m \in K : st.kids[m] = <<>> => st.leaves[s[m] + 1] = m
        /\ \A i \in 1 .. size : s[st.leaves[i]] = i - 1
    BY DEF Numbered, K
  <2>3. (\A m \in K : Leaf(st, m) \in {0, 1} /\ (st.kids[m] = <<>> => Leaf(st, m) = 1)) /\ Leaf(next, n) \in {0, 1}
    BY DEF Leaf
  <2>4. Leaf(next, n) = 1 <=> kids = <<>>
    BY <1>4 DEF Leaf
  <2> HIDE DEF size, leaves
  <2>5. r[n] = size
    BY <1>11 DEF size
  <2>6. \A m \in K \cup {n} : r[m] + Leaf(next, m) <= Len(leaves)
    <3>1. ASSUME NEW m \in K PROVE r[m] + Leaf(next, m) <= Len(leaves)
      <4>1. r[m] = s[m] /\ s[m] \in Nat /\ Leaf(next, m) = Leaf(st, m)
        BY <1>6, <1>9, <1>11
      <4> Leaf(st, m) \in Nat
        BY DEF Leaf
      <4>2. s[m] + Leaf(st, m) <= size /\ size <= Len(leaves) /\ Len(leaves) \in Nat
        BY <2>1, <2>2, <2>3
      <4>3. QED BY <2>1, <4>1, <4>2
    <3>2. r[n] + Leaf(next, n) = Len(leaves) /\ Len(leaves) \in Nat
      BY <2>1, <2>3, <2>5
    <3>3. QED BY <3>1, <3>2
  <2>7. \A m, l \in K \cup {n} : u[m] < u[l] => r[m] + Leaf(next, m) <= r[l]
    BY <1>9, <1>10, <1>11, <2>2, <2>5
  <2>8. ASSUME NEW m \in K \cup {n}, next.kids[m] = <<>> PROVE leaves[r[m] + 1] = m
    <3>1. CASE m \in K
      <4>1. st.kids[m] = <<>>
        BY <1>4, <2>8, <3>1
      <4>2. s[m] + 1 \in 1 .. size /\ st.leaves[s[m] + 1] = m
        BY <1>6, <2>1, <2>2, <2>3, <3>1, <4>1
      <4>3. QED BY <1>11, <2>1, <3>1, <4>2
    <3>2. CASE m = n
      BY <1>4, <2>1, <2>5, <2>8, <3>2
    <3>3. QED BY <3>1, <3>2
  <2>9. ASSUME NEW i \in 1 .. Len(leaves) PROVE r[leaves[i]] = i - 1
    <3>1. CASE i \in 1 .. size
      BY <1>11, <2>1, <2>2, <3>1
    <3>2. CASE i \notin 1 .. size
      <4>1. i = size + 1 /\ Leaf(next, n) = 1
        BY <2>1, <2>3, <3>2
      <4>2. QED BY <2>1, <2>4, <2>5, <4>1
    <3>3. QED BY <3>1, <3>2
  <2>10. QED BY <1>4, <1>11, <2>6, <2>7, <2>8, <2>9 DEF Numbered, leaves
<1>23. QED BY <1>21, <1>22 DEF next

\* The forest, when each node has been handled.
Finished(ids, edges, forest) ==
    /\ Grown(ids, edges, Cardinality(ids), forest)
    /\ \E t, d, s : Walked(Cardinality(ids), forest, t, d, s) /\ Numbered(Cardinality(ids), forest, t, s)
OnTheWay(ids, edges, k, st) ==
    Grown(ids, edges, k, st) /\ \E t, d, s : Walked(k, st, t, d, s) /\ Numbered(k, st, t, s)

LEMMA ForestStep ==
    ASSUME NEW nodes, AreNodes(nodes), NEW edges, edges \subseteq NodeIds(nodes) \X NodeIds(nodes),
           IsFiniteSet(NodeIds(nodes)), NEW k \in Nat, k < Cardinality(NodeIds(nodes)),
           NEW st \in ForestStates(nodes), OnTheWay(NodeIds(nodes), edges, k, st)
    PROVE  OnTheWay(NodeIds(nodes), edges, k + 1, ForestNext(nodes, edges, st))
<1> DEFINE ids == NodeIds(nodes)
           begun == Begun(nodes, edges, st)
<1>1. Grown(ids, edges, k, begun) /\ begun.stack # <<>>
  BY BegunGrows DEF OnTheWay
<1>2. PICK t, d, s : Walked(k, st, t, d, s) /\ Numbered(k, st, t, s)
  BY DEF OnTheWay
<1>3. PICK e : Walked(k, begun, t, e, s) /\ Numbered(k, begun, t, s)
  BY <1>2, BegunWalks DEF OnTheWay
<1> HIDE DEF begun
<1>4. Grown(ids, edges, k + 1, Handled(nodes, edges, begun))
  BY <1>1, HandledGrows
<1>5. \E u, f, r : Walked(k + 1, Handled(nodes, edges, begun), u, f, r) /\ Numbered(k + 1, Handled(nodes, edges, begun), u, r)
  BY <1>1, <1>3, HandledWalks
<1>6. OnTheWay(ids, edges, k + 1, Handled(nodes, edges, begun))
  BY <1>4, <1>5 DEF OnTheWay
<1>7. ForestNext(nodes, edges, st) = Handled(nodes, edges, begun)
  BY ForestNextIs DEF begun
<1>8. QED BY <1>6, <1>7

LEMMA ForestStaysTyped ==
    ASSUME NEW nodes, AreNodes(nodes), NEW edges, edges \subseteq NodeIds(nodes) \X NodeIds(nodes),
           NEW st \in ForestStates(nodes)
    PROVE  ForestNext(nodes, edges, st) \in ForestStates(nodes)
<1>1. Begun(nodes, edges, st) \in ForestStates(nodes) /\ Begun(nodes, edges, st).stack # <<>>
  BY BegunStaysTyped
<1>2. Handled(nodes, edges, Begun(nodes, edges, st)) \in ForestStates(nodes)
  BY <1>1, HandledStaysTyped
<1>3. QED BY <1>2, ForestNextIs

NoForest == [stack |-> <<>>, parent |-> NoFunction, kids |-> NoFunction, leaves |-> <<>>, forced |-> {}]

LEMMA NoForestIsOnTheWay ==
    ASSUME NEW nodes, AreNodes(nodes), NEW edges
    PROVE  NoForest \in ForestStates(nodes) /\ OnTheWay(NodeIds(nodes), edges, 0, NoForest)
<1>1. Known(NoFunction) = {} /\ \A S : NoFunction \in [{} -> S]
  BY DEF NoFunction, Known
<1>2. /\ NoForest.stack = <<>> /\ NoForest.parent = NoFunction /\ NoForest.kids = NoFunction /\ NoForest.leaves = <<>>
      /\ NoForest.forced = {}
  BY DEF NoForest
<1>3. NoForest \in ForestStates(nodes)
  <2> DEFINE any == Anyone(nodes)
  <2>1. {} \in SUBSET any /\ <<>> \in Seq(any)
    OBVIOUS
  <2> HIDE DEF any
  <2>2. NoFunction \in UNION {[S -> any \cup {0}] : S \in SUBSET any} /\ NoFunction \in UNION {[S -> Seq(any)] : S \in SUBSET any}
    BY <1>1, <2>1
  <2>3. QED BY <2>1, <2>2 DEF NoForest, ForestStates, any
<1> HIDE DEF NoForest
<1>4. Grown(NodeIds(nodes), edges, 0, NoForest)
  <2>1. Cardinality({}) = 0 /\ <<>> \in Seq({}) /\ Once(<<>>, {})
    BY FS_EmptySet DEF Once
  <2>2. QED BY <1>1, <1>2, <2>1 DEF Grown
<1>5. Walked(0, NoForest, NoFunction, NoFunction, NoFunction) /\ Numbered(0, NoForest, NoFunction, NoFunction)
  <2>1. Len(<<>>) = 0
    OBVIOUS
  <2>2. NoFunction \in [{} -> 0 .. (0 - 1)] /\ NoFunction \in [{} -> Nat]
    BY <1>1
  <2>3. Walked(0, NoForest, NoFunction, NoFunction, NoFunction)
    BY <1>1, <1>2, <2>1, <2>2 DEF Walked
  <2>4. Numbered(0, NoForest, NoFunction, NoFunction)
    BY <1>1, <1>2, <2>1, <2>2 DEF Numbered
  <2>5. QED BY <2>3, <2>4
<1>6. QED BY <1>3, <1>4, <1>5 DEF OnTheWay

LEMMA ForestIsFinished ==
    ASSUME NEW nodes, AreNodes(nodes), NEW edges, edges \subseteq NodeIds(nodes) \X NodeIds(nodes),
           IsFiniteSet(NodeIds(nodes)), Cardinality(NodeIds(nodes)) = Cardinality(nodes)
    PROVE  Finished(NodeIds(nodes), edges, Forest(nodes, edges))
<1> DEFINE ids == NodeIds(nodes)
           n == Cardinality(nodes)
           numbers == [i \in 1 .. n |-> i]
           X == ForestStates(nodes)
           f == [z \in X \X (1 .. n) |-> ForestNext(nodes, edges, z[1])]
           Folds(g) == g = [s \in SUBSET DOMAIN numbers |->
                               IF s = {} THEN NoForest ELSE ForestNext(nodes, edges, g[s \ {Max(s)}])]
           h == CHOOSE g : Folds(g)
<1>1. n \in Nat /\ DOMAIN numbers = 1 .. n /\ n = Cardinality(ids)
  BY FS_CardinalityType
<1>2. NoForest \in X /\ OnTheWay(ids, edges, 0, NoForest)
  BY NoForestIsOnTheWay
<1>3. f \in [X \X (1 .. n) -> X]
  BY ForestStaysTyped
<1>4. PICK g \in [SUBSET (1 .. n) -> X] : FoldOn(g, n, NoForest, f)
  <2> HIDE DEF X, f
  <2>1. QED BY <1>1, <1>2, <1>3, FoldExists
<1>5. Folds(g)
  <2>1. ASSUME NEW s \in SUBSET (1 .. n), s # {}
        PROVE  f[<<g[s \ {Max(s)}], Max(s)>>] = ForestNext(nodes, edges, g[s \ {Max(s)}])
    <3>1. s \in SUBSET (0 .. n)
      OBVIOUS
    <3>2. Max(s) \in 1 .. n
      BY <1>1, <2>1, <3>1, MaxBelow
    <3>3. g[s \ {Max(s)}] \in X
      BY <1>4
    <3> HIDE DEF X
    <3>4. QED BY <3>2, <3>3
  <2> HIDE DEF X, f, numbers
  <2>2. QED BY <1>1, <1>4, <2>1 DEF FoldOn
<1> HIDE DEF X, f
<1>6. Folds(h)
  <2> HIDE DEF Folds
  <2>1. QED BY <1>5
<1>7. Forest(nodes, edges) = h[1 .. n]
  <2>1. Forest(nodes, edges) = h[DOMAIN numbers]
    BY DEF Forest, Steps, FoldLeft, MapThenFoldSet, NoForest
  <2> HIDE DEF h, numbers
  <2>2. QED BY <1>1, <2>1
<1> HIDE DEF h, numbers
<1>8. /\ h[1 .. 0] = NoForest
      /\ \A k \in 1 .. n : h[1 .. k] = ForestNext(nodes, edges, h[1 .. (k - 1)])
  <2>1. 1 .. 0 = {} /\ h[1 .. 0] = NoForest
    BY <1>1, <1>6
  <2>2. ASSUME NEW k \in 1 .. n PROVE h[1 .. k] = ForestNext(nodes, edges, h[1 .. (k - 1)])
    <3>1. Ends(n, k)
      BY <1>1, Intervals
    <3>2. h[1 .. k] = ForestNext(nodes, edges, h[(1 .. k) \ {Max(1 .. k)}])
      BY <1>1, <1>6, <3>1 DEF Ends
    <3>3. QED BY <3>1, <3>2 DEF Ends
  <2>3. QED BY <2>1, <2>2
<1> HIDE DEF n
<1> DEFINE Fine == {k \in 0 .. n : h[1 .. k] \in X /\ OnTheWay(ids, edges, k, h[1 .. k])}
<1>9. 0 \in Fine
  BY <1>1, <1>2, <1>8
<1>10. ASSUME NEW k \in 1 .. n, k - 1 \in Fine PROVE k \in Fine
  <2> DEFINE st == h[1 .. (k - 1)]
             j == k - 1
  <2>1. /\ j \in Nat /\ j < n /\ k = j + 1 /\ h[1 .. k] = ForestNext(nodes, edges, st)
        /\ st \in X /\ OnTheWay(ids, edges, j, st)
    BY <1>1, <1>8, <1>10
  <2> HIDE DEF st, j
  <2>2. ForestNext(nodes, edges, st) \in X
    BY <2>1, ForestStaysTyped DEF X
  <2>3. OnTheWay(ids, edges, j + 1, ForestNext(nodes, edges, st))
    BY <1>1, <2>1, ForestStep DEF X
  <2>4. QED BY <1>1, <2>1, <2>2, <2>3
<1>11. n \in Fine
  <2> HIDE DEF Fine
  <2>1. n \in 0 .. n
    BY <1>1
  <2>2. QED BY <1>1, <1>9, <1>10, <2>1, UpTo
<1>12. QED BY <1>1, <1>7, <1>11 DEF Finished, OnTheWay

LEMMA GraphHasForest ==
    ASSUME NEW nodes, NEW rels, IsGraph(nodes, rels)
    PROVE  Finished(NodeIds(nodes), Edges(nodes, rels), Forest(nodes, Edges(nodes, rels)))
<1>1. AreNodes(nodes)
  BY DEF AreNodes, IsGraph
<1>2. IsNet(NodeIds(nodes), Edges(nodes, rels)) /\ Cardinality(NodeIds(nodes)) = Cardinality(nodes)
  BY GraphIsNet
<1>3. QED BY <1>1, <1>2, ForestIsFinished DEF IsNet

\* Whatever the graph, the forest of the lineage profile follows its edges: every node is in it, under one
\* that points at it, or is a root; and only where there is a cycle is a root one that something points at.
\* (lineage.go)
THEOREM EveryTreeFollowsEdges ==
    ASSUME NEW nodes, NEW rels, IsGraph(nodes, rels)
    PROVE  TreesFollowEdges(nodes, rels)
<1> DEFINE ids == NodeIds(nodes)
           edges == Edges(nodes, rels)
           forest == Forest(nodes, edges)
<1>1. Grown(ids, edges, Cardinality(ids), forest) /\ IsFiniteSet(ids)
  BY GraphHasForest, GraphIsNet DEF Finished, IsNet
<1> HIDE DEF ids, edges, forest
<1>2. Known(forest.parent) = ids
  <2> DEFINE P == Known(forest.parent)
             K == Known(forest.kids)
  <2>1. P \subseteq ids /\ K \subseteq P /\ Cardinality(K) = Cardinality(ids)
    BY <1>1 DEF Grown
  <2> HIDE DEF P, K
  <2>2. K = ids
    BY <1>1, <2>1, FS_Subset
  <2>3. QED BY <2>1, <2>2 DEF P
<1>3. forest.forced # {} => Cyclic(ids, edges)
  BY <1>1 DEF Grown
<1>4. \A n \in ids : /\ forest.parent[n] = 0 => n \in forest.forced \/ Before(n, edges) = {}
                     /\ forest.parent[n] # 0 => <<forest.parent[n], n>> \in edges
  BY <1>1, <1>2 DEF Grown
<1>5. QED BY <1>2, <1>3, <1>4 DEF TreesFollowEdges, Known, ids, edges, forest

\* A finished forest has every node, and ghosts for the order it was walked in.
Whole(ids, forest, t, d, s) ==
    /\ Known(forest.parent) = ids /\ Known(forest.kids) = ids /\ 0 \notin ids /\ IsFiniteSet(ids)
    /\ forest.parent \in [ids -> ids \cup {0}] /\ forest.kids \in [ids -> Seq(ids)] /\ forest.leaves \in Seq(ids)
    /\ Walked(Cardinality(ids), forest, t, d, s) /\ Numbered(Cardinality(ids), forest, t, s)

LEMMA FinishedIsWhole ==
    ASSUME NEW ids, IsFiniteSet(ids), 0 \notin ids, NEW edges, NEW forest, Finished(ids, edges, forest)
    PROVE  \E t, d, s : Whole(ids, forest, t, d, s)
<1> DEFINE P == Known(forest.parent)
           K == Known(forest.kids)
<1>1. /\ P \subseteq ids /\ K \subseteq P /\ Cardinality(K) = Cardinality(ids)
      /\ forest.parent \in [P -> K \cup {0}] /\ forest.kids \in [K -> Seq(P)] /\ forest.leaves \in Seq(K)
  BY DEF Finished, Grown
<1> HIDE DEF P, K
<1>2. K = ids /\ P = ids
  BY <1>1, FS_Subset
<1>3. QED BY <1>1, <1>2 DEF Finished, Whole, P, K

\* The depth the model computes is the one that was counted on the way.
LEMMA DepthIs ==
    ASSUME NEW ids, NEW forest, NEW t, NEW d, NEW s, Whole(ids, forest, t, d, s)
    PROVE  \A n \in ids : Depth(forest)[n] = d[n]
<1> DEFINE parent == forest.parent
           Sizes(g) == g = [n \in DOMAIN parent |-> IF parent[n] = 0 THEN 0 ELSE g[parent[n]] + 1]
           g == CHOOSE g : Sizes(g)
<1>1. DOMAIN parent = ids /\ \A n \in ids : parent[n] \in ids \cup {0}
  BY DEF Whole, Known
<1>2. d \in [ids -> Nat] /\ \A n \in ids : d[n] = IF parent[n] = 0 THEN 0 ELSE d[parent[n]] + 1
  BY DEF Whole, Walked
<1>3. t \in [ids -> Nat] /\ \A n \in ids : parent[n] # 0 => t[parent[n]] < t[n]
  BY DEF Whole, Walked
<1>4. Depth(forest) = g
  BY DEF Depth
<1> HIDE DEF parent
<1>5. Sizes(d)
  BY <1>1, <1>2
<1>6. Sizes(g)
  <2> HIDE DEF Sizes
  <2>1. QED BY <1>5
<1> HIDE DEF g
<1>7. \A n \in ids : g[n] = IF parent[n] = 0 THEN 0 ELSE g[parent[n]] + 1
  BY <1>1, <1>6
<1> DEFINE Bad == {n \in ids : g[n] # d[n]}
<1>8. Bad = {}
  <2> SUFFICES ASSUME Bad # {} PROVE FALSE
    OBVIOUS
  <2> DEFINE times == {t[n] : n \in Bad}
  <2>1. times \in SUBSET Nat /\ times # {}
    BY <1>3
  <2>2. PICK n \in Bad : \A m \in Bad : t[n] <= t[m]
    <3>1. PICK k \in times : \A j \in times : k <= j
      BY <2>1, LeastOf
    <3>2. QED BY <3>1
  <2>3. parent[n] # 0
    BY <1>2, <1>7
  <2>4. parent[n] \in ids /\ t[parent[n]] < t[n]
    BY <1>1, <1>3, <2>3
  <2>5. parent[n] \notin Bad
    BY <1>3, <2>2, <2>4
  <2>6. QED BY <1>2, <1>7, <2>3, <2>4, <2>5
<1>9. QED BY <1>4, <1>8

\* The columns exist: a node's is that of a leaf, or follows from nodes handled later.
LEMMA ColumnsExist ==
    ASSUME NEW ids, NEW forest, NEW t, NEW d, NEW s, Whole(ids, forest, t, d, s)
    PROVE  /\ DOMAIN Columns(forest) = ids
           /\ \A n \in ids : Columns(forest)[n] = Centre(forest, Columns(forest), n)
<1> DEFINE k == Cardinality(ids)
           Solves(x) == x = [n \in DOMAIN forest.parent |-> Centre(forest, x, n)]
           From(j) == {n \in ids : t[n] >= k - j}
           Partly(x, j) == DOMAIN x = ids /\ \A n \in From(j) : x[n] = Centre(forest, x, n)
           Fine == {j \in 0 .. k : \E x : Partly(x, j)}
           x0 == CHOOSE x : Solves(x)
<1>1. k \in Nat /\ t \in [ids -> 0 .. (k - 1)] /\ DOMAIN forest.parent = ids
  BY FS_CardinalityType DEF Whole, Walked, Known
<1>2. ASSUME NEW n \in ids, forest.kids[n] # <<>>
      PROVE  /\ Head(forest.kids[n]) \in ids /\ Last(forest.kids[n]) \in ids
             /\ t[n] < t[Head(forest.kids[n])] /\ t[n] < t[Last(forest.kids[n])]
  <2>1. forest.kids[n] \in Seq(ids)
    BY DEF Whole
  <2>2. /\ Len(forest.kids[n]) \in Nat /\ Len(forest.kids[n]) > 0
        /\ Head(forest.kids[n]) = forest.kids[n][1] /\ Last(forest.kids[n]) = forest.kids[n][Len(forest.kids[n])]
    BY <1>2, <2>1 DEF Last
  <2>3. Head(forest.kids[n]) \in Kids(forest, n) /\ Last(forest.kids[n]) \in Kids(forest, n)
    BY <2>2 DEF Kids
  <2>4. ASSUME NEW c \in Kids(forest, n) PROVE c \in ids /\ t[n] < t[c]
    <3>1. c \in ids /\ forest.parent[c] = n
      BY <2>4 DEF Whole, Walked
    <3>2. n # 0
      BY DEF Whole
    <3>3. QED BY <3>1, <3>2 DEF Whole, Walked
  <2>5. QED BY <2>3, <2>4
<1>3. 0 \in Fine
  <2>1. From(0) = {}
    BY <1>1
  <2>2. Partly([n \in ids |-> 0], 0)
    BY <2>1
  <2> HIDE DEF Partly
  <2>3. QED BY <1>1, <2>2
<1>4. ASSUME NEW j \in 1 .. k, j - 1 \in Fine PROVE j \in Fine
  <2>1. PICK x : Partly(x, j - 1)
    BY <1>4
  <2> DEFINE y == [n \in ids |-> IF t[n] = k - j THEN Centre(forest, x, n) ELSE x[n]]
  <2>2. ASSUME NEW n \in From(j) PROVE y[n] = Centre(forest, x, n)
    <3>1. CASE t[n] = k - j
      BY <3>1
    <3>2. CASE t[n] # k - j
      <4>1. n \in From(j - 1)
        BY <1>1, <3>2
      <4>2. QED BY <2>1, <3>2, <4>1
    <3>3. QED BY <3>1, <3>2
  <2>3. ASSUME NEW n \in From(j) PROVE Centre(forest, y, n) = Centre(forest, x, n)
    <3>1. CASE forest.kids[n] = <<>>
      BY <3>1 DEF Centre
    <3>2. CASE forest.kids[n] # <<>>
      <4> DEFINE a == Head(forest.kids[n])
                 b == Last(forest.kids[n])
      <4>1. a \in ids /\ b \in ids /\ t[n] < t[a] /\ t[n] < t[b]
        BY <1>2, <3>2
      <4>2. t[n] >= k - j
        OBVIOUS
      <4> HIDE DEF a, b
      <4>3. t[a] # k - j /\ t[b] # k - j
        BY <1>1, <4>1, <4>2
      <4>4. y[a] = x[a] /\ y[b] = x[b]
        BY <4>1, <4>3
      <4> HIDE DEF y
      <4>5. QED BY <3>2, <4>4 DEF Centre, a, b
    <3>3. QED BY <3>1, <3>2
  <2>4. Partly(y, j)
    <3>1. DOMAIN y = ids
      OBVIOUS
    <3> HIDE DEF y
    <3>2. QED BY <2>2, <2>3, <3>1
  <2> HIDE DEF Partly
  <2>5. QED BY <2>4
<1>5. k \in Fine
  <2> HIDE DEF Fine
  <2>1. k \in 0 .. k
    BY <1>1
  <2>2. QED BY <1>1, <1>3, <1>4, <2>1, UpTo
<1>6. PICK x : Partly(x, k)
  BY <1>5
<1>7. From(k) = ids
  BY <1>1
<1>8. \E y : Solves(y)
  <2> DEFINE y == [n \in ids |-> x[n]]
  <2>1. ASSUME NEW n \in ids PROVE Centre(forest, y, n) = Centre(forest, x, n)
    <3>1. CASE forest.kids[n] = <<>>
      BY <3>1 DEF Centre
    <3>2. CASE forest.kids[n] # <<>>
      <4> DEFINE a == Head(forest.kids[n])
                 b == Last(forest.kids[n])
      <4>1. a \in ids /\ b \in ids
        BY <1>2, <3>2
      <4> HIDE DEF a, b
      <4>2. y[a] = x[a] /\ y[b] = x[b]
        BY <4>1
      <4> HIDE DEF y
      <4>3. QED BY <3>2, <4>2 DEF Centre, a, b
    <3>3. QED BY <3>1, <3>2
  <2>2. y = [n \in ids |-> Centre(forest, y, n)]
    <3>1. \A n \in ids : y[n] = Centre(forest, y, n)
      BY <1>6, <1>7, <2>1
    <3>2. DOMAIN y = ids /\ y = [n \in ids |-> y[n]]
      OBVIOUS
    <3> HIDE DEF y
    <3>3. QED BY <3>1, <3>2
  <2> HIDE DEF y
  <2>3. QED BY <1>1, <2>2
<1>9. Solves(x0)
  <2> HIDE DEF Solves
  <2>1. QED BY <1>8
<1>10. Columns(forest) = x0
  BY DEF Columns
<1> HIDE DEF x0
<1>11. DOMAIN x0 = ids /\ \A n \in ids : x0[n] = Centre(forest, x0, n)
  BY <1>1, <1>9
<1>12. QED BY <1>10, <1>11

LEMMA Scaled ==
    ASSUME NEW w \in Nat, NEW a \in Nat, NEW b \in Nat
    PROVE  w * a \in Int /\ w * (a + 1) \in Int /\ w * (a + 1) = w * a + w /\ (a <= b => w * a <= w * b)
OBVIOUS

LEMMA LeafColumn ==
    ASSUME NEW ids, NEW forest, NEW t, NEW d, NEW s, Whole(ids, forest, t, d, s), NEW n \in ids,
           forest.kids[n] = <<>>
    PROVE  Columns(forest)[n] = GapX * (s[n] + 1)
<1> DEFINE I == {i \in 1 .. Len(forest.leaves) : forest.leaves[i] = n}
<1>1. s \in [ids -> Nat] /\ Len(forest.leaves) \in Nat /\ s[n] + 1 <= Len(forest.leaves)
  <2>1. s \in [ids -> Nat] /\ s[n] + Leaf(forest, n) <= Len(forest.leaves)
    BY DEF Whole, Numbered
  <2>2. Leaf(forest, n) = 1
    BY DEF Leaf
  <2>3. Len(forest.leaves) \in Nat
    BY DEF Whole
  <2>4. QED BY <2>1, <2>2, <2>3
<1>2. forest.leaves[s[n] + 1] = n /\ \A i \in 1 .. Len(forest.leaves) : s[forest.leaves[i]] = i - 1
  BY DEF Whole, Numbered
<1>3. I = {s[n] + 1}
  <2>1. s[n] + 1 \in I
    BY <1>1, <1>2
  <2>2. ASSUME NEW i \in I PROVE i = s[n] + 1
    <3>1. s[n] = i - 1
      BY <1>2
    <3>2. QED BY <3>1
  <2> HIDE DEF I
  <2>3. QED BY <2>1, <2>2
<1>4. SelectInSeq(forest.leaves, LAMBDA l : l = n) = Min(I)
  <2>1. I # {}
    BY <1>3
  <2>2. QED BY <2>1 DEF SelectInSeq
<1>5. Min(I) = s[n] + 1
  <2>1. I \in SUBSET Nat /\ I # {}
    BY <1>1, <1>3
  <2> HIDE DEF I
  <2>2. Min(I) \in I
    BY <2>1, MinIsLeast
  <2>3. QED BY <1>3, <2>2
<1>6. Columns(forest)[n] = GapX * SelectInSeq(forest.leaves, LAMBDA l : l = n)
  BY ColumnsExist DEF Centre
<1>7. QED BY <1>4, <1>5, <1>6

\* Left of a node are the leaves that were there before it; right of it is what comes later and is no deeper.
Placed(ids, x, t, d, s, n) ==
    /\ x[n] \in Int /\ x[n] >= GapX * (s[n] + 1)
    /\ \A m \in ids : t[n] < t[m] /\ d[m] <= d[n] => x[n] <= GapX * s[m]

LEMMA MiddleIsPlaced ==
    ASSUME NEW ids, NEW forest, NEW t, NEW d, NEW s, Whole(ids, forest, t, d, s), NEW n \in ids,
           \A m \in ids : t[n] < t[m] => Placed(ids, Columns(forest), t, d, s, m)
    PROVE  Placed(ids, Columns(forest), t, d, s, n)
<1> DEFINE x == Columns(forest)
<1>1. GapX \in Nat
  BY LayoutAssumption
<1>2. t \in [ids -> Nat] /\ d \in [ids -> Nat] /\ s \in [ids -> Nat]
  BY DEF Whole, Walked, Numbered
<1>3. CASE forest.kids[n] = <<>>
  <2>1. x[n] = GapX * (s[n] + 1)
    BY <1>3, LeafColumn
  <2> HIDE DEF x
  <2>2. x[n] \in Int /\ x[n] >= GapX * (s[n] + 1)
    <3>1. GapX * (s[n] + 1) \in Int
      BY <1>1, <1>2
    <3>2. QED BY <2>1, <3>1
  <2>3. ASSUME NEW m \in ids, t[n] < t[m] PROVE x[n] <= GapX * s[m]
    <3>1. s[n] + Leaf(forest, n) <= s[m]
      BY <2>3 DEF Whole, Numbered
    <3>2. Leaf(forest, n) = 1
      BY <1>3 DEF Leaf
    <3> DEFINE a == s[n] + 1
               b == s[m]
    <3>3. a \in Nat /\ b \in Nat /\ a <= b
      BY <1>2, <3>1, <3>2
    <3> HIDE DEF a, b
    <3>4. GapX * a <= GapX * b
      BY <1>1, <3>3, Scaled
    <3>5. QED BY <2>1, <3>4 DEF a, b
  <2>4. QED BY <2>2, <2>3 DEF Placed, x
<1>4. CASE forest.kids[n] # <<>>
  <2> DEFINE a == Head(forest.kids[n])
             b == Last(forest.kids[n])
  <2>1. x[n] = (x[a] + x[b]) \div 2
    BY <1>4, ColumnsExist DEF Centre
  <2>2. a \in Kids(forest, n) /\ b \in Kids(forest, n)
    <3>1. forest.kids[n] \in Seq(ids)
      BY DEF Whole
    <3>2. /\ Len(forest.kids[n]) \in Nat /\ Len(forest.kids[n]) > 0
          /\ Head(forest.kids[n]) = forest.kids[n][1] /\ Last(forest.kids[n]) = forest.kids[n][Len(forest.kids[n])]
      BY <1>4, <3>1 DEF Last
    <3>3. QED BY <3>2 DEF Kids
  <2> HIDE DEF x, a, b
  <2>3. ASSUME NEW c \in Kids(forest, n)
        PROVE  /\ c \in ids /\ x[c] \in Int /\ x[c] >= GapX * (s[n] + 1)
               /\ \A m \in ids : t[n] < t[m] /\ d[m] <= d[n] => x[c] <= GapX * s[m]
    <3>1. c \in ids /\ forest.parent[c] = n /\ n # 0
      BY <2>3 DEF Whole, Walked
    <3>2. t[n] < t[c] /\ d[c] = d[n] + 1
      <4>1. t[n] < t[c]
        BY <3>1 DEF Whole, Walked
      <4>2. d[c] = IF forest.parent[c] = 0 THEN 0 ELSE d[forest.parent[c]] + 1
        BY <3>1 DEF Whole, Walked
      <4>3. QED BY <3>1, <4>1, <4>2
    <3>3. Placed(ids, x, t, d, s, c)
      BY <3>1, <3>2 DEF x
    <3>4. s[n] <= s[c]
      <4>1. s[n] + Leaf(forest, n) <= s[c]
        BY <3>1, <3>2 DEF Whole, Numbered
      <4>2. Leaf(forest, n) = 0
        BY <1>4 DEF Leaf
      <4>3. QED BY <1>2, <4>1, <4>2
    <3>5. x[c] >= GapX * (s[n] + 1)
      <4> DEFINE l == s[n] + 1
                 h == s[c] + 1
      <4>1. l \in Nat /\ h \in Nat /\ l <= h
        BY <1>2, <3>1, <3>4
      <4>2. x[c] >= GapX * h /\ x[c] \in Int
        BY <3>3 DEF Placed
      <4> HIDE DEF l, h
      <4>3. GapX * l <= GapX * h /\ GapX * l \in Int /\ GapX * h \in Int
        BY <1>1, <4>1, Scaled
      <4> DEFINE gl == GapX * l
                 gh == GapX * h
      <4>4. x[c] >= gl
        <5>1. gl <= gh /\ x[c] >= gh /\ gl \in Int /\ gh \in Int /\ x[c] \in Int
          BY <4>2, <4>3
        <5> HIDE DEF gl, gh
        <5>2. QED BY <5>1
      <4>5. QED BY <4>4 DEF l
    <3>6. ASSUME NEW m \in ids, t[n] < t[m], d[m] <= d[n] PROVE x[c] <= GapX * s[m]
      <4>1. t[c] < t[m]
        BY <2>3, <3>6 DEF Whole, Walked
      <4>2. d[m] <= d[c]
        BY <1>2, <3>1, <3>2, <3>6
      <4>3. QED BY <3>3, <4>1, <4>2 DEF Placed
    <3>7. x[c] \in Int
      BY <3>3 DEF Placed
    <3>8. QED BY <3>1, <3>5, <3>6, <3>7
  <2>4. ASSUME NEW p \in Int, NEW q \in Int
        PROVE  /\ (p + q) \div 2 \in Int
               /\ \A l \in Int : /\ p >= l /\ q >= l => (p + q) \div 2 >= l
                                 /\ p <= l /\ q <= l => (p + q) \div 2 <= l
    OBVIOUS
  <2>5. x[a] \in Int /\ x[b] \in Int /\ x[n] \in Int
    BY <2>1, <2>2, <2>3, <2>4
  <2>6. x[n] >= GapX * (s[n] + 1)
    <3> DEFINE l == GapX * (s[n] + 1)
    <3>1. l \in Int
      BY <1>1, <1>2
    <3>2. x[a] >= l /\ x[b] >= l
      BY <2>2, <2>3
    <3> HIDE DEF l
    <3>3. x[n] >= l
      BY <2>1, <2>4, <2>5, <3>1, <3>2
    <3>4. QED BY <3>3 DEF l
  <2>7. ASSUME NEW m \in ids, t[n] < t[m], d[m] <= d[n] PROVE x[n] <= GapX * s[m]
    <3> DEFINE l == GapX * s[m]
    <3>1. l \in Int
      BY <1>1, <1>2
    <3>2. x[a] <= l /\ x[b] <= l
      BY <2>2, <2>3, <2>7
    <3> HIDE DEF l
    <3>3. x[n] <= l
      BY <2>1, <2>4, <2>5, <3>1, <3>2
    <3>4. QED BY <3>3 DEF l
  <2>8. QED BY <2>5, <2>6, <2>7 DEF Placed, x
<1>5. QED BY <1>3, <1>4

LEMMA LineageIsSpaced ==
    ASSUME NEW nodes, NEW rels, IsGraph(nodes, rels)
    PROVE  SpacedBy(NodeIds(nodes), LineageLayout(nodes, Edges(nodes, rels)), GapX)
<1> DEFINE ids == NodeIds(nodes)
           edges == Edges(nodes, rels)
           forest == Forest(nodes, edges)
           x == Columns(forest)
           at == LineageLayout(nodes, edges)
<1>1. IsFiniteSet(ids) /\ 0 \notin ids /\ ids \subseteq Nat
  BY GraphIsNet DEF IsNet
<1>2. PICK t, d, s : Whole(ids, forest, t, d, s)
  BY <1>1, GraphHasForest, FinishedIsWhole
<1>3. \A n \in ids : at[n] = [x |-> x[n], y |-> d[n]]
  BY <1>2, DepthIs DEF LineageLayout
<1> HIDE DEF ids, edges, forest, x, at
<1>4. t \in [ids -> 0 .. (Cardinality(ids) - 1)] /\ Cardinality(ids) \in Nat /\ d \in [ids -> Nat] /\ s \in [ids -> Nat]
  BY <1>1, <1>2, FS_CardinalityType DEF Whole, Walked, Numbered
<1> DEFINE Bad == {n \in ids : ~Placed(ids, x, t, d, s, n)}
<1>5. Bad = {}
  <2> SUFFICES ASSUME Bad # {} PROVE FALSE
    OBVIOUS
  <2> DEFINE left == {Cardinality(ids) - t[n] : n \in Bad}
  <2>1. left \in SUBSET Nat /\ left # {}
    BY <1>4
  <2>2. PICK n \in Bad : \A m \in Bad : Cardinality(ids) - t[n] <= Cardinality(ids) - t[m]
    <3>1. PICK k \in left : \A j \in left : k <= j
      BY <2>1, LeastOf
    <3>2. QED BY <3>1
  <2>3. ASSUME NEW m \in ids, t[n] < t[m] PROVE Placed(ids, x, t, d, s, m)
    <3>1. SUFFICES ASSUME m \in Bad PROVE FALSE
      OBVIOUS
    <3>2. Cardinality(ids) - t[n] <= Cardinality(ids) - t[m]
      BY <2>2, <3>1
    <3>3. t[n] \in Int /\ t[m] \in Int
      BY <1>4
    <3>4. QED BY <1>4, <2>3, <3>2, <3>3
  <2>4. Placed(ids, x, t, d, s, n)
    BY <1>2, <2>3, MiddleIsPlaced DEF x
  <2>5. QED BY <2>4
<1>6. ASSUME NEW i \in ids, NEW j \in ids, d[i] = d[j], t[i] < t[j] PROVE x[j] - x[i] >= GapX
  <2>1. Placed(ids, x, t, d, s, i) /\ Placed(ids, x, t, d, s, j)
    BY <1>5
  <2> DEFINE a == GapX * s[j]
             b == GapX * (s[j] + 1)
  <2>2. x[i] <= a /\ x[i] \in Int /\ x[j] >= b /\ x[j] \in Int
    BY <1>4, <1>6, <2>1 DEF Placed
  <2>3. a \in Int /\ b = a + GapX /\ GapX \in Nat
    BY <1>4, LayoutAssumption, Scaled
  <2> HIDE DEF a, b
  <2>4. QED BY <2>2, <2>3
<1>7. \A i, j \in ids : i # j => t[i] # t[j]
  BY <1>2 DEF Whole, Walked
<1>8. ASSUME NEW i \in ids, NEW j \in ids, i < j, at[i].y = at[j].y
      PROVE  at[i].x - at[j].x >= GapX \/ at[j].x - at[i].x >= GapX
  <2>1. d[i] = d[j] /\ at[i].x = x[i] /\ at[j].x = x[j]
    <3>1. at[i] = [x |-> x[i], y |-> d[i]] /\ at[j] = [x |-> x[j], y |-> d[j]]
      BY <1>3
    <3>2. at[i].y = d[i] /\ at[j].y = d[j] /\ at[i].x = x[i] /\ at[j].x = x[j]
      BY <3>1
    <3>3. QED BY <1>8, <3>2
  <2>2. t[i] < t[j] \/ t[j] < t[i]
    <3>1. t[i] # t[j] /\ t[i] \in Int /\ t[j] \in Int
      BY <1>1, <1>4, <1>7, <1>8
    <3>2. QED BY <3>1
  <2>3. QED BY <1>6, <2>1, <2>2
<1>9. QED BY <1>8 DEF SpacedBy, ids, at, edges

\* No card lies on another in any of the four profiles, whatever the graph: cards in one row are at least a
\* column apart. (sequence.go, lineage.go, temporal.go, resource.go)
THEOREM EveryLayoutIsSpaced ==
    ASSUME NEW nodes, NEW rels, IsGraph(nodes, rels)
    PROVE  CardsSpaced(nodes, rels)
<1>1. AreNodes(nodes)
  BY DEF AreNodes, IsGraph
<1>2. SpacedBy(NodeIds(nodes), SequenceLayout(nodes, Edges(nodes, rels)), GapX)
  BY SequenceIsSpaced
<1>3. SpacedBy(NodeIds(nodes), LineageLayout(nodes, Edges(nodes, rels)), GapX)
  BY LineageIsSpaced
<1>4. SpacedBy(NodeIds(nodes), TemporalLayout(nodes), CardWidth(nodes))
  BY <1>1, TemporalIsSpaced
<1>5. SpacedBy(NodeIds(nodes), ResourceLayout(nodes), GapX)
  BY <1>1, ResourceIsSpaced
<1>6. QED BY <1>2, <1>3, <1>4, <1>5 DEF CardsSpaced

-----------------------------------------------------------------------------
(* The graphs the program draws: a node per id, relations between any of them. *)

GraphsAreGraphs ==
    study \in {"cards", "graph"} =>
        /\ things \in Seq([id : Nat \ {0}, at : Nat, key : Nat])
        /\ \A i \in DOMAIN things : things[i].id = i
        /\ links \in Seq([from : Nat, to : Nat, rule : Nat])

LEMMA GraphsStay == Spec => []GraphsAreGraphs
<1>1. Init => GraphsAreGraphs
  BY DEF Init, GraphsAreGraphs
<1>2. GraphsAreGraphs /\ [Next]_vars => GraphsAreGraphs'
  <2> SUFFICES ASSUME GraphsAreGraphs, [Next]_vars, study' \in {"cards", "graph"} PROVE GraphsAreGraphs'
    BY DEF GraphsAreGraphs
  <2>1. CASE Card
    <3>1. PICK at \in {Untimed, 1, 2, 4}, key \in {NoValue, 1, 2} :
              things' = Append(things, [id |-> Len(things) + 1, at |-> at, key |-> key])
      BY <2>1 DEF Card, Add, NextId
    <3>2. UNCHANGED <<study, links>>
      BY <2>1 DEF Card, Add
    <3>3. at \in Nat /\ key \in Nat
      BY DEF Untimed, NoValue
    <3> DEFINE card == [id |-> Len(things) + 1, at |-> at, key |-> key]
    <3>4. things \in Seq([id : Nat \ {0}, at : Nat, key : Nat]) /\ \A i \in DOMAIN things : things[i].id = i
      BY <3>2 DEF GraphsAreGraphs
    <3>5. card \in [id : Nat \ {0}, at : Nat, key : Nat] /\ card.id = Len(things) + 1
      BY <3>3, <3>4
    <3> HIDE DEF card
    <3>6. things' \in Seq([id : Nat \ {0}, at : Nat, key : Nat])
      BY <3>1, <3>4, <3>5 DEF card
    <3>7. ASSUME NEW i \in DOMAIN things' PROVE things'[i].id = i
      <4>1. things' = Append(things, card)
        BY <3>1 DEF card
      <4>2. QED BY <3>4, <3>5, <4>1
    <3>8. QED BY <3>2, <3>6, <3>7 DEF GraphsAreGraphs
  <2>2. CASE FourNodes
    <3>1. PICK ats \in {<<1, 2, 3, 4>>, <<4, 3, 2, 1>>} :
              things' = [i \in 1 .. 4 |-> [id |-> i, at |-> ats[i], key |-> NoValue]]
      BY <2>2 DEF FourNodes
    <3>2. UNCHANGED <<study, links>>
      BY <2>2 DEF FourNodes
    <3>3. \A i \in 1 .. 4 : ats[i] \in Nat
      OBVIOUS
    <3>4. things' \in Seq([id : Nat \ {0}, at : Nat, key : Nat])
      BY <3>1, <3>3 DEF NoValue
    <3>5. QED BY <3>1, <3>2, <3>4 DEF GraphsAreGraphs
  <2>3. CASE Relate
    <3>1. PICK i \in 0 .. 19 :
              links' = Append(links, [from |-> Pair(i)[1], to |-> Pair(i)[2], rule |-> i % 3])
      BY <2>3 DEF Relate
    <3>2. UNCHANGED <<study, things>>
      BY <2>3 DEF Relate
    <3>3. Pair(i)[1] \in Nat /\ Pair(i)[2] \in Nat /\ i % 3 \in Nat
      BY DEF Pair
    <3>4. QED BY <3>1, <3>2, <3>3 DEF GraphsAreGraphs
  <2>4. CASE UNCHANGED vars
    BY <2>4 DEF GraphsAreGraphs, vars
  <2>5. ~LogEvent /\ ~TimedEvent /\ ~ProcessEvent /\ ~Row /\ ~Link /\ ~RuleLine
    BY DEF LogEvent, TimedEvent, ProcessEvent, Row, Link, RuleLine, Add
  <2>6. QED BY <2>1, <2>2, <2>3, <2>4, <2>5 DEF Next
<1>3. QED BY <1>1, <1>2, PTL DEF Spec

LEMMA StudiedGraph ==
    ASSUME GraphsAreGraphs, study \in {"cards", "graph"}
    PROVE  IsGraph(Nodes, links)
<1>1. things \in Seq([id : Nat \ {0}, at : Nat, key : Nat]) /\ \A i \in DOMAIN things : things[i].id = i
  BY DEF GraphsAreGraphs
<1>2. Nodes = {things[i] : i \in 1 .. Len(things)}
  BY <1>1 DEF Nodes, ToSet
<1>3. IsFiniteSet(Nodes)
  <2>1. IsFiniteSet(1 .. Len(things))
    BY <1>1, FS_Interval
  <2>2. things \in Surjection(1 .. Len(things), Nodes)
    BY <1>1, <1>2 DEF Surjection
  <2>3. QED BY <2>1, <2>2, FS_Surjection
<1>4. Nodes \subseteq [id : Nat \ {0}, at : Nat, key : Nat]
  <2> DEFINE R == [id : Nat \ {0}, at : Nat, key : Nat]
  <2>1. things \in Seq(R)
    BY <1>1
  <2> HIDE DEF R
  <2>2. \A i \in 1 .. Len(things) : things[i] \in R
    BY <2>1
  <2>3. QED BY <1>2, <2>2 DEF R
<1>5. ASSUME NEW n \in Nodes, NEW m \in Nodes, n.id = m.id PROVE n = m
  <2>1. PICK i \in DOMAIN things, j \in DOMAIN things : n = things[i] /\ m = things[j]
    BY <1>1, <1>2
  <2>2. QED BY <1>1, <1>5, <2>1
<1>6. links \in Seq([from : Nat, to : Nat, rule : Nat])
  BY DEF GraphsAreGraphs
<1>7. QED BY <1>3, <1>4, <1>5, <1>6 DEF IsGraph

\* No card lies on another in any profile, in whatever graph is drawn.
THEOREM NothingIsEverOnTop == Spec => []NothingOnTop
<1>1. GraphsAreGraphs => NothingOnTop
  BY StudiedGraph, EveryLayoutIsSpaced DEF NothingOnTop
<1>2. QED BY <1>1, GraphsStay, PTL

\* The columns of the sequence profile and the trees of the lineage profile follow the edges of whatever
\* graph is drawn.
THEOREM ColumnsAlwaysFollowEdges == Spec => []ColumnsFollowEdges
<1>1. GraphsAreGraphs => ColumnsFollowEdges
  BY StudiedGraph, EveryColumnIsOrdered, EveryTreeFollowsEdges DEF ColumnsFollowEdges
<1>2. QED BY <1>1, GraphsStay, PTL

\* Every graph that is looked at is clustered whole.
THEOREM ClustersAreAlwaysWhole == Spec => []ClustersAreWhole
<1>1. GraphsAreGraphs => ClustersAreWhole
  BY StudiedGraph, EveryClusteringCovers DEF ClustersAreWhole
<1>2. QED BY <1>1, GraphsStay, PTL
=============================================================================
