----------------------------- MODULE GraphLayout -----------------------------
(* Where the canvas puts the nodes of a graph, and which it groups             *)
(* (backend/graphlayout): four profiles and three clusterings of a set of      *)
(* nodes and a sequence of relations, which may name nodes that are not there. *)
EXTENDS SequencesExt, Ordering

CONSTANTS GapX,      \* width of a column, in units fine enough to halve for each level of a tree
          Span       \* width of the time axis

ASSUME LayoutAssumption == GapX \in Nat /\ Span \in Nat

Untimed == 0         \* the time of a node that has none
NoValue == 0         \* a correlation field a node does not carry
NoRule == 0          \* the rule of a relation drawn by hand

NodeIds(nodes) == {n.id : n \in nodes}
\* The order every profile falls back to: by time, the undated last, and by id.
Precedes(n, m) ==
    \/ n.at # Untimed /\ m.at = Untimed
    \/ (n.at = Untimed) = (m.at = Untimed) /\ (n.at < m.at \/ (n.at = m.at /\ n.id < m.id))
InOrder(nodes) == Ordered(nodes, Precedes)

\* The structure: each pair once, without loops and without ends that are not on the canvas.
Edges(nodes, rels) ==
    {<<r.from, r.to>> : r \in {x \in ToSet(rels) : x.from # x.to /\ {x.from, x.to} \subseteq NodeIds(nodes)}}
Before(n, edges) == {e[1] : e \in {x \in edges : x[2] = n}}
After(n, edges) == {e[2] : e \in {x \in edges : x[1] = n}}
Known(f) == DOMAIN f

\* n steps of a computation, from a state.
Steps(n, state, Do(_)) == FoldLeft(LAMBDA st, i : Do(st), state, [i \in 1 .. n |-> i])
NoFunction == [x \in {} |-> 0]
Extended(f, x, y) == [z \in DOMAIN f \cup {x} |-> IF z = x THEN y ELSE f[z]]

-----------------------------------------------------------------------------
(* Sequence: a column for each rank. A node is ranked when all before it are,  *)
(* the lowest id first; where none can be, the lowest id that is left is.      *)

\* Mutant: a node is one step after the nearest node before it.
RankShortest(st, n, edges) ==
    LET behind == {st.rank[p] + 1 : p \in Before(n, edges) \cap Known(st.rank)}
    IN IF behind = {} THEN 0 ELSE Min(behind)
Rank(st, n, edges) == Max({0} \cup {st.rank[p] + 1 : p \in Before(n, edges) \cap Known(st.rank)})
RankNext(ids, edges, st) ==
    LET left  == ids \ Known(st.rank)
        ready == {n \in left : Before(n, edges) \subseteq Known(st.rank)}
        n     == Min(IF ready = {} THEN left ELSE ready)
    IN [rank |-> Extended(st.rank, n, Rank(st, n, edges)),
        broken |-> IF ready = {} THEN st.broken \cup {n} ELSE st.broken]
Ranking(ids, edges) ==
    Steps(Cardinality(ids), [rank |-> NoFunction, broken |-> {}], LAMBDA st : RankNext(ids, edges, st))

SequenceLayout(nodes, edges) ==
    LET rank == Ranking(NodeIds(nodes), edges).rank
        row(n) == Cardinality({m \in nodes : rank[m.id] = rank[n.id] /\ Precedes(m, n)})
    IN [id \in NodeIds(nodes) |->
           LET n == CHOOSE x \in nodes : x.id = id IN [x |-> GapX * rank[id], y |-> row(n)]]

-----------------------------------------------------------------------------
(* Lineage: a forest. The nodes nothing points at are roots, the earliest      *)
(* first; a node takes, when it is reached, those of its successors that no    *)
(* other has taken. Where only cycles are left the lowest id is a root.        *)

ForestNext(nodes, edges, st) ==
    LET ids   == NodeIds(nodes)
        taken == Known(st.parent)
        roots == {n \in nodes : n.id \notin taken /\ Before(n.id, edges) = {}}
        root  == IF roots # {} THEN InOrder(roots)[1].id ELSE Min(ids \ taken)
        begin == IF st.stack # <<>> THEN st
                 ELSE [st EXCEPT !.stack = <<root>>, !.parent = Extended(@, root, 0),
                                 !.forced = IF roots = {} THEN @ \cup {root} ELSE @]
        n     == Head(begin.stack)
        kids  == InOrder({m \in nodes : m.id \in After(n, edges) \ Known(begin.parent)})
    IN [begin EXCEPT !.stack = [i \in DOMAIN kids |-> kids[i].id] \o Tail(@),
                     !.kids = Extended(@, n, [i \in DOMAIN kids |-> kids[i].id]),
                     !.parent = [m \in DOMAIN @ \cup {k.id : k \in ToSet(kids)} |->
                                    IF m \in DOMAIN @ THEN @[m] ELSE n],
                     !.leaves = IF kids = <<>> THEN Append(@, n) ELSE @]
Forest(nodes, edges) ==
    Steps(Cardinality(nodes),
          [stack |-> <<>>, parent |-> NoFunction, kids |-> NoFunction, leaves |-> <<>>, forced |-> {}],
          LAMBDA st : ForestNext(nodes, edges, st))
Depth(forest) ==
    LET d[n \in DOMAIN forest.parent] == IF forest.parent[n] = 0 THEN 0 ELSE d[forest.parent[n]] + 1 IN d
\* A leaf takes the next column, a node is centred over its children.
Centre(forest, x, n) ==
    IF forest.kids[n] = <<>> THEN GapX * SelectInSeq(forest.leaves, LAMBDA l : l = n)
    ELSE (x[Head(forest.kids[n])] + x[Last(forest.kids[n])]) \div 2
Columns(forest) == LET x[n \in DOMAIN forest.parent] == Centre(forest, x, n) IN x
LineageLayout(nodes, edges) ==
    LET forest == Forest(nodes, edges)
    IN [id \in NodeIds(nodes) |-> [x |-> Columns(forest)[id], y |-> Depth(forest)[id]]]

-----------------------------------------------------------------------------
(* Time: along the axis, in the first lane whose last card has ended; the      *)
(* undated in a tray below. Lengths are multiplied by the range, to be whole.  *)

Dated(nodes) == {n \in nodes : n.at # Untimed}
First(nodes) == Min({n.at : n \in Dated(nodes)})
TimeRange(nodes) == Max({n.at : n \in Dated(nodes)}) - First(nodes)
AxisX(nodes, n) == Span * (n.at - First(nodes))
CardWidth(nodes) == GapX * (IF Dated(nodes) = {} THEN 1 ELSE Max({TimeRange(nodes), 1}))

\* The lane a card takes: the first whose last card ends at or before x.
\* Mutant: a lane is free once its last card has begun.
FreeLaneAt(ends, x, width) == {l \in DOMAIN ends : x >= ends[l] - width}
FreeLane(ends, x, width) == {l \in DOMAIN ends : x >= ends[l]}
LaneNext(nodes, st, n) ==
    LET x    == AxisX(nodes, n)
        free == FreeLane(st.ends, x, CardWidth(nodes))
        lane == IF free = {} THEN Len(st.ends) + 1 ELSE Min(free)
    IN [ends |-> IF free = {} THEN Append(st.ends, x + CardWidth(nodes))
                 ELSE [st.ends EXCEPT ![lane] = x + CardWidth(nodes)],
        at |-> Extended(st.at, n.id, [x |-> x, y |-> lane])]
Lanes(nodes) ==
    FoldLeft(LAMBDA st, n : LaneNext(nodes, st, n), [ends |-> <<>>, at |-> NoFunction], InOrder(Dated(nodes)))
TemporalLayout(nodes) ==
    LET lanes == Lanes(nodes)
        tray(id) == Cardinality({n \in nodes \ Dated(nodes) : n.id < id})
    IN [id \in NodeIds(nodes) |->
           IF id \in DOMAIN lanes.at THEN lanes.at[id]
           ELSE [x |-> CardWidth(nodes) * tray(id), y |-> Len(lanes.ends) + 2]]

-----------------------------------------------------------------------------
(* Resource: a column for each value of a field, in the order the values are   *)
(* first seen, then by value; those without one in a last column.              *)

WithValue(nodes, v) == {n \in nodes : n.key = v}
ValueBefore(nodes, v, w) ==
    LET seen(u) == {n.at : n \in Dated(WithValue(nodes, u))}
    IN \/ seen(v) # {} /\ seen(w) = {}
       \/ (seen(v) = {}) = (seen(w) = {}) /\ (IF seen(v) = {} \/ Min(seen(v)) = Min(seen(w)) THEN v < w
                                             ELSE Min(seen(v)) < Min(seen(w)))
ColumnOrder(nodes) ==
    Ordered({n.key : n \in nodes} \ {NoValue}, LAMBDA v, w : ValueBefore(nodes, v, w))
    \o (IF WithValue(nodes, NoValue) = {} THEN <<>> ELSE <<NoValue>>)
ResourceLayout(nodes) ==
    [id \in NodeIds(nodes) |->
        LET n == CHOOSE x \in nodes : x.id = id
        IN [x |-> GapX * SelectInSeq(ColumnOrder(nodes), LAMBDA v : v = n.key),
            y |-> Cardinality({m \in WithValue(nodes, n.key) : Precedes(m, n)})]]

-----------------------------------------------------------------------------
(* Clusters.                                                                   *)

\* Union-find, relation by relation: the root a node is under, and the union of two by size. A
\* find shortens the path it has taken, which no later find can tell.
Root(parent, n) == LET up[m \in DOMAIN parent] == IF parent[m] = m THEN m ELSE up[parent[m]] IN up[n]
\* Mutant: the node itself is hung on the other, not its root.
UnionOfNodes(parent, a, b) == [parent EXCEPT ![b] = Root(parent, a)]
Union(parent, a, b) ==
    LET size(r) == Cardinality({n \in DOMAIN parent : Root(parent, n) = r})
        ra == Root(parent, a)
        rb == Root(parent, b)
    IN IF size(ra) < size(rb) THEN [parent EXCEPT ![ra] = rb] ELSE [parent EXCEPT ![rb] = ra]
Components(nodes, rels) ==
    LET parent == FoldLeft(LAMBDA p, r : IF {r.from, r.to} \subseteq NodeIds(nodes) THEN Union(p, r.from, r.to) ELSE p,
                           [id \in NodeIds(nodes) |-> id], rels)
    IN {{m \in NodeIds(nodes) : Root(parent, m) = Root(parent, n)} : n \in NodeIds(nodes)}

\* The nodes each rule's relations touch, which may overlap, and those no rule touches.
TouchedBy(nodes, rels, rule) ==
    {id \in NodeIds(nodes) : \E r \in ToSet(rels) : r.rule = rule /\ id \in {r.from, r.to}}
RuleClusters(nodes, rels) ==
    LET rules == {r.rule : r \in ToSet(rels)} \ {NoRule}
    IN ({TouchedBy(nodes, rels, q) : q \in rules}
           \cup {NodeIds(nodes) \ UNION {TouchedBy(nodes, rels, q) : q \in rules}}) \ {{}}
SlotClusters(nodes) == {NodeIds(WithValue(nodes, v)) : v \in {n.key : n \in nodes}}

-----------------------------------------------------------------------------
(* What the layouts and clusterings promise of any graph.                      *)

IsGraph(nodes, rels) ==
    /\ IsFiniteSet(nodes) /\ nodes \subseteq [id : Nat \ {0}, at : Nat, key : Nat]
    /\ \A n, m \in nodes : n.id = m.id => n = m
    /\ rels \in Seq([from : Nat, to : Nat, rule : Nat])

\* Two cards in one row are at least a width apart.
SpacedBy(ids, at, width) ==
    \A i, j \in ids : i < j /\ at[i].y = at[j].y => at[i].x - at[j].x >= width \/ at[j].x - at[i].x >= width
CardsSpaced(nodes, rels) ==
    LET ids   == NodeIds(nodes)
        edges == Edges(nodes, rels)
    IN /\ SpacedBy(ids, SequenceLayout(nodes, edges), GapX)
       /\ SpacedBy(ids, LineageLayout(nodes, edges), GapX)
       /\ SpacedBy(ids, TemporalLayout(nodes), CardWidth(nodes))
       /\ SpacedBy(ids, ResourceLayout(nodes), GapX)

Circular(S, edges) == S # {} /\ \A n \in S : Before(n, edges) \cap S # {}
Cyclic(ids, edges) == \E S \in SUBSET ids : Circular(S, edges)
\* An edge leads right unless it leads into a node a column was started from; that only happens
\* on a cycle, and without one a column is a longest path.
ColumnsOrdered(nodes, rels) ==
    LET ids     == NodeIds(nodes)
        edges   == Edges(nodes, rels)
        ranking == Ranking(ids, edges)
    IN /\ \A e \in edges : ranking.rank[e[1]] < ranking.rank[e[2]] \/ e[2] \in ranking.broken
       /\ ranking.broken # {} <=> Cyclic(ids, edges)
       /\ ~Cyclic(ids, edges) =>
             \A n \in ids : ranking.rank[n] > 0 =>
                 \E p \in Before(n, edges) : ranking.rank[p] = ranking.rank[n] - 1
\* Each node hangs under one that points at it, or is a root: nothing points at it, or there is a cycle.
TreesFollowEdges(nodes, rels) ==
    LET ids    == NodeIds(nodes)
        edges  == Edges(nodes, rels)
        forest == Forest(nodes, edges)
    IN /\ DOMAIN forest.parent = ids
       /\ forest.forced # {} => Cyclic(ids, edges)
       /\ \A n \in ids : IF forest.parent[n] # 0 THEN <<forest.parent[n], n>> \in edges
                          ELSE n \in forest.forced \/ Before(n, edges) = {}

\* A set of nodes no relation leads out of.
Closed(ids, rels, S) == \A r \in ToSet(rels) : {r.from, r.to} \subseteq ids => (r.from \in S <=> r.to \in S)
\* A component is closed and nothing smaller in it is; every clustering covers the nodes.
ClustersCover(nodes, rels) ==
    LET ids == NodeIds(nodes)
    IN /\ \A C \in Components(nodes, rels) :
              Closed(ids, rels, C) /\ \A S \in SUBSET C : Closed(ids, rels, S) => S \in {{}, C}
       /\ \A clusters \in {Components(nodes, rels), RuleClusters(nodes, rels), SlotClusters(nodes)} :
              UNION clusters = ids /\ {} \notin clusters
=============================================================================
