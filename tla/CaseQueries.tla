----------------------------- MODULE CaseQueries -----------------------------
(* What the queries of a case return (backend/graphene): the events list and   *)
(* its count, the timeline and the relations over time drawn on top of it. A   *)
(* query is a record of filters; what it asks of the findings is resolved to   *)
(* sets of content hashes first (api_events.go).                               *)
EXTENDS Integers, SequencesExt, CaseFindings, Ordering

CONSTANT MaxLanes        \* maxTimelineLanes
ASSUME MaxLanesAssumption == MaxLanes \in Nat

NoTime == 0              \* an event without one; the index has it before every time
Unbounded == -1          \* a bound a query does not set
LaneNone == 0            \* the lane of what has no value
LaneOther == -1          \* the lane the smallest are folded into

-----------------------------------------------------------------------------
(* Which events a query matches.                                               *)

\* The sets of hashes a question about the findings keeps an event to, and the one it keeps it out of.
HashesIn(recs, q) ==
    (IF q.state \in {"", "none"} THEN {} ELSE {Keys(recs, q.state)})
        \cup {KeysWithTag(recs, t) : t \in q.tag}
HashesOut(recs, q) == IF q.state = "none" THEN DOMAIN recs ELSE {}

\* What the index answers by itself, and what is decided event by event.
Indexed(q, e) ==
    /\ q.event # "" => e.event = q.event
    /\ q.from # Unbounded => e.at >= q.from
    /\ q.to # Unbounded => e.at <= q.to
MatchesHash(recs, q, e) ==
    /\ \A S \in HashesIn(recs, q) : e.hash \in S
    /\ e.hash \notin HashesOut(recs, q)
MatchesUndated(q, e) ==
    CASE q.undated = "only" -> e.at = NoTime
      [] q.undated = "include" -> TRUE
      [] OTHER -> e.at # NoTime
\* The events with a relation of the kind asked for; any other word asks for nothing.
Related(rels, q) ==
    LET asked == {r \in rels : q.relation = "any" \/ r.by = q.relation}
    IN {r.from : r \in asked} \cup {r.to : r \in asked}
MatchingRows(events, rels, recs, q) ==
    {e \in events : /\ Indexed(q, e)
                    /\ q.relation \in {"any", "system", "user"} => e.id \in Related(rels, q)
                    /\ q.source # "" => e.source = q.source
                    /\ q.least > 0 => Max({e.copies, 1}) >= q.least
                    /\ MatchesHash(recs, q, e) /\ MatchesUndated(q, e)}

\* In order of time either way, the undated at the end, and by id.
RowBefore(descending, e, f) ==
    \/ e.at # NoTime /\ f.at = NoTime
    \/ (e.at = NoTime) = (f.at = NoTime) /\
          IF e.at = f.at THEN e.id < f.id ELSE IF descending THEN e.at > f.at ELSE e.at < f.at
OrderedIDs(events, rels, recs, q) ==
    LET rows == Ordered(MatchingRows(events, rels, recs, q), LAMBDA e, f : RowBefore(q.descending, e, f))
    IN [i \in DOMAIN rows |-> rows[i].id]
\* limit = 0 is to the end.
WindowIDs(ids, offset, limit) ==
    SubSeq(ids, offset + 1, IF limit > 0 THEN Min({offset + limit, Len(ids)}) ELSE Len(ids))

\* Without a filter that is decided event by event the index counts, and the hashes are not
\* among those it looks for.
\* Mutant: nor is how the undated are to be treated.
OnlyIndexedFilters(q) == q.source = "" /\ q.least = 0 /\ q.relation = ""
FastPath(q) == q.source = "" /\ q.least = 0 /\ q.relation = "" /\ q.undated = "include"
CountEvents(events, rels, recs, q) ==
    IF FastPath(q) THEN Cardinality({e \in events : Indexed(q, e)})
    ELSE Len(OrderedIDs(events, rels, recs, q))

-----------------------------------------------------------------------------
(* Slices of time. Both drawings use the same ones.                            *)

Slices(from, to, count) ==
    LET width == (to - from) \div count
        n     == IF to <= from \/ width = 0 THEN 1 ELSE count
    IN [from |-> from, to |-> to, width |-> width, count |-> n]
\* Mutant: an instant at the end of the range is in a slice past the last.
SliceUnclamped(s, t) == IF s.count = 1 THEN 0 ELSE (t - s.from) \div s.width
SliceOf(s, t) ==
    LET i == IF t >= s.from THEN (t - s.from) \div s.width ELSE -((s.from - t) \div s.width)
    IN IF s.count = 1 THEN 0 ELSE IF i < 0 THEN -1 ELSE Min({i, s.count - 1})

\* The largest lanes, and the rest folded into one: how much of each lane is in each slice. A
\* placed thing has a time, an id and the lanes it is in.
Counts(s, things, lane) ==
    [i \in 0 .. s.count - 1 |-> Cardinality({x \in things : SliceOf(s, x.at) = i /\ lane \in x.lanes})]
Total(counts) == SumFunction(counts)
BusierLane(s, things, l, m) ==
    LET a == Total(Counts(s, things, l))
        b == Total(Counts(s, things, m))
    IN a > b \/ (a = b /\ l < m)
LaneOrder(s, things) ==
    Ordered(UNION {x.lanes : x \in {y \in things : SliceOf(s, y.at) >= 0}},
            LAMBDA l, m : BusierLane(s, things, l, m))
BuildLanes(s, things) ==
    LET order  == LaneOrder(s, things)
        lane(l) == [key |-> l, counts |-> Counts(s, things, l)]
        folded == SubSeq(order, MaxLanes + 1, Len(order))
        other  == [key |-> LaneOther,
                   counts |-> [i \in 0 .. s.count - 1 |->
                                  Total([j \in DOMAIN folded |-> Counts(s, things, folded[j])[i]])]]
    IN [i \in 1 .. Min({Len(order), MaxLanes}) |-> lane(order[i])]
       \o (IF folded = <<>> THEN <<>> ELSE <<other>>)

-----------------------------------------------------------------------------
(* The timeline of a query's events, whatever it says of the undated.          *)

LaneKey(rels, group, e) ==
    LET graphs == {r.graph : r \in {x \in rels : e.id \in {x.from, x.to}}} \ {0}
    IN IF group # "graph" THEN {IF group = "computer" THEN e.computer ELSE LaneNone}
       ELSE IF graphs = {} THEN {LaneNone} ELSE graphs
Histogram(s, things) == [i \in 0 .. s.count - 1 |-> Cardinality({x \in things : SliceOf(s, x.at) = i})]
NoTimeline(undated) == [dated |-> 0, undated |-> undated, counts |-> <<>>, lanes |-> <<>>]
TimelineGrouped(events, rels, recs, q, count, group) ==
    LET rows  == MatchingRows(events, rels, recs, [q EXCEPT !.undated = "include"])
        dated == {e \in rows : e.at # NoTime}
        first == Min({e.at : e \in dated})
        last  == Max({e.at : e \in dated})
        s == Slices(IF q.from # Unbounded THEN Max({q.from, first}) ELSE first,
                    IF q.to # Unbounded THEN Min({q.to, last}) ELSE last, count)
    IN IF dated = {} THEN NoTimeline(Cardinality(rows))
       ELSE [dated |-> Cardinality(dated), undated |-> Cardinality(rows \ dated),
             counts |-> Histogram(s, dated),
             lanes |-> IF group = "" THEN <<>>
                       ELSE BuildLanes(s, {[id |-> e.id, at |-> e.at, lanes |-> LaneKey(rels, group, e)] : e \in dated})]

-----------------------------------------------------------------------------
(* The relations of a graph, or of the case, over time: a relation stands at   *)
(* its later end, and has no place without a time for both.                    *)

RelationTime(events, r) ==
    LET at(id) == {e.at : e \in {x \in events : x.id = id}} \ {NoTime}
    IN IF at(r.from) = {} \/ at(r.to) = {} THEN NoTime ELSE Max(at(r.from) \cup at(r.to))
\* The end it stands at, the first of two at one time.
Anchor(events, r) ==
    CHOOSE e \in events : /\ e.at = RelationTime(events, r)
                          /\ e.id = r.from \/ (e.id = r.to /\ \A f \in events : f.id = r.from => f.at < e.at)
HeatmapKey(events, group, r) ==
    CASE group = "rule" -> r.rule
      [] group = "computer" -> Anchor(events, r).computer
      [] OTHER -> LaneNone
RelationHeatmap(events, rels, graph, from, to, count, group) ==
    LET of      == {r \in rels : graph = 0 \/ r.graph = graph}
        timed   == {r \in of : RelationTime(events, r) # NoTime}
        outside == {r \in timed : \/ from # Unbounded /\ RelationTime(events, r) < from
                                  \/ to # Unbounded /\ RelationTime(events, r) > to}
        placed  == {[id |-> r.id, at |-> RelationTime(events, r), lanes |-> {HeatmapKey(events, group, r)}]
                       : r \in timed \ outside}
        s == Slices(IF from # Unbounded THEN from ELSE Min({x.at : x \in placed}),
                    IF to # Unbounded THEN to ELSE Max({x.at : x \in placed}), count)
    IN [total |-> Cardinality(of), undated |-> Cardinality(of \ timed), outside |-> Cardinality(outside),
        placed |-> Cardinality(placed),
        counts |-> IF placed = {} THEN <<>> ELSE Histogram(s, placed),
        lanes |-> IF placed = {} THEN <<>> ELSE BuildLanes(s, placed)]
=============================================================================
