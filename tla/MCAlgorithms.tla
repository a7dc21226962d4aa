---------------------------- MODULE MCAlgorithms ----------------------------
(* Every small log, graph and case the pure algorithms can be given: a study   *)
(* is chosen at the start and what it looks at grows by one element at a time, *)
(* so every input up to the bounds is a state, and each property compares what *)
(* an algorithm makes of it with what it should be.                            *)
EXTENDS RuleFormat, GraphLayout, CaseQueries

CONSTANTS MaxLog,         \* events of a log that rules are matched in
          MaxProcesses,   \* events of a log of processes
          MaxCards,       \* nodes of a graph without relations
          MaxLinks,       \* relations of a graph
          MaxCase,        \* events and relations of a case that is queried
          MaxLines,       \* lines of a rule file
          h1, h2, tag     \* content hashes and a label
ASSUME LogBounds == MaxLog \in Nat

VARIABLES study,    \* what is looked at
          things,   \* events or nodes, in the order they came
          links     \* relations
vars == <<study, things, links>>

Studies == {"sequences", "windows", "processes", "cards", "graph", "case", "rules"}
Init == study \in Studies /\ things = <<>> /\ links = <<>>

NextId == Len(things) + 1
Latest == IF things = <<>> THEN 1 ELSE Last(things).at
Add(thing) == things' = Append(things, thing) /\ UNCHANGED <<study, links>>

\* Events of two kinds and hosts, some undated, some late, some without the field to share.
NoKeys == [logon |-> Absent, new |-> Absent, pid |-> Absent, parent |-> Absent]
LogEvent ==
    /\ study = "sequences" /\ Len(things) < MaxLog
    /\ \E kind \in {"a", "b"}, at \in {Undated, NextId, MaxLog},
          who \in {<<1, 1>>, <<1, 2>>, <<1, Absent>>, <<2, 1>>} :
           /\ at = Undated => who = <<1, 1>> /\ things = <<>>
           /\ Add([id |-> NextId, at |-> at, event |-> kind, computer |-> who[1],
                   keys |-> [NoKeys EXCEPT !.logon = who[2]]])
\* Events of three kinds on one host, more or less close to each other.
TimedEvent ==
    /\ study = "windows" /\ Len(things) < MaxLog
    /\ \E kind \in {"a", "b", "c"}, gap \in 0 .. 2 :
           Add([id |-> NextId, at |-> Latest + gap, event |-> kind, computer |-> 1, keys |-> NoKeys])
\* Processes of two numbers, created as two providers write it and ended, some at one instant.
ProcessEvent ==
    /\ study = "processes" /\ Len(things) < MaxProcesses
    /\ \E kind \in {"create", "exit"}, gap \in 0 .. 1, pid \in {1, 2}, other \in {1, 2, Absent} :
           /\ kind = "exit" => other = Absent
           /\ \E keys \in {[NoKeys EXCEPT !.pid = pid, !.parent = other],
                           [NoKeys EXCEPT !.new = pid, !.pid = other]} :
                  Add([id |-> NextId, at |-> Latest + gap, event |-> kind, computer |-> 1, keys |-> keys])

\* Nodes with times and values; and four nodes in the order of time or against it, related pair by pair.
Card ==
    /\ study = "cards" /\ Len(things) < MaxCards
    /\ \E at \in {Untimed, 1, 2, 4}, key \in {NoValue, 1, 2} : Add([id |-> NextId, at |-> at, key |-> key])
FourNodes ==
    /\ study = "graph" /\ things = <<>> /\ UNCHANGED <<study, links>>
    /\ \E ats \in {<<1, 2, 3, 4>>, <<4, 3, 2, 1>>} :
           things' = [i \in 1 .. 4 |-> [id |-> i, at |-> ats[i], key |-> NoValue]]
Pair(i) == <<(i \div 5) + 1, (i % 5) + 1>>          \* the fifth node is not on the canvas
Code(r) == (r.from - 1) * 5 + r.to - 1
Relate ==
    /\ study = "graph" /\ things # <<>> /\ Len(links) < MaxLinks
    /\ \E i \in 0 .. 19 :
           /\ links # <<>> => i > Code(Last(links))
           /\ links' = Append(links, [from |-> Pair(i)[1], to |-> Pair(i)[2], rule |-> i % 3])
    /\ UNCHANGED <<study, things>>

\* Events of a case, then relations between them, of a graph or of none.
Row ==
    /\ study = "case" /\ Len(things) < MaxCase - 1 /\ links = <<>>
    /\ \E at \in {NoTime, 1, 5}, what \in {<<"4624", "f1", 0, h1>>, <<"4624", "f2", 3, h2>>,
                                           <<"4688", "f1", 2, h2>>} :
           Add([id |-> NextId, at |-> at, event |-> what[1], source |-> what[2], copies |-> what[3],
                hash |-> what[4], computer |-> NextId])
Link ==
    /\ study = "case" /\ Len(things) + Len(links) < MaxCase
    /\ \E from, to \in DOMAIN things, graph \in 0 .. 2 :
           links' = Append(links, [id |-> Len(links) + 1, from |-> from, to |-> to, graph |-> graph,
                                   rule |-> graph, by |-> IF graph = 0 THEN "user" ELSE "system"])
    /\ UNCHANGED <<study, things>>

\* Rule files line by line, in one order of the fields, one of them twice: every value a field may
\* have and some it may not. A line that is refused is the last one.
MCDurations == [text \in {"0s", "1m", "2m", "31d"} |->
                    CASE text = "0s" -> 0 [] text = "1m" -> 1 [] text = "2m" -> 2 [] text = "31d" -> 9]
Line(key, value) == [key |-> key, value |-> value]
RuleLines ==
    <<Line("name", Padded("r")), Line("name", Padded("")),
      Line("algorithm", Text("field")), Line("algorithm", Padded("temporal")),
      Line("algorithm", Text("lineage")), Line("algorithm", Padded("")), Line("algorithm", Text("magic")),
      Line("sequence", <<Text("a")>>), Line("sequence", <<Padded("a"), Text("b")>>),
      Line("sequence", <<Text("a"), Padded("")>>), Line("sequence", <<Text("a"), Text("b"), Text("a")>>),
      Line("sequence", <<Text("a"), Text("a"), Text("a"), Text("a")>>),
      Line("sequence", <<Text("a"), Text("b"), Text("a"), Text("b"), Text("a")>>),
      Line("match_fields", <<Text("pid"), Padded("logon")>>),
      Line("match_fields", <<Text("pid"), Padded("pid")>>), Line("match_fields", <<Text("colour")>>),
      Line("match_scope", Padded("global")), Line("match_scope", Text("planet")),
      Line("window_within", Text("0s")), Line("window_within", Padded("1m")),
      Line("window_within", Text("2m")), Line("window_within", Text("31d")), Line("window_within", Text("soon")),
      Line("window_total", Text("1m")), Line("window_total", Padded("2m")),
      Line("lineage_create_ids", <<Padded("a"), Text("b")>>), Line("lineage_create_ids", <<Text("")>>),
      Line("lineage_depth", 1), Line("lineage_depth", -1), Line("lineage_depth", MaxDepth + 1),
      Line("labels", <<Padded("l")>>), Line("labels", <<Text("l"), Text("l"), Text("l")>>),
      Line("format_version", 2), Line("channels", <<Padded("")>>), Line("colour", Text("red"))>>
File == [i \in DOMAIN things |-> RuleLines[things[i]]]
RuleLine ==
    /\ study = "rules" /\ Len(things) < MaxLines
    /\ \A p \in Problems(Decode(File)) : Lines(File, p[1]) = {}
    /\ \E i \in DOMAIN RuleLines :
           /\ IF things = <<>> THEN RuleLines[i].key = "name"
              ELSE /\ i > Last(things)
                   /\ RuleLines[i].key = RuleLines[Last(things)].key => RuleLines[i].key = "sequence"
           /\ Add(i)

Next == LogEvent \/ TimedEvent \/ ProcessEvent \/ Card \/ FourNodes \/ Relate \/ Row \/ Link \/ RuleLine
Spec == Init /\ [][Next]_vars

-----------------------------------------------------------------------------
(* Correlation.                                                                *)

Rule(algorithm, seq, scope, slots, within, total) ==
    [algorithm |-> algorithm, seq |-> seq, scope |-> scope, slots |-> slots, within |-> within,
     total |-> total, depth |-> 0]
OrderRules ==
    UNION {{Rule("sequence", <<"a", "b">>, scope, {}, 0, 0), Rule("sequence", <<"a", "b", "a">>, scope, {}, 0, 0),
            Rule("field", <<"a", "b">>, scope, {"logon"}, 0, 0)} : scope \in {"computer", "global"}}
WindowRules ==
    UNION {{Rule("temporal", <<"a", "b">>, "computer", {}, w[1], w[2]),
            Rule("temporal", <<"a", "b", "c">>, "computer", {}, w[1], w[2])} : w \in {1, 2} \X {0, 2, 3}}

Candidates(rule, events) == {S \in kSubset(Len(rule.seq), events) : IsMatch(rule, S)}
IsLargestPacking(rule, events, n) ==
    LET all == Candidates(rule, events)
    IN /\ \E P \in kSubset(n, all) : Packing(rule, P)
       /\ ~ \E P \in kSubset(n + 1, all) : Packing(rule, P)
\* What a rule joins is what it says it joins - the events in the order and within the time it
\* asks for, of one host and with the same values, none of them missing - the matches it counts
\* do not overlap, and no way of choosing them would have found one more. (autograph: a single
\* sweep without backtracking, earliest for sequences and latest within a window.)
MatchesAreMaximal ==
    study \in {"sequences", "windows"} =>
        LET dated == {e \in ToSet(things) : e.at # Undated}
        IN \A rule \in IF study = "sequences" THEN OrderRules ELSE WindowRules :
            LET result == Generate(rule, things)
            IN /\ \A m \in ToSet(result.matches) : IsMatch(rule, ToSet(m)) /\ Chain(ToSet(m)) = m
               /\ IsLargestPacking(rule, dated, Len(result.matches) + result.dropped)

\* Each process is joined to the process that had its parent's number at the moment it was
\* created, and each of those to its own, however the numbers were used again; and to none where
\* the number was free. (lineage.go finds them by a search in each number's lifetimes.)
LineageIsReplay ==
    study = "processes" =>
        Replays([Rule("lineage", <<>>, "computer", {}, 0, 0) EXCEPT !.depth = 1], Prepare(things))

-----------------------------------------------------------------------------
(* Rule files.                                                                 *)

\* The pattern a rule asks for, found once: its events with a gap between each two, or a process
\* and its parent; the last of them like the others, or odd in one respect.
Pattern(s) ==
    IF RequiresSequence(AlgorithmOf(s)) THEN [i \in DOMAIN s.sequence |-> s.sequence[i].body]
    ELSE LET ids == SetToSeq(CreateIDs(s)) IN <<ids[1], Last(ids)>>
PatternKeys(s, i, logon) ==
    [k \in Slots \cup DOMAIN NoKeys |->
        IF k = "logon" THEN logon ELSE IF RequiresSequence(AlgorithmOf(s)) THEN 1
        ELSE IF k = "new" THEN i ELSE IF k = "pid" THEN i - 1 ELSE Absent]
PatternLog(s, gap, odd) ==
    [i \in DOMAIN Pattern(s) |->
        LET is(what) == i = Len(Pattern(s)) /\ odd = what
        IN [id |-> i, at |-> 1 + (i - 1) * gap, event |-> Text(Pattern(s)[i]),
            computer |-> IF is("host") THEN 2 ELSE 1,
            keys |-> PatternKeys(s, i, IF is("missing") THEN Absent ELSE IF is("value") THEN 2 ELSE 1)]]
\* As the documents have it: a sequence rule is matched on one host, whatever its match_scope.
AsksFor(s, gap, odd) ==
    /\ odd = "host" => ScopeOf(s) = "global" /\ AlgorithmOf(s) # "sequence"
    /\ odd \in {"value", "missing"} /\ AlgorithmOf(s) \in {"field", "temporal"} =>
           \A i \in DOMAIN s.match_fields : s.match_fields[i].body # "logon"
    /\ AlgorithmOf(s) = "temporal" =>
           /\ gap <= Length(s.window_within)
           /\ ~IsBlank(s.window_total) => gap * (Len(s.sequence) - 1) <= Length(s.window_total)
Finds(s, log) == Evaluate(s, log).matches # <<>>
\* A window rule of four steps or more that names an event twice and bounds the whole: temporal.go
\* measures that from a later event (README, Known divergences).
Retraced(s) ==
    /\ AlgorithmOf(s) = "temporal" /\ ~IsBlank(s.window_total) /\ Len(s.sequence) > 3
    /\ \E i, j \in DOMAIN s.sequence : i # j /\ s.sequence[i].body = s.sequence[j].body

\* A sequence rule of the global scope, and an event of another host: sequence.go joins them (README,
\* Known divergences).
CrossesHosts(s, odd) == AlgorithmOf(s) = "sequence" /\ ScopeOf(s) = "global" /\ odd = "host"

\* A rule that is accepted does what its file says: what the loader keeps of it is accepted again
\* and kept as it is, the engine does not refuse it, and it finds its own pattern exactly when the
\* gaps, the hosts and the values are the ones asked for, to the last unit; a field it is warned to
\* have no use for changes nothing of that. Reformatting a file, accepted or not, leaves the rule.
\* (validate.go and normalize of rules.go on one side, the algorithms' own checks on the other.)
\* Two cases are excepted, in which the code does not do what is written: Retraced, CrossesHosts.
AcceptedRulesRunAsWritten ==
    study = "rules" =>
        LET s    == Decode(File)
            kept == Normalize(s)
        IN /\ Decode(Pretty(File)) = s /\ Advisories(Pretty(File)) = Advisories(File)
           /\ Accepted(s) =>
                 /\ Accepted(kept) /\ Normalize(kept) = kept
                 /\ \A case \in (0 .. 3) \X {""} \cup {1} \X {"host", "value", "missing"} :
                        LET log   == PatternLog(s, case[1], case[2])
                            found == Evaluate(kept, log)
                        IN /\ \/ Retraced(s) \/ CrossesHosts(s, case[2])
                              \/ found.matches # <<>> <=> AsksFor(s, case[1], case[2])
                           /\ \A f \in Inert(s) :
                                  Evaluate([kept EXCEPT ![f] = Zero[f]], log) = found

\* Violated, in no run: a sequence rule stays on one host whatever its match_scope. (RULES.md:169,
\* consts.go:751; sequence.go:33 partitions by it, and no advisory says that it has no use.)
SequencesStayOnHosts ==
    study = "rules" =>
        LET s == Decode(File)
        IN Accepted(s) /\ AlgorithmOf(s) = "sequence" => ~Finds(Normalize(s), PatternLog(s, 1, "host"))

-----------------------------------------------------------------------------
(* Layouts and clusters.                                                       *)

Nodes == ToSet(things)
\* No card is drawn on another: whichever profile is chosen, two nodes in one row are at least a
\* column apart - and a card's width on the time axis, which lanes are for - also when some have
\* no time, no value, no relation, or only relations in a circle. (graphlayout, all profiles.)
NothingOnTop == study \in {"cards", "graph"} => CardsSpaced(Nodes, links)

\* The columns of the sequence profile can be read as an order: an edge leads right unless it
\* leads into a node the layout had to start a column from, it starts one only where the graph
\* has a cycle, and without a cycle each column is a longest path. The lineage profile hangs each
\* node under one that points at it, and starts from others only where there is a cycle.
\* (graphlayout/sequence.go and lineage.go, on any graph.)
ColumnsFollowEdges ==
    study = "graph" => ColumnsOrdered(Nodes, links) /\ TreesFollowEdges(Nodes, links)

\* A cluster by components is all that hangs together and nothing else, and no clustering leaves a
\* node out. (graphlayout/clusters.go; relations come in the order of their ends here, in any
\* order in LayoutProofs.)
ClustersAreWhole == study \in {"cards", "graph"} => ClustersCover(Nodes, links)

-----------------------------------------------------------------------------
(* Queries.                                                                    *)

Found == [flagged |-> TRUE, tags |-> {tag}, noted |-> FALSE]
Records == [k \in {h1} |-> Found]
Query(event, source, least, relation, undated, from, to) ==
    [event |-> event, source |-> source, least |-> least, relation |-> relation, undated |-> undated,
     from |-> from, to |-> to, state |-> "", tag |-> {}, descending |-> FALSE]
Plain == Query("", "", 0, "", "exclude", Unbounded, Unbounded)
Queries ==
    {[Plain EXCEPT !.undated = u] : u \in {"exclude", "include", "only"}}
    \cup {Query("4624", "f1", 0, "", "include", Unbounded, 4), Query("", "", 2, "any", "include", 1, Unbounded),
          [Plain EXCEPT !.relation = "user", !.descending = TRUE], [Plain EXCEPT !.state = "none"],
          [Plain EXCEPT !.state = "flagged", !.tag = {tag}], [Plain EXCEPT !.from = 1, !.to = 3, !.undated = "include"]}
\* Relations matter to queries about them only; the others have been asked before the first relation.
Asked == IF links = <<>> THEN Queries ELSE {q \in Queries : q.relation # ""}
LaneTotals(lanes) == Total([l \in DOMAIN lanes |-> Total(lanes[l].counts)])

\* Every view of one query agrees on what it matches: the count is the length of the list, its
\* pages put together are the list, the timeline places each dated event of it once and says how
\* many it could not, and its lanes - capped, the smallest folded into one - add up to it; the
\* relations over time account for each relation, placed, outside or without a time.
\* (graphene_query.go, graphene_timeline.go, graphene_heatmap.go.) Not for the hashes of the
\* findings together with undated events, where the count of the index ignores them.
QueriesAgree ==
    study = "case" =>
        LET rows == ToSet(things)
            rels == ToSet(links)
            all(q) == MatchingRows(rows, rels, Records, [q EXCEPT !.undated = "include"])
        IN /\ \A q \in Asked :
                  LET line == TimelineGrouped(rows, rels, Records, q, 3, "computer")
                      list == OrderedIDs(rows, rels, Records, q)
                  IN /\ CountEvents(rows, rels, Records, q) = Len(list)
                     /\ WindowIDs(list, 0, 2) \o WindowIDs(list, 2, 0) = list
                     /\ line.dated + line.undated = Cardinality(all(q))
                     /\ q.undated = "exclude" => line.dated = Len(list)
                     /\ LaneTotals(line.lanes) = line.dated /\ Total(line.counts) = line.dated
           /\ LET line == TimelineGrouped(rows, rels, Records, Plain, 2, "graph")
              IN LaneTotals(line.lanes) >= line.dated
           /\ \A g \in {0, 1}, by \in {"rule", "computer"}, to \in {Unbounded, 3} :
                  LET heat == RelationHeatmap(rows, rels, g, Unbounded, to, 3, by)
                  IN /\ heat.placed + heat.outside + heat.undated = heat.total
                     /\ LaneTotals(heat.lanes) = heat.placed /\ Total(heat.counts) = heat.placed
=============================================================================
