----------------------------- MODULE Correlation -----------------------------
(* What a correlation rule makes of the events of a case (backend/autograph):  *)
(* the dataset every rule of a build shares, the four algorithms, and the cap  *)
(* on matches. A match is the sequence of the events it joins: an edge is      *)
(* drawn between each two neighbours or, where the rule is about lineage, from *)
(* each ancestor of the first to it.                                           *)
EXTENDS Integers, SequencesExt, Ordering

CONSTANT MaxMatches      \* consts.AutoGraphMaxMatches
ASSUME MaxMatchesAssumption == MaxMatches \in Nat \ {0}

Undated == 0             \* the time of an event that has none
Absent == 0              \* the value of a key an event does not carry
Never == -1              \* the end of a process that is still there

-----------------------------------------------------------------------------
(* The dataset: the dated events in order of time, in one group for each       *)
(* computer or in one for the case.                                            *)

Earlier(e, f) == e.at < f.at \/ (e.at = f.at /\ e.id < f.id)
Prepare(events) == Ordered({e \in ToSet(events) : e.at # Undated}, Earlier)

\* What carries a label, in one part for each value of it: the parts in an order of the values,
\* each of them in order of time.
PartsBy(label, Before(_, _)) ==
    LET values == Ordered(Range(label), Before)
    IN [i \in DOMAIN values |-> Ordered({e \in DOMAIN label : label[e] = values[i]}, Earlier)]
Groups(ds, scope) ==
    IF scope # "global" THEN PartsBy([e \in ToSet(ds) |-> e.computer], LAMBDA a, b : a < b)
    ELSE IF ds = <<>> THEN <<>> ELSE <<ds>>

\* An event without a value for a field that must be shared takes no part; the rest are in one
\* bucket for each combination of values, in the order the combinations first appear.
KeyOf(e, slots) == [s \in slots |-> e.keys[s]]
Keyed(group, slots) == {e \in ToSet(group) : \A s \in slots : e.keys[s] # Absent}
AppearsBefore(label, v, w) ==
    \E e \in DOMAIN label : label[e] = v /\ \A f \in DOMAIN label : label[f] = w => Earlier(e, f)
Buckets(group, slots) ==
    LET label == [e \in Keyed(group, slots) |-> KeyOf(e, slots)]
    IN PartsBy(label, LAMBDA v, w : AppearsBefore(label, v, w))

\* The matchers work on positions in a group; these are the events they stand for.
AsEvents(events, found) == [m \in DOMAIN found |-> [s \in DOMAIN found[m] |-> events[found[m][s]]]]

-----------------------------------------------------------------------------
(* Matching a sequence in one group: the earliest event for each step, and the *)
(* next match begins after the last event of this one.                         *)

Accept(seq, events, st, i) ==
    LET chain == Append(st.chain, i)
    IN IF events[i].event # seq[Len(st.chain) + 1] THEN st
       ELSE IF Len(chain) < Len(seq) THEN [st EXCEPT !.chain = chain]
       ELSE [chain |-> <<>>, found |-> Append(st.found, chain)]
Sweep(seq, events) ==
    AsEvents(events, FoldLeftDomain(LAMBDA st, i : Accept(seq, events, st, i),
                                    [chain |-> <<>>, found |-> <<>>], events).found)

-----------------------------------------------------------------------------
(* Matching within a window: one sweep that keeps, for each step, the last     *)
(* event that completed it and the event its previous step was completed by.   *)
(* Indices into the group; 0 is none.                                          *)

Fresh(seq) == [last |-> [s \in DOMAIN seq |-> 0], prev |-> [s \in DOMAIN seq |-> 0], found |-> <<>>]

\* The event a chain ends in at step s, at index i, was begun by.
AnchorOf(prev, s, i) ==
    LET at[k \in 0 .. s - 1] ==
            IF k = 0 THEN i ELSE IF prev[s - k + 1] = 0 THEN at[k - 1] ELSE prev[s - k + 1]
    IN at[s - 1]

\* Event i completes step s of a chain; total = 0 is no bound on the whole of it.
Completes(rule, events, st, i, s) ==
    /\ events[i].event = rule.seq[s]
    /\ s > 1 => /\ st.last[s - 1] # 0
                /\ events[i].at - events[st.last[s - 1]].at <= rule.within
                /\ rule.total > 0 =>
                       events[i].at - events[AnchorOf(st.prev, s - 1, st.last[s - 1])].at <= rule.total

\* A step remembers the last event that completed it.
\* Mutant: the first.
RemembersFirst(done, i, old) == IF done /\ old = 0 THEN i ELSE old
Remembers(done, i, old) == IF done THEN i ELSE old
\* The steps are visited from the last to the first, so each sees what the earlier events left.
Visit(rule, events, st, i) ==
    LET done(s) == Completes(rule, events, st, i, s)
        n    == Len(rule.seq)
        last == [s \in DOMAIN rule.seq |-> Remembers(done(s), i, st.last[s])]
        prev == [s \in DOMAIN rule.seq |->
                    IF last[s] # i THEN st.prev[s] ELSE IF s = 1 THEN 0 ELSE st.last[s - 1]]
        \* walked back through the pointers as they are now
        chain == [s \in 1 .. n |-> IF s = n THEN i ELSE prev[s + 1]]
    IN IF last[n] # i THEN [st EXCEPT !.last = last, !.prev = prev]
       ELSE [Fresh(rule.seq) EXCEPT !.found = Append(st.found, chain)]
Windowed(rule, events) ==
    AsEvents(events, FoldLeftDomain(LAMBDA st, i : Visit(rule, events, st, i), Fresh(rule.seq), events).found)

-----------------------------------------------------------------------------
(* Process ancestry: a process number names a process only from its creation   *)
(* to its exit or to the next creation under that number.                      *)

ChildPid(e) == IF e.keys.new # Absent THEN e.keys.new ELSE e.keys.pid
ParentPid(e) ==
    IF e.keys.parent # Absent THEN e.keys.parent
    ELSE IF e.keys.new # Absent THEN e.keys.pid ELSE Absent

Created(events, pid) == {i \in DOMAIN events : events[i].event = "create" /\ ChildPid(events[i]) = pid}
EndOf(events, i) ==
    LET ends == {j \in DOMAIN events : /\ j > i /\ events[j].event \in {"create", "exit"}
                                       /\ ChildPid(events[j]) = ChildPid(events[i])}
    IN IF ends = {} THEN Never ELSE events[Min(ends)].at

\* The creation of the process that had the number at the time, 0 if none had.
\* Mutant: the last process of that number, whether or not it had ended.
ResolveLatest(events, pid, t) == Max({0} \cup {i \in Created(events, pid) : events[i].at <= t})
Resolve(events, pid, t) ==
    LET i == Max({0} \cup {j \in Created(events, pid) : events[j].at <= t})
    IN IF i # 0 /\ EndOf(events, i) # Never /\ t >= EndOf(events, i) THEN 0 ELSE i

\* The creator of event e's process, then its creator, and so on, at most depth of them beyond.
ParentOf(events, e) ==
    IF ParentPid(e) = Absent THEN 0 ELSE Resolve(events, ParentPid(e), e.at)
Ancestors(events, e, depth) ==
    LET up[d \in 0 .. depth] ==
            IF d = 0 THEN ParentOf(events, e)
            ELSE IF up[d - 1] = 0 THEN 0 ELSE ParentOf(events, events[up[d - 1]])
        known == Min({d \in 0 .. depth : up[d] = 0} \cup {depth + 1})
    IN [d \in 1 .. known |-> up[d - 1]]
\* The children in order of time, which is the order of the events.
Lineage(rule, events) ==
    LET children == Ordered({e \in ToSet(events) : e.event = "create" /\ ParentOf(events, e) # 0}, Earlier)
    IN [i \in DOMAIN children |->
           LET up == Ancestors(events, children[i], rule.depth)
           IN <<children[i]>> \o [d \in DOMAIN up |-> events[up[d]]]]
Unresolved(events) ==
    {i \in DOMAIN events : /\ events[i].event = "create" /\ ParentPid(events[i]) # Absent
                           /\ ParentOf(events, events[i]) = 0}

-----------------------------------------------------------------------------
\* All a rule matches, in the order it finds it.
Matches(rule, group) ==
    CASE rule.algorithm = "sequence" -> Sweep(rule.seq, group)
      [] rule.algorithm = "field" ->
             LET buckets == Buckets(group, rule.slots)
             IN FlattenSeq([b \in DOMAIN buckets |-> Sweep(rule.seq, buckets[b])])
      [] rule.algorithm = "temporal" ->
             LET buckets == Buckets(group, rule.slots)
             IN FlattenSeq([b \in DOMAIN buckets |-> Windowed(rule, buckets[b])])
      [] rule.algorithm = "lineage" -> Lineage(rule, group)
\* The rule's edges are those of its first matches; the rest are counted.
Generate(rule, events) ==
    LET groups == Groups(Prepare(events), rule.scope)
        all    == FlattenSeq([g \in DOMAIN groups |-> Matches(rule, groups[g])])
        kept   == Min({Len(all), MaxMatches})
    IN [matches |-> SubSeq(all, 1, kept), dropped |-> Len(all) - kept]

-----------------------------------------------------------------------------
(* What a match is, for any way of finding it.                                 *)

\* A set of events that may be a match of the rule, in the order of time.
Chain(S) == Ordered(S, Earlier)
IsMatch(rule, S) ==
    LET c == Chain(S)
    IN /\ Len(c) = Len(rule.seq) /\ \A s \in DOMAIN c : c[s].event = rule.seq[s]
       /\ \A e, f \in S : rule.scope = "global" \/ e.computer = f.computer
       /\ \A e, f \in S : KeyOf(e, rule.slots) = KeyOf(f, rule.slots)
       /\ \A e \in S, k \in rule.slots : e.keys[k] # Absent
       /\ rule.algorithm = "temporal" =>
             /\ \A s \in 2 .. Len(c) : c[s].at - c[s - 1].at <= rule.within
             /\ rule.total > 0 => c[Len(c)].at - c[1].at <= rule.total
\* Two matches of one group do not overlap in time order: one ends before the other begins.
SameGroup(rule, S, T) ==
    \A e \in S, f \in T : /\ rule.scope = "global" \/ e.computer = f.computer
                          /\ KeyOf(e, rule.slots) = KeyOf(f, rule.slots)
Apart(S, T) ==
    \/ \A e \in S, f \in T : Earlier(e, f)
    \/ \A e \in S, f \in T : Earlier(f, e)
Packing(rule, P) == \A S, T \in P : S = T \/ ~SameGroup(rule, S, T) \/ Apart(S, T)

-----------------------------------------------------------------------------
(* What a line of processes is, for any way of finding it.                     *)

\* The process each number stands for after the events up to a time, by replaying them.
TableAt(events, pids, t) ==
    FoldLeftDomain(LAMBDA table, i :
                       IF events[i].at > t \/ events[i].event \notin {"create", "exit"} THEN table
                       ELSE [table EXCEPT ![ChildPid(events[i])] = IF events[i].event = "create" THEN i ELSE 0],
                   [pid \in pids |-> 0], events)
\* Each process is behind the one that had its parent's number at the moment it was created, that
\* one behind its own, as deep as the rule asks, and it is in no line where the number was free.
Replays(rule, events) ==
    LET pids == {ChildPid(e) : e \in ToSet(events)} \cup {ParentPid(e) : e \in ToSet(events)}
        creator(e) == IF ParentPid(e) = Absent THEN 0 ELSE TableAt(events, pids, e.at)[ParentPid(e)]
        lines == ToSet(Lineage(rule, events))
    IN /\ \A e \in ToSet(events) : (e.event = "create" /\ creator(e) # 0) <=> \E l \in lines : l[1] = e
       /\ \A l \in lines, k \in 2 .. rule.depth + 2 :
              IF k \in DOMAIN l THEN l[k] = events[creator(l[k - 1])]
              ELSE k > Len(l) + 1 \/ creator(l[k - 1]) = 0
=============================================================================
