--------------------------- MODULE CaseFilesProofs ---------------------------
(* Proofs about the calls that read and write the files of a case, for any     *)
(* case, any number of calls beside each other, and any failing reads, failing *)
(* writes and restarts.                                                        *)
(*                                                                             *)
(* The case check tells what is wrong all the time it runs, and what it tells  *)
(* falsely is explained by a change between two reads. A detector with two     *)
(* reads remembers what the first has seen: what is wrong throughout is wrong  *)
(* at both, and could only be lost if an id came to mean something else in     *)
(* between, and ids are not given out twice. What is found falsely was right   *)
(* at the first read or at the second, so something was taken away or brought  *)
(* in.                                                                         *)
(*                                                                             *)
(* What was acknowledged as saved stays: the copy of the notes in memory holds *)
(* what the file holds, so the next call writes it again, and a free id is     *)
(* found for every snapshot, so none overwrites another. A restore keeps the   *)
(* events as it read them; while the case has an event of such an id, it is    *)
(* the same event, and until something disturbs the restore all are there.     *)
EXTENDS CaseIntegrity, Snapshots, FiniteSetTheorems, SequenceTheorems, WellFoundedInduction, TLAPS

Relations == [id : Nat, graph : Nat, from : Nat, to : Nat, indexed : BOOLEAN]
Events == [id : Nat, hash : Hashes, current : BOOLEAN, ref : Nat]
Stages == {"none", "relations", "layout", "snapshots", "notes"}

\* The ids of a case: each is given out once, and what refers to it comes later.
CaseShape ==
    /\ {log, stored, drawn, made} \subseteq Nat
    /\ events \subseteq Events
    /\ \A e \in events : e.id <= stored /\ e.ref <= log
    /\ rels \subseteq Relations
    /\ \A r \in rels : r.id <= drawn /\ r.graph <= made
    /\ \A r, q \in rels : r.id = q.id => r = q
    /\ graphs \subseteq 1 .. made
    /\ layouts \in [GraphIds -> SUBSET (SUBSET Nat)]
    /\ deletion \in [graph : Nat, stage : Stages]
    /\ deletion.stage # "none" => deletion.graph \notin graphs /\ deletion.graph <= made

\* What an edit of the case may do between two reads.
Channels == {e.hash : e \in events}
Grown ==
    /\ log <= log' /\ drawn <= drawn'
    /\ \A r \in rels' : \/ r.id > drawn
                        \/ \E q \in rels : /\ q.id = r.id /\ q.graph = r.graph
                                           /\ q.from = r.from /\ q.to = r.to
    /\ log # log' => \A e \in events' : e.ref < log'
    /\ ~(Channels' \subseteq Channels) => ~(Ids' \subseteq Ids)
    /\ \A g \in graphs' \ graphs, r \in rels' : r.graph # g
    /\ \A g \in LaidOut \ LaidOut' : g \notin graphs

-----------------------------------------------------------------------------
(* The check                                                                   *)

\* The stages at which the report of a detector is complete.
AfterOwners    == {"rules", "done"}
AfterGraphs    == {"files", "owners"} \cup AfterOwners
AfterFindings  == {"counts", "registered"} \cup AfterGraphs
AfterEndpoints == {"keys", "hashes"} \cup AfterFindings
AfterIndex     == {"relations", "endpoints"} \cup AfterEndpoints
AfterSize      == {"inventory", "edges", "index"} \cup AfterIndex
WithInventory  == AfterSize \ {"inventory", "done"}
AllStages      == {"idle", "used", "size"} \cup AfterSize

CheckShape ==
    /\ check = [at |-> check.at, stale |-> check.stale, inv |-> check.inv, set |-> check.set,
                found |-> check.found, failed |-> check.failed, unmeasured |-> check.unmeasured,
                uncounted |-> check.uncounted]
    /\ check.at \in AllStages
    /\ check.at # "done" => check.uncounted = {}
    /\ check.at \in {"idle", "used", "size", "inventory"} => check.inv = {}
\* What is wrong with the case, as this build sees it.
Wrong == Problems(check.stale)

Always(code, x) == <<code, x>> \in always
Reported(code) ==
    \A x : Always(code, x) => Told(<<code, x>>) \/ (code = "payloadTail" /\ check.unmeasured)

\* What the first read of a detector remembers of the problems that last.
TailSeen ==
    check.at = "size" =>
        /\ check.set \subseteq Nat
        /\ \A x : Always("payloadTail", x) => x = 0 /\ TailBehind(check.set)
InventorySeen ==
    check.at \in WithInventory /\ "edges" \notin check.failed =>
        /\ \A x : Always("staleProjection", x) => x = 0 /\ \E i \in check.inv : i.outdated
        /\ \A x : Always("missingChannel", x) => x \in {r \in Rules : \E i \in check.inv : r.step \notin i.channels}
        /\ \A x : Always("ruleBlocked", x) => x \in {r \in Rules : \E i \in check.inv : Keyless(r, i)}
EdgesSeen == check.at = "index" => \A x : Always("unindexed", x) => x \in check.set
RelationsSeen ==
    check.at = "endpoints" =>
        /\ \A q \in check.set : q.id \in Nat /\ q.id <= drawn
        /\ \A q \in check.set, r \in rels : q.id = r.id => q.from = r.from /\ q.to = r.to
        /\ \A x : Always("dangling", x) => \E q \in check.set : q.id = x
KeysSeen ==
    check.at = "hashes" => ~check.stale /\ \A x : Always("orphanFindings", x) => x \in check.set
CountsSeen ==
    check.at = "registered" => \A x : /\ Always("orphanGraph", x) => x \in check.set
                                      /\ Always("emptyGraph", x) => x \notin check.set
FilesSeen == check.at = "owners" => \A x : Always("orphanLayout", x) => x \in check.set
SecondSeen == TailSeen /\ EdgesSeen /\ RelationsSeen /\ KeysSeen /\ CountsSeen /\ FilesSeen
Seen == InventorySeen /\ SecondSeen

\* What the report of a detector that is over says of them.
AllTold ==
    /\ check.at \in AfterSize => Reported("payloadTail")
    /\ check.at \in AfterIndex => Reported("unindexed")
    /\ check.at \in AfterEndpoints => Reported("dangling")
    /\ check.at \in AfterFindings => Reported("orphanFindings") /\ Reported("staleFindings")
    /\ check.at \in AfterGraphs => Reported("orphanGraph") /\ Reported("emptyGraph")
    /\ check.at \in AfterOwners => Reported("orphanLayout")
    /\ check.at = "done" => \A code \in {"staleProjection", "missingChannel", "ruleInert",
                                         "ruleBlocked"} : Reported(code)

LastingInv ==
    /\ CaseShape /\ CheckShape
    /\ check.at # "idle" => always \subseteq Wrong
    /\ Seen /\ AllTold

\* A problem is a pair.
Codes == {"unindexed", "dangling", "orphanFindings", "staleFindings", "orphanGraph", "emptyGraph",
          "orphanLayout", "payloadTail", "staleProjection", "missingChannel", "ruleInert", "ruleBlocked"}
Pairs(S) == \A p \in S : \E code \in Codes : \E x : p = <<code, x>>

\* What is told has been wrong, or is excused by what has happened meanwhile.
Ever(code, x) == <<code, x>> \in ever
Missed(code, what) == <<code, what>> \in during
Explained(S) == Pairs(S) /\ \A code, x : <<code, x>> \in S => Ever(code, x) \/ Excused(<<code, x>>)

\* What the first read of a detector remembers is still so, or has been wrong, or is excused.
TailHeld ==
    check.at = "size" => check.set \subseteq Nat /\ (TailBehind(check.set) => Ever("payloadTail", 0))
InventoryHeld ==
    check.at \in WithInventory =>
        \A i \in check.inv :
            /\ i.outdated => Ever("staleProjection", 0)
            /\ \A r \in Rules :
                  /\ r.step \notin i.channels => Ever("missingChannel", r)
                  /\ Keyless(r, i) =>
                        Inert(r) \/ Ever("ruleBlocked", r) \/ Missed("ruleBlocked", "eventStored")
EdgesHeld ==
    check.at = "index" =>
        \A x \in check.set : (\E r \in rels : r.id = x) \/ Missed("unindexed", "relationDeleted")
RelationsHeld ==
    check.at = "endpoints" =>
        \A q \in check.set :
            Ever("dangling", q.id) \/ {q.from, q.to} \subseteq Ids \/ Missed("dangling", "eventDeleted")
KeysHeld ==
    check.at = "hashes" =>
        /\ ~check.stale
        /\ \A x \in check.set :
              \/ Ever("orphanFindings", x)
              \/ /\ x \in DOMAIN finds \/ Missed("orphanFindings", "findingRemoved")
                 /\ x \in Channels \/ Missed("orphanFindings", "eventDeleted")
CountsHeld ==
    check.at = "registered" =>
        /\ \A g \in check.set :
              \/ Ever("orphanGraph", g)
              \/ /\ (\E r \in rels : r.graph = g) \/ Missed("orphanGraph", "relationDeleted")
                 /\ g \in graphs \/ Missed("orphanGraph", "graphUnregistered")
        /\ \A g \in graphs \ check.set : Ever("emptyGraph", g)
FilesHeld ==
    check.at = "owners" => \A g \in check.set : g \in LaidOut \/ Ever("orphanLayout", g)
SecondHeld == TailHeld /\ EdgesHeld /\ RelationsHeld /\ KeysHeld /\ CountsHeld /\ FilesHeld

RacesInv ==
    /\ CaseShape /\ CheckShape
    /\ check.at # "idle" => Wrong \subseteq ever
    /\ Explained(check.found)
    /\ InventoryHeld /\ SecondHeld

-----------------------------------------------------------------------------
(* The case                                                                    *)

LEMMA InitCaseShape == InitCase => CaseShape
<1>1. SUFFICES ASSUME InitCase PROVE CaseShape
  OBVIOUS
<1>2. /\ Len(FirstEvents) \in Nat /\ DOMAIN FirstEvents = 1 .. Len(FirstEvents)
      /\ \A i \in DOMAIN FirstEvents : FirstEvents[i] \in Hashes
  BY FirstCaseAssumption
<1>3. /\ {log, stored, drawn, made} \subseteq Nat
      /\ events \subseteq Events
      /\ \A e \in events : e.id <= stored /\ e.ref <= log
  <2>1. /\ stored = Len(FirstEvents) /\ log = stored /\ drawn = Cardinality(FirstRels) /\ made = 1
        /\ events = {[id |-> i, hash |-> FirstEvents[i], current |-> FALSE, ref |-> i]
                        : i \in DOMAIN FirstEvents}
    BY <1>1 DEF InitCase
  <2>2. \A i \in DOMAIN FirstEvents : i \in Nat /\ i <= Len(FirstEvents)
    BY <1>2
  <2>3. ASSUME NEW e \in events PROVE e \in Events /\ e.id <= stored /\ e.ref <= log
    <3>1. PICK i \in DOMAIN FirstEvents :
              e = [id |-> i, hash |-> FirstEvents[i], current |-> FALSE, ref |-> i]
      BY <2>1
    <3>2. QED BY <1>2, <2>1, <2>2, <3>1 DEF Events
  <2>4. QED BY <1>2, <2>1, <2>3, FirstCaseAssumption
<1>4. /\ rels \subseteq Relations
      /\ \A r \in rels : r.id <= drawn /\ r.graph <= made
      /\ \A r, q \in rels : r.id = q.id => r = q
  BY <1>1, FirstCaseAssumption DEF InitCase, Relations
<1>5. graphs \subseteq 1 .. made /\ deletion \in [graph : Nat, stage : Stages] /\ deletion.stage = "none"
  BY <1>1 DEF InitCase, NoDeletion, Stages
<1>6. layouts \in [GraphIds -> SUBSET (SUBSET Nat)]
  BY <1>1, <1>2 DEF InitCase
<1>7. QED BY <1>3, <1>4, <1>5, <1>6 DEF CaseShape

LEMMA EditFilesStep == ASSUME CaseShape, EditFiles PROVE CaseShape' /\ Grown
<1>1. UNCHANGED <<graphs, made, events, stored, log, rels, drawn, deletion>>
  BY DEF EditFiles, storeVars
<1>2. /\ layouts' \in [GraphIds -> SUBSET (SUBSET Nat)]
      /\ LaidOut \subseteq LaidOut'
  <2>1. CASE UNCHANGED layouts
    BY <2>1 DEF CaseShape, LaidOut
  <2>2. ASSUME NEW g \in 1 .. made, SaveLayout(g, Ids) PROVE <1>2!1 /\ <1>2!2
    <3>1. Ids \subseteq Nat
      BY DEF CaseShape, Events, Ids
    <3>2. layouts' = [layouts EXCEPT ![g] = {Ids}]
      BY <2>2 DEF SaveLayout
    <3>3. QED BY <3>1, <3>2 DEF CaseShape, LaidOut
  <2>3. QED BY <2>1, <2>2 DEF EditFiles, SetFinding, RemoveFinding, PersistFindings
<1>3. CaseShape'
  BY <1>1, <1>2 DEF CaseShape
<1>4. Channels' = Channels /\ Ids' = Ids
  BY <1>1 DEF Channels, Ids
<1>5. QED BY <1>1, <1>2, <1>3, <1>4 DEF CaseShape, Grown

LEMMA EditStoreStep == ASSUME CaseShape, EditStore PROVE CaseShape' /\ Grown
<1>1. UNCHANGED <<graphs, made, layouts, deletion>>
  BY DEF EditStore, fileVars
<1>2. LaidOut' = LaidOut
  BY <1>1 DEF LaidOut
<1>3. CASE WritePayload
  <2>1. log' = log + 1 /\ UNCHANGED <<events, stored, rels, drawn>>
    BY <1>3 DEF WritePayload
  <2>2. Channels' = Channels /\ Ids' = Ids
    BY <2>1 DEF Channels, Ids
  <2>3. CaseShape'
    BY <1>1, <2>1 DEF CaseShape, Events
  <2>4. QED BY <1>1, <1>2, <2>1, <2>2, <2>3 DEF CaseShape, Grown, Events
<1>4. ASSUME NEW h \in Hashes,
             /\ stored' = stored + 1
             /\ events' = events \cup {[id |-> stored', hash |-> h, current |-> TRUE, ref |-> log]}
             /\ UNCHANGED <<log, rels, drawn>>
      PROVE  CaseShape' /\ Grown
  <2> DEFINE e == [id |-> stored + 1, hash |-> h, current |-> TRUE, ref |-> log]
  <2>1. events' = events \cup {e} /\ e \in Events /\ e.id = stored + 1 /\ e.ref = log
    BY <1>4 DEF CaseShape, Events
  <2>2. stored + 1 \in Ids' /\ stored + 1 \notin Ids
    <3>1. \A d \in events : d.id \in Nat /\ d.id <= stored /\ stored \in Nat
      BY DEF CaseShape, Events
    <3>2. \A d \in events : d.id # stored + 1
      BY <3>1
    <3>3. e \in events' /\ e.id = stored + 1
      BY <2>1
    <3> HIDE DEF e
    <3>4. QED BY <3>2, <3>3 DEF Ids
  <2> HIDE DEF e
  <2>3. CaseShape'
    BY <1>1, <1>4, <2>1 DEF CaseShape, Events
  <2>4. QED BY <1>1, <1>2, <1>4, <2>2, <2>3 DEF CaseShape, Grown
<1>5. CASE InsertEvent
  BY <1>4, <1>5 DEF InsertEvent
<1>6. CASE Project
  <2>1. /\ events' = {[e EXCEPT !.current = TRUE] : e \in events}
        /\ UNCHANGED <<stored, log, rels, drawn>>
    BY <1>6 DEF Project
  <2>2. \A e \in events : LET d == [e EXCEPT !.current = TRUE]
                          IN d \in Events /\ d.id = e.id /\ d.hash = e.hash /\ d.ref = e.ref
    BY DEF CaseShape, Events
  <2>3. \A d \in events' : \E e \in events : d \in Events /\ d.id = e.id /\ d.hash = e.hash /\ d.ref = e.ref
    BY ZenonT(30), <2>1, <2>2
  <2>4. CaseShape'
    BY <1>1, <2>1, <2>3 DEF CaseShape
  <2>5. Channels' \subseteq Channels
    BY <2>3 DEF Channels
  <2>6. QED BY <1>1, <1>2, <2>1, <2>4, <2>5 DEF CaseShape, Grown
<1>7. CASE DeleteEvent
  <2>1. /\ events' \subseteq events /\ rels' \subseteq rels
        /\ UNCHANGED <<stored, log, drawn>>
    BY <1>7 DEF DeleteEvent
  <2>2. Channels' \subseteq Channels
    BY <2>1 DEF Channels
  <2>3. CaseShape'
    BY <1>1, <2>1 DEF CaseShape
  <2>4. QED BY <1>1, <1>2, <2>1, <2>2, <2>3 DEF CaseShape, Grown
<1>8. ASSUME NEW g \in 1 .. made, InsertRelation(g) PROVE CaseShape' /\ Grown
  <2>1. PICK from \in events, to \in events :
            /\ drawn' = drawn + 1
            /\ rels' = rels \cup {[id |-> drawn', graph |-> g, from |-> from.id, to |-> to.id,
                                   indexed |-> FALSE]}
            /\ UNCHANGED <<events, stored, log>>
    BY <1>8 DEF InsertRelation
  <2> DEFINE r == [id |-> drawn + 1, graph |-> g, from |-> from.id, to |-> to.id, indexed |-> FALSE]
  <2>2. rels' = rels \cup {r} /\ r \in Relations /\ r.id = drawn + 1 /\ r.graph = g /\ g \in Nat /\ g <= made
    BY <2>1 DEF CaseShape, Relations, Events
  <2> HIDE DEF r
  <2>3. Channels' = Channels
    BY <2>1 DEF Channels
  <2>4. \A q \in rels : q.id \in Nat /\ q.id <= drawn /\ q.id # r.id
    BY <2>2 DEF CaseShape, Relations
  <2>5. CaseShape'
    <3>1. \A q \in rels' : q \in Relations /\ q.id <= drawn' /\ q.graph <= made
      BY <2>1, <2>2, <2>4 DEF CaseShape
    <3>2. \A p, q \in rels' : p.id = q.id => p = q
      BY <2>2, <2>4 DEF CaseShape
    <3>3. QED BY <1>1, <2>1, <3>1, <3>2 DEF CaseShape
  <2>6. QED BY <1>1, <1>2, <2>1, <2>2, <2>3, <2>5 DEF CaseShape, Grown
<1>9. CASE IndexRelation
  <2>1. PICK r \in rels : /\ rels' = (rels \ {r}) \cup {[r EXCEPT !.indexed = TRUE]}
                          /\ UNCHANGED <<events, stored, log, drawn>>
    BY <1>9 DEF IndexRelation
  <2> DEFINE q == [r EXCEPT !.indexed = TRUE]
  <2>2. /\ q \in Relations /\ q.id = r.id /\ q.graph = r.graph /\ q.from = r.from /\ q.to = r.to
        /\ rels' = (rels \ {r}) \cup {q}
    BY <2>1 DEF CaseShape, Relations
  <2> HIDE DEF q
  <2>3. Channels' = Channels
    BY <2>1 DEF Channels
  <2>4. CaseShape'
    BY <1>1, <2>1, <2>2 DEF CaseShape
  <2>5. QED BY <1>1, <1>2, <2>1, <2>2, <2>3, <2>4 DEF CaseShape, Grown
<1>10. CASE DeleteRelation
  <2>1. rels' \subseteq rels /\ UNCHANGED <<events, stored, log, drawn>>
    BY <1>10 DEF DeleteRelation
  <2>2. Channels' = Channels
    BY <2>1 DEF Channels
  <2>3. CaseShape'
    BY <1>1, <2>1 DEF CaseShape
  <2>4. QED BY <1>1, <1>2, <2>1, <2>2, <2>3 DEF CaseShape, Grown
<1>11. QED BY <1>3, <1>5, <1>6, <1>7, <1>8, <1>9, <1>10 DEF EditStore

LEMMA EditGraphsStep == ASSUME CaseShape, EditGraphs PROVE CaseShape' /\ Grown
<1>1. UNCHANGED <<events, stored, log, drawn>>
  BY DEF EditGraphs
<1>2. Channels' = Channels
  BY <1>1 DEF Channels
<1>3. CASE CreateGraph
  <2>1. /\ made' = made + 1 /\ graphs' = graphs \cup {made + 1}
        /\ UNCHANGED <<deletion, layouts, rels>>
    BY <1>3 DEF CreateGraph, fileVars
  <2>2. LaidOut' = LaidOut
    BY <2>1 DEF LaidOut
  <2>3. CaseShape'
    <3>1. made \in Nat /\ deletion.graph \in Nat /\ \A r \in rels : r.graph \in Nat
      BY DEF CaseShape, Relations
    <3>2. graphs' \subseteq 1 .. made'
      <4>1. (1 .. made) \cup {made + 1} \subseteq 1 .. made + 1
        BY <3>1
      <4>2. graphs \subseteq 1 .. made
        BY DEF CaseShape
      <4>3. QED BY <2>1, <4>1, <4>2
    <3>3. deletion.stage # "none" => deletion.graph \notin graphs' /\ deletion.graph <= made'
      BY <2>1, <3>1 DEF CaseShape
    <3>4. \A r \in rels : r.graph <= made'
      BY <2>1, <3>1 DEF CaseShape
    <3>5. QED BY <1>1, <2>1, <3>1, <3>2, <3>3, <3>4 DEF CaseShape
  <2>4. \A g \in graphs' \ graphs, r \in rels' : r.graph # g
    <3>1. \A r \in rels : r.graph \in Nat /\ r.graph <= made /\ made \in Nat
      BY DEF CaseShape, Relations
    <3>2. QED BY <2>1, <3>1
  <2>5. QED BY <1>1, <1>2, <2>1, <2>2, <2>3, <2>4 DEF CaseShape, Grown
<1>4. CASE Unregister
  <2>1. PICK g \in graphs : /\ graphs' = graphs \ {g}
                            /\ deletion' = [graph |-> g, stage |-> "relations"]
                            /\ UNCHANGED <<made, layouts, rels>>
    BY <1>4 DEF Unregister, fileVars
  <2>2. LaidOut' = LaidOut
    BY <2>1 DEF LaidOut
  <2>3. g \in Nat /\ g <= made /\ g \notin graphs' /\ graphs' \subseteq 1 .. made
    BY <2>1 DEF CaseShape
  <2>4. CaseShape'
    <3>1. /\ deletion' \in [graph : Nat, stage : Stages]
          /\ deletion'.graph = g
      BY <2>1, <2>3 DEF Stages
    <3>2. deletion'.graph \notin graphs' /\ deletion'.graph <= made'
      BY <2>1, <2>3, <3>1
    <3>3. QED BY <1>1, <2>1, <2>3, <3>1, <3>2 DEF CaseShape
  <2>5. QED BY <1>1, <1>2, <2>1, <2>2, <2>4 DEF CaseShape, Grown
<1>5. ASSUME rels' \subseteq rels, UNCHANGED <<graphs, made>>,
             deletion' \in [graph : Nat, stage : Stages],
             deletion'.stage # "none" => deletion.stage # "none" /\ deletion'.graph = deletion.graph,
             layouts' \in [GraphIds -> SUBSET (SUBSET Nat)],
             \A g \in LaidOut \ LaidOut' : g \notin graphs
      PROVE  CaseShape' /\ Grown
  <2>1. CaseShape'
    BY <1>1, <1>5 DEF CaseShape
  <2>2. QED BY <1>1, <1>2, <1>5, <2>1 DEF CaseShape, Grown
<1>6. /\ NoDeletion \in [graph : Nat, stage : Stages] /\ NoDeletion.stage = "none"
      /\ \A s \in Stages : LET d == [deletion EXCEPT !.stage = s]
                           IN d \in [graph : Nat, stage : Stages] /\ d.graph = deletion.graph
  BY DEF NoDeletion, Stages, CaseShape
<1>7. CASE /\ \/ DeleteRelations(deletion.graph) \/ DeleteSnapshots(deletion.graph) \/ CascadeStops
              \/ \E ok \in BOOLEAN : DeleteNotes(deletion.graph, ok)
           /\ UNCHANGED <<graphs, made>>
  <2>1. /\ rels' \subseteq rels /\ UNCHANGED layouts
        /\ \/ deletion' = NoDeletion
           \/ deletion.stage # "none" /\ \E s \in Stages : deletion' = [deletion EXCEPT !.stage = s]
    BY <1>7 DEF DeleteRelations, DeleteSnapshots, CascadeStops, DeleteNotes, fileVars, Stages
  <2>2. LaidOut' = LaidOut /\ layouts' \in [GraphIds -> SUBSET (SUBSET Nat)]
    BY <2>1 DEF LaidOut, CaseShape
  <2>3. QED BY <1>5, <1>6, <1>7, <2>1, <2>2
<1>8. CASE DeleteLayout(deletion.graph) /\ UNCHANGED <<graphs, made>>
  <2>1. /\ deletion.stage = "layout" /\ rels' = rels
        /\ layouts' = [layouts EXCEPT ![deletion.graph] = {}]
        /\ deletion' = [deletion EXCEPT !.stage = "snapshots"]
    BY <1>8 DEF DeleteLayout
  <2>2. layouts' \in [GraphIds -> SUBSET (SUBSET Nat)]
    BY <2>1 DEF CaseShape
  <2>3. \A g \in LaidOut \ LaidOut' : g \notin graphs
    BY <2>1 DEF CaseShape, LaidOut
  <2>4. "snapshots" \in Stages
    BY DEF Stages
  <2>5. QED BY <1>5, <1>6, <1>8, <2>1, <2>2, <2>3, <2>4
<1>9. QED BY <1>3, <1>4, <1>7, <1>8 DEF EditGraphs

LEMMA RestartStep == ASSUME CaseShape, Restart PROVE CaseShape'
<1>1. /\ deletion' = NoDeletion /\ UNCHANGED <<graphs, made, layouts>>
      /\ \/ UNCHANGED <<events, stored, log, rels, drawn>>
         \/ events' = {} /\ stored' = 0 /\ log' = 0 /\ rels' = {} /\ drawn' = 0
  BY DEF Restart
<1>2. NoDeletion \in [graph : Nat, stage : Stages] /\ NoDeletion.stage = "none"
  BY DEF NoDeletion, Stages
<1>3. QED BY <1>1, <1>2 DEF CaseShape

-----------------------------------------------------------------------------
(* What is wrong with the case                                                 *)

LEMMA InOf == ASSUME NEW a, NEW S, NEW b, NEW x PROVE <<b, x>> \in Of(a, S) <=> b = a /\ x \in S
BY DEF Of
LEMMA InIf == ASSUME NEW a, NEW c, NEW b, NEW x PROVE <<b, x>> \in If(c, a) <=> c /\ b = a /\ x = 0
BY DEF If
LEMMA ElsewhereIf == ASSUME NEW a, NEW c, NEW b, NEW x, b # a PROVE <<b, x>> \notin If(c, a)
BY DEF If

\* One problem at a time.
LEMMA Unindexed ==
    ASSUME NEW b, NEW x
    PROVE  <<"unindexed", x>> \in Problems(b) <=> \E r \in rels : r.id = x /\ ~r.indexed
<1>1. <<"unindexed", x>> \in Problems(b) <=> x \in {r.id : r \in {q \in rels : ~q.indexed}}
  BY InOf, InIf DEF Problems
<1>2. QED BY <1>1
LEMMA Dangling ==
    ASSUME NEW b, NEW x
    PROVE  <<"dangling", x>> \in Problems(b) <=> \E r \in rels : r.id = x /\ ~({r.from, r.to} \subseteq Ids)
<1>1. <<"dangling", x>> \in Problems(b)
         <=> x \in {r.id : r \in {q \in rels : ~({q.from, q.to} \subseteq Ids)}}
  BY InOf, InIf DEF Problems
<1>2. QED BY <1>1
LEMMA Orphans ==
    ASSUME NEW b, NEW x
    PROVE  /\ <<"orphanFindings", x>> \in Problems(b) <=> ~b /\ x \in DOMAIN finds /\ x \notin Channels
           /\ <<"staleFindings", x>> \in Problems(b) <=> x = 0 /\ b /\ DOMAIN finds # {}
           /\ <<"orphanGraph", x>> \in Problems(b) <=> x \notin graphs /\ \E r \in rels : r.graph = x
           /\ <<"emptyGraph", x>> \in Problems(b) <=> x \in graphs /\ ~ \E r \in rels : r.graph = x
           /\ <<"orphanLayout", x>> \in Problems(b) <=> x \in LaidOut /\ x \notin graphs
<1>1. <<"orphanFindings", x>> \in Problems(b) <=> ~b /\ x \in DOMAIN finds /\ x \notin Channels
  <2>1. Inventory.channels = Channels
    BY DEF Inventory, Channels
  <2>2. <<"orphanFindings", x>> \in Problems(b) <=> x \in IF b THEN {} ELSE DOMAIN finds \ Inventory.channels
    BY InOf, InIf DEF Problems
  <2>3. QED BY <2>1, <2>2
<1>2. <<"orphanGraph", x>> \in Problems(b) <=> x \notin graphs /\ \E r \in rels : r.graph = x
  <2>1. <<"orphanGraph", x>> \in Problems(b) <=> x \in {r.graph : r \in rels} \ graphs
    BY InOf, InIf DEF Problems
  <2>2. QED BY <2>1
<1>3. <<"emptyGraph", x>> \in Problems(b) <=> x \in graphs /\ ~ \E r \in rels : r.graph = x
  <2>1. <<"emptyGraph", x>> \in Problems(b) <=> x \in graphs \ {r.graph : r \in rels}
    BY InOf, InIf DEF Problems
  <2>2. QED BY <2>1
<1>4. <<"orphanLayout", x>> \in Problems(b) <=> x \in LaidOut /\ x \notin graphs
  <2>1. <<"orphanLayout", x>> \in Problems(b) <=> <<"orphanLayout", x>> \in Of("orphanLayout", LaidOut \ graphs)
    BY InOf, InIf DEF Problems
  <2>2. QED BY <2>1, InOf
<1>5. <<"staleFindings", x>> \in Problems(b) <=> x = 0 /\ b /\ DOMAIN finds # {}
  <2>1. <<"staleFindings", x>> \in Problems(b) <=> <<"staleFindings", x>> \in If(b /\ DOMAIN finds # {}, "staleFindings")
    BY InOf, ElsewhereIf DEF Problems
  <2>2. QED BY <2>1 DEF If
<1>6. QED BY <1>1, <1>2, <1>3, <1>4, <1>5
LEMMA OfInventory ==
    ASSUME NEW b, NEW x
    PROVE  /\ <<"payloadTail", x>> \in Problems(b) <=> x = 0 /\ TailBehind(Inventory.refs)
           /\ <<"staleProjection", x>> \in Problems(b) <=> x = 0 /\ Inventory.outdated
           /\ <<"missingChannel", x>> \in Problems(b)
                 <=> x \in {r \in Rules : r.step \notin Inventory.channels}
           /\ <<"ruleInert", x>> \in Problems(b) <=> x \in {r \in Rules : Inert(r)}
           /\ <<"ruleBlocked", x>> \in Problems(b) <=> x \in {r \in Rules : ~Inert(r) /\ Keyless(r, Inventory)}
<1>1. <<"payloadTail", x>> \in Problems(b) <=> x = 0 /\ TailBehind(Inventory.refs)
  BY InOf, InIf DEF Problems
<1>2. <<"staleProjection", x>> \in Problems(b) <=> x = 0 /\ Inventory.outdated
  BY InOf, InIf DEF Problems
<1>3. <<"missingChannel", x>> \in Problems(b) <=> x \in {r \in Rules : r.step \notin Inventory.channels}
  BY InOf, InIf DEF Problems
<1>4. <<"ruleInert", x>> \in Problems(b) <=> x \in {r \in Rules : Inert(r)}
  BY InOf, InIf DEF Problems
<1>5. <<"ruleBlocked", x>> \in Problems(b) <=> x \in {r \in Rules : ~Inert(r) /\ Keyless(r, Inventory)}
  BY InOf, InIf DEF Problems
<1>6. QED BY <1>1, <1>2, <1>3, <1>4, <1>5

LEMMA ArePairs ==
    /\ \A code \in Codes : \A S : Pairs(Of(code, S))
    /\ \A code \in Codes : \A c : Pairs(If(c, code))
    /\ \A A, B : Pairs(A) /\ Pairs(B) => Pairs(A \cup B)
BY DEF Of, If, Pairs
LEMMA ProblemsArePairs == \A b : Pairs(Problems(b))
<1>1. {"unindexed", "dangling", "orphanFindings", "staleFindings", "orphanGraph", "emptyGraph",
       "orphanLayout", "payloadTail", "staleProjection", "missingChannel", "ruleInert", "ruleBlocked"} = Codes
  BY DEF Codes
<1>2. ASSUME NEW b, NEW q \in Problems(b) PROVE \E code \in Codes : \E x : q = <<code, x>>
  <2>1. \E code \in Codes : (\E S : q \in Of(code, S)) \/ (\E c : q \in If(c, code))
    BY <1>1, <1>2 DEF Problems
  <2>2. QED BY <2>1 DEF Of, If
<1>3. QED BY <1>2 DEF Pairs

-----------------------------------------------------------------------------
(* What lasts is told                                                          *)

\* An edit takes from what has always been wrong, and leaves what the check remembers.
LEMMA LastingEdit ==
    ASSUME LastingInv, CaseShape', Grown, UNCHANGED check, check.at # "idle",
           always' = always \cap Wrong'
    PROVE  LastingInv'
<1>1. /\ always' \subseteq Wrong' /\ CheckShape'
      /\ \A code, x : Always(code, x)' => Always(code, x)
  BY DEF LastingInv, CheckShape, Always
<1>2. AllTold'
  <2>1. \A code : Reported(code) => Reported(code)'
    BY <1>1 DEF Reported, Told
  <2>2. QED BY <2>1 DEF LastingInv, AllTold
<1>3. TailSeen'
  <2>1. ASSUME TailBehind(check.set), check.set \subseteq Nat PROVE TailBehind(check.set)'
    <3>1. log \in Nat /\ log' \in Nat /\ log <= log'
      BY DEF Grown, CaseShape, LastingInv
    <3>2. \A ref \in check.set : ref \in Nat /\ ref < log
      BY <2>1 DEF TailBehind
    <3>3. log > 0
      BY <2>1 DEF TailBehind
    <3>4. QED BY <3>1, <3>2, <3>3 DEF TailBehind
  <2>2. QED BY <1>1, <2>1 DEF LastingInv, Seen, SecondSeen, TailSeen
<1>4. InventorySeen' /\ EdgesSeen' /\ KeysSeen' /\ CountsSeen' /\ FilesSeen'
  BY <1>1 DEF LastingInv, Seen, SecondSeen, InventorySeen, EdgesSeen, KeysSeen, CountsSeen, FilesSeen
<1>5. RelationsSeen'
  <2>1. CASE check.at = "endpoints"
    <3>1. \A q \in check.set : q.id \in Nat /\ q.id <= drawn'
      BY <2>1 DEF LastingInv, Seen, SecondSeen, RelationsSeen, Grown, CaseShape
    <3>2. ASSUME NEW q \in check.set, NEW r \in rels', q.id = r.id PROVE q.from = r.from /\ q.to = r.to
      <4>1. ~(r.id > drawn)
        BY <2>1, <3>2 DEF LastingInv, Seen, SecondSeen, RelationsSeen, CaseShape
      <4>2. QED BY <2>1, <3>2, <4>1 DEF LastingInv, Seen, SecondSeen, RelationsSeen, Grown
    <3>3. QED BY <1>1, <2>1, <3>1, <3>2 DEF LastingInv, Seen, SecondSeen, RelationsSeen
  <2>2. QED BY <2>1 DEF RelationsSeen
<1>6. QED BY <1>1, <1>2, <1>3, <1>4, <1>5 DEF LastingInv, Seen, SecondSeen

\* A read leaves the case alone, and what has been told stays told.
LEMMA LastingRead ==
    ASSUME LastingInv, UNCHANGED <<graphs, made, storeVars, fileVars, deletion, always>>,
           check.at # "idle", check'.stale = check.stale,
           check.found \subseteq check'.found, check.failed \subseteq check'.failed,
           check.unmeasured => check'.unmeasured, check.uncounted \subseteq check'.uncounted
    PROVE  /\ CaseShape' /\ Wrong' = Wrong
           /\ always' \subseteq Wrong' /\ always \subseteq Wrong
           /\ \A code, x : Always(code, x)' <=> Always(code, x)
           /\ \A code : Reported(code) => Reported(code)'
<1>1. UNCHANGED <<graphs, made, events, stored, log, rels, drawn, layouts, finds, deletion>>
  BY DEF storeVars, fileVars
<1>2. CaseShape'
  BY <1>1 DEF LastingInv, CaseShape
<1>3. Wrong' = Wrong
  BY <1>1 DEF Wrong, Problems, Inventory, LaidOut, Inert, Keyless, TailBehind, Ids
<1>4. \A code, x : Always(code, x)' <=> Always(code, x)
  BY DEF Always
<1>5. \A code : Reported(code) => Reported(code)'
  <2>1. \A q : Told(q) => Told(q)'
    BY DEF Told
  <2>2. QED BY <1>4, <2>1 DEF Reported
<1>6. QED BY <1>2, <1>3, <1>4, <1>5 DEF LastingInv

\* What a read makes of the check.
LEMMA Reading ==
    ASSUME CheckShape, NEW at \in DOMAIN Then \ {"rules"}, NEW set, NEW found, Reads(at, set, found)
    PROVE  /\ CheckShape' /\ check.at = at /\ check'.at = Then[at] /\ check'.set = set
           /\ check'.found = check.found \cup found
           /\ check'.inv = check.inv /\ check'.failed = check.failed /\ check'.stale = check.stale
           /\ check'.unmeasured = check.unmeasured /\ check'.uncounted = check.uncounted
<1>1. check.at = at /\ check' = [check EXCEPT !.at = Then[at], !.set = set, !.found = @ \cup found]
  BY DEF Reads
<1>2. /\ check'.at = Then[at] /\ check'.set = set /\ check'.found = check.found \cup found
      /\ check'.inv = check.inv /\ check'.failed = check.failed /\ check'.stale = check.stale
      /\ check'.unmeasured = check.unmeasured /\ check'.uncounted = check.uncounted
      /\ check' = [at |-> Then[at], stale |-> check.stale, inv |-> check.inv, set |-> set,
                   found |-> check.found \cup found, failed |-> check.failed,
                   unmeasured |-> check.unmeasured, uncounted |-> check.uncounted]
  BY <1>1 DEF CheckShape
<1>3. /\ Then[at] \in AllStages /\ at # "done"
      /\ Then[at] \in {"idle", "used", "size", "inventory"} => at \in {"used", "size"}
  BY DEF Then, AllStages, AfterSize, AfterIndex, AfterEndpoints, AfterFindings, AfterGraphs, AfterOwners
<1>4. QED BY <1>1, <1>2, <1>3 DEF CheckShape

\* The second-read facts are about one stage each.
LEMMA SeenElsewhere ==
    ASSUME check'.at \notin {"size", "index", "endpoints", "hashes", "registered", "owners"}
    PROVE  SecondSeen'
BY DEF SecondSeen, TailSeen, EdgesSeen, RelationsSeen, KeysSeen, CountsSeen, FilesSeen

LEMMA InventoryStep ==
    ASSUME LastingInv, ReadInventory, UNCHANGED <<caseVars, always>> PROVE LastingInv'
<1>1. check.at = "inventory" /\ check' = [check EXCEPT !.at = "edges", !.inv = {Inventory}]
  BY DEF ReadInventory, Then
<1>2. /\ check'.at = "edges" /\ check'.inv = {Inventory} /\ check'.found = check.found
      /\ check'.failed = check.failed /\ check'.stale = check.stale
      /\ check'.unmeasured = check.unmeasured /\ check'.uncounted = check.uncounted
      /\ CheckShape'
  BY <1>1 DEF LastingInv, CheckShape, AllStages, AfterSize
<1>3. /\ CaseShape' /\ always' \subseteq Wrong' /\ always \subseteq Wrong
      /\ \A code, x : Always(code, x)' <=> Always(code, x)
      /\ \A code : Reported(code) => Reported(code)'
  BY <1>1, <1>2, LastingRead DEF caseVars
<1>4. AllTold'
  BY <1>1, <1>2, <1>3 DEF LastingInv, AllTold, AfterSize, AfterIndex, AfterEndpoints, AfterFindings,
     AfterGraphs, AfterOwners
<1>5. InventorySeen'
  <2>1. \A code, x : Always(code, x)' => <<code, x>> \in Problems(check.stale)
    BY <1>3 DEF Always, Wrong
  <2>2. /\ \A x : Always("staleProjection", x)' => x = 0 /\ Inventory.outdated
        /\ \A x : Always("missingChannel", x)' => x \in Rules /\ x.step \notin Inventory.channels
        /\ \A x : Always("ruleBlocked", x)' => x \in Rules /\ Keyless(x, Inventory)
    BY <2>1, OfInventory
  <2>3. \A x : Keyless(x, Inventory) => Keyless(x, Inventory)'
    BY DEF Keyless, Inventory, caseVars, storeVars
  <2>4. QED BY <1>2, <2>2, <2>3 DEF InventorySeen, Keyless
<1>6. SecondSeen'
  BY <1>2, SeenElsewhere
<1>7. QED BY <1>2, <1>3, <1>4, <1>5, <1>6 DEF LastingInv, Seen

\* What a read completes the report of.
Tells(at) ==
    CASE at = "size" -> {"payloadTail"} [] at = "index" -> {"unindexed"}
      [] at = "endpoints" -> {"dangling"} [] at = "hashes" -> {"orphanFindings", "staleFindings"}
      [] at = "registered" -> {"orphanGraph", "emptyGraph"} [] at = "owners" -> {"orphanLayout"}
      [] OTHER -> {}

\* A read that tells what it must, and remembers what the next needs, keeps the invariant.
LEMMA StageStep ==
    ASSUME LastingInv, UNCHANGED <<caseVars, always>>,
           NEW at \in DOMAIN Then \ {"inventory", "rules"}, NEW set, NEW found,
           Reads(at, set, found),
           \A code \in Tells(at) : \A x : Always(code, x) => <<code, x>> \in found,
           SecondSeen'
    PROVE  LastingInv'
<1>1. /\ CheckShape' /\ check.at = at /\ check'.at = Then[at]
      /\ check'.found = check.found \cup found
      /\ check'.inv = check.inv /\ check'.failed = check.failed /\ check'.stale = check.stale
      /\ check'.unmeasured = check.unmeasured /\ check'.uncounted = check.uncounted
  BY Reading DEF LastingInv
<1>2. at # "idle"
  BY DEF Then
<1>3. /\ CaseShape' /\ always' \subseteq Wrong' /\ always \subseteq Wrong
      /\ \A code, x : Always(code, x)' <=> Always(code, x)
      /\ \A code : Reported(code) => Reported(code)'
  BY <1>1, <1>2, LastingRead DEF caseVars
<1>4. \A code \in Tells(at) : Reported(code)'
  BY <1>1, <1>3 DEF Reported, Told
<1>5. AllTold'
  BY <1>1, <1>3, <1>4 DEF LastingInv, AllTold, Tells, Then, AfterSize, AfterIndex, AfterEndpoints,
     AfterFindings, AfterGraphs, AfterOwners
<1>6. InventorySeen'
  <2>1. check'.at \in WithInventory => check.at \in WithInventory
    BY <1>1 DEF Then, WithInventory, AfterSize, AfterIndex, AfterEndpoints, AfterFindings,
       AfterGraphs, AfterOwners
  <2>2. \A r, i : Keyless(r, i)' <=> Keyless(r, i)
    BY DEF Keyless
  <2>3. QED BY <1>1, <1>3, <2>1, <2>2 DEF LastingInv, Seen, InventorySeen, Keyless
<1>7. QED BY <1>1, <1>3, <1>5, <1>6 DEF LastingInv, Seen

LEMMA FirstReads ==
    ASSUME LastingInv, UNCHANGED <<caseVars, always>>,
           ReadUsed \/ ReadEdges \/ ReadRelations \/ ReadKeys \/ ReadCounts \/ ReadFiles
    PROVE  LastingInv'
<1>1. \A code, x : Always(code, x)' => <<code, x>> \in Problems(check.stale)
  <2>1. check.at # "idle"
    BY DEF ReadUsed, ReadEdges, ReadRelations, ReadKeys, ReadCounts, ReadFiles, Reads
  <2>2. QED BY <2>1 DEF LastingInv, Always, Wrong
<1>2. UNCHANGED <<rels, drawn, log>>
  BY DEF caseVars, storeVars
<1> USE DEF Tells
<1>3. CASE ReadEdges
  <2>1. "edges" \in DOMAIN Then \ {"inventory", "rules"} /\ Then["edges"] = "index"
    BY DEF Then
  <2>2. check'.at = "index" /\ check'.set = {r.id : r \in rels}
    BY <1>3, <2>1, Reading DEF ReadEdges, LastingInv
  <2>3. SecondSeen'
    BY <1>1, <2>2, Unindexed DEF SecondSeen, TailSeen, EdgesSeen, RelationsSeen, KeysSeen, CountsSeen, FilesSeen
  <2>4. QED BY <1>3, <2>1, <2>3, StageStep DEF ReadEdges
<1>4. CASE ReadRelations
  <2>1. "relations" \in DOMAIN Then \ {"inventory", "rules"} /\ Then["relations"] = "endpoints"
    BY DEF Then
  <2>2. check'.at = "endpoints" /\ check'.set = rels
    BY <1>4, <2>1, Reading DEF ReadRelations, LastingInv
  <2>3. /\ \A q \in rels : q.id \in Nat /\ q.id <= drawn
        /\ \A q, r \in rels : q.id = r.id => q.from = r.from /\ q.to = r.to
    BY DEF LastingInv, CaseShape, Relations
  <2>4. \A x : Always("dangling", x)' => \E q \in rels : q.id = x
    BY <1>1, Dangling
  <2>5. RelationsSeen'
    BY <1>2, <2>2, <2>3, <2>4 DEF RelationsSeen
  <2>6. SecondSeen'
    BY <2>2, <2>5 DEF SecondSeen, TailSeen, EdgesSeen, KeysSeen, CountsSeen, FilesSeen
  <2>7. QED BY <1>4, <2>1, <2>6, StageStep DEF ReadRelations
<1>5. CASE ReadKeys
  <2>1. "keys" \in DOMAIN Then \ {"inventory", "rules"} /\ Then["keys"] = "hashes"
    BY DEF Then
  <2>2. check'.at = "hashes" /\ check'.set = DOMAIN finds /\ check'.stale = check.stale
    BY <1>5, <2>1, Reading DEF ReadKeys, LastingInv
  <2>9. ~check.stale
    BY <1>5 DEF ReadKeys
  <2>3. SecondSeen'
    BY <1>1, <2>2, <2>9, Orphans DEF SecondSeen, TailSeen, EdgesSeen, RelationsSeen, KeysSeen, CountsSeen, FilesSeen
  <2>4. QED BY <1>5, <2>1, <2>3, StageStep DEF ReadKeys
<1>6. CASE ReadCounts
  <2>1. "counts" \in DOMAIN Then \ {"inventory", "rules"} /\ Then["counts"] = "registered"
    BY DEF Then
  <2>2. check'.at = "registered" /\ check'.set = {r.graph : r \in rels}
    BY <1>6, <2>1, Reading DEF ReadCounts, LastingInv
  <2>3. CountsSeen'
    <3>0. \A x : /\ <<"orphanGraph", x>> \in Problems(check.stale) => \E r \in rels : r.graph = x
                 /\ <<"emptyGraph", x>> \in Problems(check.stale) => ~ \E r \in rels : r.graph = x
      BY Orphans
    <3>1. \A x : Always("orphanGraph", x)' => \E r \in rels : r.graph = x
      BY <1>1, <3>0
    <3>2. \A x : Always("emptyGraph", x)' => ~ \E r \in rels : r.graph = x
      BY <1>1, <3>0
    <3>3. \A x : x \in check'.set <=> \E r \in rels : r.graph = x
      BY <2>2
    <3>4. QED BY <3>1, <3>2, <3>3 DEF CountsSeen
  <2>4. SecondSeen'
    BY <2>2, <2>3 DEF SecondSeen, TailSeen, EdgesSeen, RelationsSeen, KeysSeen, FilesSeen
  <2>5. QED BY <1>6, <2>1, <2>4, StageStep DEF ReadCounts
<1>7. CASE ReadFiles
  <2>1. "files" \in DOMAIN Then \ {"inventory", "rules"} /\ Then["files"] = "owners"
    BY DEF Then
  <2>2. check'.at = "owners" /\ check'.set = LaidOut
    BY <1>7, <2>1, Reading DEF ReadFiles, LastingInv
  <2>3. SecondSeen'
    BY <1>1, <2>2, Orphans, ZenonT(30) DEF SecondSeen, TailSeen, EdgesSeen, RelationsSeen, KeysSeen, CountsSeen, FilesSeen
  <2>4. QED BY <1>7, <2>1, <2>3, StageStep DEF ReadFiles
<1>8. CASE ReadUsed
  <2>1. "used" \in DOMAIN Then \ {"inventory", "rules"} /\ Then["used"] = "size"
    BY DEF Then
  <2>2. check'.at = "size" /\ check'.set = Inventory.refs
    BY <1>8, <2>1, Reading DEF ReadUsed, LastingInv
  <2>3. Inventory.refs \subseteq Nat
    BY DEF LastingInv, CaseShape, Inventory, Events
  <2>4. \A x : Always("payloadTail", x)' => x = 0 /\ TailBehind(Inventory.refs)
    BY <1>1, OfInventory
  <2>5. TailSeen'
    BY <1>2, <2>2, <2>3, <2>4 DEF TailSeen, TailBehind
  <2>6. SecondSeen'
    BY <2>2, <2>5 DEF SecondSeen, EdgesSeen, RelationsSeen, KeysSeen, CountsSeen, FilesSeen
  <2>7. QED BY <1>8, <2>1, <2>6, StageStep DEF ReadUsed
<1>9. QED BY <1>3, <1>4, <1>5, <1>6, <1>7, <1>8

LEMMA SecondReads ==
    ASSUME LastingInv, UNCHANGED <<caseVars, always>>,
           ReadSize \/ ReadIndex \/ ReadEndpoints \/ ReadHashes \/ ReadRegistered \/ ReadOwners
    PROVE  LastingInv'
<1>1. \A code, x : Always(code, x) => <<code, x>> \in Problems(check.stale)
  <2>1. check.at # "idle"
    BY DEF ReadSize, ReadIndex, ReadEndpoints, ReadHashes, ReadRegistered, ReadOwners, Reads
  <2>2. QED BY <2>1 DEF LastingInv, Always, Wrong
<1>2. CASE ReadSize
  <2>1. "size" \in DOMAIN Then \ {"inventory", "rules"} /\ Then["size"] = "inventory"
    BY DEF Then
  <2>2. check.at = "size" /\ check'.at = "inventory"
    BY <1>2, <2>1, Reading DEF ReadSize, LastingInv
  <2>3. SecondSeen'
    BY <2>2, SeenElsewhere
  <2>4. \A code \in Tells("size") : \A x : Always(code, x) => <<code, x>> \in If(TailBehind(check.set), "payloadTail")
    BY <2>2, InIf DEF Tells, LastingInv, Seen, SecondSeen, TailSeen
  <2>5. QED BY <1>2, <2>1, <2>3, <2>4, StageStep DEF ReadSize
<1>3. CASE ReadIndex
  <2>1. "index" \in DOMAIN Then \ {"inventory", "rules"} /\ Then["index"] = "relations"
    BY DEF Then
  <2>2. check.at = "index" /\ check'.at = "relations"
    BY <1>3, <2>1, Reading DEF ReadIndex, LastingInv
  <2>3. SecondSeen'
    BY <2>2, SeenElsewhere
  <2> DEFINE S == check.set \ {r.id : r \in {x \in rels : x.indexed}}
  <2>4. \A code \in Tells("index") : \A x : Always(code, x) => <<code, x>> \in Of("unindexed", S)
    <3>1. ASSUME NEW x, Always("unindexed", x) PROVE x \in S
      <4>1. x \in check.set
        BY <2>2, <3>1 DEF LastingInv, Seen, SecondSeen, EdgesSeen
      <4>2. \E r \in rels : r.id = x /\ ~r.indexed
        BY <1>1, <3>1, Unindexed
      <4>3. \A r \in rels : r.id = x => ~r.indexed
        BY <4>2 DEF LastingInv, CaseShape
      <4>4. QED BY <4>1, <4>3
    <3> HIDE DEF S
    <3>2. QED BY <3>1, InOf DEF Tells
  <2>5. QED BY <1>3, <2>1, <2>3, <2>4, StageStep DEF ReadIndex
<1>4. CASE ReadEndpoints
  <2>1. "endpoints" \in DOMAIN Then \ {"inventory", "rules"} /\ Then["endpoints"] = "keys"
    BY DEF Then
  <2>2. check.at = "endpoints" /\ check'.at = "keys"
    BY <1>4, <2>1, Reading DEF ReadEndpoints, LastingInv
  <2>3. SecondSeen'
    BY <2>2, SeenElsewhere
  <2> DEFINE S == {r.id : r \in {x \in check.set : ~({x.from, x.to} \subseteq Ids)}}
  <2>4. \A code \in Tells("endpoints") : \A x : Always(code, x) => <<code, x>> \in Of("dangling", S)
    <3>1. ASSUME NEW x, Always("dangling", x) PROVE x \in S
      <4>1. PICK q \in check.set : q.id = x
        BY <2>2, <3>1 DEF LastingInv, Seen, SecondSeen, RelationsSeen
      <4>2. PICK r \in rels : r.id = x /\ ~({r.from, r.to} \subseteq Ids)
        BY <1>1, <3>1, Dangling
      <4>3. q.from = r.from /\ q.to = r.to
        BY <2>2, <4>1, <4>2 DEF LastingInv, Seen, SecondSeen, RelationsSeen
      <4>4. QED BY <4>1, <4>2, <4>3
    <3> HIDE DEF S
    <3>2. QED BY <3>1, InOf DEF Tells
  <2>5. QED BY <1>4, <2>1, <2>3, <2>4, StageStep DEF ReadEndpoints
<1>5. CASE ReadHashes
  <2>1. "hashes" \in DOMAIN Then \ {"inventory", "rules"} /\ Then["hashes"] = "counts"
    BY DEF Then
  <2>2. check.at = "hashes" /\ check'.at = "counts"
    BY <1>5, <2>1, Reading DEF ReadHashes, LastingInv
  <2>3. SecondSeen'
    BY <2>2, SeenElsewhere
  <2> DEFINE S == check.set \ Inventory.channels
  <2>4. \A code \in Tells("hashes") : \A x : Always(code, x) => <<code, x>> \in Of("orphanFindings", S)
    <3>1. Inventory.channels = Channels
      BY DEF Inventory, Channels
    <3>2. ASSUME NEW x, Always("orphanFindings", x) PROVE x \in S
      BY <1>1, <2>2, <3>1, <3>2, Orphans DEF LastingInv, Seen, SecondSeen, KeysSeen
    <3>3. ASSUME NEW x, Always("staleFindings", x) PROVE FALSE
      BY <1>1, <2>2, <3>3, Orphans DEF LastingInv, Seen, SecondSeen, KeysSeen
    <3> HIDE DEF S
    <3>4. QED BY <3>2, <3>3, InOf DEF Tells
  <2>5. QED BY <1>5, <2>1, <2>3, <2>4, StageStep DEF ReadHashes
<1>6. CASE ReadRegistered
  <2>1. "registered" \in DOMAIN Then \ {"inventory", "rules"} /\ Then["registered"] = "files"
    BY DEF Then
  <2>2. check.at = "registered" /\ check'.at = "files"
    BY <1>6, <2>1, Reading DEF ReadRegistered, LastingInv
  <2>3. SecondSeen'
    BY <2>2, SeenElsewhere
  <2> DEFINE F == Of("orphanGraph", check.set \ graphs) \cup Of("emptyGraph", graphs \ check.set)
  <2>4. \A code \in Tells("registered") : \A x : Always(code, x) => <<code, x>> \in F
    <3>1. ASSUME NEW x, Always("orphanGraph", x) PROVE <<"orphanGraph", x>> \in F
      <4>1. x \in check.set
        BY <2>2, <3>1 DEF LastingInv, Seen, SecondSeen, CountsSeen
      <4>2. x \notin graphs
        BY <1>1, <3>1, Orphans
      <4>3. x \in check.set \ graphs
        BY <4>1, <4>2
      <4>4. QED BY <4>3, InOf
    <3>2. ASSUME NEW x, Always("emptyGraph", x) PROVE <<"emptyGraph", x>> \in F
      <4>1. x \notin check.set
        BY <2>2, <3>2 DEF LastingInv, Seen, SecondSeen, CountsSeen
      <4>2. x \in graphs
        BY <1>1, <3>2, Orphans
      <4>3. x \in graphs \ check.set
        BY <4>1, <4>2
      <4>4. QED BY <4>3, InOf
    <3> HIDE DEF F
    <3>3. QED BY <3>1, <3>2 DEF Tells
  <2>5. QED BY <1>6, <2>1, <2>3, <2>4, StageStep DEF ReadRegistered
<1>7. CASE ReadOwners
  <2>1. "owners" \in DOMAIN Then \ {"inventory", "rules"} /\ Then["owners"] = "rules"
    BY DEF Then
  <2>2. check.at = "owners" /\ check'.at = "rules"
    BY <1>7, <2>1, Reading DEF ReadOwners, LastingInv
  <2>3. SecondSeen'
    BY <2>2, SeenElsewhere
  <2>4. \A code \in Tells("owners") : \A x : Always(code, x) => <<code, x>> \in Of("orphanLayout", check.set \ graphs)
    <3>1. ASSUME NEW x, Always("orphanLayout", x) PROVE x \in check.set \ graphs
      <4>1. x \in check.set
        BY <2>2, <3>1 DEF LastingInv, Seen, SecondSeen, FilesSeen
      <4>2. x \notin graphs
        BY <1>1, <3>1, Orphans
      <4>3. QED BY <4>1, <4>2
    <3>2. QED BY <3>1, InOf DEF Tells
  <2>5. QED BY <1>7, <2>1, <2>3, <2>4, StageStep DEF ReadOwners
<1>8. QED BY <1>2, <1>3, <1>4, <1>5, <1>6, <1>7

\* With no findings, or an older build's, there are no hashes to look up.
LEMMA LastingSettled ==
    ASSUME LastingInv, KeysSettle, UNCHANGED <<caseVars, always>> PROVE LastingInv'
<1> DEFINE F == If(DOMAIN finds # {}, "staleFindings")
<1>1. /\ check.at = "keys" /\ (DOMAIN finds = {} \/ check.stale)
      /\ check' = [check EXCEPT !.at = "counts", !.set = {}, !.found = @ \cup F]
  BY DEF KeysSettle
<1>2. \A x : /\ <<"orphanFindings", x>> \notin Wrong
             /\ <<"staleFindings", x>> \in Wrong => <<"staleFindings", x>> \in F
  BY <1>1, Orphans, InIf DEF Wrong
<1> HIDE DEF F
<1>3. /\ check'.at = "counts" /\ check'.inv = check.inv /\ check'.found = check.found \cup F
      /\ check'.failed = check.failed /\ check'.stale = check.stale
      /\ check'.unmeasured = check.unmeasured /\ check'.uncounted = check.uncounted
      /\ CheckShape'
  BY <1>1 DEF LastingInv, CheckShape, AllStages, AfterSize, AfterIndex, AfterEndpoints, AfterFindings
<1>4. /\ CaseShape' /\ always' \subseteq Wrong' /\ always \subseteq Wrong
      /\ \A code, x : Always(code, x)' <=> Always(code, x)
      /\ \A code : Reported(code) => Reported(code)'
  BY <1>1, <1>3, LastingRead DEF caseVars
<1>5. Reported("orphanFindings")' /\ Reported("staleFindings")'
  <2>0. \A code, x : Always(code, x) => <<code, x>> \in Wrong
    BY <1>4 DEF Always
  <2>1. \A x : /\ ~Always("orphanFindings", x)'
               /\ Always("staleFindings", x)' => <<"staleFindings", x>> \in check'.found
    BY <1>2, <1>3, <1>4, <2>0
  <2>2. QED BY <2>1 DEF Reported, Told
<1>6. AllTold'
  BY <1>1, <1>3, <1>4, <1>5 DEF LastingInv, AllTold, AfterSize, AfterIndex, AfterEndpoints, AfterFindings,
     AfterGraphs, AfterOwners
<1>7. InventorySeen'
  <2>1. check.at \in WithInventory
    BY <1>1 DEF WithInventory, AfterSize, AfterIndex, AfterEndpoints
  <2>2. QED BY <1>3, <1>4, <2>1 DEF LastingInv, Seen, InventorySeen, Keyless
<1>8. SecondSeen'
  BY <1>3, SeenElsewhere
<1>9. QED BY <1>3, <1>4, <1>6, <1>7, <1>8 DEF LastingInv, Seen

\* The rules are the last to be judged; a step that is not counted is owned up to.
LEMMA LastingRules ==
    ASSUME LastingInv, NEW uncounted, ReadRules(uncounted), UNCHANGED always,
           UNCHANGED <<graphs, made, storeVars, fileVars, deletion>>
    PROVE  LastingInv'
<1> DEFINE inert == {r \in Rules : r.step \notin uncounted /\ Inert(r)}
           Missing == {r \in Rules : \E i \in check.inv : r.step \notin i.channels}
           Blocks == {r \in Rules \ inert : \E i \in check.inv : Keyless(r, i)}
           Old == \E i \in check.inv : i.outdated
           F == If(Old, "staleProjection")
           M == Of("missingChannel", Missing)
           I == Of("ruleInert", inert)
           B == Of("ruleBlocked", Blocks)
<1>1. /\ check.at = "rules"
      /\ check' = [check EXCEPT !.at = "done", !.set = {}, !.uncounted = uncounted,
                                !.found = @ \cup F \cup M \cup I \cup B]
  BY DEF ReadRules, Then
<1>2. ASSUME NEW x PROVE /\ <<"staleProjection", x>> \in F <=> x = 0 /\ Old
                         /\ <<"missingChannel", x>> \in M <=> x \in Missing
                         /\ <<"ruleInert", x>> \in I <=> x \in inert
                         /\ <<"ruleBlocked", x>> \in B <=> x \in Blocks
  <2> HIDE DEF Old, Missing, inert, Blocks
  <2>1. QED BY InIf, InOf
<1>3. \A code, x : Always(code, x) => <<code, x>> \in Problems(check.stale)
  BY <1>1 DEF LastingInv, Always, Wrong
<1>4. check.at \in WithInventory /\ check.uncounted = {}
  BY <1>1 DEF WithInventory, AfterSize, AfterIndex, AfterEndpoints, AfterFindings, AfterGraphs, AfterOwners,
     LastingInv, CheckShape
<1>5. "edges" \in check.failed \/
      /\ \A x : Always("staleProjection", x) => <<"staleProjection", x>> \in F
      /\ \A x : Always("missingChannel", x) => <<"missingChannel", x>> \in M
      /\ \A x : Always("ruleBlocked", x) => <<"ruleBlocked", x>> \in B
  <2>1. ASSUME "edges" \notin check.failed, NEW x, Always("ruleBlocked", x) PROVE <<"ruleBlocked", x>> \in B
    <3>1. x \in Rules /\ ~Inert(x)
      BY <1>3, <2>1, OfInventory
    <3>2. \E i \in check.inv : Keyless(x, i)
      BY <1>4, <2>1 DEF LastingInv, Seen, InventorySeen
    <3>3. QED BY <1>2, <3>1, <3>2
  <2>2. QED BY <1>2, <1>4, <2>1 DEF LastingInv, Seen, InventorySeen
<1>6. \A x : Always("ruleInert", x) => <<"ruleInert", x>> \in I \/ x.step \in uncounted
  BY <1>2, <1>3, OfInventory
<1> HIDE DEF F, M, I, B
<1>7. /\ check'.at = "done" /\ check'.inv = check.inv /\ check'.found = check.found \cup F \cup M \cup I \cup B
      /\ check'.failed = check.failed /\ check'.stale = check.stale
      /\ check'.unmeasured = check.unmeasured /\ check'.uncounted = uncounted
      /\ CheckShape'
  BY <1>1 DEF LastingInv, CheckShape, AllStages, AfterSize, AfterIndex, AfterEndpoints, AfterFindings,
     AfterGraphs, AfterOwners
<1>8. /\ CaseShape' /\ always' \subseteq Wrong' /\ always \subseteq Wrong
      /\ \A code, x : Always(code, x)' <=> Always(code, x)
      /\ \A code : Reported(code) => Reported(code)'
  BY <1>1, <1>4, <1>7, LastingRead
<1>9. /\ Reported("staleProjection")' /\ Reported("missingChannel")' /\ Reported("ruleBlocked")'
      /\ Reported("ruleInert")'
  <2>1. ASSUME NEW code \in {"staleProjection", "missingChannel", "ruleBlocked"} PROVE Reported(code)'
    <3>1. Detector(code) = "edges"
      BY DEF Detector
    <3>2. \A x : Always(code, x)' => <<code, x>> \in check'.found \/ "edges" \in check'.failed
      BY <1>5, <1>7, <1>8
    <3>3. QED BY <3>1, <3>2 DEF Reported, Told
  <2>2. \A x : Always("ruleInert", x)' => <<"ruleInert", x>> \in check'.found \/ x.step \in check'.uncounted
    BY <1>6, <1>7, <1>8
  <2>3. QED BY <2>1, <2>2 DEF Reported, Told
<1>10. AllTold'
  BY <1>1, <1>7, <1>8, <1>9 DEF LastingInv, AllTold, AfterSize, AfterIndex, AfterEndpoints, AfterFindings,
     AfterGraphs, AfterOwners
<1>11. InventorySeen' /\ SecondSeen'
  BY <1>7, SeenElsewhere DEF InventorySeen, WithInventory
<1>12. QED BY <1>7, <1>8, <1>10, <1>11 DEF LastingInv, Seen

\* A detector that could not read says so.
LEMMA LastingFailed ==
    ASSUME LastingInv, ReadFails \/ UsedFails, UNCHANGED always,
           UNCHANGED <<graphs, made, storeVars, fileVars, deletion>>
    PROVE  LastingInv'
<1>1. CASE ReadFails
  <2> DEFINE to == Skips[check.at]
  <2>1. /\ check.at \in DOMAIN Skips
        /\ check' = [check EXCEPT !.at = to, !.set = {}, !.failed = @ \cup {to}]
    BY <1>1 DEF ReadFails
  <2>2. /\ check'.at = to /\ check'.found = check.found /\ check'.inv = check.inv
        /\ check'.failed = check.failed \cup {to} /\ check'.stale = check.stale
        /\ check'.unmeasured = check.unmeasured /\ check'.uncounted = check.uncounted
        /\ check' = [at |-> to, stale |-> check.stale, inv |-> check.inv, set |-> {}, found |-> check.found,
                     failed |-> check.failed \cup {to}, unmeasured |-> check.unmeasured,
                     uncounted |-> check.uncounted]
    BY <2>1 DEF LastingInv, CheckShape
  <2>3. to \in {"edges", "relations", "keys", "counts", "files", "rules"} /\ check.at \notin {"idle", "done"}
    BY <2>1 DEF Skips
  <2>4. CheckShape'
    BY <2>2, <2>3 DEF LastingInv, CheckShape, AllStages, AfterSize, AfterIndex, AfterEndpoints,
       AfterFindings, AfterGraphs, AfterOwners
  <2>5. /\ CaseShape' /\ always' \subseteq Wrong' /\ always \subseteq Wrong
        /\ \A code, x : Always(code, x)' <=> Always(code, x)
        /\ \A code : Reported(code) => Reported(code)'
    BY <2>2, <2>3, LastingRead
  <2>6. \A code : Detector(code) = to => Reported(code)'
    BY <2>2 DEF Reported, Told
  <2>7. AllTold'
    <3>1. /\ Detector("unindexed") = "relations" /\ Detector("dangling") = "keys"
          /\ Detector("orphanFindings") = "counts" /\ Detector("staleFindings") = "counts"
          /\ Detector("orphanGraph") = "files" /\ Detector("emptyGraph") = "files"
          /\ Detector("orphanLayout") = "rules"
      BY DEF Detector
    <3>2. check.at \in DOMAIN Skips /\ to = Skips[check.at] /\ check'.at = to /\ AllTold
      BY <2>1, <2>2 DEF LastingInv
    <3> HIDE DEF to
    <3>3. QED BY <2>5, <2>6, <3>1, <3>2 DEF AllTold, Skips, AfterSize, AfterIndex, AfterEndpoints,
       AfterFindings, AfterGraphs, AfterOwners
  <2>8. InventorySeen'
    <3>1. (check'.at \in WithInventory => check.at \in WithInventory) \/ "edges" \in check'.failed
      BY <2>1, <2>2 DEF Skips, WithInventory, AfterSize, AfterIndex, AfterEndpoints, AfterFindings,
         AfterGraphs, AfterOwners
    <3>2. QED BY <2>2, <2>5, <3>1 DEF LastingInv, Seen, InventorySeen, Keyless
  <2>9. SecondSeen'
    BY <2>2, <2>3, SeenElsewhere
  <2>10. QED BY <2>4, <2>5, <2>7, <2>8, <2>9 DEF LastingInv, Seen
<1>2. CASE UsedFails
  <2>1. check.at = "used" /\ check' = [check EXCEPT !.at = "inventory", !.unmeasured = TRUE]
    BY <1>2 DEF UsedFails
  <2>2. /\ check'.at = "inventory" /\ check'.found = check.found /\ check'.failed = check.failed
        /\ check'.stale = check.stale /\ check'.unmeasured /\ check'.uncounted = check.uncounted
        /\ CheckShape'
    BY <2>1 DEF LastingInv, CheckShape, AllStages, AfterSize
  <2>3. /\ CaseShape' /\ always' \subseteq Wrong'
        /\ \A code : Reported(code) => Reported(code)'
    BY <2>1, <2>2, LastingRead
  <2>4. Reported("payloadTail")'
    BY <2>2 DEF Reported
  <2>5. AllTold'
    BY <2>2, <2>4 DEF AllTold, AfterSize, AfterIndex, AfterEndpoints, AfterFindings, AfterGraphs, AfterOwners
  <2>6. InventorySeen' /\ SecondSeen'
    BY <2>2, SeenElsewhere DEF InventorySeen, WithInventory
  <2>7. QED BY <2>2, <2>3, <2>5, <2>6 DEF LastingInv, Seen
<1>3. QED BY <1>1, <1>2

\* A check that is not under way has nothing to remember.
LEMMA IdleLasting ==
    ASSUME CaseShape', NEW stale, check' = Idle \/ check' = [Idle EXCEPT !.at = "used", !.stale = stale],
           check'.at # "idle" => always' \subseteq Wrong'
    PROVE  LastingInv'
<1>1. check'.at \in {"idle", "used"} /\ CheckShape'
  <2>1. check' = Idle => check'.at \in {"idle", "used"} /\ CheckShape'
    BY DEF Idle, CheckShape, AllStages
  <2>2. check' = [Idle EXCEPT !.at = "used", !.stale = stale] => check'.at \in {"idle", "used"} /\ CheckShape'
    BY DEF Idle, CheckShape, AllStages
  <2>3. QED BY <2>1, <2>2
<1>2. Seen'
  BY <1>1 DEF Seen, SecondSeen, TailSeen, InventorySeen, EdgesSeen, RelationsSeen, KeysSeen, CountsSeen, FilesSeen,
     WithInventory, AfterSize, AfterIndex, AfterEndpoints, AfterFindings, AfterGraphs, AfterOwners
<1>3. AllTold'
  BY <1>1 DEF AllTold, AfterSize, AfterIndex, AfterEndpoints, AfterFindings, AfterGraphs, AfterOwners
<1>4. QED BY <1>1, <1>2, <1>3 DEF LastingInv

LEMMA StepCase ==
    ASSUME CaseShape, EditFiles \/ EditStore \/ EditGraphs
    PROVE  CaseShape' /\ Grown
BY EditFilesStep, EditStoreStep, EditGraphsStep

LEMMA EditIdle ==
    ASSUME LastingInv, CaseShape', check.at = "idle", UNCHANGED check
    PROVE  LastingInv'
<1>1. CheckShape' /\ check'.at = "idle"
  BY DEF LastingInv, CheckShape
<1>2. Seen'
  BY <1>1 DEF Seen, SecondSeen, TailSeen, InventorySeen, EdgesSeen, RelationsSeen, KeysSeen, CountsSeen, FilesSeen,
     WithInventory, AfterSize, AfterIndex, AfterEndpoints, AfterFindings, AfterGraphs, AfterOwners
<1>3. AllTold'
  BY <1>1 DEF AllTold, AfterSize, AfterIndex, AfterEndpoints, AfterFindings, AfterGraphs, AfterOwners
<1>4. QED BY <1>1, <1>2, <1>3 DEF LastingInv

LEMMA InitLasting == CheckInit => LastingInv
<1>1. SUFFICES ASSUME CheckInit PROVE LastingInv
  OBVIOUS
<1>2. CaseShape /\ check = Idle /\ check.at = "idle" /\ CheckShape
  BY <1>1, InitCaseShape DEF CheckInit, Idle, CheckShape, AllStages
<1>3. Seen
  BY <1>2 DEF Seen, SecondSeen, TailSeen, InventorySeen, EdgesSeen, RelationsSeen, KeysSeen, CountsSeen, FilesSeen,
     WithInventory, AfterSize, AfterIndex, AfterEndpoints, AfterFindings, AfterGraphs, AfterOwners
<1>4. AllTold
  BY <1>2 DEF AllTold, AfterSize, AfterIndex, AfterEndpoints, AfterFindings, AfterGraphs, AfterOwners
<1>5. QED BY <1>2, <1>3, <1>4 DEF LastingInv

LEMMA StepLasting == LastingInv /\ [CheckNext]_checkVars => LastingInv'
<1>1. SUFFICES ASSUME LastingInv, [CheckNext]_checkVars PROVE LastingInv'
  OBVIOUS
<1>2. CASE check.at # "done" /\ (EditFiles \/ EditStore \/ EditGraphs) /\ UNCHANGED check /\ Watch
  <2>1. CaseShape' /\ Grown
    BY <1>1, <1>2, StepCase DEF LastingInv
  <2>2. CASE check.at = "idle"
    BY <1>1, <1>2, <2>1, <2>2, EditIdle
  <2>3. CASE check.at # "idle"
    <3>1. always' = always \cap Wrong'
      BY <1>2, <2>3 DEF Watch, Running, Wrong
    <3>2. QED BY <1>1, <1>2, <2>1, <2>3, <3>1, LastingEdit
  <2>4. QED BY <2>2, <2>3
<1>3. CASE check.at # "done" /\ Restart /\ check' = Idle
  <2>1. CaseShape'
    BY <1>1, <1>3, RestartStep DEF LastingInv
  <2>2. check'.at = "idle"
    BY <1>3 DEF Idle
  <2>3. QED BY <1>3, <2>1, <2>2, IdleLasting
<1>4. CASE StartCheck /\ UNCHANGED caseVars
  <2>1. PICK stale \in BOOLEAN : check' = [Idle EXCEPT !.at = "used", !.stale = stale] /\ always' = Problems(stale)
    BY <1>4 DEF StartCheck
  <2>2. check'.stale = stale
    BY <2>1 DEF Idle
  <2>3. Wrong' = Problems(stale) /\ CaseShape'
    BY <1>1, <1>4, <2>2 DEF LastingInv, CaseShape, Wrong, Problems, Inventory, LaidOut, Inert, Keyless,
       TailBehind, Ids, caseVars, storeVars, fileVars
  <2>4. QED BY <2>1, <2>3, IdleLasting
<1>5. CASE CheckStep /\ UNCHANGED <<caseVars, ever, always, during>>
  BY <1>1, <1>5, InventoryStep, FirstReads, SecondReads, LastingSettled, LastingRules DEF CheckStep, caseVars
<1>6. CASE /\ ReadFails \/ UsedFails \/ CountsFail
           /\ UNCHANGED <<graphs, made, storeVars, fileVars, deletion, clock, calls, ever, always, during>>
  BY <1>1, <1>6, LastingFailed, LastingRules DEF CountsFail
<1>7. CASE UNCHANGED checkVars
  <2>1. /\ Wrong' = Wrong /\ CaseShape' /\ CheckShape' /\ UNCHANGED <<check, always, log, rels, drawn>>
    BY <1>1, <1>7 DEF LastingInv, CheckShape, CaseShape, Wrong, Problems, Inventory, LaidOut, Inert, Keyless,
       TailBehind, Ids, checkVars, caseVars, storeVars, fileVars
  <2>2. Seen'
    BY <1>1, <2>1 DEF LastingInv, Seen, SecondSeen, Keyless, TailSeen, InventorySeen, EdgesSeen, RelationsSeen, KeysSeen,
       CountsSeen, FilesSeen, Always, TailBehind
  <2>3. AllTold'
    BY <1>1, <2>1 DEF LastingInv, AllTold, Reported, Told, Always
  <2>4. QED BY <1>1, <2>1, <2>2, <2>3 DEF LastingInv
<1>8. QED BY <1>1, <1>2, <1>3, <1>4, <1>5, <1>6, <1>7 DEF CheckNext

\* What is wrong with the case all the time the check runs is in its report, or the report says
\* that it could not look, whatever reads fail, but for the log that it could not measure.
THEOREM LastingProblemsAreTold == CheckSpec => []LastingIsReported
<1>1. LastingInv => LastingIsReported
  <2>1. SUFFICES ASSUME LastingInv, check.at = "done", NEW p \in always
                 PROVE  Told(p) \/ (p[1] = "payloadTail" /\ check.unmeasured)
    BY DEF LastingIsReported
  <2>2. PICK code, x : code \in Codes /\ p = <<code, x>>
    BY <2>1, ProblemsArePairs DEF LastingInv, Pairs, Wrong
  <2>3. p[1] = code /\ Always(code, x)
    BY <2>1, <2>2 DEF Always
  <2>4. Reported(code)
    BY <2>1, <2>2 DEF Codes, LastingInv, AllTold, AfterSize, AfterIndex, AfterEndpoints, AfterFindings,
       AfterGraphs, AfterOwners
  <2>5. QED BY <2>2, <2>3, <2>4 DEF Reported
<1>2. QED BY <1>1, InitLasting, StepLasting, PTL DEF CheckSpec

-----------------------------------------------------------------------------
(* What is told falsely is explained                                           *)

LEMMA InChanges ==
    /\ \A e \in events : (\E d \in events' : d.id = e.id /\ d.hash = e.hash) \/ "eventDeleted" \in Changes
    /\ ~(Ids' \subseteq Ids) => "eventStored" \in Changes
    /\ \A r \in rels : r.id \notin {x.id : x \in rels'} => "relationDeleted" \in Changes
    /\ ~(DOMAIN finds \subseteq DOMAIN finds') => "findingRemoved" \in Changes
    /\ ~(graphs \subseteq graphs') => "graphUnregistered" \in Changes
BY DEF Changes

LEMMA InMisleads ==
    /\ check.at = "index" /\ "relationDeleted" \in Changes => <<"unindexed", "relationDeleted">> \in Misleads
    /\ check.at = "endpoints" /\ "eventDeleted" \in Changes => <<"dangling", "eventDeleted">> \in Misleads
    /\ check.at = "hashes" /\ "findingRemoved" \in Changes => <<"orphanFindings", "findingRemoved">> \in Misleads
    /\ check.at = "hashes" /\ "eventDeleted" \in Changes => <<"orphanFindings", "eventDeleted">> \in Misleads
    /\ check.at = "registered" /\ "relationDeleted" \in Changes
          => <<"orphanGraph", "relationDeleted">> \in Misleads
    /\ check.at = "registered" /\ "graphUnregistered" \in Changes
          => <<"orphanGraph", "graphUnregistered">> \in Misleads
    /\ check.at \in WithInventory /\ "eventStored" \in Changes => <<"ruleBlocked", "eventStored">> \in Misleads
<1>1. \A code \in DOMAIN Mistaken : \A what \in Changes \cap Mistaken[code].changes :
          check.at \in Mistaken[code].before => <<code, what>> \in Misleads
  BY DEF Misleads
<1>2. WithInventory \subseteq AfterInventory
  BY DEF WithInventory, AfterInventory, Then, AfterSize, AfterIndex, AfterEndpoints, AfterFindings,
     AfterGraphs, AfterOwners
<1>3. /\ Mistaken["unindexed"] = [before |-> {"index"}, changes |-> {"relationDeleted"}]
      /\ Mistaken["dangling"] = [before |-> {"endpoints"}, changes |-> {"eventDeleted"}]
      /\ Mistaken["orphanFindings"] = [before |-> {"hashes"}, changes |-> {"findingRemoved", "eventDeleted"}]
      /\ Mistaken["orphanGraph"]
            = [before |-> {"registered"}, changes |-> {"relationDeleted", "graphUnregistered"}]
      /\ Mistaken["ruleBlocked"] = [before |-> AfterInventory, changes |-> {"eventStored"}]
      /\ {"unindexed", "dangling", "orphanFindings", "orphanGraph", "ruleBlocked"} \subseteq DOMAIN Mistaken
  BY DEF Mistaken
<1> HIDE DEF Mistaken, Misleads, Changes
<1>4. QED BY <1>1, <1>2, <1>3

LEMMA ExcusedBy ==
    /\ \A x : Missed("unindexed", "relationDeleted") => Excused(<<"unindexed", x>>)
    /\ \A x : Missed("dangling", "eventDeleted") => Excused(<<"dangling", x>>)
    /\ \A x : Missed("orphanFindings", "findingRemoved") /\ Missed("orphanFindings", "eventDeleted")
                  => Excused(<<"orphanFindings", x>>)
    /\ \A x : Missed("orphanGraph", "relationDeleted") /\ Missed("orphanGraph", "graphUnregistered")
                  => Excused(<<"orphanGraph", x>>)
    /\ \A x : Missed("ruleBlocked", "eventStored") => Excused(<<"ruleBlocked", x>>)
BY DEF Missed, Excused, Mistaken

LEMMA RacesEdit ==
    ASSUME RacesInv, CaseShape', Grown, UNCHANGED check, check.at # "idle",
           ever' = ever \cup Wrong', during' = during \cup Misleads
    PROVE  RacesInv'
<1>1. /\ Wrong' \subseteq ever' /\ Wrong \subseteq ever /\ CheckShape'
      /\ \A code, x : Ever(code, x) => Ever(code, x)'
      /\ \A q : Excused(q) => Excused(q)'
      /\ \A code, what : Missed(code, what) => Missed(code, what)'
      /\ \A code, what : <<code, what>> \in Misleads => Missed(code, what)'
  BY DEF RacesInv, CheckShape, Ever, Excused, Missed
<1>2. Explained(check.found)'
  BY <1>1 DEF RacesInv, Explained, Pairs
<1> HIDE DEF Misleads, Changes
<1>3. /\ \A e \in events' : e.ref \in Nat
      /\ {log, log'} \subseteq Nat /\ log <= log'
  BY DEF CaseShape, Events, Grown, RacesInv
<1>4. TailHeld'
  <2>1. CASE log = log'
    BY <1>1, <2>1 DEF RacesInv, SecondHeld, TailHeld, TailBehind
  <2>2. CASE log # log'
    <3>1. log' > 0 /\ \A e \in events' : e.ref < log'
      BY <1>3, <2>2 DEF Grown
    <3>2. (TailBehind(Inventory.refs))'
      BY <3>1 DEF TailBehind, Inventory
    <3>3. (<<"payloadTail", 0>> \in Wrong)'
      BY <3>2, InIf DEF Wrong, Problems
    <3>4. QED BY <1>1, <3>3 DEF RacesInv, SecondHeld, TailHeld, Ever
  <2>3. QED BY <2>1, <2>2
<1>5. InventoryHeld'
  <2>1. ASSUME NEW r \in Rules, Inert(r), check.at \in WithInventory
        PROVE  Inert(r)' \/ Missed("ruleBlocked", "eventStored")'
    <3>1. Inventory.channels = Channels /\ Inventory.channels' = Channels'
      BY DEF Inventory, Channels
    <3>2. ASSUME ~Inert(r)' PROVE ~(Channels' \subseteq Channels)
      BY <2>1, <3>1, <3>2 DEF Inert
    <3>3. QED BY <1>1, <2>1, <3>2, InChanges, InMisleads DEF Grown
  <2>2. \A r, i : Keyless(r, i)' <=> Keyless(r, i)
    BY DEF Keyless
  <2>3. QED BY <1>1, <2>1, <2>2 DEF RacesInv, InventoryHeld
<1>6. EdgesHeld'
  <2>1. ASSUME NEW r \in rels, check.at = "index"
        PROVE  (\E q \in rels' : q.id = r.id) \/ Missed("unindexed", "relationDeleted")'
    BY <1>1, <2>1, InChanges, InMisleads
  <2>2. QED BY <1>1, <2>1 DEF RacesInv, SecondHeld, EdgesHeld
<1>7. RelationsHeld'
  <2>1. check.at = "endpoints" => Ids \subseteq Ids' \/ Missed("dangling", "eventDeleted")'
    BY <1>1, InChanges, InMisleads DEF Ids
  <2>2. QED BY <1>1, <2>1 DEF RacesInv, SecondHeld, RelationsHeld
<1>8. KeysHeld'
  <2>1. check.at = "hashes" => DOMAIN finds \subseteq DOMAIN finds' \/ Missed("orphanFindings", "findingRemoved")'
    BY <1>1, InChanges, InMisleads
  <2>2. check.at = "hashes" => Channels \subseteq Channels' \/ Missed("orphanFindings", "eventDeleted")'
    BY <1>1, InChanges, InMisleads DEF Channels
  <2>3. QED BY <1>1, <2>1, <2>2 DEF RacesInv, SecondHeld, KeysHeld
<1>9. CountsHeld'
  <2>1. ASSUME NEW r \in rels, check.at = "registered"
        PROVE  (\E q \in rels' : q.graph = r.graph) \/ Missed("orphanGraph", "relationDeleted")'
    <3>1. CASE r.id \notin {x.id : x \in rels'}
      BY <1>1, <2>1, <3>1, InChanges, InMisleads
    <3>2. CASE r.id \in {x.id : x \in rels'}
      <4>1. PICK q \in rels' : q.id = r.id
        BY <3>2
      <4>2. ~(q.id > drawn)
        BY <4>1 DEF RacesInv, CaseShape, Relations
      <4>3. PICK p \in rels : p.id = q.id /\ p.graph = q.graph
        BY <4>2 DEF Grown
      <4>4. p = r
        BY <4>1, <4>3 DEF RacesInv, CaseShape
      <4>5. QED BY <4>3, <4>4
    <3>3. QED BY <3>1, <3>2
  <2>2. ASSUME NEW g \in graphs' \ graphs PROVE Ever("emptyGraph", g)'
    <3>1. g \in graphs' /\ ~ \E r \in rels' : r.graph = g
      BY DEF Grown
    <3>2. g \in (graphs \ {r.graph : r \in rels})'
      BY <3>1
    <3>3. (<<"emptyGraph", g>> \in Wrong)'
      BY <3>2, InOf DEF Wrong, Problems
    <3>4. QED BY <1>1, <3>3 DEF Ever
  <2>3. check.at = "registered" => graphs \subseteq graphs' \/ Missed("orphanGraph", "graphUnregistered")'
    BY <1>1, InChanges, InMisleads
  <2>4. ASSUME check.at = "registered", NEW g \in check.set
        PROVE  (\/ Ever("orphanGraph", g)
                \/ /\ (\E r \in rels : r.graph = g) \/ Missed("orphanGraph", "relationDeleted")
                   /\ g \in graphs \/ Missed("orphanGraph", "graphUnregistered"))'
    <3>1. \/ Ever("orphanGraph", g)
          \/ /\ (\E r \in rels : r.graph = g) \/ Missed("orphanGraph", "relationDeleted")
             /\ g \in graphs \/ Missed("orphanGraph", "graphUnregistered")
      BY <2>4 DEF RacesInv, SecondHeld, CountsHeld
    <3>2. QED BY <1>1, <2>1, <2>3, <2>4, <3>1
  <2>5. QED BY <1>1, <2>2, <2>4 DEF RacesInv, SecondHeld, CountsHeld
<1>10. FilesHeld'
  <2>1. ASSUME NEW g \in LaidOut \ LaidOut' PROVE Ever("orphanLayout", g)'
    <3>1. <<"orphanLayout", g>> \in Wrong
      BY Orphans DEF Grown, Wrong
    <3>2. QED BY <1>1, <3>1 DEF Ever
  <2>2. QED BY <1>1, <2>1 DEF RacesInv, SecondHeld, FilesHeld
<1>11. QED BY <1>1, <1>2, <1>4, <1>5, <1>6, <1>7, <1>8, <1>9, <1>10 DEF RacesInv, SecondHeld

\* A read leaves the case alone.
LEMMA RacesRead ==
    ASSUME RacesInv, UNCHANGED <<graphs, made, storeVars, fileVars, deletion, ever, during>>,
           check.at # "idle", check'.stale = check.stale, check.uncounted \subseteq check'.uncounted
    PROVE  /\ CaseShape' /\ Wrong' \subseteq ever' /\ Wrong \subseteq ever
           /\ UNCHANGED <<rels, graphs, events, finds, layouts, log>>
           /\ Ids' = Ids /\ LaidOut' = LaidOut /\ Channels' = Channels
           /\ \A code, x : Ever(code, x)' <=> Ever(code, x)
           /\ \A code, what : Missed(code, what)' <=> Missed(code, what)
           /\ \A r, i : (Inert(r)' <=> Inert(r)) /\ (Keyless(r, i)' <=> Keyless(r, i))
           /\ \A S : Explained(S) => Explained(S)'
<1>1. UNCHANGED <<graphs, made, events, stored, log, rels, drawn, layouts, finds, deletion>>
  BY DEF storeVars, fileVars
<1>2. CaseShape'
  BY <1>1 DEF RacesInv, CaseShape
<1>3. Wrong' = Wrong
  BY <1>1 DEF Wrong, Problems, Inventory, LaidOut, Inert, Keyless, TailBehind, Ids
<1>4. \A S : Explained(S) => Explained(S)'
  <2>1. \A q : Excused(q) => Excused(q)'
    BY DEF Excused
  <2>2. \A code, x : Ever(code, x)' <=> Ever(code, x)
    BY DEF Ever
  <2>3. QED BY <2>1, <2>2 DEF Explained, Pairs
<1>5. QED BY <1>1, <1>2, <1>3, <1>4 DEF RacesInv, Ids, LaidOut, Channels, Ever, Missed, Inert, Keyless, Inventory

\* A read whose report is explained, and that leaves the next what it needs, keeps the invariant.
LEMMA RacesStage ==
    ASSUME RacesInv, UNCHANGED <<caseVars, ever, during>>,
           NEW at \in DOMAIN Then \ {"inventory", "rules"}, NEW set, NEW found,
           Reads(at, set, found), Explained(found), SecondHeld'
    PROVE  RacesInv'
<1>1. /\ CheckShape' /\ check.at = at /\ check'.at = Then[at]
      /\ check'.found = check.found \cup found
      /\ check'.inv = check.inv /\ check'.stale = check.stale /\ check'.uncounted = check.uncounted
  BY Reading DEF RacesInv
<1>2. at # "idle"
  BY DEF Then
<1>3. /\ CaseShape' /\ Wrong' \subseteq ever'
      /\ \A code, x : Ever(code, x)' <=> Ever(code, x)
      /\ \A code, what : Missed(code, what)' <=> Missed(code, what)
      /\ \A r, i : (Inert(r)' <=> Inert(r)) /\ (Keyless(r, i)' <=> Keyless(r, i))
      /\ \A S : Explained(S) => Explained(S)'
  BY <1>1, <1>2, RacesRead DEF caseVars
<1>4. Explained(check.found \cup found)
  BY DEF RacesInv, Explained, Pairs
<1>5. Explained(check.found)'
  BY <1>1, <1>3, <1>4 DEF Explained
<1>6. InventoryHeld'
  <2>1. check'.at \in WithInventory => check.at \in WithInventory
    BY <1>1 DEF Then, WithInventory, AfterSize, AfterIndex, AfterEndpoints, AfterFindings,
       AfterGraphs, AfterOwners
  <2>2. QED BY <1>1, <1>3, <2>1 DEF RacesInv, InventoryHeld
<1>7. QED BY <1>1, <1>3, <1>5, <1>6 DEF RacesInv

LEMMA HeldElsewhere ==
    ASSUME check'.at \notin {"size", "index", "endpoints", "hashes", "registered", "owners"}
    PROVE  SecondHeld'
BY DEF SecondHeld, TailHeld, EdgesHeld, RelationsHeld, KeysHeld, CountsHeld, FilesHeld

LEMMA NothingExplained == Explained({})
BY DEF Explained, Pairs

LEMMA RacesFirstReads ==
    ASSUME RacesInv, UNCHANGED <<caseVars, ever, during>>,
           ReadUsed \/ ReadEdges \/ ReadRelations \/ ReadKeys \/ ReadCounts \/ ReadFiles
    PROVE  RacesInv'
<1>1. CASE ReadEdges
  <2>1. "edges" \in DOMAIN Then \ {"inventory", "rules"} /\ Then["edges"] = "index"
    BY DEF Then
  <2>2. /\ check.at = "edges" /\ check'.at = "index" /\ check'.set = {r.id : r \in rels}
        /\ check'.stale = check.stale /\ check'.uncounted = check.uncounted
    BY <1>1, <2>1, Reading DEF ReadEdges, RacesInv
  <2>3. /\ Wrong \subseteq ever /\ UNCHANGED <<rels, graphs, events, finds, log>>
        /\ Ids' = Ids /\ LaidOut' = LaidOut /\ Channels' = Channels
        /\ \A code, x : Ever(code, x)' <=> Ever(code, x)
    BY <2>2, RacesRead DEF caseVars
  <2>4. EdgesHeld'
    BY <2>2, <2>3 DEF EdgesHeld
  <2>5. SecondHeld'
    BY <2>2, <2>4 DEF SecondHeld, TailHeld, RelationsHeld, KeysHeld, CountsHeld, FilesHeld
  <2>6. QED BY <1>1, <2>1, <2>5, RacesStage, NothingExplained DEF ReadEdges
<1>2. CASE ReadRelations
  <2>1. "relations" \in DOMAIN Then \ {"inventory", "rules"} /\ Then["relations"] = "endpoints"
    BY DEF Then
  <2>2. /\ check.at = "relations" /\ check'.at = "endpoints" /\ check'.set = rels
        /\ check'.stale = check.stale /\ check'.uncounted = check.uncounted
    BY <1>2, <2>1, Reading DEF ReadRelations, RacesInv
  <2>3. /\ Wrong \subseteq ever /\ UNCHANGED <<rels, graphs, events, finds, log>>
        /\ Ids' = Ids /\ LaidOut' = LaidOut /\ Channels' = Channels
        /\ \A code, x : Ever(code, x)' <=> Ever(code, x)
    BY <2>2, RacesRead DEF caseVars
  <2>4. RelationsHeld'
    <3>1. \A q \in rels : Ever("dangling", q.id) \/ {q.from, q.to} \subseteq Ids
      BY <2>3, Dangling DEF Ever, Wrong
    <3>2. QED BY <2>2, <2>3, <3>1 DEF RelationsHeld
  <2>5. SecondHeld'
    BY <2>2, <2>4 DEF SecondHeld, TailHeld, EdgesHeld, KeysHeld, CountsHeld, FilesHeld
  <2>6. QED BY <1>2, <2>1, <2>5, RacesStage, NothingExplained DEF ReadRelations
<1>3. CASE ReadKeys
  <2>1. "keys" \in DOMAIN Then \ {"inventory", "rules"} /\ Then["keys"] = "hashes"
    BY DEF Then
  <2>2. /\ check.at = "keys" /\ check'.at = "hashes" /\ check'.set = DOMAIN finds
        /\ check'.stale = check.stale /\ check'.uncounted = check.uncounted
    BY <1>3, <2>1, Reading DEF ReadKeys, RacesInv
  <2>3. /\ Wrong \subseteq ever /\ UNCHANGED <<rels, graphs, events, finds, log>>
        /\ Ids' = Ids /\ LaidOut' = LaidOut /\ Channels' = Channels
        /\ \A code, x : Ever(code, x)' <=> Ever(code, x)
    BY <2>2, RacesRead DEF caseVars
  <2>4. KeysHeld'
    <3>1. ~check.stale
      BY <1>3 DEF ReadKeys
    <3>2. \A x \in DOMAIN finds : Ever("orphanFindings", x) \/ x \in Channels
      BY <2>3, <3>1, Orphans DEF Ever, Wrong
    <3>3. QED BY <2>2, <2>3, <3>1, <3>2 DEF KeysHeld
  <2>5. SecondHeld'
    BY <2>2, <2>4 DEF SecondHeld, TailHeld, EdgesHeld, RelationsHeld, CountsHeld, FilesHeld
  <2>6. QED BY <1>3, <2>1, <2>5, RacesStage, NothingExplained DEF ReadKeys
<1>4. CASE ReadCounts
  <2>1. "counts" \in DOMAIN Then \ {"inventory", "rules"} /\ Then["counts"] = "registered"
    BY DEF Then
  <2>2. /\ check.at = "counts" /\ check'.at = "registered" /\ check'.set = {r.graph : r \in rels}
        /\ check'.stale = check.stale /\ check'.uncounted = check.uncounted
    BY <1>4, <2>1, Reading DEF ReadCounts, RacesInv
  <2>3. /\ Wrong \subseteq ever /\ UNCHANGED <<rels, graphs, events, finds, log>>
        /\ Ids' = Ids /\ LaidOut' = LaidOut /\ Channels' = Channels
        /\ \A code, x : Ever(code, x)' <=> Ever(code, x)
    BY <2>2, RacesRead DEF caseVars
  <2>4. CountsHeld'
    <3>1. \A g \in graphs \ {r.graph : r \in rels} : Ever("emptyGraph", g)
      BY <2>3, Orphans DEF Ever, Wrong
    <3>2. \A r \in rels : Ever("orphanGraph", r.graph) \/ r.graph \in graphs
      BY <2>3, Orphans DEF Ever, Wrong
    <3>3. QED BY <2>2, <2>3, <3>1, <3>2 DEF CountsHeld
  <2>5. SecondHeld'
    BY <2>2, <2>4 DEF SecondHeld, TailHeld, EdgesHeld, RelationsHeld, KeysHeld, FilesHeld
  <2>6. QED BY <1>4, <2>1, <2>5, RacesStage, NothingExplained DEF ReadCounts
<1>5. CASE ReadFiles
  <2>1. "files" \in DOMAIN Then \ {"inventory", "rules"} /\ Then["files"] = "owners"
    BY DEF Then
  <2>2. /\ check.at = "files" /\ check'.at = "owners" /\ check'.set = LaidOut
        /\ check'.stale = check.stale /\ check'.uncounted = check.uncounted
    BY <1>5, <2>1, Reading DEF ReadFiles, RacesInv
  <2>3. /\ Wrong \subseteq ever /\ UNCHANGED <<rels, graphs, events, finds, log>>
        /\ Ids' = Ids /\ LaidOut' = LaidOut /\ Channels' = Channels
        /\ \A code, x : Ever(code, x)' <=> Ever(code, x)
    BY <2>2, RacesRead DEF caseVars
  <2>4. FilesHeld'
    BY <2>2, <2>3 DEF FilesHeld
  <2>5. SecondHeld'
    BY <2>2, <2>4 DEF SecondHeld, TailHeld, EdgesHeld, RelationsHeld, KeysHeld, CountsHeld
  <2>6. QED BY <1>5, <2>1, <2>5, RacesStage, NothingExplained DEF ReadFiles
<1>6. CASE ReadUsed
  <2>1. "used" \in DOMAIN Then \ {"inventory", "rules"} /\ Then["used"] = "size"
    BY DEF Then
  <2>2. /\ check.at = "used" /\ check'.at = "size" /\ check'.set = Inventory.refs
        /\ check'.stale = check.stale /\ check'.uncounted = check.uncounted
    BY <1>6, <2>1, Reading DEF ReadUsed, RacesInv
  <2>3. /\ Wrong \subseteq ever /\ UNCHANGED <<rels, graphs, events, finds, log>>
        /\ Ids' = Ids /\ LaidOut' = LaidOut /\ Channels' = Channels
        /\ \A code, x : Ever(code, x)' <=> Ever(code, x)
    BY <2>2, RacesRead DEF caseVars
  <2>4. TailHeld'
    <3>1. Inventory.refs \subseteq Nat
      BY DEF RacesInv, CaseShape, Inventory, Events
    <3>2. TailBehind(Inventory.refs) => Ever("payloadTail", 0)
      BY <2>3, OfInventory DEF Ever, Wrong
    <3>3. QED BY <2>2, <2>3, <3>1, <3>2 DEF TailHeld, TailBehind
  <2>5. SecondHeld'
    BY <2>2, <2>4 DEF SecondHeld, EdgesHeld, RelationsHeld, KeysHeld, CountsHeld, FilesHeld
  <2>6. QED BY <1>6, <2>1, <2>5, RacesStage, NothingExplained DEF ReadUsed
<1>7. QED BY <1>1, <1>2, <1>3, <1>4, <1>5, <1>6

\* The reports of one code, and of more than one.
LEMMA ExplainedOf ==
    ASSUME NEW code \in Codes, NEW S, \A x \in S : Ever(code, x) \/ Excused(<<code, x>>)
    PROVE  Explained(Of(code, S))
BY ArePairs, InOf DEF Explained
LEMMA ExplainedIf ==
    ASSUME NEW code \in Codes, NEW c, c => Ever(code, 0) \/ Excused(<<code, 0>>)
    PROVE  Explained(If(c, code))
BY ArePairs, InIf DEF Explained
LEMMA ExplainedBoth ==
    ASSUME NEW S, NEW R, Explained(S), Explained(R) PROVE Explained(S \cup R)
BY DEF Explained, Pairs

LEMMA RacesSecondReads ==
    ASSUME RacesInv, UNCHANGED <<caseVars, ever, during>>,
           ReadSize \/ ReadIndex \/ ReadEndpoints \/ ReadHashes \/ ReadRegistered \/ ReadOwners
    PROVE  RacesInv'
<1>2. {"unindexed", "dangling", "orphanFindings", "staleFindings", "orphanGraph", "emptyGraph",
       "orphanLayout", "payloadTail", "staleProjection", "missingChannel", "ruleInert", "ruleBlocked"} = Codes
  BY DEF Codes
<1>3. CASE ReadSize
  <2>1. "size" \in DOMAIN Then \ {"inventory", "rules"} /\ Then["size"] = "inventory"
    BY DEF Then
  <2>2. /\ check.at = "size" /\ check'.at = "inventory"
        /\ check'.stale = check.stale /\ check'.uncounted = check.uncounted
    BY <1>3, <2>1, Reading DEF ReadSize, RacesInv
  <2>3. Wrong \subseteq ever /\ SecondHeld'
    BY <2>2, RacesRead, HeldElsewhere DEF caseVars
  <2>4. Explained(If(TailBehind(check.set), "payloadTail"))
    BY <1>2, <2>2, ExplainedIf DEF RacesInv, SecondHeld, TailHeld
  <2>5. QED BY <1>3, <2>1, <2>3, <2>4, RacesStage DEF ReadSize
<1>4. CASE ReadIndex
  <2> DEFINE S == check.set \ {r.id : r \in {x \in rels : x.indexed}}
  <2>1. "index" \in DOMAIN Then \ {"inventory", "rules"} /\ Then["index"] = "relations"
    BY DEF Then
  <2>2. /\ check.at = "index" /\ check'.at = "relations"
        /\ check'.stale = check.stale /\ check'.uncounted = check.uncounted
    BY <1>4, <2>1, Reading DEF ReadIndex, RacesInv
  <2>3. Wrong \subseteq ever /\ SecondHeld'
    BY <2>2, RacesRead, HeldElsewhere DEF caseVars
  <2>4. Explained(Of("unindexed", S))
    <3>1. ASSUME NEW x \in S PROVE Ever("unindexed", x) \/ Excused(<<"unindexed", x>>)
      <4>1. CASE \E r \in rels : r.id = x
        BY <2>3, <4>1, Unindexed DEF Ever, Wrong
      <4>2. CASE ~ \E r \in rels : r.id = x
        BY <2>2, <4>2, ExcusedBy DEF RacesInv, SecondHeld, EdgesHeld
      <4>3. QED BY <4>1, <4>2
    <3> HIDE DEF S
    <3>2. QED BY <1>2, <3>1, ExplainedOf
  <2>5. QED BY <1>4, <2>1, <2>3, <2>4, RacesStage DEF ReadIndex
<1>5. CASE ReadEndpoints
  <2> DEFINE S == {r.id : r \in {x \in check.set : ~({x.from, x.to} \subseteq Ids)}}
  <2>1. "endpoints" \in DOMAIN Then \ {"inventory", "rules"} /\ Then["endpoints"] = "keys"
    BY DEF Then
  <2>2. /\ check.at = "endpoints" /\ check'.at = "keys"
        /\ check'.stale = check.stale /\ check'.uncounted = check.uncounted
    BY <1>5, <2>1, Reading DEF ReadEndpoints, RacesInv
  <2>3. Wrong \subseteq ever /\ SecondHeld'
    BY <2>2, RacesRead, HeldElsewhere DEF caseVars
  <2>4. Explained(Of("dangling", S))
    <3>1. ASSUME NEW x \in S PROVE Ever("dangling", x) \/ Excused(<<"dangling", x>>)
      BY <2>2, ExcusedBy DEF RacesInv, SecondHeld, RelationsHeld
    <3> HIDE DEF S
    <3>2. QED BY <1>2, <3>1, ExplainedOf
  <2>5. QED BY <1>5, <2>1, <2>3, <2>4, RacesStage DEF ReadEndpoints
<1>6. CASE ReadHashes
  <2> DEFINE S == check.set \ Inventory.channels
  <2>1. "hashes" \in DOMAIN Then \ {"inventory", "rules"} /\ Then["hashes"] = "counts"
    BY DEF Then
  <2>2. /\ check.at = "hashes" /\ check'.at = "counts"
        /\ check'.stale = check.stale /\ check'.uncounted = check.uncounted
    BY <1>6, <2>1, Reading DEF ReadHashes, RacesInv
  <2>3. Wrong \subseteq ever /\ SecondHeld'
    BY <2>2, RacesRead, HeldElsewhere DEF caseVars
  <2>4. Explained(Of("orphanFindings", S))
    <3>1. Inventory.channels = Channels
      BY DEF Inventory, Channels
    <3>2. ASSUME NEW x \in S PROVE Ever("orphanFindings", x) \/ Excused(<<"orphanFindings", x>>)
      <4>1. x \in check.set /\ x \notin Channels
        BY <3>1, <3>2
      <4>2. ~check.stale /\ (\/ Ever("orphanFindings", x)
                             \/ /\ x \in DOMAIN finds \/ Missed("orphanFindings", "findingRemoved")
                                /\ Missed("orphanFindings", "eventDeleted"))
        BY <2>2, <4>1 DEF RacesInv, SecondHeld, KeysHeld
      <4>3. x \in DOMAIN finds => Ever("orphanFindings", x)
        BY <2>3, <4>1, <4>2, Orphans DEF Ever, Wrong
      <4>4. QED BY <4>2, <4>3, ExcusedBy
    <3> HIDE DEF S
    <3>3. QED BY <1>2, <3>2, ExplainedOf
  <2>5. QED BY <1>6, <2>1, <2>3, <2>4, RacesStage DEF ReadHashes
<1>7. CASE ReadRegistered
  <2>1. "registered" \in DOMAIN Then \ {"inventory", "rules"} /\ Then["registered"] = "files"
    BY DEF Then
  <2>2. /\ check.at = "registered" /\ check'.at = "files"
        /\ check'.stale = check.stale /\ check'.uncounted = check.uncounted
    BY <1>7, <2>1, Reading DEF ReadRegistered, RacesInv
  <2>3. Wrong \subseteq ever /\ SecondHeld'
    BY <2>2, RacesRead, HeldElsewhere DEF caseVars
  <2>4. Explained(Of("orphanGraph", check.set \ graphs) \cup Of("emptyGraph", graphs \ check.set))
    <3>1. ASSUME NEW x \in check.set \ graphs PROVE Ever("orphanGraph", x) \/ Excused(<<"orphanGraph", x>>)
      <4>1. \/ Ever("orphanGraph", x)
            \/ /\ (\E r \in rels : r.graph = x) \/ Missed("orphanGraph", "relationDeleted")
               /\ Missed("orphanGraph", "graphUnregistered")
        BY <2>2 DEF RacesInv, SecondHeld, CountsHeld
      <4>2. (\E r \in rels : r.graph = x) => Ever("orphanGraph", x)
        BY <2>3, Orphans DEF Ever, Wrong
      <4>3. QED BY <4>1, <4>2, ExcusedBy
    <3>2. \A x \in graphs \ check.set : Ever("emptyGraph", x)
      BY <2>2 DEF RacesInv, SecondHeld, CountsHeld
    <3>3. Explained(Of("orphanGraph", check.set \ graphs))
      BY <1>2, <3>1, ExplainedOf
    <3>4. Explained(Of("emptyGraph", graphs \ check.set))
      BY <1>2, <3>2, ExplainedOf
    <3>5. QED BY <3>3, <3>4, ExplainedBoth
  <2>5. QED BY <1>7, <2>1, <2>3, <2>4, RacesStage DEF ReadRegistered
<1>8. CASE ReadOwners
  <2>1. "owners" \in DOMAIN Then \ {"inventory", "rules"} /\ Then["owners"] = "rules"
    BY DEF Then
  <2>2. /\ check.at = "owners" /\ check'.at = "rules"
        /\ check'.stale = check.stale /\ check'.uncounted = check.uncounted
    BY <1>8, <2>1, Reading DEF ReadOwners, RacesInv
  <2>3. Wrong \subseteq ever /\ SecondHeld'
    BY <2>2, RacesRead, HeldElsewhere DEF caseVars
  <2>4. Explained(Of("orphanLayout", check.set \ graphs))
    <3>1. \A x \in check.set \ graphs : Ever("orphanLayout", x)
      BY <2>2, <2>3, Orphans DEF RacesInv, SecondHeld, FilesHeld, Ever, Wrong
    <3>2. QED BY <1>2, <3>1, ExplainedOf
  <2>5. QED BY <1>8, <2>1, <2>3, <2>4, RacesStage DEF ReadOwners
<1>9. QED BY <1>3, <1>4, <1>5, <1>6, <1>7, <1>8

LEMMA RacesSettled ==
    ASSUME RacesInv, KeysSettle, UNCHANGED <<caseVars, ever, during>> PROVE RacesInv'
<1> DEFINE F == If(DOMAIN finds # {}, "staleFindings")
<1>1. /\ check.at = "keys" /\ (DOMAIN finds = {} \/ check.stale)
      /\ check' = [check EXCEPT !.at = "counts", !.set = {}, !.found = @ \cup F]
  BY DEF KeysSettle
<1>2. (DOMAIN finds # {}) => Ever("staleFindings", 0)
  BY <1>1, Orphans DEF RacesInv, Wrong, Ever
<1>3. Explained(F)
  BY <1>2, ExplainedIf DEF Codes
<1> HIDE DEF F
<1>4. /\ check'.at = "counts" /\ check'.inv = check.inv /\ check'.found = check.found \cup F
      /\ check'.stale = check.stale /\ check'.uncounted = check.uncounted /\ CheckShape'
  BY <1>1 DEF RacesInv, CheckShape, AllStages, AfterSize, AfterIndex, AfterEndpoints, AfterFindings
<1>5. /\ CaseShape' /\ Wrong' \subseteq ever'
      /\ \A code, x : Ever(code, x)' <=> Ever(code, x)
      /\ \A code, what : Missed(code, what)' <=> Missed(code, what)
      /\ \A r, i : (Inert(r)' <=> Inert(r)) /\ (Keyless(r, i)' <=> Keyless(r, i))
      /\ \A S : Explained(S) => Explained(S)'
  BY <1>1, <1>4, RacesRead DEF caseVars
<1>6. Explained(check.found)'
  <2>1. Explained(check.found \cup F)
    BY <1>3, ExplainedBoth DEF RacesInv
  <2>2. QED BY <1>4, <1>5, <2>1 DEF Explained
<1>7. InventoryHeld'
  <2>1. check.at \in WithInventory
    BY <1>1 DEF WithInventory, AfterSize, AfterIndex, AfterEndpoints
  <2>2. QED BY <1>4, <1>5, <2>1 DEF RacesInv, InventoryHeld
<1>8. SecondHeld'
  BY <1>4, HeldElsewhere
<1>9. QED BY <1>4, <1>5, <1>6, <1>7, <1>8 DEF RacesInv

LEMMA RacesRules ==
    ASSUME RacesInv, NEW uncounted, ReadRules(uncounted), UNCHANGED <<ever, during>>,
           UNCHANGED <<graphs, made, storeVars, fileVars, deletion>>
    PROVE  RacesInv'
<1> DEFINE inert == {r \in Rules : r.step \notin uncounted /\ Inert(r)}
           Missing == {r \in Rules : \E i \in check.inv : r.step \notin i.channels}
           Blocks == {r \in Rules \ inert : \E i \in check.inv : Keyless(r, i)}
           F == If(\E i \in check.inv : i.outdated, "staleProjection")
           M == Of("missingChannel", Missing)
           I == Of("ruleInert", inert)
           B == Of("ruleBlocked", Blocks)
<1>1. /\ check.at = "rules"
      /\ check' = [check EXCEPT !.at = "done", !.set = {}, !.uncounted = uncounted,
                                !.found = @ \cup F \cup M \cup I \cup B]
  BY DEF ReadRules, Then
<1>2. check.at \in WithInventory /\ check.uncounted = {}
  BY <1>1 DEF WithInventory, AfterSize, AfterIndex, AfterEndpoints, AfterFindings, AfterGraphs, AfterOwners,
     RacesInv, CheckShape
<1>3. /\ (\E i \in check.inv : i.outdated) => Ever("staleProjection", 0)
      /\ \A x \in Missing : Ever("missingChannel", x)
  BY <1>2 DEF RacesInv, InventoryHeld
<1>4. \A x \in inert : Ever("ruleInert", x)
  BY <1>1, OfInventory DEF RacesInv, Wrong, Ever
<1>5. \A x \in Blocks : Ever("ruleBlocked", x) \/ Missed("ruleBlocked", "eventStored") \/ x.step \in uncounted
  BY <1>2 DEF RacesInv, InventoryHeld
<1> HIDE DEF inert, Missing, Blocks
<1>6. /\ check'.at = "done" /\ check'.found = check.found \cup F \cup M \cup I \cup B
      /\ check'.stale = check.stale /\ check'.uncounted = uncounted /\ CheckShape'
  BY <1>1 DEF RacesInv, CheckShape, AllStages, AfterSize, AfterIndex, AfterEndpoints, AfterFindings,
     AfterGraphs, AfterOwners
<1>7. /\ CaseShape' /\ Wrong' \subseteq ever'
      /\ \A code, x : Ever(code, x)' <=> Ever(code, x)
      /\ \A S : Explained(S) => Explained(S)'
  BY <1>1, <1>2, <1>6, RacesRead
<1>8. Explained(F) /\ Explained(M) /\ Explained(I)
  BY <1>3, <1>4, ExplainedIf, ExplainedOf DEF Codes
<1>9. ASSUME NEW S, S = B PROVE Explained(S)'
  <2>1. ASSUME NEW x \in Blocks PROVE Ever("ruleBlocked", x)' \/ Excused(<<"ruleBlocked", x>>)'
    <3>1. CASE Missed("ruleBlocked", "eventStored")
      <4>1. Excused(<<"ruleBlocked", x>>)
        BY <3>1, ExcusedBy
      <4>2. Excused(<<"ruleBlocked", x>>)'
        BY <1>2, <1>6, <4>1 DEF Excused
      <4>3. QED BY <4>2
    <3>2. CASE x.step \in uncounted
      BY <1>6, <3>2 DEF Excused
    <3>3. QED BY <1>5, <1>7, <3>1, <3>2
  <2>2. Pairs(B)
    BY ArePairs DEF Codes
  <2>3. \A code, x : <<code, x>> \in B => code = "ruleBlocked" /\ x \in Blocks
    BY InOf
  <2> HIDE DEF B
  <2>4. ASSUME NEW code, NEW x, <<code, x>> \in B PROVE Ever(code, x)' \/ Excused(<<code, x>>)'
    BY <2>1, <2>3, <2>4
  <2>5. QED BY <1>9, <2>2, <2>4 DEF Explained, Pairs
<1> HIDE DEF F, M, I, B
<1>10. Explained(check.found)'
  <2>1. \A code, x : Excused(<<code, x>>) => Excused(<<code, x>>)'
    BY <1>2, <1>6, <1>7 DEF Excused
  <2>2. Explained(check.found \cup F \cup M \cup I)
    BY <1>8 DEF RacesInv, Explained, Pairs
  <2>3. ASSUME NEW S, S = check.found \cup F \cup M \cup I, NEW T, T = B PROVE Explained(S \cup T)'
    <3>1. Explained(S)'
      BY <1>7, <2>2, <2>3
    <3>2. Explained(T)'
      BY <1>9, <2>3
    <3>3. QED BY <3>1, <3>2 DEF Explained, Pairs
  <2>4. \A S : S = check'.found => Explained(S)'
    BY <1>6, <2>3
  <2>5. QED BY <2>4 DEF Explained, Pairs
<1>11. InventoryHeld' /\ SecondHeld'
  BY <1>6, HeldElsewhere DEF InventoryHeld, WithInventory
<1>12. QED BY <1>6, <1>7, <1>10, <1>11 DEF RacesInv

LEMMA RacesInventory ==
    ASSUME RacesInv, ReadInventory, UNCHANGED <<caseVars, ever, during>> PROVE RacesInv'
<1>1. check.at = "inventory" /\ check' = [check EXCEPT !.at = "edges", !.inv = {Inventory}]
  BY DEF ReadInventory, Then
<1>2. /\ check'.at = "edges" /\ check'.inv = {Inventory} /\ check'.found = check.found
      /\ check'.stale = check.stale /\ check'.uncounted = check.uncounted /\ CheckShape'
  BY <1>1 DEF RacesInv, CheckShape, AllStages, AfterSize
<1>3. /\ CaseShape' /\ Wrong' \subseteq ever' /\ Wrong \subseteq ever
      /\ \A code, x : Ever(code, x)' <=> Ever(code, x)
      /\ \A code, what : Missed(code, what)' <=> Missed(code, what)
      /\ \A r, i : (Inert(r)' <=> Inert(r)) /\ (Keyless(r, i)' <=> Keyless(r, i))
      /\ \A S : Explained(S) => Explained(S)'
  BY <1>1, <1>2, RacesRead DEF caseVars
<1>4. Explained(check.found)'
  BY <1>2, <1>3 DEF RacesInv, Explained
<1>5. InventoryHeld'
  <2>1. /\ Inventory.outdated => Ever("staleProjection", 0)
        /\ \A r \in Rules : r.step \notin Inventory.channels => Ever("missingChannel", r)
        /\ \A r \in Rules : Keyless(r, Inventory) => Inert(r) \/ Ever("ruleBlocked", r)
    BY <1>3, OfInventory DEF Ever, Wrong
  <2>2. QED BY <1>2, <1>3, <2>1 DEF InventoryHeld
<1>6. SecondHeld'
  BY <1>2, HeldElsewhere
<1>7. QED BY <1>2, <1>3, <1>4, <1>5, <1>6 DEF RacesInv

LEMMA RacesFailed ==
    ASSUME RacesInv, ReadFails \/ UsedFails, UNCHANGED <<ever, during>>,
           UNCHANGED <<graphs, made, storeVars, fileVars, deletion>>
    PROVE  RacesInv'
<1>1. PICK to \in {"inventory", "edges", "relations", "keys", "counts", "files", "rules"} :
          /\ check.at \notin {"idle", "done"} /\ check'.at = to
          /\ to = "edges" => check.at = "inventory" /\ check.inv = {}
          /\ to = "inventory" => check.at = "used"
          /\ check'.found = check.found /\ check'.inv = check.inv
          /\ check'.stale = check.stale /\ check'.uncounted = check.uncounted
          /\ check'.at \in WithInventory => check.at \in WithInventory \/ to = "edges"
          /\ CheckShape'
  <2>1. CASE ReadFails
    <3> DEFINE to == Skips[check.at]
    <3>1. /\ check.at \in DOMAIN Skips
          /\ check' = [check EXCEPT !.at = to, !.set = {}, !.failed = @ \cup {to}]
      BY <2>1 DEF ReadFails
    <3>2. /\ to \in {"edges", "relations", "keys", "counts", "files", "rules"}
          /\ check.at \notin {"idle", "done"} /\ (to = "edges" => check.at = "inventory")
          /\ to \in WithInventory => check.at \in WithInventory \/ to = "edges"
      BY <3>1 DEF Skips, WithInventory, AfterSize, AfterIndex, AfterEndpoints, AfterFindings, AfterGraphs,
         AfterOwners
    <3> HIDE DEF to
    <3>3. to = "edges" => check.inv = {}
      BY <3>2 DEF RacesInv, CheckShape
    <3>4. QED BY <3>1, <3>2, <3>3 DEF RacesInv, CheckShape, AllStages, AfterSize, AfterIndex, AfterEndpoints,
          AfterFindings, AfterGraphs, AfterOwners
  <2>2. CASE UsedFails
    BY <2>2 DEF UsedFails, RacesInv, CheckShape, AllStages, AfterSize, WithInventory
  <2>3. QED BY <2>1, <2>2
<1>2. /\ CaseShape' /\ Wrong' \subseteq ever'
      /\ \A code, x : Ever(code, x)' <=> Ever(code, x)
      /\ \A code, what : Missed(code, what)' <=> Missed(code, what)
      /\ \A r, i : (Inert(r)' <=> Inert(r)) /\ (Keyless(r, i)' <=> Keyless(r, i))
      /\ \A S : Explained(S) => Explained(S)'
  BY <1>1, RacesRead
<1>3. Explained(check.found)'
  BY <1>1, <1>2 DEF RacesInv, Explained
<1>4. InventoryHeld'
  BY <1>1, <1>2 DEF RacesInv, InventoryHeld
<1>5. SecondHeld'
  BY <1>1, HeldElsewhere
<1>6. QED BY <1>1, <1>2, <1>3, <1>4, <1>5 DEF RacesInv

\* A check that is not under way has nothing to explain.
LEMMA IdleRaces ==
    ASSUME CaseShape', NEW stale, check' = Idle \/ check' = [Idle EXCEPT !.at = "used", !.stale = stale],
           check'.at # "idle" => Wrong' \subseteq ever'
    PROVE  RacesInv'
<1>1. check'.at \in {"idle", "used"} /\ check'.found = {} /\ CheckShape'
  <2>1. check' = Idle => check'.at \in {"idle", "used"} /\ check'.found = {} /\ CheckShape'
    BY DEF Idle, CheckShape, AllStages
  <2>2. check' = [Idle EXCEPT !.at = "used", !.stale = stale]
           => check'.at \in {"idle", "used"} /\ check'.found = {} /\ CheckShape'
    BY DEF Idle, CheckShape, AllStages
  <2>3. QED BY <2>1, <2>2
<1>2. Explained(check.found)'
  BY <1>1 DEF Explained, Pairs
<1>3. InventoryHeld'
  BY <1>1 DEF InventoryHeld, WithInventory, AfterSize, AfterIndex, AfterEndpoints, AfterFindings,
     AfterGraphs, AfterOwners
<1>4. SecondHeld'
  BY <1>1, HeldElsewhere
<1>5. QED BY <1>1, <1>2, <1>3, <1>4 DEF RacesInv

LEMMA InitRaces == CheckInit => RacesInv
<1>1. SUFFICES ASSUME CheckInit PROVE RacesInv
  OBVIOUS
<1>2. CaseShape /\ check = Idle /\ check.at = "idle" /\ check.found = {} /\ CheckShape
  BY <1>1, InitCaseShape DEF CheckInit, Idle, CheckShape, AllStages
<1>3. Explained(check.found)
  BY <1>2, NothingExplained
<1>4. InventoryHeld
  BY <1>2 DEF InventoryHeld, WithInventory, AfterSize, AfterIndex, AfterEndpoints, AfterFindings,
     AfterGraphs, AfterOwners
<1>5. SecondHeld
  BY <1>2 DEF SecondHeld, TailHeld, EdgesHeld, RelationsHeld, KeysHeld, CountsHeld, FilesHeld
<1>6. QED BY <1>2, <1>3, <1>4, <1>5 DEF RacesInv

LEMMA StepRaces == RacesInv /\ [CheckNext]_checkVars => RacesInv'
<1>1. SUFFICES ASSUME RacesInv, [CheckNext]_checkVars PROVE RacesInv'
  OBVIOUS
<1>2. CASE check.at # "done" /\ (EditFiles \/ EditStore \/ EditGraphs) /\ UNCHANGED check /\ Watch
  <2>1. CaseShape' /\ Grown
    BY <1>1, <1>2, StepCase DEF RacesInv
  <2>2. CASE check.at = "idle"
    <3>1. UNCHANGED <<ever, during>> /\ check'.at = "idle" /\ CheckShape'
      BY <1>1, <1>2, <2>2 DEF RacesInv, CheckShape, Watch, Running
    <3>2. Explained(check.found)'
      BY <1>1, <1>2, <3>1 DEF RacesInv, Explained, Pairs, Ever, Excused
    <3>3. InventoryHeld'
      BY <3>1 DEF InventoryHeld, WithInventory, AfterSize, AfterIndex, AfterEndpoints,
         AfterFindings, AfterGraphs, AfterOwners
    <3>4. SecondHeld'
      BY <3>1, HeldElsewhere
    <3>5. QED BY <2>1, <3>1, <3>2, <3>3, <3>4 DEF RacesInv
  <2>3. CASE check.at # "idle"
    <3>1. ever' = ever \cup Wrong' /\ during' = during \cup Misleads
      BY <1>2, <2>3 DEF Watch, Running, Wrong
    <3>2. QED BY <1>1, <1>2, <2>1, <2>3, <3>1, RacesEdit
  <2>4. QED BY <2>2, <2>3
<1>3. CASE check.at # "done" /\ Restart /\ check' = Idle
  <2>1. CaseShape'
    BY <1>1, <1>3, RestartStep DEF RacesInv
  <2>2. check'.at = "idle"
    BY <1>3 DEF Idle
  <2>3. QED BY <1>3, <2>1, <2>2, IdleRaces
<1>4. CASE StartCheck /\ UNCHANGED caseVars
  <2>1. PICK stale \in BOOLEAN : check' = [Idle EXCEPT !.at = "used", !.stale = stale] /\ ever' = Problems(stale)
    BY <1>4 DEF StartCheck
  <2>2. check'.stale = stale
    BY <2>1 DEF Idle
  <2>3. Wrong' = Problems(stale) /\ CaseShape'
    BY <1>1, <1>4, <2>2 DEF RacesInv, CaseShape, Wrong, Problems, Inventory, LaidOut, Inert, Keyless,
       TailBehind, Ids, caseVars, storeVars, fileVars
  <2>4. QED BY <2>1, <2>3, IdleRaces
<1>5. CASE CheckStep /\ UNCHANGED <<caseVars, ever, always, during>>
  BY <1>1, <1>5, RacesInventory, RacesFirstReads, RacesSecondReads, RacesSettled, RacesRules DEF CheckStep, caseVars
<1>6. CASE /\ ReadFails \/ UsedFails \/ CountsFail
           /\ UNCHANGED <<graphs, made, storeVars, fileVars, deletion, clock, calls, ever, always, during>>
  BY <1>1, <1>6, RacesFailed, RacesRules DEF CountsFail
<1>7. CASE UNCHANGED checkVars
  <2>1. /\ Wrong' = Wrong /\ CaseShape' /\ CheckShape'
        /\ UNCHANGED <<check, ever, during, log, rels, drawn, graphs, finds, events>>
        /\ Ids' = Ids /\ LaidOut' = LaidOut /\ Channels' = Channels
        /\ \A r, i : (Inert(r)' <=> Inert(r)) /\ (Keyless(r, i)' <=> Keyless(r, i))
    BY <1>1, <1>7 DEF RacesInv, CheckShape, CaseShape, Wrong, Problems, Inventory, LaidOut, Inert, Keyless,
       TailBehind, Ids, Channels, checkVars, caseVars, storeVars, fileVars
  <2>2. Explained(check.found)'
    BY <1>1, <2>1 DEF RacesInv, Explained, Pairs, Ever, Excused
  <2>3. InventoryHeld'
    BY <1>1, <2>1 DEF RacesInv, InventoryHeld, Ever, Missed
  <2>4. SecondHeld'
    BY <1>1, <2>1 DEF RacesInv, SecondHeld, TailHeld, TailBehind, EdgesHeld, RelationsHeld, KeysHeld, CountsHeld,
       FilesHeld, Ever, Missed
  <2>5. QED BY <1>1, <2>1, <2>2, <2>3, <2>4 DEF RacesInv
<1>8. QED BY <1>1, <1>2, <1>3, <1>4, <1>5, <1>6, <1>7 DEF CheckNext

\* What the report says was wrong was wrong at some time while the check ran, unless all that its
\* detector mistakes for damage came between its two reads, or a count that failed is owned up to.
THEOREM FalseAlarmsAreRaces == CheckSpec => []OnlyRacesMislead
<1>1. RacesInv => OnlyRacesMislead
  BY DEF RacesInv, Explained, Pairs, Ever, OnlyRacesMislead
<1>2. QED BY <1>1, InitRaces, StepRaces, PTL DEF CheckSpec
-----------------------------------------------------------------------------
(* What is left of a document.                                                 *)

LEMMA Least ==
    ASSUME NEW S, S \subseteq Nat, S # {}
    PROVE  Min(S) \in S /\ \A y \in S : Min(S) <= y
<1> DEFINE R == {ss \in Nat \X Nat : ss[1] < ss[2]}
<1>1. IsWellFoundedOn(R, Nat)
  BY NatLessThanWellFounded DEF OpToRel
<1>2. \A x, y \in Nat : y < x => <<y, x>> \in R
  OBVIOUS
<1> HIDE DEF R
<1>3. PICK x \in S : \A y \in S : ~(<<y, x>> \in R)
  BY <1>1, WFMin
<1>4. \A y \in S : x <= y
  <2>1. TAKE y \in S
  <2>2. x \in Nat /\ y \in Nat /\ ~(y < x)
    BY <1>2, <1>3
  <2>3. QED BY <2>2
<1>5. QED BY <1>4 DEF Min

\* The recursive function of Without, as far as n.
Filters(f, entries, gone, n) ==
    f = [k \in 0 .. n |->
            IF k = 0 THEN <<>>
            ELSE IF entries[k] \in gone THEN f[k - 1] ELSE Append(f[k - 1], entries[k])]

LEMMA FilterExists ==
    ASSUME NEW entries, NEW gone, NEW n \in Nat
    PROVE  \E f : Filters(f, entries, gone, n)
<1> DEFINE Bad == {k \in Nat : ~\E f : Filters(f, entries, gone, k)}
<1>1. SUFFICES ASSUME Bad # {} PROVE FALSE
  OBVIOUS
<1>2. PICK k \in Bad : \A j \in Bad : k <= j
  BY <1>1, Least
<1>3. CASE k = 0
  <2>1. Filters([j \in 0 .. 0 |-> <<>>], entries, gone, 0)
    BY DEF Filters
  <2>2. QED BY <1>2, <1>3, <2>1
<1>4. CASE k # 0
  <2>1. k - 1 \in Nat /\ k - 1 \notin Bad
    BY <1>2, <1>4
  <2>2. PICK f : Filters(f, entries, gone, k - 1)
    BY <2>1
  <2> DEFINE next == IF entries[k] \in gone THEN f[k - 1] ELSE Append(f[k - 1], entries[k])
             g == [j \in 0 .. k |-> IF j = k THEN next ELSE f[j]]
  <2>3. /\ g[k] = next
        /\ \A j \in 0 .. k - 1 : g[j] = f[j]
    BY <2>1
  <2>4. \A j \in 0 .. k : g[j] = IF j = 0 THEN <<>>
                                 ELSE IF entries[j] \in gone THEN g[j - 1]
                                 ELSE Append(g[j - 1], entries[j])
    <3>1. TAKE j \in 0 .. k
    <3>2. CASE j = k
      BY <1>4, <2>1, <2>3, <3>2
    <3>3. CASE j # k
      <4>1. j \in 0 .. k - 1 /\ (j # 0 => j - 1 \in 0 .. k - 1)
        BY <2>1, <3>3
      <4>2. f[j] = IF j = 0 THEN <<>>
                   ELSE IF entries[j] \in gone THEN f[j - 1] ELSE Append(f[j - 1], entries[j])
        BY <2>2, <4>1 DEF Filters
      <4> HIDE DEF g
      <4>3. QED BY <2>3, <4>1, <4>2
    <3>4. QED BY <3>2, <3>3
  <2>5. DOMAIN g = 0 .. k
    OBVIOUS
  <2>6. g = [j \in 0 .. k |-> g[j]]
    OBVIOUS
  <2> HIDE DEF g
  <2>7. Filters(g, entries, gone, k)
    BY <2>4, <2>6 DEF Filters
  <2>8. QED BY <1>2, <2>7
<1>5. QED BY <1>3, <1>4

\* What is left is in the sequence, and what is not gone is left.
LEMMA WhatIsLeft ==
    ASSUME NEW S, NEW entries \in Seq(S), NEW gone
    PROVE  /\ Without(entries, gone) \in Seq(S)
           /\ Range(entries) \ gone \subseteq Range(Without(entries, gone))
<1> DEFINE n == Len(entries)
           left == CHOOSE f : Filters(f, entries, gone, n)
           Fits(k) == /\ left[k] \in Seq(S)
                      /\ \A i \in 1 .. k : entries[i] \notin gone => entries[i] \in Range(left[k])
           Bad == {k \in 0 .. n : ~Fits(k)}
<1>1. n \in Nat /\ entries \in [1 .. n -> S]
  OBVIOUS
<1>2. Filters(left, entries, gone, n)
  BY <1>1, FilterExists
<1>3. Without(entries, gone) = left[n]
  BY DEF Without, Filters
<1> HIDE DEF left, n
<1>4. \A k \in 0 .. n : left[k] = IF k = 0 THEN <<>>
                                  ELSE IF entries[k] \in gone THEN left[k - 1]
                                  ELSE Append(left[k - 1], entries[k])
  BY <1>2 DEF Filters
<1>5. ASSUME Bad # {} PROVE FALSE
  <2>1. PICK k \in Bad : \A j \in Bad : k <= j
    <3>1. Bad \subseteq Nat
      BY <1>1
    <3>2. QED BY <1>5, <3>1, Least
  <2>2. k \in 0 .. n /\ ~Fits(k)
    OBVIOUS
  <2>3. CASE k = 0
    <3>1. left[0] = <<>>
      BY <1>1, <1>4
    <3>2. QED BY <2>2, <2>3, <3>1
  <2>4. CASE k # 0
    <3>1. k - 1 \in 0 .. n /\ k - 1 \notin Bad /\ k \in 1 .. n /\ 1 .. k = (1 .. k - 1) \cup {k}
      BY <1>1, <2>1, <2>2, <2>4
    <3>2. Fits(k - 1)
      BY <3>1
    <3>3. CASE entries[k] \in gone
      <4>1. left[k] = left[k - 1]
        BY <1>4, <2>2, <2>4, <3>3
      <4>2. QED BY <2>2, <3>1, <3>2, <3>3, <4>1
    <3>4. CASE entries[k] \notin gone
      <4> DEFINE old == left[k - 1]
      <4>1. left[k] = Append(old, entries[k])
        BY <1>4, <2>2, <2>4, <3>4
      <4>2. old \in Seq(S) /\ entries[k] \in S
        BY <1>1, <3>1, <3>2
      <4> HIDE DEF old
      <4>3. /\ Append(old, entries[k]) \in Seq(S)
            /\ Range(Append(old, entries[k])) = Range(old) \cup {entries[k]}
        <5>1. /\ Len(Append(old, entries[k])) = Len(old) + 1
              /\ DOMAIN Append(old, entries[k]) = 1 .. Len(old) + 1
              /\ \A i \in 1 .. Len(old) : Append(old, entries[k])[i] = old[i]
              /\ Append(old, entries[k])[Len(old) + 1] = entries[k]
              /\ Len(old) \in Nat /\ DOMAIN old = 1 .. Len(old)
          BY <4>2
        <5>2. QED BY <4>2, <5>1 DEF Range
      <4>4. QED BY <2>2, <3>1, <3>2, <4>1, <4>3 DEF old
    <3>5. QED BY <3>3, <3>4
  <2>5. QED BY <2>3, <2>4
<1>6. Fits(n)
  BY <1>1, <1>5
<1>7. QED BY <1>1, <1>3, <1>6 DEF Range

-----------------------------------------------------------------------------
(* Snapshots and notes: what is so between the steps of a call.                *)

\* A document, whatever its layers and items say.
IsDocument(doc) ==
    /\ doc = [layers |-> doc.layers, items |-> doc.items]
    /\ doc.items \in Seq(Range(doc.items))

\* A document that has every note that may not go, k.notes being what they may stand as and
\* k.shared those that may.
Holds(k, doc) ==
    /\ IsDocument(doc) /\ Twins(doc.items) \subseteq k.shared
    /\ \A n \in k.notes : n.uid \in k.shared \/ \E it \in Range(doc.items) : it.uid = n.uid /\ it \in k.notes
FileHolds(k, file) == (file = NoFile => k.notes = {}) /\ (file # NoFile => Holds(k, file))

\* What was acknowledged is in the copy in memory as well, which the next call writes.
NotesHeld ==
    /\ docs = [g \in GraphIds |-> docs[g]] /\ docFiles = [g \in GraphIds |-> docFiles[g]]
    /\ kept = [g \in GraphIds |-> [notes |-> kept[g].notes, shared |-> kept[g].shared]]
    /\ \A g \in GraphIds : (docs[g] = Unread \/ Holds(kept[g], docs[g])) /\ FileHolds(kept[g], docFiles[g])
SnapsHeld ==
    /\ IsFiniteSet(snaps) /\ taken \subseteq snaps
    /\ \A s \in snaps : s.graph \in 1 .. made
    /\ take.at # "none" => take.graph \in 1 .. made

\* The events of a restore are those of the case, as long as the case has them.
Planned == {"layout", "merge", "links"}
RestoreShape ==
    /\ restore.at \in {"none", "events", "relations"} \cup Planned
    /\ restore.at = "none" => restore = NoRestore
    /\ restore.at # "none" => restore.graph \in 1 .. made
    /\ restore.at = "events" =>
          restore = [graph |-> restore.graph, at |-> restore.at, doc |-> restore.doc,
                     quiet |-> restore.quiet]
    /\ restore.at = "relations" =>
          restore = [graph |-> restore.graph, at |-> restore.at, doc |-> restore.doc,
                     quiet |-> restore.quiet, live |-> restore.live]
    /\ restore.at \in Planned =>
          restore = [graph |-> restore.graph, at |-> restore.at, doc |-> restore.doc,
                     quiet |-> restore.quiet, live |-> restore.live, puts |-> restore.puts,
                     wanted |-> restore.wanted, last |-> restore.last, todo |-> restore.todo]
LiveFits ==
    restore.at \in {"relations"} \cup Planned =>
        /\ \A l \in restore.live : l.id \in Nat /\ l.id <= stored
        /\ \A l, m \in restore.live : l.id = m.id => l.hash = m.hash
        /\ \A l \in restore.live, e \in events : e.id = l.id => e.hash = l.hash
        /\ restore.quiet => \A l \in restore.live : l.id \in Ids
PutsFit ==
    restore.at \in Planned =>
        /\ \A p \in restore.puts : /\ p.id \in Nat
                                   /\ \/ p.hash = "kept"
                                      \/ \E l \in restore.live : l.id = p.id /\ l.hash = p.hash
        /\ Positions(restore.doc, restore.live) \subseteq restore.puts
        /\ restore.at = "links" /\ restore.quiet =>
              \A p \in restore.puts : p.id \in Canvas(restore.graph)
Joined(l) ==
    \E r \in rels : /\ r.graph = restore.graph
                    /\ r.from = Resolve(l.from, restore.live) /\ r.to = Resolve(l.to, restore.live)
                    /\ r.indexed \/ r.id = restore.last
LinksFit ==
    restore.at \in Planned /\ restore.quiet /\ restore.wanted =>
        \A l \in Resolvable(restore.doc, restore.live) : l \in restore.todo \/ Joined(l)

RestoreFits == RestoreShape /\ LiveFits /\ PutsFit /\ LinksFit

EventsFixed == \A e, d \in events : e.id = d.id => e.hash = d.hash
SnapshotInv ==
    /\ CaseShape /\ made <= MaxGraphs /\ EventsFixed
    /\ NotesHeld /\ SnapsHeld /\ RestoreFits

-----------------------------------------------------------------------------
(* The notes                                                                   *)

LEMMA OfItsOwn ==
    ASSUME NEW S, NEW entries \in Seq(S)
    PROVE  entries \in Seq(Range(entries)) /\ Range(entries) \subseteq S
<1>1. /\ Len(entries) \in Nat /\ DOMAIN entries = 1 .. Len(entries)
      /\ entries \in [1 .. Len(entries) -> Range(entries)] /\ Range(entries) \subseteq S
  BY DEF Range
<1>2. QED BY <1>1, SeqDef

LEMMA DocumentsDiffer ==
    ASSUME NEW doc, IsDocument(doc)
    PROVE  doc # Unread /\ doc # NoFile
<1>1. DOMAIN doc = {"layers", "items"}
  BY DEF IsDocument
<1>2. DOMAIN Unread = {"doc"} /\ DOMAIN NoFile = {"doc"}
  BY DEF Unread, NoFile
<1>3. QED BY <1>1, <1>2

LEMMA EmptyIsDocument == IsDocument(EmptyDoc)
<1>1. <<>> \in Seq(Range(<<>>))
  OBVIOUS
<1>2. EmptyDoc.items = <<>> /\ EmptyDoc = [layers |-> EmptyDoc.layers, items |-> EmptyDoc.items]
  BY DEF EmptyDoc
<1>3. QED BY <1>1, <1>2 DEF IsDocument

LEMMA OtherNotes ==
    ASSUME NEW k, k = [notes |-> k.notes, shared |-> k.shared], NEW S
    PROVE  [k EXCEPT !.notes = S] = [notes |-> S, shared |-> k.shared]
OBVIOUS

LEMMA EmptyHolds == ASSUME NEW k, k.notes = {} PROVE Holds(k, EmptyDoc)
<1>1. Range(EmptyDoc.items) = {}
  BY DEF EmptyDoc, Range
<1>2. QED BY <1>1, EmptyIsDocument DEF Holds, Twins

\* The notes a call starts from.
LEMMA CurrentDoc ==
    ASSUME NotesHeld, NEW g \in GraphIds
    PROVE  /\ Holds(kept[g], Doc(g)) /\ FileHolds(kept[g], docFiles[g])
           /\ kept[g] = [notes |-> kept[g].notes, shared |-> kept[g].shared]
BY EmptyHolds DEF NotesHeld, FileHolds, Doc

\* A call that leaves `doc`, and in which `k` is what was acknowledged.
LEMMA PersistKeeps ==
    ASSUME NotesHeld, NEW g \in GraphIds, NEW doc, NEW ok \in BOOLEAN, Persist(g, doc, ok),
           NEW k, k = [notes |-> k.notes, shared |-> k.shared], kept' = [kept EXCEPT ![g] = k],
           Holds(k, doc), ok \/ FileHolds(k, docFiles[g])
    PROVE  NotesHeld'
<1>1. /\ docs' = [docs EXCEPT ![g] = doc]
      /\ docFiles' = IF ok THEN [docFiles EXCEPT ![g] = doc] ELSE docFiles
  BY DEF Persist
<1>2. doc # NoFile
  BY DocumentsDiffer DEF Holds
<1>3. /\ docs = [h \in GraphIds |-> docs[h]] /\ docFiles = [h \in GraphIds |-> docFiles[h]]
      /\ kept = [h \in GraphIds |-> [notes |-> kept[h].notes, shared |-> kept[h].shared]]
  BY DEF NotesHeld
<1>4. /\ docs' = [h \in GraphIds |-> docs'[h]] /\ docFiles' = [h \in GraphIds |-> docFiles'[h]]
      /\ \A h \in GraphIds : kept'[h] = IF h = g THEN k ELSE kept[h]
      /\ DOMAIN kept' = GraphIds /\ kept' = [h \in GraphIds |-> kept'[h]]
  BY <1>1, <1>3
<1>5. kept' = [h \in GraphIds |-> [notes |-> kept'[h].notes, shared |-> kept'[h].shared]]
  <2>1. \A h \in GraphIds : kept'[h] = [notes |-> kept'[h].notes, shared |-> kept'[h].shared]
    BY <1>3, <1>4
  <2>2. QED BY <1>4, <2>1
<1>6. ASSUME NEW h \in GraphIds
      PROVE  (docs'[h] = Unread \/ Holds(kept'[h], docs'[h])) /\ FileHolds(kept'[h], docFiles'[h])
  <2>1. CASE h = g
    <3>1. docs'[h] = doc /\ kept'[h] = k /\ docFiles'[h] = IF ok THEN doc ELSE docFiles[h]
      BY <1>1, <1>3, <1>4, <2>1
    <3>2. QED BY <1>2, <2>1, <3>1 DEF FileHolds
  <2>2. CASE h # g
    <3>1. docs'[h] = docs[h] /\ kept'[h] = kept[h] /\ docFiles'[h] = docFiles[h]
      BY <1>1, <1>3, <1>4, <2>2
    <3>2. QED BY <3>1 DEF NotesHeld
  <2>3. QED BY <2>1, <2>2
<1>7. QED BY <1>4, <1>5, <1>6 DEF NotesHeld

\* Less is asked for when the deletion of notes is.
LEMMA FewerNotes ==
    ASSUME NEW k, NEW uids, NEW left,
           \A n : n \in left.notes <=> n \in k.notes /\ n.uid \notin uids, left.shared = k.shared
    PROVE  /\ \A doc : Holds(k, doc) => Holds(left, doc)
           /\ \A file : FileHolds(k, file) => FileHolds(left, file)
<1>1. ASSUME NEW doc, Holds(k, doc) PROVE Holds(left, doc)
  <2>1. ASSUME NEW n \in left.notes, n.uid \notin left.shared
        PROVE  \E it \in Range(doc.items) : it.uid = n.uid /\ it \in left.notes
    <3>1. n \in k.notes /\ n.uid \notin k.shared /\ n.uid \notin uids
      BY <2>1
    <3>2. PICK it \in Range(doc.items) : it.uid = n.uid /\ it \in k.notes
      BY <1>1, <3>1 DEF Holds
    <3>3. QED BY <3>1, <3>2
  <2>2. QED BY <1>1, <2>1 DEF Holds
<1>2. \A file : FileHolds(k, file) => FileHolds(left, file)
  BY <1>1 DEF FileHolds
<1>3. QED BY <1>1, <1>2

\* What goes from a document is not asked for any more, or shares its id.
LEMMA LessHolds ==
    ASSUME NEW k, NEW doc, Holds(k, doc), NEW left, IsDocument(left),
           Range(left.items) \subseteq Range(doc.items),
           \A it \in Range(doc.items) \ Range(left.items) :
               it.uid \in k.shared \/ \A n \in k.notes : n.uid # it.uid
    PROVE  Holds(k, left)
<1>1. Twins(left.items) \subseteq Twins(doc.items)
  BY DEF Twins
<1>2. ASSUME NEW n \in k.notes, n.uid \notin k.shared
      PROVE  \E it \in Range(left.items) : it.uid = n.uid /\ it \in k.notes
  <2>1. PICK it \in Range(doc.items) : it.uid = n.uid /\ it \in k.notes
    BY <1>2 DEF Holds
  <2>2. QED BY <1>2, <2>1
<1>3. QED BY <1>1, <1>2 DEF Holds

LEMMA DropItemLeaves ==
    ASSUME NEW doc, IsDocument(doc), NEW id, NEW left, left = DropItem(doc, id)
    PROVE  /\ IsDocument(left) /\ Range(left.items) \subseteq Range(doc.items)
           /\ \A it \in Range(doc.items) \ Range(left.items) : it.id = id
<1> DEFINE gone == {it \in Range(doc.items) : it.id = id}
           items == Without(doc.items, gone)
<1>1. /\ items \in Seq(Range(doc.items))
      /\ Range(doc.items) \ gone \subseteq Range(items)
  BY WhatIsLeft DEF IsDocument
<1>2. items \in Seq(Range(items)) /\ Range(items) \subseteq Range(doc.items)
  BY <1>1, OfItsOwn
<1>3. left = [layers |-> doc.layers, items |-> items]
  BY DEF DropItem, IsDocument
<1>4. \A it \in Range(doc.items) \ Range(items) : it.id = id
  BY <1>1
<1> HIDE DEF items
<1>5. QED BY <1>2, <1>3, <1>4 DEF IsDocument

LEMMA DropLayerLeaves ==
    ASSUME NEW doc, IsDocument(doc), NEW id, NEW left, left = DropLayer(doc, id)
    PROVE  /\ IsDocument(left) /\ Range(left.items) \subseteq Range(doc.items)
           /\ \A it \in Range(doc.items) \ Range(left.items) : it.layer = id
<1> DEFINE gone == {it \in Range(doc.items) : it.layer = id}
           items == Without(doc.items, gone)
<1>1. /\ items \in Seq(Range(doc.items))
      /\ Range(doc.items) \ gone \subseteq Range(items)
  BY WhatIsLeft DEF IsDocument
<1>2. items \in Seq(Range(items)) /\ Range(items) \subseteq Range(doc.items)
  BY <1>1, OfItsOwn
<1>3. left = [layers |-> left.layers, items |-> items]
  BY DEF DropLayer
<1>4. \A it \in Range(doc.items) \ Range(items) : it.layer = id
  BY <1>1
<1> HIDE DEF items
<1>5. left.items = items
  BY <1>3
<1>6. QED BY <1>2, <1>3, <1>4, <1>5 DEF IsDocument

LEMMA LayersLeaveItems ==
    ASSUME NEW doc, IsDocument(doc), NEW now, NEW id, NEW z
    PROVE  /\ IsDocument(AddLayer(doc, now)) /\ AddLayer(doc, now).items = doc.items
           /\ IsDocument(RestackLayer(doc, id, z)) /\ RestackLayer(doc, id, z).items = doc.items
<1>1. ASSUME NEW layers
      PROVE  LET d == [doc EXCEPT !.layers = layers] IN IsDocument(d) /\ d.items = doc.items
  BY DEF IsDocument
<1>2. RestackLayer(doc, id, z) =
         [doc EXCEPT !.layers = [doc.layers EXCEPT ![Position(doc.layers, id)].z = z]]
  BY DEF RestackLayer, IsDocument
<1>3. AddLayer(doc, now) =
         [doc EXCEPT !.layers = Append(doc.layers, [id |-> NewId(now, doc.layers), z |-> NextZ(doc.layers)])]
  BY DEF AddLayer, IsDocument
<1>4. QED BY <1>1, <1>2, <1>3

\* The place of an id that is there.
LEMMA PositionOf ==
    ASSUME NEW S, NEW entries \in Seq(S), NEW id \in IdsOf(entries)
    PROVE  /\ Position(entries, id) \in 1 .. Len(entries)
           /\ entries[Position(entries, id)].id = id
<1> DEFINE at == {i \in 1 .. Len(entries) : entries[i].id = id}
<1>1. at # {} /\ at \subseteq Nat
  BY DEF IdsOf
<1>2. Position(entries, id) = Min(at)
  BY <1>1 DEF Position, SelectInSeq
<1>3. Min(at) \in at
  BY <1>1, Least
<1>4. QED BY <1>2, <1>3

\* The first note of the id makes room for the new one, which is still that note; or it is added.
LEMMA PutLeaves ==
    ASSUME NEW doc, IsDocument(doc), NEW it, NEW now, NEW uid, NEW new, new = Put(doc, it, now, uid)
    PROVE  /\ IsDocument(new)
           /\ Updates(doc, it) => \E at \in DOMAIN doc.items :
                 /\ doc.items[at].id = it.id
                 /\ Item(doc, it, now, doc.items[at].uid) \in Range(new.items)
                 /\ \A j \in DOMAIN doc.items : j # at => doc.items[j] \in Range(new.items)
           /\ ~Updates(doc, it) => /\ Item(doc, it, now, uid) \in Range(new.items)
                                   /\ Range(doc.items) \subseteq Range(new.items)
<1> DEFINE d     == WithLayer(doc, it, now)
           at    == Position(doc.items, it.id)
           item  == Item(doc, it, now, IF Updates(doc, it) THEN doc.items[at].uid ELSE uid)
           items == IF Updates(doc, it) THEN [doc.items EXCEPT ![at] = item] ELSE Append(doc.items, item)
           S     == Range(doc.items) \cup {item}
<1>1. IsDocument(d) /\ d.items = doc.items
  BY LayersLeaveItems DEF WithLayer
<1>2. new = [layers |-> d.layers, items |-> items]
  <2>1. CASE Updates(doc, it)
    <3>1. new = [d EXCEPT !.items = [d.items EXCEPT ![at] = item]]
      BY <2>1 DEF Put
    <3> HIDE DEF d, item, at
    <3>2. QED BY <1>1, <2>1, <3>1 DEF IsDocument
  <2>2. CASE ~Updates(doc, it)
    <3>1. new = [d EXCEPT !.items = Append(d.items, item)]
      BY <2>2 DEF Put
    <3> HIDE DEF d, item
    <3>2. QED BY <1>1, <2>2, <3>1 DEF IsDocument
  <2>3. QED BY <2>1, <2>2
<1>3. doc.items \in Seq(S) /\ item \in S
  <2>1. doc.items \in Seq(Range(doc.items))
    BY DEF IsDocument
  <2>2. QED BY <2>1, SeqMonotonic
<1>4. CASE Updates(doc, it)
  <2>1. at \in 1 .. Len(doc.items) /\ doc.items[at].id = it.id
    <3>1. it.id \in IdsOf(doc.items)
      BY <1>4 DEF Updates
    <3> HIDE DEF S
    <3>2. QED BY <1>3, <3>1, PositionOf
  <2>2. item = Item(doc, it, now, doc.items[at].uid)
    BY <1>4
  <2> HIDE DEF S, item, d, at
  <2>3. /\ items \in Seq(S) /\ DOMAIN items = DOMAIN doc.items /\ DOMAIN doc.items = 1 .. Len(doc.items)
        /\ \A j \in DOMAIN doc.items : items[j] = IF j = at THEN item ELSE doc.items[j]
    BY <1>3, <1>4, <2>1, ExceptSeq, LenProperties
  <2>4. items \in Seq(Range(items))
    BY <2>3, OfItsOwn
  <2>5. new.items = items /\ IsDocument(new)
    BY <1>2, <2>4 DEF IsDocument
  <2> HIDE DEF items
  <2>6. QED BY <1>4, <2>1, <2>2, <2>3, <2>5 DEF Range
<1>5. CASE ~Updates(doc, it)
  <2>1. item = Item(doc, it, now, uid)
    BY <1>5
  <2> HIDE DEF S, item, d, at
  <2>2. /\ items \in Seq(S)
        /\ DOMAIN items = 1 .. Len(doc.items) + 1
        /\ \A i \in 1 .. Len(doc.items) : items[i] = doc.items[i]
        /\ items[Len(doc.items) + 1] = item
        /\ Len(doc.items) \in Nat /\ DOMAIN doc.items = 1 .. Len(doc.items)
    BY <1>3, <1>5
  <2>3. items \in Seq(Range(items))
    BY <2>2, OfItsOwn
  <2>4. new.items = items /\ IsDocument(new)
    BY <1>2, <2>3 DEF IsDocument
  <2> HIDE DEF items
  <2>5. QED BY <1>5, <2>1, <2>2, <2>4 DEF Range
<1>6. QED BY <1>4, <1>5

\* What a saving promises is in the document it leaves, and in the file if that is not written.
LEMMA PromiseHolds ==
    ASSUME NEW k, NEW doc, Holds(k, doc), NEW it, NEW now, NEW uid, NEW ok \in BOOLEAN,
           Updates(doc, it) => \E i \in DOMAIN doc.items : doc.items[i].id = it.id /\ doc.items[i].uid = uid,
           NEW new, new = Put(doc, it, now, uid), NEW note, note = Item(doc, it, now, uid),
           NEW others, \A n : n \in others <=> n \in k.notes /\ n.uid # note.uid,
           NEW kk, kk.shared = k.shared \cup Twins(new.items),
           ok => kk.notes = others \cup {note},
           ~ok => kk.notes = IF others # k.notes THEN k.notes \cup {note} ELSE k.notes
    PROVE  /\ Holds(kk, new)
           /\ \A file : ~ok /\ FileHolds(k, file) => FileHolds(kk, file)
<1>1. IsDocument(doc) /\ IsDocument(new) /\ note.uid = uid
  BY PutLeaves DEF Holds, Item
<1>2. /\ k.shared \subseteq kk.shared /\ Twins(new.items) \subseteq kk.shared
      /\ \A n : n.uid # uid => (n \in kk.notes <=> n \in k.notes)
      /\ (\E n \in kk.notes : n.uid = uid) => note \in kk.notes
      /\ ~ok => k.notes \subseteq kk.notes
      /\ ~ok /\ note \in kk.notes => \E n \in k.notes : n.uid = uid
      /\ ~ok => kk.notes \subseteq k.notes \cup {note}
  BY <1>1
<1>3. ASSUME NEW n \in kk.notes, n.uid \notin kk.shared
      PROVE  \E x \in Range(new.items) : x.uid = n.uid /\ x \in kk.notes
  <2>1. \A i, j \in DOMAIN doc.items :
            doc.items[i].id = doc.items[j].id /\ doc.items[i].uid = n.uid => doc.items[j].uid = n.uid
    <3>1. ASSUME NEW i \in DOMAIN doc.items, NEW j \in DOMAIN doc.items,
                 doc.items[i].id = doc.items[j].id, doc.items[i].uid = n.uid, doc.items[j].uid # n.uid
          PROVE  FALSE
      <4>1. n.uid \in Twins(doc.items)
        BY <3>1 DEF Twins, Range
      <4>2. QED BY <1>2, <1>3, <4>1 DEF Holds
    <3>2. QED BY <3>1
  <2>2. CASE n.uid = uid
    <3>1. note \in kk.notes
      BY <1>2, <1>3, <2>2
    <3>2. note \in Range(new.items)
      <4>1. CASE Updates(doc, it)
        <5>1. PICK at \in DOMAIN doc.items :
                  doc.items[at].id = it.id /\ Item(doc, it, now, doc.items[at].uid) \in Range(new.items)
          BY <1>1, <4>1, PutLeaves
        <5>2. PICK i \in DOMAIN doc.items : doc.items[i].id = it.id /\ doc.items[i].uid = uid
          BY <4>1
        <5>3. doc.items[at].uid = uid
          BY <2>1, <2>2, <5>1, <5>2
        <5>4. QED BY <5>1, <5>3
      <4>2. CASE ~Updates(doc, it)
        BY <1>1, <4>2, PutLeaves
      <4>3. QED BY <4>1, <4>2
    <3>3. QED BY <1>1, <2>2, <3>1, <3>2
  <2>3. CASE n.uid # uid
    <3>1. n \in k.notes /\ n.uid \notin k.shared
      BY <1>2, <1>3, <2>3
    <3>2. PICK x \in Range(doc.items) : x.uid = n.uid /\ x \in k.notes
      BY <3>1 DEF Holds
    <3>3. x \in Range(new.items)
      <4>1. CASE Updates(doc, it)
        <5>1. PICK at \in DOMAIN doc.items :
                  /\ doc.items[at].id = it.id
                  /\ \A j \in DOMAIN doc.items : j # at => doc.items[j] \in Range(new.items)
          BY <1>1, <4>1, PutLeaves
        <5>2. PICK i \in DOMAIN doc.items : doc.items[i].id = it.id /\ doc.items[i].uid = uid
          BY <4>1
        <5>3. PICK j \in DOMAIN doc.items : doc.items[j] = x
          BY DEF Range
        <5>4. j # at
          BY <2>1, <2>3, <3>2, <5>1, <5>2, <5>3
        <5>5. QED BY <5>1, <5>3, <5>4
      <4>2. CASE ~Updates(doc, it)
        BY <1>1, <4>2, PutLeaves
      <4>3. QED BY <4>1, <4>2
    <3>4. QED BY <1>2, <2>3, <3>2, <3>3
  <2>4. QED BY <2>2, <2>3
<1>4. ASSUME NEW file, ~ok, FileHolds(k, file) PROVE FileHolds(kk, file)
  <2>1. CASE file = NoFile
    <3>1. k.notes = {}
      BY <1>4, <2>1 DEF FileHolds
    <3>2. kk.notes = {}
      BY <1>2, <1>4, <3>1
    <3>3. QED BY <2>1, <3>2 DEF FileHolds
  <2>2. CASE file # NoFile
    <3>1. Holds(k, file)
      BY <1>4, <2>2 DEF FileHolds
    <3>2. ASSUME NEW n \in kk.notes, n.uid \notin kk.shared
          PROVE  \E x \in Range(file.items) : x.uid = n.uid /\ x \in kk.notes
      <4>1. PICK m \in k.notes : m.uid = n.uid
        BY <1>1, <1>2, <1>4, <3>2
      <4>2. PICK x \in Range(file.items) : x.uid = m.uid /\ x \in k.notes
        BY <1>2, <3>1, <3>2, <4>1 DEF Holds
      <4>3. QED BY <1>2, <1>4, <4>1, <4>2
    <3>3. QED BY <1>2, <2>2, <3>1, <3>2 DEF Holds, FileHolds
  <2>3. QED BY <2>1, <2>2
<1>5. QED BY <1>1, <1>2, <1>3, <1>4 DEF Holds

LEMMA EditNotesKeeps ==
    ASSUME NotesHeld, made \in Nat, made <= MaxGraphs, EditNotes
    PROVE  NotesHeld'
<1>1. PICK g \in 1 .. made, ok \in BOOLEAN :
          \/ SaveLayer(g, ok) \/ DeleteLayer(g, ok) \/ SaveAnnotation(g, ok)
          \/ DeleteAnnotation(g, ok) \/ ReadNotes(g)
  BY DEF EditNotes
<1>2. g \in GraphIds
  BY BoundsAssumption DEF GraphIds
<1> DEFINE k == kept[g]
           doc == Doc(g)
<1>3. /\ Holds(k, doc) /\ FileHolds(k, docFiles[g]) /\ k = [notes |-> k.notes, shared |-> k.shared]
      /\ kept = [kept EXCEPT ![g] = k]
  BY <1>2, CurrentDoc DEF NotesHeld
<1>4. CASE SaveLayer(g, ok)
  <2>1. PICK new : Persist(g, new, ok) /\ IsDocument(new) /\ new.items = doc.items
    BY <1>3, <1>4, LayersLeaveItems DEF SaveLayer, Holds
  <2>2. Holds(k, new)
    BY <1>3, <2>1 DEF Holds
  <2>3. kept' = [kept EXCEPT ![g] = k]
    BY <1>3, <1>4 DEF SaveLayer
  <2> HIDE DEF k, doc
  <2>4. QED BY <1>2, <1>3, <2>1, <2>2, <2>3, PersistKeeps DEF k
<1>5. ASSUME NEW uids, Forget(g, uids), NEW left, Persist(g, left, ok), IsDocument(left),
             Range(left.items) \subseteq Range(doc.items),
             \A it \in Range(doc.items) \ Range(left.items) : it.uid \in k.shared \/ it.uid \in uids
      PROVE  NotesHeld'
  <2> DEFINE kk == [notes |-> {n \in k.notes : n.uid \notin uids}, shared |-> k.shared]
  <2>1. kept' = [kept EXCEPT ![g] = kk]
    <3> DEFINE S == {n \in k.notes : n.uid \notin uids}
    <3>1. kept' = [kept EXCEPT ![g] = [k EXCEPT !.notes = S]]
      BY <1>5 DEF Forget
    <3> HIDE DEF k, S
    <3>2. QED BY <1>3, <3>1, OtherNotes DEF S
  <2> HIDE DEF k, doc
  <2>2. Holds(kk, doc) /\ FileHolds(kk, docFiles[g])
    <3>1. kk.shared = k.shared /\ \A n : n \in kk.notes <=> n \in k.notes /\ n.uid \notin uids
      OBVIOUS
    <3> HIDE DEF kk
    <3>2. QED BY <1>3, <3>1, FewerNotes
  <2>3. Holds(kk, left)
    <3>1. \A it \in Range(doc.items) \ Range(left.items) :
              it.uid \in kk.shared \/ \A n \in kk.notes : n.uid # it.uid
      BY <1>5
    <3> HIDE DEF kk
    <3>2. QED BY <1>5, <2>2, <3>1, LessHolds
  <2>4. kk = [notes |-> kk.notes, shared |-> kk.shared]
    OBVIOUS
  <2> HIDE DEF kk
  <2>5. QED BY <1>2, <1>5, <2>1, <2>2, <2>3, <2>4, PersistKeeps
<1>6. CASE DeleteLayer(g, ok)
  <2>1. PICK id : /\ Persist(g, DropLayer(doc, id), ok)
                  /\ Forget(g, {it.uid : it \in {x \in Range(doc.items) : x.layer = id}})
    BY <1>6 DEF DeleteLayer
  <2>2. /\ IsDocument(DropLayer(doc, id)) /\ Range(DropLayer(doc, id).items) \subseteq Range(doc.items)
        /\ \A it \in Range(doc.items) \ Range(DropLayer(doc, id).items) : it.layer = id
    BY <1>3, DropLayerLeaves, ZenonT(30) DEF Holds
  <2> HIDE DEF k, doc
  <2>3. QED BY <1>5, <2>1, <2>2
<1>7. CASE SaveAnnotation(g, ok)
  <2>1. PICK at, uid, it :
            /\ at \in {0} \cup DOMAIN doc.items
            /\ uid = (IF at = 0 THEN calls + 1 ELSE doc.items[at].uid)
            /\ it.id = (IF at = 0 THEN NoId ELSE doc.items[at].id)
            /\ Persist(g, Put(doc, it, clock, uid), ok)
            /\ Promise(g, Item(doc, it, clock, uid), ok, Put(doc, it, clock, uid).items)
    BY <1>7 DEF SaveAnnotation
  <2> DEFINE new  == Put(doc, it, clock, uid)
             note == Item(doc, it, clock, uid)
             others == {n \in k.notes : n.uid # note.uid}
             kk == [notes |-> IF ok THEN others \cup {note}
                              ELSE IF others # k.notes THEN k.notes \cup {note} ELSE k.notes,
                    shared |-> k.shared \cup Twins(new.items)]
  <2>2. kept' = [kept EXCEPT ![g] = kk]
    BY <2>1 DEF Promise
  <2>3. Persist(g, new, ok)
    BY <2>1
  <2> HIDE DEF k, doc
  <2>4. Updates(doc, it) => \E i \in DOMAIN doc.items : doc.items[i].id = it.id /\ doc.items[i].uid = uid
    BY <2>1 DEF Updates
  <2>5. Holds(kk, new) /\ (ok \/ FileHolds(kk, docFiles[g]))
    <3>1. /\ new = Put(doc, it, clock, uid) /\ note = Item(doc, it, clock, uid)
          /\ \A n : n \in others <=> n \in k.notes /\ n.uid # note.uid
          /\ kk.shared = k.shared \cup Twins(new.items)
          /\ ok => kk.notes = others \cup {note}
          /\ ~ok => kk.notes = IF others # k.notes THEN k.notes \cup {note} ELSE k.notes
      OBVIOUS
    <3> HIDE DEF new, note, others, kk
    <3>2. QED BY <1>3, <2>4, <3>1, PromiseHolds, SMTT(30)
  <2>6. kk = [notes |-> kk.notes, shared |-> kk.shared]
    OBVIOUS
  <2> HIDE DEF kk, new
  <2>7. QED BY <1>2, <2>2, <2>3, <2>5, <2>6, PersistKeeps
<1>8. CASE DeleteAnnotation(g, ok)
  <2>1. PICK at, left :
            /\ at \in DOMAIN doc.items /\ left = DropItem(doc, doc.items[at].id) /\ Persist(g, left, ok)
            /\ Forget(g, {doc.items[at].uid})
    BY <1>8 DEF DeleteAnnotation
  <2> HIDE DEF k, doc
  <2>2. /\ IsDocument(left) /\ Range(left.items) \subseteq Range(doc.items)
        /\ \A it \in Range(doc.items) \ Range(left.items) : it.id = doc.items[at].id
    <3>1. IsDocument(doc)
      BY <1>3 DEF Holds
    <3>2. QED BY <2>1, <3>1, DropItemLeaves
  <2>4. \A it \in Range(doc.items) \ Range(left.items) : it.uid \in k.shared \/ it.uid \in {doc.items[at].uid}
    <3>1. TAKE it \in Range(doc.items) \ Range(left.items)
    <3>2. doc.items[at] \in Range(doc.items) /\ it.id = doc.items[at].id
      BY <2>1, <2>2 DEF Range
    <3>3. it.uid # doc.items[at].uid => it.uid \in Twins(doc.items)
      BY <3>2 DEF Twins
    <3>4. QED BY <1>3, <3>3 DEF Holds
  <2>5. QED BY <1>5, <2>1, <2>2, <2>4
<1>9. CASE ReadNotes(g)
  <2>1. docs' = [docs EXCEPT ![g] = doc] /\ UNCHANGED <<docFiles, kept>>
    BY <1>9 DEF ReadNotes
  <2>2. docs' = [h \in GraphIds |-> docs'[h]] /\ \A h \in GraphIds : docs'[h] = IF h = g THEN doc ELSE docs[h]
    <3>1. docs = [h \in GraphIds |-> docs[h]]
      BY DEF NotesHeld
    <3>2. QED BY <1>2, <2>1, <3>1
  <2> HIDE DEF doc
  <2>3. QED BY <1>3, <2>1, <2>2 DEF NotesHeld, k
<1>10. QED BY <1>1, <1>4, <1>6, <1>7, <1>8, <1>9

\* The other calls change the notes only by deleting the graph they are of, or forgetting the copy.
LEMMA NotesUntouched ==
    ASSUME NotesHeld, UNCHANGED <<docs, docFiles, kept>>
    PROVE  NotesHeld'
BY DEF NotesHeld

LEMMA EditGraphsKeeps ==
    ASSUME NotesHeld, EditGraphs
    PROVE  NotesHeld'
<1>1. CASE UNCHANGED <<docs, docFiles, kept>>
  BY <1>1, NotesUntouched
<1>2. ASSUME NEW ok \in BOOLEAN, DeleteNotes(deletion.graph, ok)
      PROVE  NotesHeld'
  <2> DEFINE g == deletion.graph
             uids == {k.uid : k \in kept[g].notes}
             rest == {n \in kept[g].notes : n.uid \notin uids}
             left == [notes |-> rest, shared |-> kept[g].shared]
  <2>0. rest = {}
    OBVIOUS
  <2>1. /\ docs' = [docs EXCEPT ![g] = Unread]
        /\ docFiles' = IF ok THEN [docFiles EXCEPT ![g] = NoFile] ELSE docFiles
        /\ kept' = [kept EXCEPT ![g] = [kept[g] EXCEPT !.notes = rest]]
    BY <1>2 DEF DeleteNotes, Forget
  <2> HIDE DEF g, uids
  <2>2. /\ docs = [h \in GraphIds |-> docs[h]] /\ docFiles = [h \in GraphIds |-> docFiles[h]]
        /\ kept = [h \in GraphIds |-> [notes |-> kept[h].notes, shared |-> kept[h].shared]]
    BY DEF NotesHeld
  <2>3. \A h \in GraphIds : kept'[h] = IF h = g THEN left ELSE kept[h]
    <3> HIDE DEF rest
    <3>1. g \in GraphIds => [kept[g] EXCEPT !.notes = rest] = left
      BY <2>2, OtherNotes
    <3> HIDE DEF left
    <3>2. QED BY <2>1, <2>2, <3>1
  <2>4. left = [notes |-> left.notes, shared |-> left.shared] /\ left.notes = {}
    BY <2>0
  <2>5. \A file : FileHolds(kept[g], file) => FileHolds(left, file)
    <3>1. left.shared = kept[g].shared /\ \A n : n \in left.notes <=> n \in kept[g].notes /\ n.uid \notin uids
      OBVIOUS
    <3> HIDE DEF left, rest
    <3>2. QED BY <3>1, FewerNotes
  <2>6. /\ docs' = [h \in GraphIds |-> docs'[h]] /\ docFiles' = [h \in GraphIds |-> docFiles'[h]]
        /\ kept' = [h \in GraphIds |-> kept'[h]]
    BY <2>1, <2>2
  <2> HIDE DEF left
  <2>7. kept' = [h \in GraphIds |-> [notes |-> kept'[h].notes, shared |-> kept'[h].shared]]
    <3>1. \A h \in GraphIds : kept'[h] = [notes |-> kept'[h].notes, shared |-> kept'[h].shared]
      BY <2>2, <2>3, <2>4
    <3>2. QED BY <2>6, <3>1
  <2>8. ASSUME NEW h \in GraphIds
        PROVE  (docs'[h] = Unread \/ Holds(kept'[h], docs'[h])) /\ FileHolds(kept'[h], docFiles'[h])
    <3>1. CASE h = g
      <4>1. docs'[h] = Unread /\ docFiles'[h] \in {NoFile, docFiles[h]} /\ kept'[h] = left
        BY <2>1, <2>2, <2>3, <3>1
      <4>2. FileHolds(left, NoFile) /\ FileHolds(left, docFiles[h])
        BY <2>4, <2>5, <3>1 DEF NotesHeld, FileHolds
      <4>3. QED BY <4>1, <4>2
    <3>2. CASE h # g
      <4>1. docs'[h] = docs[h] /\ docFiles'[h] = docFiles[h] /\ kept'[h] = kept[h]
        BY <2>1, <2>2, <2>3, <3>2
      <4>2. QED BY <4>1 DEF NotesHeld
    <3>3. QED BY <3>1, <3>2
  <2>9. QED BY <2>6, <2>7, <2>8 DEF NotesHeld
<1>3. QED
  BY <1>1, <1>2 DEF EditGraphs, CreateGraph, Unregister, DeleteRelations, DeleteLayout,
                    DeleteSnapshots, CascadeStops, fileVars

LEMMA RestartKeepsNotes ==
    ASSUME NotesHeld, Restart
    PROVE  NotesHeld'
<1>1. docs' = [g \in GraphIds |-> Unread] /\ UNCHANGED <<docFiles, kept>>
  BY DEF Restart
<1>2. QED BY <1>1 DEF NotesHeld

-----------------------------------------------------------------------------
(* The snapshots there are                                                     *)

LEMMA UsedIsFinite ==
    ASSUME IsFiniteSet(snaps), NEW g
    PROVE  IsFiniteSet(Used(g))
<1> DEFINE mine == {s \in snaps : s.graph = g}
           id == [s \in mine |-> s.id]
<1>1. IsFiniteSet(mine)
  BY FS_Subset
<1>2. id \in Surjection(mine, Used(g))
  BY DEF Surjection, Used
<1>3. QED BY <1>1, <1>2, FS_Surjection

\* One of more numbers than there are snapshots is free.
LEMMA FreeIdIsFree ==
    ASSUME IsFiniteSet(snaps), NEW g, NEW now, Cardinality(Used(g)) < MaxSnaps
    PROVE  FreeId(g, now) \notin Used(g)
<1> DEFINE free == {n \in 1 .. MaxSnaps + 1 : <<now, n>> \notin Used(g)}
           named == [n \in 1 .. MaxSnaps + 1 |-> <<now, n>>]
<1>1. MaxSnaps \in Nat
  BY SnapshotAssumption
<1>2. IsFiniteSet(Used(g))
  BY UsedIsFinite
<1>3. Cardinality(Used(g)) \in Nat
  BY <1>2, FS_CardinalityType
<1>4. ASSUME free = {} PROVE FALSE
  <2>1. named \in Injection(1 .. MaxSnaps + 1, Used(g))
    BY <1>4 DEF Injection, IsInjective
  <2>2. Cardinality(1 .. MaxSnaps + 1) <= Cardinality(Used(g))
    BY <1>2, <2>1, FS_Injection
  <2>3. Cardinality(1 .. MaxSnaps + 1) = MaxSnaps + 1
    <3>1. 1 \in Int /\ MaxSnaps + 1 \in Int /\ ~(1 > MaxSnaps + 1) /\ MaxSnaps + 1 - 1 + 1 = MaxSnaps + 1
      BY <1>1
    <3>2. QED BY <3>1, FS_Interval
  <2>4. QED BY <1>1, <1>3, <2>2, <2>3
<1>5. free \subseteq Nat
  BY <1>1
<1>6. Min(free) \in free
  BY <1>4, <1>5, Least
<1>7. FreeId(g, now) = <<now, Min(free)>>
  BY DEF FreeId
<1>8. QED BY <1>6, <1>7

LEMMA TakingKeeps ==
    ASSUME SnapsHeld, made \in Nat, Taking
    PROVE  SnapsHeld'
<1>1. UNCHANGED made
  BY DEF Taking
<1>2. ASSUME NEW g \in 1 .. made, BeginTake(g) PROVE SnapsHeld'
  <2>1. take'.graph = g /\ UNCHANGED <<snaps, taken>>
    BY <1>2 DEF BeginTake
  <2>2. QED BY <1>1, <2>1 DEF SnapsHeld
<1>3. CASE TakeRelations
  <2>1. take.at = "relations" /\ take'.graph = take.graph /\ UNCHANGED <<snaps, taken>>
    BY <1>3 DEF TakeRelations
  <2>2. QED BY <1>1, <2>1 DEF SnapsHeld
<1>4. CASE DeleteSnapshot
  <2>1. PICK s \in snaps : snaps' = snaps \ {s} /\ taken' = taken \ {s} /\ UNCHANGED take
    BY <1>4 DEF DeleteSnapshot
  <2>2. IsFiniteSet(snaps')
    BY <2>1, FS_Subset DEF SnapsHeld
  <2>3. QED BY <1>1, <2>1, <2>2 DEF SnapsHeld
<1>5. ASSUME NEW ok \in BOOLEAN, SaveSnapshot(ok) PROVE SnapsHeld'
  <2> DEFINE g == take.graph
             doc == Document(FreeId(g, clock))
             others == {s \in snaps : s.graph # doc.graph \/ s.id # doc.id}
  <2>1. take.at = "save" /\ take' = NoTake /\ g \in 1 .. made
    BY <1>5 DEF SaveSnapshot, SnapsHeld
  <2>2. CASE ok /\ Cardinality(Used(g)) < MaxSnaps
    <3>1. snaps' = others \cup {doc} /\ taken' = taken \cup {doc}
      BY <1>5, <2>2 DEF SaveSnapshot
    <3>2. doc.graph = g /\ doc.id = FreeId(g, clock)
      BY DEF Document
    <3>3. doc.id \notin Used(g)
      BY <2>2, <3>2, FreeIdIsFree DEF SnapsHeld
    <3> HIDE DEF doc
    <3>4. others = snaps
      BY <3>2, <3>3 DEF Used
    <3>5. IsFiniteSet(snaps \cup {doc})
      BY FS_AddElement DEF SnapsHeld
    <3> HIDE DEF others
    <3>6. QED BY <1>1, <2>1, <3>1, <3>2, <3>4, <3>5 DEF SnapsHeld, NoTake
  <2>3. CASE ~(ok /\ Cardinality(Used(g)) < MaxSnaps)
    <3>1. UNCHANGED <<snaps, taken>>
      BY <1>5, <2>3 DEF SaveSnapshot
    <3>2. QED BY <1>1, <2>1, <3>1 DEF SnapsHeld, NoTake
  <2>4. QED BY <2>2, <2>3
<1>6. QED BY <1>2, <1>3, <1>4, <1>5 DEF Taking

\* The steps beside take snapshots away, and their acknowledgement with them.
LEMMA SnapsTakenAway ==
    ASSUME SnapsHeld, made \in Nat, made' \in Nat, made <= made', snaps' \subseteq snaps,
           taken' = taken \cap snaps', take' \in {take, NoTake}
    PROVE  SnapsHeld'
<1>1. IsFiniteSet(snaps')
  BY FS_Subset DEF SnapsHeld
<1>2. QED BY <1>1 DEF SnapsHeld, NoTake

-----------------------------------------------------------------------------
(* What a call beside a restore leaves of the events and the relations         *)

\* No id comes to mean something else, and what is there stays joined and indexed.
Held ==
    /\ stored \in Nat /\ stored' \in Nat /\ stored <= stored'
    /\ \A e \in events : e.id \in Nat
    /\ \A e \in events' : /\ e.id \in Nat
                          /\ e.id > stored \/ \E d \in events : d.id = e.id /\ d.hash = e.hash
    /\ \A r \in rels : (\E q \in rels' : q.id = r.id) =>
           \E q \in rels' : /\ q.id = r.id /\ q.graph = r.graph /\ q.from = r.from /\ q.to = r.to
                            /\ r.indexed => q.indexed

Edits == EditNotes \/ EditFiles \/ EditStore \/ EditGraphs \/ Tick

LEMMA SameCase ==
    ASSUME CaseShape, UNCHANGED <<graphs, made, events, stored, log, rels, drawn, layouts, deletion>>
    PROVE  CaseShape'
BY DEF CaseShape

LEMMA EditKeepsShape ==
    ASSUME CaseShape, made <= MaxGraphs, Edits
    PROVE  CaseShape' /\ made' <= MaxGraphs /\ made <= made'
<1>1. made \in Nat /\ MaxGraphs \in Nat
  BY BoundsAssumption DEF CaseShape
<1>2. CASE EditNotes \/ Tick
  <2>1. UNCHANGED <<graphs, made, events, stored, log, rels, drawn, deletion>>
    BY <1>2 DEF EditNotes, Tick, storeVars
  <2>2. UNCHANGED layouts
    <3>1. CASE Tick
      BY <3>1 DEF Tick, fileVars
    <3>2. CASE EditNotes
      <4>1. PICK g \in 1 .. made, ok \in BOOLEAN :
                \/ SaveLayer(g, ok) \/ DeleteLayer(g, ok) \/ SaveAnnotation(g, ok)
                \/ DeleteAnnotation(g, ok) \/ ReadNotes(g)
        BY <3>2 DEF EditNotes
      <4>2. \A doc : Persist(g, doc, ok) => UNCHANGED layouts
        BY DEF Persist
      <4>3. QED
        BY <4>1, <4>2, ZenonT(30) DEF SaveLayer, DeleteLayer, SaveAnnotation, DeleteAnnotation, ReadNotes
    <3>3. QED BY <1>2, <3>1, <3>2
  <2>3. QED BY <1>1, <2>1, <2>2, SameCase
<1>3. CASE EditFiles \/ EditStore
  <2>1. UNCHANGED made
    BY <1>3 DEF EditFiles, EditStore
  <2>2. QED BY <1>1, <1>3, <2>1, EditFilesStep, EditStoreStep
<1>4. CASE EditGraphs
  <2>1. made' = made \/ (made < MaxGraphs /\ made' = made + 1)
    <3>1. CASE CreateGraph
      BY <3>1 DEF CreateGraph
    <3>2. CASE Unregister
      BY <3>2 DEF Unregister
    <3>3. QED BY <1>4, <3>1, <3>2 DEF EditGraphs
  <2>2. QED BY <1>1, <1>4, <2>1, EditGraphsStep
<1>5. QED BY <1>2, <1>3, <1>4 DEF Edits

LEMMA NothingMoved ==
    ASSUME CaseShape, UNCHANGED <<events, stored>>, rels' \subseteq rels
    PROVE  Held /\ (EventsFixed => EventsFixed')
<1>1. stored \in Nat /\ events \subseteq Events
  BY DEF CaseShape
<1>2. \A r \in rels, q \in rels' : r.id = q.id => r = q
  BY DEF CaseShape
<1>3. EventsFixed => EventsFixed'
  BY DEF EventsFixed
<1>4. \A e \in events : e.id \in Nat
  BY <1>1 DEF Events
<1>5. QED BY <1>1, <1>2, <1>3, <1>4 DEF Held

LEMMA EditHolds ==
    ASSUME CaseShape, EventsFixed, Edits
    PROVE  Held /\ EventsFixed'
<1>1. stored \in Nat /\ events \subseteq Events /\ rels \subseteq Relations /\ drawn \in Nat
  BY DEF CaseShape
<1>2. \A e \in events : e.id \in Nat /\ e.id <= stored
  BY <1>1 DEF CaseShape, Events
<1>3. CASE EditNotes \/ EditFiles \/ Tick
  <2>1. UNCHANGED <<events, stored, rels>>
    BY <1>3 DEF EditNotes, EditFiles, Tick, storeVars
  <2>2. QED BY <2>1, NothingMoved
<1>4. CASE EditGraphs
  <2>1. UNCHANGED <<events, stored>> /\ rels' \subseteq rels
    BY <1>4 DEF EditGraphs, CreateGraph, Unregister, DeleteRelations, DeleteLayout, DeleteSnapshots,
                DeleteNotes, CascadeStops
  <2>2. QED BY <2>1, NothingMoved
<1>5. CASE WritePayload \/ DeleteRelation
  <2>1. UNCHANGED <<events, stored>> /\ rels' \subseteq rels
    BY <1>5 DEF WritePayload, DeleteRelation
  <2>2. QED BY <2>1, NothingMoved
<1>6. CASE InsertEvent
  <2>1. PICK h \in Hashes :
            events' = events \cup {[id |-> stored', hash |-> h, current |-> TRUE, ref |-> log]}
    BY <1>6 DEF InsertEvent
  <2>2. stored' = stored + 1 /\ UNCHANGED rels
    BY <1>6 DEF InsertEvent
  <2> DEFINE e1 == [id |-> stored', hash |-> h, current |-> TRUE, ref |-> log]
  <2>7. events' = events \cup {e1} /\ e1.id = stored' /\ e1.hash = h
    BY <2>1, Zenon
  <2> HIDE DEF e1
  <2>3. \A e \in events' : e \in events \/ (e.id = stored + 1 /\ e.hash = h)
    BY <2>2, <2>7
  <2>4. Held
    BY <1>1, <1>2, <2>2, <2>3 DEF Held
  <2>5. EventsFixed'
    BY <1>1, <1>2, <2>3 DEF EventsFixed
  <2>6. QED BY <2>4, <2>5
<1>7. CASE Project
  <2>1. events' = {[e EXCEPT !.current = TRUE] : e \in events} /\ UNCHANGED <<stored, rels>>
    BY <1>7 DEF Project
  <2>2. \A e \in events' : \E d \in events : e.id = d.id /\ e.hash = d.hash
    <3>1. \A d \in events : LET e == [d EXCEPT !.current = TRUE] IN e.id = d.id /\ e.hash = d.hash
      BY <1>1 DEF Events
    <3>2. QED BY <2>1, <3>1
  <2>3. Held
    BY <1>1, <1>2, <2>1, <2>2 DEF Held
  <2>4. EventsFixed'
    BY <2>2 DEF EventsFixed
  <2>5. QED BY <2>3, <2>4
<1>8. CASE DeleteEvent
  <2>1. events' \subseteq events /\ UNCHANGED stored /\ rels' \subseteq rels
    BY <1>8 DEF DeleteEvent
  <2>2. \A r \in rels, q \in rels' : r.id = q.id => r = q
    BY <2>1 DEF CaseShape
  <2>3. Held
    BY <1>1, <1>2, <2>1, <2>2 DEF Held
  <2>4. QED BY <2>1, <2>3 DEF EventsFixed
<1>9. CASE (\E g \in 1 .. made : InsertRelation(g)) \/ IndexRelation
  <2>1. UNCHANGED <<events, stored>>
    BY <1>9 DEF InsertRelation, IndexRelation
  <2>2. \A r \in rels : (\E q \in rels' : q.id = r.id) =>
           \E q \in rels' : /\ q.id = r.id /\ q.graph = r.graph /\ q.from = r.from /\ q.to = r.to
                            /\ r.indexed => q.indexed
    <3>1. CASE \E g \in 1 .. made : InsertRelation(g)
      <4>1. rels \subseteq rels'
        BY <3>1 DEF InsertRelation
      <4>2. QED BY <4>1
    <3>2. CASE IndexRelation
      <4>1. PICK x \in rels : rels' = (rels \ {x}) \cup {[x EXCEPT !.indexed = TRUE]}
        BY <3>2 DEF IndexRelation
      <4> DEFINE y == [x EXCEPT !.indexed = TRUE]
      <4>2. y.id = x.id /\ y.graph = x.graph /\ y.from = x.from /\ y.to = x.to /\ y.indexed
        BY <1>1 DEF Relations
      <4> HIDE DEF y
      <4>3. QED BY <4>1, <4>2 DEF y
    <3>3. QED BY <1>9, <3>1, <3>2
  <2>3. Held
    BY <1>1, <1>2, <2>1, <2>2 DEF Held
  <2>4. QED BY <2>1, <2>3 DEF EventsFixed
<1>10. QED BY <1>3, <1>4, <1>5, <1>6, <1>7, <1>8, <1>9 DEF Edits, EditStore

-----------------------------------------------------------------------------
(* A restore beside the other calls                                            *)

\* Only the mark that something disturbed it changes, to v.
LEMMA MarkedRestore ==
    ASSUME RestoreShape, restore.at # "none", NEW v, restore' = [restore EXCEPT !.quiet = v]
    PROVE  /\ restore'.at = restore.at /\ restore'.graph = restore.graph /\ restore'.doc = restore.doc
           /\ restore'.quiet = v
           /\ restore.at \in {"relations"} \cup Planned => restore'.live = restore.live
           /\ restore.at \in Planned =>
                 /\ restore'.puts = restore.puts /\ restore'.wanted = restore.wanted
                 /\ restore'.last = restore.last /\ restore'.todo = restore.todo
           /\ restore.at = "events" =>
                 restore' = [graph |-> restore'.graph, at |-> restore'.at, doc |-> restore'.doc,
                             quiet |-> restore'.quiet]
           /\ restore.at = "relations" =>
                 restore' = [graph |-> restore'.graph, at |-> restore'.at, doc |-> restore'.doc,
                             quiet |-> restore'.quiet, live |-> restore'.live]
           /\ restore.at \in Planned =>
                 restore' = [graph |-> restore'.graph, at |-> restore'.at, doc |-> restore'.doc,
                             quiet |-> restore'.quiet, live |-> restore'.live,
                             puts |-> restore'.puts, wanted |-> restore'.wanted,
                             last |-> restore'.last, todo |-> restore'.todo]
<1>1. CASE restore.at = "events"
  BY <1>1 DEF RestoreShape, Planned
<1>2. CASE restore.at = "relations"
  BY <1>2 DEF RestoreShape, Planned
<1>3. CASE restore.at \in Planned
  BY <1>3 DEF RestoreShape, Planned
<1>4. QED BY <1>1, <1>2, <1>3 DEF RestoreShape

LEMMA BesideStep ==
    ASSUME made \in Nat, made' \in Nat, made <= made', RestoreFits, Held, Beside
    PROVE  RestoreFits'
<1>1. CASE restore.at = "none"
  <2>1. restore' = restore /\ restore = NoRestore
    BY <1>1 DEF Beside, RestoreFits, RestoreShape
  <2>2. QED BY <1>1, <2>1 DEF RestoreFits, RestoreShape, LiveFits, PutsFit, LinksFit, Planned
<1>2. CASE restore.at # "none"
  <2>1. PICK v : restore' = [restore EXCEPT !.quiet = v] /\ (v => restore.quiet /\ ~Disturbs)
    <3>1. restore # NoRestore
      BY <1>2 DEF NoRestore
    <3>2. CASE Disturbs
      BY <3>1, <3>2 DEF Beside
    <3>3. CASE ~Disturbs
      <4>1. restore' = restore
        BY <3>3 DEF Beside
      <4>2. restore = [restore EXCEPT !.quiet = restore.quiet]
        BY <1>2 DEF RestoreFits, RestoreShape
      <4>3. QED BY <3>3, <4>1, <4>2
    <3>4. QED BY <3>2, <3>3
  <2>2. /\ restore'.at = restore.at /\ restore'.graph = restore.graph /\ restore'.doc = restore.doc
        /\ restore'.quiet => restore.quiet /\ ~Disturbs
        /\ restore.at \in {"relations"} \cup Planned => restore'.live = restore.live
        /\ restore.at \in Planned =>
              /\ restore'.puts = restore.puts /\ restore'.wanted = restore.wanted
              /\ restore'.last = restore.last /\ restore'.todo = restore.todo
    BY <1>2, <2>1, MarkedRestore DEF RestoreFits
  <2>3. RestoreShape'
    <3>1. restore'.graph \in 1 .. made'
      BY <1>2, <2>2 DEF RestoreFits, RestoreShape
    <3>2. /\ restore'.at # "none"
          /\ restore'.at \in {"none", "events", "relations"} \cup Planned
      BY <1>2, <2>2 DEF RestoreFits, RestoreShape
    <3>3. /\ restore'.at = "events" =>
                 restore' = [graph |-> restore'.graph, at |-> restore'.at, doc |-> restore'.doc,
                             quiet |-> restore'.quiet]
          /\ restore'.at = "relations" =>
                 restore' = [graph |-> restore'.graph, at |-> restore'.at, doc |-> restore'.doc,
                             quiet |-> restore'.quiet, live |-> restore'.live]
          /\ restore'.at \in Planned =>
                 restore' = [graph |-> restore'.graph, at |-> restore'.at, doc |-> restore'.doc,
                             quiet |-> restore'.quiet, live |-> restore'.live,
                             puts |-> restore'.puts, wanted |-> restore'.wanted,
                             last |-> restore'.last, todo |-> restore'.todo]
      BY <1>2, <2>1, <2>2, MarkedRestore DEF RestoreFits
    <3>4. QED BY <3>1, <3>2, <3>3 DEF RestoreShape
  <2>4. LiveFits'
    <3>1. SUFFICES ASSUME restore.at \in {"relations"} \cup Planned
                   PROVE  /\ \A l \in restore.live : l.id \in Nat /\ l.id <= stored'
                          /\ \A l, m \in restore.live : l.id = m.id => l.hash = m.hash
                          /\ \A l \in restore.live, e \in events' : e.id = l.id => e.hash = l.hash
                          /\ restore'.quiet => \A l \in restore.live : l.id \in Ids'
      BY <2>2 DEF LiveFits
    <3>2. /\ \A l \in restore.live : l.id \in Nat /\ l.id <= stored
          /\ \A l, m \in restore.live : l.id = m.id => l.hash = m.hash
          /\ \A l \in restore.live, e \in events : e.id = l.id => e.hash = l.hash
          /\ restore.quiet => \A l \in restore.live : l.id \in Ids
      BY <3>1 DEF RestoreFits, LiveFits
    <3>3. \A l \in restore.live, e \in events' : e.id = l.id => e.hash = l.hash
      BY <3>2 DEF Held
    <3>4. restore'.quiet => Ids \subseteq Ids'
      BY <2>2 DEF Disturbs
    <3>5. \A l \in restore.live : l.id \in Nat /\ l.id <= stored'
      BY <3>2 DEF Held
    <3>6. QED BY <2>2, <3>2, <3>3, <3>4, <3>5
  <2>5. PutsFit'
    <3>1. restore'.quiet => layouts' = layouts
      BY <2>2 DEF Disturbs
    <3>2. QED BY <2>2, <3>1 DEF RestoreFits, PutsFit, Canvas, Planned
  <2>6. LinksFit'
    <3>1. SUFFICES ASSUME restore.at \in Planned, restore'.quiet, restore.wanted,
                          NEW l \in Resolvable(restore.doc, restore.live)
                   PROVE  l \in restore.todo \/ Joined(l)'
      BY <2>2 DEF LinksFit, Planned
    <3>2. CASE Joined(l)
      <4>1. PICK r \in rels : /\ r.graph = restore.graph
                              /\ r.from = Resolve(l.from, restore.live)
                              /\ r.to = Resolve(l.to, restore.live)
                              /\ r.indexed \/ r.id = restore.last
        BY <3>2 DEF Joined
      <4>2. \E q \in rels' : q.id = r.id
        BY <2>2, <3>1 DEF Disturbs
      <4>3. PICK q \in rels' : /\ q.id = r.id /\ q.graph = r.graph /\ q.from = r.from /\ q.to = r.to
                               /\ r.indexed => q.indexed
        BY <4>2 DEF Held
      <4>4. QED BY <2>2, <3>1, <4>1, <4>3 DEF Joined
    <3>3. QED BY <2>2, <3>1, <3>2 DEF RestoreFits, LinksFit
  <2>7. QED BY <2>3, <2>4, <2>5, <2>6 DEF RestoreFits
<1>3. QED BY <1>1, <1>2

-----------------------------------------------------------------------------
(* The steps of a restore                                                      *)

\* A hash is resolved to an event that was read with it.
LEMMA ResolvedIsThere ==
    ASSUME NEW live, \A l \in live : l.id \in Nat, NEW h, Resolves(h, live)
    PROVE  \E l \in live : l.hash = h /\ l.id = Resolve(h, live)
<1> DEFINE ids == {e.id : e \in {x \in live : x.hash = h}}
<1>1. ids \subseteq Nat /\ ids # {}
  BY DEF Resolves
<1>2. Min(ids) \in ids
  BY <1>1, Least
<1>3. QED BY <1>2 DEF Resolve

\* Where no restore is under way there is nothing to say of it.
LEMMA NoRestoreFits ==
    ASSUME restore' = NoRestore
    PROVE  RestoreFits'
<1>1. restore'.at = "none"
  BY DEF NoRestore
<1>2. QED BY <1>1 DEF RestoreFits, RestoreShape, LiveFits, PutsFit, LinksFit, Planned

LEMMA BeginRestoreFits ==
    ASSUME SnapsHeld, UNCHANGED made, BeginRestore
    PROVE  RestoreFits'
<1>1. PICK s \in snaps : restore' = [graph |-> s.graph, at |-> "events", doc |-> s, quiet |-> TRUE]
  BY DEF BeginRestore
<1>2. /\ restore'.at = "events" /\ restore'.graph = s.graph /\ restore'.doc = s
      /\ restore' = [graph |-> restore'.graph, at |-> restore'.at, doc |-> restore'.doc,
                     quiet |-> restore'.quiet]
  BY <1>1, Zenon
<1>3. s.graph \in 1 .. made
  BY DEF SnapsHeld
<1>4. RestoreShape'
  BY <1>2, <1>3 DEF RestoreShape, Planned
<1>5. QED BY <1>2, <1>4 DEF RestoreFits, LiveFits, PutsFit, LinksFit, Planned

LEMMA RestoreEventsFits ==
    ASSUME CaseShape, EventsFixed, RestoreFits, UNCHANGED made, RestoreEvents
    PROVE  RestoreFits'
<1>1. /\ restore.at = "events" /\ UNCHANGED <<events, stored>>
      /\ restore' = [graph |-> restore.graph, at |-> "relations", doc |-> restore.doc,
                     quiet |-> restore.quiet, live |-> events]
  BY DEF RestoreEvents, storeVars
<1>2. /\ restore'.at = "relations" /\ restore'.graph = restore.graph /\ restore'.live = events
      /\ restore' = [graph |-> restore'.graph, at |-> restore'.at, doc |-> restore'.doc,
                     quiet |-> restore'.quiet, live |-> restore'.live]
  BY <1>1
<1>3. RestoreShape'
  BY <1>1, <1>2 DEF RestoreFits, RestoreShape, Planned
<1>4. LiveFits'
  <2>1. \A e \in events : e.id \in Nat /\ e.id <= stored
    BY DEF CaseShape, Events
  <2>2. QED BY <1>1, <1>2, <2>1 DEF LiveFits, EventsFixed, Ids
<1>5. QED BY <1>2, <1>3, <1>4 DEF RestoreFits, PutsFit, LinksFit, Planned

LEMMA RestorePlanFits ==
    ASSUME RestoreFits, UNCHANGED made, RestorePlan
    PROVE  RestoreFits'
<1> DEFINE offered == Recreatable(restore.doc, restore.live, RelationsByGraph(restore.graph))
           placed == Positions(restore.doc, restore.live)
<1>1. /\ restore.at = "relations" /\ UNCHANGED <<events, stored, rels>>
  BY DEF RestorePlan, storeVars
<1>2. PICK wanted \in BOOLEAN :
          restore' = [graph |-> restore.graph, at |-> "layout", doc |-> restore.doc,
                      quiet |-> restore.quiet, live |-> restore.live,
                      puts |-> placed, wanted |-> wanted, last |-> 0,
                      todo |-> IF wanted THEN offered ELSE {}]
  BY DEF RestorePlan
<1> HIDE DEF offered, placed
<1>3. /\ restore'.at = "layout" /\ restore'.graph = restore.graph /\ restore'.doc = restore.doc
      /\ restore'.quiet = restore.quiet /\ restore'.live = restore.live /\ restore'.puts = placed
      /\ restore'.wanted = wanted /\ restore'.todo = IF wanted THEN offered ELSE {}
      /\ restore' = [graph |-> restore'.graph, at |-> restore'.at, doc |-> restore'.doc,
                     quiet |-> restore'.quiet, live |-> restore'.live, puts |-> restore'.puts,
                     wanted |-> restore'.wanted, last |-> restore'.last, todo |-> restore'.todo]
  BY <1>2, Zenon
<1>4. RestoreShape'
  BY <1>1, <1>3 DEF RestoreFits, RestoreShape, Planned
<1>5. LiveFits'
  <2>1. Ids' = Ids
    BY <1>1 DEF Ids
  <2>2. QED BY <1>1, <1>3, <2>1 DEF RestoreFits, LiveFits, Planned
<1>6. PutsFit'
  <2>1. \A p \in placed : /\ p.id \in Nat
                          /\ \E l \in restore.live : l.id = p.id /\ l.hash = p.hash
    <3>1. TAKE p \in placed
    <3>2. PICK n \in restore.doc.nodes :
              /\ Resolves(n.hash, restore.live)
              /\ p = [id |-> Resolve(n.hash, restore.live), hash |-> n.hash]
      BY DEF placed, Positions
    <3>3. \A l \in restore.live : l.id \in Nat
      BY <1>1 DEF RestoreFits, LiveFits
    <3>4. PICK l \in restore.live : l.hash = n.hash /\ l.id = Resolve(n.hash, restore.live)
      BY <3>2, <3>3, ResolvedIsThere
    <3>5. QED BY <3>2, <3>3, <3>4
  <2>2. QED BY <1>3, <2>1 DEF PutsFit, placed
<1>7. LinksFit'
  <2>1. SUFFICES ASSUME wanted, NEW l \in Resolvable(restore.doc, restore.live)
                 PROVE  l \in offered \/ Joined(l)'
    BY <1>3 DEF LinksFit
  <2>2. CASE Applied(l, restore.live, RelationsByGraph(restore.graph))
    BY <1>1, <1>3, <2>2 DEF Applied, RelationsByGraph, Joined
  <2>3. QED BY <2>1, <2>2 DEF offered, Recreatable
<1>8. QED BY <1>4, <1>5, <1>6, <1>7 DEF RestoreFits

\* While the layout is saved and the links are drawn, only the stage and what is put change.
Moves(at, puts, todo, last) ==
    restore' = [restore EXCEPT !.at = at, !.puts = puts, !.todo = todo, !.last = last]
Moved(at, puts, todo, last) ==
    /\ restore'.at = at /\ restore'.puts = puts /\ restore'.todo = todo /\ restore'.last = last
    /\ restore'.graph = restore.graph /\ restore'.doc = restore.doc
    /\ restore'.quiet = restore.quiet /\ restore'.live = restore.live
    /\ restore'.wanted = restore.wanted
LEMMA PlannedRestore ==
    ASSUME RestoreFits, restore.at \in Planned, UNCHANGED made,
           NEW at \in Planned, NEW puts, NEW todo, NEW last, Moves(at, puts, todo, last)
    PROVE  Moved(at, puts, todo, last) /\ RestoreShape'
<1>1. /\ restore'.at = at /\ restore'.puts = puts /\ restore'.todo = todo /\ restore'.last = last
      /\ restore'.graph = restore.graph /\ restore'.doc = restore.doc
      /\ restore'.quiet = restore.quiet /\ restore'.live = restore.live
      /\ restore'.wanted = restore.wanted
      /\ restore' = [graph |-> restore'.graph, at |-> restore'.at, doc |-> restore'.doc,
                     quiet |-> restore'.quiet, live |-> restore'.live, puts |-> restore'.puts,
                     wanted |-> restore'.wanted, last |-> restore'.last, todo |-> restore'.todo]
  BY DEF RestoreFits, RestoreShape, Moves
<1>2. RestoreShape'
  BY <1>1 DEF RestoreFits, RestoreShape, Planned
<1>3. QED BY <1>1, <1>2 DEF Moved

LEMMA LayoutReadFits ==
    ASSUME CaseShape, made <= MaxGraphs, RestoreFits, UNCHANGED made, RestoreLayoutRead
    PROVE  RestoreFits'
<1> DEFINE standing == {[id |-> n, hash |-> "kept"] : n \in Canvas(restore.graph)}
           puts == restore.puts \cup standing
<1>1. /\ restore.at = "layout" /\ UNCHANGED <<events, stored, rels, layouts>>
      /\ restore' = [restore EXCEPT !.at = "merge", !.puts = restore.puts \cup standing]
  BY DEF RestoreLayoutRead, storeVars
<1>2. Moves("merge", puts, restore.todo, restore.last)
  <2> HIDE DEF standing
  <2>1. QED BY <1>1 DEF RestoreFits, RestoreShape, Planned, Moves
<1>3. \A p \in standing : p.id \in Nat /\ p.hash = "kept"
  <2>1. restore.graph \in GraphIds
    <3>1. restore.graph \in 1 .. made /\ made \in Nat /\ MaxGraphs \in Nat
      BY <1>1, BoundsAssumption DEF RestoreFits, RestoreShape, CaseShape
    <3>2. QED BY <3>1 DEF GraphIds
  <2>2. layouts[restore.graph] \in SUBSET (SUBSET Nat)
    BY <2>1 DEF CaseShape
  <2>3. Canvas(restore.graph) \subseteq Nat
    BY <2>2 DEF Canvas
  <2>4. QED BY <2>3
<1>4. restore.at \in Planned /\ "merge" \in Planned
  BY <1>1 DEF Planned
<1> HIDE DEF standing
<1>5. Moved("merge", puts, restore.todo, restore.last) /\ RestoreShape'
  <2> HIDE DEF puts
  <2>1. QED BY <1>2, <1>4, PlannedRestore
<1>6. LiveFits'
  BY <1>1, <1>4, <1>5 DEF RestoreFits, LiveFits, Ids, Moved
<1>7. PutsFit'
  BY <1>3, <1>4, <1>5 DEF RestoreFits, PutsFit, Moved
<1>8. LinksFit'
  BY <1>1, <1>4, <1>5 DEF RestoreFits, LinksFit, Joined, Moved
<1>9. QED BY <1>5, <1>6, <1>7, <1>8 DEF RestoreFits

LEMMA LayoutSaveFits ==
    ASSUME CaseShape, made <= MaxGraphs, RestoreFits, UNCHANGED made, NEW ok \in BOOLEAN,
           RestoreLayoutSave(ok)
    PROVE  RestoreFits' /\ layouts' \in [GraphIds -> SUBSET (SUBSET Nat)]
<1> DEFINE nodes == {p.id : p \in restore.puts}
<1>1. /\ restore.at = "merge" /\ UNCHANGED <<events, stored, rels>>
      /\ layouts' = IF ok THEN [layouts EXCEPT ![restore.graph] = {nodes}] ELSE layouts
      /\ restore' = IF ok THEN [restore EXCEPT !.at = "links"] ELSE NoRestore
  BY DEF RestoreLayoutSave, storeVars
<1>2. restore.graph \in GraphIds
  <2>1. restore.graph \in 1 .. made /\ made \in Nat /\ MaxGraphs \in Nat
    BY <1>1, BoundsAssumption DEF RestoreFits, RestoreShape, CaseShape
  <2>2. QED BY <2>1 DEF GraphIds
<1>3. restore.at \in Planned /\ "links" \in Planned
  BY <1>1 DEF Planned
<1>4. nodes \subseteq Nat
  BY <1>3 DEF RestoreFits, PutsFit
<1>5. layouts \in [GraphIds -> SUBSET (SUBSET Nat)]
  BY DEF CaseShape
<1>6. CASE ~ok
  BY <1>1, <1>5, <1>6, NoRestoreFits
<1>7. CASE ok
  <2> HIDE DEF nodes
  <2>1. layouts' \in [GraphIds -> SUBSET (SUBSET Nat)] /\ layouts'[restore.graph] = {nodes}
    <3>1. layouts' = [layouts EXCEPT ![restore.graph] = {nodes}] /\ {nodes} \in SUBSET (SUBSET Nat)
      BY <1>1, <1>4, <1>7
    <3>2. QED BY <1>2, <1>5, <3>1
  <2>2. Moves("links", restore.puts, restore.todo, restore.last)
    BY <1>1, <1>7 DEF RestoreFits, RestoreShape, Planned, Moves
  <2>3. Moved("links", restore.puts, restore.todo, restore.last) /\ RestoreShape'
    BY <1>3, <2>2, PlannedRestore
  <2>4. LiveFits'
    BY <1>1, <1>3, <2>3 DEF RestoreFits, LiveFits, Ids, Moved
  <2>5. PutsFit'
    <3>1. Canvas(restore.graph)' = nodes
      BY <2>1, <2>3 DEF Canvas, Moved
    <3>2. \A p \in restore.puts : p.id \in Canvas(restore.graph)'
      BY <3>1 DEF nodes
    <3>3. QED BY <1>3, <2>3, <3>2 DEF RestoreFits, PutsFit, Moved
  <2>6. LinksFit'
    BY <1>1, <1>3, <2>3 DEF RestoreFits, LinksFit, Joined, Moved
  <2>7. QED BY <2>1, <2>3, <2>4, <2>5, <2>6 DEF RestoreFits
<1>8. QED BY <1>6, <1>7

\* The link drawn joins its two events; the one drawn before it is indexed by now.
LEMMA RecreateLinkFits ==
    ASSUME CaseShape, RestoreFits, UNCHANGED <<graphs, made, deletion>>, RecreateLink
    PROVE  RestoreFits' /\ CaseShape'
<1> DEFINE l == CHOOSE x \in restore.todo : \A y \in restore.todo : x.id <= y.id
           from == Resolve(l.from, restore.live)
           to == Resolve(l.to, restore.live)
           edge == [id |-> drawn', graph |-> restore.graph, from |-> from, to |-> to,
                    indexed |-> FALSE]
<1>1. /\ restore.at = "links" /\ LastIndexed /\ UNCHANGED <<events, stored, log, layouts>>
  BY DEF RecreateLink
<1>2. restore.at \in Planned /\ "links" \in Planned
  BY <1>1 DEF Planned
<1>3. CASE {from, to} \subseteq Ids
  <2>1. /\ drawn' = drawn + 1 /\ rels' = rels \cup {edge}
        /\ restore' = [restore EXCEPT !.todo = restore.todo \ {l}, !.last = drawn']
    BY <1>3 DEF RecreateLink
  <2>2. from \in Nat /\ to \in Nat
    BY <1>3 DEF CaseShape, Events, Ids
  <2>3. restore.graph \in 1 .. made /\ made \in Nat /\ drawn \in Nat
    BY <1>2 DEF RestoreFits, RestoreShape, Planned, CaseShape
  <2> HIDE DEF l, from, to
  <2>4. /\ edge \in Relations /\ edge.id = drawn + 1 /\ edge.graph = restore.graph
        /\ edge.from = from /\ edge.to = to
    <3>1. drawn' \in Nat /\ FALSE \in BOOLEAN
      BY <2>1, <2>3
    <3>2. edge \in Relations
      BY <2>2, <2>3, <3>1 DEF Relations
    <3>3. QED BY <2>1, <3>2, Zenon
  <2> HIDE DEF edge
  <2>5. CaseShape'
    <3>1. rels' \subseteq Relations
      BY <2>1, <2>4 DEF CaseShape
    <3>2. \A r \in rels' : r.id <= drawn' /\ r.graph <= made
      BY <2>1, <2>3, <2>4 DEF CaseShape, Relations
    <3>3. \A r, q \in rels' : r.id = q.id => r = q
      <4>1. \A r \in rels : r.id \in Nat /\ r.id <= drawn
        BY DEF CaseShape, Relations
      <4>2. QED BY <2>1, <2>3, <2>4, <4>1 DEF CaseShape
    <3>4. QED BY <1>1, <2>1, <2>3, <3>1, <3>2, <3>3 DEF CaseShape
  <2>6. Moves("links", restore.puts, restore.todo \ {l}, drawn')
    BY <1>1, <2>1 DEF RestoreFits, RestoreShape, Planned, Moves
  <2>7. Moved("links", restore.puts, restore.todo \ {l}, drawn') /\ RestoreShape'
    BY <1>2, <2>6, PlannedRestore
  <2>8. LiveFits'
    BY <1>1, <1>2, <2>7 DEF RestoreFits, LiveFits, Ids, Moved
  <2>9. PutsFit'
    BY <1>1, <1>2, <2>7 DEF RestoreFits, PutsFit, Canvas, Moved
  <2>10. LinksFit'
    <3>1. SUFFICES ASSUME restore.quiet, restore.wanted,
                          NEW x \in Resolvable(restore.doc, restore.live)
                   PROVE  x \in restore.todo \ {l} \/ Joined(x)'
      BY <2>7 DEF LinksFit, Moved
    <3>2. CASE x = l
      <4>1. edge \in rels' /\ edge.id = restore'.last
        BY <2>1, <2>4, <2>7 DEF Moved
      <4>2. edge.from = Resolve(x.from, restore.live) /\ edge.to = Resolve(x.to, restore.live)
        BY <2>4, <3>2 DEF from, to
      <4>3. QED BY <2>4, <2>7, <4>1, <4>2 DEF Joined, Moved
    <3>3. CASE Joined(x)
      <4>1. PICK r \in rels : /\ r.graph = restore.graph /\ r.indexed
                              /\ r.from = Resolve(x.from, restore.live)
                              /\ r.to = Resolve(x.to, restore.live)
        BY <1>1, <3>3 DEF Joined, LastIndexed
      <4>2. r \in rels'
        BY <2>1
      <4>3. QED BY <2>7, <4>1, <4>2 DEF Joined, Moved
    <3>4. QED BY <1>2, <3>1, <3>2, <3>3 DEF RestoreFits, LinksFit
  <2>11. QED BY <2>5, <2>7, <2>8, <2>9, <2>10 DEF RestoreFits
<1>4. CASE ~({from, to} \subseteq Ids)
  <2>1. restore' = NoRestore /\ UNCHANGED <<rels, drawn>>
    BY <1>4 DEF RecreateLink
  <2>2. QED BY <1>1, <2>1, NoRestoreFits, SameCase
<1>5. QED BY <1>3, <1>4

LEMMA RestoringFits ==
    ASSUME CaseShape, made <= MaxGraphs, EventsFixed, SnapsHeld, RestoreFits, Restoring
    PROVE  CaseShape' /\ RestoreFits' /\ UNCHANGED <<made, events>>
<1>1. UNCHANGED <<graphs, made, deletion>>
  BY DEF Restoring
<1>2. UNCHANGED events
  BY DEF Restoring, BeginRestore, RestoreEvents, RestorePlan, RestoreLayoutRead, RecreateLink,
         EndRestore, RestoreLayoutSave, storeVars
<1>3. CASE RecreateLink
  BY <1>1, <1>2, <1>3, RecreateLinkFits
<1>4. ASSUME NEW ok \in BOOLEAN, RestoreLayoutSave(ok)
      PROVE  CaseShape' /\ RestoreFits'
  <2>1. UNCHANGED <<events, stored, log, rels, drawn>>
    BY <1>4 DEF RestoreLayoutSave, storeVars
  <2>2. RestoreFits' /\ layouts' \in [GraphIds -> SUBSET (SUBSET Nat)]
    BY <1>1, <1>4, LayoutSaveFits
  <2>3. QED BY <1>1, <2>1, <2>2 DEF CaseShape
<1>5. CASE BeginRestore \/ RestoreEvents \/ RestorePlan \/ RestoreLayoutRead \/ EndRestore
  <2>1. UNCHANGED <<events, stored, log, rels, drawn, layouts>>
    BY <1>5 DEF BeginRestore, RestoreEvents, RestorePlan, RestoreLayoutRead, EndRestore, storeVars
  <2>2. EndRestore => restore' = NoRestore
    BY DEF EndRestore
  <2>3. QED
    BY <1>1, <1>5, <2>1, <2>2, SameCase, NoRestoreFits, BeginRestoreFits, RestoreEventsFits,
       RestorePlanFits, LayoutReadFits
<1>6. QED BY <1>1, <1>2, <1>3, <1>4, <1>5 DEF Restoring

-----------------------------------------------------------------------------
(* Snapshots and notes: every step                                             *)

LEMMA InitSnapshots == SnapshotInit => SnapshotInv
<1>1. SUFFICES ASSUME SnapshotInit PROVE SnapshotInv
  OBVIOUS
<1>2. CaseShape /\ made <= MaxGraphs
  <2>1. made = 1 /\ MaxGraphs \in Nat /\ MaxGraphs # 0
    BY <1>1, BoundsAssumption DEF SnapshotInit, InitCase
  <2>2. QED BY <1>1, <2>1, InitCaseShape DEF SnapshotInit
<1>3. EventsFixed
  <2>1. events = {[id |-> i, hash |-> FirstEvents[i], current |-> FALSE, ref |-> i]
                     : i \in DOMAIN FirstEvents}
    BY <1>1 DEF SnapshotInit, InitCase
  <2>2. \A e \in events : e.hash = FirstEvents[e.id]
    <3>1. TAKE e \in events
    <3>2. PICK i \in DOMAIN FirstEvents :
              e = [id |-> i, hash |-> FirstEvents[i], current |-> FALSE, ref |-> i]
      BY <2>1
    <3>3. e.id = i /\ e.hash = FirstEvents[i]
      BY <3>2, Zenon
    <3>4. QED BY <3>3
  <2>3. QED BY <2>2 DEF EventsFixed
<1>4. NotesHeld
  <2>1. /\ docs = [g \in GraphIds |-> Unread] /\ docFiles = [g \in GraphIds |-> NoFile]
        /\ kept = [g \in GraphIds |-> [notes |-> {}, shared |-> {}]]
    BY <1>1 DEF SnapshotInit, InitCase
  <2>2. QED BY <2>1 DEF NotesHeld, FileHolds
<1>5. SnapsHeld
  <2>1. snaps = {} /\ taken = {} /\ take.at = "none"
    BY <1>1 DEF SnapshotInit, InitCase, NoTake
  <2>2. QED BY <2>1, FS_EmptySet DEF SnapsHeld
<1>6. RestoreFits
  <2>1. restore = NoRestore /\ restore.at = "none"
    BY <1>1 DEF SnapshotInit, NoRestore
  <2>2. QED BY <2>1 DEF RestoreFits, RestoreShape, LiveFits, PutsFit, LinksFit, Planned
<1>7. QED BY <1>2, <1>3, <1>4, <1>5, <1>6 DEF SnapshotInv

LEMMA EditSnapshots ==
    ASSUME SnapshotInv, Edits, Beside
    PROVE  SnapshotInv'
<1>1. /\ CaseShape /\ made <= MaxGraphs /\ EventsFixed
      /\ NotesHeld /\ SnapsHeld /\ RestoreFits
  BY DEF SnapshotInv
<1>2. CaseShape' /\ made' <= MaxGraphs /\ made <= made'
  BY <1>1, EditKeepsShape
<1>3. made \in Nat /\ made' \in Nat
  BY <1>1, <1>2 DEF CaseShape
<1>4. Held /\ EventsFixed'
  BY <1>1, EditHolds
<1>5. RestoreFits'
  BY <1>1, <1>2, <1>3, <1>4, BesideStep
<1>6. NotesHeld'
  <2>1. CASE EditFiles
    <3>1. \A recs, ok : PersistFindings(recs, ok) => UNCHANGED <<docs, docFiles, kept>>
      BY DEF PersistFindings
    <3>2. UNCHANGED <<docs, docFiles, kept>>
      <4>1. CASE \E g \in 1 .. made : SaveLayout(g, Ids)
        BY <4>1 DEF SaveLayout
      <4>2. CASE \E key \in Hashes, ok \in BOOLEAN : SetFinding(key, ok) \/ RemoveFinding(key, ok)
        BY <3>1, <4>2 DEF SetFinding, RemoveFinding
      <4>3. QED BY <2>1, <4>1, <4>2 DEF EditFiles
    <3>3. QED BY <1>1, <3>2, NotesUntouched
  <2>2. CASE EditStore \/ Tick
    <3>1. UNCHANGED <<docs, docFiles, kept>>
      BY <2>2 DEF EditStore, Tick, fileVars
    <3>2. QED BY <1>1, <3>1, NotesUntouched
  <2>3. QED BY <1>1, <1>3, <2>1, <2>2, EditNotesKeeps, EditGraphsKeeps DEF Edits
<1>7. SnapsHeld'
  <2>1. snaps' \subseteq snaps
    <3>1. CASE EditNotes
      <4>1. PICK g \in 1 .. made, ok \in BOOLEAN :
                \/ SaveLayer(g, ok) \/ DeleteLayer(g, ok) \/ SaveAnnotation(g, ok)
                \/ DeleteAnnotation(g, ok) \/ ReadNotes(g)
        BY <3>1 DEF EditNotes
      <4>2. \A doc : Persist(g, doc, ok) => UNCHANGED snaps
        BY DEF Persist
      <4>3. QED
        BY <4>1, <4>2, ZenonT(30) DEF SaveLayer, DeleteLayer, SaveAnnotation, DeleteAnnotation, ReadNotes
    <3>2. CASE EditFiles
      <4>1. \A recs, ok : PersistFindings(recs, ok) => UNCHANGED snaps
        BY DEF PersistFindings
      <4>2. CASE \E g \in 1 .. made : SaveLayout(g, Ids)
        BY <4>2 DEF SaveLayout
      <4>3. CASE \E key \in Hashes, ok \in BOOLEAN : SetFinding(key, ok) \/ RemoveFinding(key, ok)
        BY <4>1, <4>3 DEF SetFinding, RemoveFinding
      <4>4. QED BY <3>2, <4>2, <4>3 DEF EditFiles
    <3>3. CASE EditStore \/ Tick
      BY <3>3 DEF EditStore, Tick, fileVars
    <3>4. CASE EditGraphs
      BY <3>4 DEF EditGraphs, CreateGraph, Unregister, DeleteRelations, DeleteLayout,
                  DeleteSnapshots, DeleteNotes, CascadeStops, fileVars
    <3>5. QED BY <3>1, <3>2, <3>3, <3>4 DEF Edits
  <2>2. take' \in {take, NoTake} /\ taken' = taken \cap snaps'
    BY DEF Beside
  <2>3. QED BY <1>1, <1>2, <1>3, <2>1, <2>2, SnapsTakenAway
<1>8. QED BY <1>2, <1>4, <1>5, <1>6, <1>7 DEF SnapshotInv

LEMMA StepSnapshots == SnapshotInv /\ [SnapshotNext]_snapshotVars => SnapshotInv'
<1>1. SUFFICES ASSUME SnapshotInv, [SnapshotNext]_snapshotVars PROVE SnapshotInv'
  OBVIOUS
<1>2. /\ CaseShape /\ made <= MaxGraphs /\ EventsFixed
      /\ NotesHeld /\ SnapsHeld /\ RestoreFits
  BY <1>1 DEF SnapshotInv
<1>3. made \in Nat /\ MaxGraphs \in Nat
  BY <1>2, BoundsAssumption DEF CaseShape
<1>4. CASE (EditNotes \/ EditFiles \/ EditStore \/ EditGraphs \/ Tick) /\ Beside
  BY <1>1, <1>4, EditSnapshots DEF Edits
<1>5. CASE Restart /\ take' = NoTake /\ restore' = NoRestore /\ UNCHANGED taken
  <2>1. UNCHANGED <<made, snaps>> /\ events' \in {events, {}}
    BY <1>5 DEF Restart
  <2>2. CaseShape' /\ NotesHeld' /\ RestoreFits'
    BY <1>2, <1>5, RestartStep, RestartKeepsNotes, NoRestoreFits
  <2>3. EventsFixed'
    BY <1>2, <2>1 DEF EventsFixed
  <2>4. SnapsHeld'
    BY <1>2, <1>5, <2>1 DEF SnapsHeld, NoTake
  <2>5. QED BY <1>2, <2>1, <2>2, <2>3, <2>4 DEF SnapshotInv
<1>6. CASE Taking
  <2>1. UNCHANGED <<graphs, made, events, stored, log, rels, drawn, layouts, deletion, docs, docFiles,
                    kept, restore>>
    BY <1>6 DEF Taking, storeVars
  <2>2. CaseShape' /\ NotesHeld' /\ SnapsHeld'
    BY <1>2, <1>3, <1>6, <2>1, SameCase, NotesUntouched, TakingKeeps
  <2>3. EventsFixed'
    BY <1>2, <2>1 DEF EventsFixed
  <2>4. RestoreFits'
    BY <1>2, <2>1 DEF RestoreFits, RestoreShape, LiveFits, PutsFit, LinksFit, Joined, Ids, Canvas
  <2>5. QED BY <1>2, <2>1, <2>2, <2>3, <2>4 DEF SnapshotInv
<1>7. CASE Restoring
  <2>1. CaseShape' /\ RestoreFits' /\ UNCHANGED <<made, events>>
    BY <1>2, <1>7, RestoringFits
  <2>2. UNCHANGED <<snaps, docs, docFiles, kept, take, taken>>
    BY <1>7 DEF Restoring
  <2>3. NotesHeld' /\ SnapsHeld'
    <3>1. NotesHeld'
      BY <1>2, <2>2, NotesUntouched
    <3>2. SnapsHeld'
      BY <1>2, <2>1, <2>2 DEF SnapsHeld
    <3>3. QED BY <3>1, <3>2
  <2>4. EventsFixed'
    BY <1>2, <2>1 DEF EventsFixed
  <2>5. QED BY <1>2, <2>1, <2>3, <2>4 DEF SnapshotInv
<1>8. CASE UNCHANGED snapshotVars
  <2>1. UNCHANGED <<graphs, made, events, stored, log, rels, drawn, layouts, snaps, docs, docFiles,
                    kept, deletion, take, restore, taken>>
    BY <1>8 DEF snapshotVars, caseVars, storeVars, fileVars
  <2>2. CaseShape' /\ NotesHeld'
    BY <1>2, <2>1, SameCase, NotesUntouched
  <2>3. EventsFixed' /\ SnapsHeld'
    BY <1>2, <2>1 DEF EventsFixed, SnapsHeld
  <2>4. RestoreFits'
    BY <1>2, <2>1 DEF RestoreFits, RestoreShape, LiveFits, PutsFit, LinksFit, Joined, Ids, Canvas
  <2>5. QED BY <1>2, <2>1, <2>2, <2>3, <2>4 DEF SnapshotInv
<1>9. QED BY <1>1, <1>4, <1>5, <1>6, <1>7, <1>8 DEF SnapshotNext

\* A note or a snapshot whose saving was acknowledged is in its file, and says what it was saved
\* as, until its deletion is asked for, whatever else is saved, deleted, lost with a failed write
\* or forgotten by a restart; of the notes, those that never came to share an id with another.
THEOREM AcknowledgedStays == SnapshotSpec => []AcknowledgedIsKept
<1>1. SnapshotInv => AcknowledgedIsKept
  BY DEF SnapshotInv, NotesHeld, FileHolds, Holds, Stands, SnapsHeld, AcknowledgedIsKept
<1>2. QED BY <1>1, InitSnapshots, StepSnapshots, PTL DEF SnapshotSpec

\* A restore puts a node of a snapshot where the event of that content is, and nowhere else,
\* though the ids of the case have been given to other events since the snapshot was taken.
THEOREM RestoredByContent == SnapshotSpec => []RestorePlacesByContent
<1>1. SnapshotInv => RestorePlacesByContent
  <2>1. SUFFICES ASSUME SnapshotInv, restore.at \in {"layout", "merge", "links"},
                        NEW p \in restore.puts, NEW e \in events, e.id = p.id
                 PROVE  p.hash \in {e.hash, "kept"}
    BY DEF RestorePlacesByContent
  <2>2. CASE \E l \in restore.live : l.id = p.id /\ l.hash = p.hash
    BY <2>1, <2>2 DEF SnapshotInv, RestoreFits, LiveFits, Planned
  <2>3. QED BY <2>1, <2>2 DEF SnapshotInv, RestoreFits, PutsFit, Planned
<1>2. QED BY <1>1, InitSnapshots, StepSnapshots, PTL DEF SnapshotSpec

\* A restore that nothing has disturbed ends with every node it could resolve on the canvas and,
\* if the links were asked for, with every linked pair of the snapshot joined in the index.
THEOREM UndisturbedRestoreCompletes == SnapshotSpec => []RestoreCompletes
<1>1. SnapshotInv => RestoreCompletes
  <2>1. SUFFICES ASSUME SnapshotInv, Restored, restore.quiet
                 PROVE  /\ \A n \in restore.doc.nodes : Resolves(n.hash, restore.live) =>
                               \E e \in events : e.hash = n.hash /\ e.id \in Canvas(restore.graph)
                        /\ restore.wanted => \A l \in Resolvable(restore.doc, restore.live) :
                               \E r \in RelationsByGraph(restore.graph), e, f \in events :
                                   r.from = e.id /\ e.hash = l.from /\ r.to = f.id /\ f.hash = l.to
    BY DEF RestoreCompletes
  <2>2. restore.at = "links" /\ restore.at \in Planned /\ restore.todo = {} /\ LastIndexed
    BY <2>1 DEF Restored, Planned
  <2>3. /\ \A l \in restore.live : l.id \in Nat /\ l.id \in Ids
        /\ \A l \in restore.live, e \in events : e.id = l.id => e.hash = l.hash
    BY <2>1, <2>2 DEF SnapshotInv, RestoreFits, LiveFits
  <2>4. ASSUME NEW h, Resolves(h, restore.live)
        PROVE  \E e \in events : e.hash = h /\ e.id = Resolve(h, restore.live)
    <3>1. PICK l \in restore.live : l.hash = h /\ l.id = Resolve(h, restore.live)
      BY <2>3, <2>4, ResolvedIsThere
    <3>2. PICK e \in events : e.id = l.id
      BY <2>3 DEF Ids
    <3>3. QED BY <2>3, <3>1, <3>2
  <2>5. ASSUME NEW n \in restore.doc.nodes, Resolves(n.hash, restore.live)
        PROVE  \E e \in events : e.hash = n.hash /\ e.id \in Canvas(restore.graph)
    <3> DEFINE p == [id |-> Resolve(n.hash, restore.live), hash |-> n.hash]
    <3>1. p \in Positions(restore.doc, restore.live)
      BY <2>5 DEF Positions
    <3>2. p.id \in Canvas(restore.graph)
      BY <2>1, <2>2, <3>1 DEF SnapshotInv, RestoreFits, PutsFit
    <3>3. QED BY <2>4, <2>5, <3>2
  <2>6. ASSUME restore.wanted, NEW l \in Resolvable(restore.doc, restore.live)
        PROVE  \E r \in RelationsByGraph(restore.graph), e, f \in events :
                   r.from = e.id /\ e.hash = l.from /\ r.to = f.id /\ f.hash = l.to
    <3>1. Joined(l)
      BY <2>1, <2>2, <2>6 DEF SnapshotInv, RestoreFits, LinksFit
    <3>2. PICK r \in RelationsByGraph(restore.graph) :
              r.from = Resolve(l.from, restore.live) /\ r.to = Resolve(l.to, restore.live)
      BY <2>2, <3>1 DEF Joined, LastIndexed, RelationsByGraph
    <3>3. Resolves(l.from, restore.live) /\ Resolves(l.to, restore.live)
      BY DEF Resolvable
    <3>4. QED BY <2>4, <3>2, <3>3
  <2>7. QED BY <2>5, <2>6
<1>2. QED BY <1>1, InitSnapshots, StepSnapshots, PTL DEF SnapshotSpec

=============================================================================
