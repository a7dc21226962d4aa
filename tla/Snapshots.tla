------------------------------ MODULE Snapshots ------------------------------
(* Taking a snapshot of a graph's canvas and restoring it (backend/snapshot,   *)
(* api_snapshot.go) beside the calls of CaseFiles. Both read the layout, the   *)
(* relations and the events one after the other. A snapshot names events by    *)
(* content hash, because ids change when a case is ingested again; a restore   *)
(* resolves the hashes to the events there are, merges the positions into the  *)
(* layout, and draws again the links the analyst names, one by one.            *)
EXTENDS CaseFiles

CONSTANT MaxSnaps      \* snapshots a graph may have

ASSUME SnapshotAssumption == MaxSnaps \in Nat

VARIABLES take,        \* the snapshot being taken
          restore,     \* the restore being applied
          taken        \* snapshots whose taking was acknowledged, and not deleted since

snapshotVars == <<caseVars, take, restore, taken>>

NoTake == [graph |-> 0, at |-> "none"]
NoRestore == [graph |-> 0, at |-> "none"]

Canvas(g) == UNION layouts[g]
\* The relations of a graph, as every query reads them: through the index.
RelationsByGraph(g) == {r \in rels : r.graph = g /\ r.indexed}

-----------------------------------------------------------------------------
(* Taking one.                                                                 *)

BeginTake(g) ==
    /\ take = NoTake /\ Call
    /\ take' = [graph |-> g, at |-> "relations", nodes |-> Canvas(g)]
    /\ UNCHANGED <<snaps, taken, faults>>
TakeRelations ==
    /\ take.at = "relations"
    /\ take' = [graph |-> take.graph, at |-> "save", nodes |-> take.nodes,
                links |-> RelationsByGraph(take.graph)]
    /\ UNCHANGED <<snaps, taken, faults, calls>>

\* The instant, and a number that no snapshot of that instant has: nothing is overwritten.
Used(g) == {s.id : s \in {x \in snaps : x.graph = g}}
FreeId(g, now) == <<now, Min({n \in 1 .. MaxSnaps + 1 : <<now, n>> \notin Used(g)})>>
\* Only events still there, and links between two of them, are recorded.
Document(id) ==
    LET nodes == {[id |-> e.id, hash |-> e.hash] : e \in {x \in events : x.id \in take.nodes}}
        HashOf(i) == (CHOOSE n \in nodes : n.id = i).hash
        ends  == {n.id : n \in nodes}
    IN [graph |-> take.graph, id |-> id, nodes |-> nodes,
        links |-> {[id |-> r.id, from |-> HashOf(r.from), to |-> HashOf(r.to)]
                      : r \in {x \in take.links : {x.from, x.to} \subseteq ends}}]
SaveSnapshot(ok) ==
    /\ take.at = "save" /\ Writes(ok)
    /\ take' = NoTake
    /\ LET doc == Document(FreeId(take.graph, clock))
           saved == ok /\ Cardinality(Used(take.graph)) < MaxSnaps
       IN /\ snaps' = IF saved THEN {s \in snaps : s.graph # doc.graph \/ s.id # doc.id} \cup {doc} ELSE snaps
          /\ taken' = IF saved THEN taken \cup {doc} ELSE taken
    /\ UNCHANGED calls
DeleteSnapshot ==
    \E s \in snaps :
        /\ Call
        /\ snaps' = snaps \ {s} /\ taken' = taken \ {s}
        /\ UNCHANGED <<take, faults>>

Taking ==
    /\ \/ \E g \in 1 .. made : BeginTake(g)
       \/ TakeRelations \/ DeleteSnapshot
       \/ \E ok \in BOOLEAN : SaveSnapshot(ok)
    /\ UNCHANGED <<graphs, made, storeVars, layouts, docs, docFiles, finds, findFile, kept,
                   deletion, clock, restore>>

-----------------------------------------------------------------------------
(* What a restore plans (BuildPlan), from the events and relations it has read.*)

Resolves(h, live) == \E e \in live : e.hash = h
Resolve(h, live) == Min({e.id : e \in {x \in live : x.hash = h}})
\* Where each node of the snapshot goes: the event that carries its content now.
\* Mutant: an event is found again by the id it had.
PositionsById(doc, live) ==
    {[id |-> n.id, hash |-> n.hash] : n \in {x \in doc.nodes : \E e \in live : e.id = x.id}}
Positions(doc, live) ==
    {[id |-> Resolve(n.hash, live), hash |-> n.hash] : n \in {x \in doc.nodes : Resolves(x.hash, live)}}
Resolvable(doc, live) == {l \in doc.links : Resolves(l.from, live) /\ Resolves(l.to, live)}
\* A link is still there if the relation of its id joins the same two events.
Applied(l, live, edges) ==
    \E r \in edges : r.id = l.id /\ r.from = Resolve(l.from, live) /\ r.to = Resolve(l.to, live)
Recreatable(doc, live, edges) == {l \in Resolvable(doc, live) : ~Applied(l, live, edges)}

-----------------------------------------------------------------------------
(* Applying one.                                                               *)

BeginRestore ==
    \E s \in snaps :
        /\ restore = NoRestore /\ Call
        /\ restore' = [graph |-> s.graph, at |-> "events", doc |-> s, quiet |-> TRUE]
        /\ UNCHANGED <<storeVars, layouts, faults>>
RestoreEvents ==
    /\ restore.at = "events"
    /\ restore' = [graph |-> restore.graph, at |-> "relations", doc |-> restore.doc,
                   quiet |-> restore.quiet, live |-> events]
    /\ UNCHANGED <<storeVars, layouts, faults, calls>>
\* The plan is made, and the analyst has chosen the links to draw again: all or none.
RestorePlan ==
    /\ restore.at = "relations"
    /\ \E wanted \in BOOLEAN :
          restore' = [graph |-> restore.graph, at |-> "layout", doc |-> restore.doc,
                      quiet |-> restore.quiet, live |-> restore.live,
                      puts |-> Positions(restore.doc, restore.live), wanted |-> wanted, last |-> 0,
                      todo |-> IF wanted THEN Recreatable(restore.doc, restore.live,
                                                          RelationsByGraph(restore.graph)) ELSE {}]
    /\ UNCHANGED <<storeVars, layouts, faults, calls>>
\* Mutant: the layout that is there is loaded over the positions, not under them.
LayoutOver ==
    /\ restore.at = "layout"
    /\ restore' = [restore EXCEPT !.at = "merge",
                                  !.puts = {[id |-> n, hash |-> "kept"] : n \in Canvas(restore.graph)}]
    /\ UNCHANGED <<storeVars, layouts, faults, calls>>
RestoreLayoutRead ==
    /\ restore.at = "layout"
    /\ restore' = [restore EXCEPT !.at = "merge",
                                  !.puts = @ \cup {[id |-> n, hash |-> "kept"] : n \in Canvas(restore.graph)}]
    /\ UNCHANGED <<storeVars, layouts, faults, calls>>
RestoreLayoutSave(ok) ==
    /\ restore.at = "merge" /\ Writes(ok)
    /\ layouts' = IF ok THEN [layouts EXCEPT ![restore.graph] = {{p.id : p \in restore.puts}}] ELSE layouts
    /\ restore' = IF ok THEN [restore EXCEPT !.at = "links"] ELSE NoRestore
    /\ UNCHANGED <<storeVars, calls>>

LastIndexed == \A r \in rels : r.id = restore.last => r.indexed
\* The next link, by the id it had; an event that has gone ends the restore.
RecreateLink ==
    /\ restore.at = "links" /\ restore.todo # {} /\ LastIndexed
    /\ LET l == CHOOSE x \in restore.todo : \A y \in restore.todo : x.id <= y.id
           from == Resolve(l.from, restore.live)
           to   == Resolve(l.to, restore.live)
       IN IF {from, to} \subseteq Ids
          THEN /\ drawn < MaxRels
               /\ drawn' = drawn + 1
               /\ rels' = rels \cup {[id |-> drawn', graph |-> restore.graph, from |-> from, to |-> to,
                                      indexed |-> FALSE]}
               /\ restore' = [restore EXCEPT !.todo = @ \ {l}, !.last = drawn']
          ELSE restore' = NoRestore /\ UNCHANGED <<rels, drawn>>
    /\ UNCHANGED <<events, stored, log, writing, layouts, faults, calls>>
Restored == restore.at = "links" /\ restore.todo = {} /\ LastIndexed
EndRestore ==
    /\ Restored
    /\ restore' = NoRestore
    /\ UNCHANGED <<storeVars, layouts, faults, calls>>

Restoring ==
    /\ \/ BeginRestore \/ RestoreEvents \/ RestorePlan \/ RestoreLayoutRead \/ RecreateLink \/ EndRestore
       \/ \E ok \in BOOLEAN : RestoreLayoutSave(ok)
    /\ UNCHANGED <<graphs, made, snaps, docs, docFiles, finds, findFile, kept, deletion, clock,
                   take, taken>>

-----------------------------------------------------------------------------
\* The case loses something a restore relies on, or another call moves the canvas.
Disturbs ==
    \/ ~(Ids \subseteq Ids') \/ layouts' # layouts
    \/ \E r \in rels : r.id \notin {x.id : x \in rels'}
Beside ==
    /\ take' = take
    /\ restore' = IF restore # NoRestore /\ Disturbs THEN [restore EXCEPT !.quiet = FALSE] ELSE restore
    /\ taken' = taken \cap snaps'

SnapshotInit == InitCase /\ take = NoTake /\ restore = NoRestore /\ taken = {}

SnapshotNext ==
    \/ (EditNotes \/ EditFiles \/ EditStore \/ EditGraphs \/ Tick) /\ Beside
    \/ Restart /\ take' = NoTake /\ restore' = NoRestore /\ UNCHANGED taken
    \/ Taking \/ Restoring

SnapshotSpec == SnapshotInit /\ [][SnapshotNext]_snapshotVars

-----------------------------------------------------------------------------
\* The note is in its file, as it was last saved or as a saving that failed would have left it.
Stands(g, uid) ==
    /\ docFiles[g] # NoFile
    /\ \E it \in Range(docFiles[g].items) : it.uid = uid /\ it \in kept[g].notes
\* What was acknowledged as saved, a note or a snapshot, is in its file, and says what it said,
\* until its deletion is asked for: no later call on the graph, failed write, other note's saving
\* or deletion, or restart loses or changes it (annotate.go:135, snapshot.go:165). Only notes that
\* have come to share an id are not told apart (annotate.go:486).
AcknowledgedIsKept ==
    /\ \A g \in GraphIds : \A k \in kept[g].notes : k.uid \in kept[g].shared \/ Stands(g, k.uid)
    /\ taken \subseteq snaps
\* What the code does not keep: the same of every note.
AllAcknowledgedIsKept == \A g \in GraphIds : \A k \in kept[g].notes : Stands(g, k.uid)

\* A restore puts a node where the snapshot had the event of that content, and no other,
\* whatever has been deleted or ingested since (restore.go:116).
RestorePlacesByContent ==
    restore.at \in {"layout", "merge", "links"} =>
        \A p \in restore.puts, e \in events : e.id = p.id => p.hash \in {e.hash, "kept"}

\* A restore nothing has disturbed leaves every node it could resolve on the canvas and, if the
\* links were asked for, every pair of events the snapshot linked joined again.
RestoreCompletes ==
    Restored /\ restore.quiet =>
        /\ \A n \in restore.doc.nodes : Resolves(n.hash, restore.live) =>
               \E e \in events : e.hash = n.hash /\ e.id \in Canvas(restore.graph)
        /\ restore.wanted => \A l \in Resolvable(restore.doc, restore.live) :
               \E r \in RelationsByGraph(restore.graph), e, f \in events :
                   r.from = e.id /\ e.hash = l.from /\ r.to = f.id /\ f.hash = l.to

\* What the code does not keep: a link is offered again only when it is missing (restore.go:165).
OfferedIsMissing ==
    \A l \in IF restore.at = "layout" THEN restore.todo ELSE {} :
        ~\E r \in RelationsByGraph(restore.graph) :
            r.from = Resolve(l.from, restore.live) /\ r.to = Resolve(l.to, restore.live)
=============================================================================
