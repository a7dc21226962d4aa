------------------------------ MODULE CaseFiles ------------------------------
(* A case as the analyst edits it: events and relations in the store, the      *)
(* registered graphs, and the files beside the store that belong to a graph    *)
(* (its canvas layout, its snapshots, its notes) or to the case (the findings). Every file is *)
(* written whole and renamed into place, after the copy in memory has changed; *)
(* a failed write leaves that copy changed. Deleting a graph removes its parts *)
(* one after the other, with other calls in between; a restart forgets the     *)
(* copies in memory and whatever was half done.                                *)
EXTENDS Annotations, CaseFindings, FiniteSets

CONSTANTS Notes,       \* what an annotation request may hold: [kind, anchor, to]
          Marks,       \* what a finding request may hold
          FirstEvents, \* the events of the case when it is opened, by their hashes
          FirstRels,   \* and its relations, all of graph 1
          MaxGraphs,   \* bound: graphs ever created
          MaxEvents,   \* bound: events ever stored
          MaxRels,     \* bound: relations ever drawn
          MaxCalls,    \* bound: the analyst's calls
          MaxFaults,   \* bound: failing file operations
          MaxClock     \* bound: instants

\* The events are numbered in their order, and so are the relations.
ASSUME FirstCaseAssumption ==
    /\ FirstEvents \in Seq(Hashes)
    /\ FirstRels \subseteq [id : Nat, graph : {1}, from : Nat, to : Nat, indexed : BOOLEAN]
    /\ Cardinality(FirstRels) \in Nat
    /\ \A r \in FirstRels : r.id <= Cardinality(FirstRels)
    /\ \A r, q \in FirstRels : r.id = q.id => r = q

\* There is a graph when the case is opened.
ASSUME BoundsAssumption ==
    /\ {MaxGraphs, MaxEvents, MaxRels, MaxCalls, MaxFaults, MaxClock} \subseteq Nat
    /\ MaxGraphs # 0

GraphIds == 1 .. MaxGraphs
Unread == [doc |-> "unread"]   \* a document no call has loaded
NoFile == [doc |-> "noFile"]    \* a document never written
NoDeletion == [graph |-> 0, stage |-> "none"]

VARIABLES graphs,      \* the registered graphs
          made,        \* graphs ever created: the last id given out
          events,      \* stored events: [id, hash, current, ref]
          stored,      \* events ever stored: the last id given out
          log,         \* records in the payload log
          writing,     \* an ingest has written a payload and not yet its event
          rels,        \* stored relations: [id, graph, from, to, indexed]
          drawn,       \* relations ever drawn: the last id given out
          layouts,     \* the layout file of each graph: none, or one set of placed events
          snaps,       \* snapshot files: [graph, id, nodes, links]
          docs,        \* the notes of each graph, as loaded
          docFiles,    \* the notes of each graph, as written
          finds,       \* the findings, as loaded
          findFile,    \* the findings, as written
          deletion,    \* the graph being deleted, and what goes next
          kept,        \* per graph: what the notes acknowledged as saved may stand as, as long as
                       \* their deletion is not asked for, and the notes that ever shared an id
          clock, calls, faults

storeVars == <<events, stored, log, writing, rels, drawn>>
fileVars  == <<layouts, snaps, docs, docFiles, finds, findFile, kept>>
caseVars  == <<graphs, made, storeVars, fileVars, deletion, clock, calls, faults>>

InitCase ==
    /\ graphs = {1} /\ made = 1
    \* events an older version stored: their correlation keys are not current
    /\ events = {[id |-> i, hash |-> FirstEvents[i], current |-> FALSE, ref |-> i]
                    : i \in DOMAIN FirstEvents}
    /\ stored = Len(FirstEvents) /\ log = stored /\ writing = FALSE
    \* drawn on by the analyst, in the one graph there is
    /\ rels = FirstRels /\ drawn = Cardinality(rels)
    /\ layouts = [g \in GraphIds |-> IF g = 1 /\ rels # {} THEN {DOMAIN FirstEvents} ELSE {}]
    /\ snaps = {} /\ finds = NoFindings /\ findFile = NoFindings
    /\ docs = [g \in GraphIds |-> Unread] /\ docFiles = [g \in GraphIds |-> NoFile]
    /\ deletion = NoDeletion /\ kept = [g \in GraphIds |-> [notes |-> {}, shared |-> {}]]
    /\ clock = 0 /\ calls = 0 /\ faults = 0

Ids == {e.id : e \in events}
Call == calls < MaxCalls /\ calls' = calls + 1
Writes(ok) == (ok \/ faults < MaxFaults) /\ faults' = IF ok THEN faults ELSE faults + 1

-----------------------------------------------------------------------------
(* The notes of a graph. No call asks whether the graph is still registered.   *)

\* Mutant: a document that is not loaded is taken for a new one.
LoadedOrNew(g) == IF docs[g] # Unread THEN docs[g] ELSE EmptyDoc
Doc(g) ==
    IF docs[g] # Unread THEN docs[g] ELSE IF docFiles[g] # NoFile THEN docFiles[g] ELSE EmptyDoc

\* One call leaves doc as the notes of g; ok: the file is written too.
Persist(g, doc, ok) ==
    /\ Writes(ok)
    /\ docs' = [docs EXCEPT ![g] = doc]
    /\ docFiles' = IF ok THEN [docFiles EXCEPT ![g] = doc] ELSE docFiles
    /\ UNCHANGED <<layouts, snaps, finds, findFile>>
\* The deletion of these notes is asked for; or a note is to stand as it is saved now, and if the
\* saving fails it may still stand as it did.
Forget(g, uids) == kept' = [kept EXCEPT ![g].notes = {k \in @ : k.uid \notin uids}]
Promise(g, note, ok, items) ==
    LET Others == {k \in kept[g].notes : k.uid # note.uid}
    IN kept' = [kept EXCEPT ![g] =
                   [notes  |-> IF ok THEN Others \cup {note}
                               ELSE IF Others # @.notes THEN @.notes \cup {note} ELSE @.notes,
                    shared |-> @.shared \cup Twins(items)]]

SaveLayer(g, ok) ==
    /\ \/ Len(Doc(g).layers) < MaxLayers /\ Persist(g, AddLayer(Doc(g), clock), ok)
       \/ \E id \in IdsOf(Doc(g).layers), z \in 0 .. MaxLayers :
             Persist(g, RestackLayer(Doc(g), id, z), ok)
    /\ UNCHANGED kept
DeleteLayer(g, ok) ==
    \E id \in IdsOf(Doc(g).layers) :
        /\ Persist(g, DropLayer(Doc(g), id), ok)
        /\ Forget(g, {it.uid : it \in {x \in Range(Doc(g).items) : x.layer = id}})

\* The analyst means a new note, 0, or the one at `at`; the request has only its id.
SaveAnnotation(g, ok) ==
    \E n \in Notes, at \in {0} \cup DOMAIN Doc(g).items, layer \in {NoId} \cup IdsOf(Doc(g).layers) :
        LET doc == Doc(g)
            uid == IF at = 0 THEN calls + 1 ELSE doc.items[at].uid
            it  == [id |-> IF at = 0 THEN NoId ELSE doc.items[at].id, layer |-> layer,
                    kind |-> n.kind, anchor |-> n.anchor, to |-> n.to]
            new == Put(doc, it, clock, uid)
        IN /\ ~PutRefused(doc, it) /\ ~PutFull(doc, it)
           /\ Persist(g, new, ok)
           /\ Promise(g, Item(doc, it, clock, uid), ok, new.items)
\* A read of the notes loads them, and so does a request that is refused.
ReadNotes(g) ==
    /\ docs[g] = Unread
    /\ docs' = [docs EXCEPT ![g] = Doc(g)]
    /\ UNCHANGED <<layouts, snaps, docFiles, finds, findFile, kept, faults>>

\* Deleting what is not there succeeds and writes nothing.
DeleteAnnotation(g, ok) ==
    \E at \in DOMAIN Doc(g).items :
        /\ Persist(g, DropItem(Doc(g), Doc(g).items[at].id), ok)
        /\ Forget(g, {Doc(g).items[at].uid})

-----------------------------------------------------------------------------
(* Findings and layouts.                                                       *)

PersistFindings(recs, ok) ==
    /\ Writes(ok)
    /\ finds' = recs
    /\ findFile' = IF ok THEN recs ELSE findFile
    /\ UNCHANGED <<layouts, snaps, docs, docFiles, kept>>
SetFinding(key, ok) == \E m \in Marks : PersistFindings(Set(finds, key, m, clock), ok)
RemoveFinding(key, ok) == key \in DOMAIN finds /\ PersistFindings(Removed(finds, key), ok)

SaveLayout(g, nodes) ==
    /\ layouts' = [layouts EXCEPT ![g] = {nodes}]
    /\ UNCHANGED <<snaps, docs, docFiles, finds, findFile, kept, faults>>

EditNotes ==
    /\ \E g \in 1 .. made, ok \in BOOLEAN :
          \/ SaveLayer(g, ok) \/ DeleteLayer(g, ok) \/ SaveAnnotation(g, ok)
          \/ DeleteAnnotation(g, ok) \/ ReadNotes(g)
    /\ Call
    /\ UNCHANGED <<graphs, made, storeVars, deletion, clock>>
EditFiles ==
    /\ \/ \E key \in Hashes, ok \in BOOLEAN : SetFinding(key, ok) \/ RemoveFinding(key, ok)
       \/ \E g \in 1 .. made : SaveLayout(g, Ids)
    /\ Call
    /\ UNCHANGED <<graphs, made, storeVars, deletion, clock>>

-----------------------------------------------------------------------------
(* The store. An ingest writes the payload before the event that points at it; *)
(* drawing a relation stores the edge before it is indexed; which end is which *)
(* plays no part here.                                                         *)

WritePayload ==
    /\ ~writing /\ log < MaxEvents /\ Call
    /\ log' = log + 1 /\ writing' = TRUE
    /\ UNCHANGED <<events, stored, rels, drawn>>
InsertEvent ==
    \E h \in Hashes :
        /\ writing /\ h \notin {e.hash : e \in events}
        /\ stored' = stored + 1 /\ writing' = FALSE
        /\ events' = events \cup {[id |-> stored', hash |-> h, current |-> TRUE, ref |-> log]}
        /\ UNCHANGED <<log, rels, drawn, calls>>
\* The backfill of the correlation keys (DedupBackfill), as one step.
Project ==
    /\ Call
    /\ events' = {[e EXCEPT !.current = TRUE] : e \in events}
    /\ UNCHANGED <<stored, log, writing, rels, drawn>>
DeleteEvent ==
    \E e \in events :
        /\ Call
        /\ events' = events \ {e}
        /\ rels' = {r \in rels : e.id \notin {r.from, r.to}}
        /\ UNCHANGED <<stored, log, writing, drawn>>
InsertRelation(g) ==
    \E from, to \in events :
        /\ drawn < MaxRels /\ Call /\ from.id < to.id
        /\ drawn' = drawn + 1
        /\ rels' = rels \cup {[id |-> drawn', graph |-> g, from |-> from.id, to |-> to.id,
                               indexed |-> FALSE]}
        /\ UNCHANGED <<events, stored, log, writing>>
IndexRelation ==
    \E r \in rels :
        /\ ~r.indexed
        /\ rels' = (rels \ {r}) \cup {[r EXCEPT !.indexed = TRUE]}
        /\ UNCHANGED <<events, stored, log, writing, drawn, calls>>
DeleteRelation ==
    \E r \in rels :
        /\ Call
        /\ rels' = rels \ {r}
        /\ UNCHANGED <<events, stored, log, writing, drawn>>

EditStore ==
    /\ \/ WritePayload \/ InsertEvent \/ Project \/ DeleteEvent \/ IndexRelation \/ DeleteRelation
       \/ \E g \in 1 .. made : InsertRelation(g)
    /\ UNCHANGED <<graphs, made, fileVars, deletion, clock, faults>>

-----------------------------------------------------------------------------
(* Graphs: registered first, unregistered first; then the relations the index  *)
(* finds go, the layout, the snapshots, the notes. The first failure ends the cascade, and    *)
(* the graph cannot be asked for again.                                        *)

CreateGraph ==
    /\ made < MaxGraphs /\ Call
    /\ made' = made + 1 /\ graphs' = graphs \cup {made'}
    /\ UNCHANGED <<deletion, fileVars, rels, faults>>
Unregister ==
    \E g \in graphs :
        /\ Cardinality(graphs) > 1 /\ deletion = NoDeletion /\ Call
        /\ graphs' = graphs \ {g}
        /\ deletion' = [graph |-> g, stage |-> "relations"]
        /\ UNCHANGED <<made, fileVars, rels, faults>>
DeleteRelations(g) ==
    /\ deletion.stage = "relations" /\ Writes(TRUE)
    /\ rels' = {r \in rels : r.graph # g \/ ~r.indexed}
    /\ deletion' = [deletion EXCEPT !.stage = "layout"]
    /\ UNCHANGED fileVars
DeleteLayout(g) ==
    /\ deletion.stage = "layout" /\ Writes(TRUE)
    /\ layouts' = [layouts EXCEPT ![g] = {}]
    /\ deletion' = [deletion EXCEPT !.stage = "snapshots"]
    /\ UNCHANGED <<rels, snaps, docs, docFiles, finds, findFile, kept>>
DeleteSnapshots(g) ==
    /\ deletion.stage = "snapshots" /\ Writes(TRUE)
    /\ snaps' = {s \in snaps : s.graph # g}
    /\ deletion' = [deletion EXCEPT !.stage = "notes"]
    /\ UNCHANGED <<rels, layouts, docs, docFiles, finds, findFile, kept>>
\* The copy in memory goes whether or not the file can be removed.
DeleteNotes(g, ok) ==
    /\ deletion.stage = "notes" /\ Writes(ok)
    /\ docs' = [docs EXCEPT ![g] = Unread]
    /\ docFiles' = IF ok THEN [docFiles EXCEPT ![g] = NoFile] ELSE docFiles
    /\ deletion' = NoDeletion
    /\ Forget(g, {k.uid : k \in kept[g].notes})
    /\ UNCHANGED <<rels, layouts, snaps, finds, findFile>>
CascadeStops ==
    /\ deletion.stage \in {"relations", "layout", "snapshots"} /\ Writes(FALSE)
    /\ deletion' = NoDeletion
    /\ UNCHANGED <<rels, fileVars>>

EditGraphs ==
    /\ \/ CreateGraph \/ Unregister
       \/ /\ \/ DeleteRelations(deletion.graph) \/ DeleteLayout(deletion.graph)
             \/ DeleteSnapshots(deletion.graph) \/ CascadeStops
             \/ \E ok \in BOOLEAN : DeleteNotes(deletion.graph, ok)
          /\ UNCHANGED <<graphs, made, calls>>
    /\ UNCHANGED <<events, stored, log, writing, drawn, clock>>

-----------------------------------------------------------------------------
Tick == clock < MaxClock /\ clock' = clock + 1
        /\ UNCHANGED <<graphs, made, storeVars, fileVars, deletion, calls, faults>>

\* The application stops, at any point, and is started again: with the store it had, or with an
\* empty one beside the same files, whose ids begin again (api_findings.go:97).
Restart ==
    /\ Writes(FALSE)
    /\ docs' = [g \in GraphIds |-> Unread] /\ finds' = findFile /\ deletion' = NoDeletion
    /\ writing' = FALSE
    /\ \/ UNCHANGED <<events, stored, log, rels, drawn>>
       \/ events' = {} /\ stored' = 0 /\ log' = 0 /\ rels' = {} /\ drawn' = 0
    /\ UNCHANGED <<graphs, made, layouts, snaps, docFiles, findFile, kept, clock, calls>>
=============================================================================
