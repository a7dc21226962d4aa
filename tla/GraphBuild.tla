------------------------------ MODULE GraphBuild ------------------------------
(***************************************************************************)
(* Rule-driven graph building: the relation store and its property index,  *)
(* the graph registry and its durable document, one build at a time, and   *)
(* the user who edits graphs and relations while it runs. Crashes, failing *)
(* store calls and a failing registry write can strike at every step.      *)
(*                                                                         *)
(* Abstractions:                                                           *)
(*  - a match of a rule is a key; a relation is its id, its graph, the     *)
(*    rule that produced it (NoRule when hand-drawn) and its key;          *)
(*  - what a rule matches is any set of keys: the engine is a function of  *)
(*    a dataset the user may have changed since the last build;            *)
(*  - layouts, snapshots and annotations of a deleted graph are left out;  *)
(*  - the repair's walk is one step, which may stop early when it fails.   *)
(***************************************************************************)
EXTENDS Naturals, Sequences, FiniteSets

CONSTANTS
    Rules,          \* correlation rules
    Keys,           \* matches a rule can produce
    Names,          \* graph names
    NameOf,         \* the name of each rule
    NoRule,         \* RuleID of a graph or relation made by hand
    BatchSize,      \* consts.RelationBatchSize
    MaxGraphs,      \* bound: graphs ever registered
    MaxEdges,       \* bound: relations ever inserted
    MaxFaults,      \* bound: crashes and failed calls
    MaxEdits        \* bound: edits by the user

ASSUME BuildAssumption ==
    /\ IsFiniteSet(Keys)
    /\ Names # {}
    /\ NameOf \in [Rules -> Names]
    /\ NoRule \notin Rules
    /\ BatchSize \in Nat \ {0}
    /\ {MaxGraphs, MaxEdges, MaxFaults, MaxEdits} \subseteq Nat

VARIABLES
    edges,    \* durable: relations
    indexed,  \* durable: ids of relations whose index entries are registered
    nextEdge, \* next relation id
    reg,      \* graphreg.Store.s
    disk,     \* durable: registry.json
    bpc,      \* where the build is
    cancelled,\* the build's context is cancelled
    todo,     \* selected rules not yet built
    rule,     \* the rule being built
    target,   \* its graph
    gen,      \* what it matched
    left,     \* matches not yet inserted
    batch,    \* relations committed and not yet indexed
    late,     \* history: rules begun and relations written since the build was cancelled
    clr,      \* DeleteGraphRelations in progress, of the build and of the user
    drawn,    \* hand-drawn relation committed and not yet indexed, or 0
    edits,    \* edits by the user so far
    faults,   \* crashes and failures so far
    failed    \* history: "repair" or "registry" once such a call has failed

storeVars == <<edges, indexed, nextEdge>>
regVars == <<reg, disk>>
buildVars == <<cancelled, todo, rule, target, gen, left, batch, late>>
userVars == <<drawn, edits>>
faultVars == <<faults, failed>>
vars == <<storeVars, regVars, bpc, buildVars, clr, userVars, faultVars>>

-----------------------------------------------------------------------------
(* The relation store *)

Actors == {"build", "user"}
NoneLate == [rules |-> 0, relations |-> 0]
NoClear == [pc |-> "none", graph |-> 0, ids |-> {}]
EdgeIds == {e.id : e \in edges}

\* Relations that graph-scoped queries find (RelationsByGraph).
Visible(g) == {e \in edges : e.graph = g /\ e.id \in indexed}

\* The ids a chunk of matches is given: the next ones, in some order.
NewIds(S) ==
    {f \in [S -> nextEdge .. (nextEdge + Cardinality(S) - 1)] :
        \A k, l \in S : f[k] = f[l] => k = l}

-----------------------------------------------------------------------------
(* The registry *)

Ids(R) == {R.graphs[i].id : i \in DOMAIN R.graphs}
Bound(R, r) == {i \in DOMAIN R.graphs : R.graphs[i].rule = r}
Adoptable(R, r) ==
    {i \in DOMAIN R.graphs : R.graphs[i].rule = NoRule /\ R.graphs[i].name = NameOf[r]}
First(S) == CHOOSE i \in S : \A j \in S : i <= j

\* A new graph gets the next id; ids only grow.
WithGraph(R, r, n) ==
    [R EXCEPT !.graphs = Append(@, [id |-> R.nextId, rule |-> r, name |-> n]),
              !.nextId = @ + 1]

\* The rule's graph, an unbound graph of its name, or a new graph; the active
\* graph stays what it is.
EnsureForRule(R, r) ==
    IF Bound(R, r) # {} THEN R
    ELSE IF Adoptable(R, r) # {}
         THEN [R EXCEPT !.graphs[First(Adoptable(R, r))].rule = r]
         ELSE WithGraph(R, r, NameOf[r])

IndexOf(R, g) == CHOOSE i \in DOMAIN R.graphs : R.graphs[i].id = g
RemoveGraph(R, g) ==
    [i \in 1 .. Len(R.graphs) - 1 |->
        IF i < IndexOf(R, g) THEN R.graphs[i] ELSE R.graphs[i + 1]]

\* Faulty variant: the active graph is not looked at.
WithoutKeepingActive(R, g) == [R EXCEPT !.graphs = RemoveGraph(R, g)]

\* Removes a graph; the first one left becomes active if it was.
Without(R, g) ==
    [R EXCEPT !.graphs = RemoveGraph(R, g),
              !.active = IF @ = g THEN RemoveGraph(R, g)[1].id ELSE @]

\* Delete refuses an unknown graph and the last one.
Deletable(R, g) == g \in Ids(R) /\ Len(R.graphs) > 1

\* A call fails that is not an action of its own.
CallFails(what) ==
    /\ faults < MaxFaults
    /\ faults' = faults + 1
    /\ failed' = failed \cup {what}

\* persist: memory has changed already; the document may fail to be written.
Saved(R) == reg' = R /\ disk' = R /\ UNCHANGED faultVars
NotSaved(R) ==
    /\ CallFails("registry")
    /\ reg' = R
    /\ UNCHANGED disk

-----------------------------------------------------------------------------

\* EnsureDefault on an empty case.
FirstRegistry ==
    [graphs |-> <<[id |-> 1, rule |-> NoRule, name |-> CHOOSE n \in Names : TRUE]>>,
     nextId |-> 2, active |-> 1]

Init ==
    /\ edges = {}
    /\ indexed = {}
    /\ nextEdge = 1
    /\ reg = FirstRegistry
    /\ disk = FirstRegistry
    /\ bpc = "idle"
    /\ cancelled = FALSE
    /\ todo = {}
    /\ rule = NoRule
    /\ target = 0
    /\ gen = {}
    /\ left = {}
    /\ batch = {}
    /\ late = NoneLate
    /\ clr = [a \in Actors |-> NoClear]
    /\ drawn = 0
    /\ edits = 0
    /\ faults = 0
    /\ failed = {}

-----------------------------------------------------------------------------
(* DeleteGraphRelations *)

\* RelationsByGraph reads what the index knows of the graph.
ReadGraph(a) ==
    /\ clr[a].pc = "read"
    /\ clr' = [clr EXCEPT ![a].ids = {e.id : e \in Visible(clr[a].graph)},
                          ![a].pc = IF Visible(clr[a].graph) = {} THEN "done" ELSE "commit"]
    /\ UNCHANGED <<storeVars, regVars, bpc, buildVars, userVars, faultVars>>

\* One transaction; if a relation has gone meanwhile, none is deleted and the
\* rest are deleted one by one.
CommitClear(a) ==
    /\ clr[a].pc = "commit"
    /\ IF clr[a].ids \subseteq EdgeIds
       THEN /\ edges' = {e \in edges : e.id \notin clr[a].ids}
            /\ indexed' = indexed \ clr[a].ids
            /\ clr' = [clr EXCEPT ![a].pc = "done"]
       ELSE /\ clr' = [clr EXCEPT ![a].pc = "each"]
            /\ UNCHANGED <<edges, indexed>>
    /\ UNCHANGED <<nextEdge, regVars, bpc, buildVars, userVars, faultVars>>

ClearOne(a) ==
    /\ clr[a].pc = "each"
    /\ \E e \in edges :
          /\ e.id \in clr[a].ids
          /\ edges' = edges \ {e}
          /\ indexed' = indexed \ {e.id}
    /\ UNCHANGED <<nextEdge, regVars, bpc, buildVars, clr, userVars, faultVars>>

ClearedAll(a) ==
    /\ clr[a].pc = "each"
    /\ clr[a].ids \cap EdgeIds = {}
    /\ clr' = [clr EXCEPT ![a].pc = "done"]
    /\ UNCHANGED <<storeVars, regVars, bpc, buildVars, userVars, faultVars>>

Clear(a) == ReadGraph(a) \/ CommitClear(a) \/ ClearOne(a) \/ ClearedAll(a)

-----------------------------------------------------------------------------
(* RunWithProgress and runRule *)

\* RunRules, refused while a build is running.
StartBuild(S) ==
    /\ bpc = "idle"
    /\ todo' = S
    /\ cancelled' = FALSE
    /\ late' = NoneLate
    /\ bpc' = "repair"
    /\ UNCHANGED <<storeVars, regVars, rule, target, gen, left, batch, clr, userVars,
                   faultVars>>

CancelBuild ==
    /\ bpc # "idle"
    /\ ~cancelled
    /\ cancelled' = TRUE
    /\ UNCHANGED <<storeVars, regVars, bpc, todo, rule, target, gen, left, batch, late, clr,
                   userVars, faultVars>>

\* Faulty variant: a build does not begin with a repair.
RepairNothing ==
    /\ bpc = "repair"
    /\ bpc' = "next"
    /\ UNCHANGED <<storeVars, regVars, buildVars, clr, userVars, faultVars>>

\* RepairRelationIndex: an error, even half way, does not fail the build.
Repair ==
    /\ bpc = "repair"
    /\ \/ indexed' = EdgeIds /\ UNCHANGED faultVars
       \/ /\ CallFails("repair")
          /\ \E S \in SUBSET EdgeIds : indexed' = indexed \cup S
    /\ bpc' = "next"
    /\ UNCHANGED <<edges, nextEdge, regVars, buildVars, clr, userVars>>

\* Locate or create the rule's graph and begin to clear it.
EnsureGraph(r) ==
    /\ bpc = "next"
    /\ r \in todo
    /\ ~cancelled
    /\ Bound(reg, r) = {} /\ Adoptable(reg, r) = {} => reg.nextId <= MaxGraphs
    /\ \/ /\ \/ Bound(reg, r) # {} /\ UNCHANGED <<regVars, faultVars>>
             \/ Bound(reg, r) = {} /\ Saved(EnsureForRule(reg, r))
          /\ rule' = r
          /\ \E i \in Bound(reg', r) : target' = reg'.graphs[i].id
          /\ clr' = [clr EXCEPT !["build"] = [pc |-> "read", graph |-> target', ids |-> {}]]
          /\ bpc' = "clear"
       \/ /\ Bound(reg, r) = {} /\ NotSaved(EnsureForRule(reg, r))
          /\ bpc' = "idle"
          /\ UNCHANGED <<rule, target, clr>>
    /\ todo' = todo \ {r}
    /\ gen' = {}
    /\ late' = IF cancelled THEN [late EXCEPT !.rules = @ + 1] ELSE late
    /\ UNCHANGED <<storeVars, cancelled, left, batch, userVars>>

\* Faulty variant: the rule's graph is not cleared first.
GenerateUncleared(M) ==
    /\ bpc = "clear"
    /\ clr' = [clr EXCEPT !["build"] = NoClear]
    /\ gen' = M
    /\ left' = M
    /\ bpc' = "write"
    /\ UNCHANGED <<storeVars, regVars, cancelled, todo, rule, target, batch, late, userVars,
                   faultVars>>

\* Cleared; the engine runs.
Generate(M) ==
    /\ bpc = "clear"
    /\ clr["build"].pc = "done"
    /\ clr' = [clr EXCEPT !["build"] = NoClear]
    /\ gen' = M
    /\ left' = M
    /\ bpc' = "write"
    /\ UNCHANGED <<storeVars, regVars, cancelled, todo, rule, target, batch, late, userVars,
                   faultVars>>

\* Faulty variant: a cancel is looked for between rules only.
CollectRegardless ==
    /\ bpc = "write"
    /\ left # {}
    /\ bpc' = "flush"
    /\ UNCHANGED <<storeVars, regVars, buildVars, clr, userVars, faultVars>>

\* A chunk of matches is collected; before each of them a cancel is looked for.
Collect ==
    /\ bpc = "write"
    /\ left # {}
    /\ ~cancelled
    /\ bpc' = "flush"
    /\ UNCHANGED <<storeVars, regVars, buildVars, clr, userVars, faultVars>>

\* InsertRelations commits the chunk, cancelled meanwhile or not.
InsertRelations(S) ==
    /\ bpc = "flush"
    /\ S # {} /\ S \subseteq left
    /\ Cardinality(S) = BatchSize \/ (S = left /\ Cardinality(S) < BatchSize)
    /\ nextEdge + Cardinality(S) <= MaxEdges + 1
    /\ \E f \in NewIds(S) :
          edges' = edges \cup {[id |-> f[k], graph |-> target, rule |-> rule, key |-> k] :
                               k \in S}
    /\ nextEdge' = nextEdge + Cardinality(S)
    /\ batch' = nextEdge .. (nextEdge' - 1)
    /\ left' = left \ S
    /\ late' = IF cancelled THEN [late EXCEPT !.relations = @ + Cardinality(S)] ELSE late
    /\ bpc' = "index"
    /\ UNCHANGED <<indexed, regVars, cancelled, todo, rule, target, gen, clr, userVars,
                   faultVars>>

\* Then it registers their index entries, one by one.
IndexEdge ==
    /\ bpc = "index"
    /\ batch # {}
    /\ IF First(batch) \in EdgeIds
       THEN /\ indexed' = indexed \cup {First(batch)}
            /\ batch' = batch \ {First(batch)}
            /\ bpc' = bpc
       ELSE bpc' = "idle" /\ batch' = {} /\ UNCHANGED indexed
    /\ UNCHANGED <<edges, nextEdge, regVars, cancelled, todo, rule, target, gen, left, late, clr,
                   userVars, faultVars>>

Indexed ==
    /\ bpc = "index"
    /\ batch = {}
    /\ bpc' = "write"
    /\ UNCHANGED <<storeVars, regVars, buildVars, clr, userVars, faultVars>>

\* Everything is written; a rule that matched nothing leaves no graph unless
\* the user looks at it.
RuleDone ==
    /\ bpc = "write"
    /\ left = {}
    /\ bpc' = IF gen = {} /\ reg.active # target THEN "discard" ELSE "next"
    /\ UNCHANGED <<storeVars, regVars, buildVars, clr, userVars, faultVars>>

\* discardEmptyGraph, after its look at the active graph.
DiscardGraph ==
    /\ bpc = "discard"
    /\ IF Deletable(reg, target)
       THEN \/ Saved(Without(reg, target)) /\ bpc' = "next"
            \/ NotSaved(Without(reg, target)) /\ bpc' = "idle"
       ELSE bpc' = "next" /\ UNCHANGED <<regVars, faultVars>>
    /\ UNCHANGED <<storeVars, buildVars, clr, userVars>>

\* The run returns: all rules done, or cancelled between rules or relations.
BuildReturns ==
    /\ \/ bpc = "next" /\ (todo = {} \/ cancelled)
       \/ bpc = "write" /\ left # {} /\ cancelled
    /\ bpc' = "idle"
    /\ UNCHANGED <<storeVars, regVars, buildVars, clr, userVars, faultVars>>

\* A store call returns an error.
BuildFails ==
    /\ faults < MaxFaults
    /\ faults' = faults + 1
    /\ \/ bpc = "clear" /\ clr["build"].pc # "done"
       \/ bpc = "flush"
       \/ bpc = "index" /\ batch # {}
    /\ bpc' = "idle"
    /\ batch' = {}
    /\ clr' = [clr EXCEPT !["build"] = NoClear]
    /\ UNCHANGED <<storeVars, regVars, cancelled, todo, rule, target, gen, left, late, userVars,
                   failed>>

Build ==
    \/ Repair
    \/ \E r \in Rules : EnsureGraph(r)
    \/ Clear("build")
    \/ \E M \in SUBSET Keys : Generate(M)
    \/ Collect
    \/ \E S \in SUBSET left : InsertRelations(S)
    \/ IndexEdge \/ Indexed \/ RuleDone \/ DiscardGraph \/ BuildReturns

-----------------------------------------------------------------------------
(* GraphAPI *)

Edit == edits < MaxEdits /\ edits' = edits + 1

\* The relation or the graph the user is busy with is done first.
UserFree == clr["user"] = NoClear /\ drawn = 0

CreateGraph(n) ==
    /\ Edit /\ UserFree
    /\ reg.nextId <= MaxGraphs
    /\ LET R == [WithGraph(reg, NoRule, n) EXCEPT !.active = reg.nextId]
       IN  Saved(R) \/ NotSaved(R)
    /\ UNCHANGED <<storeVars, bpc, buildVars, clr, drawn>>

SetActiveGraph(g) ==
    /\ Edit /\ UserFree
    /\ g \in Ids(reg)
    /\ LET R == [reg EXCEPT !.active = g] IN Saved(R) \/ NotSaved(R)
    /\ UNCHANGED <<storeVars, bpc, buildVars, clr, drawn>>

RenameGraph(g, n) ==
    /\ Edit /\ UserFree
    /\ \E i \in DOMAIN reg.graphs :
          /\ reg.graphs[i].id = g
          /\ LET R == [reg EXCEPT !.graphs[i].name = n] IN Saved(R) \/ NotSaved(R)
    /\ UNCHANGED <<storeVars, bpc, buildVars, clr, drawn>>

\* The registry entry goes first, the graph's relations after it; they stay if
\* the registry could not be written.
DeleteGraph(g) ==
    /\ Edit /\ UserFree
    /\ Deletable(reg, g)
    /\ \/ /\ Saved(Without(reg, g))
          /\ clr' = [clr EXCEPT !["user"] = [pc |-> "read", graph |-> g, ids |-> {}]]
       \/ NotSaved(Without(reg, g)) /\ UNCHANGED clr
    /\ UNCHANGED <<storeVars, bpc, buildVars, drawn>>

GraphDeleted ==
    /\ clr["user"].pc = "done"
    /\ clr' = [clr EXCEPT !["user"] = NoClear]
    /\ UNCHANGED <<storeVars, regVars, bpc, buildVars, userVars, faultVars>>

\* A hand-drawn relation, committed first and indexed after.
CreateRelation(g) ==
    /\ Edit /\ UserFree
    /\ g \in Ids(reg)
    /\ nextEdge <= MaxEdges
    /\ edges' = edges \cup {[id |-> nextEdge, graph |-> g, rule |-> NoRule, key |-> 0]}
    /\ nextEdge' = nextEdge + 1
    /\ drawn' = nextEdge
    /\ UNCHANGED <<indexed, regVars, bpc, buildVars, clr, faultVars>>

IndexDrawn ==
    /\ drawn # 0
    /\ indexed' = IF drawn \in EdgeIds THEN indexed \cup {drawn} ELSE indexed
    /\ drawn' = 0
    /\ UNCHANGED <<edges, nextEdge, regVars, bpc, buildVars, clr, edits, faultVars>>

DeleteRelation(e) ==
    /\ Edit /\ UserFree
    /\ edges' = edges \ {e}
    /\ indexed' = indexed \ {e.id}
    /\ UNCHANGED <<nextEdge, regVars, bpc, buildVars, clr, drawn, faultVars>>

User ==
    \/ \E n \in Names : CreateGraph(n)
    \/ \E g \in Ids(reg) :
          \/ SetActiveGraph(g) \/ DeleteGraph(g) \/ CreateRelation(g)
          \/ \E n \in Names : RenameGraph(g, n)
    \/ Clear("user") \/ GraphDeleted \/ IndexDrawn
    \/ \E e \in edges : DeleteRelation(e)
    \/ \E S \in (SUBSET Rules) \ {{}} : StartBuild(S)
    \/ CancelBuild

\* The process dies and the case is opened again.
Crash ==
    /\ faults < MaxFaults
    /\ faults' = faults + 1
    /\ reg' = disk
    /\ bpc' = "idle"
    /\ cancelled' = FALSE
    /\ todo' = {}
    /\ batch' = {}
    /\ late' = NoneLate
    /\ clr' = [a \in Actors |-> NoClear]
    /\ drawn' = 0
    /\ UNCHANGED <<storeVars, disk, rule, target, gen, left, edits, failed>>

Next == Build \/ BuildFails \/ User \/ Crash

Spec == Init /\ [][Next]_vars

-----------------------------------------------------------------------------
(* Properties *)

Graph == [id : Nat, rule : Rules \cup {NoRule}, name : Names]
Registry == [graphs : Seq(Graph), nextId : Nat, active : Nat]

\* Every variable has the shape its Go counterpart has.
TypeOK ==
    /\ edges \subseteq [id : Nat, graph : Nat, rule : Rules \cup {NoRule}, key : Keys \cup {0}]
    /\ indexed \subseteq Nat
    /\ nextEdge \in Nat
    /\ reg \in Registry
    /\ disk \in Registry
    /\ bpc \in {"idle", "repair", "next", "clear", "write", "flush", "index", "discard"}
    /\ cancelled \in BOOLEAN
    /\ todo \subseteq Rules
    /\ rule \in Rules \cup {NoRule}
    /\ target \in Nat
    /\ gen \subseteq Keys
    /\ left \subseteq Keys
    /\ batch \subseteq Nat
    /\ late \in [rules : Nat, relations : Nat]
    /\ clr \in [Actors -> [pc : {"none", "read", "commit", "each", "done"},
                           graph : Nat, ids : SUBSET Nat]]
    /\ drawn \in Nat
    /\ edits \in Nat
    /\ faults \in Nat
    /\ failed \subseteq {"repair", "registry"}

WellFormed(R) ==
    /\ \A i, j \in DOMAIN R.graphs : R.graphs[i].id = R.graphs[j].id => i = j
    /\ \A g \in Ids(R) : g < R.nextId
    /\ R.active \in Ids(R)
    /\ \A r \in Rules : \A i, j \in Bound(R, r) : i = j

\* In memory and on disk the registry names every graph once, never runs out
\* of graphs, binds a rule to one graph at most, and its active graph exists:
\* EnsureDefault indexes the graph list with it at every start.
RegistryIsConsistent == WellFormed(reg) /\ WellFormed(disk)

Unique ==
    \A e, f \in edges :
        e.rule # NoRule /\ e.graph = f.graph /\ e.rule = f.rule /\ e.key = f.key => e = f

\* Re-running a rule replaces: no graph ever holds one match of one rule
\* twice, findable or not, whatever was interrupted, as long as no repair has
\* failed (graphbuild.go header).
NoMatchTwice == "repair" \notin failed => Unique

OnlyNew ==
    bpc \in {"write", "flush", "index"} =>
        \A e \in edges : e.graph = target /\ e.rule = rule => e.key \in gen \ left

\* While a rule's graph is being written it holds nothing of an earlier result,
\* under the same condition.
NothingStaleInTarget == "repair" \notin failed => OnlyNew

\* A cancel is honoured at the next chunk: a cancelled build writes what it had
\* collected, one chunk at most, and neither goes on with its rule nor begins
\* another, whose graph it would clear first (graphbuild.go:135, :269).
CancelIsHonoured == late.rules = 0 /\ late.relations <= BatchSize
=============================================================================
