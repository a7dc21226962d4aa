--------------------------- MODULE GraphBuildProofs ---------------------------
(***************************************************************************)
(* Proof that rebuilding replaces: no graph ever holds one match of one    *)
(* rule twice, whatever crashes, fails or is edited meanwhile, as long as  *)
(* the repair at the start of a build succeeds.                            *)
(*                                                                         *)
(* The argument: from the repair on every relation a rule produced is      *)
(* indexed, except those of the chunk being indexed. So the clear finds    *)
(* all of the rule's relations in its graph, and when it is done there are *)
(* none; what is written afterwards is a match not written yet.            *)
(*                                                                         *)
(* The registry is proved apart from it: each operation takes a registry   *)
(* that is fit to one that is, and memory and document are two of those.   *)
(* So is what a cancelled build still writes: a chunk is collected only    *)
(* before the cancel, and nothing is collected after it.                   *)
(***************************************************************************)
EXTENDS GraphBuild, FiniteSetTheorems, WellFoundedInduction, TLAPS

\* The relations the rule being built has in its graph.
Mine == {e \in edges : e.graph = target /\ e.rule = rule}

IdsAreFresh ==
    /\ nextEdge \in Nat
    /\ \A e \in edges : e.id \in Nat /\ e.id < nextEdge
    /\ \A e, f \in edges : e.id = f.id => e = f

ClrShape ==
    /\ clr = [a \in Actors |-> clr[a]]
    /\ \A a \in Actors :
          clr[a] = [pc |-> clr[a].pc, graph |-> clr[a].graph, ids |-> clr[a].ids]

\* The build is at work on a rule, in the graph it clears.
AtWork ==
    /\ bpc \in {"clear", "write", "flush", "index", "discard"} => rule \in Rules
    /\ bpc = "clear" => clr["build"].graph = target
    /\ bpc \in {"write", "flush", "index"} => left \subseteq gen /\ gen \subseteq Keys

RulesIndexed ==
    /\ bpc \in {"next", "clear", "write", "flush", "discard"} =>
          \A e \in edges : e.rule # NoRule => e.id \in indexed
    /\ bpc = "index" => \A e \in edges : e.rule # NoRule => e.id \in indexed \cup batch

ClearFindsAll ==
    bpc = "clear" =>
        /\ clr["build"].pc \in {"commit", "each"} => \A e \in Mine : e.id \in clr["build"].ids
        /\ clr["build"].pc = "done" => Mine = {}

GInv ==
    /\ IdsAreFresh
    /\ ClrShape
    /\ AtWork
    /\ RulesIndexed
    /\ ClearFindsAll
    /\ OnlyNew
    /\ Unique

-----------------------------------------------------------------------------

\* Steps that add no relation, forget no index entry of one that stays and
\* leave the build where it is.
LEMMA Shrinks ==
    ASSUME GInv, edges' \subseteq edges, nextEdge' = nextEdge,
           \A e \in edges' : e.id \in indexed => e.id \in indexed',
           UNCHANGED <<bpc, rule, target, gen, left, batch>>,
           clr'["build"] = clr["build"], ClrShape'
    PROVE  GInv'
<1>1. IdsAreFresh'
  BY DEF GInv, IdsAreFresh
<1>2. AtWork'
  BY DEF GInv, AtWork
<1>3. RulesIndexed'
  BY DEF GInv, RulesIndexed
<1>4. ClearFindsAll'
  BY DEF GInv, ClearFindsAll, Mine
<1>5. OnlyNew' /\ Unique'
  BY DEF GInv, OnlyNew, Unique
<1>6. QED BY <1>1, <1>2, <1>3, <1>4, <1>5 DEF GInv

\* The build ends or has not reached a rule: what is stored is what counts.
LEMMA Ends ==
    ASSUME GInv, bpc' \in {"idle", "repair"}, UNCHANGED <<edges, nextEdge>>, ClrShape'
    PROVE  GInv'
BY DEF GInv, IdsAreFresh, AtWork, RulesIndexed, ClearFindsAll, OnlyNew,
       Unique

LEMMA ShapeKept ==
    ASSUME ClrShape, NEW a \in Actors, NEW rec, rec = [pc |-> rec.pc, graph |-> rec.graph,
           ids |-> rec.ids], clr' = [clr EXCEPT ![a] = rec]
    PROVE  /\ ClrShape' /\ clr'[a] = rec
           /\ \A b \in Actors \ {a} : clr'[b] = clr[b]
BY DEF ClrShape

-----------------------------------------------------------------------------
(* Clearing a graph *)

\* The clear of either actor removes relations, and their index entries only.
LEMMA ClearRemoves ==
    ASSUME GInv, NEW a \in Actors, Clear(a)
    PROVE  /\ edges' \subseteq edges /\ nextEdge' = nextEdge
           /\ \A e \in edges' : e.id \in indexed => e.id \in indexed'
           /\ UNCHANGED <<bpc, rule, target, gen, left, batch>>
<1>1. CASE ReadGraph(a) \/ ClearedAll(a)
  BY <1>1 DEF ReadGraph, ClearedAll, storeVars, buildVars
<1>2. CASE CommitClear(a)
  BY <1>2 DEF CommitClear, buildVars
<1>3. CASE ClearOne(a)
  BY <1>3 DEF ClearOne, buildVars, GInv, IdsAreFresh
<1>4. QED BY <1>1, <1>2, <1>3 DEF Clear

\* What ReadGraph leaves in clr.
ReadRecord(a) ==
    [pc |-> IF Visible(clr[a].graph) = {} THEN "done" ELSE "commit",
     graph |-> clr[a].graph, ids |-> {e.id : e \in Visible(clr[a].graph)}]

LEMMA ReadEffect ==
    ASSUME ClrShape, NEW a \in Actors, ReadGraph(a)
    PROVE  clr' = [clr EXCEPT ![a] = ReadRecord(a)]
<1> DEFINE V == {e.id : e \in Visible(clr[a].graph)}
           p == IF Visible(clr[a].graph) = {} THEN "done" ELSE "commit"
           half == [clr EXCEPT ![a].ids = V]
<1>1. clr' = [half EXCEPT ![a].pc = p]
  BY DEF ReadGraph
<1> HIDE DEF V, p
<1>2. half = [b \in Actors |-> IF b = a THEN [pc |-> clr[a].pc, graph |-> clr[a].graph, ids |-> V]
                               ELSE clr[b]]
  BY DEF ClrShape
<1> HIDE DEF half
<1>3. clr' = [b \in Actors |-> IF b = a THEN [pc |-> p, graph |-> clr[a].graph, ids |-> V]
                               ELSE clr[b]]
  BY <1>1, <1>2
<1>4. ReadRecord(a) = [pc |-> p, graph |-> clr[a].graph, ids |-> V]
  BY DEF ReadRecord, p, V
<1>5. QED BY <1>3, <1>4 DEF ClrShape

LEMMA ClearShape ==
    ASSUME ClrShape, NEW a \in Actors, Clear(a)
    PROVE  /\ ClrShape' /\ \A b \in Actors \ {a} : clr'[b] = clr[b]
           /\ clr'[a].graph = clr[a].graph
<1>1. CASE ReadGraph(a)
  <2>1. clr' = [clr EXCEPT ![a] = ReadRecord(a)]
    BY <1>1, ReadEffect
  <2>2. /\ ReadRecord(a) = [pc |-> ReadRecord(a).pc, graph |-> ReadRecord(a).graph,
                             ids |-> ReadRecord(a).ids]
        /\ ReadRecord(a).graph = clr[a].graph
    BY DEF ReadRecord
  <2>3. QED BY <2>1, <2>2, ShapeKept
<1>2. CASE CommitClear(a) \/ ClearedAll(a)
  <2>1. \E p \in {"done", "each"} :
           clr' = [clr EXCEPT ![a] = [pc |-> p, graph |-> clr[a].graph, ids |-> clr[a].ids]]
    BY <1>2 DEF CommitClear, ClearedAll, ClrShape
  <2>2. QED BY <2>1 DEF ClrShape
<1>3. CASE ClearOne(a)
  BY <1>3 DEF ClearOne, ClrShape
<1>4. QED BY <1>1, <1>2, <1>3 DEF Clear

LEMMA UserClears ==
    ASSUME GInv, Clear("user")
    PROVE  GInv'
<1>1. "user" \in Actors /\ "build" \in Actors \ {"user"}
  BY DEF Actors
<1>2. ClrShape' /\ clr'["build"] = clr["build"]
  BY <1>1, ClearShape DEF GInv
<1>3. QED BY <1>1, <1>2, ClearRemoves, Shrinks

\* The build's clear covers all that its rule has in the graph.
LEMMA BuildClears ==
    ASSUME GInv, Clear("build")
    PROVE  GInv'
<1>1. "build" \in Actors
  BY DEF Actors
<1>2. /\ ClrShape' /\ clr'["build"].graph = clr["build"].graph
      /\ edges' \subseteq edges /\ nextEdge' = nextEdge
      /\ \A e \in edges' : e.id \in indexed => e.id \in indexed'
      /\ UNCHANGED <<bpc, rule, target, gen, left, batch>>
  BY <1>1, ClearRemoves, ClearShape DEF GInv
<1>3. IdsAreFresh' /\ AtWork' /\ OnlyNew' /\ Unique'
  BY <1>2 DEF GInv, IdsAreFresh, AtWork, OnlyNew, Unique
<1>4. RulesIndexed'
  BY <1>2 DEF GInv, RulesIndexed
<1>5. ClearFindsAll'
  <2>1. SUFFICES ASSUME bpc = "clear"
                 PROVE  ClearFindsAll'
    BY <1>2 DEF ClearFindsAll
  <2>2. Mine' \subseteq Mine
    BY <1>2 DEF Mine
  <2>3. CASE ReadGraph("build")
    <3>1. \A e \in Mine : e \in Visible(target)
      BY <2>1, BuildAssumption DEF GInv, AtWork, RulesIndexed, Mine, Visible
    <3>2. clr["build"].graph = target
      BY <2>1 DEF GInv, AtWork
    <3>3. clr'["build"] = [pc |-> IF Visible(target) = {} THEN "done" ELSE "commit",
                           graph |-> target, ids |-> {e.id : e \in Visible(target)}]
      BY SMTT(60), <1>1, <2>3, <3>2, ReadEffect, ShapeKept DEF ReadRecord, GInv
    <3>4. QED BY <2>2, <3>1, <3>3 DEF ClearFindsAll
  <2>4. CASE CommitClear("build")
    <3>1. clr["build"].pc = "commit" /\ \A e \in Mine : e.id \in clr["build"].ids
      BY <2>1, <2>4 DEF GInv, ClearFindsAll, CommitClear
    <3>2. CASE clr["build"].ids \subseteq EdgeIds
      <4>1. edges' = {e \in edges : e.id \notin clr["build"].ids}
        BY <2>4, <3>2 DEF CommitClear
      <4>2. Mine' = {}
        BY <2>2, <3>1, <4>1 DEF Mine
      <4>3. clr'["build"].pc = "done"
        BY <1>1, <2>4, <3>2 DEF CommitClear, GInv, ClrShape
      <4>4. QED BY <4>2, <4>3 DEF ClearFindsAll
    <3>3. CASE ~(clr["build"].ids \subseteq EdgeIds)
      <4>1. clr'["build"].pc = "each" /\ clr'["build"].ids = clr["build"].ids
        BY <1>1, <2>4, <3>3 DEF CommitClear, GInv, ClrShape
      <4>2. QED BY <2>2, <3>1, <4>1 DEF ClearFindsAll
    <3>4. QED BY <3>2, <3>3
  <2>5. CASE ClearOne("build")
    BY <2>1, <2>2, <2>5 DEF ClearOne, GInv, ClearFindsAll
  <2>6. CASE ClearedAll("build")
    <3>1. clr["build"].pc = "each" /\ \A e \in Mine : e.id \in clr["build"].ids
      BY <2>1, <2>6 DEF GInv, ClearFindsAll, ClearedAll
    <3>2. Mine = {}
      BY <3>1, <2>6 DEF ClearedAll, EdgeIds, Mine
    <3>3. clr'["build"].pc = "done"
      BY <1>1, <2>6 DEF ClearedAll, GInv, ClrShape
    <3>4. QED BY <2>2, <3>2, <3>3 DEF ClearFindsAll
  <2>7. QED BY <2>3, <2>4, <2>5, <2>6 DEF Clear
<1>6. QED BY <1>2, <1>3, <1>4, <1>5 DEF GInv
-----------------------------------------------------------------------------
(* The build *)

LEMMA InitHolds == Init => GInv
<1>1. ASSUME Init PROVE ClrShape
  BY <1>1 DEF Init, ClrShape, NoClear
<1>2. ASSUME Init PROVE edges = {} /\ nextEdge = 1 /\ bpc = "idle"
  BY <1>2 DEF Init
<1>3. ASSUME Init PROVE IdsAreFresh /\ Unique
  BY <1>2, <1>3 DEF IdsAreFresh, Unique
<1>4. ASSUME Init PROVE AtWork /\ RulesIndexed /\ ClearFindsAll /\ OnlyNew
  BY <1>2, <1>4 DEF AtWork, RulesIndexed, ClearFindsAll, OnlyNew
<1>5. QED BY <1>1, <1>3, <1>4 DEF GInv

LEMMA Repairs ==
    ASSUME GInv, Repair, "repair" \notin failed'
    PROVE  GInv'
<1>1. indexed' = {e.id : e \in edges} /\ bpc' = "next" /\ edges' = edges
      /\ nextEdge' = nextEdge /\ clr' = clr
  BY DEF Repair, EdgeIds, CallFails
<1>2. QED
  BY <1>1 DEF GInv, IdsAreFresh, ClrShape, AtWork, RulesIndexed, ClearFindsAll,
              OnlyNew, Unique

\* The build stands between rules or between chunks, or has written a whole result.
LEMMA Steps ==
    ASSUME GInv, bpc \in {"next", "write", "discard"}, bpc' \in {"next", "flush", "discard"},
           bpc' \in {"flush", "discard"} => bpc = "write",
           UNCHANGED <<edges, nextEdge, indexed, rule, target, gen, left, clr>>
    PROVE  GInv'
BY DEF GInv, IdsAreFresh, ClrShape, AtWork, RulesIndexed, ClearFindsAll,
       OnlyNew, Unique

LEMMA Ensures ==
    ASSUME GInv, NEW r \in Rules, EnsureGraph(r)
    PROVE  GInv'
<1>1. edges' = edges /\ nextEdge' = nextEdge /\ indexed' = indexed /\ bpc = "next"
  BY DEF EnsureGraph, storeVars
<1>2. CASE bpc' = "idle" /\ clr' = clr
  BY <1>1, <1>2, Ends DEF GInv, ClrShape
<1>3. CASE /\ bpc' = "clear" /\ rule' = r
           /\ clr' = [clr EXCEPT !["build"] = [pc |-> "read", graph |-> target', ids |-> {}]]
  <2>1. "build" \in Actors
    BY DEF Actors
  <2>2. ClrShape' /\ clr'["build"] = [pc |-> "read", graph |-> target', ids |-> {}]
    BY <1>3, <2>1, ShapeKept DEF GInv
  <2>3. QED
    BY <1>1, <1>3, <2>2 DEF GInv, IdsAreFresh, AtWork, RulesIndexed, ClearFindsAll,
                            OnlyNew, Unique
<1>4. QED BY <1>2, <1>3 DEF EnsureGraph

LEMMA Generates ==
    ASSUME GInv, NEW M \in SUBSET Keys, Generate(M)
    PROVE  GInv'
<1>1. /\ edges' = edges /\ nextEdge' = nextEdge /\ indexed' = indexed
      /\ bpc = "clear" /\ bpc' = "write" /\ rule' = rule /\ target' = target
      /\ gen' = M /\ left' = M /\ clr["build"].pc = "done"
  BY DEF Generate, storeVars
<1>2. "build" \in Actors
  BY DEF Actors
<1>3. ClrShape'
  BY <1>2, ShapeKept DEF Generate, NoClear, GInv
<1>4. Mine = {}
  BY <1>1 DEF GInv, ClearFindsAll
<1>5. OnlyNew'
  BY <1>1, <1>4 DEF OnlyNew, Mine
<1>6. QED
  BY <1>1, <1>3, <1>5 DEF GInv, IdsAreFresh, AtWork, RulesIndexed, ClearFindsAll, Unique

LEMMA Inserts ==
    ASSUME GInv, NEW S \in SUBSET left, InsertRelations(S)
    PROVE  GInv'
<1> DEFINE n == Cardinality(S)
<1>1. PICK f \in NewIds(S) :
        edges' = edges \cup {[id |-> f[k], graph |-> target, rule |-> rule, key |-> k] : k \in S}
  BY DEF InsertRelations
<1>2. /\ bpc = "flush" /\ bpc' = "index" /\ nextEdge' = nextEdge + n
      /\ batch' = nextEdge .. (nextEdge' - 1) /\ left' = left \ S
      /\ rule' = rule /\ target' = target /\ gen' = gen /\ clr' = clr /\ indexed' = indexed
  BY DEF InsertRelations
<1>3. left \subseteq gen /\ gen \subseteq Keys /\ rule \in Rules
  BY <1>2 DEF GInv, AtWork
<1>4. n \in Nat
  <2>1. IsFiniteSet(S)
    BY <1>3, FS_Subset, BuildAssumption
  <2>2. QED BY <2>1, FS_CardinalityType
<1>5. \A k \in S : f[k] \in Nat /\ nextEdge <= f[k] /\ f[k] < nextEdge + n
  <2> HIDE DEF n
  <2>1. \A k \in S : f[k] \in nextEdge .. (nextEdge + n - 1)
    BY DEF NewIds, n
  <2>2. QED BY <1>4, <2>1 DEF GInv, IdsAreFresh
<1>6. \A k, l \in S : f[k] = f[l] => k = l
  BY DEF NewIds
<1> HIDE DEF n
<1>7. \A e \in edges' : \/ e \in edges
                       \/ \E k \in S : e = [id |-> f[k], graph |-> target, rule |-> rule, key |-> k]
  BY <1>1
<1>8. IdsAreFresh'
  BY <1>2, <1>4, <1>5, <1>6, <1>7 DEF GInv, IdsAreFresh
<1>9. RulesIndexed'
  BY <1>2, <1>4, <1>5, <1>7 DEF GInv, IdsAreFresh, RulesIndexed
<1>10. \A e \in edges : e.graph = target /\ e.rule = rule => e.key \in gen \ left
  BY <1>2 DEF GInv, OnlyNew
<1>11. OnlyNew'
  BY <1>2, <1>3, <1>7, <1>10 DEF OnlyNew
<1>12. Unique'
  BY <1>3, <1>7, <1>10 DEF GInv, Unique
<1>13. ClrShape' /\ AtWork' /\ ClearFindsAll'
  BY <1>2, <1>3 DEF GInv, ClrShape, AtWork, ClearFindsAll
<1>14. QED BY <1>8, <1>9, <1>11, <1>12, <1>13 DEF GInv

LEMMA Indexes ==
    ASSUME GInv, IndexEdge \/ Indexed
    PROVE  GInv'
<1>1. edges' = edges /\ nextEdge' = nextEdge /\ clr' = clr /\ bpc = "index"
      /\ rule' = rule /\ target' = target /\ gen' = gen /\ left' = left
  BY DEF IndexEdge, Indexed, storeVars, buildVars
<1>2. CASE bpc' = "idle"
  BY <1>1, <1>2, Ends DEF GInv, ClrShape
<1>3. CASE bpc' # "idle"
  <2>1. \/ bpc' = "index" /\ indexed \cup batch \subseteq indexed' \cup batch'
        \/ bpc' = "write" /\ indexed' = indexed /\ batch = {}
    BY <1>1, <1>3 DEF IndexEdge, Indexed, storeVars
  <2>2. RulesIndexed'
    BY <1>1, <2>1 DEF GInv, RulesIndexed
  <2>3. QED
    BY <1>1, <2>1, <2>2 DEF GInv, IdsAreFresh, ClrShape, AtWork, ClearFindsAll,
                            OnlyNew, Unique
<1>4. QED BY <1>2, <1>3

LEMMA BuildKeeps ==
    ASSUME GInv, Build, "repair" \notin failed'
    PROVE  GInv'
<1>1. ASSUME RuleDone \/ DiscardGraph \/ BuildReturns \/ Collect PROVE GInv'
  <2>1. UNCHANGED <<edges, nextEdge, indexed, rule, target, gen, left, clr>>
    BY <1>1 DEF RuleDone, DiscardGraph, BuildReturns, Collect, storeVars, buildVars
  <2>2. CASE bpc' = "idle"
    BY <2>1, <2>2, Ends DEF GInv, ClrShape
  <2>3. CASE bpc' # "idle"
    <3>1. /\ bpc \in {"next", "write", "discard"} /\ bpc' \in {"next", "flush", "discard"}
          /\ bpc' \in {"flush", "discard"} => bpc = "write"
      BY <1>1, <2>3 DEF RuleDone, DiscardGraph, BuildReturns, Collect
    <3>2. QED BY <2>1, <3>1, Steps
  <2>4. QED BY <2>2, <2>3
<1>2. QED BY <1>1, Repairs, Ensures, BuildClears, Generates, Inserts, Indexes DEF Build

LEMMA FailureKeeps ==
    ASSUME GInv, BuildFails \/ Crash
    PROVE  GInv'
<1>1. bpc' = "idle" /\ edges' = edges /\ nextEdge' = nextEdge
  BY DEF BuildFails, Crash, storeVars
<1>2. ClrShape'
  <2>1. "build" \in Actors
    BY DEF Actors
  <2>2. CASE BuildFails
    BY <2>1, <2>2, ShapeKept DEF BuildFails, NoClear, GInv
  <2>3. CASE Crash
    BY <2>3 DEF Crash, ClrShape, NoClear
  <2>4. QED BY <2>2, <2>3
<1>3. QED BY <1>1, <1>2, Ends

-----------------------------------------------------------------------------
(* The user *)

\* A step that touches neither relations nor the build.
LEMMA Aside ==
    ASSUME GInv, UNCHANGED <<storeVars, bpc, rule, target, gen, left, batch>>,
           ClrShape', clr'["build"] = clr["build"]
    PROVE  GInv'
BY Shrinks DEF storeVars

LEMMA UserRecord ==
    ASSUME ClrShape, NEW g,
           \/ clr' = [clr EXCEPT !["user"] = [pc |-> "read", graph |-> g, ids |-> {}]]
           \/ clr' = [clr EXCEPT !["user"] = NoClear]
           \/ clr' = clr
    PROVE  ClrShape' /\ clr'["build"] = clr["build"]
<1>1. "user" \in Actors /\ "build" \in Actors \ {"user"}
  BY DEF Actors
<1>2. CASE clr' = clr
  BY <1>2 DEF ClrShape
<1>3. CASE clr' = [clr EXCEPT !["user"] = [pc |-> "read", graph |-> g, ids |-> {}]]
  BY <1>1, <1>3, ShapeKept
<1>4. CASE clr' = [clr EXCEPT !["user"] = NoClear]
  BY <1>1, <1>4, ShapeKept DEF NoClear
<1>5. QED BY <1>2, <1>3, <1>4

LEMMA Draws ==
    ASSUME GInv, NEW g, CreateRelation(g)
    PROVE  GInv'
<1> DEFINE new == [id |-> nextEdge, graph |-> g, rule |-> NoRule, key |-> 0]
<1>1. /\ edges' = edges \cup {new} /\ nextEdge' = nextEdge + 1
      /\ UNCHANGED <<indexed, bpc, rule, target, gen, left, batch, clr>>
  BY DEF CreateRelation, buildVars
<1>2. new.rule = NoRule /\ new.id = nextEdge
  OBVIOUS
<1> HIDE DEF new
<1>3. IdsAreFresh'
  BY <1>1, <1>2 DEF GInv, IdsAreFresh
<1>4. bpc \in {"clear", "write", "flush", "index"} => Mine' = Mine
  BY <1>1, <1>2, BuildAssumption DEF GInv, AtWork, Mine
<1>5. RulesIndexed' /\ Unique'
  BY <1>1, <1>2 DEF GInv, RulesIndexed, Unique
<1>6. ClrShape' /\ AtWork'
  BY <1>1 DEF GInv, ClrShape, AtWork
<1>7. ClearFindsAll'
  BY <1>1, <1>4 DEF GInv, ClearFindsAll
<1>8. OnlyNew'
  <2>1. bpc \in {"write", "flush", "index"} => new.rule # rule
    BY <1>2, BuildAssumption DEF GInv, AtWork
  <2>2. QED BY <1>1, <2>1 DEF GInv, OnlyNew
<1>9. QED BY <1>3, <1>5, <1>6, <1>7, <1>8 DEF GInv

LEMMA UserKeeps ==
    ASSUME GInv, User
    PROVE  GInv'
<1>1. ASSUME NEW n \in Names, CreateGraph(n) PROVE GInv'
  BY <1>1, Aside DEF CreateGraph, storeVars, buildVars, GInv, ClrShape
<1>2. ASSUME NEW g \in Ids(reg), SetActiveGraph(g) PROVE GInv'
  BY <1>2, Aside DEF SetActiveGraph, storeVars, buildVars, GInv, ClrShape
<1>3. ASSUME NEW g \in Ids(reg), NEW n \in Names, RenameGraph(g, n) PROVE GInv'
  BY <1>3, Aside DEF RenameGraph, storeVars, buildVars, GInv, ClrShape
<1>4. ASSUME NEW g \in Ids(reg), DeleteGraph(g) PROVE GInv'
  <2>1. UNCHANGED <<storeVars, bpc, rule, target, gen, left, batch>>
    BY <1>4 DEF DeleteGraph, storeVars, buildVars
  <2>2. ClrShape' /\ clr'["build"] = clr["build"]
    BY <1>4, UserRecord DEF DeleteGraph, GInv
  <2>3. QED BY <2>1, <2>2, Aside
<1>5. ASSUME GraphDeleted PROVE GInv'
  <2>1. UNCHANGED <<storeVars, bpc, rule, target, gen, left, batch>>
    BY <1>5 DEF GraphDeleted, storeVars, buildVars
  <2>2. ClrShape' /\ clr'["build"] = clr["build"]
    BY <1>5, UserRecord DEF GraphDeleted, GInv
  <2>3. QED BY <2>1, <2>2, Aside
<1>6. ASSUME IndexDrawn PROVE GInv'
  <2>1. /\ edges' = edges /\ nextEdge' = nextEdge /\ indexed \subseteq indexed'
        /\ UNCHANGED <<bpc, rule, target, gen, left, batch, clr>>
    BY <1>6 DEF IndexDrawn, buildVars
  <2>2. QED BY <2>1, Shrinks DEF GInv, ClrShape
<1>7. ASSUME NEW e \in edges, DeleteRelation(e) PROVE GInv'
  <2>1. /\ edges' = edges \ {e} /\ indexed' = indexed \ {e.id} /\ nextEdge' = nextEdge
        /\ UNCHANGED <<bpc, rule, target, gen, left, batch, clr>>
    BY <1>7 DEF DeleteRelation, buildVars
  <2>2. \A d \in edges' : d.id # e.id
    BY <2>1 DEF GInv, IdsAreFresh
  <2>3. ClrShape'
    BY <2>1 DEF GInv, ClrShape
  <2>4. QED BY <2>1, <2>2, <2>3, Shrinks
<1>8. ASSUME NEW S, StartBuild(S) PROVE GInv'
  BY <1>8, Ends DEF StartBuild, storeVars, GInv, ClrShape
<1>9. ASSUME CancelBuild PROVE GInv'
  BY <1>9, Aside DEF CancelBuild, storeVars, GInv, ClrShape
<1>10. QED
  BY <1>1, <1>2, <1>3, <1>4, <1>5, <1>6, <1>7, <1>8, <1>9, UserClears, Draws DEF User

-----------------------------------------------------------------------------

\* What has failed stays on record.
LEMMA FailuresStay == [Next]_vars => failed \subseteq failed'
<1>1. SUFFICES ASSUME [Next]_vars PROVE failed \subseteq failed'
  OBVIOUS
<1>2. CASE UNCHANGED vars
  BY <1>2 DEF vars, faultVars
<1>3. ASSUME Build PROVE failed \subseteq failed'
  BY <1>3 DEF Build, Repair, EnsureGraph, Clear, ReadGraph, CommitClear, ClearOne,
     ClearedAll, Generate, Collect, InsertRelations, IndexEdge, Indexed, RuleDone, DiscardGraph,
     BuildReturns, Saved, NotSaved, CallFails, faultVars
<1>4. ASSUME User PROVE failed \subseteq failed'
  BY <1>4 DEF User, CreateGraph, SetActiveGraph, DeleteGraph, CreateRelation, RenameGraph,
     Clear, ReadGraph, CommitClear, ClearOne, ClearedAll, GraphDeleted, IndexDrawn,
     DeleteRelation, StartBuild, CancelBuild, Saved, NotSaved, CallFails, faultVars
<1>5. ASSUME BuildFails \/ Crash PROVE failed \subseteq failed'
  BY <1>5 DEF BuildFails, Crash
<1>6. QED BY <1>1, <1>2, <1>3, <1>4, <1>5 DEF Next

\* The inductive invariant: GInv, until a repair fails.
Inductive == "repair" \in failed \/ GInv

LEMMA StepHolds == Inductive /\ [Next]_vars => Inductive'
<1>1. SUFFICES ASSUME GInv, [Next]_vars, "repair" \notin failed' PROVE GInv'
  BY FailuresStay DEF Inductive
<1>2. CASE UNCHANGED vars
  <2>1. clr' = clr /\ UNCHANGED <<storeVars, bpc, rule, target, gen, left, batch>>
    BY <1>2 DEF vars, buildVars
  <2>2. ClrShape'
    BY <1>1, <2>1 DEF GInv, ClrShape
  <2>3. QED BY <1>1, <2>1, <2>2, Aside
<1>3. QED BY <1>1, <1>2, BuildKeeps, FailureKeeps, UserKeeps DEF Next

\* Re-running a rule replaces what it produced before: no graph ever holds one
\* match of one rule twice, until RepairRelationIndex fails at the start of a
\* build.
THEOREM RebuildingReplaces ==
    Spec => []NoMatchTwice
<1>1. Inductive => NoMatchTwice
  BY DEF Inductive, GInv, NoMatchTwice
<1>2. Init => Inductive
  BY InitHolds DEF Inductive
<1>3. QED BY <1>1, <1>2, StepHolds, PTL DEF Spec

\* While a build writes a rule's graph, everything of that rule in it belongs to
\* the result being written, under the same condition.
THEOREM OnlyTheNewResult ==
    Spec => []NothingStaleInTarget
<1>1. Inductive => NothingStaleInTarget
  BY DEF Inductive, GInv, NothingStaleInTarget
<1>2. Init => Inductive
  BY InitHolds DEF Inductive
<1>3. QED BY <1>1, <1>2, StepHolds, PTL DEF Spec

-----------------------------------------------------------------------------
(* The cancel                                                                  *)

\* A chunk is collected only by a build nobody has cancelled, so nothing is late yet when it is
\* written, and nothing is collected after it.
Prompt ==
    /\ late = [rules |-> 0, relations |-> late.relations]
    /\ late.relations \in Nat /\ late.relations <= BatchSize
    /\ ~cancelled \/ bpc = "flush" => late.relations = 0
    /\ left \subseteq Keys

LEMMA PromptInsert ==
    ASSUME Prompt, NEW S, InsertRelations(S)
    PROVE  Prompt'
<1> DEFINE n == Cardinality(S)
<1>1. n \in Nat
  BY FS_Subset, FS_CardinalityType, BuildAssumption DEF InsertRelations, Prompt
<1>2. /\ late' = IF cancelled THEN [late EXCEPT !.relations = @ + n] ELSE late
      /\ n <= BatchSize /\ bpc = "flush" /\ bpc' = "index" /\ cancelled' = cancelled
      /\ left' \subseteq left
  BY <1>1, BuildAssumption DEF InsertRelations
<1> HIDE DEF n
<1>3. CASE cancelled
  <2>1. late = [rules |-> 0, relations |-> 0]
    BY <1>2 DEF Prompt
  <2>2. late' = [rules |-> 0, relations |-> n]
    BY <1>1, <1>2, <1>3, <2>1
  <2>3. QED BY <1>1, <1>2, <1>3, <2>2 DEF Prompt
<1>4. CASE ~cancelled
  BY <1>2, <1>4 DEF Prompt
<1>5. QED BY <1>3, <1>4

LEMMA PromptStep == Prompt /\ [Next]_vars => Prompt'
<1>1. SUFFICES ASSUME Prompt, [Next]_vars PROVE Prompt'
  OBVIOUS
<1>2. ASSUME late' = NoneLate, cancelled' = FALSE, left' = left PROVE Prompt'
  BY <1>1, <1>2, BuildAssumption DEF Prompt, NoneLate
<1>3. ASSUME late' = late, left' \subseteq Keys, cancelled' = cancelled \/ (bpc' = bpc /\ cancelled'),
             bpc' = "flush" => bpc = "flush" \/ ~cancelled
      PROVE  Prompt'
  BY <1>1, <1>3 DEF Prompt
<1>4. CASE UNCHANGED vars
  BY <1>1, <1>3, <1>4 DEF vars, buildVars, Prompt
<1>5. ASSUME NEW r \in Rules, EnsureGraph(r) PROVE Prompt'
  BY <1>1, <1>3, <1>5 DEF EnsureGraph, Prompt
<1>6. ASSUME NEW M \in SUBSET Keys, Generate(M) PROVE Prompt'
  <2>1. late' = late /\ left' = M /\ cancelled' = cancelled /\ bpc' = "write"
    BY <1>6 DEF Generate
  <2>2. QED BY <1>3, <2>1
<1>7. ASSUME \/ Repair \/ Collect \/ IndexEdge \/ Indexed \/ RuleDone \/ DiscardGraph
             \/ BuildReturns \/ BuildFails \/ Clear("build")
      PROVE  Prompt'
  <2>1. late' = late /\ left' = left /\ cancelled' = cancelled
    BY <1>7 DEF Repair, Collect, IndexEdge, Indexed, RuleDone, DiscardGraph, BuildReturns, BuildFails,
                Clear, ReadGraph, CommitClear, ClearOne, ClearedAll, buildVars
  <2>2. bpc' = "flush" => bpc = "flush" \/ ~cancelled
    BY <1>7 DEF Repair, Collect, IndexEdge, Indexed, RuleDone, DiscardGraph, BuildReturns, BuildFails,
                Clear, ReadGraph, CommitClear, ClearOne, ClearedAll
  <2>3. QED BY <1>1, <1>3, <2>1, <2>2 DEF Prompt
<1>8. ASSUME User PROVE Prompt'
  <2>1. CASE CancelBuild
    BY <1>1, <1>3, <2>1 DEF CancelBuild, Prompt
  <2>2. ASSUME NEW S, StartBuild(S) PROVE Prompt'
    BY <1>2, <2>2 DEF StartBuild
  <2>3. CASE bpc' = bpc /\ UNCHANGED buildVars
    BY <1>1, <1>3, <2>3 DEF buildVars, Prompt
  <2>4. QED
    BY <1>8, <2>1, <2>2, <2>3 DEF User, CreateGraph, SetActiveGraph, DeleteGraph, CreateRelation,
       RenameGraph, Clear, ReadGraph, CommitClear, ClearOne, ClearedAll, GraphDeleted, IndexDrawn,
       DeleteRelation
<1>9. CASE Crash
  BY <1>2, <1>9 DEF Crash
<1>10. QED
  BY <1>1, <1>4, <1>5, <1>6, <1>7, <1>8, <1>9, PromptInsert DEF Next, Build

\* After a cancel a build writes no more than the chunk it had collected and begins no other rule,
\* for any rules, results and chunk size, whatever fails, crashes or is edited meanwhile.
THEOREM CancelsAreHonoured ==
    Spec => []CancelIsHonoured
<1>1. Init => Prompt
  BY BuildAssumption DEF Init, Prompt, NoneLate
<1>2. Prompt => CancelIsHonoured
  BY DEF Prompt, CancelIsHonoured
<1>3. QED BY <1>1, <1>2, PromptStep, PTL DEF Spec

-----------------------------------------------------------------------------
(* The registry                                                                *)

Fit(R) == R \in Registry /\ WellFormed(R)

\* A registry of these parts.
Reg(s, n, a) == [graphs |-> s, nextId |-> n, active |-> a]

LEMMA Rows ==
    ASSUME NEW R \in Registry
    PROVE  /\ Len(R.graphs) \in Nat /\ DOMAIN R.graphs = 1 .. Len(R.graphs)
           /\ \A i \in DOMAIN R.graphs : R.graphs[i] \in Graph
           /\ R.nextId \in Nat /\ R.active \in Nat
           /\ R = Reg(R.graphs, R.nextId, R.active)
BY DEF Registry, Reg

\* Rows s with their active graph a, when n is the next id.
RowsFit(s, n, a) ==
    /\ s \in Seq(Graph) /\ n \in Nat /\ a \in Nat
    /\ \A i, j \in 1 .. Len(s) : s[i].id = s[j].id => i = j
    /\ \A i \in 1 .. Len(s) : s[i].id < n
    /\ \E i \in 1 .. Len(s) : s[i].id = a
    /\ \A i, j \in 1 .. Len(s) : s[i].rule = s[j].rule /\ s[i].rule \in Rules => i = j

LEMMA FromRows ==
    ASSUME NEW s, NEW n, NEW a, RowsFit(s, n, a)
    PROVE  Fit(Reg(s, n, a))
<1> DEFINE R == Reg(s, n, a)
<1>1. R \in Registry /\ R.graphs = s /\ R.nextId = n /\ R.active = a /\ DOMAIN s = 1 .. Len(s)
  BY DEF Registry, RowsFit, Reg
<1> HIDE DEF R
<1>2. WellFormed(R)
  BY <1>1 DEF WellFormed, Ids, Bound, RowsFit
<1>3. QED BY <1>1, <1>2 DEF Fit, R

LEMMA ToRows ==
    ASSUME NEW R, Fit(R)
    PROVE  RowsFit(R.graphs, R.nextId, R.active)
<1>1. /\ R.graphs \in Seq(Graph) /\ R.nextId \in Nat /\ R.active \in Nat
      /\ DOMAIN R.graphs = 1 .. Len(R.graphs)
  BY DEF Fit, Registry
<1>2. QED BY <1>1 DEF Fit, WellFormed, Ids, Bound, RowsFit

LEMMA FitFirst == Fit(FirstRegistry)
<1> DEFINE g == [id |-> 1, rule |-> NoRule, name |-> CHOOSE n \in Names : TRUE]
<1>1. (CHOOSE n \in Names : TRUE) \in Names
  BY BuildAssumption
<1>2. g \in Graph /\ g.id = 1 /\ g.rule = NoRule
  BY <1>1 DEF Graph
<1> HIDE DEF g
<1>3. <<g>> \in Seq(Graph) /\ Len(<<g>>) = 1 /\ <<g>>[1] = g
  BY <1>2
<1>4. RowsFit(<<g>>, 2, 1)
  BY <1>2, <1>3, BuildAssumption DEF RowsFit
<1>5. QED BY <1>4, FromRows DEF FirstRegistry, Reg, g

LEMMA PutGraphs ==
    ASSUME NEW R, R \in Registry, NEW s
    PROVE  [R EXCEPT !.graphs = s] = Reg(s, R.nextId, R.active)
<1>1. R = Reg(R.graphs, R.nextId, R.active)
  BY Rows
<1>2. QED BY <1>1 DEF Reg

LEMMA PutActive ==
    ASSUME NEW R, NEW s, NEW n, NEW a, R = Reg(s, n, a), NEW b
    PROVE  [R EXCEPT !.active = b] = Reg(s, n, b)
BY DEF Reg

LEMMA PutNextId ==
    ASSUME NEW R, NEW s, NEW n, NEW a, R = Reg(s, n, a), NEW b
    PROVE  [R EXCEPT !.nextId = b] = Reg(s, b, a)
BY DEF Reg

LEMMA FitAdded ==
    ASSUME NEW R, Fit(R), NEW r \in Rules \cup {NoRule}, NEW n \in Names,
           r \in Rules => Bound(R, r) = {},
           NEW a \in {R.active, R.nextId}
    PROVE  Fit([WithGraph(R, r, n) EXCEPT !.active = a])
<1> DEFINE g == [id |-> R.nextId, rule |-> r, name |-> n]
           s == Append(R.graphs, g)
<1>1. R.graphs \in Seq(Graph) /\ g \in Graph /\ g.id = R.nextId /\ g.rule = r /\ R.nextId \in Nat
      /\ R.active \in Nat
  BY DEF Fit, Registry, Graph
<1>2. [WithGraph(R, r, n) EXCEPT !.active = a]
        = Reg(s, R.nextId + 1, a)
  <2> DEFINE half == [R EXCEPT !.graphs = s]
  <2>1. half = Reg(s, R.nextId, R.active)
    BY PutGraphs DEF Fit
  <2>2. WithGraph(R, r, n) = [half EXCEPT !.nextId = R.nextId + 1]
    BY DEF WithGraph
  <2> HIDE DEF half
  <2>3. WithGraph(R, r, n) = Reg(s, R.nextId + 1, R.active)
    BY <2>1, <2>2, PutNextId
  <2>4. QED BY <2>3, PutActive
<1>3. \A i \in 1 .. Len(R.graphs) : R.graphs[i].rule # r \/ r \notin Rules
  BY Rows DEF Bound, Fit
<1> HIDE DEF g
<1>4. /\ s \in Seq(Graph) /\ Len(s) = Len(R.graphs) + 1 /\ Len(R.graphs) \in Nat
      /\ \A i \in 1 .. Len(R.graphs) : s[i] = R.graphs[i] /\ s[i] \in Graph
      /\ s[Len(R.graphs) + 1] = g
  BY <1>1
<1>5. 1 .. Len(s) = (1 .. Len(R.graphs)) \cup {Len(R.graphs) + 1}
  BY <1>4
<1> HIDE DEF s
<1>6. \A i \in 1 .. Len(R.graphs) : s[i].id \in Nat /\ s[i].id < R.nextId
  BY <1>4, ToRows DEF Graph, RowsFit
<1>7. \A i, j \in 1 .. Len(s) : s[i].id = s[j].id => i = j
  <2>1. \A i, j \in 1 .. Len(R.graphs) : s[i].id = s[j].id => i = j
    BY <1>4, ToRows DEF RowsFit
  <2>2. \A i \in 1 .. Len(R.graphs) : s[i].id # g.id
    BY <1>1, <1>6
  <2>3. QED BY <1>4, <1>5, <2>1, <2>2
<1>8. \A i \in 1 .. Len(s) : s[i].id < R.nextId + 1
  BY SMTT(20), <1>1, <1>4, <1>5, <1>6
<1>9. \E i \in 1 .. Len(s) : s[i].id = a
  <2>1. CASE a = R.nextId
    BY <1>1, <1>4, <1>5, <2>1
  <2>2. CASE a = R.active
    <3>1. PICK i \in 1 .. Len(R.graphs) : R.graphs[i].id = a
      BY <2>2, ToRows DEF RowsFit
    <3>2. QED BY <1>4, <1>5, <3>1
  <2>3. QED BY <2>1, <2>2
<1>10. \A i, j \in 1 .. Len(s) : s[i].rule = s[j].rule /\ s[i].rule \in Rules => i = j
  <2>1. \A i, j \in 1 .. Len(R.graphs) : s[i].rule = s[j].rule /\ s[i].rule \in Rules => i = j
    BY <1>4, ToRows DEF RowsFit
  <2>2. \A i \in 1 .. Len(R.graphs) : s[i].rule = g.rule => s[i].rule \notin Rules
    BY <1>1, <1>3, <1>4
  <2>3. QED BY <1>4, <1>5, <2>1, <2>2
<1>11. RowsFit(s, R.nextId + 1, a)
  BY <1>1, <1>4, <1>7, <1>8, <1>9, <1>10 DEF RowsFit
<1>12. QED BY <1>2, <1>11, FromRows

\* A row renamed, or bound to a rule no row is bound to.
LEMMA FitChanged ==
    ASSUME NEW R, Fit(R), NEW i \in DOMAIN R.graphs, NEW g \in Graph,
           g.id = R.graphs[i].id,
           g.rule = R.graphs[i].rule \/ Bound(R, g.rule) = {}
    PROVE  Fit([R EXCEPT !.graphs = [@ EXCEPT ![i] = g]])
<1> DEFINE s == [R.graphs EXCEPT ![i] = g]
<1>1. /\ R.graphs \in Seq(Graph) /\ DOMAIN R.graphs = 1 .. Len(R.graphs) /\ Len(R.graphs) \in Nat
      /\ R.nextId \in Nat /\ R.active \in Nat
  BY Rows DEF Fit, Registry
<1>2. [R EXCEPT !.graphs = [@ EXCEPT ![i] = g]]
        = Reg(s, R.nextId, R.active)
  BY PutGraphs DEF Fit
<1>3. s \in Seq(Graph) /\ Len(s) = Len(R.graphs)
  BY <1>1
<1>4. \A j \in 1 .. Len(R.graphs) : s[j] = IF j = i THEN g ELSE R.graphs[j]
  BY <1>1
<1> HIDE DEF s
<1>5. \A j \in 1 .. Len(s) : s[j].id = R.graphs[j].id
  BY <1>3, <1>4
<1>6. ASSUME NEW j \in 1 .. Len(s), NEW k \in 1 .. Len(s), s[j].rule = s[k].rule, s[j].rule \in Rules
      PROVE  j = k
  <2>1. CASE g.rule = R.graphs[i].rule
    BY <1>3, <1>4, <1>6, <2>1, ToRows, SMTT(30) DEF RowsFit
  <2>2. CASE Bound(R, g.rule) = {}
    BY <1>1, <1>3, <1>4, <1>6, <2>2, ToRows DEF Bound, RowsFit
  <2>3. QED BY <2>1, <2>2
<1>7. RowsFit(s, R.nextId, R.active)
  BY <1>1, <1>3, <1>5, <1>6, ToRows DEF RowsFit
<1>8. QED BY <1>2, <1>7, FromRows

LEMMA FitActive ==
    ASSUME NEW R, Fit(R), NEW g \in Ids(R)
    PROVE  Fit([R EXCEPT !.active = g])
<1>1. R.graphs \in Seq(Graph) /\ R.nextId \in Nat /\ DOMAIN R.graphs = 1 .. Len(R.graphs)
  BY Rows DEF Fit, Registry
<1>2. g \in Nat /\ \E i \in 1 .. Len(R.graphs) : R.graphs[i].id = g
  BY <1>1, Rows DEF Ids, Fit, Graph
<1>3. [R EXCEPT !.active = g] = Reg(R.graphs, R.nextId, g)
  BY Rows, PutActive DEF Fit
<1>4. RowsFit(R.graphs, R.nextId, g)
  BY <1>1, <1>2, ToRows DEF RowsFit
<1>5. QED BY <1>3, <1>4, FromRows

\* A row taken out: the others close up, and one of them is active.
LEMMA FitWithout ==
    ASSUME NEW R, Fit(R), NEW g, Deletable(R, g)
    PROVE  Fit(Without(R, g))
<1> DEFINE k == IndexOf(R, g)
           s == RemoveGraph(R, g)
           n == Len(R.graphs)
           a == IF R.active = g THEN s[1].id ELSE R.active
<1>1. /\ n \in Nat /\ n > 1 /\ DOMAIN R.graphs = 1 .. n
      /\ \A i \in 1 .. n : R.graphs[i] \in Graph
      /\ R.nextId \in Nat /\ R.active \in Nat
  BY Rows DEF Fit, Deletable
<1>2. k \in 1 .. n /\ R.graphs[k].id = g
  BY <1>1 DEF IndexOf, Deletable, Ids
<1>3. s = [i \in 1 .. n - 1 |-> IF i < k THEN R.graphs[i] ELSE R.graphs[i + 1]]
  BY DEF RemoveGraph
<1>4. Without(R, g) = Reg(s, R.nextId, a)
  <2> DEFINE half == [R EXCEPT !.graphs = s]
  <2>1. half = Reg(s, R.nextId, R.active)
    BY PutGraphs DEF Fit
  <2>2. Without(R, g) = [half EXCEPT !.active = a]
    BY DEF Without
  <2> HIDE DEF half
  <2>3. QED BY <2>1, <2>2, PutActive
<1> HIDE DEF k, n, s
<1> DEFINE from(i) == IF i < k THEN i ELSE i + 1
<1>5. \A i \in 1 .. n - 1 : from(i) \in 1 .. n /\ s[i] = R.graphs[from(i)]
  BY <1>1, <1>2, <1>3
<1>6. \A i, j \in 1 .. n - 1 : from(i) = from(j) => i = j
  BY <1>1, <1>2
<1>7. \A i \in (1 .. n) \ {k} : \E j \in 1 .. n - 1 : from(j) = i
  <2>1. TAKE i \in (1 .. n) \ {k}
  <2>2. CASE i < k
    BY <1>1, <1>2, <2>2
  <2>3. CASE i > k
    <3>1. i - 1 \in 1 .. n - 1 /\ from(i - 1) = i
      BY <1>1, <1>2, <2>3
    <3>2. QED BY <3>1
  <2>4. QED BY <1>1, <1>2, <2>2, <2>3
<1> HIDE DEF from
<1>8. \A i \in 1 .. n - 1 : s[i] \in Graph
  BY <1>1, <1>5
<1>9. s \in Seq(Graph) /\ Len(s) = n - 1
  BY <1>1, <1>3, <1>8
<1>10. \A i, j \in 1 .. Len(s) : s[i].id = s[j].id => i = j
  <2>1. \A i, j \in 1 .. n : R.graphs[i].id = R.graphs[j].id => i = j
    BY ToRows DEF n, RowsFit
  <2>2. ASSUME NEW i \in 1 .. n - 1, NEW j \in 1 .. n - 1, s[i].id = s[j].id PROVE from(i) = from(j)
    BY <1>5, <2>1, <2>2
  <2>3. QED BY <1>6, <1>9, <2>2
<1>11. \A i \in 1 .. Len(s) : s[i].id < R.nextId
  BY <1>5, <1>9, ToRows DEF n, RowsFit
<1>12. a \in Nat /\ \E i \in 1 .. Len(s) : s[i].id = a
  <2>1. 1 \in 1 .. Len(s)
    BY <1>1, <1>9
  <2>2. CASE R.active = g
    BY <1>8, <1>9, <2>1, <2>2 DEF Graph
  <2>3. CASE R.active # g
    <3>1. PICK i \in 1 .. n : R.graphs[i].id = R.active
      BY ToRows DEF n, RowsFit
    <3>2. i # k
      BY <1>2, <2>3, <3>1
    <3>3. PICK j \in 1 .. n - 1 : from(j) = i
      BY <1>7, <3>2
    <3>4. QED BY <1>1, <1>5, <1>9, <2>3, <3>1, <3>3
  <2>4. QED BY <2>2, <2>3
<1>13. \A i, j \in 1 .. Len(s) : s[i].rule = s[j].rule /\ s[i].rule \in Rules => i = j
  <2>1. \A i, j \in 1 .. n :
            R.graphs[i].rule = R.graphs[j].rule /\ R.graphs[i].rule \in Rules => i = j
    BY ToRows DEF n, RowsFit
  <2>2. ASSUME NEW i \in 1 .. n - 1, NEW j \in 1 .. n - 1,
               s[i].rule = s[j].rule, s[i].rule \in Rules
        PROVE  from(i) = from(j)
    BY <1>5, <2>1, <2>2
  <2>3. QED BY <1>6, <1>9, <2>2
<1> HIDE DEF a
<1>14. RowsFit(s, R.nextId, a)
  BY <1>1, <1>9, <1>10, <1>11, <1>12, <1>13 DEF RowsFit
<1>15. QED BY <1>4, <1>14, FromRows

LEMMA Least ==
    ASSUME NEW S, S \subseteq Nat, S # {}
    PROVE  \E x \in S : \A y \in S : x <= y
<1> DEFINE R == {ss \in Nat \X Nat : ss[1] < ss[2]}
<1>1. IsWellFoundedOn(R, Nat)
  BY NatLessThanWellFounded DEF OpToRel
<1>2. \A x, y \in Nat : y < x => <<y, x>> \in R
  OBVIOUS
<1> HIDE DEF R
<1>3. \E x \in S : \A y \in S : ~(<<y, x>> \in R)
  BY <1>1, WFMin
<1>4. PICK x \in S : \A y \in S : ~(<<y, x>> \in R)
  BY <1>3
<1>5. ASSUME NEW y \in S PROVE x <= y
  <2>1. x \in Nat /\ y \in Nat /\ ~(y < x)
    BY <1>2, <1>4
  <2>2. QED BY <2>1
<1>6. QED BY <1>5

LEMMA FitEnsured ==
    ASSUME NEW R, Fit(R), NEW r \in Rules, Bound(R, r) = {}
    PROVE  Fit(EnsureForRule(R, r))
<1>1. CASE Adoptable(R, r) # {}
  <2> DEFINE i == First(Adoptable(R, r))
             g == [R.graphs[i] EXCEPT !.rule = r]
  <2>1. i \in Adoptable(R, r)
    <3>1. Adoptable(R, r) \subseteq Nat /\ Adoptable(R, r) # {}
      BY <1>1, Rows DEF Adoptable, Fit
    <3>2. \E x \in Adoptable(R, r) : \A y \in Adoptable(R, r) : x <= y
      BY <3>1, Least
    <3>3. QED BY <3>2 DEF First
  <2>2. i \in DOMAIN R.graphs /\ R.graphs[i] \in Graph
    BY <2>1, Rows DEF Adoptable, Fit
  <2> HIDE DEF i
  <2>3. g \in Graph /\ g.id = R.graphs[i].id /\ g.rule = r
    BY <2>2 DEF Graph
  <2>4. EnsureForRule(R, r) = [R EXCEPT !.graphs = [@ EXCEPT ![i] = g]]
    BY <1>1 DEF EnsureForRule, i
  <2>5. Fit([R EXCEPT !.graphs = [@ EXCEPT ![i] = g]])
    <3>1. Bound(R, g.rule) = {}
      BY <2>3
    <3> HIDE DEF g
    <3>2. QED BY <2>2, <2>3, <3>1, FitChanged
  <2>6. QED BY <2>4, <2>5
<1>2. CASE Adoptable(R, r) = {}
  <2>1. NameOf[r] \in Names
    BY BuildAssumption
  <2>2. Fit([WithGraph(R, r, NameOf[r]) EXCEPT !.active = R.active])
    BY <2>1, FitAdded
  <2>3. [WithGraph(R, r, NameOf[r]) EXCEPT !.active = R.active] = WithGraph(R, r, NameOf[r])
    BY Rows DEF WithGraph, Fit
  <2>4. QED BY <1>2, <2>2, <2>3 DEF EnsureForRule
<1>3. QED BY <1>1, <1>2

RegInv == Fit(reg) /\ Fit(disk)

\* Whatever is written, memory and document are one of what they were and what
\* the caller made of it.
LEMMA Persists ==
    ASSUME RegInv, NEW R, Fit(R), Saved(R) \/ NotSaved(R)
    PROVE  RegInv'
BY DEF RegInv, Saved, NotSaved

LEMMA RegStep == RegInv /\ [Next]_vars => RegInv'
<1>1. SUFFICES ASSUME RegInv, [Next]_vars PROVE RegInv'
  OBVIOUS
<1>2. CASE UNCHANGED vars
  BY <1>1, <1>2 DEF vars, regVars, RegInv
<1>3. ASSUME NEW r \in Rules, EnsureGraph(r) PROVE RegInv'
  <2>1. CASE Bound(reg, r) # {}
    BY <1>1, <1>3, <2>1 DEF EnsureGraph, regVars, RegInv
  <2>2. CASE Bound(reg, r) = {}
    BY <1>1, <1>3, <2>2, FitEnsured, Persists DEF EnsureGraph, RegInv
  <2>3. QED BY <2>1, <2>2
<1>4. ASSUME DiscardGraph PROVE RegInv'
  <2>1. CASE Deletable(reg, target)
    BY <1>1, <1>4, <2>1, FitWithout, Persists DEF DiscardGraph, RegInv
  <2>2. CASE ~Deletable(reg, target)
    BY <1>1, <1>4, <2>2 DEF DiscardGraph, regVars, RegInv
  <2>3. QED BY <2>1, <2>2
<1>5. ASSUME NEW n \in Names, CreateGraph(n) PROVE RegInv'
  <2>1. Fit([WithGraph(reg, NoRule, n) EXCEPT !.active = reg.nextId])
    BY <1>1, FitAdded, BuildAssumption DEF RegInv
  <2>2. QED BY <1>1, <1>5, <2>1, Persists DEF CreateGraph
<1>6. ASSUME NEW g \in Ids(reg), SetActiveGraph(g) PROVE RegInv'
  BY <1>1, <1>6, FitActive, Persists DEF SetActiveGraph, RegInv
<1>7. ASSUME NEW g \in Ids(reg), DeleteGraph(g) PROVE RegInv'
  BY <1>1, <1>7, FitWithout, Persists DEF DeleteGraph, RegInv
<1>8. ASSUME NEW g \in Ids(reg), NEW n \in Names, RenameGraph(g, n) PROVE RegInv'
  <2>1. PICK i \in DOMAIN reg.graphs :
            LET R == [reg EXCEPT !.graphs[i].name = n] IN Saved(R) \/ NotSaved(R)
    BY <1>8 DEF RenameGraph
  <2> DEFINE h == [reg.graphs[i] EXCEPT !.name = n]
  <2>2. h \in Graph /\ h.id = reg.graphs[i].id /\ h.rule = reg.graphs[i].rule
    BY <1>1, Rows DEF RegInv, Fit, Graph
  <2>3. [reg EXCEPT !.graphs[i].name = n] = [reg EXCEPT !.graphs = [@ EXCEPT ![i] = h]]
    OBVIOUS
  <2> HIDE DEF h
  <2>4. Fit([reg EXCEPT !.graphs[i].name = n])
    BY <1>1, <2>2, <2>3, FitChanged DEF RegInv
  <2>5. QED BY <1>1, <2>1, <2>4, Persists
<1>9. ASSUME Crash PROVE RegInv'
  BY <1>1, <1>9 DEF Crash, RegInv
<1>10. ASSUME \/ Repair \/ Clear("build") \/ Clear("user") \/ Collect \/ IndexEdge \/ Indexed
              \/ RuleDone \/ BuildReturns \/ BuildFails \/ GraphDeleted \/ IndexDrawn \/ CancelBuild
              \/ \E M : Generate(M)
              \/ \E S : InsertRelations(S) \/ StartBuild(S)
              \/ \E g : CreateRelation(g) \/ DeleteRelation(g)
       PROVE  RegInv'
  <2>1. UNCHANGED regVars
    BY <1>10 DEF Repair, Clear, ReadGraph, CommitClear, ClearOne, ClearedAll, Collect, IndexEdge,
       Indexed, RuleDone, BuildReturns, BuildFails, GraphDeleted, IndexDrawn, CancelBuild, Generate,
       InsertRelations, StartBuild, CreateRelation, DeleteRelation
  <2>2. QED BY <1>1, <2>1 DEF regVars, RegInv
<1>11. QED
  BY <1>1, <1>2, <1>3, <1>4, <1>5, <1>6, <1>7, <1>8, <1>9, <1>10 DEF Next, Build, User

\* The registry, in memory and as the next start reads it, names every graph
\* once, binds a rule to one graph at most and has its active graph, whatever is
\* built, edited, deleted, refused by the disk or crashes, for any rules and
\* names and any number of graphs.
THEOREM RegistryStaysConsistent ==
    Spec => []RegistryIsConsistent
<1>1. Init => RegInv
  BY FitFirst DEF Init, RegInv
<1>2. RegInv => RegistryIsConsistent
  BY DEF RegInv, Fit, RegistryIsConsistent
<1>3. QED BY <1>1, <1>2, RegStep, PTL DEF Spec
=============================================================================
