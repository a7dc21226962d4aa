--------------------------- MODULE EventStoreProofs ---------------------------
(***************************************************************************)
(* Proofs about what stands beside the stored events, for any events,      *)
(* readers, writers, filters and batch size.                               *)
(*                                                                         *)
(* The caches (OrderCache): a query, and a dataset, shows every write that *)
(* had returned when it was asked for, as long as every write call bumps   *)
(* the version; and the caches are exact once every change has been        *)
(* announced. The argument: a write's changes count as returned in the     *)
(* step that bumps the version. So what a scan saw at a version covers all *)
(* returned changes for as long as the version is the same, and that is    *)
(* when it may be cached. A dataset is served at the version its caller    *)
(* read at first, and what had returned by then is in every dataset kept   *)
(* at that version.                                                        *)
(*                                                                         *)
(* The counts (DedupBackfill): occurrence counts are exact when ingestion  *)
(* and the pass never run at the same time. The argument: whoever holds    *)
(* records it is going to write back, nobody else changes their counts     *)
(* before it does, and it does not change them itself other than by what   *)
(* is credited. A second invariant on top of it shows that a finished pass *)
(* left behind no more than it says.                                       *)
(***************************************************************************)
EXTENDS OrderCache, DedupBackfill, FiniteSetTheorems, TLAPS

Nodes(C) == {c \in C : c.kind \in NodeKinds}

OrderCurrent == order.valid => Show(announced, order.key) \subseteq order.ids
DatasetCurrent ==
    /\ ds.version <= version
    /\ ds.key # Unlisted /\ ds.version = version => Show(announced, ds.key) \subseteq ds.ids

\* The set C is covered by what reader r has seen so far.
Covered(r, C) ==
    /\ pc[r] = "relations" => Nodes(C) \subseteq seen[r]
    /\ pc[r] \in {"store", "hydrate", "keep"} => Show(C, filter[r]) \subseteq seen[r]

ReaderInv(r) ==
    /\ pc[r] # "idle" => filter[r] \in Filters
    /\ pc[r] = "keep" => viaDs[r]
    /\ ver[r] <= version
    /\ dsVer[r] <= version
    /\ must[r] \subseteq announced
    /\ Covered(r, must[r])
    /\ pc[r] = "ok" => Show(must[r], filter[r]) \subseteq seen[r]
    /\ pc[r] \in {"relations", "store"} /\ ver[r] = version => Covered(r, announced)
    /\ viaDs[r] /\ dsVer[r] = version => Covered(r, announced)
    /\ pc[r] = "lock" /\ ds.key = filter[r] /\ ds.version = dsVer[r] =>
          Show(must[r], filter[r]) \subseteq ds.ids

CInv ==
    /\ TypeOK
    /\ IsFiniteSet(applied)
    /\ OrderCurrent
    /\ DatasetCurrent
    /\ \A r \in Readers : ReaderInv(r)

-----------------------------------------------------------------------------

\* A step of another reader or of a writer that leaves announced alone.
LEMMA ReaderQuiet ==
    ASSUME NEW r \in Readers, ReaderInv(r),
           UNCHANGED <<announced, version, ds>>,
           pc'[r] = pc[r], viaDs'[r] = viaDs[r], filter'[r] = filter[r],
           must'[r] = must[r], dsVer'[r] = dsVer[r], ver'[r] = ver[r],
           seen'[r] = seen[r]
    PROVE  ReaderInv(r)'
BY DEF ReaderInv, Covered, Show, Nodes, KindsOf

LEMMA InitCInv == Init => CInv
<1>1. SUFFICES ASSUME Init PROVE CInv
  OBVIOUS
<1>2. TypeOK
  BY <1>1 DEF Init, TypeOK, NotWriting, NoOrder, NoDataset, Orders
<1>3. IsFiniteSet(applied)
  BY <1>1, FS_EmptySet DEF Init
<1>4. OrderCurrent /\ DatasetCurrent
  BY <1>1 DEF Init, OrderCurrent, DatasetCurrent, NoOrder, NoDataset
<1>5. ASSUME NEW r \in Readers PROVE ReaderInv(r)
  BY <1>1, <1>5 DEF Init, ReaderInv, Covered, Show, Nodes, NoDataset
<1>6. QED BY <1>2, <1>3, <1>4, <1>5 DEF CInv

\* A new change is not returned yet; no cache and no reader has to know it.
LEMMA ChangeStep ==
    ASSUME CInv, NEW w \in Writers, NEW k \in Kinds, Change(w, k)
    PROVE  CInv'
<1> DEFINE c == [id |-> Cardinality(applied), kind |-> k]
<1>1. /\ applied' = applied \cup {c}
      /\ mine' = [mine EXCEPT ![w].made = @ \cup {c}]
      /\ UNCHANGED <<announced, writes, cacheVars, dsVars, readVars>>
  BY DEF Change
<1>2. IsFiniteSet(applied')
  BY <1>1, FS_AddElement DEF CInv
<1>3. c \in Changes
  BY FS_CardinalityType DEF CInv, Changes
<1> HIDE DEF c
<1>4. mine' \in [Writers -> [on : BOOLEAN, made : SUBSET applied']]
  <2>1. mine \in [Writers -> [on : BOOLEAN, made : SUBSET applied]]
    BY DEF CInv, TypeOK
  <2>2. SUFFICES ASSUME NEW v \in Writers
                 PROVE  mine'[v] \in [on : BOOLEAN, made : SUBSET applied']
    BY <2>1, <1>1
  <2>3. mine[v] \in [on : BOOLEAN, made : SUBSET applied']
    BY <2>1, <1>1
  <2>4. CASE v # w
    BY <2>1, <2>3, <2>4, <1>1
  <2>5. CASE v = w
    <3>1. mine'[v] = [mine[v] EXCEPT !.made = @ \cup {c}]
      BY <2>1, <2>5, <1>1
    <3>2. QED BY <3>1, <2>3, <1>1
  <2>6. QED BY <2>4, <2>5
<1>5. TypeOK'
  BY <1>1, <1>3, <1>4 DEF CInv, TypeOK, cacheVars, dsVars, readVars
<1>6. OrderCurrent' /\ DatasetCurrent'
  BY <1>1 DEF CInv, OrderCurrent, DatasetCurrent, Show, KindsOf, cacheVars, dsVars
<1>7. ASSUME NEW r \in Readers PROVE ReaderInv(r)'
  BY <1>1, ReaderQuiet DEF CInv, cacheVars, dsVars, readVars
<1>8. QED BY <1>2, <1>5, <1>6, <1>7 DEF CInv

LEMMA BeginWriteStep ==
    ASSUME CInv, NEW w \in Writers, BeginWrite(w)
    PROVE  CInv'
<1>1. /\ mine' = [mine EXCEPT ![w] = [on |-> TRUE, made |-> {}]]
      /\ writes' = writes + 1
      /\ UNCHANGED <<applied, announced, cacheVars, dsVars, readVars>>
  BY DEF BeginWrite
<1>2. TypeOK' /\ IsFiniteSet(applied')
  BY <1>1 DEF CInv, TypeOK, cacheVars, dsVars, readVars
<1>3. OrderCurrent' /\ DatasetCurrent'
  BY <1>1 DEF CInv, OrderCurrent, DatasetCurrent, Show, KindsOf, cacheVars, dsVars
<1>4. ASSUME NEW r \in Readers PROVE ReaderInv(r)'
  BY <1>1, ReaderQuiet DEF CInv, cacheVars, dsVars, readVars
<1>5. QED BY <1>2, <1>3, <1>4 DEF CInv

\* What a repair or a rebuild leaves unannounced no cache has to show.
LEMMA SilentStep ==
    ASSUME CInv, NEW w \in Writers, ReturnSilently(w)
    PROVE  CInv'
<1>1. /\ mine' = [mine EXCEPT ![w] = NotWriting]
      /\ UNCHANGED <<applied, announced, writes, cacheVars, dsVars, readVars>>
  BY DEF ReturnSilently, Returns
<1>2. TypeOK' /\ IsFiniteSet(applied')
  BY <1>1 DEF CInv, TypeOK, NotWriting, cacheVars, dsVars, readVars
<1>3. OrderCurrent' /\ DatasetCurrent'
  BY <1>1 DEF CInv, OrderCurrent, DatasetCurrent, Show, KindsOf, cacheVars, dsVars
<1>4. ASSUME NEW r \in Readers PROVE ReaderInv(r)'
  BY <1>1, ReaderQuiet DEF CInv, cacheVars, dsVars, readVars
<1>5. QED BY <1>2, <1>3, <1>4 DEF CInv

\* The changes count as returned at a version nothing was read at yet.
LEMMA BumpStep ==
    ASSUME CInv, NEW w \in Writers, BumpVersion(w)
    PROVE  CInv'
<1>1. /\ announced' = announced \cup mine[w].made
      /\ mine' = [mine EXCEPT ![w] = NotWriting]
      /\ version' = version + 1
      /\ order' = [order EXCEPT !.ids = {}, !.valid = FALSE]
      /\ UNCHANGED <<applied, writes, dsVars, readVars>>
  BY DEF BumpVersion, Returns
<1>2. order' \in [key : Filters \cup {Unlisted}, ids : Orders, valid : BOOLEAN]
      /\ ~order'.valid
  BY <1>1 DEF CInv, TypeOK, Orders
<1>3. TypeOK' /\ IsFiniteSet(applied')
  BY <1>1, <1>2 DEF CInv, TypeOK, NotWriting, dsVars, readVars
<1>4. version \in Nat /\ \A r \in Readers : ver[r] \in Nat /\ dsVer[r] \in Nat
  BY DEF CInv, TypeOK
<1>5. OrderCurrent'
  BY <1>2 DEF OrderCurrent
<1>6. DatasetCurrent'
  BY <1>1, <1>4 DEF CInv, TypeOK, DatasetCurrent, dsVars
<1>7. ASSUME NEW r \in Readers PROVE ReaderInv(r)'
  <2>1. ReaderInv(r) /\ ver[r] < version' /\ dsVer[r] < version'
    BY <1>1, <1>4 DEF CInv, ReaderInv
  <2>2. Covered(r, must[r])'
    BY <1>1, <2>1 DEF ReaderInv, Covered, Show, Nodes, KindsOf, readVars
  <2>3. must'[r] \subseteq announced'
    BY <1>1, <2>1 DEF ReaderInv, readVars
  <2>4. ver'[r] # version' /\ dsVer'[r] # version' /\ ver'[r] <= version' /\ dsVer'[r] <= version'
    BY <1>1, <1>4, <2>1 DEF readVars
  <2>5. QED
    BY <1>1, <2>1, <2>2, <2>3, <2>4 DEF ReaderInv, Show, KindsOf, readVars, dsVars
<1>8. QED BY <1>3, <1>5, <1>6, <1>7 DEF CInv

-----------------------------------------------------------------------------

\* What a step of reader r alone has to establish.
LEMMA ReaderStep ==
    ASSUME CInv, NEW r \in Readers, TypeOK',
           UNCHANGED <<writeVars, version>>,
           OrderCurrent', UNCHANGED ds, ReaderInv(r)',
           \A q \in Readers \ {r} :
               /\ pc'[q] = pc[q] /\ viaDs'[q] = viaDs[q] /\ filter'[q] = filter[q]
               /\ must'[q] = must[q] /\ dsVer'[q] = dsVer[q] /\ ver'[q] = ver[q]
               /\ seen'[q] = seen[q]
    PROVE  CInv'
<1>1. DatasetCurrent' /\ IsFiniteSet(applied')
  BY DEF CInv, DatasetCurrent, writeVars, Show, KindsOf
<1>2. ASSUME NEW q \in Readers PROVE ReaderInv(q)'
  <2>1. CASE q = r
    BY <2>1
  <2>2. CASE q # r
    BY <2>2, ReaderQuiet DEF CInv, writeVars
  <2>3. QED BY <2>1, <2>2
<1>3. QED BY <1>1, <1>2 DEF CInv

LEMMA QueryEventsStep ==
    ASSUME CInv, NEW r \in Readers, NEW f \in Filters, QueryEvents(r, f)
    PROVE  CInv'
<1>1. TypeOK'
  BY DEF CInv, TypeOK, QueryEvents, writeVars, cacheVars, dsVars, Orders
<1>2. OrderCurrent' /\ UNCHANGED <<writeVars, version, ds>>
  BY DEF CInv, OrderCurrent, QueryEvents, writeVars, cacheVars, dsVars, Show, KindsOf
<1>3. ReaderInv(r)'
  BY DEF CInv, TypeOK, ReaderInv, Covered, QueryEvents, writeVars, cacheVars, dsVars
<1>4. QED
  BY <1>1, <1>2, <1>3, ReaderStep DEF CInv, TypeOK, QueryEvents

LEMMA LookupOrderStep ==
    ASSUME CInv, NEW r \in Readers, LookupOrder(r)
    PROVE  CInv'
<1>1. TypeOK'
  BY DEF CInv, TypeOK, LookupOrder, writeVars, cacheVars, dsVars, Orders
<1>2. OrderCurrent' /\ UNCHANGED <<writeVars, version, ds>>
  BY DEF CInv, OrderCurrent, LookupOrder, writeVars, cacheVars, dsVars, Show, KindsOf
<1>3. ReaderInv(r)'
  <2>1. ReaderInv(r) /\ pc[r] = "lookup" /\ must[r] \subseteq announced
    BY DEF CInv, ReaderInv, LookupOrder
  <2>2. CASE pc'[r] = "version"
    BY <2>1, <2>2 DEF CInv, TypeOK, ReaderInv, Covered, LookupOrder, writeVars,
                      cacheVars, dsVars
  <2>3. CASE pc'[r] = "hydrate"
    <3>1. order.valid /\ order.key = filter[r] /\ seen'[r] = order.ids
      BY <2>1, <2>3 DEF CInv, TypeOK, LookupOrder
    <3>2. Show(announced, filter[r]) \subseteq seen'[r]
      BY <3>1 DEF CInv, OrderCurrent
    <3>3. Show(must[r], filter[r]) \subseteq seen'[r]
      BY <3>2, <2>1 DEF Show
    <3>4. QED
      BY <2>1, <2>3, <3>2, <3>3
      DEF ReaderInv, Covered, LookupOrder, Show, KindsOf, writeVars, cacheVars, dsVars
  <2>4. QED BY <2>2, <2>3 DEF CInv, TypeOK, LookupOrder
<1>4. QED
  BY <1>1, <1>2, <1>3, ReaderStep DEF CInv, TypeOK, LookupOrder

LEMMA CurrentVersionStep ==
    ASSUME CInv, NEW r \in Readers, CurrentVersion(r)
    PROVE  CInv'
<1>1. TypeOK'
  BY DEF CInv, TypeOK, CurrentVersion, writeVars, cacheVars, dsVars, Orders
<1>2. OrderCurrent' /\ UNCHANGED <<writeVars, version, ds>>
  BY DEF CInv, OrderCurrent, CurrentVersion, writeVars, cacheVars, dsVars, Show, KindsOf
<1>3. ReaderInv(r)'
  BY DEF CInv, TypeOK, ReaderInv, Covered, CurrentVersion, writeVars, cacheVars, dsVars
<1>4. QED
  BY <1>1, <1>2, <1>3, ReaderStep DEF CInv, TypeOK, CurrentVersion

\* A scan sees all that was committed, returned or not.
LEMMA QueryNodesStep ==
    ASSUME CInv, NEW r \in Readers, QueryNodes(r)
    PROVE  CInv'
<1>1. TypeOK'
  BY DEF CInv, TypeOK, QueryNodes, writeVars, cacheVars, dsVars, Orders
<1>2. OrderCurrent' /\ UNCHANGED <<writeVars, version, ds>>
  BY DEF CInv, OrderCurrent, QueryNodes, writeVars, cacheVars, dsVars, Show, KindsOf
<1>3. ReaderInv(r)'
  <2>1. ReaderInv(r) /\ pc[r] = "nodes" /\ must[r] \subseteq announced /\ announced \subseteq applied
    BY DEF CInv, TypeOK, ReaderInv, QueryNodes
  <2>2. seen'[r] = Nodes(applied)
        /\ pc'[r] = IF filter[r] \in Related THEN "relations" ELSE "store"
    BY DEF CInv, TypeOK, QueryNodes, Nodes
  <2>3. /\ Nodes(announced) \subseteq seen'[r] /\ Nodes(must[r]) \subseteq seen'[r]
    BY <2>1, <2>2 DEF Nodes
  <2>4. filter[r] \notin Related =>
           /\ Show(announced, filter[r]) = Nodes(announced)
           /\ Show(must[r], filter[r]) = Nodes(must[r])
    BY DEF Show, Nodes, KindsOf
  <2>5. /\ filter'[r] = filter[r] /\ must'[r] = must[r] /\ announced' = announced
        /\ version' = version /\ ver'[r] = ver[r] /\ dsVer'[r] = dsVer[r]
        /\ viaDs'[r] = viaDs[r]
    BY DEF QueryNodes, writeVars, cacheVars
  <2>6. Covered(r, announced)' /\ Covered(r, must[r])'
    BY <2>2, <2>3, <2>4, <2>5 DEF Covered, Show, Nodes, KindsOf
  <2>7. QED BY <2>1, <2>2, <2>5, <2>6 DEF ReaderInv
<1>4. QED
  BY <1>1, <1>2, <1>3, ReaderStep DEF CInv, TypeOK, QueryNodes

LEMMA RelatedStep ==
    ASSUME CInv, NEW r \in Readers, RelatedEventIDs(r)
    PROVE  CInv'
<1>1. TypeOK'
  BY DEF CInv, TypeOK, RelatedEventIDs, writeVars, cacheVars, dsVars, Orders
<1>2. OrderCurrent' /\ UNCHANGED <<writeVars, version, ds>>
  BY DEF CInv, OrderCurrent, RelatedEventIDs, writeVars, cacheVars, dsVars, Show, KindsOf
<1>3. ReaderInv(r)'
  <2>1. /\ ReaderInv(r) /\ pc[r] = "relations" /\ must[r] \subseteq announced
        /\ announced \subseteq applied /\ applied \subseteq Changes
    BY DEF CInv, TypeOK, ReaderInv, RelatedEventIDs
  <2>2. /\ seen'[r] = seen[r] \cup {c \in applied : c.kind = "relation"}
        /\ pc'[r] = "store"
    BY DEF CInv, TypeOK, RelatedEventIDs
  <2>3. ASSUME NEW C \in SUBSET announced, Nodes(C) \subseteq seen[r]
        PROVE  Show(C, filter[r]) \subseteq seen'[r]
    BY <2>1, <2>2, <2>3 DEF Show, Nodes, Changes, Kinds, NodeKinds
  <2>4. /\ filter'[r] = filter[r] /\ must'[r] = must[r] /\ announced' = announced
        /\ version' = version /\ ver'[r] = ver[r] /\ dsVer'[r] = dsVer[r]
        /\ viaDs'[r] = viaDs[r]
    BY DEF RelatedEventIDs, writeVars, cacheVars
  <2>5. ASSUME NEW C \in SUBSET announced, Covered(r, C)
        PROVE  Show(C, filter[r]) \subseteq seen'[r]
    BY <2>1, <2>3, <2>5 DEF Covered
  <2>6. Covered(r, must[r])'
    <3>1. Show(must[r], filter[r]) \subseteq seen'[r]
      BY <2>1, <2>5 DEF ReaderInv
    <3>2. QED BY <3>1, <2>2, <2>4 DEF Covered, Show, KindsOf
  <2>7. Covered(r, announced) => Covered(r, announced)'
    <3>1. Covered(r, announced) => Show(announced, filter[r]) \subseteq seen'[r]
      BY <2>5
    <3>2. QED BY <3>1, <2>2, <2>4 DEF Covered, Show, KindsOf
  <2>8. QED BY <2>1, <2>2, <2>4, <2>6, <2>7 DEF ReaderInv
<1>4. QED
  BY <1>1, <1>2, <1>3, ReaderStep DEF CInv, TypeOK, RelatedEventIDs

\* What was scanned at the current version covers all that has returned.
LEMMA StoreOrderStep ==
    ASSUME CInv, NEW r \in Readers, StoreOrder(r)
    PROVE  CInv'
<1>1. /\ ReaderInv(r) /\ pc[r] = "store" /\ filter[r] \in Filters
      /\ pc' = [pc EXCEPT ![r] = "hydrate"]
      /\ UNCHANGED <<writeVars, version, dsVars, viaDs, filter, must, dsVer, ver, seen>>
  BY DEF CInv, ReaderInv, StoreOrder
<1>2. TypeOK'
  BY <1>1 DEF CInv, TypeOK, StoreOrder, writeVars, dsVars, Orders
<1>3. OrderCurrent'
  <2>1. CASE version = ver[r]
    <3>1. Show(announced, filter[r]) \subseteq seen[r]
      BY <1>1, <2>1 DEF ReaderInv, Covered
    <3>2. order'.key = filter[r] /\ order'.ids = seen[r]
      BY <2>1 DEF StoreOrder
    <3>3. QED BY <1>1, <3>1, <3>2 DEF OrderCurrent, Show, KindsOf, writeVars
  <2>2. CASE version # ver[r]
    BY <2>2, <1>1 DEF StoreOrder, CInv, OrderCurrent, Show, KindsOf, writeVars
  <2>3. QED BY <2>1, <2>2
<1>4. ReaderInv(r)'
  <2>1. pc'[r] = "hydrate"
    BY <1>1 DEF CInv, TypeOK
  <2>2. QED BY <1>1, <2>1 DEF ReaderInv, Covered, Show, KindsOf, writeVars, dsVars
<1>5. QED
  BY <1>1, <1>2, <1>3, <1>4, ReaderStep DEF CInv, TypeOK, dsVars

LEMMA HydrateStep ==
    ASSUME CInv, NEW r \in Readers, HydrateIDs(r)
    PROVE  CInv'
<1>1. TypeOK'
  BY DEF CInv, TypeOK, HydrateIDs, writeVars, cacheVars, dsVars
<1>2. OrderCurrent' /\ UNCHANGED <<writeVars, version, ds>>
  BY DEF CInv, OrderCurrent, HydrateIDs, writeVars, cacheVars, dsVars, Show, KindsOf
<1>3. ReaderInv(r)'
  <2>1. /\ ReaderInv(r) /\ pc[r] = "hydrate"
        /\ pc'[r] \in {"failed", "ok"} \/ (pc'[r] = "keep" /\ viaDs[r])
    BY DEF CInv, TypeOK, HydrateIDs
  <2>2. QED
    BY <2>1 DEF ReaderInv, Covered, HydrateIDs, Show, KindsOf, writeVars, cacheVars, dsVars
<1>4. QED
  BY <1>1, <1>2, <1>3, ReaderStep DEF CInv, TypeOK, HydrateIDs

\* The version a dataset's caller reads covers what had returned by then.
LEMMA GetDatasetStep ==
    ASSUME CInv, NEW r \in Readers, NEW f \in Filters, GetDataset(r, f)
    PROVE  CInv'
<1>1. TypeOK'
  BY DEF CInv, TypeOK, GetDataset, writeVars, cacheVars, dsVars, Orders
<1>2. OrderCurrent' /\ UNCHANGED <<writeVars, version, ds>>
  BY DEF CInv, OrderCurrent, GetDataset, writeVars, cacheVars, dsVars, Show, KindsOf
<1>3. ReaderInv(r)'
  <2>1. /\ pc'[r] = "lock" /\ filter'[r] = f /\ must'[r] = announced
        /\ dsVer'[r] = version /\ ver'[r] = ver[r] /\ f # Unlisted
        /\ UNCHANGED <<announced, version, ds>>
    BY CacheAssumption DEF CInv, TypeOK, GetDataset, writeVars, cacheVars, dsVars
  <2>2. ds.key = f /\ ds.version = version => Show(announced, f) \subseteq ds.ids
    BY <2>1 DEF CInv, DatasetCurrent
  <2>3. ver[r] <= version /\ version \in Nat
    BY DEF CInv, TypeOK, ReaderInv
  <2>4. QED BY <2>1, <2>2, <2>3 DEF ReaderInv, Covered, Show, KindsOf
<1>4. QED
  BY <1>1, <1>2, <1>3, ReaderStep DEF CInv, TypeOK, GetDataset

LEMMA LockDatasetStep ==
    ASSUME CInv, NEW r \in Readers, LockDataset(r)
    PROVE  CInv'
<1>1. TypeOK'
  BY DEF CInv, TypeOK, LockDataset, writeVars, cacheVars, Orders
<1>2. OrderCurrent' /\ UNCHANGED <<writeVars, version, ds>>
  BY DEF CInv, OrderCurrent, LockDataset, writeVars, cacheVars, Show, KindsOf
<1>3. ReaderInv(r)'
  <2>1. /\ ReaderInv(r) /\ pc[r] = "lock"
        /\ UNCHANGED <<writeVars, cacheVars, ds, viaDs, filter, must, dsVer, ver>>
    BY DEF CInv, LockDataset
  <2>2. CASE ds.key = filter[r] /\ ds.version = dsVer[r]
    <3>1. seen'[r] = ds.ids /\ pc'[r] = "ok"
      BY <2>2 DEF CInv, TypeOK, LockDataset
    <3>2. Show(must[r], filter[r]) \subseteq seen'[r]
      BY <2>1, <2>2, <3>1 DEF ReaderInv
    <3>3. QED
      BY <2>1, <3>1, <3>2 DEF ReaderInv, Covered, Show, KindsOf, writeVars, cacheVars
  <2>3. CASE ~(ds.key = filter[r] /\ ds.version = dsVer[r])
    <3>1. pc'[r] = "lookup"
      BY <2>3 DEF CInv, TypeOK, LockDataset
    <3>2. QED BY <2>1, <3>1 DEF ReaderInv, Covered, writeVars, cacheVars
  <2>4. QED BY <2>2, <2>3
<1>4. QED
  BY <1>1, <1>2, <1>3, ReaderStep DEF CInv, TypeOK, LockDataset

\* A dataset kept at a version covers all that has returned at it, and so
\* whatever a waiting caller that read this version must be shown.
LEMMA KeepDatasetStep ==
    ASSUME CInv, NEW r \in Readers, KeepDataset(r)
    PROVE  CInv'
<1>1. /\ ReaderInv(r) /\ pc[r] = "keep" /\ viaDs[r] /\ filter[r] \in Filters
      /\ pc' = [pc EXCEPT ![r] = "ok"]
      /\ UNCHANGED <<writeVars, cacheVars, viaDs, filter, must, dsVer, ver, seen>>
  BY DEF CInv, ReaderInv, KeepDataset
<1>2. TypeOK' /\ IsFiniteSet(applied')
  BY <1>1 DEF CInv, TypeOK, KeepDataset, writeVars, cacheVars, Orders
<1>3. OrderCurrent'
  BY <1>1 DEF CInv, OrderCurrent, writeVars, cacheVars, Show, KindsOf
<1>4. pc'[r] = "ok" /\ \A q \in Readers \ {r} : pc'[q] = pc[q]
  BY <1>1 DEF CInv, TypeOK
<1>5. CASE version = dsVer[r]
  <2>1. /\ ds' = [key |-> filter[r], ids |-> seen[r], version |-> version]
        /\ Show(announced, filter[r]) \subseteq seen[r]
    BY <1>1, <1>5 DEF KeepDataset, ReaderInv, Covered
  <2>2. DatasetCurrent'
    BY <1>1, <2>1 DEF CInv, TypeOK, DatasetCurrent, Show, KindsOf, writeVars, cacheVars
  <2>3. ASSUME NEW q \in Readers PROVE ReaderInv(q)'
    <3>1. ReaderInv(q)
      BY DEF CInv
    <3>2. must[q] \subseteq announced
      BY <3>1 DEF ReaderInv
    <3>3. filter[q] = filter[r] => Show(must[q], filter[q]) \subseteq seen[r]
      BY <3>2, <2>1 DEF Show
    <3>4. (pc[q] = "lock" /\ ds'.key = filter[q] /\ ds'.version = dsVer[q] =>
             Show(must[q], filter[q]) \subseteq ds'.ids)
      BY <2>1, <3>3
    <3>5. CASE q = r
      BY <1>1, <1>4, <3>1, <3>5 DEF ReaderInv, Covered, Show, KindsOf, writeVars, cacheVars
    <3>6. CASE q # r
      BY <1>1, <1>4, <3>1, <3>4, <3>6
      DEF ReaderInv, Covered, Show, KindsOf, Nodes, writeVars, cacheVars
    <3>7. QED BY <3>5, <3>6
  <2>4. QED BY <1>2, <1>3, <2>2, <2>3 DEF CInv
<1>6. CASE version # dsVer[r]
  <2>1. ds' = ds
    BY <1>6 DEF KeepDataset
  <2>2. ReaderInv(r)'
    BY <1>1, <1>4, <2>1 DEF ReaderInv, Covered, Show, KindsOf, writeVars, cacheVars
  <2>3. QED
    BY <1>1, <1>2, <1>3, <1>4, <2>1, <2>2, ReaderStep DEF cacheVars
<1>7. QED BY <1>5, <1>6

LEMMA InvalidateStep ==
    ASSUME CInv, Invalidate
    PROVE  CInv'
<1>1. ds' = NoDataset /\ UNCHANGED <<writeVars, cacheVars, dsLock, readVars>>
  BY DEF Invalidate
<1>2. TypeOK' /\ IsFiniteSet(applied')
  BY <1>1 DEF CInv, TypeOK, NoDataset, Orders, writeVars, cacheVars, readVars
<1>3. OrderCurrent' /\ DatasetCurrent'
  BY <1>1 DEF CInv, TypeOK, OrderCurrent, DatasetCurrent, NoDataset, Show, KindsOf,
              writeVars, cacheVars
<1>4. ASSUME NEW r \in Readers PROVE ReaderInv(r)'
  <2>1. ReaderInv(r)
    BY DEF CInv
  <2>2. pc[r] = "lock" => ds'.key # filter[r]
    BY <1>1, <2>1, CacheAssumption DEF NoDataset, ReaderInv
  <2>3. QED
    BY <1>1, <2>1, <2>2
    DEF ReaderInv, Covered, Show, KindsOf, Nodes, writeVars, cacheVars, readVars
<1>5. QED BY <1>2, <1>3, <1>4 DEF CInv

LEMMA ReturnStep ==
    ASSUME CInv, NEW r \in Readers, Return(r)
    PROVE  CInv'
<1>1. TypeOK'
  BY DEF CInv, TypeOK, Return, Forget, writeVars, cacheVars, Orders
<1>2. OrderCurrent' /\ UNCHANGED <<writeVars, version, ds>>
  BY DEF CInv, OrderCurrent, Return, writeVars, cacheVars, Show, KindsOf
<1>3. ReaderInv(r)'
  <2>1. /\ pc'[r] = "idle" /\ must'[r] = {} /\ dsVer'[r] = 0 /\ ver'[r] = 0
        /\ version' \in Nat
    BY DEF CInv, TypeOK, Return, Forget, cacheVars
  <2>2. QED BY <2>1 DEF ReaderInv, Covered, Show, Nodes
<1>4. QED
  BY <1>1, <1>2, <1>3, ReaderStep DEF CInv, TypeOK, Return, Forget

-----------------------------------------------------------------------------

LEMMA CInvStep ==
    ASSUME CInv, [Next]_vars
    PROVE  CInv'
<1>1. CASE UNCHANGED vars
  <2>1. TypeOK' /\ IsFiniteSet(applied')
    BY <1>1 DEF CInv, TypeOK, vars, writeVars, cacheVars, dsVars, readVars
  <2>2. OrderCurrent' /\ DatasetCurrent'
    BY <1>1 DEF CInv, OrderCurrent, DatasetCurrent, Show, KindsOf, vars, writeVars,
                cacheVars, dsVars
  <2>3. ASSUME NEW r \in Readers PROVE ReaderInv(r)'
    BY <1>1, ReaderQuiet DEF CInv, vars, writeVars, cacheVars, dsVars, readVars
  <2>4. QED BY <2>1, <2>2, <2>3 DEF CInv
<1>2. ASSUME NEW w \in Writers, Write(w) PROVE CInv'
  BY <1>2, ChangeStep, BeginWriteStep, BumpStep, SilentStep DEF Write
<1>3. ASSUME NEW r \in Readers, Read(r) PROVE CInv'
  BY <1>3, QueryEventsStep, GetDatasetStep, LookupOrderStep, CurrentVersionStep,
     QueryNodesStep, RelatedStep, StoreOrderStep, HydrateStep, LockDatasetStep,
     KeepDatasetStep, ReturnStep DEF Read, Proceed
<1>4. QED BY <1>1, <1>2, <1>3, InvalidateStep DEF Next

\* Whatever the caches serve, a page and a dataset show every write that had
\* returned when they were asked for: a write bumps the version before it
\* returns, and nothing is cached at a version but what was scanned at it.
THEOREM NoReturnedWriteMissed ==
    Spec => []ReturnedWritesSeen
<1>1. CInv => ReturnedWritesSeen
  BY DEF CInv, ReaderInv, ReturnedWritesSeen
<1>2. CInv /\ [Next]_vars => CInv'
  BY CInvStep
<1>3. QED BY <1>1, <1>2, InitCInv, PTL DEF Spec

\* Every reachable state is well typed.
THEOREM CachesTypeCorrect ==
    Spec => []TypeOK
<1>1. CInv => TypeOK
  BY DEF CInv
<1>2. CInv /\ [Next]_vars => CInv'
  BY CInvStep
<1>3. QED BY <1>1, <1>2, InitCInv, PTL DEF Spec

-----------------------------------------------------------------------------
(* The other half: what is cached, or on its way to a cache, is a change that  *)
(* was made to the store.                                                      *)

ReaderReal(r) ==
    /\ pc[r] = "relations" => filter[r] \in Related
    /\ pc[r] \in {"relations", "store", "hydrate", "keep"} => seen[r] \subseteq Show(applied, filter[r])

RInv ==
    /\ order.valid => order.ids \subseteq Show(applied, order.key)
    /\ ds.key # Unlisted => ds.ids \subseteq Show(applied, ds.key)
    /\ \A r \in Readers : ReaderReal(r)

LEMMA InitRInv == Init => RInv
BY DEF Init, RInv, ReaderReal, NoOrder, NoDataset

\* A writer's step takes nothing away.
LEMMA WritesKeep == ASSUME RInv, NEW w \in Writers, Write(w) PROVE RInv'
<1>1. /\ applied \subseteq applied' /\ UNCHANGED <<ds, pc, filter, seen>>
      /\ order'.valid => order' = order
  <2>1. CASE BeginWrite(w) \/ ReturnSilently(w)
    BY <2>1 DEF BeginWrite, ReturnSilently, Returns, cacheVars, dsVars, readVars
  <2>2. CASE \E k \in Kinds : Change(w, k)
    BY <2>2 DEF Change, cacheVars, dsVars, readVars
  <2>3. CASE BumpVersion(w)
    <3>1. applied' = applied /\ UNCHANGED <<ds, pc, filter, seen>>
      BY <2>3 DEF BumpVersion, Returns, dsVars, readVars
    <3>2. order'.valid = FALSE \/ order' = order
      BY <2>3 DEF BumpVersion
    <3>3. QED BY <3>1, <3>2
  <2>4. QED BY <2>1, <2>2, <2>3 DEF Write
<1>2. \A f : Show(applied, f) \subseteq Show(applied', f)
  BY <1>1 DEF Show
<1>3. QED BY <1>1, <1>2 DEF RInv, ReaderReal, Show, KindsOf

\* What one reader does leaves the others as they are.
LEMMA OneReader ==
    ASSUME RInv, NEW r \in Readers, ReaderReal(r)', applied' = applied,
           order'.valid => order'.ids \subseteq Show(applied, order'.key),
           ds'.key # Unlisted => ds'.ids \subseteq Show(applied, ds'.key),
           \A q \in Readers \ {r} : pc'[q] = pc[q] /\ filter'[q] = filter[q] /\ seen'[q] = seen[q]
    PROVE  RInv'
<1>1. ASSUME NEW q \in Readers \ {r} PROVE ReaderReal(q)'
  BY DEF RInv, ReaderReal, Show, KindsOf
<1>2. QED BY <1>1 DEF RInv, Show, KindsOf

LEMMA ReadsKeep == ASSUME CInv, RInv, NEW r \in Readers, Read(r) PROVE RInv'
<1>1. /\ applied' = applied
      /\ \A q \in Readers \ {r} : pc'[q] = pc[q] /\ filter'[q] = filter[q] /\ seen'[q] = seen[q]
  BY DEF CInv, TypeOK, Read, Proceed, QueryEvents, GetDataset, LookupOrder, CurrentVersion,
     QueryNodes, RelatedEventIDs, StoreOrder, HydrateIDs, LockDataset, KeepDataset, Return, Forget,
     writeVars
<1>2. CASE \/ \E f \in Filters : QueryEvents(r, f) \/ GetDataset(r, f)
           \/ CurrentVersion(r) \/ LockDataset(r) \/ Return(r)
  <2>1. UNCHANGED <<order, ds>>
    BY <1>2 DEF QueryEvents, GetDataset, CurrentVersion, LockDataset, Return, cacheVars, dsVars
  <2>2. pc'[r] \notin {"relations", "store", "hydrate", "keep"}
    BY <1>2 DEF CInv, TypeOK, QueryEvents, GetDataset, CurrentVersion, LockDataset, Return, Forget
  <2>3. QED BY <1>1, <2>1, <2>2, OneReader DEF RInv, ReaderReal
<1>3. CASE LookupOrder(r)
  <2>1. /\ UNCHANGED <<order, ds, filter>> /\ pc'[r] \in {"hydrate", "version"}
        /\ pc'[r] = "hydrate" => order.valid /\ order.key = filter[r] /\ seen'[r] = order.ids
    BY <1>3 DEF LookupOrder, cacheVars, dsVars, CInv, TypeOK
  <2>2. ReaderReal(r)'
    BY <1>1, <2>1 DEF RInv, ReaderReal, Show, KindsOf
  <2>3. QED BY <1>1, <2>1, <2>2, OneReader DEF RInv
<1>4. CASE QueryNodes(r)
  <2>1. /\ UNCHANGED <<order, ds, filter>>
        /\ pc'[r] = IF filter[r] \in Related THEN "relations" ELSE "store"
        /\ seen'[r] = {c \in applied : c.kind \in NodeKinds}
    BY <1>4 DEF QueryNodes, cacheVars, dsVars, CInv, TypeOK
  <2>2. ReaderReal(r)'
    BY <1>1, <2>1 DEF ReaderReal, Show, KindsOf, Kinds, NodeKinds
  <2>3. QED BY <1>1, <2>1, <2>2, OneReader DEF RInv
<1>5. CASE RelatedEventIDs(r)
  <2>1. /\ UNCHANGED <<order, ds, filter>> /\ pc[r] = "relations" /\ pc'[r] = "store"
        /\ seen'[r] = seen[r] \cup {c \in applied : c.kind = "relation"}
    BY <1>5 DEF RelatedEventIDs, cacheVars, dsVars, CInv, TypeOK
  <2>2. filter[r] \in Related /\ seen[r] \subseteq Show(applied, filter[r])
    BY <2>1 DEF RInv, ReaderReal
  <2>3. ReaderReal(r)'
    BY <1>1, <2>1, <2>2 DEF ReaderReal, Show, KindsOf, Kinds
  <2>4. QED BY <1>1, <2>1, <2>3, OneReader DEF RInv
<1>6. CASE StoreOrder(r)
  <2>1. /\ UNCHANGED <<ds, filter, seen>> /\ pc[r] = "store" /\ pc'[r] = "hydrate"
        /\ order' = order \/ order' = [key |-> filter[r], ids |-> seen[r], valid |-> TRUE]
    BY <1>6 DEF StoreOrder, dsVars, CInv, TypeOK
  <2>2. seen[r] \subseteq Show(applied, filter[r])
    BY <2>1 DEF RInv, ReaderReal
  <2>3. ReaderReal(r)' /\ (order'.valid => order'.ids \subseteq Show(applied, order'.key))
    BY <1>1, <2>1, <2>2 DEF RInv, ReaderReal, Show, KindsOf
  <2>4. QED BY <1>1, <2>1, <2>3, OneReader DEF RInv
<1>7. CASE HydrateIDs(r)
  <2>1. /\ UNCHANGED <<order, ds, filter, seen>> /\ pc[r] = "hydrate"
        /\ pc'[r] \in {"failed", "keep", "ok"}
    BY <1>7 DEF HydrateIDs, cacheVars, dsVars, CInv, TypeOK
  <2>2. ReaderReal(r)'
    BY <1>1, <2>1 DEF RInv, ReaderReal, Show, KindsOf
  <2>3. QED BY <1>1, <2>1, <2>2, OneReader DEF RInv
<1>8. CASE KeepDataset(r)
  <2>1. /\ UNCHANGED <<order, filter, seen>> /\ pc[r] = "keep" /\ pc'[r] = "ok"
        /\ ds' = ds \/ ds' = [key |-> filter[r], ids |-> seen[r], version |-> version]
    BY <1>8 DEF KeepDataset, cacheVars, CInv, TypeOK
  <2>2. seen[r] \subseteq Show(applied, filter[r])
    BY <2>1 DEF RInv, ReaderReal
  <2>3. ReaderReal(r)' /\ (ds'.key # Unlisted => ds'.ids \subseteq Show(applied, ds'.key))
    BY <1>1, <2>1, <2>2 DEF RInv, ReaderReal
  <2>4. QED BY <1>1, <2>1, <2>3, OneReader DEF RInv
<1>9. QED BY <1>2, <1>3, <1>4, <1>5, <1>6, <1>7, <1>8 DEF Read, Proceed

LEMMA RInvStep == ASSUME CInv, RInv, [Next]_vars PROVE RInv'
<1>1. CASE UNCHANGED vars \/ Invalidate
  <2>1. /\ UNCHANGED <<applied, order, pc, filter, seen>>
        /\ ds' = ds \/ ds' = NoDataset
    BY <1>1 DEF vars, writeVars, cacheVars, dsVars, readVars, Invalidate
  <2>2. QED BY <2>1 DEF RInv, ReaderReal, Show, KindsOf, NoDataset
<1>2. QED BY <1>1, WritesKeep, ReadsKeep DEF Next

\* Once every change to the store has been announced, the cached order and a
\* dataset at the current version are exactly what a scan would bring.
THEOREM QuietCachesExact ==
    Spec => []QuietCachesAreExact
<1>1. CInv /\ RInv => QuietCachesAreExact
  BY DEF CInv, OrderCurrent, DatasetCurrent, RInv, QuietCachesAreExact, Show
<1>2. Init => CInv /\ RInv
  BY InitCInv, InitRInv
<1>3. CInv /\ RInv /\ [Next]_vars => (CInv /\ RInv)'
  BY CInvStep, RInvStep
<1>4. QED BY <1>1, <1>2, <1>3, PTL DEF Spec

-----------------------------------------------------------------------------
(* The counts, and what a backfill pass leaves behind.                         *)

Counts(read) ==
    \A e \in DOMAIN read : e \in Stored => read[e].count = node[e].count

Shapes ==
    /\ credited \in [Events -> Nat]
    /\ \A e \in Stored : e \in Events /\ node[e] = [count |-> node[e].count, keys |-> node[e].keys]
    /\ \A e \in DOMAIN pread :
          e \in Events /\ pread[e] = [count |-> pread[e].count, keys |-> pread[e].keys]
    /\ \A e \in DOMAIN sread :
          e \in Events /\ sread[e] = [count |-> sread[e].count, keys |-> sread[e].keys]

EInv ==
    /\ Shapes
    /\ ~(spc = "commit" /\ PassRuns)
    /\ spc \in {"idle", "commit"}
    /\ spc = "commit" => Counts(sread)
    /\ ppc \in {"project", "commit"} => Counts(pread)
    /\ CountsAlwaysExact

-----------------------------------------------------------------------------

LEMMA InitHolds == BackfillInit => EInv
<1>1. SUFFICES ASSUME BackfillInit PROVE EInv
  OBVIOUS
<1>2. PICK S \in SUBSET Events : node = [e \in S |-> [count |-> 1, keys |-> "stale"]]
  BY <1>1 DEF BackfillInit
<1>3. \A e \in Stored : node[e] = [count |-> 1, keys |-> "stale"] /\ e \in Events
  BY <1>2 DEF Stored
<1>4. Shapes
  BY <1>1, <1>3 DEF BackfillInit, Shapes, NoRecords
<1>5. CountsAlwaysExact
  BY <1>1, <1>3 DEF BackfillInit, CountsAlwaysExact
<1>6. QED BY <1>1, <1>4, <1>5 DEF BackfillInit, EInv, PassRuns

\* Writing back records whose counts are those stored changes no count.
LEMMA WriteBack ==
    ASSUME NEW changed, Committable(changed), node' = Updated(changed)
    PROVE  /\ DOMAIN node' = Stored
           /\ \A e \in Stored : node'[e] = IF e \in DOMAIN changed THEN changed[e] ELSE node[e]
BY DEF Updated, Committable, Stored

\* Steps that leave the store alone.
LEMMA Elsewhere ==
    ASSUME EInv, UNCHANGED <<node, credited>>, Shapes',
           ~(spc' = "commit" /\ PassRuns'), spc' \in {"idle", "commit"},
           spc' = "commit" => Counts(sread)',
           ppc' \in {"project", "commit"} => Counts(pread)'
    PROVE  EInv'
BY DEF EInv, CountsAlwaysExact, Stored

LEMMA Inserts ==
    ASSUME EInv, NEW e \in Events, InsertEvents(e)
    PROVE  EInv'
<1>1. /\ node' = [d \in Stored \cup {e} |->
                      IF d = e THEN [count |-> 1, keys |-> "real"] ELSE node[d]]
      /\ credited' = [credited EXCEPT ![e] = 1]
      /\ e \notin Stored /\ spc = "idle" /\ e \notin DOMAIN pread
      /\ UNCHANGED <<spc, sread, ppc, pread>>
  BY DEF InsertEvents, PassRuns, sinkVars, passVars
<1>2. Stored' = Stored \cup {e}
  BY <1>1 DEF Stored
<1>3. \A d \in Events : credited'[d] = IF d = e THEN 1 ELSE credited[d]
  BY <1>1 DEF EInv, Shapes
<1>4. Shapes'
  BY <1>1, <1>2 DEF EInv, Shapes
<1>5. CountsAlwaysExact'
  BY <1>1, <1>2, <1>3 DEF EInv, CountsAlwaysExact, Shapes
<1>6. ppc' \in {"project", "commit"} => Counts(pread)'
  BY <1>1, <1>2 DEF EInv, Counts
<1>7. QED BY <1>1, <1>4, <1>5, <1>6 DEF EInv, PassRuns

LEMMA Commits ==
    ASSUME EInv, CommitCounts
    PROVE  EInv'
<1> DEFINE changed == [e \in DOMAIN sread |-> [sread[e] EXCEPT !.count = @ + 1]]
<1>1. /\ Committable(sread) /\ node' = Updated(changed)
      /\ credited' = [e \in Events |-> credited[e] + (IF e \in DOMAIN sread THEN 1 ELSE 0)]
      /\ spc = "commit" /\ spc' = "idle" /\ sread' = NoRecords
      /\ UNCHANGED <<ppc, pread>>
  BY DEF CommitCounts, passVars
<1>2. \A e \in DOMAIN sread : changed[e] = [count |-> sread[e].count + 1, keys |-> sread[e].keys]
  BY DEF EInv, Shapes
<1>3. DOMAIN changed = DOMAIN sread
  OBVIOUS
<1> HIDE DEF changed
<1>4. /\ Stored' = Stored
      /\ \A e \in Stored : node'[e] = IF e \in DOMAIN sread THEN changed[e] ELSE node[e]
  BY <1>1, <1>3, WriteBack DEF Committable, Stored
<1>5. CountsAlwaysExact'
  <2>1. SUFFICES ASSUME NEW e \in Stored PROVE node'[e].count = credited'[e]
    BY <1>4 DEF CountsAlwaysExact
  <2>2. e \in Events /\ node[e].count = credited[e]
    BY DEF EInv, Shapes, CountsAlwaysExact
  <2>3. CASE e \in DOMAIN sread
    <3>a. node'[e] = changed[e]
      BY <1>4, <2>3
    <3>b. changed[e].count = sread[e].count + 1
      <4>1. changed[e] = [count |-> sread[e].count + 1, keys |-> sread[e].keys]
        BY <1>2, <2>3
      <4>2. QED BY <4>1
    <3>1. node'[e].count = sread[e].count + 1
      BY <3>a, <3>b
    <3>2. sread[e].count = node[e].count
      BY <1>1, <2>3 DEF EInv, Counts
    <3>3. credited'[e] = credited[e] + 1
      BY <1>1, <2>2, <2>3
    <3>4. QED BY <2>2, <3>1, <3>2, <3>3
  <2>4. CASE e \notin DOMAIN sread
    <3>1. credited'[e] = credited[e]
      BY <1>1, <2>2, <2>4 DEF EInv, Shapes
    <3>2. node'[e] = node[e]
      BY <1>4, <2>4
    <3>3. QED BY <2>2, <3>1, <3>2
  <2>5. QED BY <2>3, <2>4
<1>6. Shapes'
  <2>1. \A e \in Stored : node'[e] = [count |-> node'[e].count, keys |-> node'[e].keys]
    BY ZenonT(30), <1>2, <1>4 DEF EInv, Shapes
  <2>2. credited' \in [Events -> Nat]
    BY <1>1 DEF EInv, Shapes
  <2>3. QED BY <1>1, <1>4, <2>1, <2>2 DEF EInv, Shapes, NoRecords
<1>7. QED BY <1>1, <1>5, <1>6 DEF EInv, PassRuns

LEMMA Reads ==
    ASSUME EInv, ~overlapped', NEW S \in SUBSET Stored, ReadCounts(S)
    PROVE  EInv'
<1>1. /\ sread' = GetNodes(S) /\ spc' = "commit" /\ ~PassRuns
      /\ UNCHANGED <<node, credited, ppc, pread>>
  BY DEF ReadCounts, PassRuns, passVars
<1>2. \A e \in DOMAIN GetNodes(S) : e \in Stored /\ GetNodes(S)[e] = node[e]
  BY DEF GetNodes
<1>3. Shapes' /\ Counts(sread)'
  BY <1>1, <1>2 DEF EInv, Shapes, Counts, Stored
<1>4. QED BY <1>1, <1>3, Elsewhere DEF PassRuns, EInv

LEMMA ReadsBatch ==
    ASSUME EInv, NEW S \in SUBSET rest, ReadBatch(S)
    PROVE  EInv'
<1>1. /\ pread' = GetNodes(S) /\ ppc = "batch" /\ ppc' = "project"
      /\ UNCHANGED <<node, credited, spc, sread>>
  BY DEF ReadBatch, sinkVars
<1>2. \A e \in DOMAIN GetNodes(S) : e \in Stored /\ GetNodes(S)[e] = node[e]
  BY DEF GetNodes
<1>3. Shapes' /\ Counts(pread)'
  BY <1>1, <1>2 DEF EInv, Shapes, Counts, Stored
<1>4. QED BY <1>1, <1>3, Elsewhere DEF PassRuns, EInv

LEMMA Projects ==
    ASSUME EInv, NEW unreadable \in SUBSET DOMAIN pread, ProjectBatch(unreadable)
    PROVE  EInv'
<1>1. /\ pread' = [e \in Pending \ unreadable |-> [pread[e] EXCEPT !.keys = "real"]]
      /\ ppc = "project" /\ ppc' = "commit" /\ UNCHANGED <<node, credited, spc, sread>>
  BY DEF ProjectBatch, sinkVars
<1>2. \A e \in DOMAIN pread' : /\ e \in DOMAIN pread
                             /\ pread'[e] = [count |-> pread[e].count, keys |-> "real"]
  BY <1>1 DEF Pending, EInv, Shapes
<1>3. Shapes'
  BY <1>1, <1>2 DEF EInv, Shapes, Stored
<1>4. Counts(pread)'
  <2>1. \A e \in DOMAIN pread' : pread'[e].count = pread[e].count
    BY <1>2
  <2>2. QED BY <1>1, <1>2, <2>1 DEF EInv, Counts, Stored
<1>5. QED BY <1>1, <1>3, <1>4, Elsewhere DEF PassRuns, EInv

LEMMA CommitsBatch ==
    ASSUME EInv, CommitBatch
    PROVE  EInv'
<1>1. /\ Committable(pread) /\ node' = Updated(pread) /\ pread' = NoRecords
      /\ ppc = "commit" /\ ppc' = "batch" /\ UNCHANGED <<credited, spc, sread>>
  BY DEF CommitBatch, sinkVars
<1>2. /\ Stored' = Stored
      /\ \A e \in Stored : node'[e] = IF e \in DOMAIN pread THEN pread[e] ELSE node[e]
  BY <1>1, WriteBack DEF Stored
<1>3. \A e \in Stored : node'[e].count = node[e].count
  BY <1>1, <1>2 DEF EInv, Counts
<1>4. CountsAlwaysExact'
  BY <1>1, <1>2, <1>3 DEF EInv, CountsAlwaysExact
<1>5. Shapes'
  BY <1>1, <1>2 DEF EInv, Shapes, NoRecords
<1>6. QED BY <1>1, <1>4, <1>5 DEF EInv, PassRuns

LEMMA Deletes ==
    ASSUME EInv, NEW e \in Stored, DeleteEvent(e)
    PROVE  EInv'
<1>1. /\ node' = [d \in Stored \ {e} |-> node[d]] /\ credited' = [credited EXCEPT ![e] = 0]
      /\ UNCHANGED <<spc, sread, ppc, pread>>
  BY DEF DeleteEvent, sinkVars, passVars
<1>2. Stored' = Stored \ {e} /\ \A d \in Stored \ {e} : node'[d] = node[d]
  BY <1>1 DEF Stored
<1>3. \A d \in Events \ {e} : credited'[d] = credited[d]
  BY <1>1
<1>4. Shapes'
  BY <1>1, <1>2 DEF EInv, Shapes
<1>5. CountsAlwaysExact'
  BY <1>1, <1>2, <1>3 DEF EInv, CountsAlwaysExact, Shapes
<1>6. (spc = "commit" => Counts(sread)') /\ (ppc \in {"project", "commit"} => Counts(pread)')
  BY <1>1, <1>2 DEF EInv, Counts
<1>7. QED BY <1>1, <1>4, <1>5, <1>6 DEF EInv, PassRuns

\* What ends in one place or another with nothing in hand.
LEMMA LetsGo ==
    ASSUME EInv, ~overlapped', CountsFail \/ StartBackfill \/ BatchFails \/ BackfillDone
                            \/ CancelMaintenance \/ Crash
    PROVE  EInv'
<1>1. /\ UNCHANGED <<node, credited>> /\ spc' \in {spc, "idle"}
      /\ sread' \in {sread, NoRecords} /\ (spc' = "commit" => sread' = sread /\ spc = "commit")
      /\ pread' \in {pread, NoRecords}
      /\ ppc' \in {"project", "commit"} => pread' = pread /\ ppc' = ppc
      /\ ~(spc' = "commit" /\ PassRuns')
  BY DEF CountsFail, StartBackfill, BatchFails, BackfillDone, CancelMaintenance, Crash,
         sinkVars, passVars, PassRuns, EInv
<1>2. Shapes'
  BY <1>1 DEF EInv, Shapes, NoRecords, Stored
<1>3. (spc' = "commit" => Counts(sread)') /\ (ppc' \in {"project", "commit"} => Counts(pread)')
  BY <1>1 DEF EInv, Counts, Stored
<1>4. QED BY <1>1, <1>2, <1>3, Elsewhere DEF EInv

LEMMA StepHolds == (overlapped \/ EInv) /\ [BackfillNext]_backfillVars => (overlapped \/ EInv)'
<1>1. SUFFICES ASSUME overlapped \/ EInv, [BackfillNext]_backfillVars, ~overlapped' PROVE EInv'
  OBVIOUS
<1>2. CASE UNCHANGED backfillVars
  BY <1>1, <1>2 DEF backfillVars, sinkVars, passVars, EInv, Shapes, Counts, CountsAlwaysExact,
                    PassRuns, Stored
<1>3. CASE BackfillNext
  <2>1. EInv
    BY <1>1, <1>3 DEF BackfillNext, InsertEvents, ReadCounts, CommitCounts, CountsFail,
       StartBackfill, ReadBatch, ProjectBatch, CommitBatch, BatchFails, BackfillDone,
       CancelMaintenance, DeleteEvent, Crash
  <2>2. QED
    BY <1>1, <1>3, <2>1, Inserts, Reads, Commits, ReadsBatch, Projects, CommitsBatch,
       Deletes, LetsGo DEF BackfillNext
<1>4. QED BY <1>1, <1>2, <1>3

\* As long as the maintenance pass has not run while ingestion had records in
\* hand, every stored event's occurrence count is the number of occurrences the
\* store acknowledged, whatever crashes, is refused or is deleted (run
\* backfill_loses_counts shows why the condition is needed).
THEOREM CountsStayExact ==
    BackfillSpec => []CountsExact
<1>1. overlapped \/ EInv => CountsExact
  BY DEF EInv, CountsExact
<1>2. QED BY <1>1, InitHolds, StepHolds, PTL DEF BackfillSpec

-----------------------------------------------------------------------------
(* What a pass leaves behind. An event that has no current projection is       *)
(* still to come, in the batch in hand, or counted as failed.                  *)

Behind == {e \in Stored : ~HasCurrentCorrelationKeys(node[e])}
Passed == Behind \ (rest \cup DOMAIN pread)

\* Records read whose projection is the one stored.
Keys(read) == \A e \in DOMAIN read : e \in Stored => read[e].keys = node[e].keys

Result == res = [examined |-> res.examined, projected |-> res.projected,
                 already |-> res.already, failed |-> res.failed]

BInv ==
    /\ Result /\ res.failed \in Nat
    /\ spc = "commit" => Keys(sread)
    /\ ppc = "project" => Keys(pread)
    /\ ppc = "commit" => \A e \in DOMAIN pread : pread[e].keys = "real"
    /\ ppc \notin {"project", "commit"} => DOMAIN pread = {}
    /\ ppc = "done" => rest = {}
    /\ PassRuns \/ ppc = "done" => Cardinality(Passed) <= res.failed

Both == EInv /\ BInv

LEMMA InitBoth == BackfillInit => Both
<1>1. SUFFICES ASSUME BackfillInit PROVE Both
  OBVIOUS
<1>2. BInv
  BY <1>1 DEF BackfillInit, BInv, Result, NoResult, NoRecords, PassRuns
<1>3. QED BY <1>1, <1>2, InitHolds DEF Both

LEMMA Finite ==
    ASSUME EInv
    PROVE  IsFiniteSet(Passed) /\ Cardinality(Passed) \in Nat
<1>1. Passed \subseteq Events
  BY DEF EInv, Shapes, Passed, Behind, Stored
<1>2. QED BY <1>1, BackfillAssumption, FS_Subset, FS_CardinalityType

\* Nothing more is behind: the count of the failed covers what it covered.
LEMMA NoMoreBehind ==
    ASSUME Both, PassRuns \/ ppc = "done", Passed' \subseteq Passed, res'.failed = res.failed
    PROVE  Cardinality(Passed)' <= res'.failed
<1>1. Cardinality(Passed') <= Cardinality(Passed) /\ Cardinality(Passed') \in Nat
  BY Finite, FS_Subset, FS_CardinalityType DEF Both
<1>2. QED BY <1>1, Finite DEF Both, BInv

\* What the sink stores is projected, or as it was.
LEMMA SinkBehind ==
    ASSUME Both, EInv', ~overlapped',
           \/ \E e \in Events : InsertEvents(e)
           \/ \E S \in SUBSET Stored : ReadCounts(S)
           \/ CommitCounts \/ CountsFail
    PROVE  BInv'
<1>1. UNCHANGED <<ppc, pread, rest, res>>
  BY DEF InsertEvents, ReadCounts, CommitCounts, CountsFail, passVars
<1>2. ASSUME NEW e \in Events, InsertEvents(e) PROVE BInv'
  <2>1. /\ node' = [d \in Stored \cup {e} |->
                        IF d = e THEN [count |-> 1, keys |-> "real"] ELSE node[d]]
        /\ e \notin Stored /\ e \notin DOMAIN pread /\ spc' = "idle"
    BY <1>2 DEF InsertEvents, sinkVars
  <2>2. Stored' = Stored \cup {e} /\ node'[e].keys = "real" /\ \A d \in Stored : node'[d] = node[d]
    BY <2>1 DEF Stored
  <2>3. Passed' \subseteq Passed
    BY <1>1, <2>2 DEF Passed, Behind, HasCurrentCorrelationKeys
  <2>4. ppc = "project" => Keys(pread)'
    BY <1>1, <2>1, <2>2 DEF Both, BInv, Keys
  <2>5. QED BY <1>1, <2>1, <2>3, <2>4, NoMoreBehind DEF Both, BInv, PassRuns, Result
<1>3. ASSUME NEW S \in SUBSET Stored, ReadCounts(S) PROVE BInv'
  <2>1. sread' = GetNodes(S) /\ node' = node /\ spc' = "commit"
    BY <1>3 DEF ReadCounts
  <2>2. Keys(sread)'
    BY <2>1 DEF Keys, GetNodes, Stored
  <2>3. Passed' = Passed /\ (ppc = "project" => Keys(pread)')
    BY <1>1, <2>1 DEF Passed, Behind, Stored, Both, BInv, Keys
  <2>4. QED BY <1>1, <2>2, <2>3 DEF Both, BInv, PassRuns, Result
<1>4. ASSUME CommitCounts PROVE BInv'
  <2> DEFINE changed == [e \in DOMAIN sread |-> [sread[e] EXCEPT !.count = @ + 1]]
  <2>1. Committable(sread) /\ node' = Updated(changed) /\ spc = "commit" /\ spc' = "idle"
    BY <1>4 DEF CommitCounts
  <2>2. DOMAIN changed = DOMAIN sread
    OBVIOUS
  <2>3. \A e \in DOMAIN sread : changed[e].keys = sread[e].keys
    BY DEF Both, EInv, Shapes
  <2> HIDE DEF changed
  <2>4. /\ Stored' = Stored
        /\ \A e \in Stored : node'[e] = IF e \in DOMAIN sread THEN changed[e] ELSE node[e]
    BY <2>1, <2>2, WriteBack DEF Committable, Stored
  <2>5. \A e \in Stored : node'[e].keys = node[e].keys
    BY <2>1, <2>3, <2>4 DEF Both, BInv, Keys
  <2>6. Passed' = Passed
    BY <1>1, <2>4, <2>5 DEF Passed, Behind, HasCurrentCorrelationKeys
  <2>7. ppc = "project" => Keys(pread)'
    BY <1>1, <2>4, <2>5 DEF Both, BInv, Keys
  <2>8. QED BY <1>1, <2>1, <2>6, <2>7 DEF Both, BInv, PassRuns, Result
<1>5. ASSUME CountsFail PROVE BInv'
  <2>1. node' = node /\ spc' = "idle"
    BY <1>5 DEF CountsFail
  <2>2. Passed' = Passed /\ (ppc = "project" => Keys(pread)')
    BY <1>1, <2>1 DEF Passed, Behind, Stored, Both, BInv, Keys
  <2>3. QED BY <1>1, <2>1, <2>2 DEF Both, BInv, PassRuns, Result
<1>6. QED BY <1>2, <1>3, <1>4, <1>5

LEMMA StartBehind == ASSUME Both, EInv', StartBackfill PROVE BInv'
<1>1. /\ ~PassRuns /\ ppc' = "batch" /\ rest' = Stored /\ res' = NoResult
      /\ UNCHANGED <<node, spc, sread, pread>>
  BY DEF StartBackfill, sinkVars
<1>2. Passed' = {}
  BY <1>1 DEF Passed, Behind, Stored
<1>3. spc' = "commit" => Keys(sread)'
  BY <1>1 DEF Both, BInv, Keys, Stored
<1>4. Cardinality(Passed)' = 0
  BY <1>2, FS_EmptySet
<1>5. res'.failed = 0 /\ Result'
  BY <1>1 DEF NoResult, Result
<1>6. DOMAIN pread' = {}
  BY <1>1 DEF Both, BInv, PassRuns
<1>7. QED BY <1>1, <1>3, <1>4, <1>5, <1>6 DEF BInv

LEMMA ReadBehind == ASSUME Both, EInv', NEW S \in SUBSET rest, ReadBatch(S) PROVE BInv'
<1>1. /\ ppc = "batch" /\ ppc' = "project" /\ pread' = GetNodes(S) /\ rest' = rest \ S
      /\ UNCHANGED <<node, spc, sread, res>>
  BY DEF ReadBatch, sinkVars
<1>2. /\ DOMAIN pread' = S \cap Stored
      /\ \A e \in S \cap Stored : pread'[e] = node[e]
  BY <1>1 DEF GetNodes
<1>3. Keys(pread)' /\ (spc' = "commit" => Keys(sread)')
  BY <1>1, <1>2 DEF Both, BInv, Keys, Stored
<1>4. Passed' \subseteq Passed
  <2>1. DOMAIN pread = {}
    BY <1>1 DEF Both, BInv
  <2>2. Behind' = Behind /\ Behind \subseteq Stored
    BY <1>1 DEF Behind, Stored
  <2>3. QED BY <1>1, <1>2, <2>1, <2>2 DEF Passed
<1>5. Cardinality(Passed)' <= res'.failed
  BY <1>1, <1>4, NoMoreBehind DEF PassRuns
<1>6. QED BY <1>1, <1>3, <1>5 DEF Both, BInv, Result

LEMMA ProjectBehind ==
    ASSUME Both, EInv', NEW unreadable \in SUBSET DOMAIN pread, ProjectBatch(unreadable)
    PROVE  BInv'
<1>1. /\ ppc = "project" /\ ppc' = "commit" /\ unreadable \subseteq Pending
      /\ pread' = [e \in Pending \ unreadable |-> [pread[e] EXCEPT !.keys = "real"]]
      /\ res' = Count(Pending \ unreadable, unreadable)
      /\ UNCHANGED <<node, spc, sread, rest>>
  BY DEF ProjectBatch, sinkVars
<1>2. /\ DOMAIN pread' = Pending \ unreadable
      /\ \A e \in DOMAIN pread' : pread'[e].keys = "real"
  BY <1>1 DEF Pending, Both, EInv, Shapes
<1>3. res'.failed = res.failed + Cardinality(unreadable) /\ Result'
  BY <1>1 DEF Count, Result
<1>4. IsFiniteSet(unreadable) /\ Cardinality(unreadable) \in Nat
  <2>1. unreadable \subseteq Events
    BY DEF Both, EInv, Shapes
  <2>2. QED BY <2>1, BackfillAssumption, FS_Subset, FS_CardinalityType
<1>5. Passed' \subseteq Passed \cup unreadable
  <2>1. \A e \in DOMAIN pread : e \in Behind => e \in Pending
    BY <1>1 DEF Both, BInv, Keys, Behind, Pending, HasCurrentCorrelationKeys
  <2>2. Behind' = Behind
    BY <1>1 DEF Behind, Stored
  <2>3. QED BY <1>1, <1>2, <2>1, <2>2 DEF Passed
<1>6. Cardinality(Passed)' <= res'.failed
  <2> DEFINE U == Passed \cup unreadable
  <2>1. /\ IsFiniteSet(U) /\ Cardinality(U) \in Nat
        /\ Cardinality(U) <= Cardinality(Passed) + Cardinality(unreadable)
    <3>1. IsFiniteSet(Passed) /\ Cardinality(Passed) \in Nat
      BY Finite DEF Both
    <3>2. /\ IsFiniteSet(U) /\ IsFiniteSet(Passed \cap unreadable)
          /\ Cardinality(U) = Cardinality(Passed) + Cardinality(unreadable)
                                - Cardinality(Passed \cap unreadable)
      BY <1>4, <3>1, FS_Union, FS_Intersection
    <3>3. Cardinality(U) \in Nat /\ Cardinality(Passed \cap unreadable) \in Nat
      BY <3>2, FS_CardinalityType
    <3> HIDE DEF U
    <3>4. QED BY <1>4, <3>1, <3>2, <3>3
  <2>2. Cardinality(Passed') <= Cardinality(U) /\ Cardinality(Passed') \in Nat
    BY <1>5, <2>1, FS_Subset, FS_CardinalityType
  <2>3. Cardinality(Passed) <= res.failed /\ res.failed \in Nat /\ Cardinality(Passed) \in Nat
    BY <1>1, Finite DEF Both, BInv, PassRuns
  <2> HIDE DEF U
  <2>4. QED BY <1>3, <1>4, <2>1, <2>2, <2>3
<1>7. spc' = "commit" => Keys(sread)'
  BY <1>1 DEF Both, BInv, Keys, Stored
<1>8. res'.failed \in Nat
  BY <1>3, <1>4 DEF Both, BInv
<1>9. QED BY <1>1, <1>2, <1>3, <1>6, <1>7, <1>8 DEF BInv

LEMMA CommitBehind == ASSUME Both, EInv', CommitBatch PROVE BInv'
<1>1. /\ Committable(pread) /\ node' = Updated(pread) /\ pread' = NoRecords
      /\ ppc = "commit" /\ ppc' = "batch" /\ UNCHANGED <<spc, sread, rest, res>>
  BY DEF CommitBatch, sinkVars
<1>2. /\ Stored' = Stored
      /\ \A e \in Stored : node'[e] = IF e \in DOMAIN pread THEN pread[e] ELSE node[e]
  BY <1>1, WriteBack DEF Stored
<1>3. \A e \in DOMAIN pread : pread[e].keys = "real"
  BY <1>1 DEF Both, BInv
<1>4. DOMAIN pread' = {}
  BY <1>1 DEF NoRecords
<1>5. Passed' \subseteq Passed
  BY <1>1, <1>2, <1>3, <1>4 DEF Passed, Behind, HasCurrentCorrelationKeys
<1>6. Cardinality(Passed)' <= res'.failed
  BY <1>1, <1>5, NoMoreBehind DEF PassRuns
<1>7. spc' # "commit"
  BY <1>1 DEF Both, EInv, PassRuns
<1>8. QED BY <1>1, <1>4, <1>6, <1>7 DEF Both, BInv, Result

LEMMA EndBehind ==
    ASSUME Both, EInv', BatchFails \/ BackfillDone \/ CancelMaintenance \/ Crash
    PROVE  BInv'
<1>1. /\ node' = node /\ spc' \in {spc, "idle"} /\ (spc' = "commit" => sread' = sread)
      /\ DOMAIN pread' = {} /\ ppc' \in {"stopped", "done", "idle"}
      /\ Result' /\ res'.failed \in Nat
  <2>1. CASE BatchFails
    BY <2>1 DEF BatchFails, sinkVars, NoRecords, Both, BInv, Result
  <2>2. CASE BackfillDone \/ CancelMaintenance
    BY <2>2 DEF BackfillDone, CancelMaintenance, sinkVars, Both, BInv, Result
  <2>3. CASE Crash
    BY <2>3 DEF Crash, NoRecords, NoResult, Result
  <2>4. QED BY <2>1, <2>2, <2>3
<1>2. spc' = "commit" => Keys(sread)'
  BY <1>1 DEF Both, EInv, BInv, Keys, Stored
<1>3. CASE BackfillDone
  <2>1. /\ ppc = "batch" /\ rest = {} /\ UNCHANGED <<node, pread, rest, res>>
    BY <1>3 DEF BackfillDone
  <2>2. Passed' = Passed
    BY <2>1 DEF Passed, Behind, Stored
  <2>3. Cardinality(Passed)' <= res'.failed
    BY <2>1, <2>2, NoMoreBehind DEF PassRuns
  <2>4. QED BY <1>1, <1>2, <2>1, <2>3 DEF BInv
<1>4. CASE ~BackfillDone
  <2>1. ppc' \in {"stopped", "idle"}
    BY <1>4 DEF BatchFails, CancelMaintenance, Crash
  <2>2. QED BY <1>1, <1>2, <2>1 DEF BInv, PassRuns
<1>5. QED BY <1>3, <1>4

LEMMA DeleteBehind == ASSUME Both, EInv', NEW e \in Stored, DeleteEvent(e) PROVE BInv'
<1>1. /\ node' = [d \in Stored \ {e} |-> node[d]]
      /\ UNCHANGED <<spc, sread, ppc, pread, rest, res>>
  BY DEF DeleteEvent, sinkVars, passVars
<1>2. Stored' = Stored \ {e} /\ \A d \in Stored \ {e} : node'[d] = node[d]
  BY <1>1 DEF Stored
<1>3. Passed' \subseteq Passed
  BY <1>1, <1>2 DEF Passed, Behind
<1>4. (spc = "commit" => Keys(sread)') /\ (ppc = "project" => Keys(pread)')
  BY <1>1, <1>2 DEF Both, BInv, Keys
<1>5. QED BY <1>1, <1>3, <1>4, NoMoreBehind DEF Both, BInv, PassRuns, Result

LEMMA StepBoth == (overlapped \/ Both) /\ [BackfillNext]_backfillVars => (overlapped \/ Both)'
<1>1. SUFFICES ASSUME overlapped \/ Both, [BackfillNext]_backfillVars, ~overlapped' PROVE Both'
  OBVIOUS
<1>2. EInv'
  BY <1>1, StepHolds DEF Both
<1>3. CASE UNCHANGED backfillVars
  BY <1>1, <1>2, <1>3 DEF backfillVars, sinkVars, passVars, Both, BInv, Keys, Passed, Behind, Stored,
                          Result, PassRuns
<1>4. CASE BackfillNext
  <2>1. Both
    BY <1>1, <1>4 DEF BackfillNext, InsertEvents, ReadCounts, CommitCounts, CountsFail,
       StartBackfill, ReadBatch, ProjectBatch, CommitBatch, BatchFails, BackfillDone,
       CancelMaintenance, DeleteEvent, Crash
  <2>2. BInv'
    BY <1>1, <1>2, <1>4, <2>1, SinkBehind, StartBehind, ReadBehind, ProjectBehind, CommitBehind,
       EndBehind, DeleteBehind DEF BackfillNext
  <2>3. QED BY <1>2, <2>2 DEF Both
<1>5. QED BY <1>1, <1>3, <1>4

\* A pass that ran to its end has projected every stored event but as many as it
\* says it could not (BackfillResult.Failed), whatever is inserted or deleted
\* meanwhile, for any number of events and any batch size, as long as it never
\* ran while ingestion had records in hand.
THEOREM NothingLeftUntold ==
    BackfillSpec => []PassLeavesNothing
<1>1. overlapped \/ Both => PassLeavesNothing
  <2>1. SUFFICES ASSUME Both, ppc = "done" PROVE Cardinality(Behind) <= res.failed
    BY DEF PassLeavesNothing, Behind
  <2>2. rest = {} /\ DOMAIN pread = {} /\ Cardinality(Passed) <= res.failed
    BY <2>1 DEF Both, BInv
  <2>3. Passed = Behind
    BY <2>2 DEF Passed
  <2>4. QED BY <2>2, <2>3
<1>2. QED BY <1>1, InitBoth, StepBoth, PTL DEF BackfillSpec
=============================================================================
