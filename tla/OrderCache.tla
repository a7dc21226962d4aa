------------------------------ MODULE OrderCache ------------------------------
(***************************************************************************)
(* The two caches in front of the event store: the ordered ids of the last *)
(* filter (graphene.orderCache) and the dataset prepared for correlation   *)
(* (graphbuild.datasetCache), the write counter that invalidates both, the *)
(* queries that read through them and the writes that race with these.     *)
(*                                                                         *)
(* Abstractions:                                                           *)
(*  - what the store holds is the set of changes made to it; the order of  *)
(*    a filter is the set of changes its scan saw, of those it depends on; *)
(*  - a filter is a model value; one with a relation state reads relations *)
(*    after the nodes; windows and the requirements of a dataset belong to *)
(*    the value;                                                           *)
(*  - a page contains every event of the order, deleted ones included.     *)
(***************************************************************************)
EXTENDS Naturals, FiniteSets

CONSTANTS
    Writers,      \* goroutines that write to the store
    Readers,      \* goroutines that query it
    Filters,      \* filters
    Related,      \* filters with a RelationState
    Unlisted,     \* key of a cache that holds nothing
    MaxWrites,    \* bound: write calls
    MaxChanges    \* bound: changes to the store

ASSUME CacheAssumption ==
    /\ Related \subseteq Filters
    /\ Unlisted \notin Filters
    /\ MaxWrites \in Nat
    /\ MaxChanges \in Nat

Kinds == {"insert", "delete", "relation"}
NodeKinds == {"insert", "delete"}
Changes == [id : Nat, kind : Kinds]

VARIABLES
    applied,  \* changes committed to the store or its index
    announced, \* those of them whose write call bumped the version and returned
    mine,     \* those of a write call in progress, or NotWriting
    writes,   \* write calls so far
    version,  \* orderCache.version
    order,    \* orderCache.key, ids and valid
    ds,       \* datasetCache.key, version and ds
    dsLock,   \* the reader that holds datasetCache.mu, if any
    pc,       \* where each reader is
    viaDs,    \* it came through datasetCache.get
    filter,   \* its filter
    must,     \* changes announced when it began
    dsVer,    \* version it read in datasetCache.get
    ver,      \* version it read in orderedIDs
    seen      \* the order it found or computed

NotWriting == [on |-> FALSE, made |-> {}]
writeVars == <<applied, announced, mine, writes>>
cacheVars == <<version, order>>
dsVars == <<ds, dsLock>>
readVars == <<pc, viaDs, filter, must, dsVer, ver, seen>>
vars == <<writeVars, cacheVars, dsVars, readVars>>

NoOrder == [key |-> Unlisted, ids |-> {}, valid |-> FALSE]
NoDataset == [key |-> Unlisted, ids |-> {}, version |-> 0]

KindsOf(f) == IF f \in Related THEN Kinds ELSE NodeKinds
\* What a filter's order would show of a set of changes.
Show(C, f) == {c \in C : c.kind \in KindsOf(f)}

Init ==
    /\ applied = {}
    /\ announced = {}
    /\ mine = [w \in Writers |-> NotWriting]
    /\ writes = 0
    /\ version = 0
    /\ order = NoOrder
    /\ ds = NoDataset
    /\ dsLock = {}
    /\ pc = [r \in Readers |-> "idle"]
    /\ viaDs = [r \in Readers |-> FALSE]
    /\ filter = [r \in Readers |-> Unlisted]
    /\ must = [r \in Readers |-> {}]
    /\ dsVer = [r \in Readers |-> 0]
    /\ ver = [r \in Readers |-> 0]
    /\ seen = [r \in Readers |-> {}]

-----------------------------------------------------------------------------
(* Writes *)

BeginWrite(w) ==
    /\ ~mine[w].on
    /\ writes < MaxWrites
    /\ writes' = writes + 1
    /\ mine' = [mine EXCEPT ![w] = [on |-> TRUE, made |-> {}]]
    /\ UNCHANGED <<applied, announced, cacheVars, dsVars, readVars>>

\* A commit, a deletion or an index registration: the store changes at once,
\* while the call is still running.
Change(w, k) ==
    /\ mine[w].on
    /\ Cardinality(applied) < MaxChanges
    /\ LET c == [id |-> Cardinality(applied), kind |-> k]
       IN  /\ applied' = applied \cup {c}
           /\ mine' = [mine EXCEPT ![w].made = @ \cup {c}]
    /\ UNCHANGED <<announced, writes, cacheVars, dsVars, readVars>>

\* The call returns.
Returns(w) ==
    /\ mine[w].on
    /\ mine' = [mine EXCEPT ![w] = NotWriting]
    /\ UNCHANGED <<applied, writes, dsVars, readVars>>

\* Faulty variant: only a write that changed nodes bumps the version.
BumpVersionForEvents(w) ==
    /\ Returns(w)
    /\ announced' = announced \cup mine[w].made
    /\ IF \A c \in mine[w].made : c.kind = "relation"
       THEN UNCHANGED cacheVars
       ELSE version' = version + 1 /\ order' = [order EXCEPT !.ids = {}, !.valid = FALSE]

\* bumpVersion, deferred: before any return, with an error or without.
BumpVersion(w) ==
    /\ Returns(w)
    /\ announced' = announced \cup mine[w].made
    /\ version' = version + 1
    /\ order' = [order EXCEPT !.ids = {}, !.valid = FALSE]

\* RepairRelationIndex after an error, and RebuildIndexes, leave the version
\* alone: no query is promised what they changed.
ReturnSilently(w) ==
    /\ \A c \in mine[w].made : c.kind = "relation"
    /\ Returns(w)
    /\ UNCHANGED <<announced, cacheVars>>

Write(w) ==
    \/ BeginWrite(w) \/ BumpVersion(w) \/ ReturnSilently(w)
    \/ \E k \in Kinds : Change(w, k)

-----------------------------------------------------------------------------
(* QueryEvents *)

QueryEvents(r, f) ==
    /\ pc[r] = "idle"
    /\ pc' = [pc EXCEPT ![r] = "lookup"]
    /\ filter' = [filter EXCEPT ![r] = f]
    /\ must' = [must EXCEPT ![r] = announced]
    /\ UNCHANGED <<writeVars, cacheVars, dsVars, viaDs, dsVer, ver, seen>>

LookupOrder(r) ==
    /\ pc[r] = "lookup"
    /\ IF order.valid /\ order.key = filter[r]
       THEN /\ seen' = [seen EXCEPT ![r] = order.ids]
            /\ pc' = [pc EXCEPT ![r] = "hydrate"]
       ELSE pc' = [pc EXCEPT ![r] = "version"] /\ UNCHANGED seen
    /\ UNCHANGED <<writeVars, cacheVars, dsVars, viaDs, filter, must, dsVer, ver>>

CurrentVersion(r) ==
    /\ pc[r] = "version"
    /\ ver' = [ver EXCEPT ![r] = version]
    /\ pc' = [pc EXCEPT ![r] = "nodes"]
    /\ UNCHANGED <<writeVars, cacheVars, dsVars, viaDs, filter, must, dsVer, seen>>

\* matchingRows queries the nodes first.
QueryNodes(r) ==
    /\ pc[r] = "nodes"
    /\ seen' = [seen EXCEPT ![r] = {c \in applied : c.kind \in NodeKinds}]
    /\ pc' = [pc EXCEPT ![r] = IF filter[r] \in Related THEN "relations" ELSE "store"]
    /\ UNCHANGED <<writeVars, cacheVars, dsVars, viaDs, filter, must, dsVer, ver>>

RelatedEventIDs(r) ==
    /\ pc[r] = "relations"
    /\ seen' = [seen EXCEPT ![r] = @ \cup {c \in applied : c.kind = "relation"}]
    /\ pc' = [pc EXCEPT ![r] = "store"]
    /\ UNCHANGED <<writeVars, cacheVars, dsVars, viaDs, filter, must, dsVer, ver>>

\* Faulty variant: the version is not compared.
StoreAnyOrder(r) ==
    /\ pc[r] = "store"
    /\ order' = [key |-> filter[r], ids |-> seen[r], valid |-> TRUE]
    /\ pc' = [pc EXCEPT ![r] = "hydrate"]
    /\ UNCHANGED <<writeVars, version, dsVars, viaDs, filter, must, dsVer, ver, seen>>

StoreOrder(r) ==
    /\ pc[r] = "store"
    /\ order' = IF version = ver[r]
                THEN [key |-> filter[r], ids |-> seen[r], valid |-> TRUE]
                ELSE order
    /\ pc' = [pc EXCEPT ![r] = "hydrate"]
    /\ UNCHANGED <<writeVars, version, dsVars, viaDs, filter, must, dsVer, ver, seen>>

\* An id of the order that the store no longer has fails the query.
Hydratable(r) == {c \in applied : c.kind = "delete"} \subseteq seen[r]

HydrateIDs(r) ==
    /\ pc[r] = "hydrate"
    /\ pc' = [pc EXCEPT ![r] = IF ~Hydratable(r) THEN "failed"
                               ELSE IF viaDs[r] THEN "keep" ELSE "ok"]
    /\ UNCHANGED <<writeVars, cacheVars, dsVars, viaDs, filter, must, dsVer, ver, seen>>

-----------------------------------------------------------------------------
(* datasetCache.get, invalidate *)

\* A dry run or a build asks for its dataset; the version is read first.
GetDataset(r, f) ==
    /\ pc[r] = "idle"
    /\ pc' = [pc EXCEPT ![r] = "lock"]
    /\ viaDs' = [viaDs EXCEPT ![r] = TRUE]
    /\ filter' = [filter EXCEPT ![r] = f]
    /\ must' = [must EXCEPT ![r] = announced]
    /\ dsVer' = [dsVer EXCEPT ![r] = version]
    /\ UNCHANGED <<writeVars, cacheVars, dsVars, ver, seen>>

\* Served, or queried for with the mutex held.
LockDataset(r) ==
    /\ pc[r] = "lock"
    /\ dsLock = {}
    /\ IF ds.key = filter[r] /\ ds.version = dsVer[r]
       THEN /\ seen' = [seen EXCEPT ![r] = ds.ids]
            /\ pc' = [pc EXCEPT ![r] = "ok"]
            /\ UNCHANGED dsLock
       ELSE /\ dsLock' = {r}
            /\ pc' = [pc EXCEPT ![r] = "lookup"]
            /\ UNCHANGED seen
    /\ UNCHANGED <<writeVars, cacheVars, ds, viaDs, filter, must, dsVer, ver>>

\* Held for the next caller if the version has not moved.
KeepDataset(r) ==
    /\ pc[r] = "keep"
    /\ ds' = IF version = dsVer[r]
             THEN [key |-> filter[r], ids |-> seen[r], version |-> version]
             ELSE ds
    /\ dsLock' = {}
    /\ pc' = [pc EXCEPT ![r] = "ok"]
    /\ UNCHANGED <<writeVars, cacheVars, viaDs, filter, must, dsVer, ver, seen>>

\* A build drops the dataset when it ends.
Invalidate ==
    /\ dsLock = {}
    /\ ds # NoDataset
    /\ ds' = NoDataset
    /\ UNCHANGED <<writeVars, cacheVars, dsLock, readVars>>

\* The locals of the call go out of scope.
Forget(r) ==
    /\ pc' = [pc EXCEPT ![r] = "idle"]
    /\ viaDs' = [viaDs EXCEPT ![r] = FALSE]
    /\ filter' = [filter EXCEPT ![r] = Unlisted]
    /\ must' = [must EXCEPT ![r] = {}]
    /\ dsVer' = [dsVer EXCEPT ![r] = 0]
    /\ ver' = [ver EXCEPT ![r] = 0]
    /\ seen' = [seen EXCEPT ![r] = {}]

\* Faulty variant: a failed query returns with the mutex held.
ReturnLocked(r) ==
    /\ pc[r] \in {"ok", "failed"}
    /\ Forget(r)
    /\ UNCHANGED <<writeVars, cacheVars, dsVars>>

\* The caller has its page or its error; the mutex is free.
Return(r) ==
    /\ pc[r] \in {"ok", "failed"}
    /\ dsLock' = dsLock \ {r}
    /\ Forget(r)
    /\ UNCHANGED <<writeVars, cacheVars, ds>>

Proceed(r) ==
    \/ LookupOrder(r) \/ CurrentVersion(r) \/ QueryNodes(r) \/ RelatedEventIDs(r)
    \/ StoreOrder(r) \/ HydrateIDs(r) \/ LockDataset(r) \/ KeepDataset(r) \/ Return(r)

Read(r) ==
    \/ \E f \in Filters : QueryEvents(r, f) \/ GetDataset(r, f)
    \/ Proceed(r)

Next ==
    \/ \E w \in Writers : Write(w)
    \/ \E r \in Readers : Read(r)
    \/ Invalidate

Spec == Init /\ [][Next]_vars

\* A call that was made runs on; a mutex released and taken again and again is
\* handed to every waiter in turn (Go's mutexes do not starve).
FairSpec ==
    /\ Spec
    /\ \A r \in Readers : WF_vars(Proceed(r)) /\ SF_vars(LockDataset(r))

-----------------------------------------------------------------------------
(* Properties *)

Orders == SUBSET Changes

\* Every variable has the shape its Go counterpart has.
TypeOK ==
    /\ applied \subseteq Changes
    /\ announced \subseteq applied
    /\ mine \in [Writers -> [on : BOOLEAN, made : SUBSET applied]]
    /\ writes \in Nat
    /\ version \in Nat
    /\ order \in [key : Filters \cup {Unlisted}, ids : Orders, valid : BOOLEAN]
    /\ order.valid => order.key \in Filters
    /\ ds \in [key : Filters \cup {Unlisted}, ids : Orders, version : Nat]
    /\ dsLock \subseteq Readers
    /\ pc \in [Readers -> {"idle", "lookup", "version", "nodes", "relations", "store",
                           "hydrate", "lock", "keep", "ok", "failed"}]
    /\ viaDs \in [Readers -> BOOLEAN]
    /\ filter \in [Readers -> Filters \cup {Unlisted}]
    /\ must \in [Readers -> Orders]
    /\ dsVer \in [Readers -> Nat]
    /\ ver \in [Readers -> Nat]
    /\ seen \in [Readers -> Orders]

\* A query shows every write that had returned when it began, and a dataset
\* holds them, whatever the caches served and whatever was written meanwhile;
\* a repair that failed and a rebuild announce nothing and are excepted.
ReturnedWritesSeen ==
    \A r \in Readers : pc[r] = "ok" => Show(must[r], filter[r]) \subseteq seen[r]

\* Once every change is announced both caches are exact.
QuietCachesAreExact ==
    applied = announced =>
        /\ order.valid => order.ids = Show(applied, order.key)
        /\ ds.key # Unlisted /\ ds.version = version => ds.ids = Show(applied, ds.key)

\* A call for a page or a dataset returns.
QueryReturns == \A r \in Readers : pc[r] # "idle" ~> pc[r] = "idle"
=============================================================================
