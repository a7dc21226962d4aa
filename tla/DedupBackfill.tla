---------------------------- MODULE DedupBackfill ----------------------------
(***************************************************************************)
(* The two read-modify-write passes over stored events: the ingestion sink *)
(* adding occurrence counts (IncrementDedupCounts) and the maintenance     *)
(* pass filling in correlation projections (BackfillCorrelationKeys). Each *)
(* reads whole records, changes its own part of them and writes the whole  *)
(* records back in one transaction; nothing orders the two.                *)
(*                                                                         *)
(* Abstractions: a record is its occurrence count and its projection; the  *)
(* per-source breakdown is its sum; a batch of duplicates counts each of   *)
(* its events once; a payload may be readable now and not later.           *)
(***************************************************************************)
EXTENDS Naturals, FiniteSets

CONSTANTS
    Events,        \* event ids
    BatchSize,     \* consts.EventBatchSize of the pass
    MaxCount,      \* bound: occurrences of one event
    MaxFaults,     \* bound: crashes, failed calls, unreadable payloads
    MaxDeletes     \* bound: events deleted by the user

ASSUME BackfillAssumption ==
    /\ IsFiniteSet(Events)
    /\ BatchSize \in Nat \ {0}
    /\ {MaxCount, MaxFaults, MaxDeletes} \subseteq Nat

VARIABLES
    node,      \* durable: the stored events
    credited,  \* occurrences the sink was told are written, of each stored event
    spc, sread,    \* the sink: where it is, the records it read
    ppc, pread,    \* the pass: where it is, the records it read
    rest,      \* events the pass has not come to
    res,       \* its BackfillResult
    overlapped, \* history: the pass ran while the sink had records in hand
    deletes, faults

sinkVars == <<spc, sread>>
passVars == <<ppc, pread, rest, res>>
backfillVars == <<node, credited, sinkVars, passVars, overlapped, deletes, faults>>

-----------------------------------------------------------------------------
(* Records *)

\* The projection of an event: of an earlier recipe, this one's, or this one's
\* stamp on an event whose fields were never read.
Projections == {"stale", "real", "empty"}
Record == [count : Nat, keys : Projections]

Stored == DOMAIN node
HasCurrentCorrelationKeys(r) == r.keys # "stale"

\* GetNodes: missing ids are left out.
GetNodes(S) == [e \in S \cap Stored |-> node[e]]

\* A transaction of updates: all or, when a node has gone, nothing.
Updated(changed) ==
    [e \in Stored |-> IF e \in DOMAIN changed THEN changed[e] ELSE node[e]]
Committable(changed) == DOMAIN changed \subseteq Stored

NoRecords == [e \in {} |-> [count |-> 0, keys |-> "stale"]]
NoResult == [examined |-> 0, projected |-> 0, already |-> 0, failed |-> 0]

Fault == faults < MaxFaults /\ faults' = faults + 1

\* Some events are there already, ingested by an earlier build.
BackfillInit ==
    /\ \E S \in SUBSET Events : node = [e \in S |-> [count |-> 1, keys |-> "stale"]]
    /\ credited = [e \in Events |-> IF e \in Stored THEN 1 ELSE 0]
    /\ spc = "idle"
    /\ sread = NoRecords
    /\ ppc = "idle"
    /\ pread = NoRecords
    /\ rest = {}
    /\ res = NoResult
    /\ overlapped = FALSE
    /\ deletes = 0
    /\ faults = 0

-----------------------------------------------------------------------------
(* The ingestion sink *)

PassRuns == ppc \in {"batch", "project", "commit"}

\* A new event, projected when it was normalized; its id is fresh.
InsertEvents(e) ==
    /\ spc = "idle"
    /\ e \in Events \ (Stored \cup rest \cup DOMAIN pread)
    /\ node' = [d \in Stored \cup {e} |->
                    IF d = e THEN [count |-> 1, keys |-> "real"] ELSE node[d]]
    /\ credited' = [credited EXCEPT ![e] = 1]
    /\ UNCHANGED <<sinkVars, passVars, overlapped, deletes, faults>>

\* IncrementDedupCounts reads the records of the batch.
ReadCounts(S) ==
    /\ spc = "idle"
    /\ S # {} /\ S \subseteq Stored
    /\ \A e \in S : credited[e] < MaxCount
    /\ sread' = GetNodes(S)
    /\ spc' = "commit"
    /\ overlapped' = (overlapped \/ PassRuns)
    /\ UNCHANGED <<node, credited, passVars, deletes, faults>>

\* Faulty variant: the count is set, not added to.
CommitCountsAsRead ==
    /\ spc = "commit"
    /\ Committable(sread)
    /\ node' = Updated([e \in DOMAIN sread |-> [sread[e] EXCEPT !.count = 1]])
    /\ credited' = [e \in Events |-> credited[e] + (IF e \in DOMAIN sread THEN 1 ELSE 0)]
    /\ spc' = "idle"
    /\ sread' = NoRecords
    /\ UNCHANGED <<passVars, overlapped, deletes, faults>>

\* Then it writes them back, one occurrence more each.
CommitCounts ==
    /\ spc = "commit"
    /\ Committable(sread)
    /\ node' = Updated([e \in DOMAIN sread |-> [sread[e] EXCEPT !.count = @ + 1]])
    /\ credited' = [e \in Events |-> credited[e] + (IF e \in DOMAIN sread THEN 1 ELSE 0)]
    /\ spc' = "idle"
    /\ sread' = NoRecords
    /\ UNCHANGED <<passVars, overlapped, deletes, faults>>

\* The commit is refused, which ends the run.
CountsFail ==
    /\ spc = "commit"
    /\ IF Committable(sread) THEN Fault ELSE UNCHANGED faults
    /\ spc' = "idle"
    /\ sread' = NoRecords
    /\ UNCHANGED <<node, credited, passVars, overlapped, deletes>>

-----------------------------------------------------------------------------
(* The maintenance pass *)

\* One pass at a time (MaintenanceAPI.running); it lists the events first.
StartBackfill ==
    /\ ~PassRuns
    /\ ppc' = "batch"
    /\ rest' = Stored
    /\ res' = NoResult
    /\ overlapped' = (overlapped \/ spc # "idle")
    /\ UNCHANGED <<node, credited, sinkVars, pread, deletes, faults>>

\* Faulty variant: a last batch that is not full is left out.
ReadBatchWhole(S) ==
    /\ ppc = "batch"
    /\ S # {} /\ S \subseteq rest
    /\ Cardinality(S) = BatchSize \/ (S = rest /\ Cardinality(S) < BatchSize)
    /\ pread' = IF Cardinality(S) = BatchSize THEN GetNodes(S) ELSE NoRecords
    /\ rest' = rest \ S
    /\ ppc' = "project"
    /\ UNCHANGED <<node, credited, sinkVars, res, overlapped, deletes, faults>>

\* backfillBatch reads the next batch.
ReadBatch(S) ==
    /\ ppc = "batch"
    /\ S # {} /\ S \subseteq rest
    /\ Cardinality(S) = BatchSize \/ (S = rest /\ Cardinality(S) < BatchSize)
    /\ pread' = GetNodes(S)
    /\ rest' = rest \ S
    /\ ppc' = "project"
    /\ UNCHANGED <<node, credited, sinkVars, res, overlapped, deletes, faults>>

\* What the pass has to project in its batch.
Pending == {e \in DOMAIN pread : ~HasCurrentCorrelationKeys(pread[e])}

Count(read, failed) ==
    [examined |-> res.examined + Cardinality(DOMAIN pread),
     projected |-> res.projected + Cardinality(read),
     already |-> res.already + Cardinality(DOMAIN pread \ Pending),
     failed |-> res.failed + Cardinality(failed)]

\* It projects what it read; an event whose payload cannot be read is left
\* alone and counted as failed.
ProjectBatch(unreadable) ==
    /\ ppc = "project"
    /\ unreadable \subseteq Pending
    /\ IF unreadable = {} THEN UNCHANGED faults ELSE Fault
    /\ pread' = [e \in Pending \ unreadable |-> [pread[e] EXCEPT !.keys = "real"]]
    /\ res' = Count(Pending \ unreadable, unreadable)
    /\ ppc' = "commit"
    /\ UNCHANGED <<node, credited, sinkVars, rest, overlapped, deletes>>

\* And writes the batch back in one transaction, if there is anything to write.
CommitBatch ==
    /\ ppc = "commit"
    /\ Committable(pread)
    /\ node' = Updated(pread)
    /\ pread' = NoRecords
    /\ ppc' = "batch"
    /\ UNCHANGED <<credited, sinkVars, rest, res, overlapped, deletes, faults>>

\* The commit is refused: nothing of the batch was projected, the pass ends.
BatchFails ==
    /\ ppc = "commit"
    /\ pread # NoRecords
    /\ IF Committable(pread) THEN Fault ELSE UNCHANGED faults
    /\ res' = [res EXCEPT !.projected = @ - Cardinality(DOMAIN pread)]
    /\ pread' = NoRecords
    /\ ppc' = "stopped"
    /\ UNCHANGED <<node, credited, sinkVars, rest, overlapped, deletes>>

\* All batches are done.
BackfillDone ==
    /\ ppc = "batch"
    /\ rest = {}
    /\ ppc' = "done"
    /\ UNCHANGED <<node, credited, sinkVars, pread, rest, res, overlapped, deletes, faults>>

\* Cancelled between two batches.
CancelMaintenance ==
    /\ ppc = "batch"
    /\ rest # {}
    /\ ppc' = "stopped"
    /\ UNCHANGED <<node, credited, sinkVars, pread, rest, res, overlapped, deletes, faults>>

-----------------------------------------------------------------------------

\* GraphAPI.DeleteEvent, at any time.
DeleteEvent(e) ==
    /\ deletes < MaxDeletes
    /\ deletes' = deletes + 1
    /\ node' = [d \in Stored \ {e} |-> node[d]]
    /\ credited' = [credited EXCEPT ![e] = 0]
    /\ UNCHANGED <<sinkVars, passVars, overlapped, faults>>

\* The process dies; what was committed stays.
Crash ==
    /\ Fault
    /\ spc' = "idle"
    /\ sread' = NoRecords
    /\ ppc' = "idle"
    /\ pread' = NoRecords
    /\ rest' = {}
    /\ res' = NoResult
    /\ UNCHANGED <<node, credited, overlapped, deletes>>

BackfillNext ==
    \/ \E e \in Events : InsertEvents(e)
    \/ \E S \in SUBSET Stored : ReadCounts(S)
    \/ CommitCounts \/ CountsFail
    \/ StartBackfill
    \/ \E S \in SUBSET rest : ReadBatch(S)
    \/ \E unreadable \in SUBSET DOMAIN pread : ProjectBatch(unreadable)
    \/ CommitBatch \/ BatchFails \/ BackfillDone \/ CancelMaintenance
    \/ \E e \in Stored : DeleteEvent(e)
    \/ Crash

BackfillSpec == BackfillInit /\ [][BackfillNext]_backfillVars

-----------------------------------------------------------------------------
(* Properties *)

Records(f) == DOMAIN f \subseteq Events /\ f \in [DOMAIN f -> Record]

\* Every variable has the shape its Go counterpart has.
BackfillTypeOK ==
    /\ Records(node)
    /\ credited \in [Events -> Nat]
    /\ spc \in {"idle", "commit"}
    /\ Records(sread)
    /\ ppc \in {"idle", "batch", "project", "commit", "done", "stopped"}
    /\ Records(pread)
    /\ rest \subseteq Events
    /\ overlapped \in BOOLEAN
    /\ res \in [examined : Nat, projected : Nat, already : Nat, failed : Nat]
    /\ deletes \in Nat
    /\ faults \in Nat

\* The occurrence count of a stored event is the number of occurrences the
\* store acknowledged (evtx.Options.Idempotent).
CountsAlwaysExact == \A e \in Stored : node[e].count = credited[e]

\* So it is as long as the pass has never run while the sink had records in
\* hand, whatever crashed, was refused or was deleted.
CountsExact == ~overlapped => CountsAlwaysExact

\* A pass that ran to its end left only those events stale whose payload it
\* could not read, and says how many (BackfillResult.Failed), unless the sink
\* held records meanwhile.
PassLeavesNothing ==
    ~overlapped /\ ppc = "done" =>
        Cardinality({e \in Stored : ~HasCurrentCorrelationKeys(node[e])}) <= res.failed

=============================================================================
