----------------------------- MODULE LiveCapture -----------------------------
(***************************************************************************)
(* Continuous live capture: the channel readers, the single-goroutine sink *)
(* (runSink), the event store it writes to and the durable per-channel     *)
(* bookmarks, with crashes, failed writes, pause, cancel and reset at      *)
(* every step where the program can meet them.                             *)
(*                                                                         *)
(* Abstractions:                                                           *)
(*  - a record is its content hash, or Unreadable when it cannot be        *)
(*    rendered or normalized; its record id is its position in the log;    *)
(*  - the identity of an event (hash_normalized) is the content, plus the  *)
(*    run's source identifier (the joined channel list) when it is dated;  *)
(*  - an event node is its identity and its occurrence count; node ids are *)
(*    positions in nodes;                                                  *)
(*  - progress counters, error reports and payload bytes are left out;     *)
(*  - a batch of records none of which normalizes changes nothing but      *)
(*    error reports, so a reader's step always ends at a readable record.  *)
(***************************************************************************)
EXTENDS Naturals, Sequences, FiniteSets, Bags

CONSTANTS
    Channels,     \* event-log channels
    Hashes,       \* contents of records
    Dated,        \* contents that carry a timestamp
    Unreadable,   \* a record that fails to render or to normalize
    IdemChoices,  \* values of IngestRequest.Idempotent a run may be started with
    BatchSize,    \* Options.BatchSize
    QueueDepth,   \* consts.ChunkQueueDepth
    MaxRecords,   \* bound: records in all channels together
    MaxFaults,    \* bound: crashes and failed store calls
    MaxResets     \* bound: calls of ResetCapturePositions

ASSUME ConstantsAssumption ==
    /\ Dated \subseteq Hashes
    /\ Unreadable \notin Hashes
    /\ IdemChoices \subseteq BOOLEAN
    /\ BatchSize \in Nat \ {0}
    /\ QueueDepth \in Nat \ {0}
    /\ MaxRecords \in Nat
    /\ MaxFaults \in Nat
    /\ MaxResets \in Nat

VARIABLES
    log,        \* the operating system's channels: records so far
    nodes,      \* durable: event nodes of the graph store
    indexed,    \* durable: node ids whose property entries are registered
    diskPos,    \* durable: the bookmark document
    memPos,     \* capture.Store.pos
    run,        \* channels of the running capture, {} when none runs
    idem,       \* Options.Idempotent of the run
    open,       \* resultCh is open: some reader has not returned
    sent,       \* each reader's lastRecordID
    queue,      \* resultCh: batches sent and not yet received
    paused,     \* Gate.paused
    cancelled,  \* the run's context is cancelled
    pc,         \* where runSink is
    mode,       \* why it is writing: "run", "pause" or "end"
    cur,        \* the batch being processed
    handled,    \* last record of each channel taken from a batch
    pending,    \* events to insert
    byHash,     \* keys of pendingByHash
    dbInc,      \* bag of node ids: occurrences to add
    staged,     \* position to commit per channel, 0 when none
    ix,         \* nodes of the batch in flight already indexed
    faults,     \* crashes and failures so far
    resets      \* bookmark resets so far

sinkVars == <<pc, mode, cur, handled, pending, byHash, dbInc, staged, ix>>
runVars == <<run, idem, open, sent, queue, paused, cancelled>>
posVars == <<memPos, diskPos>>
boundVars == <<faults, resets>>
storeVars == <<nodes, indexed>>
vars == <<log, storeVars, posVars, runVars, sinkVars, boundVars>>

-----------------------------------------------------------------------------

Records == Hashes \cup {Unreadable}
Identities == Hashes \X SUBSET Channels
Events == [id : Identities, n : Nat]
Batches == [chan : Channels, hi : Nat]
NoBatch == [hi |-> 0]
Zero == [c \in Channels |-> 0]

\* hash_normalized of a record as the sink completes it: a dated event is
\* identified by its source as well, an undated one never is.
HashNormalized(h) == IF h \in Dated THEN <<h, run>> ELSE <<h, {}>>

\* FindEventIDByHash resolves through the property index only.
IndexedWith(id) == {k \in indexed : nodes[k].id = id}

Least(S) == CHOOSE x \in S : \A y \in S : x <= y

\* Faulty variant: the increments still in memory are forgotten.
NothingUnwrittenButIncrements == pending = <<>>

\* commitPositions refuses while either buffer holds unwritten work.
NothingUnwritten == pending = <<>> /\ dbInc = EmptyBag

\* The state of a sink and its readers when no run is active.
NoRun ==
    /\ run' = {}
    /\ open' = FALSE
    /\ queue' = {}
    /\ paused' = FALSE
    /\ cancelled' = FALSE
    /\ idem' = TRUE
    /\ pc' = "idle"
    /\ mode' = "run"
    /\ cur' = NoBatch
    /\ sent' = Zero
    /\ handled' = Zero
    /\ pending' = <<>>
    /\ byHash' = {}
    /\ dbInc' = EmptyBag
    /\ staged' = Zero
    /\ ix' = 0

Init ==
    /\ log = [c \in Channels |-> <<>>]
    /\ nodes = <<>>
    /\ indexed = {}
    /\ diskPos = Zero
    /\ memPos = Zero
    /\ run = {}
    /\ idem = TRUE
    /\ open = FALSE
    /\ sent = Zero
    /\ queue = {}
    /\ paused = FALSE
    /\ cancelled = FALSE
    /\ pc = "idle"
    /\ mode = "run"
    /\ cur = NoBatch
    /\ handled = Zero
    /\ pending = <<>>
    /\ byHash = {}
    /\ dbInc = EmptyBag
    /\ staged = Zero
    /\ ix = 0
    /\ faults = 0
    /\ resets = 0

-----------------------------------------------------------------------------
(* The environment and the API *)

\* Records in all channels together.
RecordCount == Cardinality(UNION {{c} \X DOMAIN log[c] : c \in Channels})

\* Windows appends a record to a channel.
Record(c, r) ==
    /\ RecordCount < MaxRecords
    /\ log' = [log EXCEPT ![c] = Append(@, r)]
    /\ UNCHANGED <<storeVars, posVars, runVars, sinkVars, boundVars>>

\* ingestLive: one reader per channel, each resuming after its bookmark.
StartLive(C, i) ==
    /\ pc = "idle"
    /\ run' = C
    /\ idem' = i
    /\ open' = TRUE
    /\ sent' = memPos
    /\ handled' = memPos
    /\ pc' = "loop"
    /\ UNCHANGED <<log, storeVars, posVars, queue, paused, cancelled, mode, cur,
                   pending, byHash, dbInc, staged, ix, boundVars>>

\* A reader pages records past lastRecordID and sends them as one batch;
\* a drain in progress is not interrupted by a pause.
ReadBatch(c, hi) ==
    /\ open
    /\ c \in run
    /\ ~cancelled
    /\ hi > sent[c]
    /\ hi <= Len(log[c])
    /\ log[c][hi] # Unreadable
    /\ Cardinality(queue) < QueueDepth
    /\ queue' = queue \cup {[chan |-> c, hi |-> hi]}
    /\ sent' = [sent EXCEPT ![c] = hi]
    /\ UNCHANGED <<log, storeVars, posVars, run, idem, open, paused, cancelled,
                   sinkVars, boundVars>>

\* The last reader has returned (drained once, query error or cancelled)
\* and resultCh is closed. A single reader returning earlier is no more than
\* a reader that sends nothing further.
CloseResults ==
    /\ open
    /\ open' = FALSE
    /\ UNCHANGED <<log, storeVars, posVars, run, idem, sent, queue, paused,
                   cancelled, sinkVars, boundVars>>

Pause ==
    /\ pc # "idle"
    /\ ~paused
    /\ paused' = TRUE
    /\ UNCHANGED <<log, storeVars, posVars, run, idem, open, sent, queue,
                   cancelled, sinkVars, boundVars>>

Resume ==
    /\ pc # "idle"
    /\ paused
    /\ paused' = FALSE
    /\ UNCHANGED <<log, storeVars, posVars, run, idem, open, sent, queue,
                   cancelled, sinkVars, boundVars>>

\* CancelIngestion: open the gate, then cancel the context.
Cancel ==
    /\ pc # "idle"
    /\ ~cancelled
    /\ cancelled' = TRUE
    /\ paused' = FALSE
    /\ UNCHANGED <<log, storeVars, posVars, run, idem, open, sent, queue,
                   sinkVars, boundVars>>

\* capture.Store.Reset of one channel or of all: memory first, then the
\* document, whose write may fail.
Reset(C) ==
    /\ resets < MaxResets
    /\ memPos' = [c \in Channels |-> IF c \in C THEN 0 ELSE memPos[c]]
    /\ diskPos' \in {memPos', diskPos}
    /\ resets' = resets + 1
    /\ UNCHANGED <<log, storeVars, runVars, sinkVars, faults>>

\* The process dies and is started again; capture.Open reads the document
\* back, and takes a damaged one for "no positions".
Crash ==
    /\ faults < MaxFaults
    /\ faults' = faults + 1
    /\ diskPos' \in {diskPos, Zero}
    /\ memPos' = diskPos'
    /\ NoRun
    /\ UNCHANGED <<log, storeVars, resets>>

-----------------------------------------------------------------------------
(* runSink: the loop *)

\* The pause boundary at the top of the loop.
LoopTop ==
    /\ pc = "loop"
    /\ IF paused THEN pc' = "insert" /\ mode' = "pause"
                 ELSE pc' = "select" /\ mode' = mode
    /\ UNCHANGED <<log, storeVars, posVars, runVars, boundVars, cur, handled,
                   pending, byHash, dbInc, staged, ix>>

\* Leaving the loop: ctx.Done, or resultCh closed and empty.
LeaveLoop ==
    /\ pc = "select"
    /\ cancelled \/ (~open /\ queue = {})
    /\ pc' = "insert"
    /\ mode' = "end"
    /\ UNCHANGED <<log, storeVars, posVars, runVars, boundVars, cur, handled,
                   pending, byHash, dbInc, staged, ix>>

\* Faulty variant: a sink waiting for a batch does not hear of a pause.
WakeForPauseMissing == pc = "select" /\ FALSE /\ UNCHANGED vars

\* Gate.Pausing wakes a sink that waits for the next batch.
WakeForPause ==
    /\ pc = "select"
    /\ paused
    /\ pc' = "loop"
    /\ UNCHANGED <<log, storeVars, posVars, runVars, boundVars, mode, cur, handled,
                   pending, byHash, dbInc, staged, ix>>

\* The oldest batch of some channel is received.
ReceiveBatch(b) ==
    /\ pc = "select"
    /\ b \in queue
    /\ \A o \in queue : o.chan = b.chan => b.hi <= o.hi
    /\ queue' = queue \ {b}
    /\ cur' = b
    /\ mode' = "run"
    /\ pc' = "chunk"
    /\ UNCHANGED <<log, storeVars, posVars, run, idem, open, sent, paused,
                   cancelled, boundVars, handled, pending, byHash, dbInc,
                   staged, ix>>

\* Faulty variant: a paused sink waits for the resume only.
WaitOverResumeOnly ==
    /\ pc = "wait"
    /\ ~paused
    /\ IF cancelled THEN pc' = "insert" /\ mode' = "end"
                    ELSE pc' = "select" /\ mode' = "run"
    /\ UNCHANGED <<log, storeVars, posVars, runVars, boundVars, cur, handled,
                   pending, byHash, dbInc, staged, ix>>

\* Gate.Wait at the pause boundary returns.
WaitOver ==
    /\ pc = "wait"
    /\ ~paused \/ cancelled
    /\ IF cancelled THEN pc' = "insert" /\ mode' = "end"
                    ELSE pc' = "select" /\ mode' = "run"
    /\ UNCHANGED <<log, storeVars, posVars, runVars, boundVars, cur, handled,
                   pending, byHash, dbInc, staged, ix>>

-----------------------------------------------------------------------------
(* runSink: the events of one batch *)

NextRecord == log[cur.chan][handled[cur.chan] + 1]
InBatch == pc = "chunk" /\ handled[cur.chan] < cur.hi
TakeRecord ==
    /\ handled' = [handled EXCEPT ![cur.chan] = @ + 1]
    /\ UNCHANGED <<log, storeVars, posVars, runVars, boundVars, mode, cur, staged,
                   ix>>

\* A record that did not normalize is reported and left out of the batch.
SkipRecord ==
    /\ InBatch
    /\ NextRecord = Unreadable
    /\ TakeRecord
    /\ UNCHANGED <<pc, pending, byHash, dbInc>>

\* Duplicate of an event of the unflushed batch: count it in memory.
DuplicateInBatch ==
    /\ InBatch
    /\ NextRecord # Unreadable
    /\ idem
    /\ HashNormalized(NextRecord) \in byHash
    /\ pending' = [k \in DOMAIN pending |->
                     IF pending[k].id = HashNormalized(NextRecord)
                     THEN [pending[k] EXCEPT !.n = @ + 1]
                     ELSE pending[k]]
    /\ TakeRecord
    /\ UNCHANGED <<pc, byHash, dbInc>>

\* Duplicate of a persisted event: defer an increment, bounded by BatchSize.
DuplicateInStore ==
    /\ InBatch
    /\ NextRecord # Unreadable
    /\ idem
    /\ HashNormalized(NextRecord) \notin byHash
    /\ IndexedWith(HashNormalized(NextRecord)) # {}
    /\ dbInc' = dbInc (+) SetToBag({Least(IndexedWith(HashNormalized(NextRecord)))})
    /\ pc' = IF Cardinality(DOMAIN dbInc') >= BatchSize THEN "inc" ELSE "chunk"
    /\ TakeRecord
    /\ UNCHANGED <<pending, byHash>>

\* Faulty variant: the batch's hash index is not kept.
NewEventUnhashed ==
    /\ InBatch
    /\ NextRecord # Unreadable
    /\ idem => IndexedWith(HashNormalized(NextRecord)) = {}
    /\ pending' = Append(pending, [id |-> HashNormalized(NextRecord), n |-> 1])
    /\ pc' = IF Len(pending') >= BatchSize THEN "insert" ELSE "chunk"
    /\ TakeRecord
    /\ UNCHANGED <<byHash, dbInc>>

\* First sighting: the event becomes a canonical node of the batch.
NewEvent ==
    /\ InBatch
    /\ NextRecord # Unreadable
    /\ idem => /\ HashNormalized(NextRecord) \notin byHash
               /\ IndexedWith(HashNormalized(NextRecord)) = {}
    /\ pending' = Append(pending, [id |-> HashNormalized(NextRecord), n |-> 1])
    /\ byHash' = IF idem THEN byHash \cup {HashNormalized(NextRecord)} ELSE byHash
    /\ pc' = IF Len(pending') >= BatchSize THEN "insert" ELSE "chunk"
    /\ TakeRecord
    /\ UNCHANGED dbInc

\* Faulty variant: the bookmark moves as soon as the batch is buffered.
BatchDoneBookmarks ==
    /\ pc = "chunk"
    /\ handled[cur.chan] >= cur.hi
    /\ memPos' = [memPos EXCEPT ![cur.chan] = cur.hi]
    /\ diskPos' = memPos'
    /\ pc' = "loop"
    /\ cur' = NoBatch
    /\ UNCHANGED <<log, storeVars, runVars, boundVars, mode, handled, pending,
                   byHash, dbInc, staged, ix>>

\* All events of the batch are buffered: stage the channel's position.
BatchDone ==
    /\ pc = "chunk"
    /\ handled[cur.chan] >= cur.hi
    /\ staged' = IF cur.hi > staged[cur.chan]
                 THEN [staged EXCEPT ![cur.chan] = cur.hi] ELSE staged
    /\ pc' = "loop"
    /\ cur' = NoBatch
    /\ UNCHANGED <<log, storeVars, posVars, runVars, boundVars, mode, handled,
                   pending, byHash, dbInc, ix>>

-----------------------------------------------------------------------------
(* flush, flushInc and commitPositions *)

\* InsertEvents commits the batch's nodes; their index entries come after.
InsertEvents ==
    /\ pc = "insert"
    /\ pending # <<>>
    /\ nodes' = nodes \o pending
    /\ pc' = "index"
    /\ UNCHANGED <<log, indexed, posVars, runVars, boundVars, mode, cur, handled,
                   pending, byHash, dbInc, staged, ix>>

\* flush of an empty batch, at a pause or at the end of the run.
NothingToInsert ==
    /\ pc = "insert"
    /\ pending = <<>>
    /\ pc' = "inc"
    /\ UNCHANGED <<log, storeVars, posVars, runVars, boundVars, mode, cur, handled,
                   pending, byHash, dbInc, staged, ix>>

\* IndexNodeProperties of the next node of the batch.
IndexNode ==
    /\ pc = "index"
    /\ ix < Len(pending)
    /\ indexed' = indexed \cup {Len(nodes) - Len(pending) + ix + 1}
    /\ ix' = ix + 1
    /\ UNCHANGED <<log, nodes, posVars, runVars, boundVars, pc, mode, cur, handled,
                   pending, byHash, dbInc, staged>>

\* InsertEvents returned: drop the batch and its hash index.
Flushed ==
    /\ pc = "index"
    /\ ix = Len(pending)
    /\ pending' = <<>>
    /\ byHash' = {}
    /\ ix' = 0
    /\ pc' = "commit"
    /\ UNCHANGED <<log, storeVars, posVars, runVars, boundVars, mode, cur, handled,
                   dbInc, staged>>

\* IncrementDedupCounts: one transaction over the buffered increments.
IncrementDedupCounts ==
    /\ pc = "inc"
    /\ nodes' = [k \in DOMAIN nodes |->
                   IF k \in DOMAIN dbInc
                   THEN [nodes[k] EXCEPT !.n = @ + dbInc[k]]
                   ELSE nodes[k]]
    /\ dbInc' = EmptyBag
    /\ pc' = "commitInc"
    /\ UNCHANGED <<log, indexed, posVars, runVars, boundVars, mode, cur, handled,
                   pending, byHash, staged, ix>>

\* commitPositions advances one staged channel; SetPosition only moves
\* forward, in memory first, and a failed write of the document is reported
\* and forgotten.
CommitPosition(c) ==
    /\ pc \in {"commit", "commitInc"}
    /\ NothingUnwritten
    /\ staged[c] > 0
    /\ IF staged[c] > memPos[c]
       THEN /\ memPos' = [memPos EXCEPT ![c] = staged[c]]
            /\ diskPos' \in {memPos', diskPos}
       ELSE UNCHANGED posVars
    /\ staged' = [staged EXCEPT ![c] = 0]
    /\ UNCHANGED <<log, storeVars, runVars, boundVars, pc, mode, cur, handled,
                   pending, byHash, dbInc, ix>>

\* Faulty variant: a pause does not write the buffered increments.
CommittedSkipsIncrements ==
    /\ pc \in {"commit", "commitInc"}
    /\ NothingUnwritten => staged = Zero
    /\ ~(pc = "commitInc" /\ mode = "end")
    /\ pc' = CASE mode = "run" -> "chunk"
               [] mode = "end" -> "inc"
               [] mode = "pause" -> "wait"
    /\ UNCHANGED <<log, storeVars, posVars, runVars, boundVars, mode, cur, handled,
                   pending, byHash, dbInc, staged, ix>>

\* commitPositions returned: back to the batch, on to flushInc, or blocked
\* at the pause boundary.
Committed ==
    /\ pc \in {"commit", "commitInc"}
    /\ NothingUnwritten => staged = Zero
    /\ ~(pc = "commitInc" /\ mode = "end")
    /\ pc' = CASE mode = "run" -> "chunk"
               [] mode # "run" /\ pc = "commit" -> "inc"
               [] mode # "run" /\ pc = "commitInc" -> "wait"
    /\ UNCHANGED <<log, storeVars, posVars, runVars, boundVars, mode, cur, handled,
                   pending, byHash, dbInc, staged, ix>>

\* runSink returns after its final flush: Completed or Cancelled.
Finish ==
    /\ pc = "commitInc"
    /\ mode = "end"
    /\ NothingUnwritten => staged = Zero
    /\ NoRun
    /\ UNCHANGED <<log, storeVars, posVars, boundVars>>

\* A store call returns an error: runSink gives up without flushing. The
\* lookup, the commit and every single index registration can fail.
StoreFails ==
    /\ faults < MaxFaults
    /\ \/ InBatch /\ idem /\ NextRecord # Unreadable
                  /\ HashNormalized(NextRecord) \notin byHash
       \/ pc = "insert" /\ pending # <<>>
       \/ pc = "index" /\ ix < Len(pending)
       \/ pc = "inc" /\ dbInc # EmptyBag
    /\ faults' = faults + 1
    /\ NoRun
    /\ UNCHANGED <<log, storeVars, posVars, resets>>

-----------------------------------------------------------------------------

Sink ==
    \/ LoopTop \/ LeaveLoop \/ WakeForPause \/ WaitOver
    \/ \E b \in queue : ReceiveBatch(b)
    \/ SkipRecord \/ DuplicateInBatch \/ DuplicateInStore \/ NewEvent
    \/ BatchDone
    \/ InsertEvents \/ NothingToInsert \/ IndexNode \/ Flushed
    \/ IncrementDedupCounts
    \/ \E c \in Channels : CommitPosition(c)
    \/ Committed \/ Finish

Readers ==
    \/ \E c \in Channels : \E hi \in 1 .. Len(log[c]) : ReadBatch(c, hi)
    \/ CloseResults

User ==
    \/ \E C \in (SUBSET Channels) \ {{}}, i \in IdemChoices : StartLive(C, i)
    \/ Pause \/ Resume \/ Cancel
    \/ \E C \in {{c} : c \in Channels} \cup {Channels} : Reset(C)

Next ==
    \/ \E c \in Channels, r \in Records : Record(c, r)
    \/ User
    \/ Readers
    \/ Sink
    \/ StoreFails
    \/ Crash

Spec == Init /\ [][Next]_vars

\* The sink is one goroutine that never blocks for ever in a store call, and
\* Go's select picks among its ready cases at random, so a closed ctx.Done
\* that stays ready is not passed over for ever.
FairSpec == Spec /\ WF_vars(Sink) /\ SF_vars(LeaveLoop)

-----------------------------------------------------------------------------
(* Properties *)

Contents == {nodes[k].id[1] : k \in DOMAIN nodes}
Readable(c, i) == log[c][i] # Unreadable

\* Every variable has the shape its Go counterpart has.
TypeOK ==
    /\ log \in [Channels -> Seq(Records)]
    /\ nodes \in Seq(Events)
    /\ indexed \in SUBSET Nat
    /\ diskPos \in [Channels -> Nat]
    /\ memPos \in [Channels -> Nat]
    /\ run \in SUBSET Channels
    /\ idem \in BOOLEAN
    /\ open \in BOOLEAN
    /\ sent \in [Channels -> Nat]
    /\ queue \in SUBSET Batches
    /\ paused \in BOOLEAN
    /\ cancelled \in BOOLEAN
    /\ pc \in {"idle", "loop", "select", "wait", "chunk", "insert", "index",
               "commit", "inc", "commitInc"}
    /\ mode \in {"run", "pause", "end"}
    /\ cur \in Batches \cup {NoBatch}
    /\ handled \in [Channels -> Nat]
    /\ pending \in Seq(Events)
    /\ byHash \in SUBSET Identities
    /\ IsABag(dbInc)
    /\ staged \in [Channels -> Nat]
    /\ ix \in Nat
    /\ faults \in Nat
    /\ resets \in Nat

\* The bookmark of a channel, in memory or on disk, never passes a readable
\* record whose event is not in the store: a restarted capture re-reads, it
\* never skips (evtx_ingest.go PositionStore, capture.go header).
NeverSkips ==
    \A c \in Channels : \A i \in 1 .. Len(log[c]) :
        (i <= memPos[c] \/ i <= diskPos[c]) /\ Readable(c, i)
            => log[c][i] \in Contents

\* Bookmarks stay inside the channel's log, so that a channel is never
\* resumed past records that do not exist yet.
BookmarksInsideLog ==
    \A c \in Channels : memPos[c] <= Len(log[c]) /\ diskPos[c] <= Len(log[c])

\* Deduplication resolves through the property index: with Idempotent runs
\* only, at most one node per identity is ever findable by its hash, however
\* often the capture was interrupted and its records re-read.
OneFindableNodePerIdentity ==
    IdemChoices = {TRUE} =>
        \A j, k \in indexed \cap DOMAIN nodes : nodes[j].id = nodes[k].id => j = k

\* The occurrences of content h that events account for, one by one.
Occurrences(events, h) ==
    UNION {{k} \X (1 .. events[k].n) : k \in {j \in DOMAIN events : events[j].id[1] = h}}
\* The records of content h at or below position p of each channel.
Below(p, h) ==
    UNION {{c} \X {i \in DOMAIN log[c] : i <= p[c] /\ log[c][i] = h} : c \in Channels}
Accounted(p) ==
    \A h \in Hashes : Cardinality(Below(p, h)) <= Cardinality(Occurrences(nodes, h))

\* Once a record is behind the bookmark its occurrence is durably counted:
\* neither an unwritten event nor an unwritten increment may be bookmarked
\* (commitPositions guards both buffers for this).
NoOccurrenceLost == Accounted(memPos) /\ Accounted(diskPos)

\* At the pause boundary everything the sink has taken from the readers is
\* written and bookmarked, so closing the app while paused costs nothing.
PauseIsConsistent ==
    pc = "wait" => /\ Accounted(handled)
                   /\ resets = 0 => \A c \in run : memPos[c] = handled[c]

\* The pipeline implements its contract: events are stored before the
\* bookmark that covers them, whatever is interrupted in between.
Contract == INSTANCE CaptureContract WITH kept <- Contents, mark <- diskPos
CaptureContractHolds == Contract!Spec
=============================================================================
