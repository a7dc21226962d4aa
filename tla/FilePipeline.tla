----------------------------- MODULE FilePipeline -----------------------------
(***************************************************************************)
(* The goroutines of a file ingestion: for each file of the job a producer *)
(* of chunk offsets, a pool of workers and a closer around two bounded     *)
(* channels, and the sink, which runs on the job's own goroutine. Files    *)
(* are read one after the other, but nothing waits for the goroutines of a *)
(* file the sink has left: they go on beside the next one's.               *)
(*                                                                         *)
(* Abstractions: a chunk is its number, its records are left out; result 0 *)
(* is the error of a worker that could not open the file; what the sink    *)
(* does with a chunk (LiveCapture) either succeeds or fails the run.       *)
(***************************************************************************)
EXTENDS Naturals, Sequences, FiniteSets

CONSTANTS
    Files,      \* number of files of the job
    MaxChunks,  \* bound: chunks of a file
    Workers,    \* the worker pool (Options.Workers)
    Depth,      \* consts.ChunkQueueDepth
    MaxFaults   \* bound: files that cannot be opened, failing writes

ASSUME PipelineAssumption ==
    /\ {Files, MaxChunks, MaxFaults} \subseteq Nat
    /\ IsFiniteSet(Workers)
    /\ Depth \in Nat \ {0}

VARIABLES
    file,      \* the file the job is at
    ctx,       \* the job's context is cancelled
    paused,    \* the gate
    total,     \* chunks of each file
    sent,      \* offsets its producer has handed over
    producing, \* its producer is running
    offsetCh, resultCh,
    wpc,       \* where each worker of each file is
    held,      \* the chunk it holds
    closed,    \* resultCh is closed
    outcome,   \* of its Ingest call
    got,       \* how often the sink has received each of its chunks
    faults

pipelineVars == <<file, ctx, paused, total, sent, producing, offsetCh, resultCh, wpc, held, closed,
          outcome, got, faults>>

FileIds == 1 .. Files
Chunks == 1 .. MaxChunks
Over == {"completed", "cancelled", "failed", "unreadable"}

Fault == faults < MaxFaults /\ faults' = faults + 1

PipelineInit ==
    /\ file = 0
    /\ ctx = FALSE
    /\ paused = FALSE
    /\ total = [f \in FileIds |-> 0]
    /\ sent = [f \in FileIds |-> 0]
    /\ producing = [f \in FileIds |-> FALSE]
    /\ offsetCh = [f \in FileIds |-> <<>>]
    /\ resultCh = [f \in FileIds |-> <<>>]
    /\ wpc = [f \in FileIds |-> [w \in Workers |-> "none"]]
    /\ held = [f \in FileIds |-> [w \in Workers |-> 0]]
    /\ closed = [f \in FileIds |-> FALSE]
    /\ outcome = [f \in FileIds |-> "none"]
    /\ got = [f \in FileIds |-> [c \in Chunks |-> 0]]
    /\ faults = 0

-----------------------------------------------------------------------------
(* The job *)

JobOver == file > 0 /\ outcome[file] \in Over /\ (file = Files \/ ctx)

\* The next file, unless the job is cancelled.
NextFile ==
    /\ file < Files
    /\ file > 0 => outcome[file] \in Over
    /\ ~ctx
    /\ file' = file + 1
    /\ UNCHANGED <<ctx, paused>>

\* openFileSource fails.
FileUnreadable ==
    /\ NextFile
    /\ Fault
    /\ outcome' = [outcome EXCEPT ![file'] = "unreadable"]
    /\ UNCHANGED <<total, sent, producing, offsetCh, resultCh, wpc, held, closed, got>>

\* ingestFile starts the file's goroutines.
IngestFile(n) ==
    /\ NextFile
    /\ total' = [total EXCEPT ![file'] = n]
    /\ producing' = [producing EXCEPT ![file'] = TRUE]
    /\ wpc' = [wpc EXCEPT ![file'] = [w \in Workers |-> "open"]]
    /\ outcome' = [outcome EXCEPT ![file'] = "running"]
    /\ UNCHANGED <<sent, offsetCh, resultCh, held, closed, got, faults>>

\* The context can be cancelled as long as the job is not over.
CancelFiles ==
    /\ file > 0 /\ ~JobOver /\ ~ctx
    /\ ctx' = TRUE
    /\ paused' = FALSE
    /\ UNCHANGED <<file, total, sent, producing, offsetCh, resultCh, wpc, held, closed,
                   outcome, got, faults>>

TurnSinkGate ==
    /\ file > 0 /\ ~JobOver
    /\ paused' = ~paused
    /\ UNCHANGED <<file, ctx, total, sent, producing, offsetCh, resultCh, wpc, held, closed,
                   outcome, got, faults>>

-----------------------------------------------------------------------------
(* The producer *)

Feed(f) ==
    /\ producing[f]
    /\ sent[f] < total[f]
    /\ Len(offsetCh[f]) < Depth
    /\ offsetCh' = [offsetCh EXCEPT ![f] = Append(@, sent[f] + 1)]
    /\ sent' = [sent EXCEPT ![f] = @ + 1]
    /\ UNCHANGED <<file, ctx, paused, total, producing, resultCh, wpc, held, closed, outcome,
                   got, faults>>

\* It closes offsetCh when it is done or cancelled.
FeedOver(f) ==
    /\ producing[f]
    /\ sent[f] = total[f] \/ ctx
    /\ producing' = [producing EXCEPT ![f] = FALSE]
    /\ UNCHANGED <<file, ctx, paused, total, sent, offsetCh, resultCh, wpc, held, closed,
                   outcome, got, faults>>

-----------------------------------------------------------------------------
(* The workers *)

At(f, w, here, there) == wpc[f][w] = here /\ wpc' = [wpc EXCEPT ![f][w] = there]

OpenHandle(f, w) ==
    /\ \/ At(f, w, "open", "take") /\ UNCHANGED faults
       \/ At(f, w, "open", "report") /\ Fault
    /\ UNCHANGED <<file, ctx, paused, total, sent, producing, offsetCh, resultCh, held, closed,
                   outcome, got>>

\* A worker that could not open the file reports it and is gone.
ReportUnopened(f, w) ==
    /\ At(f, w, "report", "unopened")
    /\ \/ /\ Len(resultCh[f]) < Depth
          /\ resultCh' = [resultCh EXCEPT ![f] = Append(@, 0)]
       \/ ctx /\ UNCHANGED resultCh
    /\ UNCHANGED <<file, ctx, paused, total, sent, producing, offsetCh, held, closed, outcome,
                   got, faults>>

TakeOffset(f, w) ==
    /\ offsetCh[f] # <<>>
    /\ IF ctx THEN At(f, w, "take", "done") /\ UNCHANGED held
              ELSE At(f, w, "take", "send") /\ held' = [held EXCEPT ![f][w] = Head(offsetCh[f])]
    /\ offsetCh' = [offsetCh EXCEPT ![f] = Tail(@)]
    /\ UNCHANGED <<file, ctx, paused, total, sent, producing, resultCh, closed, outcome, got,
                   faults>>

\* Faulty variant: an empty channel is taken for a closed one.
OffsetsEmpty(f, w) ==
    /\ offsetCh[f] = <<>>
    /\ At(f, w, "take", "done")
    /\ UNCHANGED <<file, ctx, paused, total, sent, producing, offsetCh, resultCh, held, closed,
                   outcome, got, faults>>

\* offsetCh is closed and drained.
OffsetsOver(f, w) ==
    /\ offsetCh[f] = <<>> /\ ~producing[f]
    /\ At(f, w, "take", "done")
    /\ UNCHANGED <<file, ctx, paused, total, sent, producing, offsetCh, resultCh, held, closed,
                   outcome, got, faults>>

\* Faulty variant: a blocked send does not look at the context.
SendResultBlocks(f, w) ==
    /\ Len(resultCh[f]) < Depth
    /\ At(f, w, "send", "take")
    /\ resultCh' = [resultCh EXCEPT ![f] = Append(@, held[f][w])]
    /\ held' = [held EXCEPT ![f][w] = 0]
    /\ UNCHANGED <<file, ctx, paused, total, sent, producing, offsetCh, closed, outcome, got,
                   faults>>

SendResult(f, w) ==
    /\ \/ /\ Len(resultCh[f]) < Depth
          /\ At(f, w, "send", "take")
          /\ resultCh' = [resultCh EXCEPT ![f] = Append(@, held[f][w])]
       \/ ctx /\ At(f, w, "send", "done") /\ UNCHANGED resultCh
    /\ held' = [held EXCEPT ![f][w] = 0]
    /\ UNCHANGED <<file, ctx, paused, total, sent, producing, offsetCh, closed, outcome, got,
                   faults>>

Worker(f, w) ==
    \/ OpenHandle(f, w) \/ ReportUnopened(f, w) \/ TakeOffset(f, w) \/ OffsetsOver(f, w)
    \/ SendResult(f, w)

\* Faulty variant: the closer waits for one worker.
CloseAfterOne(f) ==
    /\ ~closed[f]
    /\ \E w \in Workers : wpc[f][w] \in {"done", "unopened"}
    /\ closed' = [closed EXCEPT ![f] = TRUE]
    /\ UNCHANGED <<file, ctx, paused, total, sent, producing, offsetCh, resultCh, wpc, held,
                   outcome, got, faults>>

\* Faulty variant: a worker that could not open the file is waited for forever.
CloseAfterDone(f) ==
    /\ ~closed[f]
    /\ \A w \in Workers : wpc[f][w] = "done"
    /\ closed' = [closed EXCEPT ![f] = TRUE]
    /\ UNCHANGED <<file, ctx, paused, total, sent, producing, offsetCh, resultCh, wpc, held,
                   outcome, got, faults>>

\* The closer waits for all of them and closes resultCh.
CloseResults(f) ==
    /\ ~closed[f]
    /\ \A w \in Workers : wpc[f][w] \in {"done", "unopened"}
    /\ closed' = [closed EXCEPT ![f] = TRUE]
    /\ UNCHANGED <<file, ctx, paused, total, sent, producing, offsetCh, resultCh, wpc, held,
                   outcome, got, faults>>

-----------------------------------------------------------------------------
(* The sink *)

\* A chunk's records are handed to the store, which may fail the run.
Receive(f) ==
    /\ outcome[f] = "running" /\ ~paused
    /\ resultCh[f] # <<>>
    /\ resultCh' = [resultCh EXCEPT ![f] = Tail(@)]
    /\ got' = [got EXCEPT ![f] = [c \in Chunks |-> @[c] + (IF c = Head(resultCh[f]) THEN 1 ELSE 0)]]
    /\ \/ UNCHANGED <<outcome, faults>>
       \/ Fault /\ outcome' = [outcome EXCEPT ![f] = "failed"]
    /\ UNCHANGED <<file, ctx, paused, total, sent, producing, offsetCh, wpc, held, closed>>

\* The final flush may fail too.
SinkOver(f, how) ==
    /\ outcome[f] = "running"
    /\ \/ UNCHANGED faults /\ outcome' = [outcome EXCEPT ![f] = how]
       \/ Fault /\ outcome' = [outcome EXCEPT ![f] = "failed"]
    /\ UNCHANGED <<file, ctx, paused, total, sent, producing, offsetCh, resultCh, wpc, held,
                   closed, got>>

Complete(f) == ~paused /\ closed[f] /\ resultCh[f] = <<>> /\ SinkOver(f, "completed")
Cancelled(f) == ctx /\ SinkOver(f, "cancelled")

Sink(f) == Receive(f) \/ Complete(f) \/ Cancelled(f)

-----------------------------------------------------------------------------

Job == FileUnreadable \/ \E n \in 0 .. MaxChunks : IngestFile(n)

PipelineNext ==
    \/ Job \/ CancelFiles \/ TurnSinkGate
    \/ \E f \in FileIds :
          \/ Feed(f) \/ FeedOver(f) \/ CloseResults(f) \/ Sink(f)
          \/ \E w \in Workers : Worker(f, w)

PipelineSpec == PipelineInit /\ [][PipelineNext]_pipelineVars

\* Goroutines run; which branch of a select is taken is left to chance.
FairPipelineSpec ==
    /\ PipelineSpec
    /\ WF_pipelineVars(Job)
    /\ \A f \in FileIds :
          /\ WF_pipelineVars(Feed(f) \/ FeedOver(f))
          /\ WF_pipelineVars(CloseResults(f))
          /\ WF_pipelineVars(Sink(f))
          /\ \A w \in Workers : WF_pipelineVars(Worker(f, w))

-----------------------------------------------------------------------------
(* Properties *)

\* Every variable has the shape its Go counterpart has.
PipelineTypeOK ==
    /\ file \in 0 .. Files
    /\ {ctx, paused} \subseteq BOOLEAN
    /\ total \in [FileIds -> 0 .. MaxChunks]
    /\ sent \in [FileIds -> 0 .. MaxChunks]
    /\ producing \in [FileIds -> BOOLEAN]
    /\ offsetCh \in [FileIds -> Seq(Chunks)]
    /\ resultCh \in [FileIds -> Seq(0 .. MaxChunks)]
    /\ wpc \in [FileIds ->
                   [Workers -> {"none", "open", "report", "take", "send", "done", "unopened"}]]
    /\ held \in [FileIds -> [Workers -> 0 .. MaxChunks]]
    /\ closed \in [FileIds -> BOOLEAN]
    /\ outcome \in [FileIds -> Over \cup {"none", "running"}]
    /\ got \in [FileIds -> [Chunks -> Nat]]
    /\ faults \in Nat

Whole(f) == \A c \in 1 .. total[f] : got[f][c] = 1
SomeoneRead(f) == \E w \in Workers : wpc[f][w] = "done"

\* No chunk is received twice, and a completed ingestion has received all of its
\* file, unless no worker could open it or the job was cancelled meanwhile.
EveryChunkOnce ==
    \A f \in FileIds :
        /\ \A c \in Chunks : got[f][c] <= 1
        /\ outcome[f] = "completed" /\ SomeoneRead(f) /\ ~ctx => Whole(f)

\* A result is never sent on the closed channel, which would panic.
NoSendOnClosed ==
    \A f \in FileIds : closed[f] =>
        \A w \in Workers : wpc[f][w] \in {"done", "unopened"}

Gone(f) ==
    /\ ~producing[f]
    /\ closed[f]
    /\ outcome[f] \in Over
    /\ \A w \in Workers : wpc[f][w] \in {"done", "unopened"}

\* A cancelled job leaves no goroutine behind, those of earlier files included.
CancelStopsAll ==
    ctx ~> \A f \in FileIds : outcome[f] \in {"none", "unreadable"} \/ Gone(f)

\* An ingestion that is not paused ends.
IngestEnds == \A f \in FileIds : outcome[f] = "running" ~> (outcome[f] # "running" \/ paused)
=============================================================================
