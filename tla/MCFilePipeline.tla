--------------------------- MODULE MCFilePipeline ---------------------------
(* Model-checking instances of FilePipeline. *)
EXTENDS FilePipeline

-----------------------------------------------------------------------------
(* What the code does not keep (README, Known divergences): each is violated  *)
(* within the bounds of this module's configurations.                         *)

\* A cancelled ingestion ends with a Cancelled event (EventsAPI.CancelIngestion):
\* Completed is for those that have received all of their file.
CompletedIsWhole == \A f \in FileIds : outcome[f] = "completed" /\ SomeoneRead(f) => Whole(f)

\* Chunks and results in memory.
Resident(f) == Cardinality({w \in Workers : held[f][w] # 0}) + Len(resultCh[f])

\* At most one chunk per worker and Depth queued results are resident (LLD 7.1);
\* to see it violated takes MaxChunks = 4 and Depth = 2.
MemoryIsBounded ==
    \A f, g \in FileIds : f < g => Resident(f) + Resident(g) <= Cardinality(Workers) + Depth
=============================================================================
