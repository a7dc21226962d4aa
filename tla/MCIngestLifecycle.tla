-------------------------- MODULE MCIngestLifecycle --------------------------
(* Model-checking instance of IngestLifecycle. *)
EXTENDS IngestLifecycle, TLC

\* Slots for calls are interchangeable.
CallSymmetry == Permutations(Calls)

-----------------------------------------------------------------------------
(* What the code does not keep (README, Known divergences): each is violated  *)
(* within the bounds of this module's configurations.                         *)

\* The frontend never shows a pause the pipeline did not take (ingestion.js):
\* once every call has returned, a shown pause is that of a run in progress.
PauseShownIsTaken ==
    lifecycle = "paused" /\ (\A k \in Calls : calls[k] = NoCall)
        => \E r \in Runs : gatePaused[r] /\ runPc[r] \notin {"unused", "over"}

\* A cancelled job is announced: once every call has returned and its run is
\* over, the frontend does not show it as running.
CancelIsAnnounced ==
    \A r \in Runs :
        (/\ cancelled[r]
         /\ runPc[r] = "over"
         /\ \A q \in Runs : q # r => runPc[q] = "unused") => uiState # "running"

\* The start button is not offered for files while a job is being opened.
StartNotOfferedTwice ==
    (\E r \in Runs : runPc[r] = "next" /\ job[r] > 0 /\ idx[r] = 0)
        => uiState = "running" \/ \E k \in Calls : calls[k].op = "start"
=============================================================================
