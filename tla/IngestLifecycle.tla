--------------------------- MODULE IngestLifecycle ---------------------------
(***************************************************************************)
(* The ingestion lifecycle: EventsAPI's start, pause, resume, cancel and   *)
(* shutdown calls, each a sequence of critical sections that other calls   *)
(* interleave with, the goroutine of every run, and the frontend store     *)
(* that reduces the emitted events and decides which buttons are offered.  *)
(*                                                                         *)
(* Abstractions: what a run reads and writes is LiveCapture's business;    *)
(* here a file is opened, read and ends in one of three ways. Progress and *)
(* per-record errors are left out. The runtime delivers events in the      *)
(* order they are emitted.                                                 *)
(***************************************************************************)
EXTENDS Naturals, FiniteSets

CONSTANTS
    Calls,     \* slots for binding calls in flight at the same time
    JobSizes,  \* numbers of files of a request; 0 is a live capture
    MaxRuns    \* bound: ingestion runs

ASSUME LifecycleAssumption ==
    JobSizes \subseteq Nat /\ MaxRuns \in Nat

VARIABLES
    running,    \* EventsAPI.running
    cur,        \* the run whose gate, cancel and done EventsAPI holds, or 0
    state,      \* EventsAPI.state
    calls,      \* binding calls in flight
    runPc,      \* where each run's goroutine is
    job,        \* files in each run's request
    idx,        \* files each run has taken up
    gatePaused, \* each run's Gate.paused
    cancelled,  \* each run's context is cancelled
    app,        \* "open", "closing", then "drained" or "abandoned"
    uiState,    \* ingestion store: derived status of the job
    lifecycle,  \* ingestion store: the backend state it was told
    shown       \* ingestion store: fileIndex and fileTotal

apiVars == <<running, cur, state>>
runVars == <<runPc, job, idx, gatePaused, cancelled>>
uiVars == <<uiState, lifecycle, shown>>
vars == <<apiVars, calls, runVars, app, uiVars>>

-----------------------------------------------------------------------------

Runs == 1 .. MaxRuns
NoCall == [op |-> "none", run |-> 0, pc |-> "free"]
Call(o, r, p) == [op |-> o, run |-> r, pc |-> p]
Working == {"new", "next", "reading"}

Init ==
    /\ running = FALSE
    /\ cur = 0
    /\ state = "idle"
    /\ calls = [k \in Calls |-> NoCall]
    /\ runPc = [r \in Runs |-> "unused"]
    /\ job = [r \in Runs |-> 0]
    /\ idx = [r \in Runs |-> 0]
    /\ gatePaused = [r \in Runs |-> FALSE]
    /\ cancelled = [r \in Runs |-> FALSE]
    /\ app = "open"
    /\ uiState = "idle"
    /\ lifecycle = "idle"
    /\ shown = [index |-> 0, total |-> 0]

\* A slot is free and the window is there to call from.
CanCall(k) == app = "open" /\ calls[k] = NoCall

\* The controls of a running job are rendered: by the job's derived status,
\* and for a live capture by CaptureStatus as well.
ControlsShown == uiState = "running" \/ (running /\ job[cur] = 0)

\* Faulty variant: a cancel is announced but not carried out.
AfterStateForgetsCancel(c) ==
    IF c.op = "start" THEN [c EXCEPT !.pc = "spawn"] ELSE NoCall

\* What setState is called with, and what the call does once it has returned.
Target(o) == CASE o \in {"start", "resume"} -> "active"
               [] o = "pause" -> "paused"
               [] o = "cancel" -> "stopping"
AfterState(c) == CASE c.op = "start" -> [c EXCEPT !.pc = "spawn"]
                   [] c.op = "cancel" -> [c EXCEPT !.pc = "openGate"]
                   [] OTHER -> NoCall

-----------------------------------------------------------------------------
(* The calls *)

\* The start button, disabled while a job shows as running and, for files,
\* while an earlier click has not returned. The critical section either
\* refuses or claims the run.
StartIngest(k, n) ==
    /\ CanCall(k)
    /\ uiState # "running"
    /\ n > 0 => \A j \in Calls : calls[j].op # "start"
    /\ \/ /\ running
          /\ calls' = [calls EXCEPT ![k] = Call("start", 0, "refused")]
          /\ UNCHANGED <<running, cur, runPc, job>>
       \/ /\ ~running
          /\ \E r \in Runs :
                /\ runPc[r] = "unused"
                /\ \A q \in Runs : q < r => runPc[q] # "unused"
                /\ cur' = r
                /\ runPc' = [runPc EXCEPT ![r] = "new"]
                /\ job' = [job EXCEPT ![r] = n]
                /\ calls' = [calls EXCEPT ![k] = Call("start", r, "state")]
          /\ running' = TRUE
    /\ UNCHANGED <<state, idx, gatePaused, cancelled, app, uiVars>>

\* The refusal reaches the store.
StartRefused(k) ==
    /\ calls[k].pc = "refused"
    /\ uiState' = "error"
    /\ calls' = [calls EXCEPT ![k] = NoCall]
    /\ UNCHANGED <<apiVars, runVars, app, lifecycle, shown>>

\* The first critical section of pause, resume and cancel: fetch the gate and
\* the cancel function of the run. A refused call changes nothing.
PauseIngestion(k) ==
    /\ CanCall(k)
    /\ ControlsShown /\ lifecycle = "active"
    /\ running
    /\ calls' = [calls EXCEPT ![k] = Call("pause", cur, "gate")]
    /\ UNCHANGED <<apiVars, runVars, app, uiVars>>

ResumeIngestion(k) ==
    /\ CanCall(k)
    /\ ControlsShown /\ lifecycle = "paused"
    /\ running
    /\ gatePaused[cur]
    /\ calls' = [calls EXCEPT ![k] = Call("resume", cur, "gate")]
    /\ UNCHANGED <<apiVars, runVars, app, uiVars>>

CancelIngestion(k) ==
    /\ CanCall(k)
    /\ ControlsShown /\ lifecycle # "stopping"
    /\ running
    /\ calls' = [calls EXCEPT ![k] = Call("cancel", cur, "state")]
    /\ UNCHANGED <<apiVars, runVars, app, uiVars>>

\* Gate.Pause or Gate.Resume of the run fetched before.
TurnGate(k) ==
    /\ calls[k].pc = "gate"
    /\ gatePaused' = [gatePaused EXCEPT ![calls[k].run] = (calls[k].op = "pause")]
    /\ calls' = [calls EXCEPT ![k].pc = "state"]
    /\ UNCHANGED <<apiVars, runPc, job, idx, cancelled, app, uiVars>>

\* setState: record the state under the lock, announce it outside.
SetState(k) ==
    /\ calls[k].pc = "state"
    /\ state' = Target(calls[k].op)
    /\ calls' = [calls EXCEPT ![k] =
                    IF state = state' THEN AfterState(@) ELSE [@ EXCEPT !.pc = "emit"]]
    /\ UNCHANGED <<running, cur, runVars, app, uiVars>>

EmitState(k) ==
    /\ calls[k].pc = "emit"
    /\ lifecycle' = Target(calls[k].op)
    /\ calls' = [calls EXCEPT ![k] = AfterState(@)]
    /\ UNCHANGED <<apiVars, runVars, app, uiState, shown>>

\* StartIngest's last step: the run's goroutine.
Spawn(k) ==
    /\ calls[k].pc = "spawn"
    /\ runPc' = [runPc EXCEPT ![calls[k].run] = "next"]
    /\ calls' = [calls EXCEPT ![k] = NoCall]
    /\ UNCHANGED <<apiVars, job, idx, gatePaused, cancelled, app, uiVars>>

\* Cancel and shutdown release a paused run before they cancel it.
OpenGate(k) ==
    /\ calls[k].pc = "openGate"
    /\ gatePaused' = [gatePaused EXCEPT ![calls[k].run] = FALSE]
    /\ calls' = [calls EXCEPT ![k].pc = "cancel"]
    /\ UNCHANGED <<apiVars, runPc, job, idx, cancelled, app, uiVars>>

\* Faulty variant: a cancelled run is given up at once.
CancelContextGivesUp(k) ==
    /\ calls[k].pc = "cancel"
    /\ cancelled' = [cancelled EXCEPT ![calls[k].run] = TRUE]
    /\ running' = FALSE
    /\ cur' = 0
    /\ calls' = [calls EXCEPT ![k] =
                    IF @.op = "shutdown" THEN [@ EXCEPT !.pc = "wait"] ELSE NoCall]
    /\ UNCHANGED <<state, runPc, job, idx, gatePaused, app, uiVars>>

CancelContext(k) ==
    /\ calls[k].pc = "cancel"
    /\ cancelled' = [cancelled EXCEPT ![calls[k].run] = TRUE]
    /\ calls' = [calls EXCEPT ![k] =
                    IF @.op = "shutdown" THEN [@ EXCEPT !.pc = "wait"] ELSE NoCall]
    /\ UNCHANGED <<apiVars, runPc, job, idx, gatePaused, app, uiVars>>

\* Faulty variant: whether a run is active is taken from the announced state.
ShutdownByState(k) ==
    /\ CanCall(k)
    /\ IF running /\ state # "idle"
       THEN /\ app' = "closing"
            /\ calls' = [calls EXCEPT ![k] = Call("shutdown", cur, "openGate")]
       ELSE app' = "drained" /\ UNCHANGED calls
    /\ UNCHANGED <<apiVars, runVars, uiVars>>

\* App.shutdown: the window is gone; stop the run, wait for it, close.
Shutdown(k) ==
    /\ CanCall(k)
    /\ IF running
       THEN /\ app' = "closing"
            /\ calls' = [calls EXCEPT ![k] = Call("shutdown", cur, "openGate")]
       ELSE app' = "drained" /\ UNCHANGED calls
    /\ UNCHANGED <<apiVars, runVars, uiVars>>

\* Faulty variant: only the closing of done ends the wait.
ShutdownReturnsOnDone(k) ==
    /\ calls[k].pc = "wait"
    /\ runPc[calls[k].run] = "over"
    /\ app' = "drained"
    /\ calls' = [calls EXCEPT ![k] = NoCall]
    /\ UNCHANGED <<apiVars, runVars, uiVars>>

\* done is closed, or ShutdownDrainTimeout has passed.
ShutdownReturns(k) ==
    /\ calls[k].pc = "wait"
    /\ \/ runPc[calls[k].run] = "over" /\ app' = "drained"
       \/ app' = "abandoned"
    /\ calls' = [calls EXCEPT ![k] = NoCall]
    /\ UNCHANGED <<apiVars, runVars, uiVars>>

-----------------------------------------------------------------------------
(* runIngestion *)

\* No file is left, or the context is cancelled between two files.
LeaveFiles(r) ==
    /\ runPc[r] = "next"
    /\ \/ job[r] > 0 /\ (cancelled[r] \/ idx[r] = job[r])
       \/ job[r] = 0 /\ idx[r] = 1
    /\ runPc' = [runPc EXCEPT ![r] = "exit"]
    /\ UNCHANGED <<apiVars, calls, job, idx, gatePaused, cancelled, app, uiVars>>

\* The next file is taken up. Opening it fails before Started is reported, or
\* Started is reported and it is read. A live capture always starts.
TakeFile(r) ==
    /\ runPc[r] = "next"
    /\ \/ job[r] > 0 /\ ~cancelled[r] /\ idx[r] < job[r]
       \/ job[r] = 0 /\ idx[r] = 0
    /\ idx' = [idx EXCEPT ![r] = @ + 1]
    /\ \/ /\ job[r] > 0
          /\ UNCHANGED <<runPc, uiVars>>
       \/ /\ runPc' = [runPc EXCEPT ![r] = "reading"]
          /\ uiState' = "running"
          /\ shown' = [index |-> IF job[r] = 0 THEN 0 ELSE idx'[r], total |-> job[r]]
          /\ UNCHANGED lifecycle
    /\ UNCHANGED <<apiVars, calls, job, gatePaused, cancelled, app>>

\* The file ends: completed, cancelled, or by a fatal error, which only shows
\* as a message. A pause does not exclude any of these: the pipeline may find
\* its result channel closed before it finds the gate closed.
FileEnds(r) ==
    /\ runPc[r] = "reading"
    /\ \/ uiState' = IF shown.total = 0 \/ shown.index >= shown.total
                     THEN "complete" ELSE "running"
       \/ cancelled[r] /\ uiState' = "cancelled"
       \/ uiState' = uiState
    /\ runPc' = [runPc EXCEPT ![r] = "next"]
    /\ UNCHANGED <<apiVars, calls, job, idx, gatePaused, cancelled, app, lifecycle,
                   shown>>

\* The deferred function of runIngestion: give the run up under the lock, then
\* announce idle, then close done.
GiveUpRun(r) ==
    /\ runPc[r] = "exit"
    /\ running' = FALSE
    /\ cur' = 0
    /\ runPc' = [runPc EXCEPT ![r] = "setIdle"]
    /\ UNCHANGED <<state, calls, job, idx, gatePaused, cancelled, app, uiVars>>

SetIdle(r) ==
    /\ runPc[r] = "setIdle"
    /\ state' = "idle"
    /\ runPc' = [runPc EXCEPT ![r] = IF state = "idle" THEN "over" ELSE "emitIdle"]
    /\ UNCHANGED <<running, cur, calls, job, idx, gatePaused, cancelled, app, uiVars>>

EmitIdle(r) ==
    /\ runPc[r] = "emitIdle"
    /\ lifecycle' = "idle"
    /\ runPc' = [runPc EXCEPT ![r] = "over"]
    /\ UNCHANGED <<apiVars, calls, job, idx, gatePaused, cancelled, app, uiState, shown>>

-----------------------------------------------------------------------------

Alive == app \in {"open", "closing"}

CallStep(k) ==
    /\ Alive
    /\ \/ StartRefused(k) \/ TurnGate(k) \/ SetState(k) \/ EmitState(k) \/ Spawn(k)
       \/ OpenGate(k) \/ CancelContext(k) \/ ShutdownReturns(k)

RunStep(r) ==
    /\ Alive
    /\ \/ LeaveFiles(r) \/ TakeFile(r) \/ FileEnds(r)
       \/ GiveUpRun(r) \/ SetIdle(r) \/ EmitIdle(r)

UserStep(k) ==
    \/ \E n \in JobSizes : StartIngest(k, n)
    \/ PauseIngestion(k) \/ ResumeIngestion(k) \/ CancelIngestion(k)
    \/ Shutdown(k)

Next ==
    \/ \E k \in Calls : UserStep(k) \/ CallStep(k)
    \/ \E r \in Runs : RunStep(r)

Spec == Init /\ [][Next]_vars

\* Goroutines run on. How long a file is read is up to the file, and a wedged
\* pipeline may never return.
FairSpec ==
    /\ Spec
    /\ \A k \in Calls : WF_vars(CallStep(k))
    /\ \A r \in Runs : WF_vars(RunStep(r) /\ runPc[r] # "reading")

-----------------------------------------------------------------------------
(* Properties *)

\* Every variable has the shape its Go or JavaScript counterpart has.
TypeOK ==
    /\ running \in BOOLEAN
    /\ cur \in 0 .. MaxRuns
    /\ state \in {"idle", "active", "paused", "stopping"}
    /\ calls \in [Calls -> [op : {"none", "start", "pause", "resume", "cancel", "shutdown"},
                            run : 0 .. MaxRuns,
                            pc : {"free", "refused", "gate", "state", "emit", "spawn",
                                  "openGate", "cancel", "wait"}]]
    /\ runPc \in [Runs -> Working \cup {"unused", "exit", "setIdle", "emitIdle", "over"}]
    /\ job \in [Runs -> JobSizes \cup {0}]
    /\ idx \in [Runs -> Nat]
    /\ gatePaused \in [Runs -> BOOLEAN]
    /\ cancelled \in [Runs -> BOOLEAN]
    /\ app \in {"open", "closing", "drained", "abandoned"}
    /\ uiState \in {"idle", "running", "complete", "cancelled", "error"}
    /\ lifecycle \in {"idle", "active", "paused", "stopping"}
    /\ shown \in [index : Nat, total : Nat]

\* A run that still works is the one EventsAPI holds the gate of: a paused run
\* can always be resumed or cancelled, never stranded behind a gate that
\* nobody holds any more.
WorkingRunIsHeld ==
    \A r \in Runs : runPc[r] \in Working \cup {"exit"} => running /\ cur = r

\* Draining before closing: unless the drain timed out, the store is closed
\* only when no run works on it (App.shutdown).
StoreClosedAfterDrain ==
    app = "drained" => \A r \in Runs : runPc[r] \notin Working \cup {"exit"}

\* The pipeline observes its context at every boundary: the reading of a file
\* of a cancelled run ends. Gate.Wait returns on a cancelled context.
PipelineUnwinds ==
    \A r \in Runs : WF_vars(RunStep(r) /\ cancelled[r])

\* Whoever asks for a cancel gets it: if a cancelled pipeline unwinds, the run
\* that was current when the call was made ends and closes done, whatever
\* pauses and resumes race with it.
CancelEndsTheRun ==
    PipelineUnwinds =>
        \A k \in Calls, r \in Runs :
            (calls[k].op = "cancel" /\ calls[k].run = r)
                ~> (runPc[r] = "over" \/ ~Alive)

\* Closing the application is never blocked for ever, not by a wedged run
\* either (Shutdown's ShutdownDrainTimeout).
ShutdownEnds == (app = "closing") ~> (app \in {"drained", "abandoned"})
=============================================================================
