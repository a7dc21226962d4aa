---------------------------- MODULE IngestionProofs ----------------------------
(* Proofs about ingestion, for any number of runs, calls in flight, files,     *)
(* chunks and workers and any depth of the channels.                           *)
(*                                                                             *)
(* Its lifecycle (IngestLifecycle): a run that works is the one EventsAPI      *)
(* holds, and the store is not closed under a run once the shutdown says it    *)
(* has drained. The argument: the start call that claimed a run is the only    *)
(* one that can spawn it, so a run works from its claim to the moment it is    *)
(* given up, and both happen under the lock. A shutdown begins when the window *)
(* is gone: no run is claimed after it, so the run it waits for is the only    *)
(* one.                                                                        *)
(*                                                                             *)
(* Its files (FilePipeline): no result is sent on a closed channel and every   *)
(* chunk is received once. The argument: a chunk is in one place at a time -   *)
(* still to be fed, in the first channel, with one worker, in the second       *)
(* channel, or received - and only a cancelled context lets it fall out. A     *)
(* worker that has read the file is done when the first channel is closed and  *)
(* empty, and the second is closed when no worker holds a chunk; so at the end *)
(* all have been received.                                                     *)
EXTENDS IngestLifecycle, FilePipeline, TLAPS

-----------------------------------------------------------------------------
(* The lifecycle.                                                              *)

Busy == Working \cup {"exit"}

\* A start call that has claimed a run and not yet spawned it.
Starts(k) == calls[k].op = "start" /\ calls[k].pc # "refused"
StartsAreNew == \A k \in Calls : Starts(k) => calls[k].run \in Runs /\ runPc[calls[k].run] = "new"
StartsDiffer == \A j, k \in Calls : Starts(j) /\ Starts(k) /\ j # k => calls[j].run # calls[k].run
\* What a call does next fits what it is.
CallsFit ==
    \A k \in Calls :
        /\ calls[k].pc = "spawn" => calls[k].op = "start"
        /\ calls[k].pc = "wait" => calls[k].op = "shutdown"
\* While the application closes, only the run its shutdown waits for may still work.
ClosingWaits ==
    \A k \in Calls : calls[k].op = "shutdown" =>
        app # "open" /\ \A r \in Runs : runPc[r] \in Busy => r = calls[k].run

CallRecords ==
    [op : {"none", "start", "pause", "resume", "cancel", "shutdown"},
     run : 0 .. MaxRuns,
     pc : {"free", "refused", "gate", "state", "emit", "spawn", "openGate", "cancel", "wait"}]

Places == Working \cup {"unused", "exit", "setIdle", "emitIdle", "over"}
Shaped == cur \in 0 .. MaxRuns /\ calls \in [Calls -> CallRecords] /\ runPc \in [Runs -> Places]

LInv ==
    /\ Shaped
    /\ WorkingRunIsHeld
    /\ StoreClosedAfterDrain
    /\ StartsAreNew
    /\ StartsDiffer
    /\ CallsFit
    /\ ClosingWaits

-----------------------------------------------------------------------------

LEMMA InitLInv == Init => LInv
<1>1. SUFFICES ASSUME Init PROVE LInv
  OBVIOUS
<1>2. Shaped
  BY <1>1, LifecycleAssumption DEF Init, Shaped, NoCall, CallRecords, Places
<1>3. QED
  BY <1>1, <1>2 DEF Init, LInv, WorkingRunIsHeld, StoreClosedAfterDrain, StartsAreNew, StartsDiffer,
     CallsFit, ClosingWaits, Starts, NoCall, Working, Busy

-----------------------------------------------------------------------------
(* The calls. Each lemma is about what one action can disturb.                 *)

\* A call that goes on without touching a run, or is over.
LEMMA QuietCall ==
    ASSUME LInv, NEW k \in Calls, NEW STATE c,
           calls' = [calls EXCEPT ![k] = c],
           \/ c = NoCall
           \/ c.op = calls[k].op /\ c.run = calls[k].run /\ calls[k].pc # "refused",
           c.pc = "spawn" => c.op = "start",
           c.pc = "wait" => c.op = "shutdown",
           UNCHANGED <<running, cur, runPc, app>>
    PROVE  /\ WorkingRunIsHeld' /\ StoreClosedAfterDrain'
           /\ StartsAreNew' /\ StartsDiffer' /\ CallsFit' /\ ClosingWaits'
<1> calls \in [Calls -> CallRecords]
  BY DEF LInv, Shaped
<1>1. \A j \in Calls : calls'[j] = IF j = k THEN c ELSE calls[j]
  OBVIOUS
<1>2. \A j \in Calls : Starts(j)' => Starts(j) /\ calls'[j].run = calls[j].run
  BY <1>1 DEF Starts, NoCall
<1>3. StartsAreNew' /\ StartsDiffer'
  BY <1>1, <1>2 DEF LInv, StartsAreNew, StartsDiffer
<1>4. CallsFit'
  BY <1>1 DEF LInv, CallsFit
<1>5. ClosingWaits'
  BY <1>1, SMTT(30) DEF LInv, ClosingWaits, NoCall
<1>6. QED
  BY <1>3, <1>4, <1>5 DEF LInv, WorkingRunIsHeld, StoreClosedAfterDrain

\* The runs keep their places among those that work, and no call becomes a start.
LEMMA QuietRun ==
    ASSUME LInv,
           \A j \in Calls : Starts(j)' => Starts(j) /\ calls'[j].run = calls[j].run,
           \A j \in Calls : calls'[j].op = "shutdown" =>
               calls[j].op = "shutdown" /\ calls'[j].run = calls[j].run,
           \A r \in Runs : runPc'[r] \in Busy => runPc[r] \in Busy,
           \A r \in Runs : runPc[r] = "new" => runPc'[r] = "new",
           UNCHANGED <<running, cur, app>>
    PROVE  /\ WorkingRunIsHeld' /\ StoreClosedAfterDrain'
           /\ StartsAreNew' /\ StartsDiffer' /\ ClosingWaits'
<1>1. WorkingRunIsHeld' /\ StoreClosedAfterDrain'
  BY DEF LInv, WorkingRunIsHeld, StoreClosedAfterDrain, Busy
<1>2. StartsAreNew' /\ StartsDiffer'
  BY DEF LInv, StartsAreNew, StartsDiffer
<1>3. ClosingWaits'
  BY DEF LInv, ClosingWaits
<1>4. QED BY <1>1, <1>2, <1>3

LEMMA StartStep ==
    ASSUME LInv, NEW k \in Calls, NEW n \in JobSizes, StartIngest(k, n)
    PROVE  LInv'
<1> USE DEF CallRecords
<1>1. /\ calls[k] = NoCall /\ app = "open" /\ app' = app
      /\ UNCHANGED <<state, idx, gatePaused, cancelled, uiVars>>
  BY DEF StartIngest, CanCall
<1>2. CASE running
  <2>1. /\ calls' = [calls EXCEPT ![k] = Call("start", 0, "refused")]
        /\ UNCHANGED <<running, cur, runPc, job>>
    BY <1>2 DEF StartIngest
  <2>2. \A j \in Calls : calls'[j] = IF j = k THEN Call("start", 0, "refused") ELSE calls[j]
    BY <2>1 DEF LInv, Shaped
  <2>3. Shaped'
    <3>1. Call("start", 0, "refused") \in CallRecords
      BY LifecycleAssumption DEF Call
    <3>2. QED BY <2>1, <3>1 DEF LInv, Shaped
  <2>4. /\ WorkingRunIsHeld' /\ StoreClosedAfterDrain'
        /\ StartsAreNew' /\ StartsDiffer' /\ ClosingWaits'
    BY <1>1, <2>1, <2>2, QuietRun DEF Starts, Call
  <2>5. CallsFit'
    BY <2>2 DEF LInv, CallsFit, Call
  <2>6. QED BY <2>3, <2>4, <2>5 DEF LInv
<1>3. CASE ~running
  <2>1. PICK r \in Runs : /\ runPc[r] = "unused" /\ cur' = r
                          /\ runPc' = [runPc EXCEPT ![r] = "new"]
                          /\ job' = [job EXCEPT ![r] = n]
                          /\ calls' = [calls EXCEPT ![k] = Call("start", r, "state")]
                          /\ running' = TRUE
    BY <1>3 DEF StartIngest
  <2>2. \A j \in Calls : calls'[j] = IF j = k THEN Call("start", r, "state") ELSE calls[j]
    BY <2>1 DEF LInv, Shaped
  <2>3. \A q \in Runs : runPc'[q] = IF q = r THEN "new" ELSE runPc[q]
    BY <2>1 DEF LInv, Shaped
  <2>4. Shaped'
    <3>1. Call("start", r, "state") \in CallRecords /\ cur' \in 0 .. MaxRuns
      BY <2>1, LifecycleAssumption DEF Call, Runs
    <3>2. QED BY <2>1, <3>1 DEF LInv, Shaped, Places, Working
  <2>5. WorkingRunIsHeld' /\ StoreClosedAfterDrain'
    BY <1>1, <1>3, <2>1, <2>3 DEF LInv, WorkingRunIsHeld, StoreClosedAfterDrain
  <2>6. \A j \in Calls : Starts(j) => calls[j].run # r
    BY <2>1 DEF LInv, StartsAreNew
  <2>7. StartsAreNew' /\ StartsDiffer'
    BY <2>2, <2>3, <2>6 DEF LInv, StartsAreNew, StartsDiffer, Starts, Call
  <2>8. CallsFit' /\ ClosingWaits'
    BY <1>1, <2>2 DEF LInv, CallsFit, ClosingWaits, Call
  <2>9. QED BY <2>4, <2>5, <2>7, <2>8 DEF LInv
<1>4. QED BY <1>2, <1>3

\* Pause, resume and cancel take the run that is held.
LEMMA FetchStep ==
    ASSUME LInv, NEW k \in Calls,
           PauseIngestion(k) \/ ResumeIngestion(k) \/ CancelIngestion(k)
    PROVE  LInv'
<1> USE DEF CallRecords
<1>1. PICK o \in {"pause", "resume", "cancel"}, p \in {"gate", "state"} :
          calls' = [calls EXCEPT ![k] = Call(o, cur, p)]
  BY DEF PauseIngestion, ResumeIngestion, CancelIngestion
<1>2. UNCHANGED <<apiVars, runVars, app, uiVars>>
  BY DEF PauseIngestion, ResumeIngestion, CancelIngestion
<1>3. \A j \in Calls : calls'[j] = IF j = k THEN Call(o, cur, p) ELSE calls[j]
  BY <1>1 DEF LInv, Shaped
<1>4. Shaped'
  BY <1>1, <1>2 DEF LInv, Shaped, Call, apiVars, runVars
<1>5. /\ WorkingRunIsHeld' /\ StoreClosedAfterDrain'
      /\ StartsAreNew' /\ StartsDiffer' /\ ClosingWaits'
  BY <1>2, <1>3, QuietRun DEF Starts, Call, apiVars, runVars
<1>6. CallsFit'
  BY <1>3 DEF LInv, CallsFit, Call
<1>7. QED BY <1>4, <1>5, <1>6 DEF LInv

LEMMA ShutdownStep ==
    ASSUME LInv, NEW k \in Calls, Shutdown(k)
    PROVE  LInv'
<1>1. calls[k] = NoCall /\ app = "open" /\ UNCHANGED <<apiVars, runVars>>
  BY DEF Shutdown, CanCall
<1>2. \A r \in Runs : runPc[r] \in Busy => running /\ r = cur
  BY DEF LInv, WorkingRunIsHeld, Busy
<1>3. CASE running
  <2>1. calls' = [calls EXCEPT ![k] = Call("shutdown", cur, "openGate")] /\ app' = "closing"
    BY <1>3 DEF Shutdown
  <2>2. \A j \in Calls : calls'[j] = IF j = k THEN Call("shutdown", cur, "openGate") ELSE calls[j]
    BY <2>1 DEF LInv, Shaped
  <2>3. Call("shutdown", cur, "openGate") \in CallRecords
    BY DEF LInv, Shaped, Call, CallRecords
  <2>4. Shaped'
    BY <1>1, <2>1, <2>3 DEF LInv, Shaped, apiVars, runVars
  <2>5. WorkingRunIsHeld' /\ StoreClosedAfterDrain'
    BY <1>1, <2>1 DEF LInv, WorkingRunIsHeld, StoreClosedAfterDrain, apiVars, runVars
  <2>6. StartsAreNew' /\ StartsDiffer' /\ CallsFit'
    <3>1. \A j \in Calls : Starts(j)' => Starts(j) /\ calls'[j] = calls[j]
      BY <2>2 DEF Starts, Call
    <3>2. StartsAreNew' /\ StartsDiffer'
      BY <1>1, <3>1 DEF LInv, StartsAreNew, StartsDiffer, runVars
    <3>3. CallsFit'
      BY <2>2 DEF LInv, CallsFit, Call
    <3>4. QED BY <3>2, <3>3
  <2>7. ClosingWaits'
    <3>1. \A j \in Calls : calls'[j].op = "shutdown" => j = k /\ calls'[j].run = cur
      BY <1>1, <2>2 DEF LInv, ClosingWaits, Call
    <3>2. QED BY <1>1, <1>2, <2>1, <3>1 DEF ClosingWaits, runVars
  <2>8. QED BY <2>4, <2>5, <2>6, <2>7 DEF LInv
<1>4. CASE ~running
  <2>1. UNCHANGED calls /\ app' = "drained"
    BY <1>4 DEF Shutdown
  <2>2. StoreClosedAfterDrain'
    BY <1>1, <1>2, <1>4 DEF StoreClosedAfterDrain, runVars, Busy
  <2>3. QED
    BY <1>1, <2>1, <2>2 DEF LInv, Shaped, WorkingRunIsHeld, StartsAreNew, StartsDiffer, CallsFit,
       ClosingWaits, Starts, apiVars, runVars
<1>5. QED BY <1>3, <1>4

\* A call in flight goes on: to its next step, or it is over.
LEMMA GoOnStep ==
    ASSUME LInv, NEW k \in Calls,
           StartRefused(k) \/ TurnGate(k) \/ SetState(k) \/ EmitState(k) \/ OpenGate(k) \/ CancelContext(k)
    PROVE  LInv'
<1>1. calls[k] \in CallRecords
  BY DEF LInv, Shaped
<1>2. UNCHANGED <<running, cur, runPc, app>>
  BY DEF StartRefused, TurnGate, SetState, EmitState, OpenGate, CancelContext, apiVars, runVars
<1>3. PICK c \in CallRecords :
          /\ calls' = [calls EXCEPT ![k] = c]
          /\ \/ c = NoCall
             \/ c.op = calls[k].op /\ c.run = calls[k].run /\ calls[k].pc # "refused"
          /\ c.pc = "spawn" => c.op = "start"
          /\ c.pc = "wait" => c.op = "shutdown"
  <2> DEFINE Old == calls[k]
             Next1(p) == [Old EXCEPT !.pc = p]
  <2>1. NoCall \in CallRecords /\ \A p \in {"state", "emit", "spawn", "openGate", "cancel", "wait"} :
            Next1(p) \in CallRecords /\ Next1(p).op = Old.op /\ Next1(p).run = Old.run /\ Next1(p).pc = p
    <3>1. NoCall \in CallRecords
      BY LifecycleAssumption DEF CallRecords, NoCall
    <3>2. \A p \in {"state", "emit", "spawn", "openGate", "cancel", "wait"} :
              Next1(p) \in CallRecords /\ Next1(p).op = Old.op /\ Next1(p).run = Old.run /\ Next1(p).pc = p
      BY <1>1 DEF CallRecords
    <3>3. QED BY <3>1, <3>2
  <2> HIDE DEF Next1
  <2>2. CASE StartRefused(k)
    BY <2>1, <2>2 DEF StartRefused, NoCall
  <2>3. CASE TurnGate(k)
    BY <2>1, <2>3 DEF TurnGate, Next1
  <2>4. CASE OpenGate(k)
    BY <2>1, <2>4 DEF OpenGate, Next1
  <2>5. CASE CancelContext(k)
    BY <2>1, <2>5 DEF CancelContext, NoCall, Next1
  <2>6. \/ AfterState(Old) = NoCall
        \/ Old.op = "start" /\ AfterState(Old) = Next1("spawn")
        \/ Old.op = "cancel" /\ AfterState(Old) = Next1("openGate")
    BY DEF AfterState, Next1
  <2>7. CASE SetState(k)
    <3>1. \/ calls' = [calls EXCEPT ![k] = AfterState(Old)]
          \/ calls' = [calls EXCEPT ![k] = Next1("emit")]
      BY <2>7 DEF SetState, Next1
    <3>2. Old.pc = "state"
      BY <2>7 DEF SetState
    <3>3. QED BY <2>1, <2>6, <3>1, <3>2 DEF NoCall
  <2>8. CASE EmitState(k)
    <3>1. calls' = [calls EXCEPT ![k] = AfterState(Old)] /\ Old.pc = "emit"
      BY <2>8 DEF EmitState
    <3>2. QED BY <2>1, <2>6, <3>1 DEF NoCall
  <2>9. QED BY <2>2, <2>3, <2>4, <2>5, <2>7, <2>8
<1>4. Shaped'
  BY <1>2, <1>3 DEF LInv, Shaped
<1>5. QED
  BY <1>2, <1>3, <1>4, QuietCall DEF LInv

LEMMA SpawnStep ==
    ASSUME LInv, NEW k \in Calls, Spawn(k)
    PROVE  LInv'
<1> DEFINE r == calls[k].run
<1>1. /\ calls[k].pc = "spawn"
      /\ runPc' = [runPc EXCEPT ![r] = "next"] /\ calls' = [calls EXCEPT ![k] = NoCall]
      /\ UNCHANGED <<running, cur, app>>
  BY DEF Spawn, apiVars
<1>2. Starts(k) /\ r \in Runs /\ runPc[r] = "new"
  BY <1>1 DEF LInv, CallsFit, StartsAreNew, Starts
<1>3. \A j \in Calls : calls'[j] = IF j = k THEN NoCall ELSE calls[j]
  BY <1>1 DEF LInv, Shaped
<1>4. \A q \in Runs : runPc'[q] = IF q = r THEN "next" ELSE runPc[q]
  BY <1>1 DEF LInv, Shaped
<1>5. \A j \in Calls : Starts(j)' => j # k /\ Starts(j) /\ calls'[j].run = calls[j].run
  BY <1>3 DEF Starts, NoCall
<1>6. \A q \in Runs : runPc'[q] \in Busy <=> runPc[q] \in Busy
  BY <1>2, <1>4 DEF Busy, Working
<1>7. Shaped'
  <2>1. NoCall \in CallRecords
    BY LifecycleAssumption DEF NoCall, CallRecords
  <2>2. QED BY <1>1, <2>1 DEF LInv, Shaped, Places, Working
<1>8. WorkingRunIsHeld' /\ StoreClosedAfterDrain'
  BY <1>1, <1>6 DEF LInv, WorkingRunIsHeld, StoreClosedAfterDrain, Busy
<1>9. StartsAreNew'
  BY <1>2, <1>4, <1>5 DEF LInv, StartsAreNew, StartsDiffer
<1>10. StartsDiffer'
  BY <1>5 DEF LInv, StartsDiffer
<1>11. CallsFit' /\ ClosingWaits'
  BY <1>1, <1>3, <1>6 DEF LInv, CallsFit, ClosingWaits, NoCall
<1>12. QED BY <1>7, <1>8, <1>9, <1>10, <1>11 DEF LInv

\* The shutdown says drained only when the one run that could still work is over.
LEMMA ReturnStep ==
    ASSUME LInv, NEW k \in Calls, ShutdownReturns(k)
    PROVE  LInv'
<1>1. /\ calls[k].pc = "wait" /\ calls' = [calls EXCEPT ![k] = NoCall]
      /\ runPc[calls[k].run] = "over" \/ app' # "drained"
      /\ app' # "open" /\ UNCHANGED <<running, cur, runPc>>
  BY DEF ShutdownReturns, apiVars, runVars
<1>2. \A j \in Calls : calls'[j] = IF j = k THEN NoCall ELSE calls[j]
  BY <1>1 DEF LInv, Shaped
<1>3. \A r \in Runs : runPc[r] \in Busy => r = calls[k].run
  BY <1>1 DEF LInv, CallsFit, ClosingWaits
<1>4. StoreClosedAfterDrain'
  BY <1>1, <1>3 DEF StoreClosedAfterDrain, Busy, Working
<1>5. Shaped'
  <2>1. NoCall \in CallRecords
    BY LifecycleAssumption DEF NoCall, CallRecords
  <2>2. QED BY <1>1, <2>1 DEF LInv, Shaped
<1>6. StartsAreNew' /\ StartsDiffer' /\ CallsFit'
  BY <1>1, <1>2 DEF LInv, StartsAreNew, StartsDiffer, CallsFit, Starts, NoCall
<1>7. ClosingWaits' /\ WorkingRunIsHeld'
  BY <1>1, <1>2 DEF LInv, ClosingWaits, WorkingRunIsHeld, NoCall
<1>8. QED BY <1>4, <1>5, <1>6, <1>7 DEF LInv

-----------------------------------------------------------------------------
(* The runs.                                                                   *)

\* A run goes on from one place to another, and works no longer than it did.
LEMMA MoveStep ==
    ASSUME LInv, NEW r \in Runs, NEW p \in Places,
           runPc[r] # "new", runPc[r] \in Busy \/ p \notin Busy,
           runPc' = [runPc EXCEPT ![r] = p],
           UNCHANGED <<running, cur, calls, app>>
    PROVE  LInv'
<1>1. \A q \in Runs : runPc'[q] = IF q = r THEN p ELSE runPc[q]
  BY DEF LInv, Shaped
<1>2. /\ WorkingRunIsHeld' /\ StoreClosedAfterDrain'
      /\ StartsAreNew' /\ StartsDiffer' /\ ClosingWaits'
  BY <1>1, QuietRun DEF Starts
<1>3. Shaped' /\ CallsFit'
  BY DEF LInv, Shaped, CallsFit
<1>4. QED BY <1>2, <1>3 DEF LInv

\* Only the run that is held is given up.
LEMMA GiveUpStep ==
    ASSUME LInv, NEW r \in Runs, GiveUpRun(r)
    PROVE  LInv'
<1>1. /\ runPc[r] = "exit" /\ running' = FALSE /\ cur' = 0
      /\ runPc' = [runPc EXCEPT ![r] = "setIdle"] /\ UNCHANGED <<calls, app>>
  BY DEF GiveUpRun
<1>2. \A q \in Runs : runPc'[q] = IF q = r THEN "setIdle" ELSE runPc[q]
  BY <1>1 DEF LInv, Shaped
<1>3. \A q \in Runs : runPc'[q] \notin Busy
  <2>1. \A q \in Runs : runPc[q] \in Busy => cur = q
    BY DEF LInv, WorkingRunIsHeld, Busy
  <2>2. cur = r
    BY <1>1, <2>1 DEF Busy
  <2>3. "setIdle" \notin Busy
    BY DEF Busy, Working
  <2>4. QED BY <1>2, <2>1, <2>2, <2>3
<1>4. Shaped'
  <2>1. "setIdle" \in Places /\ cur' \in 0 .. MaxRuns
    BY <1>1, LifecycleAssumption DEF Places
  <2>2. QED BY <1>1, <2>1 DEF LInv, Shaped
<1>5. WorkingRunIsHeld' /\ StoreClosedAfterDrain' /\ ClosingWaits'
  BY <1>1, <1>3 DEF LInv, WorkingRunIsHeld, StoreClosedAfterDrain, ClosingWaits, Busy
<1>6. StartsAreNew' /\ StartsDiffer' /\ CallsFit'
  BY <1>1, <1>2 DEF LInv, StartsAreNew, StartsDiffer, CallsFit, Starts
<1>7. QED BY <1>4, <1>5, <1>6 DEF LInv

LEMMA RunMoves ==
    ASSUME LInv, NEW r \in Runs, RunStep(r)
    PROVE  LInv'
<1> USE DEF Busy, Working, Places
<1>1. CASE GiveUpRun(r)
  BY <1>1, GiveUpStep
<1>2. CASE LeaveFiles(r)
  BY <1>2, MoveStep DEF LeaveFiles, apiVars
<1>3. CASE TakeFile(r)
  <2>1. CASE runPc' = [runPc EXCEPT ![r] = "reading"]
    BY <1>3, <2>1, MoveStep DEF TakeFile, apiVars
  <2>2. CASE UNCHANGED runPc
    BY <1>3, <2>2 DEF TakeFile, apiVars, LInv, Shaped, WorkingRunIsHeld, StoreClosedAfterDrain,
       StartsAreNew, StartsDiffer, CallsFit, ClosingWaits, Starts
  <2>3. QED BY <1>3, <2>1, <2>2 DEF TakeFile
<1>4. CASE FileEnds(r)
  BY <1>4, MoveStep DEF FileEnds, apiVars
<1>5. CASE SetIdle(r)
  BY <1>5, MoveStep DEF SetIdle
<1>6. CASE EmitIdle(r)
  BY <1>6, MoveStep DEF EmitIdle, apiVars
<1>7. QED BY <1>1, <1>2, <1>3, <1>4, <1>5, <1>6 DEF RunStep

-----------------------------------------------------------------------------

LEMMA StepLInv == LInv /\ [Next]_vars => LInv'
<1>1. SUFFICES ASSUME LInv, [Next]_vars PROVE LInv'
  OBVIOUS
<1>2. ASSUME NEW k \in Calls, UserStep(k) PROVE LInv'
  BY <1>1, <1>2, StartStep, FetchStep, ShutdownStep DEF UserStep
<1>3. ASSUME NEW k \in Calls, CallStep(k) PROVE LInv'
  BY <1>1, <1>3, GoOnStep, SpawnStep, ReturnStep DEF CallStep
<1>4. ASSUME NEW r \in Runs, RunStep(r) PROVE LInv'
  BY <1>1, <1>4, RunMoves
<1>5. CASE UNCHANGED vars
  BY <1>1, <1>5 DEF vars, apiVars, runVars, uiVars, LInv, Shaped, WorkingRunIsHeld,
     StoreClosedAfterDrain, StartsAreNew, StartsDiffer, CallsFit, ClosingWaits, Starts
<1>6. QED BY <1>1, <1>2, <1>3, <1>4, <1>5 DEF Next

\* A run that works is the one the calls of EventsAPI reach: a paused run can always be resumed or
\* cancelled, whatever calls race with it and with each other (api_events.go, the critical sections
\* under a.mu).
THEOREM WorkingRunHeld == Spec => []WorkingRunIsHeld
<1>1. LInv => WorkingRunIsHeld
  BY DEF LInv
<1>2. QED BY <1>1, InitLInv, StepLInv, PTL DEF Spec

\* When the shutdown has drained, no run works any more, and none ever will: the store may be closed
\* (app.go, shutdown; api_events.go, Shutdown).
THEOREM ClosedAfterDrain == Spec => []StoreClosedAfterDrain
<1>1. LInv => StoreClosedAfterDrain
  BY DEF LInv
<1>2. QED BY <1>1, InitLInv, StepLInv, PTL DEF Spec

-----------------------------------------------------------------------------
(* The files.                                                                  *)

\* The chunks in a channel, where 0 is a message about none.
Elems(s) == {c \in Chunks : \E i \in 1 .. Len(s) : s[i] = c}
NoRepeat(s) == \A i, j \in 1 .. Len(s) : i # j /\ s[i] = s[j] => s[i] = 0

Ended == {"done", "unopened"}
Held(f) == {c \in Chunks : \E w \in Workers : held[f][w] = c}
Received(f) == {c \in Chunks : got[f][c] # 0}
UnderWay(f) == Elems(offsetCh[f]) \cup Held(f) \cup Elems(resultCh[f]) \cup Received(f)

\* A chunk is in one place.
OnePlace(f) ==
    /\ NoRepeat(offsetCh[f]) /\ NoRepeat(resultCh[f])
    /\ \A v, w \in Workers : v # w /\ held[f][v] = held[f][w] => held[f][v] = 0
    /\ Elems(offsetCh[f]) \cap (Held(f) \cup Elems(resultCh[f]) \cup Received(f)) = {}
    /\ Held(f) \cap (Elems(resultCh[f]) \cup Received(f)) = {}
    /\ Elems(resultCh[f]) \cap Received(f) = {}
    /\ \A c \in Chunks : got[f][c] <= 1
\* Only what has been fed is anywhere.
Fed(f) == sent[f] <= total[f] /\ UnderWay(f) \subseteq 1 .. sent[f]
WorkersFit(f) ==
    /\ \A w \in Workers : wpc[f][w] # "send" => held[f][w] = 0
    /\ f > file => /\ sent[f] = 0 /\ ~producing[f] /\ outcome[f] = "none"
                   /\ \A w \in Workers : wpc[f][w] = "none"
    /\ closed[f] => \A w \in Workers : wpc[f][w] \in Ended
    /\ outcome[f] = "completed" => closed[f]
\* Nothing falls out unless the context is cancelled.
Kept(f) ==
    /\ 1 .. sent[f] \subseteq UnderWay(f)
    /\ ~producing[f] => sent[f] = total[f]
    /\ \A w \in Workers : wpc[f][w] = "done" => offsetCh[f] = <<>> /\ ~producing[f]
    /\ outcome[f] = "completed" /\ SomeoneRead(f) => Whole(f)

FileInv(f) == OnePlace(f) /\ Fed(f) /\ WorkersFit(f) /\ (~ctx => Kept(f))

FileShaped ==
    /\ file \in 0 .. Files
    /\ total \in [FileIds -> 0 .. MaxChunks]
    /\ sent \in [FileIds -> Nat]
    /\ producing \in [FileIds -> BOOLEAN]
    /\ offsetCh \in [FileIds -> Seq(0 .. MaxChunks)]
    /\ resultCh \in [FileIds -> Seq(0 .. MaxChunks)]
    /\ wpc \in [FileIds -> [Workers -> {"none", "open", "report", "take", "send", "done", "unopened"}]]
    /\ held \in [FileIds -> [Workers -> 0 .. MaxChunks]]
    /\ closed \in [FileIds -> BOOLEAN]
    /\ outcome \in [FileIds -> Over \cup {"none", "running"}]
    /\ got \in [FileIds -> [Chunks -> Nat]]

PInv == FileShaped /\ \A f \in FileIds : FileInv(f)

-----------------------------------------------------------------------------
(* The channels as sets                                                        *)

LEMMA AppendElems ==
    ASSUME NEW s \in Seq(0 .. MaxChunks), NEW c \in 0 .. MaxChunks
    PROVE  /\ Elems(Append(s, c)) = Elems(s) \cup ({c} \ {0})
           /\ NoRepeat(s) /\ c \notin Elems(s) => NoRepeat(Append(s, c))
<1>1. /\ Len(Append(s, c)) = Len(s) + 1 /\ Len(s) \in Nat
      /\ \A i \in 1 .. Len(s) : Append(s, c)[i] = s[i] /\ s[i] \in 0 .. MaxChunks
      /\ Append(s, c)[Len(s) + 1] = c
      /\ MaxChunks \in Nat
  BY PipelineAssumption
<1>2. 1 .. Len(s) + 1 = (1 .. Len(s)) \cup {Len(s) + 1}
  BY <1>1
<1>3. Elems(Append(s, c)) = Elems(s) \cup ({c} \ {0})
  BY <1>1, <1>2 DEF Elems, Chunks
<1>4. ASSUME NoRepeat(s), c \notin Elems(s) PROVE NoRepeat(Append(s, c))
  BY <1>1, <1>2, <1>4, SMTT(30) DEF NoRepeat, Elems, Chunks
<1>5. QED BY <1>3, <1>4

LEMMA TailElems ==
    ASSUME NEW s \in Seq(0 .. MaxChunks), s # <<>>
    PROVE  /\ Head(s) \in 0 .. MaxChunks /\ Tail(s) \in Seq(0 .. MaxChunks)
           /\ Elems(s) = Elems(Tail(s)) \cup ({Head(s)} \ {0})
           /\ NoRepeat(s) => NoRepeat(Tail(s)) /\ Head(s) \notin Elems(Tail(s))
<1>1. /\ Len(s) \in Nat \ {0} /\ Len(Tail(s)) = Len(s) - 1
      /\ Head(s) = s[1]
      /\ \A i \in 1 .. Len(s) : s[i] \in 0 .. MaxChunks
      /\ \A i \in 1 .. Len(s) - 1 : Tail(s)[i] = s[i + 1]
      /\ Head(s) \in 0 .. MaxChunks /\ Tail(s) \in Seq(0 .. MaxChunks)
      /\ MaxChunks \in Nat
  BY PipelineAssumption
<1>2. /\ \A i \in 2 .. Len(s) : i - 1 \in 1 .. Len(s) - 1 /\ Tail(s)[i - 1] = s[i]
      /\ \A i \in 1 .. Len(s) - 1 : i + 1 \in 2 .. Len(s)
  BY <1>1
<1>3. 1 .. Len(s) = {1} \cup 2 .. Len(s)
  BY <1>1
<1>4. \A c \in Chunks : c \in Elems(Tail(s)) <=> \E i \in 2 .. Len(s) : s[i] = c
  BY <1>1, <1>2 DEF Elems
<1>5. Elems(s) = Elems(Tail(s)) \cup ({Head(s)} \ {0})
  <2>1. \A c \in Chunks : c \in Elems(s) <=> c = Head(s) \/ c \in Elems(Tail(s))
    BY <1>1, <1>3, <1>4 DEF Elems
  <2>2. Elems(s) \subseteq Chunks /\ Elems(Tail(s)) \subseteq Chunks
    BY DEF Elems
  <2>3. Head(s) \in Chunks \cup {0} /\ 0 \notin Chunks
    BY <1>1 DEF Chunks
  <2>4. QED BY <2>1, <2>2, <2>3
<1>6. ASSUME NoRepeat(s) PROVE NoRepeat(Tail(s)) /\ Head(s) \notin Elems(Tail(s))
  <2>1. ASSUME NEW i \in 1 .. Len(s) - 1, NEW j \in 1 .. Len(s) - 1,
               i # j, Tail(s)[i] = Tail(s)[j]
        PROVE  Tail(s)[i] = 0
    <3>1. i + 1 \in 1 .. Len(s) /\ j + 1 \in 1 .. Len(s) /\ i + 1 # j + 1
      <4>1. Len(s) \in Nat \ {0} /\ i \in 1 .. Len(s) - 1 /\ j \in 1 .. Len(s) - 1 /\ i # j
        BY <1>1, <2>1
      <4>2. QED BY ONLY <4>1, SMT
    <3>2. QED BY <1>1, <1>6, <2>1, <3>1 DEF NoRepeat
  <2>2. NoRepeat(Tail(s))
    BY <1>1, <2>1 DEF NoRepeat
  <2>3. Head(s) \notin Elems(Tail(s))
    <3>1. ASSUME Head(s) \in Elems(Tail(s)) PROVE FALSE
      <4>1. Head(s) \in Chunks /\ \E i \in 2 .. Len(s) : s[i] = Head(s)
        BY <1>4, <3>1 DEF Elems
      <4>2. PICK i \in 2 .. Len(s) : s[i] = s[1]
        BY <1>1, <4>1
      <4>3. i \in 1 .. Len(s) /\ 1 \in 1 .. Len(s) /\ i # 1
        BY <1>1
      <4>4. s[i] = 0
        BY <1>6, <4>2, <4>3 DEF NoRepeat
      <4>5. QED BY <1>1, <4>1, <4>2, <4>4 DEF Chunks
    <3>2. QED BY <3>1
  <2>4. QED BY <2>2, <2>3
<1>7. QED BY <1>1, <1>5, <1>6

LEMMA NoElems == Elems(<<>>) = {} /\ NoRepeat(<<>>)
BY DEF Elems, NoRepeat

-----------------------------------------------------------------------------

LEMMA InitPInv == PipelineInit => PInv
<1>1. SUFFICES ASSUME PipelineInit PROVE PInv
  OBVIOUS
<1>2. FileShaped
  BY <1>1, PipelineAssumption DEF PipelineInit, FileShaped
<1>3. ASSUME NEW f \in FileIds PROVE FileInv(f)
  <2>1. /\ offsetCh[f] = <<>> /\ resultCh[f] = <<>> /\ sent[f] = 0 /\ total[f] = 0
        /\ \A w \in Workers : held[f][w] = 0 /\ wpc[f][w] = "none"
        /\ \A c \in Chunks : got[f][c] = 0
        /\ ~closed[f] /\ ~producing[f] /\ outcome[f] = "none"
    BY <1>1 DEF PipelineInit
  <2>2. Held(f) = {} /\ Received(f) = {}
    BY <2>1 DEF Held, Received, Chunks
  <2>3. OnePlace(f)
    BY <2>1, <2>2, NoElems DEF OnePlace
  <2>4. Fed(f)
    BY <2>1, <2>2, NoElems DEF Fed, UnderWay
  <2>5. WorkersFit(f)
    BY <2>1 DEF WorkersFit
  <2>6. Kept(f)
    BY <2>1 DEF Kept
  <2>7. QED BY <2>3, <2>4, <2>5, <2>6 DEF FileInv
<1>4. QED BY <1>2, <1>3 DEF PInv

\* A file of which nothing changes keeps what it has, whatever the others do.
LEMMA OtherFile ==
    ASSUME NEW f \in FileIds, FileInv(f),
           /\ total'[f] = total[f] /\ sent'[f] = sent[f] /\ producing'[f] = producing[f]
           /\ offsetCh'[f] = offsetCh[f] /\ resultCh'[f] = resultCh[f]
           /\ closed'[f] = closed[f] /\ outcome'[f] = outcome[f] /\ got'[f] = got[f]
           /\ \A w \in Workers : wpc'[f][w] = wpc[f][w] /\ held'[f][w] = held[f][w],
           f > file' => f > file,
           ~ctx' => ~ctx
    PROVE  FileInv(f)'
<1>1. Held(f)' = Held(f) /\ Received(f)' = Received(f)
  BY DEF Held, Received
<1>2. UnderWay(f)' = UnderWay(f)
  BY <1>1 DEF UnderWay
<1>3. OnePlace(f)' /\ Fed(f)'
  BY <1>1, <1>2 DEF FileInv, OnePlace, Fed
<1>4. WorkersFit(f)'
  BY DEF FileInv, WorkersFit
<1>5. Kept(f) => Kept(f)'
  BY <1>2 DEF Kept, SomeoneRead, Whole
<1>6. QED BY <1>3, <1>4, <1>5 DEF FileInv

-----------------------------------------------------------------------------
(* The job                                                                     *)

LEMMA JobStep == ASSUME PInv, Job PROVE PInv'
<1>1. /\ file \in 0 .. Files /\ file < Files /\ Files \in Nat
      /\ file' = file + 1 /\ ctx' = ctx /\ file' \in FileIds /\ file' > file
  BY PipelineAssumption DEF PInv, FileShaped, Job, FileUnreadable, IngestFile, NextFile, FileIds
<1>2. ASSUME NEW f \in FileIds, f # file' PROVE f > file' => f > file
  BY <1>1 DEF FileIds
<1>3. CASE FileUnreadable
  <2>1. /\ outcome' = [outcome EXCEPT ![file'] = "unreadable"]
        /\ UNCHANGED <<total, sent, producing, offsetCh, resultCh, wpc, held, closed, got>>
    BY <1>3 DEF FileUnreadable
  <2>2. FileShaped'
    <3>1. /\ file' \in 0 .. Files
          /\ outcome' \in [FileIds -> Over \cup {"none", "running"}]
      BY <1>1, <2>1 DEF PInv, FileShaped, Over
    <3>2. QED BY <2>1, <3>1 DEF PInv, FileShaped
  <2>3. ASSUME NEW f \in FileIds PROVE FileInv(f)'
    <3>1. FileInv(f)
      BY DEF PInv
    <3>2. CASE f # file'
      <4>1. outcome'[f] = outcome[f]
        BY <2>1, <3>2 DEF PInv, FileShaped
      <4>2. QED BY <1>1, <1>2, <2>1, <3>1, <3>2, <4>1, OtherFile
    <3>3. CASE f = file'
      <4>1. outcome'[f] = "unreadable" /\ f > file
        BY <1>1, <2>1, <3>3 DEF PInv, FileShaped
      <4>2. OnePlace(f)' /\ Fed(f)'
        BY <2>1, <3>1 DEF FileInv, OnePlace, Fed, UnderWay, Held, Received
      <4>3. ~(f > file')
        BY <1>1, <3>3 DEF FileIds
      <4>4. WorkersFit(f)'
        BY <2>1, <3>1, <4>1, <4>3 DEF FileInv, WorkersFit
      <4>5. Kept(f) => Kept(f)'
        BY <2>1, <4>1 DEF Kept, UnderWay, Held, Received
      <4>6. QED BY <1>1, <3>1, <4>2, <4>4, <4>5 DEF FileInv
    <3>4. QED BY <3>2, <3>3
  <2>4. QED BY <2>2, <2>3 DEF PInv
<1>4. ASSUME NEW n \in 0 .. MaxChunks, IngestFile(n) PROVE PInv'
  <2>1. /\ total' = [total EXCEPT ![file'] = n]
        /\ producing' = [producing EXCEPT ![file'] = TRUE]
        /\ wpc' = [wpc EXCEPT ![file'] = [w \in Workers |-> "open"]]
        /\ outcome' = [outcome EXCEPT ![file'] = "running"]
        /\ UNCHANGED <<sent, offsetCh, resultCh, held, closed, got>>
    BY <1>4 DEF IngestFile
  <2>2. FileShaped'
    <3>1. /\ file' \in 0 .. Files
          /\ total' \in [FileIds -> 0 .. MaxChunks]
          /\ producing' \in [FileIds -> BOOLEAN]
          /\ outcome' \in [FileIds -> Over \cup {"none", "running"}]
      BY <1>1, <2>1 DEF PInv, FileShaped, Over
    <3>2. wpc' \in [FileIds -> [Workers -> {"none", "open", "report", "take", "send", "done",
                                            "unopened"}]]
      BY <1>1, <2>1 DEF PInv, FileShaped
    <3>3. QED BY <2>1, <3>1, <3>2 DEF PInv, FileShaped
  <2>3. ASSUME NEW f \in FileIds PROVE FileInv(f)'
    <3>1. FileInv(f)
      BY DEF PInv
    <3>2. CASE f # file'
      <4>1. /\ outcome'[f] = outcome[f] /\ total'[f] = total[f] /\ producing'[f] = producing[f]
            /\ wpc'[f] = wpc[f]
        BY <2>1, <3>2 DEF PInv, FileShaped
      <4>2. QED BY <1>1, <1>2, <2>1, <3>1, <3>2, <4>1, OtherFile
    <3>3. CASE f = file'
      <4>1. /\ outcome'[f] = "running" /\ total'[f] = n /\ producing'[f] /\ f > file
            /\ \A w \in Workers : wpc'[f][w] = "open"
        BY <1>1, <2>1, <3>3 DEF PInv, FileShaped
      <4>2. /\ sent[f] = 0 /\ ~(f > file')
            /\ \A w \in Workers : wpc[f][w] = "none" /\ held[f][w] = 0
            /\ \A w \in Workers : wpc[f][w] \notin Ended
        BY <1>1, <3>1, <3>3, <4>1 DEF FileInv, WorkersFit, Ended, FileIds
      <4>3. OnePlace(f)' /\ Fed(f)'
        BY <2>1, <3>1, <4>1, <4>2 DEF FileInv, OnePlace, Fed, UnderWay, Held, Received
      <4>4. WorkersFit(f)'
        BY <2>1, <3>1, <4>1, <4>2 DEF FileInv, WorkersFit
      <4>5. Kept(f) => Kept(f)'
        BY <2>1, <4>1, <4>2 DEF Kept, UnderWay, Held, Received
      <4>6. QED BY <1>1, <3>1, <4>3, <4>4, <4>5 DEF FileInv
    <3>4. QED BY <3>2, <3>3
  <2>4. QED BY <2>2, <2>3 DEF PInv
<1>5. QED BY <1>3, <1>4 DEF Job

LEMMA GateStep == ASSUME PInv, CancelFiles \/ TurnSinkGate PROVE PInv'
<1>1. /\ UNCHANGED <<file, total, sent, producing, offsetCh, resultCh, wpc, held, closed, outcome,
                     got>>
      /\ ~ctx' => ~ctx
  BY DEF CancelFiles, TurnSinkGate
<1>2. FileShaped'
  BY <1>1 DEF PInv, FileShaped
<1>3. ASSUME NEW f \in FileIds PROVE FileInv(f)'
  BY <1>1, OtherFile DEF PInv
<1>4. QED BY <1>2, <1>3 DEF PInv

-----------------------------------------------------------------------------
(* The goroutines of a file                                                    *)

\* What a goroutine of f does leaves the other files alone.
LEMMA OneFile ==
    ASSUME PInv, NEW f \in FileIds, FileShaped', FileInv(f)',
           \A g \in FileIds \ {f} :
               /\ sent'[g] = sent[g] /\ producing'[g] = producing[g]
               /\ offsetCh'[g] = offsetCh[g] /\ resultCh'[g] = resultCh[g]
               /\ wpc'[g] = wpc[g] /\ held'[g] = held[g]
               /\ closed'[g] = closed[g] /\ outcome'[g] = outcome[g] /\ got'[g] = got[g],
           UNCHANGED <<file, ctx, total>>
    PROVE  PInv'
<1>1. ASSUME NEW g \in FileIds PROVE FileInv(g)'
  <2>1. CASE g = f
    BY <2>1
  <2>2. CASE g # f
    BY <2>2, OtherFile DEF PInv
  <2>3. QED BY <2>1, <2>2
<1>2. QED BY <1>1 DEF PInv

\* What f's part of the state is.
LEMMA FileShape ==
    ASSUME PInv, NEW f \in FileIds
    PROVE  /\ total[f] \in 0 .. MaxChunks /\ sent[f] \in Nat /\ MaxChunks \in Nat
           /\ offsetCh[f] \in Seq(0 .. MaxChunks) /\ resultCh[f] \in Seq(0 .. MaxChunks)
           /\ \A w \in Workers : held[f][w] \in 0 .. MaxChunks
           /\ \A c \in Chunks : got[f][c] \in Nat
           /\ OnePlace(f) /\ Fed(f) /\ WorkersFit(f) /\ (~ctx => Kept(f))
BY PipelineAssumption DEF PInv, FileShaped, FileInv

LEMMA FeedStep == ASSUME PInv, NEW f \in FileIds, Feed(f) PROVE PInv'
<1> DEFINE c == sent[f] + 1
<1>1. /\ producing[f] /\ sent[f] < total[f]
      /\ offsetCh' = [offsetCh EXCEPT ![f] = Append(@, c)]
      /\ sent' = [sent EXCEPT ![f] = c]
      /\ UNCHANGED <<file, ctx, total, producing, resultCh, wpc, held, closed, outcome, got>>
  BY DEF Feed, PInv, FileShaped
<1>2. /\ c \in 1 .. MaxChunks /\ c \in 0 .. MaxChunks /\ c \in Nat /\ c \notin 1 .. sent[f]
      /\ c <= total[f] /\ 1 .. c = (1 .. sent[f]) \cup {c}
  BY <1>1, FileShape
<1>3. sent'[f] = c /\ offsetCh'[f] = Append(offsetCh[f], c)
  BY <1>1 DEF PInv, FileShaped
<1> HIDE DEF c
<1>4. Elems(offsetCh'[f]) = Elems(offsetCh[f]) \cup {c} /\ c \notin UnderWay(f)
  BY <1>2, <1>3, FileShape, AppendElems DEF Fed
<1>5. NoRepeat(offsetCh'[f])
  BY <1>2, <1>3, <1>4, FileShape, AppendElems DEF UnderWay, OnePlace
<1>6. FileShaped'
  <2>1. sent' \in [FileIds -> Nat] /\ offsetCh' \in [FileIds -> Seq(0 .. MaxChunks)]
    BY <1>1, <1>2, FileShape DEF PInv, FileShaped
  <2>2. QED BY <1>1, <2>1 DEF PInv, FileShaped
<1>7. Held(f)' = Held(f) /\ Received(f)' = Received(f) /\ UnderWay(f)' = UnderWay(f) \cup {c}
  BY <1>1, <1>4 DEF Held, Received, UnderWay
<1>8. OnePlace(f)'
  <2>1. OnePlace(f) /\ UNCHANGED <<held, resultCh, got>>
    BY <1>1, FileShape
  <2>2. c \notin Held(f) \cup Elems(resultCh[f]) \cup Received(f)
    BY <1>4 DEF UnderWay
  <2>3. Elems(offsetCh'[f]) \cap (Held(f) \cup Elems(resultCh[f]) \cup Received(f)) = {}
    BY <1>4, <2>1, <2>2 DEF OnePlace
  <2>4. QED BY <1>5, <1>7, <2>1, <2>3 DEF OnePlace
<1>9. Fed(f)'
  BY <1>1, <1>2, <1>3, <1>7, FileShape DEF Fed
<1>10. WorkersFit(f)'
  BY <1>1, FileShape DEF WorkersFit
<1>11. Kept(f) => Kept(f)'
  BY <1>1, <1>2, <1>3, <1>7 DEF Kept, SomeoneRead, Whole
<1>12. FileInv(f)'
  BY <1>1, <1>8, <1>9, <1>10, <1>11, FileShape DEF FileInv
<1>13. QED BY <1>1, <1>6, <1>12, OneFile DEF PInv, FileShaped

LEMMA FeedOverStep == ASSUME PInv, NEW f \in FileIds, FeedOver(f) PROVE PInv'
<1>1. /\ producing' = [producing EXCEPT ![f] = FALSE]
      /\ sent[f] = total[f] \/ ctx
      /\ UNCHANGED <<file, ctx, total, sent, offsetCh, resultCh, wpc, held, closed, outcome, got>>
  BY DEF FeedOver
<1>2. ~producing'[f]
  BY <1>1 DEF PInv, FileShaped
<1>3. FileShaped'
  BY <1>1 DEF PInv, FileShaped
<1>4. Held(f)' = Held(f) /\ Received(f)' = Received(f) /\ UnderWay(f)' = UnderWay(f)
  BY <1>1 DEF Held, Received, UnderWay
<1>5. OnePlace(f)' /\ Fed(f)'
  BY <1>1, <1>4, FileShape DEF OnePlace, Fed
<1>6. WorkersFit(f)'
  BY <1>1, <1>2, FileShape DEF WorkersFit
<1>7. Kept(f) /\ ~ctx => Kept(f)'
  BY <1>1, <1>2, <1>4 DEF Kept, SomeoneRead, Whole
<1>8. FileInv(f)'
  BY <1>1, <1>5, <1>6, <1>7, FileShape DEF FileInv
<1>9. QED BY <1>1, <1>3, <1>8, OneFile DEF PInv, FileShaped

-----------------------------------------------------------------------------
(* The workers                                                                 *)

\* A worker that moves on, without touching the chunk it holds or the channels.
LEMMA WorkerMoves ==
    ASSUME PInv, NEW f \in FileIds, NEW w \in Workers,
           NEW there \in {"take", "report", "unopened", "done"},
           wpc[f][w] \in {"open", "report", "take"},
           wpc' = [wpc EXCEPT ![f][w] = there],
           there = "done" => offsetCh[f] = <<>> /\ ~producing[f],
           UNCHANGED <<file, ctx, total, sent, producing, offsetCh, held, closed, outcome, got>>,
           FileShaped', Elems(resultCh'[f]) = Elems(resultCh[f]), NoRepeat(resultCh'[f]),
           \A g \in FileIds \ {f} : resultCh'[g] = resultCh[g]
    PROVE  PInv'
<1>1. /\ wpc'[f][w] = there
      /\ \A v \in Workers : v # w => wpc'[f][v] = wpc[f][v]
      /\ \A g \in FileIds \ {f} : wpc'[g] = wpc[g]
  BY DEF PInv, FileShaped
<1>2. wpc[f][w] \notin Ended /\ wpc[f][w] # "none" /\ held[f][w] = 0
  BY FileShape DEF Ended, WorkersFit
<1>3. Held(f)' = Held(f) /\ Received(f)' = Received(f) /\ UnderWay(f)' = UnderWay(f)
  BY DEF Held, Received, UnderWay
<1>4. OnePlace(f)' /\ Fed(f)'
  BY <1>3, FileShape DEF OnePlace, Fed
<1>5. ~closed[f] /\ outcome[f] # "completed"
  BY <1>2, FileShape DEF WorkersFit
<1>6. WorkersFit(f)'
  BY <1>1, <1>2, <1>5, FileShape DEF WorkersFit
<1>7. Kept(f) => Kept(f)'
  BY <1>1, <1>3, <1>5 DEF Kept
<1>8. FileInv(f)'
  BY <1>4, <1>6, <1>7, FileShape DEF FileInv
<1>9. QED BY <1>1, <1>8, OneFile

LEMMA OpenStep == ASSUME PInv, NEW f \in FileIds, NEW w \in Workers, OpenHandle(f, w) PROVE PInv'
<1>1. PICK there \in {"take", "report"} : wpc[f][w] = "open" /\ wpc' = [wpc EXCEPT ![f][w] = there]
  BY DEF OpenHandle, At
<1>2. UNCHANGED <<file, ctx, total, sent, producing, offsetCh, resultCh, held, closed, outcome, got>>
  BY DEF OpenHandle
<1>3. FileShaped'
  BY <1>1, <1>2 DEF PInv, FileShaped
<1>4. QED BY <1>1, <1>2, <1>3, FileShape, WorkerMoves DEF OnePlace

LEMMA ReportStep ==
    ASSUME PInv, NEW f \in FileIds, NEW w \in Workers, ReportUnopened(f, w) PROVE PInv'
<1>1. wpc[f][w] = "report" /\ wpc' = [wpc EXCEPT ![f][w] = "unopened"]
  BY DEF ReportUnopened, At
<1>2. /\ UNCHANGED <<file, ctx, total, sent, producing, offsetCh, held, closed, outcome, got>>
      /\ \/ resultCh' = [resultCh EXCEPT ![f] = Append(@, 0)]
         \/ UNCHANGED resultCh
  BY DEF ReportUnopened
<1>3. /\ resultCh' \in [FileIds -> Seq(0 .. MaxChunks)]
      /\ Elems(resultCh'[f]) = Elems(resultCh[f]) /\ NoRepeat(resultCh'[f])
      /\ \A g \in FileIds \ {f} : resultCh'[g] = resultCh[g]
  <2>1. CASE UNCHANGED resultCh
    BY <2>1, FileShape DEF OnePlace, PInv, FileShaped
  <2>2. CASE resultCh' = [resultCh EXCEPT ![f] = Append(@, 0)]
    <3>1. resultCh'[f] = Append(resultCh[f], 0) /\ 0 \in 0 .. MaxChunks /\ 0 \notin Chunks
      BY <2>2, FileShape DEF PInv, FileShaped, Chunks
    <3>2. Elems(resultCh'[f]) = Elems(resultCh[f]) /\ NoRepeat(resultCh'[f])
      BY <3>1, FileShape, AppendElems DEF OnePlace, Elems
    <3>3. resultCh' \in [FileIds -> Seq(0 .. MaxChunks)]
      BY <2>2, <3>1, FileShape DEF PInv, FileShaped
    <3>4. QED BY <2>2, <3>2, <3>3 DEF PInv, FileShaped
  <2>3. QED BY <1>2, <2>1, <2>2
<1>4. FileShaped'
  BY <1>1, <1>2, <1>3 DEF PInv, FileShaped
<1>5. QED BY <1>1, <1>2, <1>3, <1>4, WorkerMoves

LEMMA OffsetsOverStep ==
    ASSUME PInv, NEW f \in FileIds, NEW w \in Workers, OffsetsOver(f, w) PROVE PInv'
<1>1. /\ wpc[f][w] = "take" /\ wpc' = [wpc EXCEPT ![f][w] = "done"]
      /\ offsetCh[f] = <<>> /\ ~producing[f]
  BY DEF OffsetsOver, At
<1>2. UNCHANGED <<file, ctx, total, sent, producing, offsetCh, resultCh, held, closed, outcome, got>>
  BY DEF OffsetsOver
<1>3. FileShaped'
  BY <1>1, <1>2 DEF PInv, FileShaped
<1>4. QED BY <1>1, <1>2, <1>3, FileShape, WorkerMoves DEF OnePlace

LEMMA TakeStep == ASSUME PInv, NEW f \in FileIds, NEW w \in Workers, TakeOffset(f, w) PROVE PInv'
<1> DEFINE c == Head(offsetCh[f])
<1>1. /\ offsetCh[f] # <<>> /\ wpc[f][w] = "take"
      /\ offsetCh' = [offsetCh EXCEPT ![f] = Tail(@)]
      /\ UNCHANGED <<file, ctx, total, sent, producing, resultCh, closed, outcome, got>>
      /\ \/ ctx /\ wpc' = [wpc EXCEPT ![f][w] = "done"] /\ UNCHANGED held
         \/ wpc' = [wpc EXCEPT ![f][w] = "send"] /\ held' = [held EXCEPT ![f][w] = c]
  BY DEF TakeOffset, At
<1>2. offsetCh'[f] = Tail(offsetCh[f])
  BY <1>1 DEF PInv, FileShaped
<1>3. /\ c \in 0 .. MaxChunks /\ Tail(offsetCh[f]) \in Seq(0 .. MaxChunks)
      /\ Elems(offsetCh[f]) = Elems(offsetCh'[f]) \cup ({c} \ {0})
      /\ NoRepeat(offsetCh'[f]) /\ c \notin Elems(offsetCh'[f])
  <2>1. offsetCh[f] \in Seq(0 .. MaxChunks) /\ offsetCh[f] # <<>> /\ NoRepeat(offsetCh[f])
    BY <1>1, FileShape DEF OnePlace
  <2>2. QED BY <1>2, <2>1, TailElems
<1>4. c \in {0} \cup Elems(offsetCh[f]) /\ (c # 0 => c \in Chunks)
  BY <1>3, FileShape DEF Chunks
<1> HIDE DEF c
<1>5. /\ wpc'[f][w] \in {"done", "send"}
      /\ \A v \in Workers : v # w => wpc'[f][v] = wpc[f][v] /\ held'[f][v] = held[f][v]
      /\ \A g \in FileIds \ {f} : /\ wpc'[g] = wpc[g] /\ held'[g] = held[g]
                                  /\ offsetCh'[g] = offsetCh[g]
  BY <1>1 DEF PInv, FileShaped
<1>6. /\ held[f][w] = 0 /\ ~closed[f] /\ outcome[f] # "completed" /\ ~(f > file)
      /\ \A v \in Workers : held[f][v] # c \/ c = 0
  <2>1. held[f][w] = 0 /\ ~closed[f] /\ outcome[f] # "completed" /\ ~(f > file)
    BY <1>1, FileShape DEF WorkersFit, Ended
  <2>2. \A v \in Workers : held[f][v] # c \/ c = 0
    BY <1>4, FileShape DEF OnePlace, Held
  <2>3. QED BY <2>1, <2>2
<1>7. FileShaped'
  <2>1. /\ offsetCh' \in [FileIds -> Seq(0 .. MaxChunks)]
        /\ held' \in [FileIds -> [Workers -> 0 .. MaxChunks]]
    <3>1. /\ offsetCh \in [FileIds -> Seq(0 .. MaxChunks)]
          /\ held \in [FileIds -> [Workers -> 0 .. MaxChunks]]
      BY DEF PInv, FileShaped
    <3>2. held' = held \/ held' = [held EXCEPT ![f][w] = c]
      BY <1>1
    <3>3. offsetCh' = [offsetCh EXCEPT ![f] = Tail(offsetCh[f])]
      BY <1>1
    <3>4. offsetCh' \in [FileIds -> Seq(0 .. MaxChunks)]
      BY <1>3, <3>1, <3>3
    <3>5. held' \in [FileIds -> [Workers -> 0 .. MaxChunks]]
      <4>1. c \in 0 .. MaxChunks
        BY <1>3
      <4>2. CASE held' = held
        BY <3>1, <4>2
      <4>3. CASE held' = [held EXCEPT ![f][w] = c]
        <5>1. held[f] \in [Workers -> 0 .. MaxChunks]
          BY <3>1
        <5>2. [held[f] EXCEPT ![w] = c] \in [Workers -> 0 .. MaxChunks]
          BY <4>1, <5>1
        <5>3. QED BY <3>1, <4>3, <5>2
      <4>4. QED BY <3>2, <4>2, <4>3
    <3>6. QED BY <3>4, <3>5
  <2>2. wpc' \in [FileIds -> [Workers -> {"none", "open", "report", "take", "send", "done",
                                          "unopened"}]]
    <3>1. PICK there \in {"done", "send"} : wpc' = [wpc EXCEPT ![f][w] = there]
      BY <1>1
    <3>2. QED BY <3>1 DEF PInv, FileShaped
  <2>3. QED BY <1>1, <2>1, <2>2 DEF PInv, FileShaped
<1>8. CASE ctx /\ wpc' = [wpc EXCEPT ![f][w] = "done"] /\ UNCHANGED held
  <2>1. Held(f)' = Held(f) /\ Received(f)' = Received(f) /\ UnderWay(f)' \subseteq UnderWay(f)
    BY <1>1, <1>3, <1>8 DEF Held, Received, UnderWay
  <2>2. OnePlace(f)' /\ Fed(f)'
    BY <1>1, <1>3, <1>8, <2>1, FileShape DEF OnePlace, Fed
  <2>3. WorkersFit(f)'
    BY <1>1, <1>5, <1>6, <1>8, FileShape DEF WorkersFit
  <2>4. FileInv(f)'
    BY <1>1, <1>8, <2>2, <2>3 DEF FileInv
  <2>5. QED BY <1>1, <1>5, <1>7, <2>4, OneFile
<1>9. CASE wpc' = [wpc EXCEPT ![f][w] = "send"] /\ held' = [held EXCEPT ![f][w] = c]
  <2>1. held'[f][w] = c /\ wpc'[f][w] = "send"
    BY <1>9 DEF PInv, FileShaped
  <2>2. Held(f)' = Held(f) \cup ({c} \ {0})
    BY <1>4, <1>5, <1>6, <2>1 DEF Held, Chunks
  <2>3. Received(f)' = Received(f) /\ UnderWay(f)' = UnderWay(f)
    BY <1>1, <1>3, <2>2 DEF Received, UnderWay
  <2>4. OnePlace(f)'
    <3>1. OnePlace(f)
      BY FileShape
    <3>2. \A u, v \in Workers : u # v /\ held'[f][u] = held'[f][v] => held'[f][u] = 0
      BY <1>5, <1>6, <2>1, <3>1 DEF OnePlace
    <3>3. /\ Elems(offsetCh'[f]) \cap (Held(f)' \cup Elems(resultCh[f]) \cup Received(f)) = {}
          /\ Held(f)' \cap (Elems(resultCh[f]) \cup Received(f)) = {}
      BY <1>3, <2>2, <3>1 DEF OnePlace
    <3>4. QED BY <1>1, <1>3, <2>3, <3>1, <3>2, <3>3 DEF OnePlace
  <2>5. Fed(f)'
    BY <1>1, <2>3, FileShape DEF Fed
  <2>6. WorkersFit(f)'
    BY ZenonT(30), <1>1, <1>5, <1>6, <2>1, FileShape DEF WorkersFit
  <2>7. Kept(f) => Kept(f)'
    BY <1>1, <1>5, <1>6, <2>1, <2>3 DEF Kept
  <2>8. FileInv(f)'
    BY <1>1, <2>4, <2>5, <2>6, <2>7, FileShape DEF FileInv
  <2>9. QED BY <1>1, <1>5, <1>7, <2>8, OneFile
<1>10. QED BY <1>1, <1>8, <1>9

LEMMA SendStep == ASSUME PInv, NEW f \in FileIds, NEW w \in Workers, SendResult(f, w) PROVE PInv'
<1> DEFINE c == held[f][w]
<1>1. /\ wpc[f][w] = "send" /\ held' = [held EXCEPT ![f][w] = 0]
      /\ UNCHANGED <<file, ctx, total, sent, producing, offsetCh, closed, outcome, got>>
      /\ \/ ctx /\ wpc' = [wpc EXCEPT ![f][w] = "done"] /\ UNCHANGED resultCh
         \/ /\ wpc' = [wpc EXCEPT ![f][w] = "take"]
            /\ resultCh' = [resultCh EXCEPT ![f] = Append(@, c)]
  BY DEF SendResult, At
<1>2. c \in 0 .. MaxChunks /\ (c # 0 => c \in Chunks) /\ (c # 0 => c \in Held(f))
  BY FileShape DEF Chunks, Held
<1>3. /\ held'[f][w] = 0 /\ wpc'[f][w] \in {"done", "take"}
      /\ \A v \in Workers : v # w => wpc'[f][v] = wpc[f][v] /\ held'[f][v] = held[f][v]
      /\ \A g \in FileIds \ {f} : /\ wpc'[g] = wpc[g] /\ held'[g] = held[g]
                                  /\ resultCh'[g] = resultCh[g]
  BY <1>1 DEF PInv, FileShaped
<1>4. ~closed[f] /\ outcome[f] # "completed" /\ ~(f > file)
  BY <1>1, FileShape DEF WorkersFit, Ended
<1>5. Held(f)' = Held(f) \ {c}
  <2>1. \A v \in Workers : v # w => held[f][v] # c \/ c = 0
    BY FileShape DEF OnePlace
  <2>2. \A x \in Chunks : x # 0
    BY DEF Chunks
  <2>3. QED BY <1>3, <2>1, <2>2 DEF Held
<1> HIDE DEF c
<1>6. \A u, v \in Workers : u # v /\ held'[f][u] = held'[f][v] => held'[f][u] = 0
  BY <1>3, FileShape DEF OnePlace
<1>7. WorkersFit(f)'
  BY <1>1, <1>3, <1>4, FileShape DEF WorkersFit
<1>8. /\ held' \in [FileIds -> [Workers -> 0 .. MaxChunks]]
      /\ wpc' \in [FileIds -> [Workers -> {"none", "open", "report", "take", "send", "done",
                                          "unopened"}]]
  <2>1. PICK there \in {"done", "take"} : wpc' = [wpc EXCEPT ![f][w] = there]
    BY <1>1
  <2>2. 0 \in 0 .. MaxChunks
    BY PipelineAssumption
  <2>3. QED BY <1>1, <2>1, <2>2 DEF PInv, FileShaped
<1>9. Received(f)' = Received(f)
  BY <1>1 DEF Received
<1>10. CASE ctx /\ wpc' = [wpc EXCEPT ![f][w] = "done"] /\ UNCHANGED resultCh
  <2>1. FileShaped'
    BY <1>1, <1>8, <1>10 DEF PInv, FileShaped
  <2>2. UnderWay(f)' \subseteq UnderWay(f)
    BY <1>1, <1>5, <1>9, <1>10 DEF UnderWay
  <2>3. OnePlace(f)'
    BY <1>1, <1>5, <1>6, <1>9, <1>10, FileShape DEF OnePlace
  <2>4. Fed(f)'
    BY <1>1, <2>2, FileShape DEF Fed
  <2>5. FileInv(f)'
    BY <1>1, <1>7, <1>10, <2>3, <2>4 DEF FileInv
  <2>6. QED BY <1>1, <1>3, <2>1, <2>5, OneFile
<1>11. CASE /\ wpc' = [wpc EXCEPT ![f][w] = "take"]
            /\ resultCh' = [resultCh EXCEPT ![f] = Append(@, c)]
  <2>1. resultCh'[f] = Append(resultCh[f], c) /\ wpc'[f][w] = "take"
    BY <1>11 DEF PInv, FileShaped
  <2>2. Elems(resultCh'[f]) = Elems(resultCh[f]) \cup ({c} \ {0})
    BY <1>2, <2>1, FileShape, AppendElems
  <2>3. NoRepeat(resultCh'[f])
    <3>1. c \notin Elems(resultCh[f])
      <4>1. Held(f) \cap Elems(resultCh[f]) = {}
        BY FileShape DEF OnePlace
      <4>2. 0 \notin Elems(resultCh[f])
        BY DEF Elems, Chunks
      <4>3. QED BY <1>2, <4>1, <4>2
    <3>2. QED BY <1>2, <2>1, <3>1, FileShape, AppendElems DEF OnePlace
  <2>4. FileShaped'
    <3>1. resultCh' \in [FileIds -> Seq(0 .. MaxChunks)]
      BY <1>2, <1>11, FileShape DEF PInv, FileShaped
    <3>2. QED BY <1>1, <1>8, <3>1 DEF PInv, FileShaped
  <2>5. UnderWay(f)' = UnderWay(f)
    <3>1. 0 \notin Held(f)
      BY DEF Held, Chunks
    <3>2. QED BY <1>1, <1>2, <1>5, <1>9, <2>2, <3>1 DEF UnderWay
  <2>6. OnePlace(f)'
    <3>1. OnePlace(f)
      BY FileShape
    <3>2. /\ Elems(offsetCh[f]) \cap (Held(f)' \cup Elems(resultCh'[f]) \cup Received(f)) = {}
          /\ Held(f)' \cap (Elems(resultCh'[f]) \cup Received(f)) = {}
          /\ Elems(resultCh'[f]) \cap Received(f) = {}
      BY <1>2, <1>5, <2>2, <3>1 DEF OnePlace
    <3>3. QED BY <1>1, <1>6, <1>9, <2>3, <3>1, <3>2 DEF OnePlace
  <2>7. Fed(f)'
    BY <1>1, <2>5, FileShape DEF Fed
  <2>8. Kept(f) => Kept(f)'
    BY <1>1, <1>3, <1>4, <2>1, <2>5 DEF Kept
  <2>9. FileInv(f)'
    BY <1>1, <1>7, <2>6, <2>7, <2>8, FileShape DEF FileInv
  <2>10. QED BY <1>1, <1>3, <2>4, <2>9, OneFile
<1>12. QED BY <1>1, <1>10, <1>11

LEMMA WorkerStep == ASSUME PInv, NEW f \in FileIds, NEW w \in Workers, Worker(f, w) PROVE PInv'
BY OpenStep, ReportStep, TakeStep, OffsetsOverStep, SendStep DEF Worker

-----------------------------------------------------------------------------
(* The closer and the sink                                                     *)

LEMMA CloseStep == ASSUME PInv, NEW f \in FileIds, CloseResults(f) PROVE PInv'
<1>1. /\ closed' = [closed EXCEPT ![f] = TRUE]
      /\ \A w \in Workers : wpc[f][w] \in Ended
      /\ UNCHANGED <<file, ctx, total, sent, producing, offsetCh, resultCh, wpc, held, outcome, got>>
  BY DEF CloseResults, Ended
<1>2. closed'[f] /\ FileShaped'
  BY <1>1 DEF PInv, FileShaped
<1>3. Held(f)' = Held(f) /\ Received(f)' = Received(f) /\ UnderWay(f)' = UnderWay(f)
  BY <1>1 DEF Held, Received, UnderWay
<1>4. OnePlace(f)' /\ Fed(f)'
  BY <1>1, <1>3, FileShape DEF OnePlace, Fed
<1>5. WorkersFit(f)'
  BY <1>1, <1>2, FileShape DEF WorkersFit
<1>6. Kept(f) => Kept(f)'
  BY <1>1, <1>3 DEF Kept, SomeoneRead, Whole
<1>7. FileInv(f)'
  BY <1>1, <1>4, <1>5, <1>6, FileShape DEF FileInv
<1>8. QED BY <1>1, <1>2, <1>7, OneFile DEF PInv, FileShaped

LEMMA ReceiveStep == ASSUME PInv, NEW f \in FileIds, Receive(f) PROVE PInv'
<1> DEFINE c == Head(resultCh[f])
           h == [d \in Chunks |-> got[f][d] + (IF d = c THEN 1 ELSE 0)]
<1>1. /\ outcome[f] = "running" /\ resultCh[f] # <<>>
      /\ resultCh' = [resultCh EXCEPT ![f] = Tail(@)]
      /\ got' = [got EXCEPT ![f] = h]
      /\ outcome' = outcome \/ outcome' = [outcome EXCEPT ![f] = "failed"]
      /\ UNCHANGED <<file, ctx, total, sent, producing, offsetCh, wpc, held, closed>>
  BY DEF Receive
<1>2. /\ resultCh'[f] = Tail(resultCh[f]) /\ got'[f] = h /\ outcome'[f] \in {"running", "failed"}
      /\ \A g \in FileIds \ {f} : /\ resultCh'[g] = resultCh[g] /\ got'[g] = got[g]
                                  /\ outcome'[g] = outcome[g]
  BY <1>1 DEF PInv, FileShaped
<1>3. /\ c \in 0 .. MaxChunks /\ Tail(resultCh[f]) \in Seq(0 .. MaxChunks)
      /\ Elems(resultCh[f]) = Elems(resultCh'[f]) \cup ({c} \ {0})
      /\ NoRepeat(resultCh'[f]) /\ c \notin Elems(resultCh'[f])
  <2>1. resultCh[f] \in Seq(0 .. MaxChunks) /\ resultCh[f] # <<>> /\ NoRepeat(resultCh[f])
    BY <1>1, FileShape DEF OnePlace
  <2>2. QED BY ZenonT(30), <1>2, <2>1, TailElems
<1>4. 0 \notin Chunks /\ (c # 0 => c \in Chunks)
  BY <1>3, FileShape DEF Chunks
<1>5. c # 0 => got[f][c] = 0
  BY <1>3, <1>4, FileShape DEF OnePlace, Received
<1>6. \A d \in Chunks : /\ got'[f][d] \in Nat
                        /\ got'[f][d] = IF d = c THEN 1 ELSE got[f][d]
  BY <1>2, <1>4, <1>5, FileShape
<1>7. Received(f)' = Received(f) \cup ({c} \ {0}) /\ Held(f)' = Held(f)
  <2>1. \A d \in Chunks : got'[f][d] # 0 <=> d = c \/ got[f][d] # 0
    BY <1>6
  <2>2. Received(f)' = Received(f) \cup ({c} \ {0})
    BY <1>4, <2>1 DEF Received
  <2>3. Held(f)' = Held(f)
    BY <1>1 DEF Held
  <2>4. QED BY <2>2, <2>3
<1>8. FileShaped'
  <2>1. resultCh' \in [FileIds -> Seq(0 .. MaxChunks)]
    BY <1>1, <1>3 DEF PInv, FileShaped
  <2>2. h \in [Chunks -> Nat]
    BY <1>2, <1>6
  <2>3. got' \in [FileIds -> [Chunks -> Nat]]
    BY <1>1, <2>2 DEF PInv, FileShaped
  <2>4. outcome' \in [FileIds -> Over \cup {"none", "running"}]
    BY <1>1 DEF PInv, FileShaped, Over
  <2>5. QED BY <1>1, <2>1, <2>3, <2>4 DEF PInv, FileShaped
<1> HIDE DEF c, h
<1>9. UnderWay(f)' = UnderWay(f)
  BY <1>1, <1>3, <1>7 DEF UnderWay
<1>10. OnePlace(f)'
  <2>1. OnePlace(f)
    BY FileShape
  <2>2. \A d \in Chunks : got'[f][d] <= 1
    BY <1>6, <2>1 DEF OnePlace
  <2>3. /\ Elems(offsetCh[f]) \cap (Held(f) \cup Elems(resultCh'[f]) \cup Received(f)') = {}
        /\ Held(f) \cap (Elems(resultCh'[f]) \cup Received(f)') = {}
        /\ Elems(resultCh'[f]) \cap Received(f)' = {}
    BY <1>3, <1>7, <2>1 DEF OnePlace
  <2>4. QED BY <1>1, <1>3, <1>7, <2>1, <2>2, <2>3 DEF OnePlace
<1>11. Fed(f)'
  BY <1>1, <1>9, FileShape DEF Fed
<1>12. WorkersFit(f)'
  BY <1>1, <1>2, FileShape DEF WorkersFit
<1>13. Kept(f) => Kept(f)'
  BY <1>1, <1>2, <1>9 DEF Kept
<1>14. FileInv(f)'
  BY <1>1, <1>10, <1>11, <1>12, <1>13, FileShape DEF FileInv
<1>15. QED BY <1>1, <1>2, <1>8, <1>14, OneFile

\* At the end of a file that some worker has read, all of it has been received.
LEMMA WholeAtEnd ==
    ASSUME PInv, NEW f \in FileIds, ~ctx, closed[f], resultCh[f] = <<>>, SomeoneRead(f)
    PROVE  Whole(f)
<1>1. Kept(f) /\ OnePlace(f) /\ WorkersFit(f) /\ total[f] \in 0 .. MaxChunks /\ MaxChunks \in Nat
  BY FileShape
<1>2. offsetCh[f] = <<>> /\ sent[f] = total[f]
  BY <1>1 DEF Kept, SomeoneRead
<1>3. Held(f) = {}
  BY <1>1 DEF WorkersFit, Ended, Held, Chunks
<1>4. 1 .. total[f] \subseteq Received(f)
  BY <1>1, <1>2, <1>3, NoElems DEF Kept, UnderWay
<1>5. ASSUME NEW d \in 1 .. total[f] PROVE got[f][d] = 1
  <2>1. d \in Chunks /\ got[f][d] # 0
    BY <1>4 DEF Received
  <2>2. got[f][d] \in Nat /\ got[f][d] <= 1
    BY <1>1, <2>1, FileShape DEF OnePlace
  <2>3. QED BY <2>1, <2>2
<1>6. QED BY <1>5 DEF Whole

LEMMA SinkOverStep ==
    ASSUME PInv, NEW f \in FileIds, Complete(f) \/ Cancelled(f) PROVE PInv'
<1>1. PICK how \in {"completed", "cancelled", "failed"} :
          /\ outcome' = [outcome EXCEPT ![f] = how] /\ outcome[f] = "running"
          /\ how = "completed" => closed[f] /\ resultCh[f] = <<>>
  BY DEF Complete, Cancelled, SinkOver
<1>2. UNCHANGED <<file, ctx, total, sent, producing, offsetCh, resultCh, wpc, held, closed, got>>
  BY DEF Complete, Cancelled, SinkOver
<1>3. outcome'[f] = how /\ \A g \in FileIds \ {f} : outcome'[g] = outcome[g]
  BY <1>1 DEF PInv, FileShaped
<1>4. FileShaped'
  BY <1>1, <1>2 DEF PInv, FileShaped, Over
<1>5. Held(f)' = Held(f) /\ Received(f)' = Received(f) /\ UnderWay(f)' = UnderWay(f)
  BY <1>2 DEF Held, Received, UnderWay
<1>6. OnePlace(f)' /\ Fed(f)'
  BY <1>2, <1>5, FileShape DEF OnePlace, Fed
<1>7. WorkersFit(f)'
  BY <1>1, <1>2, <1>3, FileShape DEF WorkersFit
<1>8. ~ctx => Kept(f)'
  <2>1. ASSUME ~ctx, how = "completed", SomeoneRead(f) PROVE Whole(f)
    BY <1>1, <2>1, WholeAtEnd
  <2>2. QED BY <1>2, <1>3, <1>5, <2>1, FileShape DEF Kept, SomeoneRead, Whole
<1>9. FileInv(f)'
  BY <1>2, <1>6, <1>7, <1>8 DEF FileInv
<1>10. QED BY <1>2, <1>3, <1>4, <1>9, OneFile

-----------------------------------------------------------------------------

LEMMA StepPInv == PInv /\ [PipelineNext]_pipelineVars => PInv'
<1>1. SUFFICES ASSUME PInv, [PipelineNext]_pipelineVars PROVE PInv'
  OBVIOUS
<1>2. CASE PipelineNext
  <2>1. CASE Job \/ CancelFiles \/ TurnSinkGate
    BY <1>1, <2>1, JobStep, GateStep
  <2>2. ASSUME NEW f \in FileIds, Feed(f) \/ FeedOver(f) \/ CloseResults(f) PROVE PInv'
    BY <1>1, <2>2, FeedStep, FeedOverStep, CloseStep
  <2>3. ASSUME NEW f \in FileIds, Sink(f) PROVE PInv'
    BY <1>1, <2>3, ReceiveStep, SinkOverStep DEF Sink
  <2>4. ASSUME NEW f \in FileIds, NEW w \in Workers, Worker(f, w) PROVE PInv'
    BY <1>1, <2>4, WorkerStep
  <2>5. QED BY <1>2, <2>1, <2>2, <2>3, <2>4 DEF PipelineNext
<1>3. CASE UNCHANGED pipelineVars
  <2>1. UNCHANGED <<file, ctx, total, sent, producing, offsetCh, resultCh, wpc, held, closed, outcome,
                    got>>
    BY <1>3 DEF pipelineVars
  <2>2. FileShaped'
    BY <1>1, <2>1 DEF PInv, FileShaped
  <2>3. ASSUME NEW f \in FileIds PROVE FileInv(f)'
    BY <1>1, <2>1, OtherFile DEF PInv
  <2>4. QED BY <2>2, <2>3 DEF PInv
<1>4. QED BY <1>1, <1>2, <1>3

LEMMA AlwaysPInv == PipelineSpec => []PInv
BY InitPInv, StepPInv, PTL DEF PipelineSpec

\* A worker that is still to send a result never finds its channel closed: the closer waits for
\* every worker of the file.
THEOREM NeverOnClosed == PipelineSpec => []NoSendOnClosed
<1>1. PInv => NoSendOnClosed
  BY DEF PInv, FileInv, WorkersFit, NoSendOnClosed, Ended
<1>2. QED BY <1>1, AlwaysPInv, PTL

\* No chunk of a file is received twice, and a file that is completed by at least one worker, with
\* no cancel meanwhile, has been received whole.
THEOREM OnceAndWhole == PipelineSpec => []EveryChunkOnce
<1>1. PInv => EveryChunkOnce
  BY DEF PInv, FileInv, OnePlace, Kept, EveryChunkOnce
<1>2. QED BY <1>1, AlwaysPInv, PTL
=============================================================================
