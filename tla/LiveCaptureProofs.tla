-------------------------- MODULE LiveCaptureProofs --------------------------
(***************************************************************************)
(* Proofs about LiveCapture for every set of channels and contents, every  *)
(* batch size and every number of records, faults and resets.              *)
(*                                                                         *)
(* The argument: everything the sink has taken from the readers is in the  *)
(* store or in the batch it holds (HandledIsHeld); a staged position never *)
(* passes what was taken (StagedIsHandled); and a bookmark moves to a      *)
(* staged position only while the batch is empty. Two further parts rest   *)
(* on it: what the batch and the property index hold of an identity        *)
(* (DInv), and that every occurrence taken is counted once somewhere       *)
(* (OInv).                                                                 *)
(***************************************************************************)
EXTENDS LiveCapture, FiniteSetTheorems, FunctionTheorems, NaturalsInduction, TLAPS

\* Contents of the events of the batch in memory.
Buffered == {pending[k].id[1] : k \in DOMAIN pending}

\* Contents that appear in some channel.
Recorded == UNION {{log[c][i] : i \in 1 .. Len(log[c])} : c \in Channels}

Held(c, p, S) ==
    \A i \in 1 .. Len(log[c]) : i <= p /\ Readable(c, i) => log[c][i] \in S

MarksHold ==
    \A c \in Channels :
        /\ memPos[c] <= Len(log[c])
        /\ diskPos[c] <= Len(log[c])
        /\ Held(c, memPos[c], Contents)
        /\ Held(c, diskPos[c], Contents)
HandledIsHeld ==
    \A c \in Channels : /\ handled[c] <= Len(log[c])
                        /\ Held(c, handled[c], Contents \cup Buffered)
StagedIsHandled == \A c \in Channels : staged[c] <= handled[c]
\* While a batch is processed, and while a full buffer is written in the
\* middle of it, the batch is a real one.
BatchIsReal ==
    pc = "chunk" \/ (pc \in {"insert", "index", "commit", "inc", "commitInc"}
                        /\ mode = "run")
        => cur \in Batches /\ cur.hi <= Len(log[cur.chan])
QueueInLog == \A b \in queue : b.hi <= Len(log[b.chan])
ByHashIsPending == \A id \in byHash : id[1] \in Buffered
BufferedIsRecorded == Buffered \subseteq Recorded
InsertedIsStored == pc = "index" => Buffered \subseteq Contents
\* The nodes being indexed are the last ones.
RoomForBatch == pc = "index" => Len(pending) <= Len(nodes)
IdleIsEmpty == pc = "idle" => staged = Zero
IndexedInStore == indexed \subseteq DOMAIN nodes

IInv ==
    /\ TypeOK
    /\ MarksHold
    /\ HandledIsHeld
    /\ StagedIsHandled
    /\ BatchIsReal
    /\ QueueInLog
    /\ ByHashIsPending
    /\ BufferedIsRecorded
    /\ InsertedIsStored
    /\ RoomForBatch
    /\ IdleIsEmpty
    /\ IndexedInStore

-----------------------------------------------------------------------------
(* Data facts *)

LEMMA EmptyBagType == IsABag(EmptyBag)
  BY DEF IsABag, EmptyBag, SetToBag

LEMMA BagAddType ==
    ASSUME NEW B, NEW x, IsABag(B)
    PROVE  IsABag(B (+) SetToBag({x}))
<1> DEFINE C == B (+) SetToBag({x})
<1>1. C = [e \in (DOMAIN B) \cup {x} |->
             (IF e \in DOMAIN B THEN B[e] ELSE 0) + (IF e = x THEN 1 ELSE 0)]
  BY DEF (+), SetToBag
<1>2. \A e \in DOMAIN B : B[e] \in Nat /\ B[e] > 0
  BY DEF IsABag
<1>3. DOMAIN C = (DOMAIN B) \cup {x}
  BY <1>1
<1>4. \A e \in DOMAIN C : C[e] \in {n \in Nat : n > 0}
  BY <1>1, <1>2, <1>3
<1>5. C \in [DOMAIN C -> {n \in Nat : n > 0}]
  BY <1>1, <1>3, <1>4
<1>6. QED BY <1>5 DEF IsABag

LEMMA ZeroType == Zero \in [Channels -> Nat]
  BY DEF Zero

\* The next record of a batch exists and is a record.
LEMMA NextRecordFacts ==
    ASSUME IInv, InBatch
    PROVE  /\ cur \in Batches
           /\ cur.chan \in Channels
           /\ cur.hi \in Nat
           /\ handled[cur.chan] \in Nat
           /\ handled[cur.chan] + 1 \in 1 .. Len(log[cur.chan])
           /\ log[cur.chan] \in Seq(Records)
           /\ NextRecord \in Records
           /\ NextRecord # Unreadable => HashNormalized(NextRecord) \in Identities
           /\ NextRecord # Unreadable => HashNormalized(NextRecord)[1] = NextRecord
<1>1. cur \in Batches /\ cur.hi <= Len(log[cur.chan])
  BY DEF IInv, BatchIsReal, InBatch
<1>2. cur.chan \in Channels /\ cur.hi \in Nat
  BY <1>1 DEF Batches
<1>3. handled[cur.chan] \in Nat /\ log[cur.chan] \in Seq(Records)
  BY <1>2 DEF IInv, TypeOK
<1>4. handled[cur.chan] + 1 \in 1 .. Len(log[cur.chan])
  BY <1>1, <1>2, <1>3 DEF InBatch
<1>5. NextRecord \in Records
  BY <1>3, <1>4 DEF NextRecord
<1>6. NextRecord # Unreadable => NextRecord \in Hashes
  BY <1>5 DEF Records
<1>7. run \in SUBSET Channels
  BY DEF IInv, TypeOK
<1>8. QED
  BY <1>1, <1>2, <1>3, <1>4, <1>5, <1>6, <1>7 DEF HashNormalized, Identities

\* The state between runs is well typed.
LEMMA NoRunType ==
    ASSUME NoRun
    PROVE  /\ run' \in SUBSET Channels /\ open' \in BOOLEAN
           /\ queue' \in SUBSET Batches
           /\ paused' \in BOOLEAN /\ cancelled' \in BOOLEAN /\ idem' \in BOOLEAN
           /\ pc' = "idle" /\ mode' = "run"
           /\ cur' \in Batches \cup {NoBatch}
           /\ sent' \in [Channels -> Nat] /\ handled' \in [Channels -> Nat]
           /\ staged' \in [Channels -> Nat]
           /\ pending' \in Seq(Events)
           /\ byHash' \in SUBSET Identities
           /\ IsABag(dbInc') /\ ix' \in Nat
<1>1. open' \in BOOLEAN /\ paused' \in BOOLEAN /\ cancelled' \in BOOLEAN /\ idem' \in BOOLEAN
  BY DEF NoRun
<1>2. run' \in SUBSET Channels /\ queue' \in SUBSET Batches /\ byHash' \in SUBSET Identities
  BY DEF NoRun
<1>3. sent' \in [Channels -> Nat] /\ handled' \in [Channels -> Nat] /\ staged' \in [Channels -> Nat]
  BY ZeroType DEF NoRun
<1>4. pending' \in Seq(Events) /\ ix' \in Nat
  BY DEF NoRun
<1>5. IsABag(dbInc')
  BY EmptyBagType DEF NoRun
<1>6. pc' = "idle" /\ mode' = "run" /\ cur' \in Batches \cup {NoBatch}
  BY DEF NoRun
<1>7. QED BY <1>1, <1>2, <1>3, <1>4, <1>5, <1>6

-----------------------------------------------------------------------------
(* Type correctness *)

LEMMA InitInv == Init => IInv
<1> SUFFICES ASSUME Init PROVE IInv
  OBVIOUS
<1>1. TypeOK
  <2>1. log \in [Channels -> Seq(Records)]
    BY DEF Init
  <2>2. nodes \in Seq(Events) /\ pending \in Seq(Events)
    BY DEF Init
  <2>3. /\ indexed \in SUBSET Nat /\ diskPos \in [Channels -> Nat] /\ memPos \in [Channels -> Nat]
        /\ sent \in [Channels -> Nat] /\ handled \in [Channels -> Nat]
        /\ staged \in [Channels -> Nat]
    BY ZeroType DEF Init
  <2>4. idem \in BOOLEAN /\ open \in BOOLEAN /\ paused \in BOOLEAN /\ cancelled \in BOOLEAN
    BY DEF Init
  <2>5. IsABag(dbInc)
    BY EmptyBagType DEF Init
  <2>6. /\ run \in SUBSET Channels /\ queue \in SUBSET Batches
        /\ byHash \in SUBSET Identities /\ cur \in Batches \cup {NoBatch}
        /\ ix \in Nat /\ faults \in Nat /\ resets \in Nat
        /\ pc = "idle" /\ mode = "run"
    BY DEF Init
  <2>7. QED BY <2>1, <2>2, <2>3, <2>4, <2>5, <2>6 DEF TypeOK
<1>2. MarksHold /\ HandledIsHeld /\ StagedIsHandled
  BY DEF Init, MarksHold, HandledIsHeld, StagedIsHandled, Held, Zero
<1>3. /\ BatchIsReal /\ QueueInLog /\ ByHashIsPending /\ InsertedIsStored
      /\ RoomForBatch /\ IdleIsEmpty /\ IndexedInStore
  BY DEF Init, BatchIsReal, QueueInLog, ByHashIsPending, InsertedIsStored,
         RoomForBatch, IdleIsEmpty, IndexedInStore
<1>4. Buffered = {}
  BY DEF Init, Buffered
<1>5. QED
  BY <1>1, <1>2, <1>3, <1>4 DEF IInv, BufferedIsRecorded

LEMMA TypeStep ==
    ASSUME IInv, [Next]_vars
    PROVE  TypeOK'
<1> USE DEF storeVars, posVars, boundVars, runVars, sinkVars
<1>0. TypeOK
  BY DEF IInv
<1>1. CASE UNCHANGED vars
  BY <1>0, <1>1 DEF TypeOK, vars
<1>2. ASSUME NEW c \in Channels, NEW r \in Records, Record(c, r) PROVE TypeOK'
  <2>1. log' \in [Channels -> Seq(Records)]
    BY <1>0, <1>2 DEF TypeOK, Record
  <2>2. UNCHANGED <<storeVars, posVars, runVars, sinkVars, boundVars>>
    BY <1>2 DEF Record
  <2>3. QED BY SMTT(20), <1>0, <2>1, <2>2 DEF TypeOK
<1>3. ASSUME NEW C \in SUBSET Channels, NEW i \in IdemChoices, StartLive(C, i)
      PROVE TypeOK'
  BY <1>0, <1>3, ConstantsAssumption DEF TypeOK, StartLive
<1>4. CASE Pause \/ Resume \/ Cancel \/ CloseResults
  BY ZenonT(90), <1>0, <1>4 DEF TypeOK, Pause, Resume, Cancel, CloseResults
<1>5. ASSUME NEW C, Reset(C) PROVE TypeOK'
  <2>1. memPos' \in [Channels -> Nat]
    BY <1>0, <1>5 DEF TypeOK, Reset
  <2>2. diskPos' \in [Channels -> Nat]
    BY <1>0, <1>5, <2>1 DEF TypeOK, Reset
  <2>3. resets' \in Nat
    BY <1>0, <1>5 DEF TypeOK, Reset
  <2>4. UNCHANGED <<log, storeVars, runVars, sinkVars, faults>>
    BY <1>5 DEF Reset
  <2>5. QED BY <1>0, <2>1, <2>2, <2>3, <2>4 DEF TypeOK
<1>6. ASSUME NEW c \in Channels, NEW hi \in 1 .. Len(log[c]), ReadBatch(c, hi)
      PROVE TypeOK'
  BY SMTT(20), <1>0, <1>6 DEF TypeOK, ReadBatch, Batches
<1>7. CASE LoopTop \/ LeaveLoop \/ WakeForPause \/ WaitOver
  BY <1>0, <1>7 DEF TypeOK, LoopTop, LeaveLoop, WakeForPause, WaitOver
<1>8. ASSUME NEW b \in queue, ReceiveBatch(b) PROVE TypeOK'
  BY <1>0, <1>8 DEF TypeOK, ReceiveBatch
<1>9. CASE SkipRecord
  <2>1. handled' \in [Channels -> Nat]
    BY <1>0, <1>9, NextRecordFacts DEF TypeOK, SkipRecord, TakeRecord
  <2>2. QED BY SMTT(20), <1>0, <1>9, <2>1 DEF TypeOK, SkipRecord, TakeRecord
<1>10. CASE DuplicateInBatch
  <2> DEFINE bump(k) == IF pending[k].id = HashNormalized(NextRecord)
                        THEN [pending[k] EXCEPT !.n = @ + 1] ELSE pending[k]
  <2>1. pending \in Seq(Events)
    BY <1>0 DEF TypeOK
  <2>2. pending' = [k \in 1 .. Len(pending) |-> bump(k)]
    BY <1>10, <2>1 DEF DuplicateInBatch
  <2>3. ASSUME NEW k \in 1 .. Len(pending) PROVE bump(k) \in Events
    <3>1. pending[k] \in Events
      BY <2>1
    <3>2. QED BY <3>1 DEF Events
  <2>4. pending' \in Seq(Events)
    BY <2>1, <2>2, <2>3
  <2>5. handled' \in [Channels -> Nat]
    BY SMTT(20), <1>0, <1>10, NextRecordFacts DEF TypeOK, DuplicateInBatch, TakeRecord
  <2>6. QED BY <1>0, <1>10, <2>4, <2>5 DEF TypeOK, DuplicateInBatch, TakeRecord
<1>11. CASE DuplicateInStore
  <2>1. IsABag(dbInc')
    BY <1>0, <1>11, BagAddType DEF TypeOK, DuplicateInStore
  <2>2. handled' \in [Channels -> Nat]
    BY <1>0, <1>11, NextRecordFacts DEF TypeOK, DuplicateInStore, TakeRecord
  <2>3. pc' \in {"inc", "chunk"}
    BY <1>11 DEF DuplicateInStore
  <2>4. QED
    BY <1>0, <1>11, <2>1, <2>2, <2>3 DEF TypeOK, DuplicateInStore, TakeRecord
<1>12. CASE NewEvent
  <2>1. HashNormalized(NextRecord) \in Identities
    BY <1>12, NextRecordFacts DEF NewEvent
  <2>3. pending' \in Seq(Events)
    <3>1. pending \in Seq(Events)
      BY <1>0 DEF TypeOK
    <3>2. [id |-> HashNormalized(NextRecord), n |-> 1] \in Events
      BY <2>1 DEF Events
    <3>3. pending' = Append(pending, [id |-> HashNormalized(NextRecord), n |-> 1])
      BY <1>12 DEF NewEvent
    <3>4. QED BY <3>1, <3>2, <3>3
  <2>4. byHash' \in SUBSET Identities
    BY <1>0, <1>12, <2>1 DEF TypeOK, NewEvent
  <2>5. handled' \in [Channels -> Nat]
    BY <1>0, <1>12, NextRecordFacts DEF TypeOK, NewEvent, TakeRecord
  <2>6. pc' \in {"insert", "chunk"}
    BY <1>12 DEF NewEvent
  <2>7. QED
    BY <1>0, <1>12, <2>3, <2>4, <2>5, <2>6 DEF TypeOK, NewEvent, TakeRecord
<1>13. CASE BatchDone
  <2>1. cur \in Batches
    BY <1>13 DEF IInv, BatchIsReal, BatchDone
  <2>2. QED BY <1>0, <1>13, <2>1 DEF TypeOK, BatchDone, Batches
<1>14. CASE InsertEvents
  <2>1. nodes' \in Seq(Events)
    BY <1>0, <1>14 DEF TypeOK, InsertEvents
  <2>2. QED BY <1>0, <1>14, <2>1 DEF TypeOK, InsertEvents
<1>15. CASE NothingToInsert
  BY <1>0, <1>15 DEF TypeOK, NothingToInsert
<1>16. CASE IndexNode
  <2>1. Len(nodes) \in Nat /\ Len(pending) \in Nat /\ ix \in Nat
    BY <1>0 DEF TypeOK
  <2>2. Len(nodes) - Len(pending) + ix + 1 \in Nat
    BY <2>1, <1>16 DEF IInv, RoomForBatch, IndexNode
  <2>3. indexed' \in SUBSET Nat
    BY <1>0, <1>16, <2>2 DEF TypeOK, IndexNode
  <2>4. ix' \in Nat
    BY <1>16, <2>1 DEF IndexNode
  <2>5. QED BY <1>0, <1>16, <2>3, <2>4 DEF TypeOK, IndexNode
<1>17. CASE Flushed
  BY <1>0, <1>17 DEF TypeOK, Flushed
<1>18. CASE IncrementDedupCounts
  <2>1. nodes \in Seq(Events)
    BY <1>0 DEF TypeOK
  <2>2. \A k \in DOMAIN dbInc : dbInc[k] \in Nat
    BY <1>0 DEF TypeOK, IsABag
  <2>3. nodes' = [k \in 1 .. Len(nodes) |->
                    IF k \in DOMAIN dbInc THEN [nodes[k] EXCEPT !.n = @ + dbInc[k]]
                                          ELSE nodes[k]]
    BY <1>18, <2>1 DEF IncrementDedupCounts
  <2>4. ASSUME NEW k \in 1 .. Len(nodes) PROVE nodes'[k] \in Events
    <3>1. nodes[k] \in Events
      BY <2>1
    <3>2. nodes'[k] = IF k \in DOMAIN dbInc THEN [nodes[k] EXCEPT !.n = @ + dbInc[k]]
                                            ELSE nodes[k]
      BY <2>3
    <3>3. k \in DOMAIN dbInc => dbInc[k] \in Nat
      BY <2>2
    <3>4. QED BY <3>1, <3>2, <3>3 DEF Events
  <2>5. nodes' \in Seq(Events)
    BY <2>1, <2>3, <2>4
  <2>6. QED BY <1>0, <1>18, <2>5, EmptyBagType DEF TypeOK, IncrementDedupCounts
<1>19. ASSUME NEW c \in Channels, CommitPosition(c) PROVE TypeOK'
  BY <1>0, <1>19 DEF TypeOK, CommitPosition
<1>20. CASE Committed
  BY <1>0, <1>20 DEF TypeOK, Committed
<1>21. CASE Finish
  BY <1>0, <1>21, NoRunType DEF TypeOK, Finish
<1>22. CASE StoreFails
  BY <1>0, <1>22, NoRunType DEF TypeOK, StoreFails
<1>23. CASE Crash
  <2>1. diskPos' \in [Channels -> Nat] /\ memPos' \in [Channels -> Nat]
    BY <1>0, <1>23, ZeroType DEF TypeOK, Crash
  <2>2. log' = log /\ nodes' = nodes /\ indexed' = indexed /\ resets' = resets /\ faults' = faults + 1 /\ NoRun
    BY <1>23 DEF Crash
  <2>3. QED BY <1>0, <2>1, <2>2, NoRunType DEF TypeOK
<1>24. QED
  BY <1>1, <1>2, <1>3, <1>4, <1>5, <1>6, <1>7, <1>8, <1>9, <1>10, <1>11, <1>12,
     <1>13, <1>14, <1>15, <1>16, <1>17, <1>18, <1>19, <1>20, <1>21, <1>22, <1>23
     DEF Next, User, Readers, Sink

-----------------------------------------------------------------------------
(* What a step does to the log and to the stored contents *)

LEMMA LogChange ==
    ASSUME [Next]_vars
    PROVE  log' = log \/ \E c \in Channels, r \in Records : Record(c, r)
  BY DEF Next, User, Readers, Sink, vars, StartLive, Pause, Resume, Cancel,
         CloseResults, Reset, ReadBatch, LoopTop, LeaveLoop, WakeForPause,
         WaitOver, ReceiveBatch, SkipRecord, DuplicateInBatch,
         DuplicateInStore, NewEvent, TakeRecord, BatchDone, InsertEvents,
         NothingToInsert, IndexNode, Flushed, IncrementDedupCounts,
         CommitPosition, Committed, Finish, StoreFails, Crash

\* Channels only grow.
LEMMA LogGrows ==
    ASSUME TypeOK, [Next]_vars, NEW c \in Channels
    PROVE  /\ Len(log[c]) \in Nat
           /\ Len(log'[c]) \in Nat
           /\ Len(log[c]) <= Len(log'[c])
           /\ \A i \in 1 .. Len(log[c]) : log'[c][i] = log[c][i]
<1>1. log[c] \in Seq(Records)
  BY DEF TypeOK
<1>2. CASE log' = log
  BY <1>1, <1>2
<1>3. ASSUME NEW d \in Channels, NEW r \in Records, Record(d, r)
      PROVE  log'[c] = log[c] \/ log'[c] = Append(log[c], r)
  BY <1>1, <1>3 DEF Record, TypeOK
<1>4. ASSUME NEW r \in Records, log'[c] = Append(log[c], r)
      PROVE  /\ Len(log'[c]) = Len(log[c]) + 1
             /\ \A i \in 1 .. Len(log[c]) : log'[c][i] = log[c][i]
  BY <1>1, <1>4
<1>5. Len(log[c]) \in Nat
  BY <1>1
<1>6. QED
  BY <1>1, <1>2, <1>3, <1>4, <1>5, LogChange

\* A covered prefix stays covered while the set it is covered by grows.
LEMMA HeldKept ==
    ASSUME TypeOK, [Next]_vars, NEW c \in Channels, NEW p \in Nat,
           p <= Len(log[c]), NEW S, NEW T, S \subseteq T, Held(c, p, S)
    PROVE  /\ p <= Len(log'[c])
           /\ \A i \in 1 .. Len(log'[c]) :
                 i <= p /\ log'[c][i] # Unreadable => log'[c][i] \in T
  BY LogGrows DEF Held, Readable

\* The store only gains contents, and only those of the batch in memory.
LEMMA StoreChange ==
    ASSUME TypeOK, [Next]_vars
    PROVE  /\ Contents \subseteq Contents'
           /\ Contents' \subseteq Contents \cup Buffered
           /\ InsertEvents => Contents' = Contents \cup Buffered
           /\ DOMAIN nodes \subseteq DOMAIN nodes'
<1> DEFINE ids(s) == {s[k].id[1] : k \in DOMAIN s}
<1>0. nodes \in Seq(Events) /\ pending \in Seq(Events)
  BY DEF TypeOK
<1>1. CASE InsertEvents
  <2>1. nodes' = nodes \o pending
    BY <1>1 DEF InsertEvents
  <2>2. /\ DOMAIN nodes' = 1 .. (Len(nodes) + Len(pending))
        /\ DOMAIN nodes = 1 .. Len(nodes) /\ DOMAIN pending = 1 .. Len(pending)
        /\ Len(nodes) \in Nat /\ Len(pending) \in Nat
    BY <1>0, <2>1
  <2>3. \A k \in 1 .. Len(nodes) : nodes'[k] = nodes[k]
    BY <1>0, <2>1
  <2>4. \A k \in 1 .. Len(pending) : nodes'[Len(nodes) + k] = pending[k]
    BY <1>0, <2>1
  <2>5. \A k \in DOMAIN nodes' :
           k \in DOMAIN nodes \/ k - Len(nodes) \in DOMAIN pending
    BY <2>2
  <2>6. ids(nodes') \subseteq ids(nodes) \cup ids(pending)
    <3>1. SUFFICES ASSUME NEW k \in DOMAIN nodes'
                   PROVE  nodes'[k].id[1] \in ids(nodes) \cup ids(pending)
      OBVIOUS
    <3>2. CASE k \in DOMAIN nodes
      BY <3>2, <2>2, <2>3
    <3>3. CASE k - Len(nodes) \in DOMAIN pending
      <4>1. nodes'[k] = pending[k - Len(nodes)]
        BY <3>3, <2>2, <2>4
      <4>2. QED BY <3>3, <4>1
    <3>4. QED BY <3>2, <3>3, <2>5
  <2>7. ids(nodes) \subseteq ids(nodes')
    BY <2>2, <2>3
  <2>8. ids(pending) \subseteq ids(nodes')
    <3>1. \A k \in DOMAIN pending : Len(nodes) + k \in DOMAIN nodes'
      BY <2>2
    <3>2. QED BY <2>2, <2>4, <3>1
  <2>9. /\ Contents' = ids(nodes') /\ Contents = ids(nodes)
        /\ Buffered = ids(pending)
    BY DEF Contents, Buffered
  <2>10. DOMAIN nodes \subseteq DOMAIN nodes'
    BY <2>2
  <2> HIDE DEF ids
  <2>11. QED
    BY <2>6, <2>7, <2>8, <2>9, <2>10
<1>2. CASE IncrementDedupCounts
  <2>1. DOMAIN nodes' = DOMAIN nodes
    BY <1>2 DEF IncrementDedupCounts
  <2>2. ASSUME NEW k \in DOMAIN nodes PROVE nodes'[k].id = nodes[k].id
    <3>1. nodes[k] \in Events
      BY <1>0
    <3>2. nodes'[k] = [nodes[k] EXCEPT !.n = @ + dbInc[k]] \/ nodes'[k] = nodes[k]
      BY <1>2 DEF IncrementDedupCounts
    <3>3. QED BY <3>1, <3>2 DEF Events
  <2>3. Contents' = Contents
    BY <2>1, <2>2 DEF Contents
  <2>4. ~InsertEvents
    BY <1>2 DEF IncrementDedupCounts, InsertEvents
  <2>5. QED BY <2>1, <2>3, <2>4
<1>3. CASE nodes' = nodes
  <2>1. ~InsertEvents
    <3>1. SUFFICES ASSUME InsertEvents PROVE FALSE
      OBVIOUS
    <3>2. nodes' = nodes \o pending /\ pending # <<>>
      BY <3>1 DEF InsertEvents
    <3>3. Len(nodes \o pending) = Len(nodes) + Len(pending)
      BY <1>0
    <3>4. Len(pending) > 0 /\ Len(nodes) \in Nat
      BY <1>0, <3>2
    <3>5. QED BY <1>0, <1>3, <3>2, <3>3, <3>4
  <2>2. QED BY <1>3, <2>1 DEF Contents
<1>4. nodes' = nodes \/ InsertEvents \/ IncrementDedupCounts
  BY DEF Next, User, Readers, Sink, vars, Record, StartLive, Pause, Resume,
         Cancel, CloseResults, Reset, ReadBatch, LoopTop, LeaveLoop,
         WakeForPause, WaitOver, ReceiveBatch, SkipRecord, DuplicateInBatch,
         DuplicateInStore, NewEvent, TakeRecord, BatchDone, NothingToInsert,
         IndexNode, Flushed, CommitPosition, Committed, Finish, StoreFails,
         Crash, storeVars
<1>5. QED BY <1>1, <1>2, <1>3, <1>4

-----------------------------------------------------------------------------
(* The marks *)

\* A step that leaves the bookmarks alone cannot uncover them.
LEMMA MarksKept ==
    ASSUME IInv, [Next]_vars, UNCHANGED posVars
    PROVE  MarksHold'
<1>1. TypeOK
  BY DEF IInv
<1>2. Contents \subseteq Contents'
  BY <1>1, StoreChange
<1>3. SUFFICES ASSUME NEW c \in Channels
               PROVE  /\ memPos[c] <= Len(log'[c])
                      /\ diskPos[c] <= Len(log'[c])
                      /\ \A i \in 1 .. Len(log'[c]) :
                            i <= memPos[c] /\ log'[c][i] # Unreadable
                                => log'[c][i] \in Contents'
                      /\ \A i \in 1 .. Len(log'[c]) :
                            i <= diskPos[c] /\ log'[c][i] # Unreadable
                                => log'[c][i] \in Contents'
  BY DEF posVars, MarksHold, Held, Readable
<1>4. /\ memPos[c] \in Nat /\ diskPos[c] \in Nat
      /\ memPos[c] <= Len(log[c]) /\ diskPos[c] <= Len(log[c])
      /\ Held(c, memPos[c], Contents) /\ Held(c, diskPos[c], Contents)
  BY <1>1 DEF IInv, TypeOK, MarksHold
<1>5. QED
  BY <1>1, <1>2, <1>4, HeldKept

\* Moving a bookmark to zero or to the other one uncovers nothing.
LEMMA MarksBack ==
    ASSUME IInv, log' = log, nodes' = nodes,
           \A c \in Channels : /\ memPos'[c] \in {0, memPos[c], diskPos[c]}
                              /\ diskPos'[c] \in {0, memPos[c], diskPos[c]}
    PROVE  MarksHold'
<1>1. Contents' = Contents
  BY DEF Contents
<1>2. SUFFICES ASSUME NEW c \in Channels, NEW p \in {0, memPos[c], diskPos[c]}
               PROVE  p <= Len(log[c]) /\ Held(c, p, Contents)
  BY <1>1 DEF MarksHold, Held, Readable
<1>3. log[c] \in Seq(Records)
  BY DEF IInv, TypeOK
<1>4. 0 <= Len(log[c]) /\ Held(c, 0, Contents)
  BY <1>3 DEF Held
<1>5. QED
  BY <1>4 DEF IInv, MarksHold

\* A bookmark only moves to zero, to the other bookmark, or to a staged
\* position while the batch is empty.
LEMMA MarksStep ==
    ASSUME IInv, [Next]_vars
    PROVE  MarksHold'
<1>0. TypeOK /\ MarksHold
  BY DEF IInv
<1>1. CASE UNCHANGED posVars
  BY <1>1, MarksKept
<1>2. ASSUME NEW C, Reset(C) PROVE MarksHold'
  <2>1. log' = log /\ nodes' = nodes
    BY <1>2 DEF Reset, storeVars
  <2>2. \A c \in Channels : memPos'[c] \in {0, memPos[c]}
    BY <1>2 DEF Reset
  <2>3. \A c \in Channels : diskPos'[c] \in {memPos'[c], diskPos[c]}
    BY <1>2 DEF Reset
  <2>4. QED
    BY <2>1, <2>2, <2>3, MarksBack
<1>3. CASE Crash
  <2>1. log' = log /\ nodes' = nodes
    BY <1>3 DEF Crash, storeVars
  <2>2. \A c \in Channels : diskPos'[c] \in {0, diskPos[c]} /\ memPos'[c] = diskPos'[c]
    BY <1>3 DEF Crash, Zero
  <2>3. QED
    BY <2>1, <2>2, MarksBack
<1>4. ASSUME NEW c \in Channels, CommitPosition(c) PROVE MarksHold'
  <2>1. log' = log /\ nodes' = nodes
    BY <1>4 DEF CommitPosition, storeVars
  <2>2. Buffered = {}
    BY <1>4 DEF CommitPosition, NothingUnwritten, Buffered
  <2>3. \A d \in Channels : memPos'[d] \in {memPos[d], staged[d]}
    BY <1>0, <1>4 DEF CommitPosition, TypeOK, posVars
  <2>4. \A d \in Channels : diskPos'[d] \in {memPos'[d], diskPos[d]}
    BY <1>4 DEF CommitPosition, posVars
  <2>5. \A d \in Channels : /\ staged[d] \in Nat /\ handled[d] \in Nat
                           /\ staged[d] <= handled[d]
                           /\ handled[d] <= Len(log[d])
                           /\ Held(d, handled[d], Contents)
    BY <1>0, <2>2 DEF IInv, TypeOK, StagedIsHandled, HandledIsHeld
  <2>6. \A d \in Channels : Len(log[d]) \in Nat
    BY <1>0 DEF TypeOK
  <2>7. \A d \in Channels : staged[d] <= Len(log[d]) /\ Held(d, staged[d], Contents)
    BY <2>5, <2>6 DEF Held
  <2>8. SUFFICES ASSUME NEW d \in Channels
                 PROVE  /\ memPos'[d] <= Len(log[d]) /\ diskPos'[d] <= Len(log[d])
                        /\ Held(d, memPos'[d], Contents)
                        /\ Held(d, diskPos'[d], Contents)
    BY <2>1 DEF MarksHold, Contents, Held, Readable
  <2>9. /\ memPos[d] <= Len(log[d]) /\ diskPos[d] <= Len(log[d])
        /\ Held(d, memPos[d], Contents) /\ Held(d, diskPos[d], Contents)
    BY <1>0 DEF MarksHold
  <2>10. memPos'[d] <= Len(log[d]) /\ Held(d, memPos'[d], Contents)
    BY <2>3, <2>7, <2>9
  <2>11. QED BY <2>4, <2>9, <2>10
<1>5. \/ UNCHANGED posVars
      \/ \E C : Reset(C)
      \/ Crash
      \/ \E c \in Channels : CommitPosition(c)
  BY DEF Next, User, Readers, Sink, vars, Record, StartLive, Pause, Resume,
         Cancel, CloseResults, ReadBatch, LoopTop, LeaveLoop, WakeForPause,
         WaitOver, ReceiveBatch, SkipRecord, DuplicateInBatch,
         DuplicateInStore, NewEvent, TakeRecord, BatchDone, InsertEvents,
         NothingToInsert, IndexNode, Flushed, IncrementDedupCounts, Committed,
         Finish, StoreFails
<1>6. QED BY <1>1, <1>2, <1>3, <1>4, <1>5

-----------------------------------------------------------------------------
(* The sink *)

\* What the sink took stays held while it takes nothing more.
LEMMA HandledKept ==
    ASSUME IInv, [Next]_vars, handled' = handled,
           Contents \cup Buffered \subseteq Contents' \cup Buffered'
    PROVE  HandledIsHeld'
<1>1. TypeOK
  BY DEF IInv
<1>2. SUFFICES ASSUME NEW c \in Channels
               PROVE  /\ handled[c] <= Len(log'[c])
                      /\ \A i \in 1 .. Len(log'[c]) :
                            i <= handled[c] /\ log'[c][i] # Unreadable
                                => log'[c][i] \in Contents' \cup Buffered'
  BY DEF HandledIsHeld, Held, Readable
<1>3. /\ handled[c] \in Nat /\ handled[c] <= Len(log[c])
      /\ Held(c, handled[c], Contents \cup Buffered)
  BY <1>1 DEF IInv, TypeOK, HandledIsHeld
<1>4. QED
  BY <1>1, <1>3, HeldKept

\* Taking one record whose content is held keeps everything taken held.
LEMMA HandledTaken ==
    ASSUME IInv, InBatch, TakeRecord,
           NextRecord # Unreadable => NextRecord \in Contents' \cup Buffered',
           Buffered \subseteq Buffered'
    PROVE  HandledIsHeld' /\ StagedIsHandled'
<1>1. log' = log /\ nodes' = nodes /\ staged' = staged /\ cur' = cur
  BY DEF TakeRecord, storeVars
<1>2. Contents' = Contents
  BY <1>1 DEF Contents
<1>3. /\ cur.chan \in Channels /\ handled[cur.chan] \in Nat
      /\ handled[cur.chan] + 1 \in 1 .. Len(log[cur.chan])
      /\ NextRecord = log[cur.chan][handled[cur.chan] + 1]
  BY NextRecordFacts DEF NextRecord
<1>4. handled \in [Channels -> Nat] /\ staged \in [Channels -> Nat]
  BY DEF IInv, TypeOK
<1>5. handled' = [handled EXCEPT ![cur.chan] = handled[cur.chan] + 1]
  BY DEF TakeRecord
<1>6. ASSUME NEW c \in Channels
      PROVE  /\ handled'[c] <= Len(log[c])
             /\ \A i \in 1 .. Len(log[c]) :
                   i <= handled'[c] /\ log[c][i] # Unreadable
                       => log[c][i] \in Contents' \cup Buffered'
  <2>1. handled[c] <= Len(log[c]) /\ Held(c, handled[c], Contents \cup Buffered)
    BY DEF IInv, HandledIsHeld
  <2>2. CASE c = cur.chan
    <3>1. handled'[c] = handled[c] + 1
      BY <1>3, <1>4, <1>5, <2>2
    <3>2. ASSUME NEW i \in 1 .. Len(log[c]), i <= handled'[c], log[c][i] # Unreadable
          PROVE  log[c][i] \in Contents' \cup Buffered'
      <4>1. i <= handled[c] \/ i = handled[c] + 1
        BY <3>1, <3>2, <1>3, <2>2
      <4>2. CASE i <= handled[c]
        BY <4>2, <3>2, <2>1, <1>2 DEF Held, Readable
      <4>3. CASE i = handled[c] + 1
        BY <4>3, <3>2, <1>3, <2>2
      <4>4. QED BY <4>1, <4>2, <4>3
    <3>3. QED BY <3>1, <3>2, <1>3, <2>2
  <2>3. CASE c # cur.chan
    <3>1. handled'[c] = handled[c]
      BY <1>4, <1>5, <2>3
    <3>2. QED BY <3>1, <2>1, <1>2 DEF Held, Readable
  <2>4. QED BY <2>2, <2>3
<1>7. HandledIsHeld'
  BY <1>1, <1>6 DEF HandledIsHeld, Held, Readable
<1>8. \A c \in Channels : staged[c] <= handled[c]
  BY DEF IInv, StagedIsHandled
<1>9. \A c \in Channels : handled[c] <= handled'[c]
  BY <1>3, <1>4, <1>5
<1>10. \A c \in Channels : staged[c] \in Nat /\ handled[c] \in Nat /\ handled'[c] \in Nat
  BY <1>3, <1>4, <1>5
<1>11. StagedIsHandled'
  BY <1>1, <1>8, <1>9, <1>10 DEF StagedIsHandled
<1>12. QED BY <1>7, <1>11

\* Recorded contents are never unrecorded.
LEMMA RecordedGrows ==
    ASSUME TypeOK, [Next]_vars
    PROVE  Recorded \subseteq Recorded'
<1>1. SUFFICES ASSUME NEW c \in Channels, NEW i \in 1 .. Len(log[c])
               PROVE  log[c][i] \in Recorded'
  BY DEF Recorded
<1>2. log'[c][i] = log[c][i] /\ i \in 1 .. Len(log'[c])
  BY LogGrows
<1>3. QED
  BY <1>2 DEF Recorded

\* The four ways a record of a batch is dealt with, whatever its content.
LEMMA TakeStep ==
    ASSUME IInv, [Next]_vars,
           SkipRecord \/ DuplicateInBatch \/ DuplicateInStore \/ NewEvent
    PROVE  HandledIsHeld' /\ StagedIsHandled' /\ ByHashIsPending' /\ BufferedIsRecorded'
<1>0. TypeOK /\ InBatch /\ TakeRecord /\ Buffered \subseteq Recorded
      /\ pending \in Seq(Events) /\ ByHashIsPending
  BY DEF IInv, SkipRecord, DuplicateInBatch, DuplicateInStore, NewEvent,
         BufferedIsRecorded, TypeOK
<1>1. Contents' = Contents
  BY <1>0 DEF TakeRecord, storeVars, Contents
<1>2. Recorded \subseteq Recorded'
  BY <1>0, RecordedGrows
<1>3. /\ NextRecord # Unreadable => HashNormalized(NextRecord)[1] = NextRecord
      /\ NextRecord \in Recorded
  BY <1>0, NextRecordFacts DEF Recorded, NextRecord
<1>4. CASE SkipRecord
  <2>1. Buffered' = Buffered /\ byHash' = byHash /\ NextRecord = Unreadable
    BY <1>4 DEF SkipRecord, Buffered
  <2>2. QED
    BY <1>0, <1>2, <2>1, HandledTaken DEF ByHashIsPending, BufferedIsRecorded
<1>5. CASE DuplicateInBatch
  <2>1. DOMAIN pending' = DOMAIN pending
    BY <1>5 DEF DuplicateInBatch
  <2>2. ASSUME NEW k \in DOMAIN pending PROVE pending'[k].id = pending[k].id
    <3>1. pending[k] \in Events
      BY <1>0
    <3>2. pending'[k] = [pending[k] EXCEPT !.n = @ + 1] \/ pending'[k] = pending[k]
      BY <1>5 DEF DuplicateInBatch
    <3>3. QED BY <3>1, <3>2 DEF Events
  <2>3. Buffered' = Buffered
    BY <2>1, <2>2 DEF Buffered
  <2>4. byHash' = byHash /\ HashNormalized(NextRecord) \in byHash /\ NextRecord # Unreadable
    BY <1>5 DEF DuplicateInBatch
  <2>5. NextRecord \in Buffered
    BY <1>0, <1>3, <2>4 DEF ByHashIsPending
  <2>6. QED
    BY <1>0, <1>2, <2>3, <2>4, <2>5, HandledTaken DEF ByHashIsPending, BufferedIsRecorded
<1>6. CASE DuplicateInStore
  <2>1. Buffered' = Buffered /\ byHash' = byHash /\ NextRecord # Unreadable
    BY <1>6 DEF DuplicateInStore, Buffered
  <2>2. PICK k \in indexed : nodes[k].id = HashNormalized(NextRecord)
    BY <1>6 DEF DuplicateInStore, IndexedWith
  <2>3. k \in DOMAIN nodes
    BY <2>2 DEF IInv, IndexedInStore
  <2>4. NextRecord \in Contents
    BY <1>3, <2>1, <2>2, <2>3 DEF Contents
  <2>5. QED
    BY <1>0, <1>1, <1>2, <2>1, <2>4, HandledTaken DEF ByHashIsPending, BufferedIsRecorded
<1>7. CASE NewEvent
  <2> DEFINE e == [id |-> HashNormalized(NextRecord), n |-> 1]
  <2>1. pending' = Append(pending, e) /\ NextRecord # Unreadable
    BY <1>7 DEF NewEvent
  <2>2. e.id = HashNormalized(NextRecord)
    OBVIOUS
  <2> HIDE DEF e
  <2>3. /\ DOMAIN pending' = DOMAIN pending \cup {Len(pending) + 1}
        /\ \A k \in DOMAIN pending : pending'[k] = pending[k]
        /\ pending'[Len(pending) + 1] = e
    BY <1>0, <2>1
  <2>4. Buffered' = Buffered \cup {NextRecord}
    BY <1>3, <2>1, <2>2, <2>3 DEF Buffered
  <2>5. \A id \in byHash' : id \in byHash \/ id = HashNormalized(NextRecord)
    BY <1>7 DEF NewEvent
  <2>6. ByHashIsPending'
    BY <1>0, <1>3, <2>1, <2>4, <2>5 DEF ByHashIsPending
  <2>7. BufferedIsRecorded'
    BY <1>0, <1>2, <1>3, <2>4 DEF BufferedIsRecorded
  <2>8. QED
    BY <1>0, <2>4, <2>6, <2>7, HandledTaken
<1>8. QED BY <1>4, <1>5, <1>6, <1>7

\* The state between runs.
LEMMA NoRunInv ==
    ASSUME TypeOK', NoRun
    PROVE  /\ HandledIsHeld' /\ StagedIsHandled' /\ ByHashIsPending'
           /\ BufferedIsRecorded' /\ BatchIsReal' /\ QueueInLog'
           /\ InsertedIsStored' /\ RoomForBatch' /\ IdleIsEmpty'
<1>1. /\ pc' = "idle" /\ handled' = Zero /\ staged' = Zero /\ pending' = <<>>
      /\ byHash' = {} /\ queue' = {}
  BY DEF NoRun
<1>2. \A c \in Channels : Len(log'[c]) \in Nat
  BY DEF TypeOK
<1>3. HandledIsHeld'
  BY <1>1, <1>2 DEF HandledIsHeld, Held, Zero
<1>4. Buffered' = {}
  BY <1>1 DEF Buffered
<1>5. QED
  BY <1>1, <1>3, <1>4 DEF StagedIsHandled, ByHashIsPending, BufferedIsRecorded,
     BatchIsReal, QueueInLog, InsertedIsStored, RoomForBatch, IdleIsEmpty, Zero

\* Steps that change neither the batch nor the store.
LEMMA QuietStep ==
    ASSUME IInv, [Next]_vars, UNCHANGED <<handled, pending, byHash, nodes>>
    PROVE  HandledIsHeld' /\ ByHashIsPending' /\ BufferedIsRecorded'
<1>1. Buffered' = Buffered /\ Contents' = Contents
  BY DEF Buffered, Contents
<1>2. Recorded \subseteq Recorded'
  BY RecordedGrows DEF IInv
<1>3. QED
  BY <1>1, <1>2, HandledKept DEF IInv, ByHashIsPending, BufferedIsRecorded

-----------------------------------------------------------------------------
(* Every conjunct, every step *)

LEMMA BatchStep ==
    ASSUME IInv, [Next]_vars
    PROVE  HandledIsHeld' /\ StagedIsHandled' /\ ByHashIsPending' /\ BufferedIsRecorded'
<1>0. /\ TypeOK /\ TypeOK' /\ MarksHold /\ HandledIsHeld /\ StagedIsHandled
      /\ Buffered \subseteq Recorded /\ Recorded \subseteq Recorded'
  BY TypeStep, RecordedGrows DEF IInv, BufferedIsRecorded
<1>1. CASE SkipRecord \/ DuplicateInBatch \/ DuplicateInStore \/ NewEvent
  BY <1>1, TakeStep
<1>2. CASE NoRun
  BY <1>0, <1>2, NoRunInv
<1>3. ASSUME NEW C, NEW i, StartLive(C, i)
      PROVE  HandledIsHeld' /\ StagedIsHandled' /\ ByHashIsPending' /\ BufferedIsRecorded'
  <2>1. /\ log' = log /\ nodes' = nodes /\ pending' = pending /\ byHash' = byHash
        /\ handled' = memPos /\ staged' = staged /\ pc = "idle"
    BY <1>3 DEF StartLive, storeVars
  <2>2. staged = Zero
    BY <2>1 DEF IInv, IdleIsEmpty
  <2>3. \A c \in Channels : memPos[c] \in Nat
    BY <1>0 DEF TypeOK
  <2>4. StagedIsHandled'
    BY <2>1, <2>2, <2>3 DEF StagedIsHandled, Zero
  <2>5. Buffered' = Buffered /\ Contents' = Contents
    BY <2>1 DEF Buffered, Contents
  <2>6. HandledIsHeld'
    BY <1>0, <2>1, <2>5 DEF MarksHold, HandledIsHeld, Held, Readable
  <2>7. QED
    BY <1>0, <2>1, <2>4, <2>5, <2>6 DEF IInv, ByHashIsPending, BufferedIsRecorded
<1>4. CASE InsertEvents
  <2>1. Contents' = Contents \cup Buffered
    BY <1>0, <1>4, StoreChange
  <2>2. handled' = handled /\ pending' = pending /\ byHash' = byHash /\ staged' = staged
    BY <1>4 DEF InsertEvents
  <2>3. Buffered' = Buffered
    BY <2>2 DEF Buffered
  <2>4. QED
    BY <1>0, <2>1, <2>2, <2>3, HandledKept
       DEF IInv, StagedIsHandled, ByHashIsPending, BufferedIsRecorded
<1>5. CASE Flushed
  <2>1. /\ handled' = handled /\ pending' = <<>> /\ byHash' = {} /\ staged' = staged
        /\ nodes' = nodes /\ pc = "index"
    BY <1>5 DEF Flushed, storeVars
  <2>2. Buffered' = {} /\ Contents' = Contents
    BY <2>1 DEF Buffered, Contents
  <2>3. Buffered \subseteq Contents
    BY <2>1 DEF IInv, InsertedIsStored
  <2>4. QED
    BY <1>0, <2>1, <2>2, <2>3, HandledKept
       DEF StagedIsHandled, ByHashIsPending, BufferedIsRecorded
<1>6. CASE IncrementDedupCounts
  <2>1. handled' = handled /\ pending' = pending /\ byHash' = byHash /\ staged' = staged
    BY <1>6 DEF IncrementDedupCounts
  <2>2. Buffered' = Buffered
    BY <2>1 DEF Buffered
  <2>3. Contents \subseteq Contents'
    BY <1>0, StoreChange
  <2>4. QED
    BY <1>0, <2>1, <2>2, <2>3, HandledKept
       DEF IInv, StagedIsHandled, ByHashIsPending, BufferedIsRecorded
<1>7. CASE BatchDone
  <2>1. UNCHANGED <<handled, pending, byHash, nodes>>
    BY <1>7 DEF BatchDone, storeVars
  <2>2. cur \in Batches /\ cur.chan \in Channels /\ cur.hi <= handled[cur.chan]
    BY <1>0, <1>7 DEF IInv, BatchIsReal, BatchDone, Batches, TypeOK
  <2>3. \A c \in Channels : staged'[c] = staged[c] \/ (c = cur.chan /\ staged'[c] = cur.hi)
    BY <1>0, <1>7, <2>2 DEF BatchDone, TypeOK
  <2>4. StagedIsHandled'
    BY <1>0, <2>1, <2>2, <2>3 DEF StagedIsHandled
  <2>5. QED BY <2>1, <2>4, QuietStep
<1>8. ASSUME NEW c \in Channels, CommitPosition(c)
      PROVE  HandledIsHeld' /\ StagedIsHandled' /\ ByHashIsPending' /\ BufferedIsRecorded'
  <2>1. UNCHANGED <<handled, pending, byHash, nodes>>
    BY <1>8 DEF CommitPosition, storeVars
  <2>2. \A d \in Channels : staged'[d] = staged[d] \/ staged'[d] = 0
    BY <1>0, <1>8 DEF CommitPosition, TypeOK
  <2>3. \A d \in Channels : handled[d] \in Nat
    BY <1>0 DEF TypeOK
  <2>4. StagedIsHandled'
    BY <1>0, <2>1, <2>2, <2>3 DEF StagedIsHandled
  <2>5. QED BY <2>1, <2>4, QuietStep
<1>9. CASE UNCHANGED <<handled, pending, byHash, nodes, staged>>
  BY <1>0, <1>9, QuietStep DEF StagedIsHandled
<1>10. \/ SkipRecord \/ DuplicateInBatch \/ DuplicateInStore \/ NewEvent
       \/ NoRun \/ (\E C, i : StartLive(C, i))
       \/ InsertEvents \/ Flushed \/ IncrementDedupCounts \/ BatchDone
       \/ (\E c \in Channels : CommitPosition(c))
       \/ UNCHANGED <<handled, pending, byHash, nodes, staged>>
  BY DEF Next, User, Readers, Sink, vars, Record, Pause, Resume, Cancel,
         CloseResults, Reset, ReadBatch, LoopTop, LeaveLoop, WakeForPause,
         WaitOver, ReceiveBatch, NothingToInsert, IndexNode, Committed, Finish,
         StoreFails, Crash, storeVars, sinkVars
<1>11. QED
  BY <1>1, <1>2, <1>3, <1>4, <1>5, <1>6, <1>7, <1>8, <1>9, <1>10

LEMMA QueueStep ==
    ASSUME IInv, [Next]_vars
    PROVE  QueueInLog'
<1>0. TypeOK /\ QueueInLog
  BY DEF IInv
<1>1. ASSUME NEW b \in queue PROVE b.hi <= Len(log'[b.chan])
  <2>1. b.chan \in Channels /\ b.hi \in Nat /\ b.hi <= Len(log[b.chan])
    BY <1>0, <1>1 DEF TypeOK, Batches, QueueInLog
  <2>2. QED BY <1>0, <2>1, LogGrows
<1>2. CASE queue' \subseteq queue
  BY <1>1, <1>2 DEF QueueInLog
<1>3. ASSUME NEW c \in Channels, NEW hi, ReadBatch(c, hi) PROVE QueueInLog'
  <2>1. log' = log /\ queue' = queue \cup {[chan |-> c, hi |-> hi]} /\ hi <= Len(log[c])
    BY <1>3 DEF ReadBatch
  <2>2. QED BY <1>0, <2>1 DEF QueueInLog
<1>4. queue' \subseteq queue \/ (\E c \in Channels : \E hi : ReadBatch(c, hi))
  BY DEF Next, User, Readers, Sink, vars, Record, StartLive, Pause, Resume,
         Cancel, CloseResults, Reset, LoopTop, LeaveLoop, WakeForPause,
         WaitOver, ReceiveBatch, SkipRecord, DuplicateInBatch,
         DuplicateInStore, NewEvent, TakeRecord, BatchDone, InsertEvents,
         NothingToInsert, IndexNode, Flushed, IncrementDedupCounts,
         CommitPosition, Committed, Finish, StoreFails, Crash, NoRun, runVars
<1>5. QED BY <1>2, <1>3, <1>4

LEMMA BatchRealStep ==
    ASSUME IInv, [Next]_vars
    PROVE  BatchIsReal'
<1> DEFINE P == pc = "chunk" \/ (pc \in {"insert", "index", "commit", "inc", "commitInc"}
                                     /\ mode = "run")
<1>0. TypeOK
  BY DEF IInv
<1>1. P => cur \in Batches /\ cur.hi <= Len(log[cur.chan])
  BY DEF IInv, BatchIsReal
<1>2. P => cur.chan \in Channels /\ cur.hi \in Nat
  BY <1>1 DEF Batches
<1>3. P => cur.hi <= Len(log'[cur.chan])
  BY <1>0, <1>1, <1>2, LogGrows
<1>4. CASE cur' = cur /\ (P' => P)
  BY <1>1, <1>3, <1>4 DEF BatchIsReal
<1>5. CASE ~P'
  BY <1>5 DEF BatchIsReal
<1>6. ASSUME NEW b \in queue, ReceiveBatch(b) PROVE BatchIsReal'
  <2>1. cur' = b /\ log' = log
    BY <1>6 DEF ReceiveBatch
  <2>2. b \in Batches /\ b.hi <= Len(log[b.chan])
    BY <1>0 DEF IInv, TypeOK, QueueInLog
  <2>3. QED BY <2>1, <2>2 DEF BatchIsReal
<1>7. CASE NoRun
  BY <1>7 DEF NoRun, BatchIsReal
<1>8. (cur' = cur /\ (P' => P)) \/ ~P' \/ NoRun \/ \E b \in queue : ReceiveBatch(b)
  BY DEF Next, User, Readers, Sink, vars, Record, StartLive, Pause, Resume,
         Cancel, CloseResults, Reset, ReadBatch, LoopTop, LeaveLoop,
         WakeForPause, WaitOver, SkipRecord, DuplicateInBatch,
         DuplicateInStore, NewEvent, InBatch, TakeRecord, BatchDone,
         InsertEvents, NothingToInsert, IndexNode, Flushed,
         IncrementDedupCounts, CommitPosition, Committed, Finish, StoreFails,
         Crash, sinkVars
<1>9. QED BY <1>4, <1>5, <1>6, <1>7, <1>8

LEMMA InsertStep ==
    ASSUME IInv, [Next]_vars
    PROVE  InsertedIsStored' /\ RoomForBatch' /\ IdleIsEmpty' /\ IndexedInStore'
<1>0. /\ TypeOK /\ nodes \in Seq(Events) /\ pending \in Seq(Events)
      /\ Contents \subseteq Contents' /\ DOMAIN nodes \subseteq DOMAIN nodes'
  BY StoreChange DEF IInv, TypeOK
<1>1. CASE InsertEvents
  <2>1. nodes' = nodes \o pending /\ pending' = pending /\ pc' = "index" /\ indexed' = indexed
    BY <1>1 DEF InsertEvents
  <2>2. Contents' = Contents \cup Buffered /\ Buffered' = Buffered
    BY <1>0, <1>1, <2>1, StoreChange DEF Buffered
  <2>3. Len(nodes') = Len(nodes) + Len(pending) /\ Len(nodes) \in Nat /\ Len(pending) \in Nat
    BY <1>0, <2>1
  <2>4. QED
    BY <1>0, <2>1, <2>2, <2>3
       DEF InsertedIsStored, RoomForBatch, IdleIsEmpty, IndexedInStore, IInv
<1>2. CASE IndexNode
  <2>1. /\ nodes' = nodes /\ pending' = pending /\ pc = "index" /\ pc' = pc
        /\ indexed' = indexed \cup {Len(nodes) - Len(pending) + ix + 1}
        /\ ix < Len(pending)
    BY <1>2 DEF IndexNode
  <2>2. Len(nodes) \in Nat /\ Len(pending) \in Nat /\ ix \in Nat
    BY <1>0 DEF TypeOK
  <2>3. Len(pending) <= Len(nodes)
    BY <2>1 DEF IInv, RoomForBatch
  <2>4. Len(nodes) - Len(pending) + ix + 1 \in 1 .. Len(nodes)
    BY <2>1, <2>2, <2>3
  <2>5. IndexedInStore'
    BY <1>0, <2>1, <2>4 DEF IInv, IndexedInStore
  <2>6. Buffered' = Buffered /\ Contents' = Contents
    BY <2>1 DEF Buffered, Contents
  <2>7. QED
    BY <2>1, <2>3, <2>5, <2>6 DEF IInv, InsertedIsStored, RoomForBatch, IdleIsEmpty
<1>3. CASE indexed' = indexed /\ pc' # "index" /\ (pc' = "idle" => staged' = Zero)
  BY <1>0, <1>3 DEF IInv, InsertedIsStored, RoomForBatch, IdleIsEmpty, IndexedInStore
<1>4. CASE UNCHANGED <<nodes, indexed, pc, pending, staged>>
  <2>1. Buffered' = Buffered /\ Contents' = Contents
    BY <1>4 DEF Buffered, Contents
  <2>2. QED
    BY <1>4, <2>1 DEF IInv, InsertedIsStored, RoomForBatch, IdleIsEmpty, IndexedInStore
<1>5. \/ InsertEvents \/ IndexNode
      \/ (indexed' = indexed /\ pc' # "index" /\ (pc' = "idle" => staged' = Zero))
      \/ UNCHANGED <<nodes, indexed, pc, pending, staged>>
  BY DEF Next, User, Readers, Sink, vars, Record, StartLive, Pause, Resume,
         Cancel, CloseResults, Reset, ReadBatch, LoopTop, LeaveLoop,
         WakeForPause, WaitOver, ReceiveBatch, SkipRecord, DuplicateInBatch,
         DuplicateInStore, NewEvent, InBatch, TakeRecord, BatchDone,
         NothingToInsert, Flushed, IncrementDedupCounts, CommitPosition,
         Committed, Finish, StoreFails, Crash, NoRun, sinkVars, storeVars
<1>6. QED BY <1>1, <1>2, <1>3, <1>4, <1>5

LEMMA InvStep == IInv /\ [Next]_vars => IInv'
  BY TypeStep, MarksStep, BatchStep, BatchRealStep, QueueStep, InsertStep DEF IInv

-----------------------------------------------------------------------------
(* Theorems *)

LEMMA Invariance == Spec => []IInv
<1>1. Init => IInv
  BY InitInv
<1>2. QED
  BY <1>1, InvStep, PTL DEF Spec

\* Every reachable state of the capture pipeline is well typed.
THEOREM TypeCorrect == Spec => []TypeOK
<1>1. IInv => TypeOK
  BY DEF IInv
<1>2. QED BY <1>1, Invariance, PTL

\* Whatever is interrupted, no bookmark in memory or on disk passes a readable
\* record whose event is not stored: commitPositions holds a staged position
\* back until both buffers are written.
THEOREM BookmarksNeverSkip == Spec => []NeverSkips
<1>1. IInv => NeverSkips
  BY DEF IInv, MarksHold, NeverSkips, Held
<1>2. QED BY <1>1, Invariance, PTL

\* A bookmark never names a record the channel does not have.
THEOREM BookmarksStayInside == Spec => []BookmarksInsideLog
<1>1. IInv => BookmarksInsideLog
  BY DEF IInv, MarksHold, BookmarksInsideLog
<1>2. QED BY <1>1, Invariance, PTL

\* Every step of the pipeline is a step of its contract or changes nothing
\* the contract sees.
LEMMA ContractStep ==
    IInv /\ [Next]_vars => [Contract!Next]_<<log, Contents, diskPos>>
<1> SUFFICES ASSUME IInv, [Next]_vars
             PROVE  [Contract!Next]_<<log, Contents, diskPos>>
  OBVIOUS
<1>0. TypeOK /\ TypeOK' /\ MarksHold'
  BY TypeStep, MarksStep DEF IInv
<1>1. ASSUME NEW c \in Channels, NEW r \in Records, Record(c, r)
      PROVE  Contract!Record
  BY <1>1 DEF Record, Contract!Record, Records, storeVars, posVars, Contents
<1>2. CASE log' = log /\ diskPos' = diskPos
  <2>1. Contents \subseteq Contents' /\ Contents' \subseteq Contents \cup Recorded
    BY <1>0, StoreChange DEF IInv, BufferedIsRecorded
  <2>2. QED
    BY <1>2, <2>1 DEF Contract!Next, Contract!Keep, Recorded
<1>3. CASE log' = log /\ nodes' = nodes
  <2>1. Contents' = Contents
    BY <1>3 DEF Contents
  <2>2. diskPos' \in [Channels -> Nat]
    BY <1>0 DEF TypeOK
  <2>3. ASSUME NEW c \in Channels
        PROVE  diskPos'[c] <= Len(log[c]) /\ Contract!Covered(c, diskPos'[c])
    BY <1>0, <1>3, <2>1 DEF MarksHold, Held, Readable, Contract!Covered
  <2>4. QED
    BY <1>3, <2>1, <2>2, <2>3 DEF Contract!Next, Contract!MoveMark
<1>4. \/ \E c \in Channels, r \in Records : Record(c, r)
      \/ log' = log /\ diskPos' = diskPos
      \/ log' = log /\ nodes' = nodes
  BY DEF Next, User, Readers, Sink, vars, StartLive, Pause, Resume, Cancel,
         CloseResults, Reset, ReadBatch, LoopTop, LeaveLoop, WakeForPause,
         WaitOver, ReceiveBatch, SkipRecord, DuplicateInBatch,
         DuplicateInStore, NewEvent, TakeRecord, BatchDone, InsertEvents,
         NothingToInsert, IndexNode, Flushed, IncrementDedupCounts,
         CommitPosition, Committed, Finish, StoreFails, Crash, posVars, storeVars
<1>5. QED BY <1>1, <1>2, <1>3, <1>4 DEF Contract!Next

\* The pipeline implements the capture contract: an event is stored before
\* the durable bookmark that covers it, and only recorded contents are kept.
THEOREM ImplementsContract == Spec => CaptureContractHolds
<1>1. Init => Contract!Init
  BY DEF Init, Contract!Init, Contents, Zero
<1>2. QED
  BY <1>1, ContractStep, Invariance, PTL DEF Spec, CaptureContractHolds, Contract!Spec

-----------------------------------------------------------------------------
(* Live capture never makes two nodes findable under one identity, while      *)
(* every run is idempotent: the batch's hash set is exactly the identities of *)
(* the batch, the batch has no identity twice, and no identity of an          *)
(* unwritten batch is in the property index. While a batch is being indexed,  *)
(* the only entry an identity of it can have is the one of its own new node.  *)

ByHashExact == byHash = {pending[k].id : k \in DOMAIN pending}
PendingDistinct ==
    \A j, k \in DOMAIN pending : pending[j].id = pending[k].id => j = k
IndexDistinct == \A j, k \in indexed : nodes[j].id = nodes[k].id => j = k
PendingNotIndexed ==
    pc # "index" =>
        \A j \in indexed, k \in DOMAIN pending : nodes[j].id # pending[k].id
\* The node of the k-th event of the batch being indexed.
NodeOf(k) == Len(nodes) - Len(pending) + k
BatchIndexing ==
    pc = "index" =>
        \A k \in DOMAIN pending :
            /\ nodes[NodeOf(k)].id = pending[k].id
            /\ \A j \in indexed : nodes[j].id = pending[k].id => j = NodeOf(k)

DInv ==
    /\ idem = TRUE
    /\ ByHashExact
    /\ PendingDistinct
    /\ IndexDistinct
    /\ PendingNotIndexed
    /\ BatchIndexing

-----------------------------------------------------------------------------

\* Steps that keep the batch and the store as they are.
LEMMA DedupQuiet ==
    ASSUME IInv, DInv, idem' = TRUE,
           UNCHANGED <<pending, byHash, nodes, indexed>>,
           pc' = "index" => pc = "index", pc = "index" => pc' = "index"
    PROVE  DInv'
<1>1. ByHashExact' /\ PendingDistinct' /\ IndexDistinct'
  BY DEF DInv, ByHashExact, PendingDistinct, IndexDistinct
<1>2. PendingNotIndexed'
  BY DEF DInv, PendingNotIndexed
<1>3. BatchIndexing'
  BY DEF DInv, BatchIndexing, NodeOf
<1>4. QED BY <1>1, <1>2, <1>3 DEF DInv

\* With an empty batch only the index matters.
LEMMA DedupEmpty ==
    ASSUME DInv, idem' = TRUE, pending' = <<>>, byHash' = {},
           UNCHANGED <<nodes, indexed>>
    PROVE  DInv'
<1>1. ByHashExact' /\ PendingDistinct'
  BY DEF ByHashExact, PendingDistinct
<1>2. IndexDistinct'
  BY DEF DInv, IndexDistinct
<1>3. PendingNotIndexed' /\ BatchIndexing'
  BY DEF PendingNotIndexed, BatchIndexing
<1>4. QED BY <1>1, <1>2, <1>3 DEF DInv

\* Counting an occurrence in the batch or in the store changes no identity.
LEMMA DedupSameIds ==
    ASSUME IInv, DInv, UNCHANGED <<idem, byHash, indexed>>,
           pc # "index", pc' # "index",
           DOMAIN pending' = DOMAIN pending,
           \A k \in DOMAIN pending : pending'[k].id = pending[k].id,
           \A k \in DOMAIN nodes : nodes'[k].id = nodes[k].id
    PROVE  DInv'
<1>1. \A k \in indexed : nodes'[k].id = nodes[k].id
  BY DEF IInv, IndexedInStore
<1>2. ByHashExact' /\ PendingDistinct'
  BY DEF DInv, ByHashExact, PendingDistinct
<1>3. IndexDistinct'
  BY <1>1 DEF DInv, IndexDistinct
<1>4. PendingNotIndexed'
  BY <1>1 DEF DInv, PendingNotIndexed
<1>5. BatchIndexing' /\ idem' = TRUE
  BY DEF BatchIndexing, DInv
<1>6. QED BY <1>2, <1>3, <1>4, <1>5 DEF DInv

LEMMA DedupNewEvent ==
    ASSUME IInv, DInv, NewEvent
    PROVE  DInv'
<1> DEFINE id == HashNormalized(NextRecord)
           e == [id |-> id, n |-> 1]
<1>1. /\ pending' = Append(pending, e) /\ byHash' = byHash \cup {id}
      /\ id \notin byHash /\ IndexedWith(id) = {}
      /\ pc = "chunk" /\ pc' # "index"
  BY DEF NewEvent, DInv, InBatch
<1>2. UNCHANGED <<nodes, indexed, idem>>
  BY DEF NewEvent, TakeRecord, storeVars, runVars
<1>3. pending \in Seq(Events)
  BY DEF IInv, TypeOK
<1>4. e.id = id
  OBVIOUS
<1> HIDE DEF e, id
<1>5. /\ DOMAIN pending' = DOMAIN pending \cup {Len(pending) + 1}
      /\ \A k \in DOMAIN pending : pending'[k] = pending[k]
      /\ pending'[Len(pending) + 1] = e
  BY <1>1, <1>3
<1>6. ByHashExact'
  BY <1>1, <1>4, <1>5 DEF DInv, ByHashExact
<1>7. \A k \in DOMAIN pending : pending[k].id # id
  BY <1>1 DEF DInv, ByHashExact
<1>8. PendingDistinct'
  BY <1>4, <1>5, <1>7 DEF DInv, PendingDistinct
<1>9. \A j \in indexed : nodes[j].id # id
  BY <1>1 DEF IndexedWith
<1>10. PendingNotIndexed'
  BY <1>1, <1>2, <1>4, <1>5, <1>9 DEF DInv, PendingNotIndexed
<1>11. IndexDistinct' /\ BatchIndexing' /\ idem' = TRUE
  BY <1>1, <1>2 DEF DInv, IndexDistinct, BatchIndexing
<1>12. QED BY <1>6, <1>8, <1>10, <1>11 DEF DInv

LEMMA DedupInsert ==
    ASSUME IInv, DInv, InsertEvents
    PROVE  DInv'
<1>1. /\ nodes' = nodes \o pending /\ pc = "insert" /\ pc' = "index"
      /\ UNCHANGED <<indexed, pending, byHash, idem>>
  BY DEF InsertEvents, runVars
<1>2. nodes \in Seq(Events) /\ pending \in Seq(Events)
  BY DEF IInv, TypeOK
<1>3. /\ DOMAIN pending = 1 .. Len(pending) /\ DOMAIN nodes = 1 .. Len(nodes)
      /\ Len(nodes) \in Nat /\ Len(pending) \in Nat
      /\ Len(nodes') = Len(nodes) + Len(pending)
      /\ \A k \in 1 .. Len(nodes) : nodes'[k] = nodes[k]
      /\ \A k \in 1 .. Len(pending) : nodes'[Len(nodes) + k] = pending[k]
  BY <1>1, <1>2
<1>4. \A j \in indexed : nodes'[j] = nodes[j]
  BY <1>3 DEF IInv, IndexedInStore
<1>5. \A k \in DOMAIN pending : NodeOf(k)' = Len(nodes) + k
  BY <1>1, <1>3 DEF NodeOf
<1>6. \A j \in indexed, k \in DOMAIN pending : nodes[j].id # pending[k].id
  BY <1>1 DEF DInv, PendingNotIndexed
<1>7. BatchIndexing'
  <2>1. SUFFICES ASSUME NEW k \in DOMAIN pending
                 PROVE  /\ nodes'[NodeOf(k)'].id = pending[k].id
                        /\ \A j \in indexed : nodes'[j].id # pending[k].id
    BY <1>1 DEF BatchIndexing
  <2>2. nodes'[NodeOf(k)'] = pending[k]
    BY <1>3, <1>5
  <2>3. QED BY <2>2, <1>4, <1>6
<1>8. IndexDistinct'
  <2>1. \A j, k \in indexed : nodes[j].id = nodes[k].id => j = k
    BY DEF DInv, IndexDistinct
  <2>2. indexed' = indexed
    BY <1>1
  <2>3. QED BY <2>1, <2>2, <1>4 DEF IndexDistinct
<1>9. ByHashExact' /\ PendingDistinct' /\ PendingNotIndexed' /\ idem' = TRUE
  BY <1>1 DEF DInv, ByHashExact, PendingDistinct, PendingNotIndexed
<1>10. QED BY <1>7, <1>8, <1>9 DEF DInv

LEMMA DedupIndex ==
    ASSUME IInv, DInv, IndexNode
    PROVE  DInv'
<1>1. /\ indexed' = indexed \cup {NodeOf(ix + 1)} /\ ix < Len(pending)
      /\ pc = "index" /\ pc' = pc
      /\ UNCHANGED <<nodes, pending, byHash, idem>>
  <2>1. Len(nodes) \in Nat /\ Len(pending) \in Nat /\ ix \in Nat
    BY DEF IInv, TypeOK
  <2>2. NodeOf(ix + 1) = Len(nodes) - Len(pending) + ix + 1
    BY <2>1 DEF NodeOf
  <2>3. QED BY <2>2 DEF IndexNode, runVars
<1>2. ix + 1 \in DOMAIN pending
  BY <1>1 DEF IInv, TypeOK
<1>3. \A k \in DOMAIN pending :
         /\ nodes[NodeOf(k)].id = pending[k].id
         /\ \A j \in indexed : nodes[j].id = pending[k].id => j = NodeOf(k)
  BY <1>1 DEF DInv, BatchIndexing
<1>4. \A k \in DOMAIN pending : NodeOf(k)' = NodeOf(k)
  BY <1>1 DEF NodeOf
<1> HIDE DEF NodeOf
<1>5. IndexDistinct'
  BY <1>1, <1>2, <1>3 DEF DInv, IndexDistinct
<1>6. \A k \in DOMAIN pending : pending[k].id = pending[ix + 1].id => k = ix + 1
  BY <1>2 DEF DInv, PendingDistinct
<1>7. BatchIndexing'
  <2>1. SUFFICES ASSUME NEW k \in DOMAIN pending, NEW j \in indexed',
                        nodes[j].id = pending[k].id
                 PROVE  j = NodeOf(k)
    BY <1>1, <1>3, <1>4 DEF BatchIndexing
  <2>2. CASE j \in indexed
    BY <2>1, <2>2, <1>3
  <2>3. CASE j = NodeOf(ix + 1)
    BY <2>1, <2>3, <1>2, <1>3, <1>6
  <2>4. QED BY <2>2, <2>3, <1>1
<1>8. ByHashExact' /\ PendingDistinct' /\ PendingNotIndexed' /\ idem' = TRUE
  BY <1>1 DEF DInv, ByHashExact, PendingDistinct, PendingNotIndexed
<1>9. QED BY <1>5, <1>7, <1>8 DEF DInv

LEMMA DedupStep ==
    ASSUME IdemChoices = {TRUE}, IInv, DInv, [Next]_vars
    PROVE  DInv'
<1>0. pending \in Seq(Events) /\ nodes \in Seq(Events) /\ idem = TRUE
  BY DEF IInv, TypeOK, DInv
<1>1. CASE NewEvent
  BY <1>1, DedupNewEvent
<1>2. CASE InsertEvents
  BY <1>2, DedupInsert
<1>3. CASE IndexNode
  BY <1>3, DedupIndex
<1>4. CASE Flushed
  BY <1>0, <1>4, DedupEmpty DEF Flushed, storeVars, runVars
<1>5. CASE NoRun /\ UNCHANGED storeVars
  BY <1>5, DedupEmpty DEF NoRun, storeVars
<1>6. CASE DuplicateInBatch
  <2>1. ASSUME NEW k \in DOMAIN pending PROVE pending'[k].id = pending[k].id
    <3>1. pending[k] \in Events
      BY <1>0
    <3>2. pending'[k] = [pending[k] EXCEPT !.n = @ + 1] \/ pending'[k] = pending[k]
      BY <1>6 DEF DuplicateInBatch
    <3>3. QED BY <3>1, <3>2 DEF Events
  <2>2. /\ UNCHANGED <<idem, byHash, indexed, nodes>> /\ pc # "index" /\ pc' # "index"
        /\ DOMAIN pending' = DOMAIN pending
    BY <1>6 DEF DuplicateInBatch, InBatch, TakeRecord, storeVars, runVars
  <2>3. QED BY <2>1, <2>2, DedupSameIds
<1>7. CASE IncrementDedupCounts
  <2>1. ASSUME NEW k \in DOMAIN nodes PROVE nodes'[k].id = nodes[k].id
    <3>1. nodes[k] \in Events
      BY <1>0
    <3>2. nodes'[k] = [nodes[k] EXCEPT !.n = @ + dbInc[k]] \/ nodes'[k] = nodes[k]
      BY <1>7 DEF IncrementDedupCounts
    <3>3. QED BY <3>1, <3>2 DEF Events
  <2>2. UNCHANGED <<idem, byHash, indexed, pending>> /\ pc # "index" /\ pc' # "index"
    BY <1>7 DEF IncrementDedupCounts, runVars
  <2>3. QED BY <2>1, <2>2, DedupSameIds
<1>8. CASE /\ UNCHANGED <<pending, byHash, nodes, indexed>>
           /\ idem' = TRUE /\ (pc' = "index" <=> pc = "index")
  BY <1>8, DedupQuiet
<1>9. ASSUME NEW C, NEW i \in IdemChoices, StartLive(C, i)
      PROVE  /\ UNCHANGED <<pending, byHash, nodes, indexed>>
             /\ idem' = TRUE /\ (pc' = "index" <=> pc = "index")
  BY <1>9 DEF StartLive, storeVars
<1>10. \/ NewEvent \/ InsertEvents \/ IndexNode \/ Flushed
       \/ (NoRun /\ UNCHANGED storeVars)
       \/ DuplicateInBatch \/ IncrementDedupCounts
       \/ (\E C : \E i \in IdemChoices : StartLive(C, i))
       \/ (/\ UNCHANGED <<pending, byHash, nodes, indexed>>
           /\ idem' = idem /\ (pc' = "index" <=> pc = "index"))
  BY DEF Next, User, Readers, Sink, vars, Record, Pause, Resume, Cancel,
         CloseResults, Reset, ReadBatch, LoopTop, LeaveLoop, WakeForPause,
         WaitOver, ReceiveBatch, SkipRecord, DuplicateInStore, InBatch,
         TakeRecord, BatchDone, NothingToInsert, CommitPosition, Committed,
         Finish, StoreFails, Crash, storeVars, sinkVars, runVars
<1>11. QED
  BY <1>0, <1>1, <1>2, <1>3, <1>4, <1>5, <1>6, <1>7, <1>8, <1>9, <1>10

\* However often capture is interrupted and re-reads its records, the property
\* index never resolves one identity to two nodes: pendingByHash covers the
\* batch that is not in the index yet, the index covers everything else.
THEOREM OneNodeFindable == Spec => []OneFindableNodePerIdentity
<1>1. CASE IdemChoices # {TRUE}
  <2>1. OneFindableNodePerIdentity
    BY <1>1 DEF OneFindableNodePerIdentity
  <2>2. QED BY <2>1, PTL
<1>2. CASE IdemChoices = {TRUE}
  <2>1. Init => IInv /\ DInv
    <3>1. SUFFICES ASSUME Init PROVE DInv
      BY InitInv
    <3>2. pending = <<>> /\ byHash = {} /\ indexed = {} /\ idem = TRUE /\ pc = "idle"
      BY <3>1 DEF Init
    <3>3. QED
      BY <3>2 DEF DInv, ByHashExact, PendingDistinct, IndexDistinct,
                  PendingNotIndexed, BatchIndexing
  <2>2. IInv /\ DInv /\ [Next]_vars => IInv' /\ DInv'
    BY <1>2, InvStep, DedupStep
  <2>3. IInv /\ DInv => OneFindableNodePerIdentity
    BY DEF DInv, IndexDistinct, OneFindableNodePerIdentity
  <2>4. QED BY <2>1, <2>2, <2>3, PTL DEF Spec
<1>3. QED BY <1>1, <1>2
-----------------------------------------------------------------------------
(* No occurrence is lost. Counting is by pairing off: the records taken from  *)
(* the channels fit into the occurrences the store, the unwritten batch and   *)
(* the unwritten increments account for, and the records behind a bookmark    *)
(* fit into those of the store alone. Taking a record adds one of each; the   *)
(* two writes move occurrences from memory to the store; and a bookmark moves *)
(* only while nothing is in memory.                                           *)

\* The records of content h at or below position p in the logs L.
Past(L, p, h) ==
    {u \in Channels \X Nat :
        u[2] \in DOMAIN L[u[1]] /\ u[2] <= p[u[1]] /\ L[u[1]][u[2]] = h}

\* The occurrences of content h, each named by where it is, by its event and
\* by its number.
Stored(h) ==
    {u \in {"store"} \X Nat \X Nat :
        u[2] \in DOMAIN nodes /\ nodes[u[2]].id[1] = h /\ u[3] \in 1 .. nodes[u[2]].n}
InMemory(h) ==
    {u \in {"batch"} \X Nat \X Nat :
        /\ pc # "index" /\ u[2] \in DOMAIN pending
        /\ pending[u[2]].id[1] = h /\ u[3] \in 1 .. pending[u[2]].n}
Deferred(h) ==
    {u \in {"deferred"} \X Nat \X Nat :
        u[2] \in DOMAIN dbInc /\ nodes[u[2]].id[1] = h /\ u[3] \in 1 .. dbInc[u[2]]}
Units(h) == Stored(h) \cup InMemory(h) \cup Deferred(h)

HandledFits ==
    \A h \in Hashes : ExistsInjection(Past(log, handled, h), Units(h))
MarksFit ==
    \A h \in Hashes : /\ ExistsInjection(Past(log, memPos, h), Stored(h))
                      /\ ExistsInjection(Past(log, diskPos, h), Stored(h))
MarksBehind == pc # "idle" => \A c \in Channels : memPos[c] <= handled[c]
IncOfStore == DOMAIN dbInc \subseteq DOMAIN nodes
ByHashHasEvent == \A id \in byHash : \E k \in DOMAIN pending : pending[k].id = id

\* No reader outlives its run; the batch is empty from its flush until the next
\* record is taken, the increments until the next batch, and nothing is staged
\* at a pause.
Emptied ==
    /\ pc = "idle" => queue = {} /\ ~open
    /\ pc = "chunk" => mode = "run"
    /\ \/ pc \in {"commit", "wait"}
       \/ pc \in {"inc", "commitInc"} /\ mode # "run"
       => pending = <<>>
    /\ pc \in {"commitInc", "wait"} => dbInc = EmptyBag
    /\ pc = "wait" => staged = Zero /\ mode # "run"

\* Batches reach the sink in the order their reader sent them.
InsideBatch ==
    \/ pc = "chunk"
    \/ pc \in {"insert", "index", "commit", "inc", "commitInc"} /\ mode = "run"
InOrder ==
    /\ \A b \in queue : handled[b.chan] < b.hi /\ b.hi <= sent[b.chan]
    /\ \A c \in Channels : handled[c] <= sent[c]
    /\ InsideBatch => /\ 0 < cur.hi
                      /\ handled[cur.chan] <= cur.hi
                      /\ cur.hi <= sent[cur.chan]
                      /\ \A b \in queue : b.chan = cur.chan => cur.hi < b.hi

\* What was taken from a channel is staged or bookmarked to the last record,
\* but for the channel whose batch is being processed.
StagedIsLast ==
    resets = 0 /\ pc # "idle" =>
        \A c \in Channels : (InsideBatch => c # cur.chan) =>
            handled[c] = IF staged[c] > 0 THEN staged[c] ELSE memPos[c]

OInv ==
    /\ HandledFits
    /\ MarksFit
    /\ MarksBehind
    /\ IncOfStore
    /\ ByHashHasEvent
    /\ Emptied
    /\ InOrder
    /\ StagedIsLast

-----------------------------------------------------------------------------
(* Pairing off *)

\* A smaller set fits into a larger one.
LEMMA FitsMore ==
    ASSUME NEW S, NEW T, NEW S2, NEW T2, ExistsInjection(S, T),
           S2 \subseteq S, T \subseteq T2
    PROVE  ExistsInjection(S2, T2)
<1>1. PICK f : f \in Injection(S, T)
  BY DEF ExistsInjection
<1> DEFINE g == [x \in S2 |-> f[x]]
<1>2. f \in [S -> T] /\ \A x, y \in S : f[x] = f[y] => x = y
  BY <1>1 DEF Injection, IsInjective
<1>3. g \in [S2 -> T2]
  BY <1>2
<1>4. \A x, y \in S2 : g[x] = g[y] => x = y
  BY <1>2
<1>5. g \in Injection(S2, T2)
  BY <1>3, <1>4 DEF Injection, IsInjective
<1>6. QED BY <1>5 DEF ExistsInjection

\* One more record fits when there is one more occurrence.
OneMore(S, T, S2, T2) ==
    /\ \E x : S2 \subseteq S \cup {x}
    /\ T \subseteq T2
    /\ \E y : y \in T2 /\ y \notin T
LEMMA FitsOneMore ==
    ASSUME NEW S, NEW T, NEW S2, NEW T2, ExistsInjection(S, T), OneMore(S, T, S2, T2)
    PROVE  ExistsInjection(S2, T2)
<1>0. PICK x, y : S2 \subseteq S \cup {x} /\ T \subseteq T2 /\ y \in T2 /\ y \notin T
  BY DEF OneMore
<1>1. PICK f : f \in Injection(S, T)
  BY DEF ExistsInjection
<1> DEFINE g == [z \in S2 |-> IF z \in S THEN f[z] ELSE y]
<1>2. f \in [S -> T] /\ \A z, w \in S : f[z] = f[w] => z = w
  BY <1>1 DEF Injection, IsInjective
<1>3. \A z \in S2 : g[z] = IF z \in S THEN f[z] ELSE y
  OBVIOUS
<1>4. g \in [S2 -> T2]
  BY <1>0, <1>2
<1>5. \A z, w \in S2 : g[z] = g[w] => z = w
  BY <1>0, <1>2, <1>3
<1>6. g \in Injection(S2, T2)
  BY <1>4, <1>5 DEF Injection, IsInjective
<1>7. QED BY <1>6 DEF ExistsInjection

LEMMA FitsNone ==
    ASSUME NEW T
    PROVE  ExistsInjection({}, T)
<1>1. [x \in {} |-> x] \in Injection({}, T)
  BY DEF Injection, IsInjective
<1>2. QED BY <1>1 DEF ExistsInjection

\* A counting by function.
LEMMA FitsBy ==
    ASSUME NEW S, NEW T, NEW f, f \in [S -> T],
           \A x, y \in S : f[x] = f[y] => x = y
    PROVE  ExistsInjection(S, T)
<1>1. f \in Injection(S, T)
  BY DEF Injection, IsInjective
<1>2. QED BY <1>1 DEF ExistsInjection

\* Records already behind a position stay the same while channels grow.
LEMMA PastKept ==
    ASSUME TypeOK, [Next]_vars, NEW p \in [Channels -> Nat], NEW h,
           \A c \in Channels : p[c] <= Len(log[c])
    PROVE  Past(log', p, h) \subseteq Past(log, p, h)
<1>1. SUFFICES ASSUME NEW c \in Channels, NEW i \in Nat,
                      i \in DOMAIN log'[c], i <= p[c], log'[c][i] = h
               PROVE  i \in DOMAIN log[c] /\ log[c][i] = h
  BY DEF Past
<1>2. log[c] \in Seq(Records)
  BY DEF TypeOK
<1>3. i >= 1 /\ i <= Len(log[c])
  <2>1. \E n \in Nat : DOMAIN log'[c] = 1 .. n
    <3>1. log' = log \/ \E d \in Channels, r \in Records : Record(d, r)
      BY LogChange
    <3>2. CASE log' = log
      BY <1>2, <3>2
    <3>3. ASSUME NEW d \in Channels, NEW r \in Records, Record(d, r)
          PROVE  log'[c] = log[c] \/ log'[c] = Append(log[c], r)
      BY <3>3 DEF Record, TypeOK
    <3>4. ASSUME NEW r \in Records, log'[c] = Append(log[c], r)
          PROVE  DOMAIN log'[c] = 1 .. (Len(log[c]) + 1)
      BY <1>2, <3>4
    <3>5. Len(log[c]) \in Nat /\ DOMAIN log[c] = 1 .. Len(log[c])
      BY <1>2
    <3>6. QED BY <3>1, <3>2, <3>3, <3>4, <3>5
  <2>2. Len(log[c]) \in Nat /\ p[c] \in Nat /\ p[c] <= Len(log[c])
    BY <1>2
  <2>3. QED BY <1>1, <2>1, <2>2
<1>4. QED BY <1>1, <1>2, <1>3, LogGrows

LEMMA LeastIn ==
    ASSUME NEW S, S \subseteq Nat, S # {}
    PROVE  Least(S) \in S
<1> DEFINE R == {ss \in Nat \X Nat : ss[1] < ss[2]}
<1>1. IsWellFoundedOn(R, Nat)
  BY NatLessThanWellFounded DEF OpToRel
<1>2. \A x, y \in Nat : y < x => <<y, x>> \in R
  OBVIOUS
<1> HIDE DEF R
<1>3. PICK x \in S : \A y \in S : ~(<<y, x>> \in R)
  BY <1>1, WFMin
<1>4. \A y \in S : x <= y
  <2>1. SUFFICES ASSUME NEW y \in S PROVE x <= y
    OBVIOUS
  <2>2. x \in Nat /\ y \in Nat /\ ~(y < x)
    BY <1>2, <1>3
  <2>3. QED BY <2>2
<1>5. QED BY <1>4 DEF Least

-----------------------------------------------------------------------------
(* What each step does to the records taken and to their occurrences *)

\* Taking a record adds it and no other to those behind the sink's position.
LEMMA PastTaken ==
    ASSUME IInv, InBatch, TakeRecord, NEW h
    PROVE  /\ Past(log', handled', h)
                \subseteq Past(log, handled, h) \cup {<<cur.chan, handled[cur.chan] + 1>>}
           /\ NextRecord # h => Past(log', handled', h) \subseteq Past(log, handled, h)
<1>1. /\ cur.chan \in Channels /\ handled[cur.chan] \in Nat
      /\ NextRecord = log[cur.chan][handled[cur.chan] + 1]
  BY NextRecordFacts DEF NextRecord
<1>2. log' = log /\ handled \in [Channels -> Nat]
      /\ handled' = [handled EXCEPT ![cur.chan] = handled[cur.chan] + 1]
  BY DEF TakeRecord, IInv, TypeOK
<1>3. ASSUME NEW c \in Channels, NEW i \in Nat, i <= handled'[c], ~(i <= handled[c])
      PROVE  c = cur.chan /\ i = handled[cur.chan] + 1
  BY <1>1, <1>2, <1>3
<1>4. ASSUME NEW u \in Past(log', handled', h), u \notin Past(log, handled, h)
      PROVE  u = <<cur.chan, handled[cur.chan] + 1>> /\ NextRecord = h
  <2>1. /\ u \in Channels \X Nat /\ u[2] \in DOMAIN log[u[1]]
        /\ u[2] <= handled'[u[1]] /\ log[u[1]][u[2]] = h
    BY <1>2, <1>4 DEF Past
  <2>2. ~(u[2] <= handled[u[1]])
    BY <2>1, <1>4 DEF Past
  <2>3. u[1] = cur.chan /\ u[2] = handled[cur.chan] + 1
    BY <2>1, <2>2, <1>3
  <2>4. QED BY <2>1, <2>3, <1>1
<1>5. QED BY <1>4

\* Counting an occurrence: everything counted stays counted, and a record of
\* content h is counted once more.
Counts(h, more) ==
    Units(h) \subseteq Units(h)' /\ (more => \E y : y \in Units(h)' /\ y \notin Units(h))

\* An event grows by one occurrence, or its batch by one event.
LEMMA CountedInBatch ==
    ASSUME IInv, OInv, DuplicateInBatch, NEW h \in Hashes
    PROVE  Counts(h, NextRecord = h)
<1>1. /\ UNCHANGED <<nodes, dbInc>> /\ pc = "chunk" /\ pc' = "chunk"
      /\ HashNormalized(NextRecord) \in byHash
      /\ HashNormalized(NextRecord)[1] = NextRecord
      /\ pending \in Seq(Events)
  BY NextRecordFacts DEF DuplicateInBatch, InBatch, TakeRecord, storeVars, IInv, TypeOK
<1>2. /\ DOMAIN pending' = DOMAIN pending
      /\ \A k \in DOMAIN pending :
            pending'[k] = IF pending[k].id = HashNormalized(NextRecord)
                          THEN [pending[k] EXCEPT !.n = @ + 1] ELSE pending[k]
  BY DEF DuplicateInBatch
<1>3. ASSUME NEW k \in DOMAIN pending
      PROVE  /\ pending[k].n \in Nat /\ pending'[k].id = pending[k].id /\ k \in Nat
             /\ pending'[k].n = IF pending[k].id = HashNormalized(NextRecord)
                                THEN pending[k].n + 1 ELSE pending[k].n
  <2>1. pending[k] \in Events /\ k \in Nat
    BY <1>1
  <2>2. QED BY <1>2, <2>1 DEF Events
<1>4. Stored(h)' = Stored(h) /\ Deferred(h)' = Deferred(h)
  BY <1>1 DEF Stored, Deferred
<1>5. InMemory(h) \subseteq InMemory(h)'
  <2>1. SUFFICES ASSUME NEW u \in InMemory(h) PROVE u \in InMemory(h)'
    OBVIOUS
  <2>2. /\ u \in {"batch"} \X Nat \X Nat /\ u[2] \in DOMAIN pending
        /\ pending[u[2]].id[1] = h /\ u[3] \in 1 .. pending[u[2]].n
    BY DEF InMemory
  <2>3. pending'[u[2]].id[1] = h /\ u[3] \in 1 .. pending'[u[2]].n
    BY <1>3, <2>2
  <2>4. QED BY <1>1, <1>2, <2>2, <2>3 DEF InMemory
<1>6. ASSUME NextRecord = h
      PROVE  \E y : y \in Units(h)' /\ y \notin Units(h)
  <2>1. PICK k \in DOMAIN pending : pending[k].id = HashNormalized(NextRecord)
    BY <1>1 DEF OInv, ByHashHasEvent
  <2> DEFINE y == <<"batch", k, pending[k].n + 1>>
  <2>2. /\ y \in {"batch"} \X Nat \X Nat /\ y[1] = "batch" /\ y[2] = k
        /\ y[3] = pending[k].n + 1 /\ pending[k].n \in Nat
    BY <1>3
  <2> HIDE DEF y
  <2>3. y \in InMemory(h)'
    BY <1>1, <1>2, <1>3, <1>6, <2>1, <2>2 DEF InMemory
  <2>4. y \notin InMemory(h)
    BY <2>2 DEF InMemory
  <2>5. y \notin Stored(h) /\ y \notin Deferred(h)
    BY <2>2 DEF Stored, Deferred
  <2>6. QED BY <2>3, <2>4, <2>5 DEF Units
<1>7. QED BY <1>4, <1>5, <1>6 DEF Counts, Units

LEMMA CountedDeferred ==
    ASSUME IInv, OInv, DuplicateInStore, NEW h \in Hashes
    PROVE  Counts(h, NextRecord = h)
<1> DEFINE x == Least(IndexedWith(HashNormalized(NextRecord)))
<1>1. /\ UNCHANGED <<nodes, pending>> /\ pc = "chunk" /\ pc' # "index"
      /\ HashNormalized(NextRecord)[1] = NextRecord
      /\ IndexedWith(HashNormalized(NextRecord)) # {}
      /\ dbInc' = dbInc (+) SetToBag({x}) /\ IsABag(dbInc)
  BY NextRecordFacts DEF DuplicateInStore, InBatch, TakeRecord, storeVars, IInv, TypeOK
<1>2. x \in indexed /\ nodes[x].id = HashNormalized(NextRecord) /\ x \in Nat
  <2>1. IndexedWith(HashNormalized(NextRecord)) \subseteq Nat
    BY DEF IndexedWith, IInv, TypeOK
  <2>2. x \in IndexedWith(HashNormalized(NextRecord))
    BY <1>1, <2>1, LeastIn
  <2>3. QED BY <2>1, <2>2 DEF IndexedWith
<1> HIDE DEF x
<1>3. /\ DOMAIN dbInc' = DOMAIN dbInc \cup {x}
      /\ \A e \in DOMAIN dbInc' :
            dbInc'[e] = (IF e \in DOMAIN dbInc THEN dbInc[e] ELSE 0) + (IF e = x THEN 1 ELSE 0)
  <2>1. dbInc' = [e \in (DOMAIN dbInc) \cup {x} |->
             (IF e \in DOMAIN dbInc THEN dbInc[e] ELSE 0) + (IF e = x THEN 1 ELSE 0)]
    BY <1>1 DEF (+), SetToBag
  <2>2. QED BY <2>1
<1>4. \A e \in DOMAIN dbInc : dbInc[e] \in Nat
  BY <1>1 DEF IsABag
<1>5. Stored(h)' = Stored(h) /\ InMemory(h)' = InMemory(h)
  BY <1>1 DEF Stored, InMemory
<1>6. Deferred(h) \subseteq Deferred(h)'
  <2>1. SUFFICES ASSUME NEW u \in Deferred(h) PROVE u \in Deferred(h)'
    OBVIOUS
  <2>2. /\ u \in {"deferred"} \X Nat \X Nat /\ u[2] \in DOMAIN dbInc
        /\ nodes[u[2]].id[1] = h /\ u[3] \in 1 .. dbInc[u[2]]
    BY DEF Deferred
  <2>3. u[2] \in DOMAIN dbInc' /\ u[3] \in 1 .. dbInc'[u[2]]
    BY <1>3, <1>4, <2>2
  <2>4. QED BY <1>1, <2>2, <2>3 DEF Deferred
<1>7. ASSUME NextRecord = h
      PROVE  \E y : y \in Units(h)' /\ y \notin Units(h)
  <2> DEFINE y == <<"deferred", x, dbInc'[x]>>
  <2>1. dbInc'[x] = (IF x \in DOMAIN dbInc THEN dbInc[x] ELSE 0) + 1
    BY <1>3
  <2>2. /\ y \in {"deferred"} \X Nat \X Nat /\ y[1] = "deferred" /\ y[2] = x
        /\ y[3] = dbInc'[x] /\ dbInc'[x] \in Nat /\ 1 <= dbInc'[x]
    BY <1>2, <1>4, <2>1
  <2> HIDE DEF y
  <2>3. y \in Deferred(h)'
    BY <1>1, <1>2, <1>3, <1>7, <2>2 DEF Deferred
  <2>4. y \notin Deferred(h)
    BY <1>4, <2>1, <2>2 DEF Deferred
  <2>5. y \notin Stored(h) /\ y \notin InMemory(h)
    BY <2>2 DEF Stored, InMemory
  <2>6. QED BY <2>3, <2>4, <2>5 DEF Units
<1>8. QED BY <1>5, <1>6, <1>7 DEF Counts, Units

LEMMA CountedAnew ==
    ASSUME IInv, NewEvent, NEW h \in Hashes
    PROVE  Counts(h, NextRecord = h)
<1> DEFINE e == [id |-> HashNormalized(NextRecord), n |-> 1]
<1>1. /\ UNCHANGED <<nodes, dbInc>> /\ pc = "chunk" /\ pc' # "index"
      /\ HashNormalized(NextRecord)[1] = NextRecord
      /\ pending \in Seq(Events) /\ pending' = Append(pending, e)
  BY NextRecordFacts DEF NewEvent, InBatch, TakeRecord, storeVars, IInv, TypeOK
<1>2. e.id = HashNormalized(NextRecord) /\ e.n = 1
  OBVIOUS
<1> HIDE DEF e
<1>3. /\ DOMAIN pending = 1 .. Len(pending) /\ Len(pending) \in Nat
      /\ DOMAIN pending' = 1 .. (Len(pending) + 1)
      /\ \A k \in DOMAIN pending : pending'[k] = pending[k]
      /\ pending'[Len(pending) + 1] = e
  BY <1>1
<1>4. Stored(h)' = Stored(h) /\ Deferred(h)' = Deferred(h)
  BY <1>1 DEF Stored, Deferred
<1>5. InMemory(h) \subseteq InMemory(h)'
  BY <1>1, <1>3 DEF InMemory
<1>6. ASSUME NextRecord = h
      PROVE  \E y : y \in Units(h)' /\ y \notin Units(h)
  <2> DEFINE y == <<"batch", Len(pending) + 1, 1>>
  <2>1. /\ y \in {"batch"} \X Nat \X Nat /\ y[1] = "batch"
        /\ y[2] = Len(pending) + 1 /\ y[3] = 1
    BY <1>3
  <2> HIDE DEF y
  <2>2. y \in InMemory(h)'
    BY <1>1, <1>2, <1>3, <1>6, <2>1 DEF InMemory
  <2>3. y \notin Units(h)
    BY <1>3, <2>1 DEF InMemory, Stored, Deferred, Units
  <2>4. QED BY <2>2, <2>3 DEF Units
<1>7. QED BY <1>4, <1>5, <1>6 DEF Counts, Units

\* However a record of a batch is dealt with, it is counted.
LEMMA TakeFits ==
    ASSUME IInv, OInv, SkipRecord \/ DuplicateInBatch \/ DuplicateInStore \/ NewEvent
    PROVE  HandledFits'
<1>0. InBatch /\ TakeRecord
  BY DEF SkipRecord, DuplicateInBatch, DuplicateInStore, NewEvent
<1>1. SUFFICES ASSUME NEW h \in Hashes
               PROVE  ExistsInjection(Past(log', handled', h), Units(h)')
  BY DEF HandledFits
<1>2. ExistsInjection(Past(log, handled, h), Units(h))
  BY DEF OInv, HandledFits
<1>3. Counts(h, NextRecord = h)
  <2>1. CASE SkipRecord
    <3>1. UNCHANGED <<nodes, pending, dbInc, pc>> /\ NextRecord # h
      BY <2>1, ConstantsAssumption DEF SkipRecord, TakeRecord, storeVars
    <3>2. Units(h)' = Units(h)
      BY <3>1 DEF Units, Stored, InMemory, Deferred
    <3>3. QED BY <3>1, <3>2 DEF Counts
  <2>2. QED BY <2>1, CountedInBatch, CountedDeferred, CountedAnew
<1>4. CASE NextRecord = h
  <2>1. PICK y : y \in Units(h)' /\ y \notin Units(h)
    BY <1>3, <1>4 DEF Counts
  <2>2. Units(h) \subseteq Units(h)'
    BY <1>3 DEF Counts
  <2>3. Past(log', handled', h)
                \subseteq Past(log, handled, h) \cup {<<cur.chan, handled[cur.chan] + 1>>}
    BY <1>0, PastTaken
  <2>4. OneMore(Past(log, handled, h), Units(h), Past(log', handled', h), Units(h)')
    BY <2>1, <2>2, <2>3 DEF OneMore
  <2>5. QED BY <1>2, <2>4, FitsOneMore
<1>5. CASE NextRecord # h
  <2>1. Past(log', handled', h) \subseteq Past(log, handled, h)
    BY <1>0, <1>5, PastTaken
  <2>2. QED BY <1>2, <1>3, <2>1, FitsMore DEF Counts
<1>6. QED BY <1>4, <1>5

\* An occurrence is its three parts.
LEMMA UnitIs ==
    ASSUME NEW h, NEW u \in Units(h)
    PROVE  /\ u \in {"store", "batch", "deferred"} \X Nat \X Nat
           /\ u = <<u[1], u[2], u[3]>> /\ u[2] \in Nat /\ u[3] \in Nat
           /\ u[1] \in {"store", "batch", "deferred"}
           /\ u[1] = "store" => u \in Stored(h)
           /\ u[1] = "batch" => u \in InMemory(h)
           /\ u[1] = "deferred" => u \in Deferred(h)
<1>1. CASE u \in Stored(h)
  BY <1>1 DEF Stored
<1>2. CASE u \in InMemory(h)
  BY <1>2 DEF InMemory
<1>3. CASE u \in Deferred(h)
  BY <1>3 DEF Deferred
<1>4. QED BY <1>1, <1>2, <1>3 DEF Units

\* InsertEvents moves the occurrences of the batch to the store.
LEMMA InsertFits ==
    ASSUME IInv, OInv, InsertEvents, NEW h
    PROVE  ExistsInjection(Units(h), Units(h)')
<1>1. /\ nodes' = nodes \o pending /\ dbInc' = dbInc /\ pc = "insert" /\ pc' = "index"
      /\ nodes \in Seq(Events) /\ pending \in Seq(Events)
  BY DEF InsertEvents, IInv, TypeOK
<1>2. /\ DOMAIN pending = 1 .. Len(pending) /\ DOMAIN nodes = 1 .. Len(nodes)
      /\ Len(nodes) \in Nat /\ Len(pending) \in Nat
      /\ DOMAIN nodes' = 1 .. (Len(nodes) + Len(pending))
      /\ \A k \in 1 .. Len(nodes) : nodes'[k] = nodes[k]
      /\ \A k \in 1 .. Len(pending) : nodes'[Len(nodes) + k] = pending[k]
  BY <1>1
<1> DEFINE f == [u \in Units(h) |->
                   IF u[1] = "batch" THEN <<"store", Len(nodes) + u[2], u[3]>> ELSE u]
<1>3. ASSUME NEW u \in Units(h), u[1] = "store"
      PROVE  f[u] = u /\ u \in Units(h)' /\ u[2] <= Len(nodes)
  <2>1. u \in Stored(h)
    BY <1>3, UnitIs
  <2>2. u \in Stored(h)' /\ u[2] <= Len(nodes)
    BY <1>2, <2>1 DEF Stored
  <2>3. QED BY <1>3, <2>2 DEF Units
<1>4. ASSUME NEW u \in Units(h), u[1] = "deferred"
      PROVE  f[u] = u /\ u \in Units(h)'
  <2>1. u \in Deferred(h) /\ DOMAIN dbInc \subseteq DOMAIN nodes
    BY <1>4, UnitIs DEF OInv, IncOfStore
  <2>2. u \in Deferred(h)'
    BY <1>1, <1>2, <2>1 DEF Deferred
  <2>3. QED BY <1>4, <2>2 DEF Units
<1>5. ASSUME NEW u \in Units(h), u[1] = "batch"
      PROVE  /\ f[u] \in Units(h)' /\ u[2] >= 1
             /\ f[u][1] = "store" /\ f[u][2] = Len(nodes) + u[2] /\ f[u][3] = u[3]
  <2>1. u \in InMemory(h) /\ u[2] \in Nat /\ u[3] \in Nat
    BY <1>5, UnitIs
  <2>2. /\ u[2] \in 1 .. Len(pending) /\ pending[u[2]].id[1] = h
        /\ u[3] \in 1 .. pending[u[2]].n
    BY <1>2, <2>1 DEF InMemory
  <2> DEFINE v == <<"store", Len(nodes) + u[2], u[3]>>
  <2>3. /\ v \in {"store"} \X Nat \X Nat /\ v[1] = "store"
        /\ v[2] = Len(nodes) + u[2] /\ v[3] = u[3] /\ f[u] = v
    BY <1>2, <1>5, <2>1
  <2> HIDE DEF v, f
  <2>4. v \in Stored(h)'
    BY <1>2, <2>2, <2>3 DEF Stored
  <2>5. QED BY <2>2, <2>3, <2>4 DEF Units
<1>6. \A u \in Units(h) : u[1] \in {"store", "batch", "deferred"}
  BY UnitIs
<1>7. f \in [Units(h) -> Units(h)']
  BY <1>3, <1>4, <1>5, <1>6
<1> HIDE DEF f
<1>8. ASSUME NEW u \in Units(h), NEW v \in Units(h), f[u] = f[v]
      PROVE  u = v
  <2>1. /\ u = <<u[1], u[2], u[3]>> /\ v = <<v[1], v[2], v[3]>>
        /\ u[2] \in Nat /\ v[2] \in Nat
    BY UnitIs
  <2>2. CASE u[1] = "batch" /\ v[1] = "batch"
    <3>1. u[2] = v[2] /\ u[3] = v[3]
      BY <1>2, <1>5, <1>8, <2>1, <2>2
    <3>2. QED BY <2>1, <2>2, <3>1
  <2>3. CASE u[1] # "batch" /\ v[1] # "batch"
    BY <1>3, <1>4, <1>6, <1>8, <2>3
  <2>4. ASSUME NEW a \in Units(h), NEW b \in Units(h), f[a] = f[b],
               a[1] = "batch", b[1] # "batch", a[2] \in Nat
        PROVE  FALSE
    <3>1. f[a][1] = "store" /\ f[a][2] = Len(nodes) + a[2] /\ a[2] >= 1
      BY <1>5, <2>4
    <3>2. f[b] = b
      BY <1>3, <1>4, <1>6, <2>4
    <3>3. b[1] = "store" /\ b[2] <= Len(nodes)
      BY <1>3, <2>4, <3>1, <3>2
    <3>4. QED BY <1>2, <2>4, <3>1, <3>2, <3>3
  <2>5. QED BY <1>8, <2>1, <2>2, <2>3, <2>4
<1>9. QED BY <1>7, <1>8, FitsBy

\* IncrementDedupCounts moves the deferred occurrences to the store.
LEMMA IncrementFits ==
    ASSUME IInv, OInv, IncrementDedupCounts, NEW h
    PROVE  ExistsInjection(Units(h), Units(h)')
<1>1. /\ pending' = pending /\ pc = "inc" /\ pc' = "commitInc"
      /\ nodes \in Seq(Events) /\ IsABag(dbInc)
  BY DEF IncrementDedupCounts, IInv, TypeOK
<1>2. /\ DOMAIN nodes' = DOMAIN nodes
      /\ \A k \in DOMAIN nodes :
            nodes'[k] = IF k \in DOMAIN dbInc
                        THEN [nodes[k] EXCEPT !.n = @ + dbInc[k]] ELSE nodes[k]
  BY DEF IncrementDedupCounts
<1>3. \A k \in DOMAIN dbInc : dbInc[k] \in Nat
  BY <1>1 DEF IsABag
<1>4. ASSUME NEW k \in DOMAIN nodes
      PROVE  /\ k \in Nat /\ nodes[k].n \in Nat /\ nodes'[k].id = nodes[k].id
             /\ k \in DOMAIN dbInc => nodes'[k].n = nodes[k].n + dbInc[k]
             /\ nodes[k].n <= nodes'[k].n /\ nodes'[k].n \in Nat
  <2>1. nodes[k] \in Events /\ k \in Nat
    BY <1>1
  <2>2. nodes[k].n \in Nat
    BY <2>1 DEF Events
  <2>3. CASE k \in DOMAIN dbInc
    <3>1. nodes'[k].id = nodes[k].id /\ nodes'[k].n = nodes[k].n + dbInc[k]
      BY <1>2, <2>1, <2>3 DEF Events
    <3>2. QED BY <1>3, <2>1, <2>2, <2>3, <3>1
  <2>4. CASE k \notin DOMAIN dbInc
    BY <1>2, <2>1, <2>2, <2>4
  <2>5. QED BY <2>3, <2>4
<1> DEFINE f == [u \in Units(h) |->
                   IF u[1] = "deferred" THEN <<"store", u[2], nodes[u[2]].n + u[3]>> ELSE u]
<1>5. ASSUME NEW u \in Units(h), u[1] = "store"
      PROVE  f[u] = u /\ u \in Units(h)' /\ u[2] \in DOMAIN nodes /\ u[3] <= nodes[u[2]].n
  <2>1. u \in Stored(h)
    BY <1>5, UnitIs
  <2>2. /\ u \in {"store"} \X Nat \X Nat /\ u[2] \in DOMAIN nodes
        /\ nodes[u[2]].id[1] = h /\ u[3] \in 1 .. nodes[u[2]].n
    BY <2>1 DEF Stored
  <2>3. nodes'[u[2]].id[1] = h /\ u[3] \in 1 .. nodes'[u[2]].n /\ u[3] <= nodes[u[2]].n
    BY <1>4, <2>2
  <2>4. u \in Stored(h)'
    BY <1>2, <2>2, <2>3 DEF Stored
  <2>5. QED BY <1>5, <2>2, <2>3, <2>4 DEF Units
<1>6. ASSUME NEW u \in Units(h), u[1] = "batch"
      PROVE  f[u] = u /\ u \in Units(h)'
  <2>1. u \in InMemory(h)
    BY <1>6, UnitIs
  <2>2. u \in InMemory(h)'
    BY <1>1, <2>1 DEF InMemory
  <2>3. QED BY <1>6, <2>2 DEF Units
<1>7. ASSUME NEW u \in Units(h), u[1] = "deferred"
      PROVE  /\ f[u] \in Units(h)' /\ u[2] \in DOMAIN nodes /\ u[3] >= 1
             /\ f[u][1] = "store" /\ f[u][2] = u[2] /\ f[u][3] = nodes[u[2]].n + u[3]
  <2>1. u \in Deferred(h) /\ u[2] \in Nat /\ u[3] \in Nat
    BY <1>7, UnitIs
  <2>2. /\ u[2] \in DOMAIN dbInc /\ nodes[u[2]].id[1] = h /\ u[3] \in 1 .. dbInc[u[2]]
        /\ u[2] \in DOMAIN nodes
    BY <2>1 DEF Deferred, OInv, IncOfStore
  <2>3. nodes[u[2]].n \in Nat
    BY <1>4, <2>2
  <2> DEFINE v == <<"store", u[2], nodes[u[2]].n + u[3]>>
  <2>4. /\ v \in {"store"} \X Nat \X Nat /\ v[1] = "store"
        /\ v[2] = u[2] /\ v[3] = nodes[u[2]].n + u[3] /\ f[u] = v
    BY <1>7, <2>1, <2>3
  <2> HIDE DEF v, f
  <2>5. nodes'[v[2]].id[1] = h /\ v[3] \in 1 .. nodes'[v[2]].n
    BY <1>3, <1>4, <2>1, <2>2, <2>3, <2>4
  <2>6. v \in Stored(h)'
    BY <1>2, <2>2, <2>4, <2>5 DEF Stored
  <2>7. QED BY <2>2, <2>4, <2>6 DEF Units
<1>8. \A u \in Units(h) : u[1] \in {"store", "batch", "deferred"}
  BY UnitIs
<1>9. f \in [Units(h) -> Units(h)']
  BY <1>5, <1>6, <1>7, <1>8
<1> HIDE DEF f
<1>10. ASSUME NEW u \in Units(h), NEW v \in Units(h), f[u] = f[v]
       PROVE  u = v
  <2>1. /\ u = <<u[1], u[2], u[3]>> /\ v = <<v[1], v[2], v[3]>>
        /\ u[3] \in Nat /\ v[3] \in Nat
    BY UnitIs
  <2>2. CASE u[1] = "deferred" /\ v[1] = "deferred"
    <3>1. u[2] = v[2] /\ nodes[u[2]].n \in Nat
      BY <1>4, <1>7, <1>10, <2>2
    <3>2. u[3] = v[3]
      BY <1>7, <1>10, <2>1, <2>2, <3>1
    <3>3. QED BY <2>1, <2>2, <3>1, <3>2
  <2>3. CASE u[1] # "deferred" /\ v[1] # "deferred"
    BY <1>5, <1>6, <1>8, <1>10, <2>3
  <2>4. ASSUME NEW a \in Units(h), NEW b \in Units(h), f[a] = f[b],
               a[1] = "deferred", b[1] # "deferred", a[3] \in Nat
        PROVE  FALSE
    <3>1. /\ f[a][1] = "store" /\ f[a][2] = a[2] /\ f[a][3] = nodes[a[2]].n + a[3]
          /\ a[3] >= 1 /\ nodes[a[2]].n \in Nat
      BY <1>4, <1>7, <2>4
    <3>2. f[b] = b
      BY <1>5, <1>6, <1>8, <2>4
    <3>3. b[1] = "store" /\ b[3] <= nodes[b[2]].n
      BY <1>5, <2>4, <3>1, <3>2
    <3>4. QED BY <2>4, <3>1, <3>2, <3>3
  <2>5. QED BY <1>10, <2>1, <2>2, <2>3, <2>4
<1>11. QED BY <1>9, <1>10, FitsBy

\* Nothing is behind the start of a log.
LEMMA NothingPast ==
    ASSUME NEW L \in [Channels -> Seq(Records)], NEW h
    PROVE  Past(L, Zero, h) = {}
<1>1. \A c \in Channels : L[c] \in Seq(Records)
  OBVIOUS
<1>2. \A c \in Channels : \A i \in DOMAIN L[c] : i \in Nat /\ i > 0
  BY <1>1
<1>3. QED BY <1>2 DEF Past, Zero

\* A position that is nowhere higher has no more records behind it.
LEMMA PastBelow ==
    ASSUME NEW L, NEW h, NEW p \in [Channels -> Nat], NEW q \in [Channels -> Nat],
           \A c \in Channels : p[c] <= q[c]
    PROVE  Past(L, p, h) \subseteq Past(L, q, h)
  BY DEF Past

LEMMA HandledStep ==
    ASSUME IInv, OInv, [Next]_vars
    PROVE  HandledFits'
<1>0. TypeOK /\ TypeOK'
  BY TypeStep DEF IInv
<1>1. CASE SkipRecord \/ DuplicateInBatch \/ DuplicateInStore \/ NewEvent
  BY <1>1, TakeFits
<1>2. CASE NoRun
  <2>1. handled' = Zero
    BY <1>2 DEF NoRun
  <2>2. ASSUME NEW h PROVE Past(log', handled', h) = {}
    <3>1. Past(log', Zero, h) = {}
      BY <1>0, NothingPast DEF TypeOK
    <3>2. QED BY <2>1, <3>1
  <2>3. QED BY <2>2, FitsNone DEF HandledFits
<1>3. SUFFICES ASSUME NEW h \in Hashes,
                      ~(SkipRecord \/ DuplicateInBatch \/ DuplicateInStore \/ NewEvent),
                      ~NoRun
               PROVE  ExistsInjection(Past(log', handled', h), Units(h)')
  BY <1>1, <1>2 DEF HandledFits
<1>4. /\ ExistsInjection(Past(log, handled, h), Units(h))
      /\ ExistsInjection(Past(log, memPos, h), Stored(h))
  BY DEF OInv, HandledFits, MarksFit
<1>5. ASSUME NEW C, NEW i, StartLive(C, i)
      PROVE  ExistsInjection(Past(log', handled', h), Units(h)')
  <2>1. log' = log /\ handled' = memPos /\ nodes' = nodes
    BY <1>5 DEF StartLive, storeVars
  <2>2. Stored(h) \subseteq Units(h)'
    BY <2>1 DEF Stored, Units
  <2>3. QED BY <1>4, <2>1, <2>2, FitsMore
<1>6. ASSUME NEW c \in Channels, NEW r \in Records, Record(c, r)
      PROVE  ExistsInjection(Past(log', handled', h), Units(h)')
  <2>1. UNCHANGED <<handled, nodes, pending, dbInc, pc>>
    BY <1>6 DEF Record, storeVars, sinkVars
  <2>2. handled \in [Channels -> Nat] /\ \A d \in Channels : handled[d] <= Len(log[d])
    BY <1>0 DEF TypeOK, IInv, HandledIsHeld
  <2>3. Past(log', handled, h) \subseteq Past(log, handled, h)
    BY <1>0, <2>2, PastKept
  <2>4. Units(h)' = Units(h)
    BY <2>1 DEF Units, Stored, InMemory, Deferred
  <2>5. QED BY <1>4, <2>1, <2>3, <2>4, FitsMore
<1>7. CASE InsertEvents \/ IncrementDedupCounts
  <2>1. log' = log /\ handled' = handled
    BY <1>7 DEF InsertEvents, IncrementDedupCounts
  <2>2. ExistsInjection(Units(h), Units(h)')
    BY <1>7, InsertFits, IncrementFits
  <2>3. QED BY <1>4, <2>1, <2>2, Fun_ExistsInjTransitive
<1>8. CASE Flushed
  <2>1. UNCHANGED <<log, handled, nodes, dbInc>> /\ pc = "index"
    BY <1>8 DEF Flushed, storeVars
  <2>2. Units(h) \subseteq Units(h)'
    BY <2>1 DEF Units, Stored, InMemory, Deferred
  <2>3. QED BY <1>4, <2>1, <2>2, FitsMore
<1>9. CASE UNCHANGED <<log, handled, nodes, pending, dbInc>> /\ (pc' = "index" => pc = "index")
  <2>1. Units(h) \subseteq Units(h)'
    BY <1>9 DEF Units, Stored, InMemory, Deferred
  <2>2. QED BY <1>4, <1>9, <2>1, FitsMore
<1>10. \/ \E C, i : StartLive(C, i)
       \/ \E c \in Channels, r \in Records : Record(c, r)
       \/ InsertEvents \/ IncrementDedupCounts \/ Flushed
       \/ (UNCHANGED <<log, handled, nodes, pending, dbInc>> /\ (pc' = "index" => pc = "index"))
  BY <1>3 DEF Next, User, Readers, Sink, vars, Pause, Resume, Cancel,
         CloseResults, Reset, ReadBatch, LoopTop, LeaveLoop, WakeForPause,
         WaitOver, ReceiveBatch, BatchDone, NothingToInsert, IndexNode,
         CommitPosition, Committed, Finish, StoreFails, Crash, storeVars, sinkVars
<1>11. QED BY <1>5, <1>6, <1>7, <1>8, <1>9, <1>10

\* While nothing is in memory, what was taken fits into the store alone.
LEMMA StoredAlone ==
    ASSUME OInv, NothingUnwritten, NEW h \in Hashes
    PROVE  ExistsInjection(Past(log, handled, h), Stored(h))
<1>1. InMemory(h) = {}
  BY DEF NothingUnwritten, InMemory
<1>2. Deferred(h) = {}
  BY DEF NothingUnwritten, Deferred, EmptyBag, SetToBag
<1>3. Units(h) = Stored(h)
  BY <1>1, <1>2 DEF Units
<1>4. QED BY <1>3 DEF OInv, HandledFits

\* Occurrences in the store are only added to.
LEMMA StoredGrows ==
    ASSUME TypeOK, [Next]_vars, NEW h
    PROVE  Stored(h) \subseteq Stored(h)'
<1>1. nodes \in Seq(Events) /\ pending \in Seq(Events) /\ IsABag(dbInc)
  BY DEF TypeOK
<1>2. ASSUME NEW k \in DOMAIN nodes
      PROVE  /\ k \in DOMAIN nodes' /\ nodes'[k].id = nodes[k].id
             /\ \A i \in 1 .. nodes[k].n : i \in 1 .. nodes'[k].n
  <2>1. CASE InsertEvents
    BY <1>1, <2>1 DEF InsertEvents
  <2>2. CASE IncrementDedupCounts
    <3>1. nodes[k] \in Events /\ k \in DOMAIN nodes'
      BY <1>1, <2>2 DEF IncrementDedupCounts
    <3>2. nodes'[k] = IF k \in DOMAIN dbInc
                      THEN [nodes[k] EXCEPT !.n = @ + dbInc[k]] ELSE nodes[k]
      BY <2>2 DEF IncrementDedupCounts
    <3>3. k \in DOMAIN dbInc => dbInc[k] \in Nat
      BY <1>1 DEF IsABag
    <3>4. QED BY <3>1, <3>2, <3>3 DEF Events
  <2>3. CASE nodes' = nodes
    BY <2>3
  <2>4. nodes' = nodes \/ InsertEvents \/ IncrementDedupCounts
    BY DEF Next, User, Readers, Sink, vars, Record, StartLive, Pause, Resume,
           Cancel, CloseResults, Reset, ReadBatch, LoopTop, LeaveLoop,
           WakeForPause, WaitOver, ReceiveBatch, SkipRecord, DuplicateInBatch,
           DuplicateInStore, NewEvent, TakeRecord, BatchDone, NothingToInsert,
           IndexNode, Flushed, CommitPosition, Committed, Finish, StoreFails,
           Crash, storeVars
  <2>5. QED BY <2>1, <2>2, <2>3, <2>4
<1>3. QED BY <1>2 DEF Stored

\* A bookmark moves to zero, to the other one, or to a position the sink has
\* passed while nothing is in memory.
LEMMA MarksMove ==
    ASSUME IInv, OInv, [Next]_vars
    PROVE  \A h \in Hashes : /\ ExistsInjection(Past(log, memPos', h), Stored(h))
                             /\ ExistsInjection(Past(log, diskPos', h), Stored(h))
<1>0. TypeOK /\ TypeOK'
  BY TypeStep DEF IInv
<1>1. TAKE h \in Hashes
<1>2. /\ ExistsInjection(Past(log, memPos, h), Stored(h))
      /\ ExistsInjection(Past(log, diskPos, h), Stored(h))
  BY DEF OInv, MarksFit
<1>3. /\ memPos \in [Channels -> Nat] /\ memPos' \in [Channels -> Nat]
      /\ diskPos' \in [Channels -> Nat] /\ handled \in [Channels -> Nat]
      /\ staged \in [Channels -> Nat]
  BY <1>0 DEF TypeOK
<1>4. CASE UNCHANGED posVars
  BY <1>2, <1>4 DEF posVars
<1>5. ASSUME NEW C, Reset(C)
      PROVE  /\ ExistsInjection(Past(log, memPos', h), Stored(h))
             /\ ExistsInjection(Past(log, diskPos', h), Stored(h))
  <2>1. \A c \in Channels : memPos'[c] <= memPos[c]
    BY <1>3, <1>5 DEF Reset
  <2>2. Past(log, memPos', h) \subseteq Past(log, memPos, h)
    BY <1>3, <2>1, PastBelow
  <2>3. ExistsInjection(Past(log, memPos', h), Stored(h))
    BY <1>2, <2>2, FitsMore
  <2>4. diskPos' = memPos' \/ diskPos' = diskPos
    BY <1>5 DEF Reset
  <2>5. QED BY <1>2, <2>3, <2>4
<1>6. CASE Crash
  <2>1. memPos' = diskPos' /\ (diskPos' = diskPos \/ diskPos' = Zero)
    BY <1>6 DEF Crash
  <2>2. ExistsInjection(Past(log, Zero, h), Stored(h))
    BY <1>0, NothingPast, FitsNone DEF TypeOK
  <2>3. QED BY <1>2, <2>1, <2>2
<1>7. ASSUME NEW c \in Channels, CommitPosition(c)
      PROVE  /\ ExistsInjection(Past(log, memPos', h), Stored(h))
             /\ ExistsInjection(Past(log, diskPos', h), Stored(h))
  <2>1. ExistsInjection(Past(log, handled, h), Stored(h))
    BY <1>7, StoredAlone DEF CommitPosition
  <2>2. pc # "idle"
    BY <1>7 DEF CommitPosition
  <2>3. \A d \in Channels : memPos'[d] \in {memPos[d], staged[d]}
    BY <1>3, <1>7 DEF CommitPosition, posVars
  <2>4. \A d \in Channels : memPos[d] <= handled[d] /\ staged[d] <= handled[d]
    BY <2>2 DEF OInv, MarksBehind, IInv, StagedIsHandled
  <2>5. \A d \in Channels : memPos'[d] <= handled[d]
    BY <2>3, <2>4
  <2>6. Past(log, memPos', h) \subseteq Past(log, handled, h)
    BY <1>3, <2>5, PastBelow
  <2>7. ExistsInjection(Past(log, memPos', h), Stored(h))
    BY <2>1, <2>6, FitsMore
  <2>8. diskPos' = memPos' \/ diskPos' = diskPos
    BY <1>7 DEF CommitPosition, posVars
  <2>9. QED BY <1>2, <2>7, <2>8
<1>8. \/ UNCHANGED posVars
      \/ \E C : Reset(C)
      \/ Crash
      \/ \E c \in Channels : CommitPosition(c)
  BY DEF Next, User, Readers, Sink, vars, Record, StartLive, Pause, Resume,
         Cancel, CloseResults, ReadBatch, LoopTop, LeaveLoop, WakeForPause,
         WaitOver, ReceiveBatch, SkipRecord, DuplicateInBatch,
         DuplicateInStore, NewEvent, TakeRecord, BatchDone, InsertEvents,
         NothingToInsert, IndexNode, Flushed, IncrementDedupCounts, Committed,
         Finish, StoreFails
<1>9. QED BY <1>4, <1>5, <1>6, <1>7, <1>8

LEMMA MarksFitStep ==
    ASSUME IInv, OInv, [Next]_vars
    PROVE  MarksFit'
<1>0. TypeOK /\ TypeOK' /\ MarksHold'
  BY TypeStep, MarksStep DEF IInv
<1>1. SUFFICES ASSUME NEW h \in Hashes
               PROVE  /\ ExistsInjection(Past(log', memPos', h), Stored(h)')
                      /\ ExistsInjection(Past(log', diskPos', h), Stored(h)')
  BY DEF MarksFit
<1>2. /\ ExistsInjection(Past(log, memPos', h), Stored(h))
      /\ ExistsInjection(Past(log, diskPos', h), Stored(h))
  BY MarksMove
<1>3. Stored(h) \subseteq Stored(h)'
  BY <1>0, StoredGrows
<1>4. /\ Past(log', memPos', h) \subseteq Past(log, memPos', h)
      /\ Past(log', diskPos', h) \subseteq Past(log, diskPos', h)
  <2>1. CASE log' = log
    BY <2>1
  <2>2. CASE UNCHANGED posVars
    <3>1. /\ memPos \in [Channels -> Nat] /\ \A c \in Channels : memPos[c] <= Len(log[c])
          /\ diskPos \in [Channels -> Nat] /\ \A c \in Channels : diskPos[c] <= Len(log[c])
      BY <1>0 DEF TypeOK, IInv, MarksHold
    <3>2. /\ Past(log', memPos, h) \subseteq Past(log, memPos, h)
          /\ Past(log', diskPos, h) \subseteq Past(log, diskPos, h)
      BY <1>0, <3>1, PastKept
    <3>3. QED BY <2>2, <3>2 DEF posVars
  <2>3. log' = log \/ UNCHANGED posVars
    BY LogChange DEF Record
  <2>4. QED BY <2>1, <2>2, <2>3
<1>5. QED BY <1>2, <1>3, <1>4, FitsMore

LEMMA MarksBehindStep ==
    ASSUME IInv, OInv, [Next]_vars
    PROVE  MarksBehind'
<1>0. /\ memPos \in [Channels -> Nat] /\ handled \in [Channels -> Nat]
      /\ staged \in [Channels -> Nat]
  BY DEF IInv, TypeOK
<1>1. CASE NoRun
  BY <1>1 DEF NoRun, MarksBehind
<1>2. ASSUME NEW C, NEW i, StartLive(C, i) PROVE MarksBehind'
  BY <1>0, <1>2 DEF StartLive, posVars, MarksBehind
<1>3. CASE SkipRecord \/ DuplicateInBatch \/ DuplicateInStore \/ NewEvent
  <2>1. InBatch /\ TakeRecord /\ pc # "idle" /\ memPos' = memPos
    BY <1>3 DEF SkipRecord, DuplicateInBatch, DuplicateInStore, NewEvent, InBatch,
                TakeRecord, posVars
  <2>2. \A c \in Channels : handled[c] <= handled'[c] /\ handled'[c] \in Nat
    BY <1>0, <2>1 DEF TakeRecord
  <2>3. \A c \in Channels : memPos[c] <= handled[c]
    BY <2>1 DEF OInv, MarksBehind
  <2>4. QED BY <1>0, <2>1, <2>2, <2>3 DEF MarksBehind
<1>4. ASSUME NEW C, Reset(C) PROVE MarksBehind'
  <2>1. pc' = pc /\ handled' = handled
    BY <1>4 DEF Reset, sinkVars
  <2>2. \A c \in Channels : memPos'[c] = memPos[c] \/ memPos'[c] = 0
    BY <1>4 DEF Reset
  <2>3. QED BY <1>0, <2>1, <2>2 DEF OInv, MarksBehind
<1>5. ASSUME NEW c \in Channels, CommitPosition(c) PROVE MarksBehind'
  <2>1. pc # "idle" /\ handled' = handled
    BY <1>5 DEF CommitPosition
  <2>2. \A d \in Channels : memPos'[d] \in {memPos[d], staged[d]}
    BY <1>0, <1>5 DEF CommitPosition, posVars
  <2>3. QED BY <2>1, <2>2 DEF OInv, MarksBehind, IInv, StagedIsHandled
<1>6. CASE UNCHANGED <<memPos, handled>> /\ (pc' # "idle" => pc # "idle")
  BY <1>6 DEF OInv, MarksBehind
<1>7. \/ NoRun
      \/ \E C, i : StartLive(C, i)
      \/ SkipRecord \/ DuplicateInBatch \/ DuplicateInStore \/ NewEvent
      \/ \E C : Reset(C)
      \/ \E c \in Channels : CommitPosition(c)
      \/ (UNCHANGED <<memPos, handled>> /\ (pc' # "idle" => pc # "idle"))
  BY DEF Next, User, Readers, Sink, vars, Record, Pause, Resume, Cancel,
         CloseResults, ReadBatch, LoopTop, LeaveLoop, WakeForPause, WaitOver,
         ReceiveBatch, BatchDone, InsertEvents, NothingToInsert, IndexNode,
         Flushed, IncrementDedupCounts, Committed, Finish, StoreFails, Crash,
         sinkVars, posVars
<1>8. QED BY <1>1, <1>2, <1>3, <1>4, <1>5, <1>6, <1>7

LEMMA IncOfStoreStep ==
    ASSUME IInv, OInv, [Next]_vars
    PROVE  IncOfStore'
<1>1. DOMAIN nodes \subseteq DOMAIN nodes'
  BY StoreChange DEF IInv
<1>2. CASE dbInc' = EmptyBag
  BY <1>2 DEF IncOfStore, EmptyBag, SetToBag
<1>3. CASE dbInc' = dbInc
  BY <1>1, <1>3 DEF OInv, IncOfStore
<1>4. CASE DuplicateInStore
  <2> DEFINE x == Least(IndexedWith(HashNormalized(NextRecord)))
  <2>1. /\ IndexedWith(HashNormalized(NextRecord)) # {}
        /\ dbInc' = dbInc (+) SetToBag({x})
    BY <1>4 DEF DuplicateInStore
  <2>2. IndexedWith(HashNormalized(NextRecord)) \subseteq Nat
    BY DEF IndexedWith, IInv, TypeOK
  <2>3. x \in IndexedWith(HashNormalized(NextRecord))
    BY <2>1, <2>2, LeastIn
  <2>4. x \in DOMAIN nodes
    BY <2>3 DEF IndexedWith, IInv, IndexedInStore
  <2> HIDE DEF x
  <2>5. DOMAIN dbInc' = DOMAIN dbInc \cup {x}
    BY <2>1 DEF (+), SetToBag
  <2>6. QED BY <1>1, <2>4, <2>5 DEF OInv, IncOfStore
<1>5. dbInc' = EmptyBag \/ dbInc' = dbInc \/ DuplicateInStore
  BY DEF Next, User, Readers, Sink, vars, Record, StartLive, Pause, Resume,
         Cancel, CloseResults, Reset, ReadBatch, LoopTop, LeaveLoop, WakeForPause,
         WaitOver, ReceiveBatch, SkipRecord, DuplicateInBatch, NewEvent, BatchDone,
         InsertEvents, NothingToInsert, IndexNode, Flushed, IncrementDedupCounts,
         CommitPosition, Committed, Finish, StoreFails, Crash, NoRun, sinkVars
<1>6. QED BY <1>2, <1>3, <1>4, <1>5

LEMMA ByHashStep ==
    ASSUME IInv, OInv, [Next]_vars
    PROVE  ByHashHasEvent'
<1>0. pending \in Seq(Events) /\ ByHashHasEvent
  BY DEF IInv, TypeOK, OInv
<1>1. CASE byHash' = {}
  BY <1>1 DEF ByHashHasEvent
<1>2. CASE UNCHANGED <<byHash, pending>>
  BY <1>0, <1>2 DEF ByHashHasEvent
<1>3. CASE DuplicateInBatch
  <2>1. ASSUME NEW k \in DOMAIN pending
        PROVE  k \in DOMAIN pending' /\ pending'[k].id = pending[k].id
    <3>1. pending[k] \in Events
      BY <1>0
    <3>2. pending'[k] = [pending[k] EXCEPT !.n = @ + 1] \/ pending'[k] = pending[k]
      BY <1>3, <2>1 DEF DuplicateInBatch
    <3>3. k \in DOMAIN pending'
      BY <1>3, <2>1 DEF DuplicateInBatch
    <3>4. QED BY <3>1, <3>2, <3>3 DEF Events
  <2>2. byHash' = byHash
    BY <1>3 DEF DuplicateInBatch
  <2>3. QED BY <1>0, <2>1, <2>2 DEF ByHashHasEvent
<1>4. CASE NewEvent
  <2> DEFINE e == [id |-> HashNormalized(NextRecord), n |-> 1]
  <2>1. /\ pending' = Append(pending, e) /\ e.id = HashNormalized(NextRecord)
        /\ byHash' \subseteq byHash \cup {HashNormalized(NextRecord)}
    BY <1>4 DEF NewEvent
  <2> HIDE DEF e
  <2>2. /\ DOMAIN pending' = DOMAIN pending \cup {Len(pending) + 1}
        /\ \A k \in DOMAIN pending : pending'[k] = pending[k]
        /\ pending'[Len(pending) + 1] = e
    BY <1>0, <2>1
  <2>3. QED BY <1>0, <2>1, <2>2 DEF ByHashHasEvent
<1>5. byHash' = {} \/ UNCHANGED <<byHash, pending>> \/ DuplicateInBatch \/ NewEvent
  BY DEF Next, User, Readers, Sink, vars, Record, StartLive, Pause, Resume,
         Cancel, CloseResults, Reset, ReadBatch, LoopTop, LeaveLoop, WakeForPause,
         WaitOver, ReceiveBatch, SkipRecord, DuplicateInStore, BatchDone,
         InsertEvents, NothingToInsert, IndexNode, Flushed, IncrementDedupCounts,
         CommitPosition, Committed, Finish, StoreFails, Crash, NoRun, sinkVars
<1>6. QED BY <1>1, <1>2, <1>3, <1>4, <1>5

LEMMA EmptiedStep ==
    ASSUME IInv, OInv, [Next]_vars
    PROVE  Emptied'
<1> USE DEF Emptied
<1>0. Emptied /\ pc \in {"idle", "loop", "select", "wait", "chunk", "insert", "index",
                         "commit", "inc", "commitInc"}
      /\ mode \in {"run", "pause", "end"} /\ staged \in [Channels -> Nat]
  BY DEF OInv, IInv, TypeOK
<1>1. CASE NoRun
  BY <1>1 DEF NoRun
<1>2. CASE UNCHANGED <<queue, open, sinkVars>>
  BY <1>0, <1>2 DEF sinkVars
<1>3. CASE SkipRecord \/ DuplicateInBatch \/ DuplicateInStore \/ NewEvent
  <2>1. /\ pc = "chunk" /\ mode' = mode /\ mode = "run"
        /\ pc' \in {"chunk", "insert", "inc"}
    BY <1>0, <1>3 DEF SkipRecord, DuplicateInBatch, DuplicateInStore, NewEvent, InBatch, TakeRecord
  <2>2. QED BY <2>1
<1>4. CASE \/ \E c \in Channels : \E hi \in 1 .. Len(log[c]) : ReadBatch(c, hi)
           \/ \E C, i : StartLive(C, i)
           \/ \E b \in queue : ReceiveBatch(b)
  <2>1. CASE \E c \in Channels : \E hi \in 1 .. Len(log[c]) : ReadBatch(c, hi)
    BY <1>0, <2>1 DEF ReadBatch, sinkVars
  <2>2. CASE \E C, i : StartLive(C, i)
    BY <1>0, <2>2 DEF StartLive
  <2>3. CASE \E b \in queue : ReceiveBatch(b)
    BY <1>0, <2>3 DEF ReceiveBatch
  <2>4. QED BY <1>4, <2>1, <2>2, <2>3
<1>5. CASE LoopTop \/ LeaveLoop \/ WakeForPause \/ WaitOver
  BY <1>0, <1>5 DEF LoopTop, LeaveLoop, WakeForPause, WaitOver, runVars
<1>6. CASE BatchDone \/ InsertEvents \/ NothingToInsert \/ IndexNode
  BY <1>0, <1>6 DEF BatchDone, InsertEvents, NothingToInsert, IndexNode, runVars
<1>7. CASE Flushed \/ IncrementDedupCounts
  BY <1>0, <1>7 DEF Flushed, IncrementDedupCounts, runVars
<1>8. ASSUME NEW c \in Channels, CommitPosition(c) PROVE Emptied'
  BY <1>0, <1>8 DEF CommitPosition, runVars
<1>9. CASE Committed
  <2>1. UNCHANGED <<queue, open, mode, pending, dbInc, staged>>
    BY <1>9 DEF Committed, runVars
  <2>2. CASE mode = "run"
    BY <1>0, <1>9, <2>1, <2>2 DEF Committed
  <2>3. CASE mode # "run" /\ pc = "commit"
    BY <1>0, <1>9, <2>1, <2>3 DEF Committed
  <2>4. CASE mode # "run" /\ pc = "commitInc"
    <3>1. pc' = "wait"
      BY <1>9, <2>4 DEF Committed
    <3>2. pending = <<>> /\ dbInc = EmptyBag
      BY <1>0, <2>4
    <3>3. staged = Zero
      BY <1>9, <3>2 DEF Committed, NothingUnwritten
    <3>4. QED BY <2>1, <2>4, <3>1, <3>2, <3>3
  <2>5. QED BY <1>9, <2>2, <2>3, <2>4 DEF Committed
<1>10. CASE CloseResults
  BY <1>0, <1>10 DEF CloseResults, sinkVars
<1>11. \/ NoRun \/ UNCHANGED <<queue, open, sinkVars>>
       \/ SkipRecord \/ DuplicateInBatch \/ DuplicateInStore \/ NewEvent
       \/ \E c \in Channels : \E hi \in 1 .. Len(log[c]) : ReadBatch(c, hi)
       \/ \E C, i : StartLive(C, i)
       \/ \E b \in queue : ReceiveBatch(b)
       \/ LoopTop \/ LeaveLoop \/ WakeForPause \/ WaitOver
       \/ BatchDone \/ InsertEvents \/ NothingToInsert \/ IndexNode
       \/ Flushed \/ IncrementDedupCounts
       \/ (\E c \in Channels : CommitPosition(c))
       \/ Committed \/ CloseResults
  BY DEF Next, User, Readers, Sink, vars, Record, Pause, Resume, Cancel, Reset,
         Finish, StoreFails, Crash, runVars
<1>12. QED BY <1>1, <1>2, <1>3, <1>4, <1>5, <1>6, <1>7, <1>8, <1>9, <1>10, <1>11

\* What the taking of a record says of the batch it is taken from.
LEMMA InsideTake ==
    ASSUME IInv, OInv, SkipRecord \/ DuplicateInBatch \/ DuplicateInStore \/ NewEvent
    PROVE  /\ InsideBatch /\ InsideBatch' /\ handled[cur.chan] < cur.hi
           /\ cur.chan \in Channels /\ cur.hi \in Nat /\ pc # "idle"
           /\ handled' = [handled EXCEPT ![cur.chan] = handled[cur.chan] + 1]
           /\ UNCHANGED <<queue, sent, cur, staged, memPos, resets>>
<1>1. /\ InBatch /\ TakeRecord /\ mode' = mode /\ pc = "chunk"
      /\ pc' \in {"chunk", "insert", "inc"}
  BY DEF SkipRecord, DuplicateInBatch, DuplicateInStore, NewEvent, InBatch, TakeRecord
<1>2. mode = "run"
  BY <1>1 DEF OInv, Emptied
<1>3. cur.chan \in Channels /\ cur.hi \in Nat
  BY <1>1, NextRecordFacts
<1>4. InsideBatch /\ InsideBatch'
  BY <1>1, <1>2 DEF InsideBatch
<1>5. QED
  BY <1>1, <1>3, <1>4 DEF InBatch, TakeRecord, runVars, posVars, boundVars

\* The actions during which no batch is begun or ended and no record moves.
SameBatch ==
    UNCHANGED <<queue, sent, handled, cur>> /\ (InsideBatch' => InsideBatch)

LEMMA InOrderStep ==
    ASSUME IInv, OInv, [Next]_vars
    PROVE  InOrder'
<1>0. /\ InOrder /\ Emptied
      /\ handled \in [Channels -> Nat] /\ sent \in [Channels -> Nat]
      /\ memPos \in [Channels -> Nat]
      /\ queue \in SUBSET Batches
  BY DEF OInv, IInv, TypeOK
<1>1. \A b \in queue : b.chan \in Channels /\ b.hi \in Nat
  BY <1>0 DEF Batches
<1>2. CASE NoRun
  BY <1>2 DEF NoRun, InOrder, InsideBatch, Zero
<1>3. ASSUME NEW C, NEW i, StartLive(C, i) PROVE InOrder'
  <2>1. queue' = {} /\ handled' = memPos /\ sent' = memPos /\ pc' = "loop"
    BY <1>0, <1>3 DEF StartLive, Emptied
  <2>2. QED BY <1>0, <2>1 DEF InOrder, InsideBatch
<1>4. ASSUME NEW c \in Channels, NEW hi \in 1 .. Len(log[c]), ReadBatch(c, hi)
      PROVE  InOrder'
  <2>1. /\ UNCHANGED <<handled, cur, pc, mode>> /\ hi > sent[c]
        /\ queue' = queue \cup {[chan |-> c, hi |-> hi]}
        /\ sent' = [sent EXCEPT ![c] = hi]
    BY <1>4 DEF ReadBatch, sinkVars
  <2>2. hi \in Nat
    BY <1>4
  <2>3. \A d \in Channels : sent[d] <= sent'[d] /\ sent'[d] \in Nat
    BY <1>0, <2>1, <2>2
  <2>4. \A d \in Channels : handled[d] <= sent'[d]
    BY <1>0, <2>3 DEF InOrder
  <2> DEFINE n == [chan |-> c, hi |-> hi]
  <2>5. n.chan = c /\ n.hi = hi
    OBVIOUS
  <2> HIDE DEF n
  <2>6. queue' = queue \cup {n}
    BY <2>1 DEF n
  <2>7. handled[c] < hi /\ hi <= sent'[c]
    BY <1>0, <2>1, <2>2 DEF InOrder
  <2>8. \A b \in queue' : handled[b.chan] < b.hi /\ b.hi <= sent'[b.chan]
    <3>1. SUFFICES ASSUME NEW b \in queue'
                   PROVE  handled[b.chan] < b.hi /\ b.hi <= sent'[b.chan]
      OBVIOUS
    <3>2. CASE b = n
      BY <2>5, <2>7, <3>2
    <3>3. CASE b \in queue
      <4>1. handled[b.chan] < b.hi /\ b.hi <= sent[b.chan]
        BY <1>0, <3>3 DEF InOrder
      <4>2. /\ b.hi \in Nat /\ sent[b.chan] \in Nat
            /\ sent'[b.chan] \in Nat /\ sent[b.chan] <= sent'[b.chan]
        BY <1>0, <1>1, <2>3, <3>3
      <4>3. QED BY <4>1, <4>2
    <3>4. QED BY <2>6, <3>2, <3>3
  <2>9. ASSUME InsideBatch
        PROVE  /\ 0 < cur.hi /\ handled[cur.chan] <= cur.hi /\ cur.hi <= sent'[cur.chan]
               /\ \A b \in queue' : b.chan = cur.chan => cur.hi < b.hi
    <3>1. cur \in Batches
      BY <2>9 DEF InsideBatch, IInv, BatchIsReal
    <3>2. cur.chan \in Channels /\ cur.hi \in Nat
      BY <3>1 DEF Batches
    <3>3. /\ 0 < cur.hi /\ handled[cur.chan] <= cur.hi /\ cur.hi <= sent[cur.chan]
          /\ \A b \in queue : b.chan = cur.chan => cur.hi < b.hi
      BY <1>0, <2>9 DEF InOrder
    <3>4. cur.hi <= sent'[cur.chan]
      <4>1. /\ sent[cur.chan] \in Nat /\ sent'[cur.chan] \in Nat
            /\ sent[cur.chan] <= sent'[cur.chan]
        BY <1>0, <2>3, <3>2
      <4>2. QED BY <3>2, <3>3, <4>1
    <3>5. c = cur.chan => cur.hi < hi
      BY <1>0, <2>1, <2>2, <3>2, <3>3
    <3>6. QED BY <2>5, <2>6, <3>3, <3>4, <3>5
  <2>10. InsideBatch' = InsideBatch
    BY <2>1 DEF InsideBatch
  <2>11. QED BY <2>1, <2>4, <2>8, <2>9, <2>10 DEF InOrder
<1>5. ASSUME NEW b \in queue, ReceiveBatch(b) PROVE InOrder'
  <2>1. /\ queue' = queue \ {b} /\ cur' = b /\ UNCHANGED <<handled, sent>>
        /\ \A o \in queue : o.chan = b.chan => b.hi <= o.hi
    BY <1>5 DEF ReceiveBatch
  <2>2. /\ handled[b.chan] < b.hi /\ b.hi <= sent[b.chan]
        /\ b.chan \in Channels /\ b.hi \in Nat
    BY <1>0, <1>1 DEF InOrder
  <2>3. ASSUME NEW o \in queue, o # b, o.chan = b.chan PROVE b.hi < o.hi
    <3>1. o \in Batches /\ b \in Batches
      BY <1>0
    <3>2. o.hi # b.hi
      BY <2>3, <3>1 DEF Batches
    <3>3. QED BY <1>1, <2>1, <2>3, <3>2
  <2>4. 0 < b.hi /\ handled[b.chan] <= b.hi
    BY <1>0, <2>2
  <2>5. \A o \in queue' : o \in queue /\ o # b
    BY <2>1
  <2>6. QED BY <1>0, <2>1, <2>2, <2>3, <2>4, <2>5 DEF InOrder
<1>6. CASE SkipRecord \/ DuplicateInBatch \/ DuplicateInStore \/ NewEvent
  <2>1. /\ InsideBatch /\ handled[cur.chan] < cur.hi
        /\ cur.chan \in Channels /\ cur.hi \in Nat
        /\ handled' = [handled EXCEPT ![cur.chan] = handled[cur.chan] + 1]
        /\ UNCHANGED <<queue, sent, cur>>
    BY <1>6, InsideTake
  <2>2. /\ 0 < cur.hi /\ cur.hi <= sent[cur.chan]
        /\ \A b \in queue : b.chan = cur.chan => cur.hi < b.hi
    BY <1>0, <2>1 DEF InOrder
  <2>3. /\ handled'[cur.chan] = handled[cur.chan] + 1 /\ handled'[cur.chan] <= cur.hi
        /\ \A c \in Channels : c # cur.chan => handled'[c] = handled[c]
        /\ handled'[cur.chan] \in Nat
    BY <1>0, <2>1
  <2>4. \A c \in Channels : handled'[c] <= sent[c]
    BY <1>0, <2>1, <2>2, <2>3 DEF InOrder
  <2>5. \A b \in queue : handled'[b.chan] < b.hi /\ b.hi <= sent[b.chan]
    <3>1. SUFFICES ASSUME NEW b \in queue PROVE handled'[b.chan] < b.hi
      BY <1>0 DEF InOrder
    <3>2. CASE b.chan = cur.chan
      BY <1>1, <2>1, <2>2, <2>3, <3>2
    <3>3. CASE b.chan # cur.chan
      BY <1>0, <1>1, <2>3, <3>3 DEF InOrder
    <3>4. QED BY <3>2, <3>3
  <2>6. QED BY <2>1, <2>2, <2>3, <2>4, <2>5 DEF InOrder
<1>7. CASE BatchDone
  <2>1. pc' = "loop" /\ UNCHANGED <<queue, sent, handled>>
    BY <1>7 DEF BatchDone, runVars
  <2>2. QED BY <1>0, <2>1 DEF InOrder, InsideBatch
<1>8. CASE SameBatch
  BY <1>0, <1>8 DEF SameBatch, InOrder
<1>9. \/ NoRun
      \/ \E C, i : StartLive(C, i)
      \/ \E c \in Channels : \E hi \in 1 .. Len(log[c]) : ReadBatch(c, hi)
      \/ \E b \in queue : ReceiveBatch(b)
      \/ SkipRecord \/ DuplicateInBatch \/ DuplicateInStore \/ NewEvent
      \/ BatchDone \/ SameBatch
  <2>1. CASE LoopTop \/ LeaveLoop \/ WakeForPause \/ WaitOver
    BY <1>0, <2>1 DEF LoopTop, LeaveLoop, WakeForPause, WaitOver, runVars, SameBatch, InsideBatch
  <2>2. CASE InsertEvents \/ NothingToInsert \/ IndexNode \/ Flushed \/ IncrementDedupCounts
    BY <2>2 DEF InsertEvents, NothingToInsert, IndexNode, Flushed, IncrementDedupCounts,
                runVars, SameBatch, InsideBatch
  <2>3. CASE Committed \/ \E c \in Channels : CommitPosition(c)
    BY <2>3 DEF Committed, CommitPosition, runVars, SameBatch, InsideBatch
  <2>4. CASE UNCHANGED <<queue, sent, handled, cur, pc, mode>>
    BY <2>4 DEF SameBatch, InsideBatch
  <2>5. \/ NoRun
        \/ \E C, i : StartLive(C, i)
        \/ \E c \in Channels : \E hi \in 1 .. Len(log[c]) : ReadBatch(c, hi)
        \/ \E b \in queue : ReceiveBatch(b)
        \/ SkipRecord \/ DuplicateInBatch \/ DuplicateInStore \/ NewEvent
        \/ BatchDone
        \/ LoopTop \/ LeaveLoop \/ WakeForPause \/ WaitOver
        \/ InsertEvents \/ NothingToInsert \/ IndexNode \/ Flushed \/ IncrementDedupCounts
        \/ Committed \/ (\E c \in Channels : CommitPosition(c))
        \/ UNCHANGED <<queue, sent, handled, cur, pc, mode>>
    BY DEF Next, User, Readers, Sink, vars, Record, Pause, Resume, Cancel, Reset,
           CloseResults, Finish, StoreFails, Crash, runVars, sinkVars
  <2>6. QED BY <2>1, <2>2, <2>3, <2>4, <2>5
<1>10. QED BY <1>2, <1>3, <1>4, <1>5, <1>6, <1>7, <1>8, <1>9

LEMMA StagedIsLastStep ==
    ASSUME IInv, OInv, [Next]_vars
    PROVE  StagedIsLast'
<1>0. /\ handled \in [Channels -> Nat] /\ staged \in [Channels -> Nat]
      /\ memPos \in [Channels -> Nat] /\ resets \in Nat
  BY DEF IInv, TypeOK
<1>1. SUFFICES ASSUME resets' = 0, pc' # "idle", NEW c \in Channels,
                      InsideBatch' => c # cur'.chan
               PROVE  handled'[c] = IF staged'[c] > 0 THEN staged'[c] ELSE memPos'[c]
  BY DEF StagedIsLast
<1>2. resets = 0
  BY <1>0, <1>1 DEF Next, User, Readers, Sink, vars, Record, StartLive, Pause, Resume,
         Cancel, CloseResults, Reset, ReadBatch, LoopTop, LeaveLoop, WakeForPause,
         WaitOver, ReceiveBatch, SkipRecord, DuplicateInBatch, DuplicateInStore,
         NewEvent, TakeRecord, BatchDone, InsertEvents, NothingToInsert, IndexNode,
         Flushed, IncrementDedupCounts, CommitPosition, Committed, Finish,
         StoreFails, Crash, boundVars
<1>3. CASE pc = "idle"
  <2>1. PICK C, i : StartLive(C, i)
    BY <1>1, <1>2, <1>3 DEF Next, User, Readers, Sink, vars, Record, Pause, Resume,
         Cancel, CloseResults, Reset, ReadBatch, LoopTop, LeaveLoop, WakeForPause,
         WaitOver, ReceiveBatch, SkipRecord, DuplicateInBatch, DuplicateInStore,
         NewEvent, InBatch, BatchDone, InsertEvents, NothingToInsert, IndexNode,
         Flushed, IncrementDedupCounts, CommitPosition, Committed, Finish,
         StoreFails, Crash, NoRun, sinkVars
  <2>2. handled' = memPos /\ memPos' = memPos /\ staged' = staged
    BY <2>1 DEF StartLive, posVars
  <2>3. staged = Zero
    BY <1>3 DEF IInv, IdleIsEmpty
  <2>4. QED BY <2>2, <2>3 DEF Zero
<1>4. ASSUME pc # "idle", InsideBatch => c # cur.chan
      PROVE  handled[c] = IF staged[c] > 0 THEN staged[c] ELSE memPos[c]
  BY <1>2, <1>4 DEF OInv, StagedIsLast
<1>5. CASE SkipRecord \/ DuplicateInBatch \/ DuplicateInStore \/ NewEvent
  <2>1. /\ InsideBatch /\ InsideBatch' /\ pc # "idle"
        /\ handled' = [handled EXCEPT ![cur.chan] = handled[cur.chan] + 1]
        /\ UNCHANGED <<cur, staged, memPos>>
    BY <1>5, InsideTake
  <2>2. c # cur.chan
    BY <1>1, <2>1
  <2>3. handled'[c] = handled[c]
    BY <1>0, <2>1, <2>2
  <2>4. QED BY <1>4, <2>1, <2>2, <2>3
<1>6. CASE BatchDone
  <2>1. /\ pc = "chunk" /\ handled[cur.chan] >= cur.hi
        /\ handled' = handled /\ memPos' = memPos
        /\ staged' = IF cur.hi > staged[cur.chan]
                     THEN [staged EXCEPT ![cur.chan] = cur.hi] ELSE staged
    BY <1>6 DEF BatchDone, posVars
  <2>2. cur.chan \in Channels /\ cur.hi \in Nat
    BY <2>1 DEF IInv, BatchIsReal, Batches
  <2>3. 0 < cur.hi /\ handled[cur.chan] <= cur.hi /\ staged[cur.chan] <= handled[cur.chan]
    BY <2>1, <2>2 DEF OInv, InOrder, InsideBatch, IInv, StagedIsHandled
  <2>4. CASE c = cur.chan
    BY <1>0, <2>1, <2>2, <2>3, <2>4
  <2>5. CASE c # cur.chan
    <3>1. staged'[c] = staged[c]
      BY <1>0, <2>1, <2>5
    <3>2. pc # "idle"
      BY <2>1
    <3>3. QED BY <1>4, <2>1, <2>5, <3>1, <3>2
  <2>6. QED BY <2>4, <2>5
<1>7. ASSUME NEW d \in Channels, CommitPosition(d)
      PROVE  handled'[c] = IF staged'[c] > 0 THEN staged'[c] ELSE memPos'[c]
  <2>1. /\ UNCHANGED <<handled, pc, mode, cur>> /\ pc # "idle" /\ staged[d] > 0
        /\ staged' = [staged EXCEPT ![d] = 0]
        /\ memPos' = IF staged[d] > memPos[d] THEN [memPos EXCEPT ![d] = staged[d]] ELSE memPos
    BY <1>7 DEF CommitPosition, posVars
  <2>2. InsideBatch => c # cur.chan
    BY <1>1, <2>1 DEF InsideBatch
  <2>3. handled[c] = IF staged[c] > 0 THEN staged[c] ELSE memPos[c]
    BY <1>4, <2>1, <2>2
  <2>4. memPos[c] <= handled[c]
    BY <2>1 DEF OInv, MarksBehind
  <2>5. CASE c = d
    BY <1>0, <2>1, <2>3, <2>4, <2>5
  <2>6. CASE c # d
    BY <1>0, <2>1, <2>3, <2>6
  <2>7. QED BY <2>5, <2>6
<1>8. CASE /\ UNCHANGED <<handled, staged, memPos>>
           /\ (InsideBatch => InsideBatch' /\ cur' = cur)
           /\ pc # "idle"
  BY <1>1, <1>4, <1>8
<1>9. ASSUME pc # "idle"
      PROVE  \/ SkipRecord \/ DuplicateInBatch \/ DuplicateInStore \/ NewEvent
             \/ BatchDone \/ (\E d \in Channels : CommitPosition(d))
             \/ /\ UNCHANGED <<handled, staged, memPos>>
                /\ (InsideBatch => InsideBatch' /\ cur' = cur)
  <2> DEFINE Same == /\ UNCHANGED <<handled, staged, memPos>>
                     /\ (InsideBatch => InsideBatch' /\ cur' = cur)
  <2>1. CASE LoopTop \/ LeaveLoop \/ WakeForPause \/ WaitOver
    <3>1. Same
      BY <2>1 DEF LoopTop, LeaveLoop, WakeForPause, WaitOver, posVars, InsideBatch
    <3>2. QED BY <3>1
  <2>2. CASE \E b \in queue : ReceiveBatch(b)
    <3>1. Same
      BY <2>2 DEF ReceiveBatch, posVars, InsideBatch
    <3>2. QED BY <3>1
  <2>3. CASE InsertEvents \/ NothingToInsert \/ IndexNode \/ Flushed \/ IncrementDedupCounts
    <3>1. Same
      BY <2>3 DEF InsertEvents, NothingToInsert, IndexNode, Flushed, IncrementDedupCounts,
                  posVars, InsideBatch
    <3>2. QED BY <3>1
  <2>4. CASE Committed
    <3>1. Same
      BY <2>4 DEF Committed, posVars, InsideBatch
    <3>2. QED BY <3>1
  <2>5. CASE UNCHANGED <<handled, staged, memPos, cur, pc, mode>>
    <3>1. Same
      BY <2>5 DEF InsideBatch
    <3>2. QED BY <3>1
  <2>6. \/ SkipRecord \/ DuplicateInBatch \/ DuplicateInStore \/ NewEvent
        \/ BatchDone \/ (\E d \in Channels : CommitPosition(d))
        \/ LoopTop \/ LeaveLoop \/ WakeForPause \/ WaitOver
        \/ (\E b \in queue : ReceiveBatch(b))
        \/ InsertEvents \/ NothingToInsert \/ IndexNode \/ Flushed \/ IncrementDedupCounts
        \/ Committed
        \/ UNCHANGED <<handled, staged, memPos, cur, pc, mode>>
    <3>1. ~NoRun /\ \A C, i : ~StartLive(C, i)
      BY <1>1, <1>9 DEF NoRun, StartLive
    <3>2. \A C : ~Reset(C)
      BY <1>0, <1>1, <1>2 DEF Reset
    <3>3. QED
      BY <3>1, <3>2 DEF Next, User, Readers, Sink, vars, Record, Pause, Resume, Cancel,
           CloseResults, ReadBatch, Finish, StoreFails, Crash, sinkVars, posVars
  <2>7. QED BY <2>1, <2>2, <2>3, <2>4, <2>5, <2>6
<1>10. QED BY <1>3, <1>5, <1>6, <1>7, <1>8, <1>9

LEMMA OInvStep == IInv /\ OInv /\ [Next]_vars => OInv'
  BY HandledStep, MarksFitStep, MarksBehindStep, IncOfStoreStep, ByHashStep,
     EmptiedStep, InOrderStep, StagedIsLastStep DEF OInv

LEMMA InitCounts == Init => OInv
<1> SUFFICES ASSUME Init PROVE OInv
  OBVIOUS
<1>1. /\ TypeOK /\ pc = "idle" /\ queue = {} /\ ~open /\ byHash = {} /\ dbInc = EmptyBag
      /\ memPos = Zero /\ diskPos = Zero /\ handled = Zero /\ sent = Zero
  BY InitInv DEF Init, IInv
<1>2. \A h : Past(log, Zero, h) = {}
  BY <1>1, NothingPast DEF TypeOK
<1>3. HandledFits /\ MarksFit
  BY <1>1, <1>2, FitsNone DEF HandledFits, MarksFit
<1>4. MarksBehind /\ ByHashHasEvent /\ Emptied /\ StagedIsLast
  BY <1>1 DEF MarksBehind, ByHashHasEvent, Emptied, StagedIsLast
<1>5. IncOfStore
  BY <1>1 DEF IncOfStore, EmptyBag, SetToBag
<1>6. InOrder
  BY <1>1 DEF InOrder, InsideBatch, Zero
<1>7. QED BY <1>3, <1>4, <1>5, <1>6 DEF OInv

LEMMA CountsInvariance == Spec => [](IInv /\ OInv)
<1>1. Init => IInv /\ OInv
  BY InitInv, InitCounts
<1>2. IInv /\ OInv /\ [Next]_vars => IInv' /\ OInv'
  BY InvStep, OInvStep
<1>3. QED BY <1>1, <1>2, PTL DEF Spec

-----------------------------------------------------------------------------
(* From pairing off to counting *)

LEMMA OccurrencesFinite ==
    ASSUME TypeOK, NEW h
    PROVE  IsFiniteSet(Occurrences(nodes, h))
<1> DEFINE K == {j \in DOMAIN nodes : nodes[j].id[1] = h}
           g == [k \in K |-> {k} \X (1 .. nodes[k].n)]
           F == {{k} \X (1 .. nodes[k].n) : k \in K}
<1>1. nodes \in Seq(Events)
  BY DEF TypeOK
<1>2. IsFiniteSet(K)
  <2>1. Len(nodes) \in Nat /\ DOMAIN nodes = 1 .. Len(nodes)
    BY <1>1
  <2>2. IsFiniteSet(1 .. Len(nodes))
    BY <2>1, FS_Interval
  <2>3. K \in SUBSET (1 .. Len(nodes))
    BY <2>1
  <2> HIDE DEF K
  <2>4. QED BY <2>2, <2>3, FS_Subset
<1>3. \A k \in K : nodes[k].n \in Nat
  <2>1. SUFFICES ASSUME NEW k \in K PROVE nodes[k].n \in Nat
    OBVIOUS
  <2>2. nodes[k] \in Events
    BY <1>1
  <2>3. QED BY <2>2 DEF Events
<1>4. Occurrences(nodes, h) = UNION F
  BY DEF Occurrences
<1> HIDE DEF K
<1>5. g \in Surjection(K, F)
  <2>1. g \in [K -> F]
    OBVIOUS
  <2>2. \A t \in F : \E s \in K : g[s] = t
    OBVIOUS
  <2>3. QED BY <2>1, <2>2 DEF Surjection
<1>6. \A T \in F : IsFiniteSet(T)
  <2>1. SUFFICES ASSUME NEW k \in K PROVE IsFiniteSet({k} \X (1 .. nodes[k].n))
    OBVIOUS
  <2>2. IsFiniteSet({k})
    BY FS_Singleton
  <2>3. IsFiniteSet(1 .. nodes[k].n)
    BY <1>3, FS_Interval
  <2>4. QED BY <2>2, <2>3, FS_Product
<1> HIDE DEF g, F
<1>7. IsFiniteSet(F)
  BY <1>2, <1>5, FS_Surjection
<1>8. QED BY <1>4, <1>6, <1>7, FS_UNION

\* Records that can be paired off with stored occurrences are no more than those.
LEMMA FitsCounts ==
    ASSUME TypeOK, NEW h, NEW p \in [Channels -> Nat],
           ExistsInjection(Past(log, p, h), Stored(h))
    PROVE  Cardinality(Below(p, h)) <= Cardinality(Occurrences(nodes, h))
<1>1. nodes \in Seq(Events) /\ \A c \in Channels : log[c] \in Seq(Records)
  BY DEF TypeOK
<1>2. Below(p, h) \subseteq Past(log, p, h)
  <2>1. \A c \in Channels : \A i \in DOMAIN log[c] : i \in Nat
    BY <1>1
  <2>2. SUFFICES ASSUME NEW c \in Channels,
                        NEW u \in {c} \X {i \in DOMAIN log[c] : i <= p[c] /\ log[c][i] = h}
                 PROVE  u \in Past(log, p, h)
    BY DEF Below
  <2>3. /\ u[1] = c /\ u[2] \in DOMAIN log[c] /\ u[2] <= p[c] /\ log[c][u[2]] = h
        /\ u = <<u[1], u[2]>>
    OBVIOUS
  <2>4. u \in Channels \X Nat
    BY <2>1, <2>3
  <2>5. QED BY <2>3, <2>4 DEF Past
<1> DEFINE f == [u \in Stored(h) |-> <<u[2], u[3]>>]
<1>3. \A u \in Stored(h) : u = <<"store", u[2], u[3]>>
  BY DEF Stored
<1>4. \A u \in Stored(h) : f[u] \in Occurrences(nodes, h)
  BY DEF Stored, Occurrences
<1>5. \A u, v \in Stored(h) : f[u] = f[v] => u = v
  BY <1>3
<1>6. f \in [Stored(h) -> Occurrences(nodes, h)]
  BY <1>4
<1> HIDE DEF f
<1>7. ExistsInjection(Stored(h), Occurrences(nodes, h))
  BY <1>5, <1>6, FitsBy
<1>8. ExistsInjection(Past(log, p, h), Occurrences(nodes, h))
  BY <1>7, Fun_ExistsInjTransitive
<1>9. ExistsInjection(Below(p, h), Occurrences(nodes, h))
  BY <1>2, <1>8, FitsMore
<1>10. PICK g : g \in Injection(Below(p, h), Occurrences(nodes, h))
  BY <1>9 DEF ExistsInjection
<1>11. IsFiniteSet(Occurrences(nodes, h))
  BY OccurrencesFinite
<1>12. QED BY <1>10, <1>11, FS_Injection

\* Behind a bookmark, in memory or on disk, every record's occurrence is in the
\* store: as a node of its own or in the count of one. However often a batch or
\* an increment is lost before it is written, commitPositions has not moved the
\* bookmark over its records.
THEOREM NothingIsLost == Spec => []NoOccurrenceLost
<1>1. IInv /\ OInv => NoOccurrenceLost
  <2>1. SUFFICES ASSUME IInv, OInv, NEW h \in Hashes
                 PROVE  /\ Cardinality(Below(memPos, h)) <= Cardinality(Occurrences(nodes, h))
                        /\ Cardinality(Below(diskPos, h)) <= Cardinality(Occurrences(nodes, h))
    BY DEF NoOccurrenceLost, Accounted
  <2>2. /\ ExistsInjection(Past(log, memPos, h), Stored(h))
        /\ ExistsInjection(Past(log, diskPos, h), Stored(h))
    BY <2>1 DEF OInv, MarksFit
  <2>3. TypeOK /\ memPos \in [Channels -> Nat] /\ diskPos \in [Channels -> Nat]
    BY <2>1 DEF IInv, TypeOK
  <2>4. QED BY <2>1, <2>2, <2>3, FitsCounts
<1>2. QED BY <1>1, CountsInvariance, PTL

\* A sink blocked at its pause boundary has written every occurrence it took,
\* and, unless a bookmark was reset meanwhile, bookmarked every record.
THEOREM PauseCostsNothing == Spec => []PauseIsConsistent
<1>1. IInv /\ OInv => PauseIsConsistent
  <2>1. SUFFICES ASSUME IInv, OInv, pc = "wait"
                 PROVE  /\ Accounted(handled)
                        /\ resets = 0 => \A c \in run : memPos[c] = handled[c]
    BY DEF PauseIsConsistent
  <2>2. /\ pending = <<>> /\ dbInc = EmptyBag /\ staged = Zero /\ ~InsideBatch
        /\ TypeOK /\ handled \in [Channels -> Nat] /\ run \subseteq Channels
    BY <2>1 DEF OInv, Emptied, InsideBatch, IInv, TypeOK
  <2>3. ASSUME NEW h \in Hashes
        PROVE  Cardinality(Below(handled, h)) <= Cardinality(Occurrences(nodes, h))
    <3>1. ExistsInjection(Past(log, handled, h), Stored(h))
      BY <2>1, <2>2, StoredAlone DEF NothingUnwritten
    <3>2. QED BY <2>2, <3>1, FitsCounts
  <2>4. ASSUME resets = 0, NEW c \in Channels PROVE memPos[c] = handled[c]
    BY <2>1, <2>2, <2>4 DEF OInv, StagedIsLast, Zero
  <2>5. QED BY <2>2, <2>3, <2>4 DEF Accounted
<1>2. QED BY <1>1, CountsInvariance, PTL
=============================================================================
