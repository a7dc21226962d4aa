-------------------------- MODULE RuleRegistryProofs --------------------------
(***************************************************************************)
(* Proofs that the registry's memory is the directory, that a rename never *)
(* loses the rule, that a save or an import writes over no loaded rule of  *)
(* another name, and that a rule switched off stays off.                   *)
(*                                                                         *)
(* None of the four says what a call under way relies on. Shape does: what *)
(* a job must hold at each of its places, what a load must be (a rule      *)
(* stands under its id, a file is loaded once), that there is one call at  *)
(* a time while Apart. Lone: what a call that runs alone has read still    *)
(* holds when it acts. Reliable: how far a scan under way agrees with the  *)
(* directory; what it needs of failed operations is that a call ends with  *)
(* a scan or leaves the directory as it was. StaysOff: every copy of a     *)
(* rule that is off has its toggle off and is the one its id loads, but    *)
(* for the two files a rename is at; this rests on rules being numbered as *)
(* they are made.                                                          *)
(***************************************************************************)
EXTENDS RuleRegistry, SequenceTheorems, WellFoundedInduction, TLAPS

-----------------------------------------------------------------------------
(* What is loaded is well formed: a rule stands under its id, no file is      *)
(* loaded twice, and none is both loaded and reported.                        *)

WellLoaded(rules, errors) ==
    /\ \A id \in Ids : rules[id] # NoRule => rules[id].text.id = id
    /\ \A id \in Ids : rules[id].file \notin errors
    /\ \A i, j \in Ids : IsUser(rules[i]) /\ rules[i].file = rules[j].file => i = j
WellScanned(s) ==
    /\ WellLoaded(s.valid, s.invalid)
    /\ \A id \in Ids : s.valid[id].file \notin s.left
    /\ s.invalid \cap s.left = {}

Edits(c) == pc[c] \in {"write", "install"}
Moves(c) == pc[c] \in {"retire", "toggle"}
\* What the places of a call say of its job.
JobFits(c) ==
    /\ Edits(c) \/ Moves(c) \/ pc[c] = "replace" => job[c].text.id \in Ids
    /\ Edits(c) => job[c].op \in {"save", "import"}
    /\ Moves(c) => Renamed(c) /\ job[c].op = "save"
    /\ Moves(c) \/ (Edits(c) /\ IsUser(job[c].old)) => job[c].text.rule = job[c].old.text.rule
    /\ pc[c] = "next" => job[c].op = "import"
    /\ pc[c] = "replace" => job[c].replace # 0
    /\ pc[c] = "unlink" => IsUser(job[c].old)
    /\ job[c].op = "import" => ~IsUser(job[c].old)
    /\ IsUser(job[c].old) => job[c].old.text.id \in Ids /\ job[c].replace = 0
    /\ \A i \in DOMAIN job[c].queue : job[c].queue[i].id \in Ids
    /\ pc[c] = "idle" => job[c].op = "none"
    /\ job[c].op # "import" => job[c].queue = <<>>

Solo == Apart => \A c, d \in Callers : ~At(c, "idle") /\ ~At(d, "idle") => c = d
Saved == faults = 0 => state = enabled /\ ~faulted

Shape ==
    /\ TypeOK
    /\ WellLoaded(valid, invalid)
    /\ \A c \in Callers : WellScanned(scan[c]) /\ JobFits(c)
    /\ Solo
    /\ Saved

-----------------------------------------------------------------------------
(* A call that runs alone: what it has read still holds when it acts on it.   *)

UserIds == {id \in Ids : IsUser(valid[id])}
AloneFits(c) ==
    /\ pc[c] = "install" => tmp[Target(c)] = job[c].text
    /\ pc[c] = "retire" => files[Target(c)] = job[c].text
    /\ pc[c] = "toggle" /\ job[c].old.file # Target(c) => files[Target(c)] = job[c].text
    /\ (Edits(c) \/ pc[c] \in {"retire", "unlink"}) /\ IsUser(job[c].old) =>
          valid[job[c].old.text.id] = job[c].old
    /\ Edits(c) /\ job[c].text.id \in UserIds => IsUser(job[c].old) /\ ~Renamed(c)
    /\ (Edits(c) \/ pc[c] = "next") /\ job[c].op = "import" => UserIds \subseteq job[c].claimed
Lone == Apart => \A c \in Callers : AloneFits(c)

-----------------------------------------------------------------------------
(* What is loaded is what the directory says.                                 *)

Settled == Apart /\ ~faulted
Exact == valid = Loaded(files, enabled) /\ invalid = Rejected(files)
Untouched(c) == pc[c] \in {"idle", "found"} \/ (Edits(c) /\ job[c].op = "save")
OnDisk == {f \in Files : files[f] # Absent}
ScannedOf(c, id) == Claims(files, id) \ scan[c].left
ScanExact(c) ==
    /\ scan[c].left \subseteq OnDisk
    /\ \A f \in OnDisk \ scan[c].left, g \in scan[c].left : f < g
    /\ \A id \in Ids : ScannedOf(c, id) = {} => scan[c].valid[id] = Builtins(enabled)[id]
    /\ \A id \in Ids : \A f \in ScannedOf(c, id) :
          (\A g \in ScannedOf(c, id) : f <= g) =>
              scan[c].valid[id] = Rule(files[f], f, EnabledFor(enabled, id))
    /\ scan[c].invalid = Rejected(files) \ scan[c].left
ReadsTrue(c) ==
    /\ pc[c] = "scan" => ScanExact(c)
    /\ Edits(c) /\ job[c].op = "save" => job[c].replace \in invalid \cup {0}
    /\ pc[c] = "replace" => files[job[c].replace] # Absent
Truthful ==
    /\ (\A c \in Callers : Untouched(c)) => Exact
    /\ \A c \in Callers : ReadsTrue(c)
Reliable == Settled => Truthful

-----------------------------------------------------------------------------
(* The toggle of a rule that is off follows it.                               *)

\* Of the toggles in `toggles` and the rules in `dir`, but for the files a rename is at: the
\* rules in `offs` are off and loaded, the rules not in `copies` are in one file.
Marked(dir, toggles, offs, copies, moving) ==
    /\ \A f \in Files \ moving :
          IsRule(dir[f]) /\ dir[f].rule \in offs =>
             toggles[dir[f].id] = "off" /\ \A g \in Claims(dir, dir[f].id) : f <= g
    /\ \A f, g \in Files \ moving :
          IsRule(dir[f]) /\ IsRule(dir[g]) /\ dir[f].rule = dir[g].rule /\ dir[f].rule \notin copies
             => f = g
Off == off \ copied
Moving == {Target(c) : c \in {d \in Callers : Moves(d)}}
\* What a rename that has written its new file knows.
RenameFits(c) ==
    LET rule == job[c].text.rule IN
        /\ Claims(files, job[c].text.id) \subseteq {Target(c)}
        /\ rule \in Off => enabled[job[c].old.text.id] = "off" /\ ~job[c].old.on
        /\ pc[c] = "toggle" => files[job[c].old.file] = Absent
        /\ \A f \in Files \ {Target(c), job[c].old.file} :
              IsRule(files[f]) =>
                /\ files[f].rule = rule => rule \in copied
                /\ files[f].id = job[c].old.text.id => files[f].rule \notin Off
\* The rules a call has yet to write are new.
NewFits(c) ==
    /\ Edits(c) /\ ~IsUser(job[c].old) =>
          /\ job[c].text.rule \notin off \cup copied
          /\ \A f \in Files : files[f].rule # job[c].text.rule
          /\ \A i \in DOMAIN job[c].queue : job[c].text.rule < job[c].queue[i].rule
    /\ \A i \in DOMAIN job[c].queue :
          /\ \A r \in off \cup copied : r < job[c].queue[i].rule
          /\ \A f \in Files : files[f].rule < job[c].queue[i].rule
          /\ job[c].queue[i].rule <= MaxFile + made
          /\ \A k \in DOMAIN job[c].queue : i < k => job[c].queue[i].rule < job[c].queue[k].rule
    /\ (Edits(c) \/ pc[c] = "next") /\ job[c].op = "import" =>
          \A id \in Ids : Claims(files, id) # {} => id \in job[c].claimed
    /\ Edits(c) /\ job[c].op = "import" => job[c].text.id \notin job[c].claimed
Numbered ==
    /\ \A f \in Files : files[f].rule <= MaxFile + made
    /\ \A r \in off \cup copied : r <= MaxFile + made
    /\ \A c \in Callers : job[c].text.rule <= MaxFile + made
CallMarked(c) == NewFits(c) /\ (Moves(c) => RenameFits(c))
AllMarked ==
    /\ Numbered /\ Marked(files, enabled, Off, copied, Moving)
    /\ \A c \in Callers : CallMarked(c)
StaysOff == Orderly => AllMarked

-----------------------------------------------------------------------------
(* Names, texts and the lists of a scan.                                      *)

LEMMA FileNames ==
    /\ Files \subseteq 1 .. MaxFile
    /\ \A id \in Ids : FileOf(id) \in Files
    /\ \A i, j \in Ids : FileOf(i) = FileOf(j) => i = j
    /\ MaxFile \in Nat /\ MaxNew \in Nat /\ MaxRev \in Nat /\ MaxId \in Nat
BY RegistryAssumption DEF Files, FileOf, Ids, MaxFile

LEMMA Least ==
    ASSUME NEW S, S \subseteq Nat, S # {}
    PROVE  Min(S) \in S /\ \A y \in S : Min(S) <= y
<1> DEFINE R == {ss \in Nat \X Nat : ss[1] < ss[2]}
<1>1. IsWellFoundedOn(R, Nat)
  BY NatLessThanWellFounded DEF OpToRel
<1>2. \A x, y \in Nat : y < x => <<y, x>> \in R
  OBVIOUS
<1> HIDE DEF R
<1>3. PICK x \in S : \A y \in S : ~(<<y, x>> \in R)
  BY <1>1, WFMin
<1>4. \A y \in S : x <= y
  <2>1. TAKE y \in S
  <2>2. x \in Nat /\ y \in Nat /\ ~(y < x)
    BY <1>2, <1>3
  <2>3. QED BY <2>2
<1>5. QED BY <1>4 DEF Min

\* The first of some files is one of them, and no other is both.
LEMMA FirstFile ==
    ASSUME NEW S, S \subseteq Files, S # {}
    PROVE  /\ Min(S) \in S /\ \A g \in S : Min(S) <= g
           /\ \A f \in S : (\A g \in S : f <= g) => f = Min(S)
<1>1. S \subseteq Nat
  BY FileNames
<1>2. Min(S) \in S /\ \A g \in S : Min(S) <= g
  BY <1>1, Least
<1>3. ASSUME NEW f \in S, \A g \in S : f <= g
      PROVE  f = Min(S)
  <2>1. f <= Min(S) /\ Min(S) <= f /\ f \in Nat /\ Min(S) \in Nat
    BY <1>1, <1>2, <1>3
  <2>2. QED BY <2>1
<1>4. QED BY <1>2, <1>3

LEMMA Blanks ==
    /\ Absent \in Texts /\ Broken \in Texts
    /\ NoRule \in Rules /\ NoJob \in Jobs /\ NoScan \in Scans
BY FileNames, EmptySeq DEF Absent, Broken, NoRule, NoJob, Job, NoScan, Text, Rule, Texts, Rules, Jobs, Scans

-----------------------------------------------------------------------------
(* What a step does to the calls: one moves on, the others stand still.       *)

OthersStay(c) ==
    \A d \in Callers \ {c} : pc'[d] = pc[d] /\ job'[d] = job[d] /\ scan'[d] = scan[d]
CallsTyped ==
    pc \in [Callers -> Places] /\ job \in [Callers -> Jobs] /\ scan \in [Callers -> Scans]
MovesWith(c, place, call) ==
    /\ pc'[c] = place /\ job'[c] = call /\ scan'[c] = scan[c]
    /\ OthersStay(c) /\ CallsTyped'
MovesTo(c, place) == MovesWith(c, place, job[c])
ScansTo(c, result) ==
    /\ pc'[c] = "scan" /\ job'[c] = job[c] /\ scan'[c] = result
    /\ OthersStay(c) /\ CallsTyped'
Returns(c) ==
    /\ pc'[c] = "idle" /\ job'[c] = NoJob /\ scan'[c] = NoScan
    /\ OthersStay(c) /\ CallsTyped'

LEMMA GotoMoves ==
    ASSUME TypeOK, NEW c \in Callers, NEW place \in Places, Goto(c, place), UNCHANGED <<job, scan>>
    PROVE  MovesTo(c, place)
BY DEF TypeOK, CallsTyped, Goto, MovesTo, MovesWith, OthersStay

LEMMA ReturnReturns ==
    ASSUME TypeOK, NEW c \in Callers, Return(c)
    PROVE  Returns(c)
BY Blanks DEF TypeOK, CallsTyped, Return, Goto, Returns, OthersStay, Places

\* A failed write ends a save and lets an import go on.
LEMMA FailMoves ==
    ASSUME TypeOK, NEW c \in Callers, WriteFails(c)
    PROVE  \/ job[c].op = "save" /\ Returns(c)
           \/ job[c].op # "save" /\ MovesTo(c, "next")
BY GotoMoves, ReturnReturns DEF WriteFails, Places

\* A call begins with its job.
BeginsWith(c, place, call) ==
    /\ pc[c] = "idle" /\ MovesWith(c, place, call)
    /\ calls' = calls + 1
    /\ together' = IF Alone(c) THEN together ELSE "since"

LEMMA BeginMoves ==
    ASSUME TypeOK, NEW c \in Callers, NEW place \in Places, NEW call \in Jobs,
           Call(c), Goto(c, place), job' = [job EXCEPT ![c] = call], UNCHANGED scan
    PROVE  BeginsWith(c, place, call)
BY DEF TypeOK, CallsTyped, Call, At, Goto, BeginsWith, MovesWith, OthersStay

\* The jobs the calls begin with.
EditJob(id, newId) ==
    Job("save", Text(newId, valid[id].text.rule, valid[id].text.rev + 1), valid[id], 0)
NewJob(newId, f) == Job("save", Text(newId, MaxFile + made + 1, 0), NoRule, f)
ImportJob(ids) ==
    [op |-> "import", text |-> Absent, old |-> NoRule, replace |-> 0,
     queue |-> [i \in DOMAIN ids |-> Text(ids[i], MaxFile + made + i, 0)], claimed |-> UserIds]
DeleteJob(id) == Job("delete", Absent, valid[id], 0)
ReloadJob == Job("reload", Absent, NoRule, 0)

LEMMA JobsTyped ==
    ASSUME TypeOK
    PROVE  /\ \A id, newId \in Ids : valid[id].text.rev < MaxRev => EditJob(id, newId) \in Jobs
           /\ \A newId \in Ids, f \in invalid \cup {0} : made < MaxNew => NewJob(newId, f) \in Jobs
           /\ \A ids \in Batches : Len(ids) <= MaxNew - made => ImportJob(ids) \in Jobs
           /\ \A id \in Ids : DeleteJob(id) \in Jobs
           /\ ReloadJob \in Jobs
<1> USE FileNames, Blanks
<1> USE DEF TypeOK, Jobs, Job, Text, UserIds
<1>1. ASSUME NEW id \in Ids, NEW newId \in Ids, valid[id].text.rev < MaxRev
      PROVE  EditJob(id, newId) \in Jobs
  <2>1. valid[id] \in Rules /\ valid[id].text \in Texts
    BY DEF Rules
  <2>2. Text(newId, valid[id].text.rule, valid[id].text.rev + 1) \in Texts
    <3>0. PICK t \in Texts : t = valid[id].text
      BY <2>1
    <3>1. t.rule \in 0 .. MaxFile + MaxNew /\ t.rev \in Nat
      BY DEF Texts
    <3>4. t.rev + 1 \in 0 .. MaxRev + 1
      BY SMTT(20), <1>1, <3>0, <3>1
    <3>2. newId \in 0 .. MaxId
      BY DEF Ids
    <3>3. QED BY <3>0, <3>1, <3>2, <3>4 DEF Texts
  <2>3. QED BY <2>1, <2>2, EmptySeq DEF EditJob
<1>2. ASSUME NEW newId \in Ids, NEW f \in invalid \cup {0}, made < MaxNew
      PROVE  NewJob(newId, f) \in Jobs
  <2>1. Text(newId, MaxFile + made + 1, 0) \in Texts
    BY <1>2 DEF Texts, Ids
  <2>2. f \in Files \cup {0} OBVIOUS
  <2>3. QED BY <2>1, <2>2, EmptySeq DEF NewJob
<1>3. ASSUME NEW ids \in Batches, Len(ids) <= MaxNew - made
      PROVE  ImportJob(ids) \in Jobs
  <2>1. PICK n \in 1 .. 2 : ids \in [1 .. n -> Ids]
    BY DEF Batches
  <2>2. Len(ids) = n /\ DOMAIN ids = 1 .. n /\ ids \in Seq(Ids)
    BY <2>1
  <2>3. \A i \in 1 .. n : Text(ids[i], MaxFile + made + i, 0) \in Texts
    BY SMTT(20), <1>3, <2>1, <2>2 DEF Texts, Ids
  <2>4. [i \in DOMAIN ids |-> Text(ids[i], MaxFile + made + i, 0)] \in Seq(Texts)
    BY <2>2, <2>3
  <2>5. QED BY <2>4 DEF ImportJob
<1>4. \A id \in Ids : DeleteJob(id) \in Jobs
  BY EmptySeq DEF DeleteJob
<1>5. ReloadJob \in Jobs
  BY EmptySeq DEF ReloadJob
<1>6. QED BY <1>1, <1>2, <1>3, <1>4, <1>5

-----------------------------------------------------------------------------
(* What each step does.                                                       *)

LEMMA EditBegins ==
    ASSUME TypeOK, NEW c \in Callers, NEW id \in Ids, NEW newId \in Ids, SaveEdit(c, id, newId)
    PROVE  /\ BeginsWith(c, "write", EditJob(id, newId))
           /\ IsUser(valid[id]) /\ (newId = id \/ ~IsUser(valid[newId]))
           /\ UNCHANGED <<disk, memory, off, copied, failing, crashes, made>>
<1>1. EditJob(id, newId) \in Jobs /\ "write" \in Places
  BY JobsTyped DEF SaveEdit, Places
<1>2. job' = [job EXCEPT ![c] = EditJob(id, newId)]
  BY DEF SaveEdit, Start, EditJob
<1>3. QED BY <1>1, <1>2, BeginMoves DEF SaveEdit, Start

LEMMA NewBegins ==
    ASSUME TypeOK, NEW c \in Callers, NEW newId \in Ids, NEW f \in invalid \cup {0},
           SaveNew(c, newId, f)
    PROVE  /\ BeginsWith(c, "write", NewJob(newId, f))
           /\ ~IsUser(valid[newId]) /\ made < MaxNew /\ made' = made + 1
           /\ UNCHANGED <<disk, memory, off, copied, failing, crashes>>
<1>1. NewJob(newId, f) \in Jobs /\ "write" \in Places
  BY JobsTyped DEF SaveNew, Places
<1>2. job' = [job EXCEPT ![c] = NewJob(newId, f)]
  BY DEF SaveNew, Start, NewJob
<1>3. QED BY <1>1, <1>2, BeginMoves DEF SaveNew, Start

LEMMA ImportBegins ==
    ASSUME TypeOK, NEW c \in Callers, NEW ids \in Batches, Import(c, ids)
    PROVE  /\ BeginsWith(c, "next", ImportJob(ids))
           /\ Len(ids) <= MaxNew - made /\ made' = made + Len(ids)
           /\ UNCHANGED <<disk, memory, off, copied, failing, crashes>>
<1>1. ImportJob(ids) \in Jobs /\ "next" \in Places
  BY JobsTyped DEF Import, Places
<1>2. job' = [job EXCEPT ![c] = ImportJob(ids)]
  BY DEF Import, ImportJob, UserIds
<1>3. QED BY <1>1, <1>2, BeginMoves DEF Import

LEMMA ReloadBegins ==
    ASSUME TypeOK, NEW c \in Callers, Reload(c)
    PROVE  /\ BeginsWith(c, "list", ReloadJob)
           /\ UNCHANGED <<disk, memory, off, copied, made, failing, crashes>>
<1>1. ReloadJob \in Jobs /\ "list" \in Places
  BY JobsTyped DEF Places
<1>2. job' = [job EXCEPT ![c] = ReloadJob]
  BY DEF Reload, ReloadJob
<1>3. QED BY <1>1, <1>2, BeginMoves DEF Reload

LEMMA DeleteBegins ==
    ASSUME TypeOK, NEW c \in Callers, NEW id \in Ids, Delete(c, id)
    PROVE  /\ IsUser(valid[id])
           /\ enabled' = [enabled EXCEPT ![id] = "unset"]
           /\ \/ /\ BeginsWith(c, "unlink", DeleteJob(id)) /\ state' = enabled'
                 /\ off' = off \ {valid[id].text.rule} /\ UNCHANGED failing
              \/ /\ Fault /\ UNCHANGED <<state, pc, job, scan, off>>
                 /\ pc[c] = "idle" /\ calls' = calls + 1
                 /\ together' = IF Alone(c) THEN together ELSE "since"
           /\ UNCHANGED <<files, tmp, valid, invalid, copied, made, crashes>>
<1>1. DeleteJob(id) \in Jobs /\ "unlink" \in Places
  BY JobsTyped DEF Places
<1>2. Job("delete", Absent, valid[id], 0) = DeleteJob(id)
  BY DEF DeleteJob
<1>3. CASE Goto(c, "unlink") /\ job' = [job EXCEPT ![c] = DeleteJob(id)]
           /\ state' = enabled' /\ off' = off \ {valid[id].text.rule} /\ UNCHANGED failing
  BY <1>1, <1>3, BeginMoves DEF Delete
<1>4. CASE Fault /\ UNCHANGED <<state, pc, job, off>>
  BY <1>4 DEF Delete, Call, At
<1>5. QED BY <1>2, <1>3, <1>4 DEF Delete

\* A step of an import: it is over, passes over a claimed name, or writes the next file.
Passes(c) ==
    /\ job[c].queue # <<>> /\ Head(job[c].queue).id \in job[c].claimed
    /\ MovesWith(c, "next", [job[c] EXCEPT !.queue = Tail(@)])
WritesNext(c) ==
    /\ job[c].queue # <<>> /\ Head(job[c].queue).id \notin job[c].claimed
    /\ MovesWith(c, "write", [job[c] EXCEPT !.queue = Tail(@), !.text = Head(job[c].queue)])

LEMMA ImportMoves ==
    ASSUME TypeOK, NEW c \in Callers, ImportNext(c)
    PROVE  /\ pc[c] = "next"
           /\ MovesTo(c, "list") \/ Passes(c) \/ WritesNext(c)
           /\ UNCHANGED <<disk, memory, history, failing, counters>>
<1>0. pc[c] = "next" /\ UNCHANGED <<disk, memory, scan, history, failing, counters>>
  BY DEF ImportNext, At
<1>1. CASE job[c].queue = <<>>
  BY <1>0, <1>1, GotoMoves DEF ImportNext, Places
<1>2. CASE job[c].queue # <<>>
  <2>1. job[c] \in Jobs /\ job[c].queue \in Seq(Texts)
    BY DEF TypeOK, Jobs
  <2>2. Head(job[c].queue) \in Texts /\ Tail(job[c].queue) \in Seq(Texts)
    BY <1>2, <2>1
  <2>3. CASE Head(job[c].queue).id \in job[c].claimed
    <3>1. job' = [job EXCEPT ![c].queue = Tail(@)] /\ UNCHANGED pc
      BY <1>2, <2>3 DEF ImportNext
    <3>2. job'[c] = [job[c] EXCEPT !.queue = Tail(@)] /\ job'[c] \in Jobs
      BY <2>1, <2>2, <3>1 DEF TypeOK, Jobs
    <3>3. job' \in [Callers -> Jobs] /\ \A d \in Callers \ {c} : job'[d] = job[d]
      BY <3>1, <3>2 DEF TypeOK
    <3>4. Passes(c)
      BY <1>0, <1>2, <2>3, <3>1, <3>2, <3>3 DEF Passes, MovesWith, OthersStay, CallsTyped, TypeOK
    <3>5. QED BY <1>0, <3>4
  <2>4. CASE Head(job[c].queue).id \notin job[c].claimed
    <3>1. job' = [job EXCEPT ![c].queue = Tail(@), ![c].text = Head(job[c].queue)] /\ Goto(c, "write")
      BY <1>2, <2>4 DEF ImportNext
    <3>2. job'[c] = [job[c] EXCEPT !.queue = Tail(@), !.text = Head(job[c].queue)]
          /\ job'[c] \in Jobs
      BY <2>1, <2>2, <3>1 DEF TypeOK, Jobs
    <3>3. job' \in [Callers -> Jobs] /\ \A d \in Callers \ {c} : job'[d] = job[d]
      BY <3>1, <3>2 DEF TypeOK
    <3>4. WritesNext(c)
      BY <1>0, <1>2, <2>4, <3>1, <3>2, <3>3
      DEF WritesNext, MovesWith, OthersStay, CallsTyped, TypeOK, Goto, Places
    <3>5. QED BY <1>0, <3>4
  <2>5. QED BY <2>3, <2>4
<1>3. QED BY <1>1, <1>2

Fails(c) ==
    \/ job[c].op = "save" /\ Returns(c)
    \/ job[c].op # "save" /\ MovesTo(c, "next")

LEMMA WriteMoves ==
    ASSUME TypeOK, NEW c \in Callers, WriteTmp(c)
    PROVE  /\ pc[c] = "write"
           /\ \/ /\ tmp' = [tmp EXCEPT ![Target(c)] = job[c].text]
                 /\ MovesTo(c, "install") /\ UNCHANGED failing
              \/ Fault /\ Fails(c) /\ UNCHANGED tmp
           /\ UNCHANGED <<files, state, memory, history, made, calls, crashes>>
BY GotoMoves, FailMoves DEF WriteTmp, At, Fails, Places

Claimed(c) == [job[c] EXCEPT !.claimed = @ \cup {job[c].text.id}]
Installs(c) ==
    /\ tmp[Target(c)] # Absent
    /\ files' = [files EXCEPT ![Target(c)] = tmp[Target(c)]]
    /\ tmp' = [tmp EXCEPT ![Target(c)] = Absent]
    /\ MovesWith(c, AfterInstall(c), Claimed(c))
    /\ copied' = IF LeavesCopy(c) THEN copied \cup {job[c].text.rule} ELSE copied
    /\ UNCHANGED failing

LEMMA InstallMoves ==
    ASSUME TypeOK, NEW c \in Callers, JobFits(c), Install(c)
    PROVE  /\ pc[c] = "install"
           /\ \/ Installs(c)
              \/ tmp[Target(c)] = Absent /\ Fails(c) /\ UNCHANGED <<files, tmp, copied, failing>>
              \/ Fault /\ Fails(c) /\ UNCHANGED <<files, tmp, copied>>
           /\ UNCHANGED <<state, memory, off, together, made, calls, crashes>>
<1>1. pc[c] = "install" /\ job[c] \in Jobs /\ job[c].text.id \in Ids
  BY DEF Install, At, TypeOK, JobFits, Edits
<1>2. Claimed(c) \in Jobs
  BY <1>1 DEF Claimed, Jobs
<1>3. AfterInstall(c) \in Places
  BY DEF AfterInstall, Places
<1>4. ASSUME job' = [job EXCEPT ![c].claimed = @ \cup {job[c].text.id}],
             Goto(c, AfterInstall(c)), UNCHANGED scan
      PROVE  MovesWith(c, AfterInstall(c), Claimed(c))
  <2>1. job'[c] = Claimed(c) /\ \A d \in Callers \ {c} : job'[d] = job[d]
    BY <1>4 DEF Claimed, TypeOK
  <2>2. job' \in [Callers -> Jobs]
    BY <1>2, <1>4, <2>1 DEF TypeOK
  <2>3. QED BY <1>3, <1>4, <2>1, <2>2 DEF MovesWith, OthersStay, CallsTyped, TypeOK, Goto
<1>5. QED BY <1>1, <1>4, FailMoves DEF Install, Installs, Fails

LEMMA RetireMoves ==
    ASSUME TypeOK, NEW c \in Callers, Retire(c)
    PROVE  /\ pc[c] = "retire"
           /\ \/ /\ files' = [files EXCEPT ![job[c].old.file] = Absent]
                 /\ MovesTo(c, "toggle") /\ UNCHANGED failing
              \/ Fault /\ Returns(c) /\ UNCHANGED files
           /\ UNCHANGED <<tmp, state, memory, history, made, calls, crashes>>
BY GotoMoves, ReturnReturns DEF Retire, At, Places

LEMMA ToggleMoves ==
    ASSUME TypeOK, NEW c \in Callers, MoveToggle(c)
    PROVE  /\ pc[c] = "toggle"
           /\ LET old == job[c].old.text.id IN
                 enabled' = IF enabled[old] = "unset" THEN enabled
                            ELSE [enabled EXCEPT ![old] = "unset",
                                      ![job[c].text.id] = IF job[c].old.on THEN "on" ELSE "off"]
           /\ \/ state' = enabled' /\ MovesTo(c, "list") /\ UNCHANGED failing
              \/ Fault /\ Returns(c) /\ UNCHANGED state
           /\ UNCHANGED <<files, tmp, valid, invalid, history, made, calls, crashes>>
BY GotoMoves, ReturnReturns DEF MoveToggle, At, Places

LEMMA ReplaceMoves ==
    ASSUME TypeOK, NEW c \in Callers, Replace(c)
    PROVE  /\ pc[c] = "replace"
           /\ \/ MovesTo(c, "list") /\ UNCHANGED <<files, failing>>
              \/ files[job[c].replace] = Absent /\ Returns(c) /\ UNCHANGED <<files, failing>>
              \/ /\ job[c].replace # Target(c)
                 /\ files' = [files EXCEPT ![job[c].replace] = Absent]
                 /\ MovesTo(c, "list") /\ UNCHANGED failing
              \/ Fault /\ Returns(c) /\ UNCHANGED files
           /\ UNCHANGED <<tmp, state, memory, history, made, calls, crashes>>
BY GotoMoves, ReturnReturns DEF Replace, At, Places

LEMMA UnlinkMoves ==
    ASSUME TypeOK, NEW c \in Callers, Unlink(c)
    PROVE  /\ pc[c] = "unlink"
           /\ \/ /\ files' = [files EXCEPT ![job[c].old.file] = Absent]
                 /\ MovesTo(c, "list") /\ UNCHANGED failing
              \/ Fault /\ Returns(c) /\ UNCHANGED files
           /\ UNCHANGED <<tmp, state, memory, history, made, calls, crashes>>
BY GotoMoves, ReturnReturns DEF Unlink, At, Places

FirstScan == [left |-> OnDisk, valid |-> Builtins(enabled), invalid |-> {}]

LEMMA BuiltinsTyped ==
    ASSUME NEW toggles
    PROVE  Builtins(toggles) \in [Ids -> Rules]
<1>1. \A id \in Ids : Text(id, 0, 0) \in Texts
  BY FileNames DEF Text, Texts, Ids
<1>2. \A id \in Ids : Rule(Text(id, 0, 0), 0, EnabledFor(toggles, id)) \in Rules
  BY <1>1 DEF Rule, Rules, EnabledFor
<1>3. QED BY <1>2, Blanks DEF Builtins

LEMMA ListMoves ==
    ASSUME TypeOK, NEW c \in Callers, ListDir(c)
    PROVE  /\ pc[c] = "list"
           /\ \/ /\ ScansTo(c, FirstScan)
                 /\ together' = IF Alone(c) /\ together = "since" THEN "before" ELSE together
                 /\ faulted' = (faulted /\ ~Alone(c)) /\ UNCHANGED faults
              \/ Fault /\ Returns(c) /\ UNCHANGED together
           /\ UNCHANGED <<disk, memory, off, copied, made, calls, crashes>>
<1>1. FirstScan \in Scans
  BY BuiltinsTyped DEF FirstScan, Scans, OnDisk
<1>2. ASSUME scan' = [scan EXCEPT ![c] = FirstScan], Goto(c, "scan"), UNCHANGED job
      PROVE  ScansTo(c, FirstScan)
  BY <1>1, <1>2 DEF TypeOK, ScansTo, Goto, OthersStay, CallsTyped, Places
<1>3. QED BY <1>2, ReturnReturns DEF ListDir, At, FirstScan, OnDisk

\* A file's turn in a scan.
ReadFile(c) == Min(scan[c].left)
FileFits(c) ==
    IsRule(files[ReadFile(c)]) /\ ~IsUser(scan[c].valid[files[ReadFile(c)].id])
ReadRule(c) == Rule(files[ReadFile(c)], ReadFile(c), EnabledFor(enabled, files[ReadFile(c)].id))
AfterFile(c) ==
    [left    |-> scan[c].left \ {ReadFile(c)},
     valid   |-> IF FileFits(c) THEN [scan[c].valid EXCEPT ![files[ReadFile(c)].id] = ReadRule(c)]
                                ELSE scan[c].valid,
     invalid |-> IF FileFits(c) THEN scan[c].invalid ELSE scan[c].invalid \cup {ReadFile(c)}]

LEMMA ReadFileFacts ==
    ASSUME TypeOK, NEW c \in Callers, scan[c].left # {}
    PROVE  /\ ReadFile(c) \in scan[c].left /\ ReadFile(c) \in Files
           /\ \A g \in scan[c].left : ReadFile(c) <= g
           /\ IsRule(files[ReadFile(c)]) => files[ReadFile(c)].id \in Ids
           /\ ReadRule(c) \in Rules
           /\ files[ReadFile(c)] \in Texts
<1>1. scan[c].left \subseteq Files
  BY DEF TypeOK, Scans
<1>2. ReadFile(c) \in scan[c].left /\ ReadFile(c) \in Files /\ \A g \in scan[c].left : ReadFile(c) <= g
  BY <1>1, FirstFile DEF ReadFile
<1>3. files[ReadFile(c)] \in Texts
  BY <1>2 DEF TypeOK
<1>4. IsRule(files[ReadFile(c)]) => files[ReadFile(c)].id \in Ids
  BY <1>3, FileNames DEF IsRule, Texts, Ids
<1>5. ReadRule(c) \in Rules
  BY <1>2, <1>3 DEF ReadRule, Rule, Rules, EnabledFor
<1>6. QED BY <1>2, <1>3, <1>4, <1>5

LEMMA ScanMoves ==
    ASSUME TypeOK, NEW c \in Callers, ScanFile(c)
    PROVE  /\ pc[c] = "scan" /\ scan[c].left # {}
           /\ ScansTo(c, AfterFile(c))
           /\ UNCHANGED <<disk, memory, history, failing, counters>>
<1>1. pc[c] = "scan" /\ scan[c].left # {} /\ UNCHANGED <<disk, memory, pc, job, history, failing, counters>>
  BY DEF ScanFile, At
<1>2. scan[c] \in Scans
  BY DEF TypeOK
<1>3. AfterFile(c) \in Scans
  BY <1>1, <1>2, ReadFileFacts DEF AfterFile, Scans, FileFits
<1>4. scan'[c] = AfterFile(c) /\ \A d \in Callers \ {c} : scan'[d] = scan[d]
  BY <1>2 DEF ScanFile, AfterFile, FileFits, ReadFile, ReadRule, Scans, TypeOK
<1>5. scan' \in [Callers -> Scans]
  BY <1>3, <1>4 DEF TypeOK, ScanFile
<1>6. QED BY <1>1, <1>4, <1>5 DEF ScansTo, OthersStay, CallsTyped, TypeOK

LEMMA InstallScanMoves ==
    ASSUME TypeOK, NEW c \in Callers, InstallScan(c)
    PROVE  /\ pc[c] = "scan" /\ scan[c].left = {}
           /\ valid' = scan[c].valid /\ invalid' = scan[c].invalid
           /\ \/ job[c].op = "save" /\ MovesTo(c, "found")
              \/ job[c].op # "save" /\ Returns(c)
           /\ UNCHANGED <<disk, enabled, history, failing, counters>>
BY GotoMoves, ReturnReturns DEF InstallScan, At, Places

LEMMA FoundMoves ==
    ASSUME TypeOK, NEW c \in Callers, SaveReturns(c)
    PROVE  /\ pc[c] = "found" /\ Returns(c)
           /\ UNCHANGED <<disk, memory, history, failing, counters>>
BY ReturnReturns DEF SaveReturns, At

LEMMA CrashMoves ==
    ASSUME TypeOK, Crash
    PROVE  /\ \A c \in Callers : pc'[c] = "idle" /\ job'[c] = NoJob /\ scan'[c] = NoScan
           /\ CallsTyped'
BY Blanks DEF Crash, CallsTyped, Places

-----------------------------------------------------------------------------
(* The shape of the registry and of its calls is kept.                        *)

LibraryTyped ==
    /\ files \in [Files -> Texts] /\ tmp \in [Files -> Texts]
    /\ state \in Toggles /\ enabled \in Toggles
    /\ valid \in [Ids -> Rules] /\ invalid \subseteq Files
HistoryTyped ==
    /\ off \subseteq 0 .. MaxFile + MaxNew /\ copied \subseteq 0 .. MaxFile + MaxNew
    /\ together \in {"never", "before", "since"} /\ faulted \in BOOLEAN
    /\ made \in 0 .. MaxNew /\ calls \in Nat /\ faults \in Nat /\ crashes \in Nat

LEMMA LoadedTyped ==
    ASSUME NEW dir \in [Files -> Texts], NEW toggles
    PROVE  /\ Loaded(dir, toggles) \in [Ids -> Rules]
           /\ Rejected(dir) \subseteq Files
<1>1. ASSUME NEW id \in Ids, Claims(dir, id) # {}
      PROVE  LET f == Min(Claims(dir, id)) IN Rule(dir[f], f, EnabledFor(toggles, id)) \in Rules
  <2>1. Min(Claims(dir, id)) \in Files
    BY <1>1, FirstFile DEF Claims
  <2>2. QED BY <2>1 DEF Rule, Rules, EnabledFor
<1>2. QED BY <1>1, BuiltinsTyped DEF Loaded, Rejected

LEMMA LibraryStep ==
    ASSUME TypeOK, \A c \in Callers : JobFits(c), [Next]_vars
    PROVE  LibraryTyped'
<1>0. LibraryTyped
  BY DEF TypeOK, LibraryTyped
<1> USE <1>0
<1>1. ASSUME Crash
      PROVE  LibraryTyped'
  BY <1>1, LoadedTyped DEF Crash, LibraryTyped, disk, memory
<1>2. ASSUME NEW c \in Callers, NEW id \in Ids, NEW on \in BOOLEAN, SetEnabled(c, id, on)
      PROVE  LibraryTyped'
  <2>1. valid[id] \in Rules
    BY DEF LibraryTyped, Rules
  <2>2. [valid[id] EXCEPT !.on = on] \in Rules
    BY <2>1 DEF Rules
  <2>3. valid' \in [Ids -> Rules]
    BY <1>2, <2>2 DEF SetEnabled, LibraryTyped
  <2>4. enabled' \in Toggles /\ state' \in Toggles
    BY <1>2 DEF SetEnabled, LibraryTyped, Toggles
  <2>5. QED BY <1>2, <2>3, <2>4 DEF SetEnabled, LibraryTyped, disk, memory
<1>3. ASSUME NEW c \in Callers, NEW id \in Ids, NEW newId \in Ids, SaveEdit(c, id, newId)
      PROVE  LibraryTyped'
  BY <1>3, EditBegins DEF LibraryTyped, disk, memory
<1>4. ASSUME NEW c \in Callers, NEW newId \in Ids, NEW f \in invalid \cup {0}, SaveNew(c, newId, f)
      PROVE  LibraryTyped'
  BY <1>4, NewBegins DEF LibraryTyped, disk, memory
<1>5. ASSUME NEW c \in Callers, NEW ids \in Batches, Import(c, ids)
      PROVE  LibraryTyped'
  BY <1>5, ImportBegins DEF LibraryTyped, disk, memory
<1>6. ASSUME NEW c \in Callers, Reload(c)
      PROVE  LibraryTyped'
  BY <1>6, ReloadBegins DEF LibraryTyped, disk, memory
<1>7. ASSUME NEW c \in Callers, NEW id \in Ids, Delete(c, id)
      PROVE  LibraryTyped'
  BY <1>7, DeleteBegins DEF Toggles, LibraryTyped, disk, memory
<1>8. ASSUME NEW c \in Callers, ImportNext(c)
      PROVE  LibraryTyped'
  BY <1>8, ImportMoves DEF LibraryTyped, disk, memory
<1>9. ASSUME NEW c \in Callers, WriteTmp(c)
      PROVE  LibraryTyped'
  <2>1. job[c].text \in Texts
    BY DEF TypeOK, Jobs
  <2>2. QED BY <1>9, <2>1, WriteMoves DEF LibraryTyped, disk, memory
<1>10. ASSUME NEW c \in Callers, Install(c)
      PROVE  LibraryTyped'
  <2>1. Target(c) \in Files
    BY <1>10, InstallMoves, FileNames DEF Target, JobFits, Edits
  <2>2. QED BY <1>10, <2>1, InstallMoves, Blanks DEF Installs, LibraryTyped, disk, memory
<1>11. ASSUME NEW c \in Callers, Retire(c)
      PROVE  LibraryTyped'
  BY <1>11, RetireMoves, Blanks DEF LibraryTyped, disk, memory
<1>12. ASSUME NEW c \in Callers, MoveToggle(c)
      PROVE  LibraryTyped'
  <2>1. enabled' \in Toggles
    BY <1>12, ToggleMoves DEF LibraryTyped, Toggles
  <2>2. QED BY <1>12, <2>1, ToggleMoves DEF LibraryTyped, disk, memory
<1>13. ASSUME NEW c \in Callers, Replace(c)
      PROVE  LibraryTyped'
  BY <1>13, ReplaceMoves, Blanks DEF LibraryTyped, disk, memory
<1>14. ASSUME NEW c \in Callers, Unlink(c)
      PROVE  LibraryTyped'
  BY <1>14, UnlinkMoves, Blanks DEF LibraryTyped, disk, memory
<1>15. ASSUME NEW c \in Callers, ListDir(c)
      PROVE  LibraryTyped'
  BY <1>15, ListMoves DEF LibraryTyped, disk, memory
<1>16. ASSUME NEW c \in Callers, ScanFile(c)
      PROVE  LibraryTyped'
  BY <1>16, ScanMoves DEF LibraryTyped, disk, memory
<1>17. ASSUME NEW c \in Callers, InstallScan(c)
      PROVE  LibraryTyped'
  <2>1. scan[c].valid \in [Ids -> Rules] /\ scan[c].invalid \subseteq Files
    BY DEF TypeOK, Scans
  <2>2. QED BY <1>17, <2>1, InstallScanMoves DEF LibraryTyped, disk, memory
<1>18. ASSUME NEW c \in Callers, SaveReturns(c)
      PROVE  LibraryTyped'
  BY <1>18, FoundMoves DEF LibraryTyped, disk, memory
<1>19. CASE UNCHANGED vars
  BY <1>19 DEF vars, LibraryTyped, disk, memory
<1>20. QED
  BY <1>1, <1>2, <1>3, <1>4, <1>5, <1>6, <1>7, <1>8, <1>9, <1>10, <1>11, <1>12,
     <1>13, <1>14, <1>15, <1>16, <1>17, <1>18, <1>19
  DEF Next, Begin, Continue

LEMMA FaultTyped ==
    ASSUME HistoryTyped, Fault \/ UNCHANGED failing
    PROVE  faults' \in Nat /\ faulted' \in BOOLEAN
<1>1. faults' \in Nat
  BY DEF HistoryTyped, Fault, failing
<1>2. faulted' \in BOOLEAN
  BY Zenon DEF HistoryTyped, Fault, failing
<1>3. QED BY <1>1, <1>2

LEMMA HistoryStep ==
    ASSUME TypeOK, \A c \in Callers : JobFits(c), [Next]_vars
    PROVE  HistoryTyped'
<1>0. HistoryTyped /\ MaxFile \in Nat /\ MaxNew \in Nat
  BY FileNames DEF TypeOK, HistoryTyped
<1> USE <1>0
<1>1. ASSUME Crash
      PROVE  HistoryTyped'
  <2>1. faulted' = FALSE /\ UNCHANGED <<off, copied, made, calls, faults>>
    BY <1>1 DEF Crash
  <2>2. together' \in {"never", "before", "since"} /\ crashes' \in Nat
    BY <1>1 DEF Crash, HistoryTyped
  <2>3. QED BY <2>1, <2>2 DEF HistoryTyped
<1>2. ASSUME NEW c \in Callers, NEW id \in Ids, NEW on \in BOOLEAN, SetEnabled(c, id, on)
      PROVE  HistoryTyped'
  <2>1. faults' \in Nat /\ faulted' \in BOOLEAN
    BY <1>2, FaultTyped DEF SetEnabled
  <2>2. calls' \in Nat /\ together' \in {"never", "before", "since"}
    BY <1>2 DEF HistoryTyped, SetEnabled, Call
  <2>3. off' \subseteq 0 .. MaxFile + MaxNew
    <3>1. valid[id].text.rule \in 0 .. MaxFile + MaxNew
      BY DEF TypeOK, Rules, Texts
    <3>2. QED BY <1>2, <3>1 DEF HistoryTyped, SetEnabled
  <2>4. UNCHANGED <<copied, made, crashes>>
    BY <1>2 DEF SetEnabled
  <2>5. QED BY <2>1, <2>2, <2>3, <2>4 DEF HistoryTyped
<1>3. ASSUME NEW c \in Callers, NEW id \in Ids, NEW newId \in Ids, SaveEdit(c, id, newId)
      PROVE  HistoryTyped'
  <2>1. UNCHANGED <<off, copied, faults, faulted, crashes>>
    BY <1>3, EditBegins DEF failing
  <2>2. calls' \in Nat /\ together' \in {"never", "before", "since"}
    BY <1>3, EditBegins DEF BeginsWith, HistoryTyped
  <2>3. made' \in 0 .. MaxNew
    BY <1>3, EditBegins DEF HistoryTyped
  <2>4. QED BY <2>1, <2>2, <2>3 DEF HistoryTyped
<1>4. ASSUME NEW c \in Callers, NEW newId \in Ids, NEW f \in invalid \cup {0}, SaveNew(c, newId, f)
      PROVE  HistoryTyped'
  <2>1. UNCHANGED <<off, copied, faults, faulted, crashes>>
    BY <1>4, NewBegins DEF failing
  <2>2. calls' \in Nat /\ together' \in {"never", "before", "since"}
    BY <1>4, NewBegins DEF BeginsWith, HistoryTyped
  <2>3. made' \in 0 .. MaxNew
    BY <1>4, NewBegins DEF HistoryTyped
  <2>4. QED BY <2>1, <2>2, <2>3 DEF HistoryTyped
<1>5. ASSUME NEW c \in Callers, NEW ids \in Batches, Import(c, ids)
      PROVE  HistoryTyped'
  <2>1. UNCHANGED <<off, copied, faults, faulted, crashes>>
    BY <1>5, ImportBegins DEF failing
  <2>2. calls' \in Nat /\ together' \in {"never", "before", "since"}
    BY <1>5, ImportBegins DEF BeginsWith, HistoryTyped
  <2>3. made' \in 0 .. MaxNew
    <3>1. Len(ids) \in Nat
      BY DEF Batches
    <3>2. QED BY <1>5, <3>1, ImportBegins DEF HistoryTyped
  <2>4. QED BY <2>1, <2>2, <2>3 DEF HistoryTyped
<1>6. ASSUME NEW c \in Callers, Reload(c)
      PROVE  HistoryTyped'
  <2>1. UNCHANGED <<off, copied, faults, faulted, crashes>>
    BY <1>6, ReloadBegins DEF failing
  <2>2. calls' \in Nat /\ together' \in {"never", "before", "since"}
    BY <1>6, ReloadBegins DEF BeginsWith, HistoryTyped
  <2>3. made' \in 0 .. MaxNew
    BY <1>6, ReloadBegins DEF HistoryTyped
  <2>4. QED BY <2>1, <2>2, <2>3 DEF HistoryTyped
<1>7. ASSUME NEW c \in Callers, NEW id \in Ids, Delete(c, id)
      PROVE  HistoryTyped'
  <2>1. faults' \in Nat /\ faulted' \in BOOLEAN
    BY <1>7, DeleteBegins, FaultTyped
  <2>2. calls' \in Nat /\ together' \in {"never", "before", "since"}
    BY <1>7, DeleteBegins DEF HistoryTyped, BeginsWith
  <2>3. off' \subseteq 0 .. MaxFile + MaxNew
    <3>1. valid[id].text.rule \in 0 .. MaxFile + MaxNew
      BY DEF TypeOK, Rules, Texts
    <3>2. QED BY <1>7, <3>1, DeleteBegins DEF HistoryTyped
  <2>4. UNCHANGED <<copied, made, crashes>>
    BY <1>7, DeleteBegins
  <2>5. QED BY <2>1, <2>2, <2>3, <2>4 DEF HistoryTyped
<1>8. ASSUME NEW c \in Callers, ImportNext(c)
      PROVE  HistoryTyped'
  BY <1>8, ImportMoves DEF Fault, HistoryTyped, history, failing, counters
<1>9. ASSUME NEW c \in Callers, WriteTmp(c)
      PROVE  HistoryTyped'
  <2>1. faults' \in Nat /\ faulted' \in BOOLEAN
    BY <1>9, WriteMoves, FaultTyped
  <2>2. UNCHANGED <<off, copied, together, made, calls, crashes>>
    BY <1>9, WriteMoves DEF history
  <2>3. QED BY <2>1, <2>2 DEF HistoryTyped
<1>10. ASSUME NEW c \in Callers, Install(c)
      PROVE  HistoryTyped'
  <2>1. faults' \in Nat /\ faulted' \in BOOLEAN
    BY <1>10, InstallMoves, FaultTyped DEF Installs
  <2>2. job[c].text.rule \in 0 .. MaxFile + MaxNew
    BY DEF TypeOK, Jobs, Texts
  <2>3. copied' \subseteq 0 .. MaxFile + MaxNew
    BY <1>10, <2>2, InstallMoves DEF HistoryTyped, Installs
  <2>4. UNCHANGED <<off, together, made, calls, crashes>>
    BY <1>10, InstallMoves
  <2>5. QED BY <2>1, <2>3, <2>4 DEF HistoryTyped
<1>11. ASSUME NEW c \in Callers, Retire(c)
      PROVE  HistoryTyped'
  <2>1. faults' \in Nat /\ faulted' \in BOOLEAN
    BY <1>11, RetireMoves, FaultTyped
  <2>2. UNCHANGED <<off, copied, together, made, calls, crashes>>
    BY <1>11, RetireMoves DEF history
  <2>3. QED BY <2>1, <2>2 DEF HistoryTyped
<1>12. ASSUME NEW c \in Callers, MoveToggle(c)
      PROVE  HistoryTyped'
  <2>1. faults' \in Nat /\ faulted' \in BOOLEAN
    BY <1>12, ToggleMoves, FaultTyped
  <2>2. UNCHANGED <<off, copied, together, made, calls, crashes>>
    BY <1>12, ToggleMoves DEF history
  <2>3. QED BY <2>1, <2>2 DEF HistoryTyped
<1>13. ASSUME NEW c \in Callers, Replace(c)
      PROVE  HistoryTyped'
  <2>1. faults' \in Nat /\ faulted' \in BOOLEAN
    BY <1>13, ReplaceMoves, FaultTyped
  <2>2. UNCHANGED <<off, copied, together, made, calls, crashes>>
    BY <1>13, ReplaceMoves DEF history
  <2>3. QED BY <2>1, <2>2 DEF HistoryTyped
<1>14. ASSUME NEW c \in Callers, Unlink(c)
      PROVE  HistoryTyped'
  <2>1. faults' \in Nat /\ faulted' \in BOOLEAN
    BY <1>14, UnlinkMoves, FaultTyped
  <2>2. UNCHANGED <<off, copied, together, made, calls, crashes>>
    BY <1>14, UnlinkMoves DEF history
  <2>3. QED BY <2>1, <2>2 DEF HistoryTyped
<1>15. ASSUME NEW c \in Callers, ListDir(c)
      PROVE  HistoryTyped'
  <2>1. together' \in {"never", "before", "since"}
    BY <1>15, ListMoves DEF HistoryTyped, history
  <2>4. faults' \in Nat /\ faulted' \in BOOLEAN
    <3>1. CASE Fault
      BY <3>1, FaultTyped
    <3>2. CASE faulted' = (faulted /\ ~Alone(c)) /\ UNCHANGED faults
      <4>1. faulted' \in BOOLEAN
        BY <3>2, Zenon
      <4>2. QED BY <3>2, <4>1 DEF HistoryTyped
    <3>3. QED BY <1>15, <3>1, <3>2, ListMoves
  <2>2. UNCHANGED <<off, copied, made, calls, crashes>>
    BY <1>15, ListMoves
  <2>3. QED BY <2>1, <2>2, <2>4 DEF HistoryTyped
<1>16. ASSUME NEW c \in Callers, ScanFile(c)
      PROVE  HistoryTyped'
  BY <1>16, ScanMoves DEF Fault, HistoryTyped, history, failing, counters
<1>17. ASSUME NEW c \in Callers, InstallScan(c)
      PROVE  HistoryTyped'
  BY <1>17, InstallScanMoves DEF Fault, HistoryTyped, history, failing, counters
<1>18. ASSUME NEW c \in Callers, SaveReturns(c)
      PROVE  HistoryTyped'
  BY <1>18, FoundMoves DEF Fault, HistoryTyped, history, failing, counters
<1>19. CASE UNCHANGED vars
  BY <1>19 DEF vars, HistoryTyped, history, failing, counters
<1>20. QED
  BY <1>1, <1>2, <1>3, <1>4, <1>5, <1>6, <1>7, <1>8, <1>9, <1>10, <1>11, <1>12,
     <1>13, <1>14, <1>15, <1>16, <1>17, <1>18, <1>19
  DEF Next, Begin, Continue

LEMMA CallsStep ==
    ASSUME TypeOK, \A c \in Callers : JobFits(c), [Next]_vars
    PROVE  CallsTyped'
<1>1. ASSUME Crash
      PROVE  CallsTyped'
  BY <1>1, CrashMoves
<1>2. ASSUME NEW c \in Callers, NEW id \in Ids, NEW on \in BOOLEAN, SetEnabled(c, id, on)
      PROVE  CallsTyped'
  BY <1>2 DEF SetEnabled, CallsTyped, TypeOK
<1>3. ASSUME NEW c \in Callers, NEW id \in Ids, NEW newId \in Ids, SaveEdit(c, id, newId)
      PROVE  CallsTyped'
  BY <1>3, EditBegins DEF BeginsWith, MovesWith
<1>4. ASSUME NEW c \in Callers, NEW newId \in Ids, NEW f \in invalid \cup {0}, SaveNew(c, newId, f)
      PROVE  CallsTyped'
  BY <1>4, NewBegins DEF BeginsWith, MovesWith
<1>5. ASSUME NEW c \in Callers, NEW ids \in Batches, Import(c, ids)
      PROVE  CallsTyped'
  BY <1>5, ImportBegins DEF BeginsWith, MovesWith
<1>6. ASSUME NEW c \in Callers, Reload(c)
      PROVE  CallsTyped'
  BY <1>6, ReloadBegins DEF BeginsWith, MovesWith
<1>7. ASSUME NEW c \in Callers, NEW id \in Ids, Delete(c, id)
      PROVE  CallsTyped'
  BY <1>7, DeleteBegins DEF BeginsWith, MovesWith, CallsTyped, TypeOK
<1>8. ASSUME NEW c \in Callers, ImportNext(c)
      PROVE  CallsTyped'
  <2>1. CASE MovesTo(c, "list")
    BY <2>1 DEF MovesTo, MovesWith
  <2>2. CASE Passes(c)
    BY <2>2 DEF Passes, MovesWith
  <2>3. CASE WritesNext(c)
    BY <2>3 DEF WritesNext, MovesWith
  <2>4. QED BY <1>8, <2>1, <2>2, <2>3, ImportMoves
<1>9. ASSUME NEW c \in Callers, WriteTmp(c)
      PROVE  CallsTyped'
  BY <1>9, WriteMoves DEF Fails, Returns, MovesTo, MovesWith, Installs
<1>10. ASSUME NEW c \in Callers, Install(c)
      PROVE  CallsTyped'
  BY <1>10, InstallMoves DEF Fails, Returns, MovesTo, MovesWith, Installs
<1>11. ASSUME NEW c \in Callers, Retire(c)
      PROVE  CallsTyped'
  BY <1>11, RetireMoves DEF Returns, MovesTo, MovesWith
<1>12. ASSUME NEW c \in Callers, MoveToggle(c)
      PROVE  CallsTyped'
  BY <1>12, ToggleMoves DEF Returns, MovesTo, MovesWith
<1>13. ASSUME NEW c \in Callers, Replace(c)
      PROVE  CallsTyped'
  BY <1>13, ReplaceMoves DEF Returns, MovesTo, MovesWith
<1>14. ASSUME NEW c \in Callers, Unlink(c)
      PROVE  CallsTyped'
  BY <1>14, UnlinkMoves DEF Returns, MovesTo, MovesWith
<1>15. ASSUME NEW c \in Callers, ListDir(c)
      PROVE  CallsTyped'
  BY <1>15, ListMoves DEF ScansTo, Returns
<1>16. ASSUME NEW c \in Callers, ScanFile(c)
      PROVE  CallsTyped'
  BY <1>16, ScanMoves DEF ScansTo
<1>17. ASSUME NEW c \in Callers, InstallScan(c)
      PROVE  CallsTyped'
  BY <1>17, InstallScanMoves DEF Returns, MovesTo, MovesWith
<1>18. ASSUME NEW c \in Callers, SaveReturns(c)
      PROVE  CallsTyped'
  BY <1>18, FoundMoves DEF Returns, MovesTo, MovesWith
<1>19. CASE UNCHANGED vars
  BY <1>19 DEF vars, CallsTyped, TypeOK
<1>20. QED
  BY <1>1, <1>2, <1>3, <1>4, <1>5, <1>6, <1>7, <1>8, <1>9, <1>10, <1>11, <1>12,
     <1>13, <1>14, <1>15, <1>16, <1>17, <1>18, <1>19
  DEF Next, Begin, Continue

LEMMA TypeStep ==
    ASSUME TypeOK, \A c \in Callers : JobFits(c), [Next]_vars
    PROVE  TypeOK'
BY LibraryStep, HistoryStep, CallsStep DEF LibraryTyped, HistoryTyped, CallsTyped, TypeOK

-----------------------------------------------------------------------------
(* What is loaded, and what a scan has found so far, is well formed.          *)

LEMMA LoadedWell ==
    ASSUME NEW dir \in [Files -> Texts], NEW toggles
    PROVE  WellLoaded(Loaded(dir, toggles), Rejected(dir))
<1> DEFINE rules == Loaded(dir, toggles)
<1>1. ASSUME NEW id \in Ids, IsUser(rules[id])
      PROVE  /\ rules[id].file \in Claims(dir, id)
             /\ \A g \in Claims(dir, id) : rules[id].file <= g
             /\ rules[id].text = dir[rules[id].file]
  <2>1. Claims(dir, id) # {} /\ Claims(dir, id) \subseteq Files
    BY <1>1 DEF Loaded, Builtins, NoRule, Rule, IsUser, Claims
  <2>2. QED BY <2>1, FirstFile DEF Loaded, Rule
<1>2. \A id \in Ids : rules[id] # NoRule /\ ~IsUser(rules[id]) => rules[id].text.id = id
  <2>1. TAKE id \in Ids
  <2>2. ASSUME Claims(dir, id) # {}
        PROVE  IsUser(rules[id])
    <3>1. Min(Claims(dir, id)) \in Files
      BY <2>2, FirstFile DEF Claims
    <3>2. QED BY <2>2, <3>1, FileNames DEF Loaded, Rule, IsUser
  <2>3. QED BY <2>2 DEF Loaded, Builtins, Rule, Text, IsUser
<1>3. 0 \notin Rejected(dir)
  BY FileNames DEF Rejected
<1>4. ASSUME NEW id \in Ids, rules[id].file \in Rejected(dir)
      PROVE  FALSE
  <2>1. IsUser(rules[id])
    BY <1>3, <1>4 DEF IsUser
  <2>2. PICK f \in Files : f = rules[id].file
    BY <1>4 DEF Rejected
  <2>3. dir[f].id = id /\ id # 0 /\ \A g \in Claims(dir, id) : f <= g
    BY <1>1, <2>1, <2>2 DEF Claims, Ids
  <2>4. PICK g \in Claims(dir, id) : g < f
    BY <1>4, <2>2, <2>3 DEF Rejected, IsRule
  <2>5. g \in Nat /\ f \in Nat /\ f <= g
    BY <2>3, FileNames DEF Claims
  <2>6. QED BY <2>4, <2>5
<1>5. \A id \in Ids : rules[id] # NoRule => rules[id].text.id = id
  BY <1>1, <1>2 DEF Claims
<1>6. \A i, j \in Ids : IsUser(rules[i]) /\ rules[i].file = rules[j].file => i = j
  BY <1>1 DEF Claims, IsUser
<1>7. QED BY <1>4, <1>5, <1>6 DEF WellLoaded

LEMMA BlankWell ==
    /\ WellScanned(NoScan)
    /\ TypeOK => WellScanned(FirstScan)
<1>1. \A id \in Ids : Builtins(enabled)[id].file = 0
  BY DEF Builtins, Rule, NoRule
<1>2. \A id \in Ids : Builtins(enabled)[id] # NoRule => Builtins(enabled)[id].text.id = id
  BY DEF Builtins, Rule, Text
<1>3. 0 \notin OnDisk
  BY FileNames DEF OnDisk
<1>4. WellScanned(FirstScan)
  BY <1>1, <1>2, <1>3 DEF FirstScan, WellScanned, WellLoaded, IsUser
<1>5. WellScanned(NoScan)
  BY DEF NoScan, WellScanned, WellLoaded, IsUser, NoRule, Rule
<1>6. QED BY <1>4, <1>5

LEMMA AfterFileWell ==
    ASSUME TypeOK, NEW c \in Callers, scan[c].left # {}, WellScanned(scan[c])
    PROVE  WellScanned(AfterFile(c))
<1> DEFINE f == ReadFile(c)
           s == scan[c]
           t == AfterFile(c)
<1>1. f \in s.left /\ f \in Files /\ s \in Scans /\ f # 0
  BY ReadFileFacts, FileNames DEF TypeOK
<1>2. t.left = s.left \ {f}
  BY DEF AfterFile
<1>3. CASE ~FileFits(c)
  BY <1>1, <1>2, <1>3 DEF AfterFile, WellScanned, WellLoaded
<1>4. CASE FileFits(c)
  <2>1. files[f].id \in Ids /\ ReadRule(c).text = files[f] /\ ReadRule(c).file = f
    BY <1>1, <1>4, ReadFileFacts DEF FileFits, ReadRule, Rule
  <2>2. t.invalid = s.invalid
    BY <1>4 DEF AfterFile
  <2>3. \A id \in Ids : t.valid[id] = IF id = files[f].id THEN ReadRule(c) ELSE s.valid[id]
    BY <1>1, <1>4 DEF AfterFile, Scans
  <2>4. QED BY <1>1, <1>2, <2>1, <2>2, <2>3 DEF WellScanned, WellLoaded
<1>5. QED BY <1>3, <1>4

LEMMA LoadedStep ==
    ASSUME TypeOK, WellLoaded(valid, invalid), [Next]_vars,
           \A c \in Callers : JobFits(c) /\ WellScanned(scan[c])
    PROVE  WellLoaded(valid, invalid)'
<1>1. ASSUME Crash
      PROVE  WellLoaded(valid, invalid)'
  <2>1. WellLoaded(valid', invalid')
    BY <1>1, LoadedWell DEF Crash, TypeOK
  <2>2. QED BY <2>1
<1>2. ASSUME NEW c \in Callers, NEW id \in Ids, NEW on \in BOOLEAN, SetEnabled(c, id, on)
      PROVE  WellLoaded(valid, invalid)'
  <2>1. valid[id] \in Rules /\ valid[id] # NoRule /\ invalid' = invalid
    BY <1>2 DEF SetEnabled, TypeOK
  <2>2. valid'[id].file = valid[id].file /\ valid'[id].text = valid[id].text
    BY <1>2, <2>1 DEF SetEnabled, TypeOK, Rules
  <2>3. \A i \in Ids \ {id} : valid'[i] = valid[i]
    BY <1>2 DEF SetEnabled, TypeOK
  <2>4. QED BY <2>1, <2>2, <2>3 DEF WellLoaded, IsUser
<1>3. ASSUME NEW c \in Callers, NEW id \in Ids, NEW newId \in Ids, SaveEdit(c, id, newId)
      PROVE  WellLoaded(valid, invalid)'
  BY <1>3, EditBegins DEF memory
<1>4. ASSUME NEW c \in Callers, NEW newId \in Ids, NEW f \in invalid \cup {0}, SaveNew(c, newId, f)
      PROVE  WellLoaded(valid, invalid)'
  BY <1>4, NewBegins DEF memory
<1>5. ASSUME NEW c \in Callers, NEW ids \in Batches, Import(c, ids)
      PROVE  WellLoaded(valid, invalid)'
  BY <1>5, ImportBegins DEF memory
<1>6. ASSUME NEW c \in Callers, Reload(c)
      PROVE  WellLoaded(valid, invalid)'
  BY <1>6, ReloadBegins DEF memory
<1>7. ASSUME NEW c \in Callers, NEW id \in Ids, Delete(c, id)
      PROVE  WellLoaded(valid, invalid)'
  BY <1>7, DeleteBegins DEF memory
<1>8. ASSUME NEW c \in Callers, ImportNext(c)
      PROVE  WellLoaded(valid, invalid)'
  BY <1>8, ImportMoves DEF memory
<1>9. ASSUME NEW c \in Callers, WriteTmp(c)
      PROVE  WellLoaded(valid, invalid)'
  BY <1>9, WriteMoves DEF memory
<1>10. ASSUME NEW c \in Callers, Install(c)
      PROVE  WellLoaded(valid, invalid)'
  BY <1>10, InstallMoves DEF memory
<1>11. ASSUME NEW c \in Callers, Retire(c)
      PROVE  WellLoaded(valid, invalid)'
  BY <1>11, RetireMoves DEF memory
<1>12. ASSUME NEW c \in Callers, MoveToggle(c)
      PROVE  WellLoaded(valid, invalid)'
  BY <1>12, ToggleMoves DEF memory
<1>13. ASSUME NEW c \in Callers, Replace(c)
      PROVE  WellLoaded(valid, invalid)'
  BY <1>13, ReplaceMoves DEF memory
<1>14. ASSUME NEW c \in Callers, Unlink(c)
      PROVE  WellLoaded(valid, invalid)'
  BY <1>14, UnlinkMoves DEF memory
<1>15. ASSUME NEW c \in Callers, ListDir(c)
      PROVE  WellLoaded(valid, invalid)'
  BY <1>15, ListMoves DEF memory
<1>16. ASSUME NEW c \in Callers, ScanFile(c)
      PROVE  WellLoaded(valid, invalid)'
  BY <1>16, ScanMoves DEF memory
<1>17. ASSUME NEW c \in Callers, InstallScan(c)
      PROVE  WellLoaded(valid, invalid)'
  BY <1>17, InstallScanMoves DEF WellScanned
<1>18. ASSUME NEW c \in Callers, SaveReturns(c)
      PROVE  WellLoaded(valid, invalid)'
  BY <1>18, FoundMoves DEF memory
<1>19. CASE UNCHANGED vars
  BY <1>19 DEF vars, memory
<1>20. QED
  BY <1>1, <1>2, <1>3, <1>4, <1>5, <1>6, <1>7, <1>8, <1>9, <1>10, <1>11, <1>12,
     <1>13, <1>14, <1>15, <1>16, <1>17, <1>18, <1>19
  DEF Next, Begin, Continue


\* A scan stays as it is, ends, begins, or has read one more file.
ScanSteps ==
    \A d \in Callers :
        \/ scan'[d] = scan[d] \/ scan'[d] = NoScan \/ scan'[d] = FirstScan
        \/ scan[d].left # {} /\ scan'[d] = AfterFile(d)

LEMMA ScansMove ==
    ASSUME TypeOK, \A c \in Callers : JobFits(c), [Next]_vars
    PROVE  ScanSteps
<1>1. ASSUME Crash
      PROVE  ScanSteps
  BY <1>1, CrashMoves DEF ScanSteps
<1>2. ASSUME NEW c \in Callers, NEW id \in Ids, NEW on \in BOOLEAN, SetEnabled(c, id, on)
      PROVE  ScanSteps
  BY <1>2 DEF ScanSteps, SetEnabled
<1>3. ASSUME NEW c \in Callers, NEW id \in Ids, NEW newId \in Ids, SaveEdit(c, id, newId)
      PROVE  ScanSteps
  BY <1>3, EditBegins DEF ScanSteps, BeginsWith, MovesWith, OthersStay
<1>4. ASSUME NEW c \in Callers, NEW newId \in Ids, NEW f \in invalid \cup {0}, SaveNew(c, newId, f)
      PROVE  ScanSteps
  BY <1>4, NewBegins DEF ScanSteps, BeginsWith, MovesWith, OthersStay
<1>5. ASSUME NEW c \in Callers, NEW ids \in Batches, Import(c, ids)
      PROVE  ScanSteps
  BY <1>5, ImportBegins DEF ScanSteps, BeginsWith, MovesWith, OthersStay
<1>6. ASSUME NEW c \in Callers, Reload(c)
      PROVE  ScanSteps
  BY <1>6, ReloadBegins DEF ScanSteps, BeginsWith, MovesWith, OthersStay
<1>7. ASSUME NEW c \in Callers, NEW id \in Ids, Delete(c, id)
      PROVE  ScanSteps
  <2>1. UNCHANGED scan
    BY <1>7 DEF Delete
  <2>2. QED BY <2>1 DEF ScanSteps
<1>8. ASSUME NEW c \in Callers, ImportNext(c)
      PROVE  ScanSteps
  <2>1. UNCHANGED scan
    BY <1>8 DEF ImportNext
  <2>2. QED BY <2>1 DEF ScanSteps
<1>9. ASSUME NEW c \in Callers, WriteTmp(c)
      PROVE  ScanSteps
  BY <1>9, WriteMoves DEF ScanSteps, Fails, Returns, MovesTo, MovesWith, OthersStay
<1>10. ASSUME NEW c \in Callers, Install(c)
      PROVE  ScanSteps
  BY <1>10, InstallMoves DEF ScanSteps, Installs, Fails, Returns, MovesTo, MovesWith, OthersStay
<1>11. ASSUME NEW c \in Callers, Retire(c)
      PROVE  ScanSteps
  BY <1>11, RetireMoves DEF ScanSteps, Returns, MovesTo, MovesWith, OthersStay
<1>12. ASSUME NEW c \in Callers, MoveToggle(c)
      PROVE  ScanSteps
  BY <1>12, ToggleMoves DEF ScanSteps, Returns, MovesTo, MovesWith, OthersStay
<1>13. ASSUME NEW c \in Callers, Replace(c)
      PROVE  ScanSteps
  BY <1>13, ReplaceMoves DEF ScanSteps, Returns, MovesTo, MovesWith, OthersStay
<1>14. ASSUME NEW c \in Callers, Unlink(c)
      PROVE  ScanSteps
  BY <1>14, UnlinkMoves DEF ScanSteps, Returns, MovesTo, MovesWith, OthersStay
<1>15. ASSUME NEW c \in Callers, ListDir(c)
      PROVE  ScanSteps
  BY <1>15, ListMoves DEF ScanSteps, ScansTo, Returns, OthersStay
<1>16. ASSUME NEW c \in Callers, ScanFile(c)
      PROVE  ScanSteps
  BY <1>16, ScanMoves DEF ScanSteps, ScansTo, OthersStay
<1>17. ASSUME NEW c \in Callers, InstallScan(c)
      PROVE  ScanSteps
  BY <1>17, InstallScanMoves DEF ScanSteps, Returns, MovesTo, MovesWith, OthersStay
<1>18. ASSUME NEW c \in Callers, SaveReturns(c)
      PROVE  ScanSteps
  BY <1>18, FoundMoves DEF ScanSteps, Returns, MovesTo, MovesWith, OthersStay
<1>19. CASE UNCHANGED vars
  BY <1>19 DEF vars, ScanSteps
<1>20. QED
  BY <1>1, <1>2, <1>3, <1>4, <1>5, <1>6, <1>7, <1>8, <1>9, <1>10, <1>11, <1>12,
     <1>13, <1>14, <1>15, <1>16, <1>17, <1>18, <1>19
  DEF Next, Begin, Continue

LEMMA ScanStep ==
    ASSUME TypeOK, [Next]_vars, \A c \in Callers : JobFits(c) /\ WellScanned(scan[c])
    PROVE  \A c \in Callers : WellScanned(scan[c])'
<1>1. TAKE d \in Callers
<1>2. WellScanned(scan'[d])
  BY ScansMove, BlankWell, AfterFileWell DEF ScanSteps
<1>3. QED BY <1>2

-----------------------------------------------------------------------------
(* The jobs fit the places of their calls.                                    *)

LEMMA StandsStill ==
    ASSUME NEW d \in Callers, JobFits(d), pc'[d] = pc[d], job'[d] = job[d]
    PROVE  JobFits(d)'
BY DEF JobFits, Edits, Moves, Renamed, IsUser

LEMMA IdleFits ==
    ASSUME NEW d \in Callers, pc'[d] = "idle", job'[d] = NoJob
    PROVE  JobFits(d)'
BY DEF JobFits, Edits, Moves, Renamed, IsUser, NoJob, Job, NoRule, Rule

LEMMA OthersFit ==
    ASSUME NEW c \in Callers, OthersStay(c), \A d \in Callers : JobFits(d), JobFits(c)'
    PROVE  \A d \in Callers : JobFits(d)'
BY StandsStill DEF OthersStay

LEMMA ReturnFits ==
    ASSUME NEW c \in Callers, Returns(c), \A d \in Callers : JobFits(d)
    PROVE  \A d \in Callers : JobFits(d)'
BY IdleFits, OthersFit DEF Returns

\* A call that only moves on to a place that asks nothing more of its job.
LEMMA MoveFits ==
    ASSUME NEW c \in Callers, NEW place, MovesTo(c, place), \A d \in Callers : JobFits(d),
           \/ place \in {"list", "found"}
           \/ place = "next" /\ job[c].op = "import"
           \/ place = "install" /\ pc[c] = "write"
           \/ place = "toggle" /\ pc[c] = "retire"
    PROVE  \A d \in Callers : JobFits(d)'
<1>1. JobFits(c)'
  BY DEF JobFits, Edits, Moves, Renamed, IsUser, MovesTo, MovesWith
<1>2. QED BY <1>1, OthersFit DEF MovesTo, MovesWith

LEMMA FailFits ==
    ASSUME NEW c \in Callers, Fails(c), Edits(c), \A d \in Callers : JobFits(d)
    PROVE  \A d \in Callers : JobFits(d)'
BY ReturnFits, MoveFits DEF Fails, JobFits

LEMMA QueueTail ==
    ASSUME NEW q \in Seq(Texts), q # <<>>
    PROVE  /\ Head(q) = q[1] /\ 1 \in DOMAIN q
           /\ \A i \in DOMAIN Tail(q) : i + 1 \in DOMAIN q /\ Tail(q)[i] = q[i + 1]
           /\ DOMAIN Tail(q) \subseteq Nat
BY HeadTailProperties

LEMMA JobStep ==
    ASSUME TypeOK, WellLoaded(valid, invalid), [Next]_vars, \A d \in Callers : JobFits(d)
    PROVE  \A d \in Callers : JobFits(d)'
<1>1. ASSUME Crash
      PROVE  \A d \in Callers : JobFits(d)'
  BY <1>1, CrashMoves, IdleFits
<1>2. ASSUME NEW c \in Callers, NEW id \in Ids, NEW on \in BOOLEAN, SetEnabled(c, id, on)
      PROVE  \A d \in Callers : JobFits(d)'
  BY <1>2, StandsStill DEF SetEnabled
<1>3. ASSUME NEW c \in Callers, NEW id \in Ids, NEW newId \in Ids, SaveEdit(c, id, newId)
      PROVE  \A d \in Callers : JobFits(d)'
  <2>1. job'[c] = EditJob(id, newId) /\ OthersStay(c) /\ pc'[c] = "write"
    BY <1>3, EditBegins DEF BeginsWith, MovesWith
  <2>2. valid[id].text.id = id
    BY <1>3, EditBegins DEF WellLoaded, NoRule, Rule, IsUser
  <2>5. JobFits(c)'
    BY <1>3, <2>1, EditBegins, <2>2 DEF EditJob, Job, Text, JobFits, Edits, Moves, Renamed, IsUser
  <2>6. QED BY <2>1, <2>5, OthersFit
<1>4. ASSUME NEW c \in Callers, NEW newId \in Ids, NEW f \in invalid \cup {0}, SaveNew(c, newId, f)
      PROVE  \A d \in Callers : JobFits(d)'
  <2>1. job'[c] = NewJob(newId, f) /\ OthersStay(c) /\ pc'[c] = "write"
    BY <1>4, NewBegins DEF BeginsWith, MovesWith
  <2>5. JobFits(c)'
    BY <1>4, <2>1, NewBegins DEF NewJob, Job, Text, NoRule, Rule, JobFits, Edits, Moves, Renamed, IsUser
  <2>6. QED BY <2>1, <2>5, OthersFit
<1>5. ASSUME NEW c \in Callers, NEW ids \in Batches, Import(c, ids)
      PROVE  \A d \in Callers : JobFits(d)'
  <2>1. job'[c] = ImportJob(ids) /\ OthersStay(c) /\ pc'[c] = "next"
    BY <1>5, ImportBegins DEF BeginsWith, MovesWith
  <2>2. \A i \in DOMAIN ids : ids[i] \in Ids
    BY DEF Batches
  <2>5. JobFits(c)'
    BY <1>5, <2>1, ImportBegins, <2>2 DEF ImportJob, NoRule, Rule, Text, JobFits, Edits, Moves, Renamed, IsUser
  <2>6. QED BY <2>1, <2>5, OthersFit
<1>6. ASSUME NEW c \in Callers, Reload(c)
      PROVE  \A d \in Callers : JobFits(d)'
  <2>1. job'[c] = ReloadJob /\ OthersStay(c) /\ pc'[c] = "list"
    BY <1>6, ReloadBegins DEF BeginsWith, MovesWith
  <2>5. JobFits(c)'
    BY <1>6, <2>1, ReloadBegins DEF ReloadJob, Job, NoRule, Rule, JobFits, Edits, Moves, Renamed, IsUser
  <2>6. QED BY <2>1, <2>5, OthersFit
<1>7. ASSUME NEW c \in Callers, NEW id \in Ids, Delete(c, id)
      PROVE  \A d \in Callers : JobFits(d)'
  <2>1. CASE UNCHANGED <<pc, job>>
    BY <2>1, StandsStill
  <2>2. CASE BeginsWith(c, "unlink", DeleteJob(id))
    <3>1. job'[c] = DeleteJob(id) /\ OthersStay(c) /\ pc'[c] = "unlink"
      BY <2>2 DEF BeginsWith, MovesWith
    <3>2. IsUser(valid[id]) /\ valid[id].text.id = id
      BY <1>7, DeleteBegins DEF WellLoaded, NoRule, Rule, IsUser
    <3>3. JobFits(c)'
      BY <3>1, <3>2 DEF DeleteJob, Job, JobFits, Edits, Moves, IsUser
    <3>4. QED BY <3>1, <3>3, OthersFit
  <2>3. QED BY <1>7, <2>1, <2>2, DeleteBegins
<1>8. ASSUME NEW c \in Callers, ImportNext(c)
      PROVE  \A d \in Callers : JobFits(d)'
  <2>0. /\ job[c] \in Jobs /\ job[c].queue \in Seq(Texts) /\ pc[c] = "next"
        /\ \A i \in DOMAIN job[c].queue : job[c].queue[i].id \in Ids
        /\ job[c].op = "import" /\ ~IsUser(job[c].old)
    BY <1>8, ImportMoves DEF TypeOK, Jobs, JobFits
  <2>1. CASE MovesTo(c, "list")
    BY <2>1, MoveFits
  <2>2. CASE Passes(c)
    <3>1. OthersStay(c) /\ pc'[c] = "next" /\ job'[c] = [job[c] EXCEPT !.queue = Tail(@)]
      BY <2>2 DEF Passes, MovesWith
    <3>2. /\ job'[c].queue = Tail(job[c].queue) /\ job'[c].old = job[c].old
          /\ job'[c].op = job[c].op
      BY <2>0, <3>1 DEF Jobs
    <3>3. \A i \in DOMAIN job'[c].queue : job'[c].queue[i].id \in Ids
      BY <2>0, <2>2, <3>2, QueueTail DEF Passes
    <3>4. JobFits(c)'
      BY <2>0, <3>1, <3>2, <3>3 DEF JobFits, Edits, Moves, IsUser
    <3>5. QED BY <3>1, <3>4, OthersFit
  <2>3. CASE WritesNext(c)
    <3>1. OthersStay(c) /\ pc'[c] = "write"
          /\ job'[c] = [job[c] EXCEPT !.queue = Tail(@), !.text = Head(job[c].queue)]
      BY <2>3 DEF WritesNext, MovesWith
    <3>2. /\ job'[c].queue = Tail(job[c].queue) /\ job'[c].old = job[c].old
          /\ job'[c].op = job[c].op /\ job'[c].text = Head(job[c].queue)
      BY <2>0, <3>1 DEF Jobs
    <3>3. /\ \A i \in DOMAIN job'[c].queue : job'[c].queue[i].id \in Ids
          /\ job'[c].text.id \in Ids
      BY <2>0, <2>3, <3>2, QueueTail DEF WritesNext
    <3>4. JobFits(c)'
      BY <2>0, <3>1, <3>2, <3>3 DEF JobFits, Edits, Moves, IsUser
    <3>5. QED BY <3>1, <3>4, OthersFit
  <2>4. QED BY <1>8, <2>1, <2>2, <2>3, ImportMoves
<1>9. ASSUME NEW c \in Callers, WriteTmp(c)
      PROVE  \A d \in Callers : JobFits(d)'
  BY <1>9, WriteMoves, MoveFits, FailFits DEF Edits
<1>10. ASSUME NEW c \in Callers, Install(c)
      PROVE  \A d \in Callers : JobFits(d)'
  <2>1. CASE Fails(c)
    BY <1>10, <2>1, FailFits, InstallMoves DEF Edits
  <2>2. CASE Installs(c)
    <3>1. OthersStay(c) /\ pc'[c] = AfterInstall(c) /\ job'[c] = Claimed(c)
      BY <2>2 DEF Installs, MovesWith
    <3>2. job[c] \in Jobs /\ pc[c] = "install"
      BY <1>10, InstallMoves DEF TypeOK
    <3>3. JobFits(c)'
      BY <3>1, <3>2 DEF Claimed, AfterInstall, JobFits, Edits, Moves, Renamed, IsUser, Jobs
    <3>4. QED BY <3>1, <3>3, OthersFit
  <2>3. QED BY <1>10, <2>1, <2>2, InstallMoves
<1>11. ASSUME NEW c \in Callers, Retire(c)
      PROVE  \A d \in Callers : JobFits(d)'
  BY <1>11, RetireMoves, MoveFits, ReturnFits
<1>12. ASSUME NEW c \in Callers, MoveToggle(c)
      PROVE  \A d \in Callers : JobFits(d)'
  BY <1>12, ToggleMoves, MoveFits, ReturnFits
<1>13. ASSUME NEW c \in Callers, Replace(c)
      PROVE  \A d \in Callers : JobFits(d)'
  BY <1>13, ReplaceMoves, MoveFits, ReturnFits
<1>14. ASSUME NEW c \in Callers, Unlink(c)
      PROVE  \A d \in Callers : JobFits(d)'
  BY <1>14, UnlinkMoves, MoveFits, ReturnFits
<1>15. ASSUME NEW c \in Callers, ListDir(c)
      PROVE  \A d \in Callers : JobFits(d)'
  <2>1. CASE Returns(c)
    BY <2>1, ReturnFits
  <2>2. CASE ScansTo(c, FirstScan)
    <3>1. JobFits(c)'
      BY <2>2 DEF ScansTo, JobFits, Edits, Moves, IsUser
    <3>2. QED BY <2>2, <3>1, OthersFit DEF ScansTo
  <2>3. QED BY <1>15, <2>1, <2>2, ListMoves
<1>16. ASSUME NEW c \in Callers, ScanFile(c)
      PROVE  \A d \in Callers : JobFits(d)'
  BY <1>16, StandsStill DEF ScanFile
<1>17. ASSUME NEW c \in Callers, InstallScan(c)
      PROVE  \A d \in Callers : JobFits(d)'
  BY <1>17, InstallScanMoves, MoveFits, ReturnFits
<1>18. ASSUME NEW c \in Callers, SaveReturns(c)
      PROVE  \A d \in Callers : JobFits(d)'
  BY <1>18, FoundMoves, MoveFits, ReturnFits
<1>19. CASE UNCHANGED vars
  BY <1>19, StandsStill DEF vars
<1>20. QED
  BY <1>1, <1>2, <1>3, <1>4, <1>5, <1>6, <1>7, <1>8, <1>9, <1>10, <1>11, <1>12,
     <1>13, <1>14, <1>15, <1>16, <1>17, <1>18, <1>19
  DEF Next, Begin, Continue

-----------------------------------------------------------------------------
(* While the calls are apart at most one is running, and the sidecar is exact *)
(* until an operation fails.                                                  *)

LEMMA BeginsAlone ==
    ASSUME NEW c \in Callers, NEW place, NEW call, BeginsWith(c, place, call)
    PROVE  Solo'
BY DEF BeginsWith, MovesWith, OthersStay, Alone, At, Solo, Apart

LEMMA NoneWakes ==
    ASSUME Solo, Apart' => Apart, \A d \in Callers : pc'[d] # "idle" => pc[d] # "idle"
    PROVE  Solo'
BY DEF Solo, At

\* A running call that goes on, or ends.
LEMMA GoesOn ==
    ASSUME Solo, NEW c \in Callers, OthersStay(c), pc[c] # "idle", together' = together
    PROVE  Solo'
BY NoneWakes DEF OthersStay, Apart

LEMMA SoloStep ==
    ASSUME TypeOK, Solo, [Next]_vars, \A d \in Callers : JobFits(d)
    PROVE  Solo'
<1>1. ASSUME Crash
      PROVE  Solo'
  BY <1>1, CrashMoves DEF Solo, At
<1>2. ASSUME NEW c \in Callers, NEW id \in Ids, NEW on \in BOOLEAN, SetEnabled(c, id, on)
      PROVE  Solo'
  BY <1>2, NoneWakes DEF SetEnabled, Call, Apart
<1>3. ASSUME NEW c \in Callers, NEW id \in Ids, NEW newId \in Ids, SaveEdit(c, id, newId)
      PROVE  Solo'
  BY <1>3, EditBegins, BeginsAlone
<1>4. ASSUME NEW c \in Callers, NEW newId \in Ids, NEW f \in invalid \cup {0}, SaveNew(c, newId, f)
      PROVE  Solo'
  BY <1>4, NewBegins, BeginsAlone
<1>5. ASSUME NEW c \in Callers, NEW ids \in Batches, Import(c, ids)
      PROVE  Solo'
  BY <1>5, ImportBegins, BeginsAlone
<1>6. ASSUME NEW c \in Callers, Reload(c)
      PROVE  Solo'
  BY <1>6, ReloadBegins, BeginsAlone
<1>7. ASSUME NEW c \in Callers, NEW id \in Ids, Delete(c, id)
      PROVE  Solo'
  BY <1>7, DeleteBegins, BeginsAlone, NoneWakes DEF Apart
<1>8. ASSUME NEW c \in Callers, ImportNext(c)
      PROVE  Solo'
  <2>1. OthersStay(c)
    <3>1. Passes(c) => OthersStay(c)
      BY DEF Passes, MovesWith
    <3>2. WritesNext(c) => OthersStay(c)
      BY DEF WritesNext, MovesWith
    <3>3. MovesTo(c, "list") => OthersStay(c)
      BY DEF MovesTo, MovesWith
    <3>4. QED BY <1>8, <3>1, <3>2, <3>3, ImportMoves
  <2>2. pc[c] # "idle" /\ together' = together
    BY <1>8, ImportMoves DEF history
  <2>3. QED BY <2>1, <2>2, GoesOn
<1>9. ASSUME NEW c \in Callers, WriteTmp(c)
      PROVE  Solo'
  <2>1. OthersStay(c) /\ pc[c] # "idle" /\ together' = together
    BY <1>9, WriteMoves DEF history, Fails, Returns, MovesTo, MovesWith
  <2>2. QED BY <2>1, GoesOn
<1>10. ASSUME NEW c \in Callers, Install(c)
      PROVE  Solo'
  <2>1. OthersStay(c) /\ pc[c] # "idle" /\ together' = together
    BY <1>10, InstallMoves DEF Installs, Fails, Returns, MovesTo, MovesWith
  <2>2. QED BY <2>1, GoesOn
<1>11. ASSUME NEW c \in Callers, Retire(c)
      PROVE  Solo'
  <2>1. OthersStay(c) /\ pc[c] # "idle" /\ together' = together
    BY <1>11, RetireMoves DEF history, Returns, MovesTo, MovesWith
  <2>2. QED BY <2>1, GoesOn
<1>12. ASSUME NEW c \in Callers, MoveToggle(c)
      PROVE  Solo'
  <2>1. OthersStay(c) /\ pc[c] # "idle" /\ together' = together
    BY <1>12, ToggleMoves DEF history, Returns, MovesTo, MovesWith
  <2>2. QED BY <2>1, GoesOn
<1>13. ASSUME NEW c \in Callers, Replace(c)
      PROVE  Solo'
  <2>1. OthersStay(c) /\ pc[c] # "idle" /\ together' = together
    BY <1>13, ReplaceMoves DEF history, Returns, MovesTo, MovesWith
  <2>2. QED BY <2>1, GoesOn
<1>14. ASSUME NEW c \in Callers, Unlink(c)
      PROVE  Solo'
  <2>1. OthersStay(c) /\ pc[c] # "idle" /\ together' = together
    BY <1>14, UnlinkMoves DEF history, Returns, MovesTo, MovesWith
  <2>2. QED BY <2>1, GoesOn
<1>15. ASSUME NEW c \in Callers, ListDir(c)
      PROVE  Solo'
  <2>1. OthersStay(c) /\ pc[c] = "list"
    BY <1>15, ListMoves DEF ScansTo, Returns
  <2>2. CASE together' = together
    BY <2>1, <2>2, GoesOn
  <2>3. CASE Alone(c)
    BY <2>1, <2>3 DEF Alone, At, OthersStay, Solo
  <2>4. QED BY <1>15, <2>2, <2>3, ListMoves
<1>16. ASSUME NEW c \in Callers, ScanFile(c)
      PROVE  Solo'
  <2>1. OthersStay(c) /\ pc[c] # "idle" /\ together' = together
    BY <1>16, ScanMoves DEF history, ScansTo
  <2>2. QED BY <2>1, GoesOn
<1>17. ASSUME NEW c \in Callers, InstallScan(c)
      PROVE  Solo'
  <2>1. OthersStay(c) /\ pc[c] # "idle" /\ together' = together
    BY <1>17, InstallScanMoves DEF history, Returns, MovesTo, MovesWith
  <2>2. QED BY <2>1, GoesOn
<1>18. ASSUME NEW c \in Callers, SaveReturns(c)
      PROVE  Solo'
  <2>1. OthersStay(c) /\ pc[c] # "idle" /\ together' = together
    BY <1>18, FoundMoves DEF history, Returns, MovesTo, MovesWith
  <2>2. QED BY <2>1, GoesOn
<1>19. CASE UNCHANGED vars
  BY <1>19, NoneWakes DEF vars, history, Apart
<1>20. QED
  BY <1>1, <1>2, <1>3, <1>4, <1>5, <1>6, <1>7, <1>8, <1>9, <1>10, <1>11, <1>12,
     <1>13, <1>14, <1>15, <1>16, <1>17, <1>18, <1>19
  DEF Next, Begin, Continue

LEMMA FaultCounts ==
    ASSUME TypeOK, Fault
    PROVE  faults' # 0
BY DEF TypeOK, Fault

LEMMA SavedStep ==
    ASSUME TypeOK, Saved, [Next]_vars, \A d \in Callers : JobFits(d)
    PROVE  Saved'
<1>1. ASSUME Crash
      PROVE  Saved'
  BY <1>1 DEF Crash, disk, Saved
<1>2. ASSUME NEW c \in Callers, NEW id \in Ids, NEW on \in BOOLEAN, SetEnabled(c, id, on)
      PROVE  Saved'
  BY <1>2, FaultCounts DEF SetEnabled, Saved, failing
<1>3. ASSUME NEW c \in Callers, NEW id \in Ids, NEW newId \in Ids, SaveEdit(c, id, newId)
      PROVE  Saved'
  BY <1>3, EditBegins DEF Saved, disk, memory, failing
<1>4. ASSUME NEW c \in Callers, NEW newId \in Ids, NEW f \in invalid \cup {0}, SaveNew(c, newId, f)
      PROVE  Saved'
  BY <1>4, NewBegins DEF Saved, disk, memory, failing
<1>5. ASSUME NEW c \in Callers, NEW ids \in Batches, Import(c, ids)
      PROVE  Saved'
  BY <1>5, ImportBegins DEF Saved, disk, memory, failing
<1>6. ASSUME NEW c \in Callers, Reload(c)
      PROVE  Saved'
  BY <1>6, ReloadBegins DEF Saved, disk, memory, failing
<1>7. ASSUME NEW c \in Callers, NEW id \in Ids, Delete(c, id)
      PROVE  Saved'
  BY <1>7, DeleteBegins, FaultCounts DEF Saved, failing
<1>8. ASSUME NEW c \in Callers, ImportNext(c)
      PROVE  Saved'
  BY <1>8, ImportMoves, FaultCounts DEF Saved, disk, memory, failing
<1>9. ASSUME NEW c \in Callers, WriteTmp(c)
      PROVE  Saved'
  BY <1>9, WriteMoves, FaultCounts DEF Saved, disk, memory, failing
<1>10. ASSUME NEW c \in Callers, Install(c)
      PROVE  Saved'
  BY <1>10, InstallMoves, FaultCounts DEF Installs, Saved, disk, memory, failing
<1>11. ASSUME NEW c \in Callers, Retire(c)
      PROVE  Saved'
  BY <1>11, RetireMoves, FaultCounts DEF Saved, disk, memory, failing
<1>12. ASSUME NEW c \in Callers, MoveToggle(c)
      PROVE  Saved'
  BY <1>12, ToggleMoves, FaultCounts DEF Saved, disk, memory, failing
<1>13. ASSUME NEW c \in Callers, Replace(c)
      PROVE  Saved'
  BY <1>13, ReplaceMoves, FaultCounts DEF Saved, disk, memory, failing
<1>14. ASSUME NEW c \in Callers, Unlink(c)
      PROVE  Saved'
  BY <1>14, UnlinkMoves, FaultCounts DEF Saved, disk, memory, failing
<1>15. ASSUME NEW c \in Callers, ListDir(c)
      PROVE  Saved'
  BY <1>15, ListMoves, FaultCounts DEF Saved, disk, memory, failing
<1>16. ASSUME NEW c \in Callers, ScanFile(c)
      PROVE  Saved'
  BY <1>16, ScanMoves, FaultCounts DEF Saved, disk, memory, failing
<1>17. ASSUME NEW c \in Callers, InstallScan(c)
      PROVE  Saved'
  BY <1>17, InstallScanMoves, FaultCounts DEF Saved, disk, memory, failing
<1>18. ASSUME NEW c \in Callers, SaveReturns(c)
      PROVE  Saved'
  BY <1>18, FoundMoves, FaultCounts DEF Saved, disk, memory, failing
<1>19. CASE UNCHANGED vars
  BY <1>19 DEF vars, disk, memory, failing, Saved
<1>20. QED
  BY <1>1, <1>2, <1>3, <1>4, <1>5, <1>6, <1>7, <1>8, <1>9, <1>10, <1>11, <1>12,
     <1>13, <1>14, <1>15, <1>16, <1>17, <1>18, <1>19
  DEF Next, Begin, Continue

LEMMA ShapeInit == Init => Shape
<1> SUFFICES ASSUME Init
             PROVE  Shape
  OBVIOUS
<1>1. files \in [Files -> Texts]
  <2>1. \A f \in Files : Placed(f) \subseteq Texts
    BY Blanks, FileNames DEF Placed, Text, Texts, Ids
  <2>2. QED BY <2>1 DEF Init
<1>2. valid \in [Ids -> Rules] /\ invalid \subseteq Files /\ WellLoaded(valid, invalid)
  BY <1>1, LoadedTyped, LoadedWell DEF Init
<1>3. CallsTyped
  BY Blanks DEF Init, CallsTyped, Places
<1>8. state \in Toggles /\ enabled \in Toggles /\ tmp \in [Files -> Texts]
  BY Blanks DEF Init, Toggles
<1>9. HistoryTyped
  <2>1. off = {} /\ copied = {} /\ together = "never" /\ faulted = FALSE
    BY DEF Init
  <2>2. made \in 0 .. MaxNew /\ calls \in Nat /\ faults \in Nat /\ crashes \in Nat
    BY FileNames DEF Init
  <2>3. QED BY <2>1, <2>2 DEF HistoryTyped
<1>4. TypeOK
  BY <1>1, <1>2, <1>3, <1>8, <1>9 DEF CallsTyped, HistoryTyped, TypeOK
<1>5. \A c \in Callers : WellScanned(scan[c]) /\ JobFits(c)
  BY BlankWell DEF Init, JobFits, Edits, Moves, Renamed, IsUser, NoJob, Job, NoRule, Rule
<1>6. Solo /\ Saved
  BY DEF Init, Solo, Saved, At
<1>7. QED BY <1>2, <1>4, <1>5, <1>6 DEF Shape

LEMMA ShapeStep ==
    ASSUME Shape, [Next]_vars
    PROVE  Shape'
BY TypeStep, LoadedStep, ScanStep, JobStep, SoloStep, SavedStep DEF Shape

\* Every variable of the registry keeps the shape of its Go counterpart: a rule's text, file
\* and toggle, the job of every call, the scan of every Reload.
THEOREM RegistryTypeCorrect == Spec => []TypeOK
<1>1. Init => Shape
  BY ShapeInit
<1>2. Shape /\ [Next]_vars => Shape'
  BY ShapeStep
<1>3. Shape => TypeOK
  BY DEF Shape
<1>4. QED BY <1>1, <1>2, <1>3, PTL DEF Spec

-----------------------------------------------------------------------------
(* What a call that runs alone has read still holds when it acts on it.       *)

LEMMA NothingToFit ==
    ASSUME NEW d \in Callers, pc'[d] \in {"idle", "list", "scan", "found", "replace"}
    PROVE  AloneFits(d)'
BY DEF AloneFits, Edits

LEMMA AllIdleFits ==
    ASSUME \A d \in Callers : pc'[d] = "idle"
    PROVE  \A d \in Callers : AloneFits(d)'
BY NothingToFit

\* Only the call that moves has something to fit.
LEMMA OneFits ==
    ASSUME Solo', Apart', NEW c \in Callers, pc'[c] # "idle", AloneFits(c)'
    PROVE  \A d \in Callers : AloneFits(d)'
BY NothingToFit DEF Solo, At

LEMMA EndsIdle ==
    ASSUME Solo, Apart, NEW c \in Callers, pc[c] # "idle", Returns(c)
    PROVE  \A d \in Callers : pc'[d] = "idle"
BY DEF Solo, At, Returns, OthersStay

\* A running call that ends, or goes on to where nothing is asked of it.
LEMMA GoesOnFits ==
    ASSUME Solo, Solo', Apart', together' = together, NEW c \in Callers, pc[c] # "idle",
           \/ Returns(c)
           \/ pc'[c] \in {"list", "scan", "found", "replace"}
    PROVE  \A d \in Callers : AloneFits(d)'
<1>1. CASE Returns(c)
  BY <1>1, EndsIdle, AllIdleFits DEF Apart
<1>2. CASE pc'[c] \in {"list", "scan", "found", "replace"}
  BY <1>2, OneFits, NothingToFit
<1>3. QED BY <1>1, <1>2

LEMMA FailsAlone ==
    ASSUME Solo, Solo', Apart', together' = together, valid' = valid,
           NEW c \in Callers, Edits(c), JobFits(c), AloneFits(c), Fails(c)
    PROVE  \A d \in Callers : AloneFits(d)'
<1>1. CASE Returns(c)
  BY <1>1, GoesOnFits DEF Edits
<1>2. CASE MovesTo(c, "next") /\ job[c].op # "save"
  <2>1. pc'[c] = "next" /\ job'[c] = job[c]
    BY <1>2 DEF MovesTo, MovesWith
  <2>2. AloneFits(c)'
    BY <1>2, <2>1 DEF AloneFits, Edits, UserIds, JobFits
  <2>3. QED BY <2>1, <2>2, OneFits
<1>3. QED BY <1>1, <1>2 DEF Fails

LEMMA AloneInit == Init => Lone
BY DEF Init, Lone, AloneFits, Edits

LEMMA AloneStep ==
    ASSUME Shape, Shape', Lone, Apart', [Next]_vars
    PROVE  \A d \in Callers : AloneFits(d)'
<1>0. TypeOK /\ Solo /\ Solo' /\ \A d \in Callers : JobFits(d)
  BY DEF Shape
<1> USE <1>0
<1>1. ASSUME Crash
      PROVE  \A d \in Callers : AloneFits(d)'
  BY <1>1, CrashMoves, AllIdleFits
<1>2. ASSUME NEW c \in Callers, NEW id \in Ids, NEW on \in BOOLEAN, SetEnabled(c, id, on)
      PROVE  \A d \in Callers : AloneFits(d)'
  <2>1. Alone(c) /\ pc[c] = "idle" /\ UNCHANGED pc
    BY <1>2 DEF SetEnabled, Call, At, Apart
  <2>2. QED BY <2>1, AllIdleFits DEF Alone, At
<1>3. ASSUME NEW c \in Callers, NEW id \in Ids, NEW newId \in Ids, SaveEdit(c, id, newId)
      PROVE  \A d \in Callers : AloneFits(d)'
  <2>1. job'[c] = EditJob(id, newId) /\ pc'[c] = "write" /\ UNCHANGED <<valid, files, tmp>>
    BY <1>3, EditBegins DEF BeginsWith, MovesWith, disk, memory
  <2>2. valid[id].text.id = id
    BY <1>3, EditBegins DEF Shape, WellLoaded, NoRule, Rule, IsUser
  <2>5. AloneFits(c)'
    BY <1>3, <2>1, EditBegins, <2>2 DEF EditJob, Job, Text, AloneFits, Edits, UserIds, IsUser, Renamed, Target
  <2>6. QED BY <2>1, <2>5, OneFits
<1>4. ASSUME NEW c \in Callers, NEW newId \in Ids, NEW f \in invalid \cup {0}, SaveNew(c, newId, f)
      PROVE  \A d \in Callers : AloneFits(d)'
  <2>1. job'[c] = NewJob(newId, f) /\ pc'[c] = "write" /\ UNCHANGED <<valid, files, tmp>>
    BY <1>4, NewBegins DEF BeginsWith, MovesWith, disk, memory
  <2>5. AloneFits(c)'
    BY <1>4, <2>1, NewBegins DEF NewJob, Job, Text, NoRule, Rule, AloneFits, Edits, UserIds, IsUser, Renamed, Target
  <2>6. QED BY <2>1, <2>5, OneFits
<1>5. ASSUME NEW c \in Callers, NEW ids \in Batches, Import(c, ids)
      PROVE  \A d \in Callers : AloneFits(d)'
  <2>1. job'[c] = ImportJob(ids) /\ pc'[c] = "next" /\ UNCHANGED <<valid, files, tmp>>
    BY <1>5, ImportBegins DEF BeginsWith, MovesWith, disk, memory
  <2>5. AloneFits(c)'
    BY <1>5, <2>1, ImportBegins DEF ImportJob, NoRule, Rule, Text, AloneFits, Edits, UserIds, IsUser, Renamed, Target
  <2>6. QED BY <2>1, <2>5, OneFits
<1>6. ASSUME NEW c \in Callers, Reload(c)
      PROVE  \A d \in Callers : AloneFits(d)'
  <2>1. pc'[c] = "list"
    BY <1>6, ReloadBegins DEF BeginsWith, MovesWith
  <2>2. QED BY <2>1, OneFits, NothingToFit
<1>7. ASSUME NEW c \in Callers, NEW id \in Ids, Delete(c, id)
      PROVE  \A d \in Callers : AloneFits(d)'
  <2>1. CASE Fault /\ UNCHANGED <<pc, job, scan>>
    <3>1. Alone(c) /\ pc[c] = "idle"
      BY <1>7 DEF Delete, Call, At, Apart
    <3>2. QED BY <2>1, <3>1, AllIdleFits DEF Alone, At
  <2>2. CASE BeginsWith(c, "unlink", DeleteJob(id))
    <3>1. job'[c] = DeleteJob(id) /\ pc'[c] = "unlink" /\ UNCHANGED valid
      BY <1>7, <2>2, DeleteBegins DEF BeginsWith, MovesWith
    <3>2. valid[id].text.id = id
      BY <1>7, DeleteBegins DEF Shape, WellLoaded, NoRule, Rule, IsUser
    <3>3. AloneFits(c)'
      BY <3>1, <3>2 DEF DeleteJob, Job, AloneFits, Edits
    <3>4. QED BY <3>1, <3>3, OneFits
  <2>3. QED BY <1>7, <2>1, <2>2, DeleteBegins
<1>8. ASSUME NEW c \in Callers, ImportNext(c)
      PROVE  \A d \in Callers : AloneFits(d)'
  <2>0. /\ pc[c] = "next" /\ job[c] \in Jobs /\ job[c].op = "import" /\ ~IsUser(job[c].old)
        /\ Apart /\ UserIds \subseteq job[c].claimed /\ valid' = valid /\ together' = together
    BY <1>8, ImportMoves DEF Shape, TypeOK, JobFits, history, memory, Apart, Lone, AloneFits
  <2>1. CASE MovesTo(c, "list")
    BY <2>0, <2>1, GoesOnFits DEF MovesTo, MovesWith
  <2>2. CASE Passes(c)
    <3>1. pc'[c] = "next" /\ job'[c] = [job[c] EXCEPT !.queue = Tail(@)]
      BY <2>2 DEF Passes, MovesWith
    <3>2. job'[c].claimed = job[c].claimed
      BY <2>0, <3>1 DEF Jobs
    <3>3. AloneFits(c)'
      BY <2>0, <3>1, <3>2 DEF AloneFits, Edits, UserIds
    <3>4. QED BY <3>1, <3>3, OneFits
  <2>3. CASE WritesNext(c)
    <3>1. /\ pc'[c] = "write" /\ Head(job[c].queue).id \notin job[c].claimed
          /\ job'[c] = [job[c] EXCEPT !.queue = Tail(@), !.text = Head(job[c].queue)]
      BY <2>3 DEF WritesNext, MovesWith
    <3>2. /\ job'[c].claimed = job[c].claimed /\ job'[c].text = Head(job[c].queue)
          /\ job'[c].old = job[c].old
      BY <2>0, <3>1 DEF Jobs
    <3>3. AloneFits(c)'
      BY <2>0, <3>1, <3>2 DEF AloneFits, Edits, UserIds, IsUser
    <3>4. QED BY <3>1, <3>3, OneFits
  <2>4. QED BY <1>8, <2>1, <2>2, <2>3, ImportMoves
<1>9. ASSUME NEW c \in Callers, WriteTmp(c)
      PROVE  \A d \in Callers : AloneFits(d)'
  <2>0. /\ pc[c] = "write" /\ Edits(c) /\ JobFits(c) /\ AloneFits(c) /\ Target(c) \in Files
        /\ Apart /\ valid' = valid /\ together' = together /\ job[c] \in Jobs
    BY <1>9, WriteMoves, FileNames
    DEF Shape, TypeOK, JobFits, Edits, history, memory, Apart, Lone, Target
  <2>1. CASE Fails(c)
    BY <2>0, <2>1, FailsAlone
  <2>2. CASE tmp' = [tmp EXCEPT ![Target(c)] = job[c].text] /\ MovesTo(c, "install")
    <3>1. pc'[c] = "install" /\ job'[c] = job[c]
      BY <2>2 DEF MovesTo, MovesWith
    <3>2. tmp'[Target(c)] = job[c].text
      BY <2>0, <2>2 DEF Shape, TypeOK
    <3>3. AloneFits(c)'
      BY <2>0, <3>1, <3>2 DEF AloneFits, Edits, UserIds, IsUser, Renamed, Target
    <3>4. QED BY <3>1, <3>3, OneFits
  <2>3. QED BY <1>9, <2>1, <2>2, WriteMoves
<1>10. ASSUME NEW c \in Callers, Install(c)
      PROVE  \A d \in Callers : AloneFits(d)'
  <2>0. /\ pc[c] = "install" /\ Edits(c) /\ JobFits(c) /\ AloneFits(c) /\ Target(c) \in Files
        /\ Apart /\ valid' = valid /\ together' = together /\ job[c] \in Jobs
    BY <1>10, InstallMoves, FileNames
    DEF Shape, TypeOK, JobFits, Edits, history, memory, Apart, Lone, Target
  <2>1. CASE Fails(c)
    BY <2>0, <2>1, FailsAlone
  <2>2. CASE Installs(c)
    <3>1. pc'[c] = AfterInstall(c) /\ job'[c] = Claimed(c)
      BY <2>2 DEF Installs, MovesWith
    <3>2. /\ job'[c].op = job[c].op /\ job'[c].text = job[c].text /\ job'[c].old = job[c].old
          /\ job[c].claimed \subseteq job'[c].claimed
      BY <2>0, <3>1 DEF Claimed, Jobs
    <3>3. files'[Target(c)] = job[c].text
      BY <2>0, <2>2 DEF Installs, AloneFits, Shape, TypeOK
    <3>4. AloneFits(c)' /\ pc'[c] # "idle"
      BY <2>0, <3>1, <3>2, <3>3
      DEF AfterInstall, AloneFits, Edits, UserIds, IsUser, Renamed, Target
    <3>5. QED BY <3>4, OneFits
  <2>3. QED BY <1>10, <2>1, <2>2, InstallMoves
<1>11. ASSUME NEW c \in Callers, Retire(c)
      PROVE  \A d \in Callers : AloneFits(d)'
  <2>0. /\ pc[c] = "retire" /\ JobFits(c) /\ AloneFits(c) /\ Target(c) \in Files
        /\ together' = together
    BY <1>11, RetireMoves, FileNames DEF Shape, JobFits, Moves, Apart, Lone, Target, history
  <2>1. CASE Returns(c)
    BY <2>0, <2>1, GoesOnFits
  <2>2. CASE files' = [files EXCEPT ![job[c].old.file] = Absent] /\ MovesTo(c, "toggle")
    <3>1. pc'[c] = "toggle" /\ job'[c] = job[c]
      BY <2>2 DEF MovesTo, MovesWith
    <3>2. job[c].old.file # Target(c) => files'[Target(c)] = job[c].text
      BY <2>0, <2>2 DEF Shape, TypeOK, AloneFits
    <3>3. AloneFits(c)'
      BY <3>1, <3>2 DEF AloneFits, Edits, Target
    <3>4. QED BY <3>1, <3>3, OneFits
  <2>3. QED BY <1>11, <2>1, <2>2, RetireMoves
<1>12. ASSUME NEW c \in Callers, MoveToggle(c)
      PROVE  \A d \in Callers : AloneFits(d)'
  BY <1>12, ToggleMoves, GoesOnFits DEF MovesTo, MovesWith, history
<1>13. ASSUME NEW c \in Callers, Replace(c)
      PROVE  \A d \in Callers : AloneFits(d)'
  BY <1>13, ReplaceMoves, GoesOnFits DEF MovesTo, MovesWith, history
<1>14. ASSUME NEW c \in Callers, Unlink(c)
      PROVE  \A d \in Callers : AloneFits(d)'
  BY <1>14, UnlinkMoves, GoesOnFits DEF MovesTo, MovesWith, history
<1>15. ASSUME NEW c \in Callers, ListDir(c)
      PROVE  \A d \in Callers : AloneFits(d)'
  <2>1. CASE Returns(c) /\ UNCHANGED together
    BY <1>15, <2>1, ListMoves, GoesOnFits
  <2>2. CASE ScansTo(c, FirstScan)
    BY <2>2, OneFits, NothingToFit DEF ScansTo
  <2>3. QED BY <1>15, <2>1, <2>2, ListMoves
<1>16. ASSUME NEW c \in Callers, ScanFile(c)
      PROVE  \A d \in Callers : AloneFits(d)'
  BY <1>16, ScanMoves, GoesOnFits DEF MovesTo, MovesWith, history, ScansTo
<1>17. ASSUME NEW c \in Callers, InstallScan(c)
      PROVE  \A d \in Callers : AloneFits(d)'
  BY <1>17, InstallScanMoves, GoesOnFits DEF MovesTo, MovesWith, history
<1>18. ASSUME NEW c \in Callers, SaveReturns(c)
      PROVE  \A d \in Callers : AloneFits(d)'
  BY <1>18, FoundMoves, GoesOnFits DEF MovesTo, MovesWith, history
<1>19. CASE UNCHANGED vars
  <2>1. UNCHANGED <<pc, job, valid, files, tmp, together>>
    BY <1>19 DEF vars, disk, memory, history
  <2>2. QED BY <2>1 DEF Lone, Apart, AloneFits, Edits, UserIds, IsUser, Renamed, Target
<1>20. QED
  BY <1>1, <1>2, <1>3, <1>4, <1>5, <1>6, <1>7, <1>8, <1>9, <1>10, <1>11, <1>12,
     <1>13, <1>14, <1>15, <1>16, <1>17, <1>18, <1>19
  DEF Next, Begin, Continue

LEMMA LoneStep ==
    ASSUME Shape, Lone, [Next]_vars
    PROVE  Lone'
BY ShapeStep, AloneStep DEF Lone

-----------------------------------------------------------------------------
(* What a scan that nothing disturbs has found.                               *)

LEMMA RejectedOnDisk == Rejected(files) \subseteq OnDisk
BY DEF Rejected, OnDisk

LEMMA ClaimsOnDisk ==
    ASSUME NEW id \in Ids
    PROVE  Claims(files, id) \subseteq OnDisk
BY DEF Claims, OnDisk, Absent, Text, Ids

LEMMA ScanBegins ==
    ASSUME NEW c \in Callers, scan'[c] = FirstScan, UNCHANGED <<files, enabled>>
    PROVE  ScanExact(c)'
<1>1. /\ scan'[c].left = OnDisk /\ scan'[c].invalid = {}
      /\ scan'[c].valid = Builtins(enabled)
  BY DEF FirstScan
<1>2. OnDisk' = OnDisk
  BY DEF OnDisk
<1>3. \A id \in Ids : Claims(files', id) \ scan'[c].left = {}
  BY <1>1, ClaimsOnDisk
<1>4. Rejected(files') \ scan'[c].left = {}
  BY <1>1, RejectedOnDisk
<1>5. QED BY <1>1, <1>2, <1>3, <1>4 DEF ScanExact, ScannedOf

\* The rule a scan holds for an id is the first file it has read of those that claim it.
LEMMA ScanHolds ==
    ASSUME TypeOK, NEW c \in Callers, ScanExact(c), NEW id \in Ids, ScannedOf(c, id) # {}
    PROVE  \E m \in ScannedOf(c, id) :
              /\ \A g \in ScannedOf(c, id) : m <= g
              /\ scan[c].valid[id] = Rule(files[m], m, EnabledFor(enabled, id))
              /\ IsUser(scan[c].valid[id])
<1>1. ScannedOf(c, id) \subseteq Files
  BY DEF ScannedOf, Claims
<1>2. PICK m \in ScannedOf(c, id) : \A g \in ScannedOf(c, id) : m <= g
  BY <1>1, FirstFile
<1>3. scan[c].valid[id] = Rule(files[m], m, EnabledFor(enabled, id))
  BY <1>2 DEF ScanExact
<1>4. m # 0
  BY <1>1, FileNames
<1>5. QED BY <1>2, <1>3, <1>4 DEF IsUser, Rule

LEMMA ScanHoldsNone ==
    ASSUME NEW c \in Callers, ScanExact(c), NEW id \in Ids, ScannedOf(c, id) = {}
    PROVE  ~IsUser(scan[c].valid[id])
<1>1. Builtins(enabled)[id].file = 0
  BY DEF Builtins, Rule, NoRule
<1>2. QED BY <1>1 DEF ScanExact, IsUser

LEMMA ScanReads ==
    ASSUME TypeOK, NEW c \in Callers, ScanExact(c), scan[c].left # {},
           scan'[c] = AfterFile(c), UNCHANGED <<files, enabled>>
    PROVE  ScanExact(c)'
<1> DEFINE f == ReadFile(c)
           s == scan[c]
           t == AfterFile(c)
           id == files[f].id
           After(i) == Claims(files, i) \ t.left
<1>1. /\ f \in s.left /\ f \in Files /\ f \in OnDisk
      /\ \A g \in s.left : f <= g
      /\ IsRule(files[f]) => id \in Ids
  BY ReadFileFacts DEF ScanExact
<1>2. /\ t.left = s.left \ {f}
      /\ \A i \in Ids : t.valid[i] = IF FileFits(c) /\ i = id THEN ReadRule(c) ELSE s.valid[i]
      /\ t.invalid = IF FileFits(c) THEN s.invalid ELSE s.invalid \cup {f}
  BY <1>1 DEF AfterFile, FileFits, TypeOK, Scans
<1>3. /\ OnDisk \subseteq Files /\ Files \subseteq Nat
      /\ s.left \subseteq OnDisk
      /\ \A x \in OnDisk \ s.left, g \in s.left : x < g
  BY FileNames DEF OnDisk, ScanExact
<1>4. \A i \in Ids : After(i) = ScannedOf(c, i) \cup {x \in {f} : i = id}
  BY <1>1, <1>2 DEF ScannedOf, Claims
<1>5. \A i \in Ids : ScannedOf(c, i) \subseteq OnDisk \ s.left
  BY ClaimsOnDisk DEF ScannedOf
<1>6. IsRule(files[f]) => (FileFits(c) <=> ScannedOf(c, id) = {})
  BY <1>1, ScanHolds, ScanHoldsNone DEF FileFits
<1>7. \A x \in OnDisk \ t.left, g \in t.left : x < g
  <2>1. TAKE x \in OnDisk \ t.left, g \in t.left
  <2>2. CASE x = f
    <3>1. g \in Nat /\ f \in Nat /\ f <= g /\ g # f
      BY <1>1, <1>2, <1>3
    <3>2. QED BY <2>2, <3>1
  <2>3. CASE x # f
    BY <1>2, <1>3, <2>3
  <2>4. QED BY <2>2, <2>3
<1>8. \A i \in Ids : After(i) = {} => t.valid[i] = Builtins(enabled)[i]
  <2>1. TAKE i \in Ids
  <2>2. HAVE After(i) = {}
  <2>3. i # id /\ ScannedOf(c, i) = {}
    BY <1>4, <2>2
  <2>4. QED BY <1>2, <2>3 DEF ScanExact
<1>9. ASSUME NEW i \in Ids, NEW x \in After(i), \A g \in After(i) : x <= g
      PROVE  t.valid[i] = Rule(files[x], x, EnabledFor(enabled, i))
  <2>1. CASE i # id
    BY <1>2, <1>4, <1>9, <2>1 DEF ScanExact
  <2>2. CASE i = id /\ ScannedOf(c, id) = {}
    <3>1. x = f /\ IsRule(files[f])
      BY <1>4, <2>2 DEF IsRule, Ids
    <3>2. QED BY <1>2, <1>6, <2>2, <3>1 DEF ReadRule
  <2>3. CASE i = id /\ ScannedOf(c, id) # {}
    <3>1. IsRule(files[f])
      BY <2>3 DEF IsRule, Ids
    <3>2. PICK m \in ScannedOf(c, i) : m \in OnDisk \ s.left
      BY <1>5, <2>3
    <3>3. m < f /\ x <= m /\ m \in Nat /\ f \in Nat /\ x \in Nat
      BY <1>1, <1>3, <1>4, <1>9, <3>2, FileNames DEF Claims
    <3>4. x \in ScannedOf(c, i)
      BY <1>4, <3>3
    <3>5. t.valid[i] = s.valid[i]
      BY <1>2, <1>6, <2>3, <3>1
    <3>6. QED BY <1>4, <1>9, <3>4, <3>5 DEF ScanExact
  <2>4. QED BY <2>1, <2>2, <2>3
<1>10. t.invalid = Rejected(files) \ t.left
  <2>1. f \in Rejected(files) <=> ~FileFits(c)
    <3>1. CASE ~IsRule(files[f])
      BY <1>1, <3>1 DEF Rejected, FileFits, OnDisk
    <3>2. CASE IsRule(files[f])
      <4>1. (\E g \in Claims(files, id) : g < f) <=> ScannedOf(c, id) # {}
        <5>1. ASSUME NEW g \in Claims(files, id), g < f
              PROVE  g \in ScannedOf(c, id)
          <6>1. g \notin s.left
            <7>1. g \in Nat /\ f \in Nat
              <8>1. g \in Files
                BY <5>1 DEF Claims
              <8>2. QED BY <1>1, <1>3, <8>1
            <7>2. QED BY <1>1, <5>1, <7>1
          <6>2. QED BY <5>1, <6>1 DEF ScannedOf
        <5>2. ASSUME NEW g \in ScannedOf(c, id)
              PROVE  g \in Claims(files, id) /\ g < f
          BY <1>1, <1>3, <1>5, <3>2 DEF ScannedOf
        <5>3. QED BY <5>1, <5>2
      <4>2. QED BY <1>1, <1>6, <3>2, <4>1 DEF Rejected, OnDisk
    <3>3. QED BY <3>1, <3>2
  <2>2. s.invalid = Rejected(files) \ s.left
    BY DEF ScanExact
  <2>3. QED BY <1>1, <1>2, <2>1, <2>2
<1>11. t.left \subseteq OnDisk /\ OnDisk' = OnDisk
  BY <1>2, <1>3 DEF OnDisk
<1> HIDE DEF f, s, t, id
<1>12. QED BY <1>7, <1>8, <1>9, <1>10, <1>11 DEF ScanExact, ScannedOf, t

LEMMA ScanEnds ==
    ASSUME TypeOK, NEW c \in Callers, ScanExact(c), scan[c].left = {}
    PROVE  scan[c].valid = Loaded(files, enabled) /\ scan[c].invalid = Rejected(files)
<1>1. ASSUME NEW id \in Ids
      PROVE  scan[c].valid[id] = Loaded(files, enabled)[id]
  <2>1. ScannedOf(c, id) = Claims(files, id)
    BY DEF ScannedOf
  <2>2. CASE Claims(files, id) = {}
    BY <2>1, <2>2 DEF ScanExact, Loaded
  <2>3. CASE Claims(files, id) # {}
    <3>1. Min(Claims(files, id)) \in Claims(files, id)
          /\ \A g \in Claims(files, id) : Min(Claims(files, id)) <= g
      BY <2>3, FirstFile DEF Claims
    <3>2. QED BY <2>1, <2>3, <3>1 DEF ScanExact, Loaded
  <2>4. QED BY <2>2, <2>3
<1>2. scan[c].valid \in [Ids -> Rules]
  BY DEF TypeOK, Scans
<1>3. Loaded(files, enabled) = [id \in Ids |-> Loaded(files, enabled)[id]]
  BY DEF Loaded
<1>4. scan[c].valid = Loaded(files, enabled)
  BY <1>1, <1>2, <1>3
<1>5. QED BY <1>4 DEF ScanExact

-----------------------------------------------------------------------------
(* What is loaded is what the directory says.                                 *)

LEMMA OneReads ==
    ASSUME Solo', Apart', NEW c \in Callers, pc'[c] # "idle", ReadsTrue(c)',
           Untouched(c)' => Exact'
    PROVE  Truthful'
BY DEF Solo, At, ReadsTrue, Edits, Truthful

LEMMA NoneReads ==
    ASSUME \A d \in Callers : pc'[d] = "idle", Exact'
    PROVE  Truthful'
BY DEF Truthful, ReadsTrue, Edits

\* A call at work on the directory answers for nothing that is loaded.
LEMMA AtWork ==
    ASSUME Solo', Apart', NEW c \in Callers,
           \/ pc'[c] \in {"list", "next", "retire", "toggle", "unlink"}
           \/ pc'[c] = "write" /\ job'[c].op # "save"
    PROVE  Truthful'
<1>1. pc'[c] # "idle" /\ ~Untouched(c)' /\ ReadsTrue(c)'
  BY DEF Untouched, ReadsTrue, Edits
<1>2. QED BY <1>1, OneReads

LEMMA StillExact ==
    ASSUME Exact, UNCHANGED <<files, enabled, valid, invalid>>
    PROVE  Exact'
BY DEF Exact

\* Before a call begins alone, and while an edit has not written, all is exact.
LEMMA ExactBefore ==
    ASSUME Solo, Apart, Truthful, NEW c \in Callers, Untouched(c), pc[c] # "idle" \/ Alone(c)
    PROVE  Exact
BY DEF Solo, At, Alone, Untouched, Truthful

LEMMA LoadedToggle ==
    ASSUME NEW dir \in [Files -> Texts], NEW before, NEW after, NEW id \in Ids,
           \A i \in Ids \ {id} : EnabledFor(after, i) = EnabledFor(before, i),
           NEW rules, rules = Loaded(dir, before), rules[id] # NoRule,
           NEW new \in [Ids -> Rules], \A i \in Ids \ {id} : new[i] = rules[i],
           new[id] = Rule(rules[id].text, rules[id].file, EnabledFor(after, id))
    PROVE  new = Loaded(dir, after)
<1>1. Loaded(dir, after) \in [Ids -> Rules]
  BY LoadedTyped
<1>2. \A i \in Ids \ {id} : Loaded(dir, after)[i] = rules[i]
  BY DEF Loaded, Builtins
<1>3. Loaded(dir, after)[id] = Rule(rules[id].text, rules[id].file, EnabledFor(after, id))
  BY DEF Loaded, Builtins, Rule
<1>4. QED BY <1>1, <1>2, <1>3

LEMMA TruthStep ==
    ASSUME Shape, Shape', Lone, Reliable, Settled', [Next]_vars
    PROVE  Truthful'
<1>0. TypeOK /\ Solo /\ Solo' /\ Apart' /\ \A d \in Callers : JobFits(d)
  BY DEF Shape, Settled
<1> USE <1>0
<1>1. ASSUME Crash
      PROVE  Truthful'
  <2>1. Exact'
    BY <1>1 DEF Crash, Exact, disk
  <2>2. QED BY <1>1, <2>1, CrashMoves, NoneReads
<1>2. ASSUME NEW c \in Callers, NEW id \in Ids, NEW on \in BOOLEAN, SetEnabled(c, id, on)
      PROVE  Truthful'
  <2>1. Alone(c) /\ pc[c] = "idle" /\ Apart /\ UNCHANGED <<pc, files, invalid>> /\ Exact
    <3>1. Alone(c) /\ pc[c] = "idle" /\ Apart /\ UNCHANGED <<pc, files, invalid>>
      BY <1>2 DEF SetEnabled, Call, At, Apart
    <3>2. UNCHANGED failing
      BY <1>2 DEF SetEnabled, Fault, Settled
    <3>3. QED BY <3>1, <3>2, ExactBefore DEF Untouched, Settled, Reliable, failing
  <2>2. valid' = Loaded(files, enabled')
    <3>1. valid = Loaded(files, enabled) /\ valid[id] # NoRule
      BY <1>2, <2>1 DEF SetEnabled, Exact
    <3>2. /\ valid' = [valid EXCEPT ![id].on = on]
          /\ enabled' = [enabled EXCEPT ![id] = IF on THEN "on" ELSE "off"]
      BY <1>2 DEF SetEnabled
    <3>3. files \in [Files -> Texts] /\ enabled \in Toggles /\ valid \in [Ids -> Rules]
      BY DEF TypeOK
    <3>4. valid' \in [Ids -> Rules] /\ \A i \in Ids \ {id} : valid'[i] = valid[i]
      BY <3>2, <3>3 DEF Shape, TypeOK
    <3>5. \A i \in Ids \ {id} : EnabledFor(enabled', i) = EnabledFor(enabled, i)
      BY <3>2, <3>3 DEF EnabledFor, Toggles
    <3>6. EnabledFor(enabled', id) = on
      BY <3>2, <3>3 DEF EnabledFor, Toggles
    <3>7. valid'[id] = Rule(valid[id].text, valid[id].file, on)
      BY <3>2, <3>3 DEF Rule, Rules
    <3>8. valid'[id] = Rule(valid[id].text, valid[id].file, EnabledFor(enabled', id))
      BY <3>6, <3>7, Zenon
    <3>9. QED BY <3>1, <3>3, <3>4, <3>5, <3>8, LoadedToggle
  <2>3. Exact'
    BY <2>1, <2>2 DEF Exact
  <2>4. QED BY <2>1, <2>3, NoneReads DEF Alone, At
<1>3. ASSUME NEW c \in Callers, NEW id \in Ids, NEW newId \in Ids, SaveEdit(c, id, newId)
      PROVE  Truthful'
  <2>1. /\ Alone(c) /\ pc[c] = "idle" /\ Settled /\ UNCHANGED <<files, enabled, valid, invalid>>
        /\ pc'[c] = "write" /\ job'[c] = EditJob(id, newId)
    BY <1>3, EditBegins DEF BeginsWith, MovesWith, disk, memory, failing, Settled, Apart
  <2>2. Exact'
    BY <2>1, ExactBefore, StillExact DEF Untouched, Settled, Reliable
  <2>3. ReadsTrue(c)'
    BY <2>1 DEF ReadsTrue, EditJob, Job
  <2>4. QED BY <2>1, <2>2, <2>3, OneReads
<1>4. ASSUME NEW c \in Callers, NEW newId \in Ids, NEW f \in invalid \cup {0}, SaveNew(c, newId, f)
      PROVE  Truthful'
  <2>1. /\ Alone(c) /\ pc[c] = "idle" /\ Settled /\ UNCHANGED <<files, enabled, valid, invalid>>
        /\ pc'[c] = "write" /\ job'[c] = NewJob(newId, f)
    BY <1>4, NewBegins DEF BeginsWith, MovesWith, disk, memory, failing, Settled, Apart
  <2>2. Exact'
    BY <2>1, ExactBefore, StillExact DEF Untouched, Settled, Reliable
  <2>3. ReadsTrue(c)'
    BY <2>1 DEF ReadsTrue, NewJob, Job
  <2>4. QED BY <2>1, <2>2, <2>3, OneReads
<1>5. ASSUME NEW c \in Callers, NEW ids \in Batches, Import(c, ids)
      PROVE  Truthful'
  BY <1>5, ImportBegins, AtWork DEF BeginsWith, MovesWith
<1>6. ASSUME NEW c \in Callers, Reload(c)
      PROVE  Truthful'
  BY <1>6, ReloadBegins, AtWork DEF BeginsWith, MovesWith
<1>7. ASSUME NEW c \in Callers, NEW id \in Ids, Delete(c, id)
      PROVE  Truthful'
  BY <1>7, DeleteBegins, AtWork DEF BeginsWith, MovesWith, Fault, Settled
<1>8. ASSUME NEW c \in Callers, ImportNext(c)
      PROVE  Truthful'
  <2>1. CASE MovesTo(c, "list")
    BY <2>1, AtWork DEF MovesTo, MovesWith
  <2>2. CASE Passes(c)
    BY <2>2, AtWork DEF Passes, MovesWith
  <2>3. CASE WritesNext(c)
    <3>1. pc'[c] = "write" /\ job'[c] = [job[c] EXCEPT !.queue = Tail(@), !.text = Head(job[c].queue)]
      BY <2>3 DEF WritesNext, MovesWith
    <3>2. job'[c].op = job[c].op /\ job[c].op = "import"
      BY <1>8, <3>1, ImportMoves DEF TypeOK, Jobs, JobFits
    <3>3. QED BY <3>1, <3>2, AtWork
  <2>4. QED BY <1>8, <2>1, <2>2, <2>3, ImportMoves
<1>9. ASSUME NEW c \in Callers, WriteTmp(c)
      PROVE  Truthful'
  <2>1. MovesTo(c, "install") /\ UNCHANGED <<files, memory, failing, together>> /\ pc[c] = "write"
    BY <1>9, WriteMoves DEF Fault, Settled, history
  <2>2. pc'[c] = "install" /\ job'[c] = job[c] /\ Truthful /\ Apart
    BY <2>1 DEF MovesTo, MovesWith, Reliable, Settled, Apart, failing
  <2>3. ReadsTrue(c)'
    BY <2>1, <2>2 DEF Truthful, ReadsTrue, Edits, memory
  <2>4. ASSUME Untouched(c)'
        PROVE  Exact'
    <3>1. Untouched(c)
      BY <2>1, <2>2, <2>4 DEF Untouched, Edits
    <3>2. QED BY <2>1, <2>2, <3>1, ExactBefore, StillExact DEF memory
  <2>5. QED BY <2>2, <2>3, <2>4, OneReads
<1>10. ASSUME NEW c \in Callers, Install(c)
      PROVE  Truthful'
  <2>0. job[c].text.id \in Ids /\ Target(c) \in Files /\ pc[c] = "install" /\ job[c] \in Jobs
    BY <1>10, InstallMoves, FileNames DEF JobFits, Edits, Target, TypeOK
  <2>1. Apart /\ tmp[Target(c)] # Absent
    <3>1. Apart
      BY <1>10, InstallMoves DEF Settled, Apart
    <3>2. tmp[Target(c)] = job[c].text
      BY <2>0, <3>1 DEF Lone, AloneFits
    <3>3. QED BY <2>0, <3>1, <3>2 DEF Absent, Text, Ids
  <2>2. Installs(c) /\ Truthful
    BY <1>10, <2>1, InstallMoves DEF Fault, Settled, Reliable, Installs, failing
  <2>3. pc'[c] = AfterInstall(c) /\ job'[c] = Claimed(c) /\ job'[c].replace = job[c].replace
    BY <2>0, <2>2 DEF Installs, MovesWith, Claimed, Jobs
  <2>4. CASE AfterInstall(c) # "replace"
    <3>1. pc'[c] \in {"next", "retire", "list"}
      BY <2>3, <2>4 DEF AfterInstall
    <3>2. QED BY <3>1, AtWork
  <2>5. CASE AfterInstall(c) = "replace"
    <3>1. job[c].op = "save" /\ job[c].replace # 0
      BY <2>0, <2>5 DEF AfterInstall, JobFits, Edits
    <3>2. Exact /\ job[c].replace \in invalid
      BY <2>0, <2>1, <2>2, <3>1, ExactBefore DEF Truthful, ReadsTrue, Untouched, Edits
    <3>3. files[job[c].replace] # Absent /\ job[c].replace \in Files
      BY <3>2 DEF Exact, Rejected
    <3>4. files'[job[c].replace] # Absent
      BY <2>0, <2>1, <2>2, <3>3 DEF Installs, TypeOK
    <3>5. ReadsTrue(c)' /\ ~Untouched(c)'
      BY <2>3, <2>5, <3>4 DEF ReadsTrue, Untouched, Edits
    <3>6. QED BY <2>3, <2>5, <3>5, OneReads
  <2>6. QED BY <2>4, <2>5
<1>11. ASSUME NEW c \in Callers, Retire(c)
      PROVE  Truthful'
  BY <1>11, RetireMoves, AtWork DEF MovesTo, MovesWith, Fault, Settled
<1>12. ASSUME NEW c \in Callers, MoveToggle(c)
      PROVE  Truthful'
  BY <1>12, ToggleMoves, AtWork DEF MovesTo, MovesWith, Fault, Settled
<1>13. ASSUME NEW c \in Callers, Replace(c)
      PROVE  Truthful'
  <2>1. files[job[c].replace] # Absent \/ Fault
    BY <1>13, ReplaceMoves
    DEF Reliable, Truthful, ReadsTrue, Settled, Apart, history, failing
  <2>2. MovesTo(c, "list")
    BY <1>13, <2>1, ReplaceMoves DEF Fault, Settled
  <2>3. QED BY <2>2, AtWork DEF MovesTo, MovesWith
<1>14. ASSUME NEW c \in Callers, Unlink(c)
      PROVE  Truthful'
  BY <1>14, UnlinkMoves, AtWork DEF MovesTo, MovesWith, Fault, Settled
<1>15. ASSUME NEW c \in Callers, ListDir(c)
      PROVE  Truthful'
  <2>1. ScansTo(c, FirstScan) /\ UNCHANGED <<files, enabled>>
    BY <1>15, ListMoves DEF Fault, Settled, disk, memory
  <2>2. ScanExact(c)' /\ pc'[c] = "scan"
    BY <2>1, ScanBegins DEF ScansTo
  <2>3. ReadsTrue(c)' /\ ~Untouched(c)'
    BY <2>2 DEF ReadsTrue, Untouched, Edits
  <2>4. QED BY <2>2, <2>3, OneReads
<1>16. ASSUME NEW c \in Callers, ScanFile(c)
      PROVE  Truthful'
  <2>1. /\ pc[c] = "scan" /\ ScansTo(c, AfterFile(c)) /\ scan[c].left # {} /\ Settled
        /\ UNCHANGED <<files, enabled>>
    BY <1>16, ScanMoves DEF disk, memory, history, failing, Settled, Apart
  <2>2. ScanExact(c)' /\ pc'[c] = "scan"
    BY <2>1, ScanReads DEF ScansTo, Reliable, Truthful, ReadsTrue
  <2>3. ReadsTrue(c)' /\ ~Untouched(c)'
    BY <2>2 DEF ReadsTrue, Untouched, Edits
  <2>4. QED BY <2>2, <2>3, OneReads
<1>17. ASSUME NEW c \in Callers, InstallScan(c)
      PROVE  Truthful'
  <2>1. /\ pc[c] = "scan" /\ scan[c].left = {} /\ Settled /\ UNCHANGED <<files, enabled>>
        /\ valid' = scan[c].valid /\ invalid' = scan[c].invalid
        /\ Returns(c) \/ pc'[c] = "found"
    BY <1>17, InstallScanMoves DEF disk, history, failing, Settled, Apart, MovesTo, MovesWith
  <2>2. Exact'
    BY <2>1, ScanEnds DEF Reliable, Truthful, ReadsTrue, Exact
  <2>3. CASE Returns(c)
    BY <2>1, <2>2, <2>3, EndsIdle, NoneReads DEF Settled
  <2>4. CASE pc'[c] = "found"
    <3>1. ReadsTrue(c)'
      BY <2>4 DEF ReadsTrue, Edits
    <3>2. QED BY <2>2, <2>4, <3>1, OneReads
  <2>5. QED BY <2>1, <2>3, <2>4
<1>18. ASSUME NEW c \in Callers, SaveReturns(c)
      PROVE  Truthful'
  <2>1. /\ pc[c] = "found" /\ Returns(c) /\ Settled
        /\ UNCHANGED <<files, enabled, valid, invalid>>
    BY <1>18, FoundMoves DEF disk, memory, history, failing, Settled, Apart
  <2>2. Exact'
    BY <2>1, ExactBefore, StillExact DEF Untouched, Settled, Reliable
  <2>3. QED BY <2>1, <2>2, EndsIdle, NoneReads DEF Settled
<1>19. CASE UNCHANGED vars
  <2>1. UNCHANGED <<pc, job, scan, files, enabled, valid, invalid, together, faulted>>
    BY <1>19 DEF vars, disk, memory, history, failing
  <2>2. Truthful
    BY <2>1 DEF Reliable, Settled, Apart
  <2>3. QED BY <2>1, <2>2
        DEF Truthful, Untouched, Exact, ReadsTrue, Edits, ScanExact, OnDisk, ScannedOf
<1>20. QED
  BY <1>1, <1>2, <1>3, <1>4, <1>5, <1>6, <1>7, <1>8, <1>9, <1>10, <1>11, <1>12,
     <1>13, <1>14, <1>15, <1>16, <1>17, <1>18, <1>19
  DEF Next, Begin, Continue

LEMMA ReliableStep ==
    ASSUME Shape, Lone, Reliable, [Next]_vars
    PROVE  Reliable'
BY ShapeStep, TruthStep DEF Reliable

LEMMA ReliableInit == Init => Reliable
BY NoneReads DEF Init, Reliable, Truthful, Exact, ReadsTrue, Edits

\* Once the directory has been listed by a call that runs alone, the registry holds between
\* calls what the directory and the toggles say (Registry.Reload), whatever happened before.
THEOREM MemoryMatchesDisk == Spec => []MemoryIsDisk
<1>1. Init => Shape /\ Lone /\ Reliable
  BY ShapeInit, AloneInit, ReliableInit
<1>2. Shape /\ Lone /\ Reliable /\ [Next]_vars => (Shape /\ Lone /\ Reliable)'
  BY ShapeStep, LoneStep, ReliableStep
<1>3. Shape /\ Lone /\ Reliable => MemoryIsDisk
  BY DEF Shape, Saved, Reliable, Settled, Truthful, Untouched, Exact, MemoryIsDisk, Quiet
<1>4. QED BY <1>1, <1>2, <1>3, PTL DEF Spec

\* A rename keeps the rule: with its old file gone, the new one holds it.
THEOREM RenamesKeepRules == Spec => []RenameKeepsRule
<1>1. Init => Shape /\ Lone
  BY ShapeInit, AloneInit
<1>2. Shape /\ Lone /\ [Next]_vars => (Shape /\ Lone)'
  BY ShapeStep, LoneStep
<1>3. Shape /\ Lone => RenameKeepsRule
  <2>1. SUFFICES ASSUME Shape, Lone, Apart, NEW c \in Callers, pc[c] = "toggle",
                        job[c].old.file = FileOf(job[c].old.text.id)
                 PROVE  files[Target(c)] = job[c].text
    BY DEF RenameKeepsRule
  <2>2. job[c].old.text.id \in Ids /\ job[c].text.id \in Ids /\ job[c].old.text.id # job[c].text.id
    BY <2>1 DEF Shape, JobFits, Moves, Renamed
  <2>3. job[c].old.file # Target(c)
    BY <2>1, <2>2, FileNames DEF Target
  <2>4. QED BY <2>1, <2>3 DEF Lone, AloneFits
<1>4. QED BY <1>1, <1>2, <1>3, PTL DEF Spec

\* A step that changes the file of a loaded rule changes it for a call about that rule.
Answers(c, id) ==
    \/ IsUser(job[c].old) /\ job[c].old.text.rule = valid[id].text.rule
    \/ job[c].replace = FileOf(id)

\* The file of the rule a call is about is no other rule's.
LEMMA OwnFile ==
    ASSUME Shape, NEW c \in Callers, IsUser(job[c].old), job[c].old.text.id \in Ids,
           valid[job[c].old.text.id] = job[c].old, NEW id \in Ids, valid[id].file = job[c].old.file
    PROVE  Answers(c, id)
<1>1. id = job[c].old.text.id
  BY DEF Shape, WellLoaded, IsUser
<1>2. QED BY <1>1 DEF Answers

LEMMA StepReplaces ==
    ASSUME Shape, Lone, Apart, [Next]_vars, NEW id \in Ids,
           valid[id].file = FileOf(id), files'[FileOf(id)] # files[FileOf(id)]
    PROVE  \E c \in Callers : Answers(c, id)
<1>0. TypeOK /\ FileOf(id) \in Files /\ FileOf(id) # 0 /\ \A d \in Callers : JobFits(d) /\ AloneFits(d)
  BY FileNames DEF Shape, Lone
<1>1. ASSUME NEW c \in Callers, Install(c)
      PROVE  Answers(c, id)
  <2>1. Edits(c) /\ job[c].text.id \in Ids /\ Installs(c)
    BY <1>0, <1>1, InstallMoves DEF JobFits, Edits
  <2>2. Target(c) = FileOf(id)
    BY <1>0, <2>1 DEF Installs, TypeOK
  <2>3. job[c].text.id = id
    BY <2>1, <2>2, FileNames DEF Target
  <2>4. id \in UserIds
    BY <1>0 DEF UserIds, IsUser
  <2>5. IsUser(job[c].old) /\ job[c].old.text.id = id
    BY <1>0, <2>1, <2>3, <2>4 DEF AloneFits, Renamed
  <2>6. valid[id] = job[c].old
    BY <1>0, <2>1, <2>5 DEF AloneFits
  <2>7. QED BY <2>5, <2>6 DEF Answers
<1>2. ASSUME NEW c \in Callers, Retire(c)
      PROVE  Answers(c, id)
  <2>1. /\ pc[c] = "retire" /\ IsUser(job[c].old) /\ job[c].old.text.id \in Ids
        /\ valid[job[c].old.text.id] = job[c].old /\ job[c].old.file = FileOf(id)
    BY <1>0, <1>2, RetireMoves DEF TypeOK, JobFits, Moves, Renamed, AloneFits
  <2>2. QED BY <2>1, OwnFile
<1>3. ASSUME NEW c \in Callers, Unlink(c)
      PROVE  Answers(c, id)
  <2>1. /\ pc[c] = "unlink" /\ IsUser(job[c].old) /\ job[c].old.text.id \in Ids
        /\ valid[job[c].old.text.id] = job[c].old /\ job[c].old.file = FileOf(id)
    BY <1>0, <1>3, UnlinkMoves DEF TypeOK, JobFits, AloneFits
  <2>2. QED BY <2>1, OwnFile
<1>4. ASSUME NEW c \in Callers, Replace(c)
      PROVE  Answers(c, id)
  BY <1>0, <1>4, ReplaceMoves DEF TypeOK, Answers
<1>5. CASE UNCHANGED files
  BY <1>5
<1>6. QED
  <2>1. Crash => UNCHANGED files
    BY DEF Crash, disk
  <2>2. ASSUME NEW c \in Callers, Begin(c)
        PROVE  UNCHANGED files
    BY <2>2 DEF Begin, Delete, SetEnabled, SaveEdit, SaveNew, Import, Reload, Start, disk
  <2>3. ASSUME NEW c \in Callers,
               \/ ImportNext(c) \/ WriteTmp(c) \/ MoveToggle(c) \/ ListDir(c)
               \/ ScanFile(c) \/ InstallScan(c) \/ SaveReturns(c)
        PROVE  UNCHANGED files
    BY <2>3 DEF ImportNext, WriteTmp, MoveToggle, ListDir, ScanFile, InstallScan, SaveReturns, disk
  <2>4. UNCHANGED vars => UNCHANGED files
    BY DEF vars, disk
  <2>5. QED BY <1>1, <1>2, <1>3, <1>4, <1>5, <2>1, <2>2, <2>3, <2>4 DEF Next, Continue

\* Nothing silently replaces a rule that exists (save.go): while calls are apart the file of a
\* loaded rule changes in a call about that rule only, or to be repaired.
THEOREM NothingIsReplaced == Spec => NothingReplaced
<1>1. Init => Shape /\ Lone
  BY ShapeInit, AloneInit
<1>2. Shape /\ Lone /\ [Next]_vars => (Shape /\ Lone)'
  BY ShapeStep, LoneStep
<1>3. Shape /\ Lone /\ [Next]_vars =>
         [Apart => \A id \in Ids :
             valid[id].file = FileOf(id) /\ files'[FileOf(id)] # files[FileOf(id)] =>
                 \E c \in Callers : \/ IsUser(job[c].old) /\ job[c].old.text.rule = valid[id].text.rule
                                    \/ job[c].replace = FileOf(id)]_vars
  BY StepReplaces DEF Answers
<1>4. QED BY <1>1, <1>2, <1>3, PTL DEF Spec, NothingReplaced

-----------------------------------------------------------------------------
(* What a change of one file does to the marks.                               *)

LEMMA ClaimsTyped ==
    ASSUME NEW dir \in [Files -> Texts], NEW f \in Files
    PROVE  IsRule(dir[f]) <=> dir[f].id \in Ids
BY FileNames DEF IsRule, Texts, Ids

\* The first file that claims an id is loaded under it.
LEMMA LoadsFirst ==
    ASSUME NEW dir \in [Files -> Texts], NEW toggles, NEW id \in Ids,
           NEW rule, rule = Loaded(dir, toggles)[id]
    PROVE  /\ IsUser(rule) <=> Claims(dir, id) # {}
           /\ IsUser(rule) =>
                 /\ rule.file \in Claims(dir, id) /\ \A g \in Claims(dir, id) : rule.file <= g
                 /\ \A f \in Claims(dir, id) : (\A g \in Claims(dir, id) : f <= g) => f = rule.file
                 /\ rule.text = dir[rule.file] /\ rule.on = EnabledFor(toggles, id)
<1>1. CASE Claims(dir, id) = {}
  BY <1>1 DEF Loaded, Builtins, IsUser, Rule, NoRule
<1>2. CASE Claims(dir, id) # {}
  <2>1. Claims(dir, id) \subseteq Files
    BY DEF Claims
  <2>2. PICK m \in Claims(dir, id) : m = Min(Claims(dir, id))
    BY <1>2, <2>1, FirstFile
  <2>3. \A g \in Claims(dir, id) : m <= g
    BY <1>2, <2>1, <2>2, FirstFile
  <2>4. \A f \in Claims(dir, id) : (\A g \in Claims(dir, id) : f <= g) => f = m
    BY <1>2, <2>1, <2>2, FirstFile
  <2>5. rule = Rule(dir[m], m, EnabledFor(toggles, id)) /\ m # 0
    BY <1>2, <2>1, <2>2, FileNames DEF Loaded
  <2>6. QED BY <1>2, <2>3, <2>4, <2>5 DEF IsUser, Rule
<1>3. QED BY <1>1, <1>2

LEMMA MarkedShrinks ==
    ASSUME NEW dir \in [Files -> Texts], NEW toggles, NEW offs, NEW copies, NEW moving, NEW gone,
           Marked(dir, toggles, offs, copies, moving)
    PROVE  Marked([dir EXCEPT ![gone] = Absent], toggles, offs, copies, moving)
<1> DEFINE new == [dir EXCEPT ![gone] = Absent]
<1>1. \A f \in Files : IsRule(new[f]) => f # gone /\ new[f] = dir[f]
  BY DEF IsRule, Absent, Text
<1>2. \A id \in Ids : Claims(new, id) \subseteq Claims(dir, id)
  BY DEF Claims, Absent, Text, Ids
<1>3. \A f \in Files : IsRule(new[f]) => Claims(new, new[f].id) \subseteq Claims(dir, dir[f].id)
  BY <1>1, <1>2, ClaimsTyped
<1> HIDE DEF new
<1>4. Marked(new, toggles, offs, copies, moving)
  BY <1>1, <1>3 DEF Marked
<1>5. QED BY <1>4 DEF new

\* A rule written to its name's file: a new one,
LEMMA MarkedFresh ==
    ASSUME NEW dir \in [Files -> Texts], NEW toggles, NEW offs, NEW copies, NEW to \in Files,
           NEW text \in Texts, Claims(dir, text.id) = {}, text.rule \notin offs,
           \A f \in Files : dir[f].rule # text.rule,
           Marked(dir, toggles, offs, copies, {})
    PROVE  Marked([dir EXCEPT ![to] = text], toggles, offs, copies, {})
<1> DEFINE new == [dir EXCEPT ![to] = text]
<1>1. new[to] = text /\ \A f \in Files : f # to => new[f] = dir[f]
  OBVIOUS
<1>2. \A f \in Files : dir[f].id # text.id
  BY DEF Claims
<1>3. \A f \in Files : f # to => Claims(new, dir[f].id) \subseteq Claims(dir, dir[f].id)
  BY <1>1, <1>2 DEF Claims
<1> HIDE DEF new
<1>4. Marked(new, toggles, offs, copies, {})
  BY <1>1, <1>3 DEF Marked
<1>5. QED BY <1>4 DEF new

\* an edit where it was read,
LEMMA MarkedAgain ==
    ASSUME NEW dir \in [Files -> Texts], NEW toggles, NEW offs, NEW copies, NEW to \in Files,
           NEW text \in Texts, dir[to].id = text.id, dir[to].rule = text.rule,
           Marked(dir, toggles, offs, copies, {})
    PROVE  Marked([dir EXCEPT ![to] = text], toggles, offs, copies, {})
<1> DEFINE new == [dir EXCEPT ![to] = text]
<1>1. \A f \in Files : new[f].id = dir[f].id /\ new[f].rule = dir[f].rule
  OBVIOUS
<1>2. \A id : Claims(new, id) = Claims(dir, id)
  BY <1>1 DEF Claims
<1>3. \A f \in Files : IsRule(new[f]) <=> IsRule(dir[f])
  BY <1>1 DEF IsRule
<1> HIDE DEF new
<1>4. Marked(new, toggles, offs, copies, {})
  BY <1>1, <1>2, <1>3 DEF Marked
<1>5. QED BY <1>4 DEF new

\* an edit of a rule read elsewhere,
LEMMA MarkedCopied ==
    ASSUME NEW dir \in [Files -> Texts], NEW toggles, NEW offs, NEW copies, NEW to \in Files,
           NEW text \in Texts, text.id \in Ids, NEW from \in Claims(dir, text.id),
           \A f \in Claims(dir, text.id) : (\A g \in Claims(dir, text.id) : f <= g) => f = from,
           text.rule = dir[from].rule,
           Marked(dir, toggles, offs, copies, {})
    PROVE  Marked([dir EXCEPT ![to] = text], toggles,
                  offs \ {text.rule}, copies \cup {text.rule}, {})
<1> DEFINE new == [dir EXCEPT ![to] = text]
<1>1. new[to] = text /\ \A f \in Files : f # to => new[f] = dir[f]
  OBVIOUS
<1>2. \A id : id # text.id => Claims(new, id) \subseteq Claims(dir, id)
  BY <1>1 DEF Claims
<1>3. ASSUME NEW f \in Files, IsRule(new[f]), new[f].rule \in offs \ {text.rule}
      PROVE  /\ f # to /\ new[f] = dir[f]
             /\ toggles[dir[f].id] = "off" /\ \A g \in Claims(new, dir[f].id) : f <= g
  <2>1. f # to /\ new[f] = dir[f]
    BY <1>1, <1>3
  <2>2. toggles[dir[f].id] = "off" /\ \A g \in Claims(dir, dir[f].id) : f <= g
    BY <1>3, <2>1 DEF Marked
  <2>3. dir[f].id # text.id
    BY <1>3, <2>1, <2>2 DEF Claims
  <2>4. QED BY <1>2, <2>1, <2>2, <2>3
<1> HIDE DEF new
<1>4. Marked(new, toggles, offs \ {text.rule}, copies \cup {text.rule}, {})
  BY <1>1, <1>3 DEF Marked
<1>5. QED BY <1>4 DEF new

\* or the new file of a rename.
LEMMA MarkedMoving ==
    ASSUME NEW dir \in [Files -> Texts], NEW toggles, NEW offs, NEW copies, NEW to \in Files,
           NEW text \in Texts, Claims(dir, text.id) = {},
           Marked(dir, toggles, offs, copies, {})
    PROVE  Marked([dir EXCEPT ![to] = text], toggles, offs, copies, {to})
<1> DEFINE new == [dir EXCEPT ![to] = text]
<1>1. new[to] = text /\ \A f \in Files : f # to => new[f] = dir[f]
  OBVIOUS
<1>2. \A f \in Files : dir[f].id # text.id
  BY DEF Claims
<1>3. \A f \in Files : f # to => Claims(new, dir[f].id) \subseteq Claims(dir, dir[f].id)
  BY <1>1, <1>2 DEF Claims
<1> HIDE DEF new
<1>4. Marked(new, toggles, offs, copies, {to})
  BY <1>1, <1>3 DEF Marked
<1>5. QED BY <1>4 DEF new

\* A rule is switched on, or loses its toggle,
LEMMA MarkedOn ==
    ASSUME NEW dir \in [Files -> Texts], NEW toggles, NEW offs, NEW copies, NEW id \in Ids,
           NEW after, \A i \in Ids \ {id} : after[i] = toggles[i],
           NEW rule, rule = Loaded(dir, toggles)[id],
           Marked(dir, toggles, offs, copies, {})
    PROVE  Marked(dir, after, offs \ {rule.text.rule}, copies, {})
<1>1. ASSUME NEW f \in Files, IsRule(dir[f]), dir[f].rule \in offs \ {rule.text.rule}
      PROVE  after[dir[f].id] = "off" /\ \A g \in Claims(dir, dir[f].id) : f <= g
  <2>1. toggles[dir[f].id] = "off" /\ \A g \in Claims(dir, dir[f].id) : f <= g
    BY <1>1 DEF Marked
  <2>2. CASE dir[f].id = id
    <3>1. f \in Claims(dir, id)
      BY <2>2 DEF Claims
    <3>2. dir[f] = rule.text
      BY <2>1, <2>2, <3>1, LoadsFirst
    <3>3. QED BY <1>1, <3>2
  <2>3. CASE dir[f].id # id
    <3>1. dir[f].id \in Ids
      BY <1>1, ClaimsTyped
    <3>2. QED BY <2>1, <2>3, <3>1
  <2>4. QED BY <2>2, <2>3
<1>2. QED BY <1>1 DEF Marked

\* or is switched off.
LEMMA MarkedOff ==
    ASSUME NEW dir \in [Files -> Texts], NEW toggles, NEW offs, NEW copies, NEW id \in Ids,
           NEW after, \A i \in Ids \ {id} : after[i] = toggles[i], after[id] = "off",
           NEW rule, rule = Loaded(dir, toggles)[id], IsUser(rule),
           Marked(dir, toggles, offs \ copies, copies, {})
    PROVE  Marked(dir, after, (offs \cup {rule.text.rule}) \ copies, copies, {})
<1>1. ASSUME NEW f \in Files, IsRule(dir[f]),
             dir[f].rule \in (offs \cup {rule.text.rule}) \ copies
      PROVE  after[dir[f].id] = "off" /\ \A g \in Claims(dir, dir[f].id) : f <= g
  <2>1. CASE dir[f].rule \in offs \ copies
    <3>1. toggles[dir[f].id] = "off" /\ \A g \in Claims(dir, dir[f].id) : f <= g
      BY <1>1, <2>1 DEF Marked
    <3>2. dir[f].id \in Ids
      BY <1>1, ClaimsTyped
    <3>3. QED BY <3>1, <3>2
  <2>2. CASE dir[f].rule = rule.text.rule
    <3>1. /\ rule.file \in Files /\ dir[rule.file].id = id /\ rule.text = dir[rule.file]
          /\ \A g \in Claims(dir, id) : rule.file <= g
      BY LoadsFirst DEF Claims
    <3>2. IsRule(dir[rule.file])
      BY <3>1 DEF IsRule, Ids
    <3>3. f = rule.file
      BY <1>1, <2>2, <3>1, <3>2 DEF Marked
    <3>4. QED BY <3>1, <3>3
  <2>3. QED BY <1>1, <2>1, <2>2
<1>2. QED BY <1>1 DEF Marked

\* A rename is over: the old file is gone, no other is of the rule or claims its old id, and
\* its toggle has followed.
RenameOver(dir, to, from, text, oldId, offs, copies) ==
    /\ dir[to] = text \/ dir[to] = Absent
    /\ dir[from] = Absent
    /\ Claims(dir, text.id) \subseteq {to}
    /\ \A f \in Files \ {to, from} :
          IsRule(dir[f]) =>
             /\ dir[f].rule = text.rule => text.rule \in copies
             /\ dir[f].id = oldId => dir[f].rule \notin offs
ToggleFollows(toggles, after, text, oldId, offs) ==
    /\ text.rule \in offs => after[text.id] = "off"
    /\ \A i \in Ids : i # oldId /\ i # text.id => after[i] = toggles[i]

LEMMA MarkedMoved ==
    ASSUME NEW dir \in [Files -> Texts], NEW toggles, NEW offs, NEW copies, NEW to \in Files,
           NEW from, NEW text, NEW oldId, NEW after,
           Marked(dir, toggles, offs, copies, {to}),
           RenameOver(dir, to, from, text, oldId, offs, copies),
           ToggleFollows(toggles, after, text, oldId, offs)
    PROVE  Marked(dir, after, offs, copies, {})
<1>0. \A f \in Files : IsRule(dir[f]) => f # from
  BY DEF IsRule, Absent, Text, RenameOver
<1>4. IsRule(dir[to]) => dir[to] = text
  BY DEF IsRule, Absent, Text, RenameOver
<1>1. ASSUME NEW f \in Files, IsRule(dir[f]), dir[f].rule \in offs
      PROVE  after[dir[f].id] = "off" /\ \A g \in Claims(dir, dir[f].id) : f <= g
  <2>1. CASE f = to
    <3>1. dir[f] = text /\ f \in Nat
      BY <1>1, <1>4, <2>1, FileNames
    <3>2. \A g \in Claims(dir, dir[f].id) : g = f
      BY <2>1, <3>1 DEF RenameOver
    <3>3. QED BY <1>1, <3>1, <3>2 DEF ToggleFollows
  <2>2. CASE f # to
    <3>1. toggles[dir[f].id] = "off" /\ \A g \in Claims(dir, dir[f].id) : f <= g
      BY <1>1, <2>2 DEF Marked
    <3>2. dir[f].id \in Ids /\ dir[f].id # oldId
      BY <1>0, <1>1, <2>2, ClaimsTyped DEF RenameOver
    <3>3. dir[f].id # text.id
      BY <2>2 DEF Claims, RenameOver
    <3>4. QED BY <3>1, <3>2, <3>3 DEF ToggleFollows
  <2>3. QED BY <2>1, <2>2
<1>2. ASSUME NEW f \in Files, NEW g \in Files, IsRule(dir[f]), IsRule(dir[g]),
             dir[f].rule = dir[g].rule, dir[f].rule \notin copies
      PROVE  f = g
  BY <1>0, <1>2, <1>4 DEF Marked, RenameOver
<1>3. QED BY <1>1, <1>2 DEF Marked

-----------------------------------------------------------------------------
(* The toggle of a rule that is off follows it.                               *)

\* A step of an orderly run.
Undisturbed ==
    /\ Shape /\ Shape' /\ Lone /\ Truthful /\ AllMarked
    /\ Orderly /\ Orderly' /\ ~Fault

LEMMA UndisturbedFacts ==
    ASSUME Undisturbed
    PROVE  /\ TypeOK /\ Solo /\ Solo' /\ Apart /\ Apart' /\ ~Fault
           /\ \A d \in Callers : JobFits(d) /\ JobFits(d)' /\ AloneFits(d)
           /\ Truthful /\ AllMarked
BY DEF Undisturbed, Shape, Orderly, Apart, Lone

LEMMA MovingIs ==
    ASSUME Solo, Apart, NEW c \in Callers, pc[c] # "idle" \/ Alone(c)
    PROVE  Moving = IF Moves(c) THEN {Target(c)} ELSE {}
BY DEF Solo, At, Alone, Moving, Moves

LEMMA EndsMarked ==
    ASSUME \A d \in Callers : pc'[d] = "idle", \A d \in Callers : JobFits(d)',
           Numbered', Marked(files', enabled', Off', copied', {})
    PROVE  AllMarked'
<1>1. Moving' = {}
  BY DEF Moving, Moves
<1>2. \A d \in Callers : job'[d].queue = <<>>
  BY DEF JobFits
<1>3. \A d \in Callers : CallMarked(d)'
  BY <1>2 DEF CallMarked, NewFits, Edits, Moves
<1>4. QED BY <1>1, <1>3 DEF AllMarked

LEMMA GoesMarked ==
    ASSUME Solo', Apart', \A d \in Callers : JobFits(d)', NEW c \in Callers, pc'[c] # "idle",
           Numbered', CallMarked(c)',
           Marked(files', enabled', Off', copied', IF Moves(c)' THEN {Target(c)'} ELSE {})
    PROVE  AllMarked'
<1>0. \A d \in Callers \ {c} : pc'[d] = "idle"
  BY DEF Solo, At
<1>1. Moving' = IF Moves(c)' THEN {Target(c)'} ELSE {}
  BY <1>0 DEF Moving, Moves
<1>2. \A d \in Callers \ {c} : job'[d].queue = <<>>
  BY <1>0 DEF JobFits
<1>3. \A d \in Callers : CallMarked(d)'
  BY <1>0, <1>2 DEF CallMarked, NewFits, Edits, Moves
<1>4. QED BY <1>1, <1>3 DEF AllMarked

\* No rule, file, toggle or mark changes.
StillMarks == UNCHANGED <<files, enabled, off, copied, made>>

LEMMA StandMarked ==
    ASSUME Undisturbed, NEW c \in Callers, pc[c] # "idle", ~Moves(c), StillMarks,
           \/ Returns(c)
           \/ /\ pc'[c] \in {"list", "scan", "found"} \/ (pc[c] = "write" /\ pc'[c] = "install")
              /\ job'[c] = job[c] /\ OthersStay(c)
    PROVE  AllMarked'
<1>0. Numbered /\ NewFits(c) /\ MaxFile \in Nat /\ made \in Nat
  BY UndisturbedFacts, FileNames DEF AllMarked, CallMarked, TypeOK
<1>1. Marked(files', enabled', Off', copied', {})
  BY UndisturbedFacts, MovingIs DEF AllMarked, StillMarks, Off
<1>2. CASE Returns(c)
  <2>1. \A d \in Callers : pc'[d] = "idle"
    BY <1>2, UndisturbedFacts, EndsIdle
  <2>2. Numbered'
    BY <1>0, <1>2 DEF Numbered, Returns, OthersStay, StillMarks, NoJob, Job, Absent, Text
  <2>3. QED BY <1>1, <2>1, <2>2, EndsMarked, UndisturbedFacts
<1>3. CASE /\ pc'[c] \in {"list", "scan", "found"} \/ (pc[c] = "write" /\ pc'[c] = "install")
           /\ job'[c] = job[c] /\ OthersStay(c)
  <2>1. Numbered'
    BY <1>0, <1>3 DEF Numbered, OthersStay, StillMarks
  <2>2. ~Moves(c)' /\ pc'[c] # "idle"
    BY <1>3 DEF Moves
  <2>3. CallMarked(c)'
    BY <1>0, <1>3, <2>2 DEF CallMarked, NewFits, Edits, IsUser, StillMarks
  <2>4. QED BY <1>1, <2>1, <2>2, <2>3, GoesMarked, UndisturbedFacts
<1>4. QED BY <1>2, <1>3

\* A file goes: nothing but a rename minds.
LEMMA GoneMarked ==
    ASSUME Undisturbed, NEW c \in Callers, pc[c] # "idle", ~Moves(c), NEW gone,
           UNCHANGED <<enabled, off, copied, made>>, files' = [files EXCEPT ![gone] = Absent],
           pc'[c] = "list", job'[c] = job[c], OthersStay(c)
    PROVE  AllMarked'
<1>0. Numbered /\ NewFits(c) /\ MaxFile \in Nat /\ made \in Nat /\ files \in [Files -> Texts]
  BY UndisturbedFacts, FileNames DEF AllMarked, CallMarked, TypeOK
<1>1. Marked(files', enabled', Off', copied', {})
  <2>1. Marked(files, enabled, Off, copied, {})
    BY UndisturbedFacts, MovingIs DEF AllMarked
  <2>2. QED BY <1>0, <2>1, MarkedShrinks DEF Off
<1>2. \A f \in Files : files'[f] = files[f] \/ files'[f].rule = 0
  BY <1>0 DEF Absent, Text
<1>3. Numbered'
  BY <1>0, <1>2 DEF Numbered, OthersStay
<1>4. ~Moves(c)' /\ ~Edits(c)' /\ pc'[c] # "next"
  BY DEF Moves, Edits
<1>5. \A i \in DOMAIN job[c].queue : \A f \in Files : files'[f].rule < job[c].queue[i].rule
  <2>1. TAKE i \in DOMAIN job[c].queue
  <2>2. TAKE f \in Files
  <2>3. files[f].rule < job[c].queue[i].rule /\ files[f].rule >= 0
    BY <1>0 DEF NewFits, Texts
  <2>4. job[c].queue[i].rule \in Nat /\ files[f].rule \in Nat
    <3>1. job[c].queue \in Seq(Texts) /\ files[f] \in Texts
      BY <1>0, UndisturbedFacts DEF TypeOK, Jobs
    <3>2. job[c].queue[i] \in Texts
      BY <3>1
    <3>3. QED BY SMTT(20), <3>1, <3>2 DEF Texts
  <2>5. QED BY <1>2, <2>3, <2>4
<1>6. CallMarked(c)'
  BY <1>0, <1>4, <1>5 DEF CallMarked, NewFits
<1>7. QED BY <1>1, <1>3, <1>4, <1>6, GoesMarked, UndisturbedFacts

\* A toggle is set, or goes with its rule: the marks follow.
LEMMA ToggleMarked ==
    ASSUME Undisturbed, NEW c \in Callers, pc[c] = "idle", Alone(c), NEW id \in Ids,
           IsUser(valid[id]) \/ off' = off \ {valid[id].text.rule},
           \A i \in Ids \ {id} : enabled'[i] = enabled[i],
           \/ off' = off \ {valid[id].text.rule}
           \/ off' = off \cup {valid[id].text.rule} /\ enabled'[id] = "off",
           UNCHANGED <<files, copied, made>>
    PROVE  /\ Marked(files', enabled', Off', copied', {})
           /\ \A r \in off' \cup copied' : r <= MaxFile + made
<1>1. files \in [Files -> Texts] /\ valid[id] = Loaded(files, enabled)[id]
  BY UndisturbedFacts, ExactBefore DEF TypeOK, Untouched, Exact
<1>2. Marked(files, enabled, Off, copied, {}) /\ Numbered
  BY UndisturbedFacts, MovingIs DEF AllMarked, Moves
<1>3. CASE off' = off \ {valid[id].text.rule}
  <2>1. Marked(files, enabled', Off \ {valid[id].text.rule}, copied, {})
    BY <1>1, <1>2, MarkedOn
  <2>2. Off' = Off \ {valid[id].text.rule}
    BY <1>3 DEF Off
  <2>3. QED BY <1>2, <1>3, <2>1, <2>2 DEF Numbered
<1>4. CASE off' = off \cup {valid[id].text.rule} /\ enabled'[id] = "off" /\ IsUser(valid[id])
  <2>1. Marked(files, enabled', (off \cup {valid[id].text.rule}) \ copied, copied, {})
    <3>1. Marked(files, enabled, off \ copied, copied, {})
      BY <1>2 DEF Off
    <3>2. QED BY <1>1, <1>4, <3>1, MarkedOff
  <2>2. Off' = (off \cup {valid[id].text.rule}) \ copied
    BY <1>4 DEF Off
  <2>3. valid[id].text.rule <= MaxFile + made
    BY <1>1, <1>2, <1>4, LoadsFirst DEF Numbered, Claims
  <2>4. QED BY <1>2, <1>4, <2>1, <2>2, <2>3 DEF Numbered
<1>5. QED BY <1>3, <1>4

LEMMA SetMarked ==
    ASSUME Undisturbed, NEW c \in Callers, NEW id \in Ids, NEW on \in BOOLEAN, SetEnabled(c, id, on)
    PROVE  AllMarked'
<1>1. Alone(c) /\ pc[c] = "idle" /\ UNCHANGED <<files, pc, job, copied, made>>
  BY UndisturbedFacts DEF SetEnabled, Call, At, Apart
<1>2. /\ \A i \in Ids \ {id} : enabled'[i] = enabled[i]
      /\ ~on => enabled'[id] = "off"
  BY UndisturbedFacts DEF SetEnabled, TypeOK, Toggles
<1>3. \/ off' = off \ {valid[id].text.rule}
      \/ off' = off \cup {valid[id].text.rule} /\ enabled'[id] = "off" /\ IsUser(valid[id])
  BY <1>2 DEF SetEnabled
<1>4. /\ Marked(files', enabled', Off', copied', {})
      /\ \A r \in off' \cup copied' : r <= MaxFile + made
  BY <1>1, <1>2, <1>3, ToggleMarked
<1>5. Numbered'
  BY <1>1, <1>4, UndisturbedFacts DEF AllMarked, Numbered
<1>6. QED BY <1>1, <1>4, <1>5, EndsMarked, UndisturbedFacts DEF Alone, At

LEMMA DeleteMarked ==
    ASSUME Undisturbed, NEW c \in Callers, NEW id \in Ids, Delete(c, id)
    PROVE  AllMarked'
<1>1. /\ BeginsWith(c, "unlink", DeleteJob(id)) /\ IsUser(valid[id])
      /\ off' = off \ {valid[id].text.rule} /\ enabled' = [enabled EXCEPT ![id] = "unset"]
      /\ UNCHANGED <<files, copied, made>>
  BY UndisturbedFacts, DeleteBegins
<1>2. /\ pc[c] = "idle" /\ Alone(c) /\ pc'[c] = "unlink" /\ job'[c] = DeleteJob(id)
      /\ OthersStay(c)
  BY <1>1, UndisturbedFacts DEF BeginsWith, MovesWith, Apart
<1>3. \A i \in Ids \ {id} : enabled'[i] = enabled[i]
  BY <1>1, UndisturbedFacts DEF TypeOK, Toggles
<1>4. /\ Marked(files', enabled', Off', copied', {})
      /\ \A r \in off' \cup copied' : r <= MaxFile + made
  BY <1>1, <1>2, <1>3, ToggleMarked
<1>5. Numbered'
  BY <1>1, <1>2, <1>4, UndisturbedFacts, FileNames
  DEF AllMarked, Numbered, OthersStay, DeleteJob, Job, Absent, Text, TypeOK
<1>6. CallMarked(c)' /\ ~Moves(c)'
  BY <1>2 DEF CallMarked, NewFits, Moves, Edits, DeleteJob, Job
<1>7. QED BY <1>2, <1>4, <1>5, <1>6, GoesMarked, UndisturbedFacts

LEMMA StillNumbered ==
    ASSUME NEW m \in Nat, NEW n \in Nat, NEW k \in Nat, m <= n
    PROVE  \A x \in Nat : x <= k + m => x <= k + n
OBVIOUS

\* A call that begins with nothing but its job.
LEMMA BeginMarked ==
    ASSUME Undisturbed, NEW c \in Callers, NEW place, NEW call, place \notin {"idle", "retire", "toggle"},
           BeginsWith(c, place, call), UNCHANGED <<files, enabled, off, copied>>,
           made' \in Nat, made <= made', call.text.rule <= MaxFile + made', NewFits(c)'
    PROVE  AllMarked'
<1>1. /\ pc[c] = "idle" /\ Alone(c) /\ pc'[c] = place /\ job'[c] = call /\ OthersStay(c)
  BY UndisturbedFacts DEF BeginsWith, MovesWith, Apart
<1>2. Marked(files', enabled', Off', copied', {})
  BY <1>1, UndisturbedFacts, MovingIs DEF AllMarked, Moves, Off
<1>3. Numbered'
  <2>1. Numbered /\ TypeOK /\ made \in Nat /\ MaxFile \in Nat
    BY UndisturbedFacts, FileNames DEF AllMarked, TypeOK
  <2>2. \A x \in Nat : x <= MaxFile + made => x <= MaxFile + made'
    BY <2>1, StillNumbered
  <2>3. \A f \in Files : files[f].rule \in Nat
    BY <2>1 DEF TypeOK, Texts
  <2>4. \A r \in off \cup copied : r \in Nat
    BY <2>1 DEF TypeOK
  <2>5. \A d \in Callers : job[d].text.rule \in Nat
    BY <2>1 DEF TypeOK, Jobs, Texts
  <2>6. QED BY <1>1, <2>1, <2>2, <2>3, <2>4, <2>5 DEF Numbered, OthersStay
<1>4. ~Moves(c)' /\ CallMarked(c)' /\ pc'[c] # "idle"
  BY <1>1 DEF Moves, CallMarked
<1>5. QED BY <1>2, <1>3, <1>4, GoesMarked, UndisturbedFacts

LEMMA EditMarked ==
    ASSUME Undisturbed, NEW c \in Callers, NEW id \in Ids, NEW newId \in Ids, SaveEdit(c, id, newId)
    PROVE  AllMarked'
<1>1. /\ BeginsWith(c, "write", EditJob(id, newId)) /\ IsUser(valid[id])
      /\ UNCHANGED <<files, enabled, off, copied, made>>
  BY UndisturbedFacts, EditBegins DEF disk, memory
<1>2. pc[c] = "idle" /\ Alone(c) /\ pc'[c] = "write" /\ job'[c] = EditJob(id, newId)
  BY <1>1, UndisturbedFacts DEF BeginsWith, MovesWith, Apart
<1>3. EditJob(id, newId).text.rule <= MaxFile + made
  <2>1. files \in [Files -> Texts] /\ valid[id] = Loaded(files, enabled)[id] /\ Numbered
    BY <1>2, UndisturbedFacts, ExactBefore DEF TypeOK, Untouched, Exact, AllMarked
  <2>2. valid[id].text.rule <= MaxFile + made
    BY <1>1, <2>1, LoadsFirst DEF Numbered, Claims
  <2>3. QED BY <2>2 DEF EditJob, Job, Text
<1>4. NewFits(c)'
  BY <1>1, <1>2 DEF NewFits, EditJob, Job, IsUser, Edits
<1>5. made \in Nat
  BY UndisturbedFacts DEF TypeOK
<1>6. QED BY <1>1, <1>3, <1>4, <1>5, BeginMarked

LEMMA NewMarked ==
    ASSUME Undisturbed, NEW c \in Callers, NEW newId \in Ids, NEW f \in invalid \cup {0},
           SaveNew(c, newId, f)
    PROVE  AllMarked'
<1>1. /\ BeginsWith(c, "write", NewJob(newId, f))
      /\ UNCHANGED <<files, enabled, off, copied>> /\ made' = made + 1
  BY UndisturbedFacts, NewBegins DEF disk, memory
<1>2. pc'[c] = "write" /\ job'[c] = NewJob(newId, f)
  BY <1>1 DEF BeginsWith, MovesWith
<1>3. /\ NewJob(newId, f).text.rule = MaxFile + made + 1 /\ NewJob(newId, f).queue = <<>>
      /\ NewJob(newId, f).op = "save"
  BY DEF NewJob, Job, Text
<1>4. Numbered /\ made \in Nat /\ MaxFile \in Nat /\ TypeOK
  BY UndisturbedFacts, FileNames DEF AllMarked, TypeOK
<1>5. /\ \A g \in Files : files[g].rule < MaxFile + made + 1
      /\ \A r \in off \cup copied : r < MaxFile + made + 1
  <2>1. \A x \in Nat : x <= MaxFile + made => x < MaxFile + made + 1
    BY <1>4
  <2>2. \A g \in Files : files[g].rule \in Nat
    BY <1>4 DEF TypeOK, Texts
  <2>3. \A r \in off \cup copied : r \in Nat
    BY <1>4 DEF TypeOK
  <2>4. QED BY <1>4, <2>1, <2>2, <2>3 DEF Numbered
<1>6. NewFits(c)'
  <2>1. MaxFile + made + 1 \notin off \cup copied /\ \A g \in Files : files[g].rule # MaxFile + made + 1
    BY <1>4, <1>5
  <2>2. QED BY <1>1, <1>2, <1>3, <2>1 DEF NewFits, Edits
<1>7. made' \in Nat /\ made <= made' /\ NewJob(newId, f).text.rule <= MaxFile + made'
  BY <1>1, <1>3, <1>4
<1>8. QED BY <1>1, <1>6, <1>7, BeginMarked

LEMMA ImportMarked ==
    ASSUME Undisturbed, NEW c \in Callers, NEW ids \in Batches, Import(c, ids)
    PROVE  AllMarked'
<1>1. /\ BeginsWith(c, "next", ImportJob(ids))
      /\ UNCHANGED <<files, enabled, off, copied>> /\ made' = made + Len(ids)
  BY UndisturbedFacts, ImportBegins DEF disk, memory
<1>2. pc[c] = "idle" /\ Alone(c) /\ pc'[c] = "next" /\ job'[c] = ImportJob(ids)
  BY <1>1, UndisturbedFacts DEF BeginsWith, MovesWith, Apart
<1>3. Numbered /\ made \in Nat /\ MaxFile \in Nat /\ TypeOK
  BY UndisturbedFacts, FileNames DEF AllMarked, TypeOK
<1>4. Len(ids) \in Nat /\ DOMAIN ids = 1 .. Len(ids)
  <2>1. PICK n \in 1 .. 2 : ids \in [1 .. n -> Ids]
    BY DEF Batches
  <2>2. ids \in Seq(Ids)
    BY <2>1
  <2>3. QED BY <2>2
<1>5. /\ DOMAIN ImportJob(ids).queue = 1 .. Len(ids)
      /\ \A i \in 1 .. Len(ids) : ImportJob(ids).queue[i].rule = MaxFile + made + i
      /\ ImportJob(ids).claimed = UserIds /\ ImportJob(ids).text.rule = 0
  BY <1>4 DEF ImportJob, Text, Absent
<1>6. /\ \A g \in Files : files[g].rule \in Nat /\ files[g].rule <= MaxFile + made
      /\ \A r \in off \cup copied : r \in Nat /\ r <= MaxFile + made
  <2>1. \A g \in Files : files[g].rule \in Nat
    BY <1>3 DEF TypeOK, Texts
  <2>2. \A r \in off \cup copied : r \in Nat
    BY <1>3 DEF TypeOK
  <2>3. QED BY <1>3, <2>1, <2>2 DEF Numbered
<1>7. ASSUME NEW i \in 1 .. Len(ids)
      PROVE  /\ \A r \in off \cup copied : r < MaxFile + made + i
             /\ \A g \in Files : files[g].rule < MaxFile + made + i
             /\ MaxFile + made + i <= MaxFile + made'
             /\ \A k \in 1 .. Len(ids) : i < k => MaxFile + made + i < MaxFile + made + k
  <2>1. i \in Nat /\ 0 < i /\ i <= Len(ids)
    BY <1>4
  <2>2. \A r \in off \cup copied : r < MaxFile + made + i
    BY <1>3, <1>6, <2>1
  <2>3. \A g \in Files : files[g].rule < MaxFile + made + i
    BY <1>3, <1>6, <2>1
  <2>4. MaxFile + made + i <= MaxFile + made'
    BY <1>1, <1>3, <1>4, <2>1
  <2>5. ASSUME NEW k \in 1 .. Len(ids), i < k
        PROVE  MaxFile + made + i < MaxFile + made + k
    BY <1>3, <1>4, <2>1, <2>5
  <2>6. QED BY <2>2, <2>3, <2>4, <2>5
<1>8. \A id \in Ids : Claims(files, id) # {} => id \in UserIds
  <2>1. files \in [Files -> Texts] /\ valid = Loaded(files, enabled)
    BY <1>2, UndisturbedFacts, ExactBefore DEF TypeOK, Untouched, Exact
  <2>2. QED BY <2>1, LoadsFirst DEF UserIds
<1>9. NewFits(c)'
  BY <1>1, <1>2, <1>5, <1>7, <1>8 DEF NewFits, Edits
<1>10. made' \in Nat /\ made <= made' /\ ImportJob(ids).text.rule <= MaxFile + made'
  BY <1>1, <1>3, <1>4, <1>5
<1>11. QED BY <1>1, <1>9, <1>10, BeginMarked

LEMMA ReloadMarked ==
    ASSUME Undisturbed, NEW c \in Callers, Reload(c)
    PROVE  AllMarked'
<1>1. /\ BeginsWith(c, "list", ReloadJob)
      /\ UNCHANGED <<files, enabled, off, copied, made>>
  BY UndisturbedFacts, ReloadBegins DEF disk, memory
<1>2. pc'[c] = "list" /\ job'[c] = ReloadJob
  BY <1>1 DEF BeginsWith, MovesWith
<1>3. NewFits(c)'
  BY <1>2 DEF NewFits, ReloadJob, Job, Edits
<1>4. made \in Nat /\ MaxFile \in Nat /\ ReloadJob.text.rule = 0
  BY UndisturbedFacts, FileNames DEF TypeOK, ReloadJob, Job, Absent, Text
<1>5. QED BY <1>1, <1>3, <1>4, BeginMarked

\* The rules in a queue are new, in increasing order.
QueueNew(q) ==
    \A i \in DOMAIN q :
        /\ \A r \in off \cup copied : r < q[i].rule
        /\ \A f \in Files : files[f].rule < q[i].rule
        /\ q[i].rule <= MaxFile + made
        /\ \A k \in DOMAIN q : i < k => q[i].rule < q[k].rule

LEMMA TailNew ==
    ASSUME TypeOK, NEW q \in Seq(Texts), q # <<>>, QueueNew(q)
    PROVE  /\ QueueNew(Tail(q))
           /\ Head(q).rule \notin off \cup copied /\ \A f \in Files : files[f].rule # Head(q).rule
           /\ Head(q).rule <= MaxFile + made
           /\ \A i \in DOMAIN Tail(q) : Head(q).rule < Tail(q)[i].rule
<1>1. /\ Head(q) = q[1] /\ 1 \in DOMAIN q
      /\ \A i \in DOMAIN Tail(q) : i + 1 \in DOMAIN q /\ Tail(q)[i] = q[i + 1] /\ i \in Nat /\ i > 0
  BY HeadTailProperties
<1>2. \A i, k \in DOMAIN Tail(q) : i < k => i + 1 < k + 1
  BY <1>1
<1>3. QueueNew(Tail(q))
  BY <1>1, <1>2 DEF QueueNew
<1>4. \A i \in DOMAIN Tail(q) : 1 < i + 1
  BY <1>1
<1>5. \A i \in DOMAIN Tail(q) : Head(q).rule < Tail(q)[i].rule
  BY <1>1, <1>4 DEF QueueNew
<1>6. Head(q).rule \in Nat
  <2>1. Head(q) \in Texts
    OBVIOUS
  <2>2. QED BY <2>1 DEF Texts
<1>7. Head(q).rule \notin off \cup copied /\ \A f \in Files : files[f].rule # Head(q).rule
  <2>1. /\ \A r \in off \cup copied : r < Head(q).rule
        /\ \A f \in Files : files[f].rule < Head(q).rule
    BY <1>1 DEF QueueNew
  <2>2. ~(Head(q).rule < Head(q).rule)
    BY <1>6
  <2>3. QED BY <2>1, <2>2
<1>8. QED BY <1>1, <1>3, <1>5, <1>7 DEF QueueNew

LEMMA NextMarked ==
    ASSUME Undisturbed, NEW c \in Callers, ImportNext(c)
    PROVE  AllMarked'
<1>1. /\ pc[c] = "next" /\ StillMarks /\ job[c] \in Jobs /\ job[c].queue \in Seq(Texts) /\ TypeOK
      /\ ~Moves(c) /\ Numbered /\ NewFits(c) /\ QueueNew(job[c].queue) /\ job[c].op = "import"
      /\ ~IsUser(job[c].old)
  <2>1. pc[c] = "next" /\ StillMarks
    BY UndisturbedFacts, ImportMoves DEF disk, memory, history, counters, StillMarks
  <2>2. Numbered /\ NewFits(c) /\ QueueNew(job[c].queue)
    BY UndisturbedFacts DEF AllMarked, CallMarked, NewFits, QueueNew
  <2>3. job[c] \in Jobs /\ job[c].queue \in Seq(Texts) /\ TypeOK
    BY UndisturbedFacts DEF TypeOK, Jobs
  <2>4. job[c].op = "import" /\ ~IsUser(job[c].old) /\ ~Moves(c)
    BY <2>1, UndisturbedFacts DEF JobFits, Moves
  <2>5. QED BY <2>1, <2>2, <2>3, <2>4
<1>2. Marked(files', enabled', Off', copied', {})
  BY <1>1, UndisturbedFacts, MovingIs DEF AllMarked, StillMarks, Off
<1>3. CASE MovesTo(c, "list")
  BY <1>1, <1>3, StandMarked DEF MovesTo, MovesWith
<1>4. CASE Passes(c)
  <2>1. /\ pc'[c] = "next" /\ OthersStay(c) /\ job[c].queue # <<>>
        /\ job'[c] = [job[c] EXCEPT !.queue = Tail(@)]
    BY <1>4 DEF Passes, MovesWith
  <2>2. /\ job'[c].queue = Tail(job[c].queue) /\ job'[c].claimed = job[c].claimed
        /\ job'[c].text = job[c].text
    BY <1>1, <2>1 DEF Jobs
  <2>3. QueueNew(Tail(job[c].queue))
    BY <1>1, <2>1, TailNew
  <2>4. NewFits(c)'
    BY <1>1, <2>1, <2>2, <2>3 DEF NewFits, QueueNew, Edits, StillMarks, Claims
  <2>5. Numbered'
    BY <1>1, <2>1, <2>2 DEF Numbered, OthersStay, StillMarks
  <2>6. CallMarked(c)' /\ ~Moves(c)'
    BY <2>1, <2>4 DEF CallMarked, Moves
  <2>7. QED BY <1>2, <2>1, <2>5, <2>6, GoesMarked, UndisturbedFacts
<1>5. CASE WritesNext(c)
  <2>1. /\ pc'[c] = "write" /\ OthersStay(c) /\ job[c].queue # <<>>
        /\ Head(job[c].queue).id \notin job[c].claimed
        /\ job'[c] = [job[c] EXCEPT !.queue = Tail(@), !.text = Head(job[c].queue)]
    BY <1>5 DEF WritesNext, MovesWith
  <2>2. /\ job'[c].queue = Tail(job[c].queue) /\ job'[c].claimed = job[c].claimed
        /\ job'[c].text = Head(job[c].queue)
    BY <1>1, <2>1 DEF Jobs
  <2>3. /\ QueueNew(Tail(job[c].queue))
        /\ LET text == Head(job[c].queue) IN
              /\ text.rule \notin off \cup copied /\ \A f \in Files : files[f].rule # text.rule
              /\ text.rule <= MaxFile + made
              /\ \A i \in DOMAIN Tail(job[c].queue) : text.rule < Tail(job[c].queue)[i].rule
    BY <1>1, <2>1, TailNew
  <2>4. NewFits(c)'
    BY <1>1, <2>1, <2>2, <2>3 DEF NewFits, QueueNew, Edits, StillMarks, Claims
  <2>5. Numbered'
    BY <1>1, <2>1, <2>2, <2>3 DEF Numbered, OthersStay, StillMarks
  <2>6. CallMarked(c)' /\ ~Moves(c)'
    BY <2>1, <2>4 DEF CallMarked, Moves
  <2>7. QED BY <1>2, <2>1, <2>5, <2>6, GoesMarked, UndisturbedFacts
<1>6. QED BY <1>3, <1>4, <1>5, ImportMoves, UndisturbedFacts

LEMMA WriteMarked ==
    ASSUME Undisturbed, NEW c \in Callers, WriteTmp(c)
    PROVE  AllMarked'
<1>1. MovesTo(c, "install") /\ pc[c] = "write" /\ StillMarks
  BY UndisturbedFacts, WriteMoves DEF memory, history, StillMarks
<1>2. QED BY <1>1, StandMarked DEF MovesTo, MovesWith, Moves

\* What an install finds and leaves.
Written(c) ==
    /\ pc[c] = "install" /\ job[c] \in Jobs /\ job[c].text.id \in Ids /\ Target(c) \in Files
    /\ files \in [Files -> Texts] /\ files' = [files EXCEPT ![Target(c)] = job[c].text]
    /\ pc'[c] = AfterInstall(c) /\ pc'[c] # "idle" /\ OthersStay(c) /\ Target(c)' = Target(c)
    /\ job'[c].op = job[c].op /\ job'[c].text = job[c].text /\ job'[c].old = job[c].old
    /\ job'[c].queue = job[c].queue /\ job'[c].claimed = job[c].claimed \cup {job[c].text.id}
    /\ enabled' = enabled /\ off' = off /\ made' = made
    /\ copied' = IF LeavesCopy(c) THEN copied \cup {job[c].text.rule} ELSE copied
    /\ Marked(files, enabled, Off, copied, {}) /\ NewFits(c)
    /\ job[c].op = "save" => valid = Loaded(files, enabled)
    /\ Claims(files, job[c].text.id) # {} => IsUser(job[c].old) /\ ~Renamed(c)

LEMMA InstallWrites ==
    ASSUME Undisturbed, NEW c \in Callers, Install(c)
    PROVE  Written(c)
<1> USE UndisturbedFacts
<1>1. /\ pc[c] = "install" /\ Edits(c) /\ job[c] \in Jobs /\ job[c].text.id \in Ids /\ Target(c) \in Files
      /\ files \in [Files -> Texts]
  BY InstallMoves, FileNames DEF JobFits, Edits, Target, TypeOK
<1>2. tmp[Target(c)] = job[c].text /\ job[c].text # Absent
  BY <1>1 DEF AloneFits, Absent, Text, Ids
<1>3. Installs(c) /\ UNCHANGED <<state, memory, off, together, made, calls, crashes>>
  BY <1>2, InstallMoves
<1>4. files' = [files EXCEPT ![Target(c)] = job[c].text]
  BY <1>2, <1>3 DEF Installs
<1>5. pc'[c] = AfterInstall(c) /\ pc'[c] # "idle" /\ OthersStay(c) /\ job'[c] = Claimed(c)
  BY <1>3 DEF Installs, MovesWith, AfterInstall
<1>6. /\ job'[c].op = job[c].op /\ job'[c].text = job[c].text /\ job'[c].old = job[c].old
      /\ job'[c].queue = job[c].queue /\ job'[c].claimed = job[c].claimed \cup {job[c].text.id}
  BY <1>1, <1>5 DEF Claimed, Jobs
<1>7. Marked(files, enabled, Off, copied, {}) /\ NewFits(c)
  BY <1>1, MovingIs DEF AllMarked, CallMarked, Moves
<1>8. job[c].op = "save" => valid = Loaded(files, enabled)
  BY <1>1, ExactBefore DEF Untouched, Exact
<1>9. Claims(files, job[c].text.id) # {} => IsUser(job[c].old) /\ ~Renamed(c)
  <2>1. CASE job[c].op = "import"
    BY <1>1, <1>7, <2>1 DEF NewFits
  <2>2. CASE job[c].op = "save"
    <3>1. Claims(files, job[c].text.id) # {} => job[c].text.id \in UserIds
      BY <1>1, <1>8, <2>2, LoadsFirst DEF UserIds
    <3>2. QED BY <1>1, <3>1 DEF AloneFits
  <2>3. QED BY <1>1, <2>1, <2>2 DEF JobFits
<1>10. Target(c)' = Target(c)
  BY <1>6 DEF Target
<1>11. QED BY <1>1, <1>3, <1>4, <1>5, <1>6, <1>7, <1>8, <1>9, <1>10 DEF Written, Installs, memory

LEMMA WrittenNumbered ==
    ASSUME Undisturbed, NEW c \in Callers, Written(c)
    PROVE  Numbered'
<1>1. Numbered /\ job[c].text.rule <= MaxFile + made
  BY UndisturbedFacts DEF AllMarked, Numbered
<1>2. \A f \in Files : files'[f].rule <= MaxFile + made
  BY <1>1 DEF Numbered, Written
<1>3. \A r \in off' \cup copied' : r <= MaxFile + made
  BY <1>1 DEF Numbered, Written
<1>4. QED BY <1>1, <1>2, <1>3 DEF Numbered, Written, OthersStay

LEMMA WrittenFits ==
    ASSUME Undisturbed, NEW c \in Callers, Written(c)
    PROVE  NewFits(c)'
<1>1. ~Edits(c)' /\ pc'[c] # "write"
  BY DEF Written, AfterInstall, Edits
<1>2. CASE job[c].op # "import"
  <2>1. job'[c].queue = <<>> /\ job'[c].op # "import"
    BY <1>2, UndisturbedFacts DEF JobFits, Written
  <2>2. QED BY <1>1, <2>1 DEF NewFits
<1>3. CASE job[c].op = "import"
  <2>1. ~IsUser(job[c].old) /\ copied' = copied /\ off' = off /\ made' = made
    BY <1>3, UndisturbedFacts DEF JobFits, Written, LeavesCopy
  <2>2. QueueNew(job[c].queue) /\ \A i \in DOMAIN job[c].queue : job[c].text.rule < job[c].queue[i].rule
    BY <2>1 DEF NewFits, QueueNew, Written, Edits
  <2>3. \A f \in Files : files'[f] = files[f] \/ files'[f] = job[c].text
    BY DEF Written
  <2>4. QueueNew(job[c].queue)'
    BY <2>1, <2>2, <2>3 DEF QueueNew, Written
  <2>5. \A id \in Ids : Claims(files', id) # {} => id \in job'[c].claimed
    <3>1. ASSUME NEW id \in Ids, NEW f \in Files, files'[f].id = id, files'[f] = files[f]
          PROVE  id \in job[c].claimed
      BY <1>3, <3>1 DEF NewFits, Written, Edits, Claims
    <3>2. QED BY <2>3, <3>1 DEF Claims, Written
  <2>6. QED BY <1>1, <2>4, <2>5 DEF NewFits, QueueNew
<1>4. QED BY <1>2, <1>3

\* The rule a save is of, as it was loaded.
LEMMA WrittenOld ==
    ASSUME Undisturbed, NEW c \in Callers, Written(c), IsUser(job[c].old)
    PROVE  LET old == job[c].old IN
              /\ job[c].op = "save" /\ old.text.id \in Ids /\ job[c].text.rule = old.text.rule
              /\ old.file \in Claims(files, old.text.id) /\ old.file \in Files
              /\ \A f \in Claims(files, old.text.id) :
                    (\A g \in Claims(files, old.text.id) : f <= g) => f = old.file
              /\ old.text = files[old.file]
              /\ old.on = EnabledFor(enabled, old.text.id)
<1>1. job[c].op = "save" /\ job[c].old.text.id \in Ids /\ job[c].text.rule = job[c].old.text.rule
  BY UndisturbedFacts DEF JobFits, Written, Edits
<1>2. job[c].old = Loaded(files, enabled)[job[c].old.text.id]
  BY <1>1, UndisturbedFacts DEF AloneFits, Written, Edits
<1>3. files \in [Files -> Texts]
  BY DEF Written
<1>4. QED BY <1>1, <1>2, <1>3, LoadsFirst DEF Claims

LEMMA FreshMarked ==
    ASSUME Undisturbed, NEW c \in Callers, Written(c), ~IsUser(job[c].old)
    PROVE  AllMarked'
<1>1. /\ Claims(files, job[c].text.id) = {} /\ copied' = copied /\ job[c].text \in Texts
      /\ job[c].text.rule \notin Off /\ \A f \in Files : files[f].rule # job[c].text.rule
  BY DEF Written, NewFits, Edits, LeavesCopy, Off, Jobs
<1>2. Marked(files', enabled', Off', copied', {})
  BY <1>1, MarkedFresh DEF Written, Off
<1>3. ~Moves(c)'
  BY DEF Written, AfterInstall, Renamed, Moves
<1>4. CallMarked(c)' /\ Numbered' /\ pc'[c] # "idle"
  BY <1>3, WrittenFits, WrittenNumbered DEF CallMarked, Written
<1>5. QED BY <1>2, <1>3, <1>4, GoesMarked, UndisturbedFacts

LEMMA EditedMarked ==
    ASSUME Undisturbed, NEW c \in Callers, Written(c), IsUser(job[c].old), ~Renamed(c)
    PROVE  AllMarked'
<1> DEFINE old == job[c].old
<1>1. old.text.id = job[c].text.id /\ job[c].text \in Texts
  BY DEF Renamed, Written, Jobs
<1>2. Marked(files', enabled', Off', copied', {})
  <2>1. CASE old.file = Target(c)
    <3>1. copied' = copied /\ Off' = Off
      BY <2>1 DEF Written, LeavesCopy, Off
    <3>2. files[Target(c)].id = job[c].text.id /\ files[Target(c)].rule = job[c].text.rule
      BY <1>1, <2>1, WrittenOld
    <3>3. QED BY <1>1, <3>1, <3>2, MarkedAgain DEF Written
  <2>2. CASE old.file # Target(c)
    <3>1. copied' = copied \cup {job[c].text.rule} /\ Off' = Off \ {job[c].text.rule}
      BY <2>2 DEF Written, LeavesCopy, Off
    <3>2. Marked([files EXCEPT ![Target(c)] = job[c].text], enabled,
                 Off \ {job[c].text.rule}, copied \cup {job[c].text.rule}, {})
      <4>1. /\ files \in [Files -> Texts] /\ Target(c) \in Files /\ job[c].text.id \in Ids
            /\ Marked(files, enabled, Off, copied, {})
        BY DEF Written
      <4>2. PICK from \in Claims(files, job[c].text.id) :
               /\ \A f \in Claims(files, job[c].text.id) :
                     (\A g \in Claims(files, job[c].text.id) : f <= g) => f = from
               /\ job[c].text.rule = files[from].rule
        BY <1>1, WrittenOld
      <4>3. QED BY <1>1, <4>1, <4>2, MarkedCopied
    <3>3. QED BY <3>1, <3>2 DEF Written
  <2>3. QED BY <2>1, <2>2
<1>3. ~Moves(c)'
  BY DEF Written, AfterInstall, Moves
<1>4. CallMarked(c)' /\ Numbered' /\ pc'[c] # "idle"
  BY <1>3, WrittenFits, WrittenNumbered DEF CallMarked, Written
<1>5. QED BY <1>2, <1>3, <1>4, GoesMarked, UndisturbedFacts

LEMMA RenamedMarked ==
    ASSUME Undisturbed, NEW c \in Callers, Written(c), Renamed(c)
    PROVE  AllMarked'
<1> DEFINE old == job[c].old
           to == Target(c)
           rule == job[c].text.rule
<1>1. IsUser(old) /\ Claims(files, job[c].text.id) = {} /\ copied' = copied /\ Off' = Off
  BY DEF Renamed, Written, LeavesCopy, Off
<1>2. /\ job[c].op = "save" /\ old.text.id \in Ids /\ rule = old.text.rule /\ job[c].text \in Texts
      /\ old.file \in Claims(files, old.text.id) /\ old.file \in Files /\ old.text = files[old.file]
      /\ \A f \in Claims(files, old.text.id) :
            (\A g \in Claims(files, old.text.id) : f <= g) => f = old.file
      /\ old.on = EnabledFor(enabled, old.text.id)
  BY <1>1, WrittenOld DEF Written, Jobs
<1>3. pc'[c] = "retire" /\ Moves(c)'
  BY <1>2 DEF Written, AfterInstall, Moves
<1>4. Marked(files', enabled', Off', copied', {Target(c)'})
  BY <1>1, <1>2, MarkedMoving DEF Written
<1>5. IsRule(files[old.file])
  BY <1>2 DEF Claims, IsRule, Ids
<1>6. Claims(files', job[c].text.id) \subseteq {to}
  BY <1>1 DEF Written, Claims
<1>7. rule \in Off => enabled[old.text.id] = "off" /\ ~old.on
  <2>1. rule \in Off => enabled[old.text.id] = "off"
    BY <1>2, <1>5 DEF Written, Marked
  <2>2. enabled[old.text.id] = "off" => ~old.on
    BY <1>2 DEF EnabledFor
  <2>3. QED BY <2>1, <2>2
<1>8. ASSUME NEW f \in Files \ {to, old.file}, IsRule(files'[f])
      PROVE  /\ files'[f].rule = rule => rule \in copied
             /\ files'[f].id = old.text.id => files'[f].rule \notin Off
  <2>1. files'[f] = files[f]
    BY DEF Written
  <2>2. files[f].rule = rule => rule \in copied
    BY <1>2, <1>5, <1>8, <2>1 DEF Written, Marked
  <2>3. files[f].id = old.text.id => files[f].rule \notin Off
    <3>1. SUFFICES ASSUME files[f].id = old.text.id, files[f].rule \in Off
                   PROVE  FALSE
      OBVIOUS
    <3>2. f \in Claims(files, old.text.id) /\ \A g \in Claims(files, old.text.id) : f <= g
      BY <1>8, <2>1, <3>1 DEF Written, Marked, Claims
    <3>3. QED BY <1>2, <3>2
  <2>4. QED BY <2>1, <2>2, <2>3
<1>9. RenameFits(c)'
  BY <1>1, <1>3, <1>6, <1>7, <1>8 DEF RenameFits, Written
<1>10. CallMarked(c)' /\ Numbered' /\ pc'[c] # "idle"
  BY <1>9, WrittenFits, WrittenNumbered DEF CallMarked, Written
<1>11. QED BY <1>3, <1>4, <1>10, GoesMarked, UndisturbedFacts

LEMMA RetireMarked ==
    ASSUME Undisturbed, NEW c \in Callers, Retire(c)
    PROVE  AllMarked'
<1> USE UndisturbedFacts
<1>1. /\ pc[c] = "retire" /\ Moves(c) /\ files' = [files EXCEPT ![job[c].old.file] = Absent]
      /\ pc'[c] = "toggle" /\ job'[c] = job[c] /\ OthersStay(c)
      /\ UNCHANGED <<enabled, off, copied, made>>
  BY RetireMoves DEF MovesTo, MovesWith, Moves, memory, history
<1>2. /\ Moves(c)' /\ Target(c)' = Target(c) /\ files \in [Files -> Texts] /\ job[c].op # "import"
      /\ Numbered /\ RenameFits(c)
  BY <1>1 DEF Moves, Target, TypeOK, JobFits, AllMarked, CallMarked
<1>3. Marked(files', enabled', Off', copied', {Target(c)})
  <2>1. Marked(files, enabled, Off, copied, {Target(c)})
    BY <1>1, MovingIs DEF AllMarked
  <2>2. QED BY <1>1, <1>2, <2>1, MarkedShrinks DEF Off
<1>4. \A f \in Files : files'[f] = files[f] \/ files'[f] = Absent
  BY <1>1, <1>2
<1>5. Numbered'
  <2>1. MaxFile \in Nat /\ made \in Nat
    BY FileNames DEF TypeOK
  <2>2. \A f \in Files : files'[f] = files[f] \/ files'[f].rule = 0
    BY <1>4 DEF Absent, Text
  <2>3. QED BY <1>1, <1>2, <2>1, <2>2 DEF Numbered, OthersStay
<1>6. \A f \in Files : IsRule(files'[f]) => files'[f] = files[f]
  BY <1>4 DEF IsRule, Absent, Text
<1>7. Claims(files', job[c].text.id) \subseteq Claims(files, job[c].text.id)
  <2>1. job[c].text.id \in Ids
    BY <1>1 DEF JobFits
  <2>2. QED BY <1>6, <2>1 DEF Claims, IsRule, Ids
<1>8. files'[job[c].old.file] = Absent
  <2>1. job[c].old.file \in Files
    <3>1. job[c].old.file \in Files \cup {0} /\ IsUser(job[c].old)
      BY <1>1 DEF TypeOK, Jobs, Rules, JobFits, Renamed
    <3>2. QED BY <3>1 DEF IsUser
  <2>2. QED BY <1>1, <1>2, <2>1
<1>9. RenameFits(c)'
  BY <1>1, <1>2, <1>6, <1>7, <1>8 DEF RenameFits, Target, Off
<1>10. NewFits(c)'
  BY <1>1, <1>2 DEF NewFits, Edits, JobFits
<1>11. QED BY <1>1, <1>2, <1>3, <1>5, <1>9, <1>10, GoesMarked DEF CallMarked

LEMMA MovedMarked ==
    ASSUME Undisturbed, NEW c \in Callers, MoveToggle(c)
    PROVE  AllMarked'
<1> USE UndisturbedFacts
<1> DEFINE old == job[c].old
           text == job[c].text
<1>1. /\ pc[c] = "toggle" /\ Moves(c) /\ pc'[c] = "list" /\ job'[c] = job[c] /\ OthersStay(c)
      /\ UNCHANGED <<files, off, copied, made>>
      /\ enabled' = IF enabled[old.text.id] = "unset" THEN enabled
                     ELSE [enabled EXCEPT ![old.text.id] = "unset",
                               ![text.id] = IF old.on THEN "on" ELSE "off"]
  BY ToggleMoves DEF MovesTo, MovesWith, Moves, history
<1>2. /\ text.id \in Ids /\ old.text.id \in Ids /\ text.id # old.text.id /\ Target(c) \in Files
      /\ job[c].op # "import" /\ IsUser(old)
  BY <1>1, FileNames DEF JobFits, Moves, Renamed, Target
<1>3. RenameFits(c) /\ Numbered /\ Marked(files, enabled, Off, copied, {Target(c)})
  BY <1>1, MovingIs DEF AllMarked, CallMarked
<1>4. files[Target(c)] = text \/ files[Target(c)] = Absent
  BY <1>1, <1>3 DEF AloneFits, RenameFits
<1>5. \A i \in Ids : i # old.text.id /\ i # text.id => enabled'[i] = enabled[i]
  BY <1>1 DEF TypeOK, Toggles
<1>6. text.rule \in Off => enabled'[text.id] = "off"
  <2>1. SUFFICES ASSUME text.rule \in Off
                 PROVE  enabled'[text.id] = "off"
    OBVIOUS
  <2>2. enabled[old.text.id] = "off" /\ ~old.on
    BY <1>3, <2>1 DEF RenameFits
  <2>3. enabled' = [enabled EXCEPT ![old.text.id] = "unset", ![text.id] = "off"]
    BY <1>1, <2>2
  <2>4. QED BY <1>2, <2>3 DEF TypeOK, Toggles
<1>7. Marked(files, enabled', Off, copied, {})
  <2>1. files \in [Files -> Texts]
    BY DEF TypeOK
  <2>2. RenameOver(files, Target(c), old.file, text, old.text.id, Off, copied)
    BY <1>1, <1>3, <1>4 DEF RenameFits, RenameOver
  <2>3. ToggleFollows(enabled, enabled', text, old.text.id, Off)
    BY <1>5, <1>6 DEF ToggleFollows
  <2>4. QED BY <1>2, <1>3, <2>1, <2>2, <2>3, MarkedMoved
<1>8. Numbered'
  BY <1>1, <1>3 DEF Numbered, OthersStay
<1>9. NewFits(c)' /\ ~Moves(c)'
  BY <1>1, <1>2 DEF NewFits, Edits, JobFits, Moves
<1>10. Marked(files', enabled', Off', copied', {})
  BY <1>1, <1>7 DEF Off
<1>11. QED BY <1>1, <1>8, <1>9, <1>10, GoesMarked DEF CallMarked

LEMMA ReplaceMarked ==
    ASSUME Undisturbed, NEW c \in Callers, Replace(c)
    PROVE  AllMarked'
<1>1. pc[c] = "replace" /\ ~Moves(c) /\ UNCHANGED <<enabled, off, copied, made>>
  BY UndisturbedFacts, ReplaceMoves DEF Moves, memory, history
<1>2. CASE UNCHANGED files /\ (Returns(c) \/ MovesTo(c, "list"))
  BY <1>1, <1>2, StandMarked DEF StillMarks, MovesTo, MovesWith
<1>3. CASE files' = [files EXCEPT ![job[c].replace] = Absent] /\ MovesTo(c, "list")
  BY <1>1, <1>3, GoneMarked DEF MovesTo, MovesWith
<1>4. QED BY <1>2, <1>3, UndisturbedFacts, ReplaceMoves

LEMMA UnlinkMarked ==
    ASSUME Undisturbed, NEW c \in Callers, Unlink(c)
    PROVE  AllMarked'
<1>1. /\ pc[c] = "unlink" /\ ~Moves(c) /\ UNCHANGED <<enabled, off, copied, made>>
      /\ files' = [files EXCEPT ![job[c].old.file] = Absent] /\ MovesTo(c, "list")
  BY UndisturbedFacts, UnlinkMoves DEF Moves, memory, history
<1>2. QED BY <1>1, GoneMarked DEF MovesTo, MovesWith

LEMMA ReloadingMarked ==
    ASSUME Undisturbed, NEW c \in Callers,
           ListDir(c) \/ ScanFile(c) \/ InstallScan(c) \/ SaveReturns(c)
    PROVE  AllMarked'
<1>1. CASE ListDir(c)
  <2>1. /\ pc[c] = "list" /\ StillMarks /\ ~Moves(c)
        /\ pc'[c] = "scan" /\ job'[c] = job[c] /\ OthersStay(c)
    BY <1>1, UndisturbedFacts, ListMoves DEF ScansTo, StillMarks, disk, memory, Moves
  <2>2. QED BY <2>1, StandMarked
<1>2. CASE ScanFile(c)
  <2>1. /\ pc[c] = "scan" /\ StillMarks /\ ~Moves(c)
        /\ pc'[c] = "scan" /\ job'[c] = job[c] /\ OthersStay(c)
    BY <1>2, UndisturbedFacts, ScanMoves
    DEF ScansTo, StillMarks, disk, memory, history, counters, Moves
  <2>2. QED BY <2>1, StandMarked
<1>3. CASE InstallScan(c)
  <2>1. pc[c] = "scan" /\ StillMarks /\ ~Moves(c) /\ (Returns(c) \/ MovesTo(c, "found"))
    BY <1>3, UndisturbedFacts, InstallScanMoves DEF StillMarks, disk, history, counters, Moves
  <2>2. QED BY <2>1, StandMarked DEF MovesTo, MovesWith
<1>4. CASE SaveReturns(c)
  <2>1. pc[c] = "found" /\ StillMarks /\ ~Moves(c) /\ Returns(c)
    BY <1>4, UndisturbedFacts, FoundMoves DEF StillMarks, disk, memory, history, counters, Moves
  <2>2. QED BY <2>1, StandMarked
<1>5. QED BY <1>1, <1>2, <1>3, <1>4

LEMMA NoFault ==
    ASSUME TypeOK, Orderly'
    PROVE  ~Fault
BY DEF Orderly, Fault, TypeOK

\* A run that is orderly has been so all along.
LEMMA OrderlyStep ==
    ASSUME TypeOK, \A d \in Callers : JobFits(d), [Next]_vars, Orderly'
    PROVE  Orderly
<1>0. ~Fault
  BY NoFault
<1> USE <1>0
<1>1. ASSUME Crash
      PROVE  Orderly
  <2>1. crashes' = crashes + 1 /\ crashes \in Nat /\ crashes' = 0
    BY <1>1 DEF Crash, TypeOK, Orderly
  <2>2. QED BY <2>1
<1>2. ASSUME NEW c \in Callers, NEW id \in Ids, NEW on \in BOOLEAN, SetEnabled(c, id, on)
      PROVE  Orderly
  BY <1>2 DEF SetEnabled, Call, history, failing, counters, Orderly
<1>3. ASSUME NEW c \in Callers, NEW id \in Ids, NEW newId \in Ids, SaveEdit(c, id, newId)
      PROVE  Orderly
  BY <1>3, EditBegins DEF BeginsWith, history, failing, counters, Orderly
<1>4. ASSUME NEW c \in Callers, NEW newId \in Ids, NEW f \in invalid \cup {0}, SaveNew(c, newId, f)
      PROVE  Orderly
  BY <1>4, NewBegins DEF BeginsWith, history, failing, counters, Orderly
<1>5. ASSUME NEW c \in Callers, NEW ids \in Batches, Import(c, ids)
      PROVE  Orderly
  BY <1>5, ImportBegins DEF BeginsWith, history, failing, counters, Orderly
<1>6. ASSUME NEW c \in Callers, Reload(c)
      PROVE  Orderly
  BY <1>6, ReloadBegins DEF BeginsWith, history, failing, counters, Orderly
<1>7. ASSUME NEW c \in Callers, NEW id \in Ids, Delete(c, id)
      PROVE  Orderly
  BY <1>7, DeleteBegins DEF BeginsWith, history, failing, counters, Orderly
<1>8. ASSUME NEW c \in Callers, ImportNext(c)
      PROVE  Orderly
  BY <1>8, ImportMoves DEF history, failing, counters, Orderly
<1>9. ASSUME NEW c \in Callers, WriteTmp(c)
      PROVE  Orderly
  BY <1>9, WriteMoves DEF history, failing, counters, Orderly
<1>10. ASSUME NEW c \in Callers, Install(c)
      PROVE  Orderly
  BY <1>10, InstallMoves DEF Installs, history, failing, counters, Orderly
<1>11. ASSUME NEW c \in Callers, Retire(c)
      PROVE  Orderly
  BY <1>11, RetireMoves DEF history, failing, counters, Orderly
<1>12. ASSUME NEW c \in Callers, MoveToggle(c)
      PROVE  Orderly
  BY <1>12, ToggleMoves DEF history, failing, counters, Orderly
<1>13. ASSUME NEW c \in Callers, Replace(c)
      PROVE  Orderly
  BY <1>13, ReplaceMoves DEF history, failing, counters, Orderly
<1>14. ASSUME NEW c \in Callers, Unlink(c)
      PROVE  Orderly
  BY <1>14, UnlinkMoves DEF history, failing, counters, Orderly
<1>15. ASSUME NEW c \in Callers, ListDir(c)
      PROVE  Orderly
  BY <1>15, ListMoves DEF history, failing, counters, Orderly
<1>16. ASSUME NEW c \in Callers, ScanFile(c)
      PROVE  Orderly
  BY <1>16, ScanMoves DEF history, failing, counters, Orderly
<1>17. ASSUME NEW c \in Callers, InstallScan(c)
      PROVE  Orderly
  BY <1>17, InstallScanMoves DEF history, failing, counters, Orderly
<1>18. ASSUME NEW c \in Callers, SaveReturns(c)
      PROVE  Orderly
  BY <1>18, FoundMoves DEF history, failing, counters, Orderly
<1>19. CASE UNCHANGED vars
  BY <1>19 DEF vars, history, failing, counters, Orderly
<1>20. QED
  BY <1>1, <1>2, <1>3, <1>4, <1>5, <1>6, <1>7, <1>8, <1>9, <1>10, <1>11, <1>12,
     <1>13, <1>14, <1>15, <1>16, <1>17, <1>18, <1>19
  DEF Next, Begin, Continue

LEMMA MarkedStep ==
    ASSUME Undisturbed, [Next]_vars
    PROVE  AllMarked'
<1>1. ASSUME Crash
      PROVE  AllMarked'
  <2>1. crashes' = crashes + 1 /\ crashes = 0 /\ crashes' = 0
    BY <1>1 DEF Crash, Orderly, Undisturbed
  <2>2. QED BY <2>1
<1>2. ASSUME NEW c \in Callers, NEW id \in Ids, NEW on \in BOOLEAN, SetEnabled(c, id, on)
      PROVE  AllMarked'
  BY <1>2, SetMarked
<1>3. ASSUME NEW c \in Callers, NEW id \in Ids, NEW newId \in Ids, SaveEdit(c, id, newId)
      PROVE  AllMarked'
  BY <1>3, EditMarked
<1>4. ASSUME NEW c \in Callers, NEW newId \in Ids, NEW f \in invalid \cup {0}, SaveNew(c, newId, f)
      PROVE  AllMarked'
  BY <1>4, NewMarked
<1>5. ASSUME NEW c \in Callers, NEW ids \in Batches, Import(c, ids)
      PROVE  AllMarked'
  BY <1>5, ImportMarked
<1>6. ASSUME NEW c \in Callers, Reload(c)
      PROVE  AllMarked'
  BY <1>6, ReloadMarked
<1>7. ASSUME NEW c \in Callers, NEW id \in Ids, Delete(c, id)
      PROVE  AllMarked'
  BY <1>7, DeleteMarked
<1>8. ASSUME NEW c \in Callers, ImportNext(c)
      PROVE  AllMarked'
  BY <1>8, NextMarked
<1>9. ASSUME NEW c \in Callers, WriteTmp(c)
      PROVE  AllMarked'
  BY <1>9, WriteMarked
<1>10. ASSUME NEW c \in Callers, Install(c)
      PROVE  AllMarked'
  BY <1>10, InstallWrites, FreshMarked, EditedMarked, RenamedMarked
<1>11. ASSUME NEW c \in Callers, Retire(c)
      PROVE  AllMarked'
  BY <1>11, RetireMarked
<1>12. ASSUME NEW c \in Callers, MoveToggle(c)
      PROVE  AllMarked'
  BY <1>12, MovedMarked
<1>13. ASSUME NEW c \in Callers, Replace(c)
      PROVE  AllMarked'
  BY <1>13, ReplaceMarked
<1>14. ASSUME NEW c \in Callers, Unlink(c)
      PROVE  AllMarked'
  BY <1>14, UnlinkMarked
<1>15. ASSUME NEW c \in Callers, ListDir(c)
      PROVE  AllMarked'
  BY <1>15, ReloadingMarked
<1>16. ASSUME NEW c \in Callers, ScanFile(c)
      PROVE  AllMarked'
  BY <1>16, ReloadingMarked
<1>17. ASSUME NEW c \in Callers, InstallScan(c)
      PROVE  AllMarked'
  BY <1>17, ReloadingMarked
<1>18. ASSUME NEW c \in Callers, SaveReturns(c)
      PROVE  AllMarked'
  BY <1>18, ReloadingMarked
<1>19. CASE UNCHANGED vars
  <2>1. UNCHANGED <<files, enabled, off, copied, made, pc, job>>
    BY <1>19 DEF vars, disk, memory, history, counters
  <2>2. AllMarked
    BY DEF Undisturbed
  <2>3. Off' = Off /\ Moving' = Moving /\ \A d \in Callers : Moves(d)' <=> Moves(d)
    BY <2>1 DEF Off, Moving, Moves, Target
  <2>4. Numbered'
    BY <2>1, <2>2 DEF AllMarked, Numbered
  <2>5. Marked(files', enabled', Off', copied', Moving')
    BY <2>1, <2>2, <2>3 DEF AllMarked
  <2>6. \A d \in Callers : NewFits(d)'
    BY <2>1, <2>2 DEF AllMarked, CallMarked, NewFits, Edits, IsUser, Claims
  <2>7. \A d \in Callers : Moves(d)' => RenameFits(d)'
    BY <2>1, <2>2, <2>3 DEF AllMarked, CallMarked, RenameFits, Claims, Target
  <2>8. QED BY <2>4, <2>5, <2>6, <2>7 DEF AllMarked, CallMarked
<1>20. QED
  BY <1>1, <1>2, <1>3, <1>4, <1>5, <1>6, <1>7, <1>8, <1>9, <1>10, <1>11, <1>12,
     <1>13, <1>14, <1>15, <1>16, <1>17, <1>18, <1>19
  DEF Next, Begin, Continue

LEMMA StaysOffStep ==
    ASSUME Shape, Lone, Reliable, StaysOff, [Next]_vars
    PROVE  StaysOff'
<1>1. SUFFICES ASSUME Orderly'
               PROVE  AllMarked'
  BY DEF StaysOff
<1>2. Orderly /\ ~Fault
  BY <1>1, OrderlyStep, NoFault DEF Shape
<1>3. Truthful
  BY <1>2 DEF Shape, Saved, Orderly, Reliable, Settled, Apart
<1>4. Undisturbed
  BY <1>1, <1>2, <1>3, ShapeStep DEF Undisturbed, StaysOff
<1>5. QED BY <1>4, MarkedStep

LEMMA StaysOffInit == Init => StaysOff
<1> SUFFICES ASSUME Init
             PROVE  AllMarked
  BY DEF StaysOff
<1>1. \A f \in Files : files[f] = Absent \/ files[f] = Broken \/ \E id \in Ids : files[f] = Text(id, f, 0)
  BY DEF Init, Placed
<1>2. /\ off = {} /\ copied = {} /\ made = 0
      /\ \A c \in Callers : pc[c] = "idle" /\ job[c] = NoJob
  BY DEF Init
<1>3. \A f \in Files : /\ files[f].rule = 0 \/ files[f].rule = f
                       /\ IsRule(files[f]) => files[f].rule = f
  <2>1. TAKE f \in Files
  <2>2. CASE files[f] = Absent \/ files[f] = Broken
    BY <2>2 DEF Absent, Broken, Text, IsRule
  <2>3. CASE \E id \in Ids : files[f] = Text(id, f, 0)
    BY <2>3 DEF Text
  <2>4. QED BY <1>1, <2>2, <2>3
<1>4. Numbered
  <2>1. \A f \in Files : files[f].rule <= MaxFile + made
    <3>1. \A f \in Files : f \in Nat /\ f <= MaxFile
      BY FileNames
    <3>2. MaxFile \in Nat /\ made = 0
      BY <1>2, FileNames
    <3>3. QED BY <1>3, <3>1, <3>2
  <2>2. \A c \in Callers : job[c].text.rule = 0
    BY <1>2 DEF NoJob, Job, Absent, Text
  <2>3. 0 <= MaxFile + made
    BY <1>2, FileNames
  <2>4. QED BY <1>2, <2>1, <2>2, <2>3 DEF Numbered
<1>5. Moving = {} /\ Off = {}
  BY <1>2 DEF Moving, Moves, Off
<1>6. Marked(files, enabled, {}, {}, {})
  BY <1>3 DEF Marked
<1>7. \A c \in Callers : CallMarked(c)
  BY <1>2 DEF CallMarked, NewFits, Edits, Moves, NoJob, Job
<1>8. QED BY <1>2, <1>4, <1>5, <1>6, <1>7 DEF AllMarked

\* A rule the user has switched off stays off, through edits and renames (save.go), as long as
\* calls come one at a time and succeed, and no edit has left a copy of it in another file.
THEOREM DisabledRulesStayOff == Spec => []DisabledStaysOff
<1> DEFINE Inv == Shape /\ Lone /\ Reliable /\ StaysOff
<1>1. Init => Inv
  BY ShapeInit, AloneInit, ReliableInit, StaysOffInit
<1>2. Inv /\ [Next]_vars => Inv'
  BY ShapeStep, LoneStep, ReliableStep, StaysOffStep
<1>3. Inv => DisabledStaysOff
  <2>1. SUFFICES ASSUME Inv, Quiet, Orderly, NEW id \in Ids, IsUser(valid[id]),
                        valid[id].text.rule \in Off
                 PROVE  ~valid[id].on
    BY DEF DisabledStaysOff, Off
  <2>2. files \in [Files -> Texts] /\ valid = Loaded(files, enabled)
    BY <2>1 DEF Shape, TypeOK, Saved, Orderly, Reliable, Settled, Apart, Truthful, Untouched, Quiet, Exact
  <2>3. Marked(files, enabled, Off, copied, {})
    <3>1. Moving = {}
      BY <2>1 DEF Moving, Moves, Quiet
    <3>2. QED BY <2>1, <3>1 DEF StaysOff, AllMarked
  <2>4. /\ valid[id].file \in Claims(files, id) /\ valid[id].text = files[valid[id].file]
        /\ valid[id].on = EnabledFor(enabled, id)
    BY <2>1, <2>2, LoadsFirst
  <2>5. enabled[id] = "off"
    BY <2>1, <2>3, <2>4 DEF Marked, Claims, IsRule, Ids
  <2>6. QED BY <2>4, <2>5 DEF EnabledFor
<1>4. QED BY <1>1, <1>2, <1>3, PTL DEF Spec
=============================================================================
