----------------------------- MODULE RuleRegistry -----------------------------
(***************************************************************************)
(* The rule library: the files of the rules directory, the sidecar with    *)
(* the user's toggles, and what the registry has loaded of both. The       *)
(* bindings of the Rules page run on a goroutine each; the registry's lock *)
(* covers its memory and the sidecar, not the files.                       *)
(*                                                                         *)
(* Abstractions: a rule's text is the id its name gives, which rule it is  *)
(* (kept through edits and renames) and how often it was edited; file      *)
(* names are numbers in sorting order, 2 * id the one the registry gives   *)
(* to id and the odd ones names it never makes; what is refused before     *)
(* anything is written (invalid text, an unknown id, a claimed name) is no *)
(* step.                                                                   *)
(***************************************************************************)
EXTENDS Integers, Sequences, FiniteSetsExt

CONSTANTS
    Callers,     \* goroutines that serve bindings
    MaxId,       \* rule ids are 1 .. MaxId
    Builtin,     \* ids of the embedded rules
    Strays,      \* odd file names
    MaxNew,      \* bound: rules created or imported
    MaxRev,      \* bound: edits of a rule
    MaxCalls,    \* bound: calls
    MaxFaults,   \* bound: file operations that fail
    MaxCrashes   \* bound: crashes

ASSUME RegistryAssumption ==
    /\ {MaxId, MaxNew, MaxRev, MaxCalls, MaxFaults, MaxCrashes} \subseteq Nat
    /\ Builtin \subseteq 1 .. MaxId
    /\ Strays \subseteq {2 * n + 1 : n \in 0 .. MaxId}

VARIABLES
    files,    \* the rules directory
    tmp,      \* the .tmp files beside them
    state,    \* the sidecar: the overrides as written
    enabled,  \* the overrides in memory
    valid, invalid,
    pc, job,  \* each caller's place and its call
    scan,     \* its Reload
    off,      \* history: the rules the user has switched off,
    copied,   \* those of which a save has left a copy in another file,
    together, \* whether calls have run together "since" the directory was listed by a call
              \* alone, only "before" that, or "never",
    faulted,  \* and whether a file operation has failed since then
    made, calls, faults, crashes

disk == <<files, tmp, state>>
memory == <<enabled, valid, invalid>>
history == <<off, copied, together>>
failing == <<faults, faulted>>
counters == <<made, calls, crashes>>
vars == <<disk, memory, pc, job, scan, history, failing, counters>>

Ids == 1 .. MaxId
FileOf(id) == 2 * id
Files == {FileOf(id) : id \in Ids} \cup Strays
MaxFile == 2 * MaxId + 1

Text(id, rule, rev) == [id |-> id, rule |-> rule, rev |-> rev]
Absent == Text(0, 0, 0)
Broken == Text(0, 0, 1)    \* does not parse
IsRule(text) == text.id # 0

Rule(text, file, on) == [text |-> text, file |-> file, on |-> on]
NoRule == Rule(Absent, 0, FALSE)
IsUser(rule) == rule.file # 0

EnabledFor(toggles, id) == toggles[id] # "off"

Builtins(toggles) ==
    [id \in Ids |-> IF id \in Builtin THEN Rule(Text(id, 0, 0), 0, EnabledFor(toggles, id))
                                      ELSE NoRule]

\* What a scan finds when nothing moves: of the files that claim an id the first.
Claims(dir, id) == {f \in Files : dir[f].id = id}
Loaded(dir, toggles) ==
    [id \in Ids |-> IF Claims(dir, id) = {} THEN Builtins(toggles)[id]
                    ELSE LET f == Min(Claims(dir, id))
                         IN  Rule(dir[f], f, EnabledFor(toggles, id))]
Rejected(dir) ==
    {f \in Files : dir[f] # Absent /\ (IsRule(dir[f]) => \E g \in Claims(dir, dir[f].id) : g < f)}

Job(op, text, old, replace) ==
    [op |-> op, text |-> text, old |-> old, replace |-> replace, queue |-> <<>>, claimed |-> {}]
NoJob == Job("none", Absent, NoRule, 0)
NoScan == [left |-> {}, valid |-> [id \in Ids |-> NoRule], invalid |-> {}]

\* The user may have put any rule under any name.
Placed(f) ==
    {Absent, Broken} \cup {Text(id, f, 0) : id \in Ids}

\* A first start on a directory the user or an earlier session has filled.
Init ==
    /\ files \in {dir \in [Files -> UNION {Placed(f) : f \in Files}] :
                    \A f \in Files : dir[f] \in Placed(f)}
    /\ tmp = [f \in Files |-> Absent]
    /\ state = [id \in Ids |-> "unset"]
    /\ enabled = state
    /\ valid = Loaded(files, enabled)
    /\ invalid = Rejected(files)
    /\ pc = [c \in Callers |-> "idle"]
    /\ job = [c \in Callers |-> NoJob]
    /\ scan = [c \in Callers |-> NoScan]
    /\ off = {} /\ copied = {}
    /\ together = "never" /\ faulted = FALSE
    /\ made = 0 /\ calls = 0 /\ faults = 0 /\ crashes = 0

-----------------------------------------------------------------------------

At(c, place) == pc[c] = place
Goto(c, place) == pc' = [pc EXCEPT ![c] = place]
Fault == faults < MaxFaults /\ faults' = faults + 1 /\ faulted' = TRUE
Alone(c) == \A d \in Callers \ {c} : At(d, "idle")
Call(c) ==
    /\ At(c, "idle")
    /\ calls < MaxCalls
    /\ calls' = calls + 1
    /\ together' = IF Alone(c) THEN together ELSE "since"

\* The call returns.
Return(c) ==
    /\ Goto(c, "idle")
    /\ job' = [job EXCEPT ![c] = NoJob]
    /\ scan' = [scan EXCEPT ![c] = NoScan]

Target(c) == FileOf(job[c].text.id)
Renamed(c) == IsUser(job[c].old) /\ job[c].old.text.id # job[c].text.id
\* An edit that keeps its name is written to the name's own file, wherever it was read.
LeavesCopy(c) == IsUser(job[c].old) /\ ~Renamed(c) /\ job[c].old.file # Target(c)

-----------------------------------------------------------------------------
(* SetEnabled, under the lock *)

SetEnabled(c, id, on) ==
    /\ Call(c)
    /\ valid[id] # NoRule
    /\ valid' = [valid EXCEPT ![id].on = on]
    /\ enabled' = [enabled EXCEPT ![id] = IF on THEN "on" ELSE "off"]
    /\ \/ state' = enabled' /\ UNCHANGED failing
       \/ Fault /\ UNCHANGED state
    /\ off' = IF on \/ ~IsUser(valid[id]) THEN off \ {valid[id].text.rule}
                                          ELSE off \cup {valid[id].text.rule}
    /\ UNCHANGED <<files, tmp, invalid, pc, job, scan, copied, made, crashes>>

-----------------------------------------------------------------------------
(* Save and Import *)

Start(c, call) ==
    /\ Call(c)
    /\ Goto(c, "write")
    /\ job' = [job EXCEPT ![c] = call]
    /\ UNCHANGED <<disk, memory, scan, off, copied, failing, crashes>>

\* An edit of user rule `id`, which may give it another name.
SaveEdit(c, id, newId) ==
    /\ IsUser(valid[id]) /\ valid[id].text.rev < MaxRev
    /\ newId = id \/ ~IsUser(valid[newId])
    /\ Start(c, Job("save", Text(newId, valid[id].text.rule, valid[id].text.rev + 1), valid[id], 0))
    /\ UNCHANGED made

\* A new rule (f = 0), or the repair of file f, which did not load.
SaveNew(c, newId, f) ==
    /\ ~IsUser(valid[newId])
    /\ made < MaxNew
    /\ made' = made + 1
    /\ Start(c, Job("save", Text(newId, MaxFile + made + 1, 0), NoRule, f))

\* The names taken are those loaded when the import begins.
Import(c, ids) ==
    /\ Len(ids) <= MaxNew - made
    /\ made' = made + Len(ids)
    /\ Call(c)
    /\ Goto(c, "next")
    /\ job' = [job EXCEPT ![c] =
                  [op |-> "import", text |-> Absent, old |-> NoRule, replace |-> 0,
                   queue |-> [i \in DOMAIN ids |-> Text(ids[i], MaxFile + made + i, 0)],
                   claimed |-> {id \in Ids : IsUser(valid[id])}]]
    /\ UNCHANGED <<disk, memory, scan, off, copied, failing, crashes>>

\* Faulty variant: a claimed name is imported all the same.
ImportAnyway(c) ==
    /\ At(c, "next")
    /\ UNCHANGED <<disk, memory, scan, history, failing, counters>>
    /\ \/ job[c].queue = <<>> /\ Goto(c, "list") /\ UNCHANGED job
       \/ /\ job[c].queue # <<>>
          /\ LET text == Head(job[c].queue) IN
                /\ job' = [job EXCEPT ![c].queue = Tail(@), ![c].text = text]
                /\ Goto(c, "write")

ImportNext(c) ==
    /\ At(c, "next")
    /\ UNCHANGED <<disk, memory, scan, history, failing, counters>>
    /\ \/ job[c].queue = <<>> /\ Goto(c, "list") /\ UNCHANGED job
       \/ /\ job[c].queue # <<>>
          /\ LET text == Head(job[c].queue) IN
                IF text.id \in job[c].claimed
                THEN job' = [job EXCEPT ![c].queue = Tail(@)] /\ UNCHANGED pc
                ELSE /\ job' = [job EXCEPT ![c].queue = Tail(@), ![c].text = text]
                     /\ Goto(c, "write")

\* A failed write ends a save; an import reports it and goes on.
WriteFails(c) ==
    IF job[c].op = "save" THEN Return(c) ELSE Goto(c, "next") /\ UNCHANGED <<job, scan>>

\* writeFileAtomic: the text goes to the temporary file,
WriteTmp(c) ==
    /\ At(c, "write")
    /\ \/ /\ tmp' = [tmp EXCEPT ![Target(c)] = job[c].text]
          /\ Goto(c, "install")
          /\ UNCHANGED <<job, scan, failing>>
       \/ Fault /\ WriteFails(c) /\ UNCHANGED tmp
    /\ UNCHANGED <<files, state, memory, history, made, calls, crashes>>

AfterInstall(c) ==
    IF job[c].op = "import" THEN "next"
    ELSE IF Renamed(c) THEN "retire"
    ELSE IF job[c].replace # 0 THEN "replace"
    ELSE "list"

\* which is renamed over the rule's file: gone if another caller has renamed it.
Install(c) ==
    /\ At(c, "install")
    /\ \/ /\ tmp[Target(c)] # Absent
          /\ files' = [files EXCEPT ![Target(c)] = tmp[Target(c)]]
          /\ tmp' = [tmp EXCEPT ![Target(c)] = Absent]
          /\ Goto(c, AfterInstall(c))
          /\ job' = [job EXCEPT ![c].claimed = @ \cup {job[c].text.id}]
          /\ copied' = IF LeavesCopy(c) THEN copied \cup {job[c].text.rule} ELSE copied
          /\ UNCHANGED <<scan, failing>>
       \/ tmp[Target(c)] = Absent /\ WriteFails(c) /\ UNCHANGED <<files, tmp, copied, failing>>
       \/ Fault /\ WriteFails(c) /\ UNCHANGED <<files, tmp, copied>>
    /\ UNCHANGED <<state, memory, off, together, made, calls, crashes>>

\* Faulty variant: the new file is removed instead of the old one.
RetireNew(c) ==
    /\ At(c, "retire")
    /\ \/ /\ files' = [files EXCEPT ![Target(c)] = Absent]
          /\ Goto(c, "toggle")
          /\ UNCHANGED <<job, scan, failing>>
       \/ Fault /\ Return(c) /\ UNCHANGED files
    /\ UNCHANGED <<tmp, state, memory, history, made, calls, crashes>>

\* The rule has another name: its old file goes,
Retire(c) ==
    /\ At(c, "retire")
    /\ \/ /\ files' = [files EXCEPT ![job[c].old.file] = Absent]
          /\ Goto(c, "toggle")
          /\ UNCHANGED <<job, scan, failing>>
       \/ Fault /\ Return(c) /\ UNCHANGED files
    /\ UNCHANGED <<tmp, state, memory, history, made, calls, crashes>>

\* Faulty variant: the toggle is dropped with the old id.
DropToggle(c) ==
    /\ At(c, "toggle")
    /\ enabled' = [enabled EXCEPT ![job[c].old.text.id] = "unset"]
    /\ \/ state' = enabled' /\ Goto(c, "list") /\ UNCHANGED <<job, scan, failing>>
       \/ Fault /\ Return(c) /\ UNCHANGED state
    /\ UNCHANGED <<files, tmp, valid, invalid, history, made, calls, crashes>>

\* and an override moves to the new id, as it was when the call began.
MoveToggle(c) ==
    /\ At(c, "toggle")
    /\ LET old == job[c].old.text.id IN
          enabled' = IF enabled[old] = "unset" THEN enabled
                     ELSE [enabled EXCEPT ![old] = "unset",
                               ![job[c].text.id] = IF job[c].old.on THEN "on" ELSE "off"]
    /\ \/ state' = enabled' /\ Goto(c, "list") /\ UNCHANGED <<job, scan, failing>>
       \/ Fault /\ Return(c) /\ UNCHANGED state
    /\ UNCHANGED <<files, tmp, valid, invalid, history, made, calls, crashes>>

\* A repaired file is removed, unless it is the one just written or gone.
Replace(c) ==
    /\ At(c, "replace")
    /\ LET f == job[c].replace IN
          \/ f = Target(c) /\ Goto(c, "list") /\ UNCHANGED <<files, job, scan, failing>>
          \/ f # Target(c) /\ files[f] = Absent /\ Return(c) /\ UNCHANGED <<files, failing>>
          \/ /\ f # Target(c) /\ files[f] # Absent
             /\ \/ files' = [files EXCEPT ![f] = Absent] /\ Goto(c, "list")
                   /\ UNCHANGED <<job, scan, failing>>
                \/ Fault /\ Return(c) /\ UNCHANGED files
    /\ UNCHANGED <<tmp, state, memory, history, made, calls, crashes>>

-----------------------------------------------------------------------------
(* Delete *)

\* Its toggle goes first, under the lock,
Delete(c, id) ==
    /\ Call(c)
    /\ IsUser(valid[id])
    /\ enabled' = [enabled EXCEPT ![id] = "unset"]
    /\ \/ /\ state' = enabled'
          /\ Goto(c, "unlink")
          /\ job' = [job EXCEPT ![c] = Job("delete", Absent, valid[id], 0)]
          /\ off' = off \ {valid[id].text.rule}
          /\ UNCHANGED failing
       \/ Fault /\ UNCHANGED <<state, pc, job, off>>
    /\ UNCHANGED <<files, tmp, valid, invalid, scan, copied, made, crashes>>

\* Faulty variant: what is loaded stays as it was.
UnlinkOnly(c) ==
    /\ At(c, "unlink")
    /\ \/ files' = [files EXCEPT ![job[c].old.file] = Absent] /\ UNCHANGED failing
       \/ Fault /\ UNCHANGED files
    /\ Return(c)
    /\ UNCHANGED <<tmp, state, memory, history, made, calls, crashes>>

\* then its file.
Unlink(c) ==
    /\ At(c, "unlink")
    /\ \/ /\ files' = [files EXCEPT ![job[c].old.file] = Absent]
          /\ Goto(c, "list")
          /\ UNCHANGED <<job, scan, failing>>
       \/ Fault /\ Return(c) /\ UNCHANGED files
    /\ UNCHANGED <<tmp, state, memory, history, made, calls, crashes>>

-----------------------------------------------------------------------------
(* Reload: the directory is listed, its files are read in order, and the   *)
(* result is installed under the lock                                      *)

Reload(c) ==
    /\ Call(c)
    /\ Goto(c, "list")
    /\ job' = [job EXCEPT ![c] = Job("reload", Absent, NoRule, 0)]
    /\ UNCHANGED <<disk, memory, scan, off, copied, made, failing, crashes>>

ListDir(c) ==
    /\ At(c, "list")
    /\ \/ /\ scan' = [scan EXCEPT ![c] = [left |-> {f \in Files : files[f] # Absent},
                                          valid |-> Builtins(enabled), invalid |-> {}]]
          /\ Goto(c, "scan")
          /\ together' = IF Alone(c) /\ together = "since" THEN "before" ELSE together
          /\ faulted' = (faulted /\ ~Alone(c))
          /\ UNCHANGED <<job, faults>>
       \/ Fault /\ Return(c) /\ UNCHANGED together
    /\ UNCHANGED <<disk, memory, off, copied, made, calls, crashes>>

\* A file that is gone or broken, or whose id is claimed, is a load error.
ScanFile(c) ==
    /\ At(c, "scan") /\ scan[c].left # {}
    /\ LET f == Min(scan[c].left)
           id == files[f].id
           fits == IsRule(files[f]) /\ ~IsUser(scan[c].valid[id])
           rule == Rule(files[f], f, EnabledFor(enabled, id))
       IN  scan' = [scan EXCEPT ![c] =
               [left    |-> @.left \ {f},
                valid   |-> IF fits THEN [@.valid EXCEPT ![id] = rule] ELSE @.valid,
                invalid |-> IF fits THEN @.invalid ELSE @.invalid \cup {f}]]
    /\ UNCHANGED <<disk, memory, pc, job, history, failing, counters>>

InstallScan(c) ==
    /\ At(c, "scan") /\ scan[c].left = {}
    /\ valid' = scan[c].valid
    /\ invalid' = scan[c].invalid
    /\ IF job[c].op = "save" THEN Goto(c, "found") /\ UNCHANGED <<job, scan>> ELSE Return(c)
    /\ UNCHANGED <<disk, enabled, history, failing, counters>>

\* Save looks its rule up and returns it, or an error when it is not there.
SaveReturns(c) ==
    /\ At(c, "found")
    /\ Return(c)
    /\ UNCHANGED <<disk, memory, history, failing, counters>>

-----------------------------------------------------------------------------

\* The program dies and is opened again.
Crash ==
    /\ crashes < MaxCrashes
    /\ crashes' = crashes + 1
    /\ enabled' = state
    /\ valid' = Loaded(files, state)
    /\ invalid' = Rejected(files)
    /\ pc' = [c \in Callers |-> "idle"]
    /\ job' = [c \in Callers |-> NoJob]
    /\ scan' = [c \in Callers |-> NoScan]
    /\ together' = IF together = "since" THEN "before" ELSE together
    /\ faulted' = FALSE
    /\ UNCHANGED <<disk, off, copied, made, calls, faults>>

Batches == UNION {[1 .. n -> Ids] : n \in 1 .. 2}

Begin(c) ==
    \/ \E id \in Ids : Delete(c, id)
    \/ \E id \in Ids, on \in BOOLEAN : SetEnabled(c, id, on)
    \/ \E id, newId \in Ids : SaveEdit(c, id, newId)
    \/ \E newId \in Ids, f \in invalid \cup {0} : SaveNew(c, newId, f)
    \/ \E ids \in Batches : Import(c, ids)
    \/ Reload(c)

Continue(c) ==
    \/ ImportNext(c) \/ WriteTmp(c) \/ Install(c) \/ Retire(c) \/ MoveToggle(c) \/ Replace(c)
    \/ Unlink(c) \/ ListDir(c) \/ ScanFile(c) \/ InstallScan(c) \/ SaveReturns(c)

Next == Crash \/ \E c \in Callers : Begin(c) \/ Continue(c)

Spec == Init /\ [][Next]_vars

-----------------------------------------------------------------------------
(* Properties *)

Texts == [id : 0 .. MaxId, rule : 0 .. MaxFile + MaxNew, rev : 0 .. MaxRev + 1]
Rules == [text : Texts, file : Files \cup {0}, on : BOOLEAN]
Toggles == [Ids -> {"unset", "on", "off"}]
Jobs == [op : {"none", "save", "import", "delete", "reload"}, text : Texts, old : Rules,
         replace : Files \cup {0}, queue : Seq(Texts), claimed : SUBSET Ids]
Scans == [left : SUBSET Files, valid : [Ids -> Rules], invalid : SUBSET Files]
Places == {"idle", "next", "write", "install", "retire", "toggle", "replace", "unlink", "list",
           "scan", "found"}

\* Every variable has the shape its Go counterpart has.
TypeOK ==
    /\ files \in [Files -> Texts] /\ tmp \in [Files -> Texts]
    /\ state \in Toggles /\ enabled \in Toggles
    /\ valid \in [Ids -> Rules] /\ invalid \subseteq Files
    /\ pc \in [Callers -> Places] /\ job \in [Callers -> Jobs] /\ scan \in [Callers -> Scans]
    /\ off \subseteq 0 .. MaxFile + MaxNew /\ copied \subseteq 0 .. MaxFile + MaxNew
    /\ together \in {"never", "before", "since"} /\ faulted \in BOOLEAN
    /\ made \in 0 .. MaxNew /\ calls \in Nat /\ faults \in Nat /\ crashes \in Nat

Quiet == \A c \in Callers : pc[c] = "idle"

\* One call at a time since the directory was last listed with nothing else running.
Apart == together # "since"

\* Whatever happened before, calls that overlapped and file operations that failed: once the
\* directory has been listed by a call that runs alone, or the program has been opened again,
\* the registry holds between calls what the directory and the toggles say, until calls
\* overlap or an operation fails again (Registry.Reload). The sidecar is exact even while
\* they overlap.
MemoryIsDisk ==
    /\ Quiet /\ Apart /\ ~faulted => valid = Loaded(files, enabled) /\ invalid = Rejected(files)
    /\ faults = 0 => state = enabled

\* Nothing silently replaces a rule that already exists (save.go): the file of a
\* loaded rule, when the registry named it, changes in a call about that rule
\* only, or to be repaired.
NothingReplaced ==
    [][Apart => \A id \in Ids :
          valid[id].file = FileOf(id) /\ files'[FileOf(id)] # files[FileOf(id)] =>
              \E c \in Callers : \/ IsUser(job[c].old) /\ job[c].old.text.rule = valid[id].text.rule
                                 \/ job[c].replace = FileOf(id)]_vars

\* A rename is write-then-remove: once the old file is gone the new one is there.
RenameAlwaysKeeps == \A c \in Callers : pc[c] = "toggle" => files[Target(c)] = job[c].text

\* So it is when the old file has the name the registry gave it.
RenameKeepsRule ==
    Apart =>
        \A c \in Callers :
            pc[c] = "toggle" /\ job[c].old.file = FileOf(job[c].old.text.id)
                => files[Target(c)] = job[c].text

\* One call at a time, ever, none of whose file operations has failed, and no crash.
Orderly == together = "never" /\ faults = 0 /\ crashes = 0

\* A rule the user has switched off stays off, through a rename too (save.go:135), unless an
\* edit has left a copy of it in the file it was read from.
DisabledStaysOff ==
    Quiet /\ Orderly =>
        \A id \in Ids : IsUser(valid[id]) /\ valid[id].text.rule \in off \ copied => ~valid[id].on
=============================================================================
