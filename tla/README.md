# rohy in TLA+

rohy is a desktop event mapper for forensic work: one Go process (Wails) with a
Svelte front end. It ingests Windows event logs into an embedded graph store,
lets the user query, correlate and draw relations between events, and keeps
rules, graphs, snapshots and annotations in sidecar files beside the store.
These modules model the parts of it where goroutines, binding calls, failing
writes and crashes meet, check them with TLC on small instances and prove what
matters most, with TLAPS, for all instances. Paths below are relative to
`src/`.

Contents: the system, the modules, the runs, fairness, the proofs, known
divergences, what is left out, the plan.

## 1. The system

Every call of a Wails binding runs on a goroutine of its own, so any two calls
interleave; events go from back end to front end in emission order. A
transaction of the graph store buffers *writes* only: reads (`GetNodes`,
`FindNodes`) are done before `Begin` and are not validated at commit. The store,
each sidecar and the bookmarks are durable separately; nothing spans two of them.

| Component | State | Operations | Hard part | Correct when |
|---|---|---|---|---|
| Ingestion sink, live capture (`backend/evtx`) | pending events, pending increments, staged positions, gate | read a channel, deduplicate, flush, stage and commit bookmarks, pause, cancel | what is written in which order; crash between any two writes; two channels share one buffer | a bookmark never passes an unstored record; one findable node per identity; a pause boundary is consistent |
| Capture bookmarks (`backend/capture`) | position per channel, in memory and on disk | `Position`, `SetPosition`, `Reset` | memory may run ahead of disk, never the reverse | covered records are stored |
| File pipeline (`backend/evtx/evtx_ingest.go`) | offsets and results channels, worker pool | produce, parse, close, sink | goroutines decide on their own that a file is over; a failed file's goroutines outlive it | each chunk once; no send on a closed channel; all goroutines end |
| Ingestion lifecycle (`backend/api/api_events.go`, `stores/ingestion.js`) | running, gate, cancel, done, state; the reducer of the UI | start, pause, resume, cancel, shutdown | each call is several critical sections; the run may end between them | one run, always controllable; drained before the store closes |
| Event store (`backend/graphene`) | nodes, edges, property index, payload store | insert, increment, delete, repair | node, index entry and payload are separate writes | (through the components above) |
| Order cache, dataset cache (`graphene_order.go`, `graphbuild/dryrun.go`) | ordered ids and prepared dataset of the last filter, a version | query, invalidate | scan and store are not atomic with writes | a returned write is never missed |
| Correlation key backfill (`graphene_backfill.go`, `api_maintenance.go`) | batch in hand, result | pass, cancel | read-modify-write beside ingestion's own | counts exact, stamps true, result adds up |
| Graph building, registry (`graphbuild`, `graphreg`, `api_graph.go`) | edges and index, graphs with ids and bound rules, active graph | build, cancel, repair, clear, create, rename, activate, delete, draw | user edits beside a build; crash between relation and index entry | rebuilding replaces; ids not reused; registry well formed |
| Rules (`backend/rules`) | directory, overrides sidecar, loaded rules | scan, toggle, save, import, delete | several files per call, scans outside the lock | memory agrees with disk; nothing lost or re-enabled |
| Rule files (`backend/rules`: format, validation) | none | decode, validate, advise, normalize, reformat | what loads is decided in one place and what runs in another | an accepted rule runs as written |
| Correlation algorithms (`backend/autograph`) | none | link, sequence, temporal, field, lineage | windows, ties, multi-key joins | equals a reference definition |
| Queries (`graphene_query.go`, `graphene_timeline.go`, ...) | none | filter, page, count, bucket | count and list decided on two paths | count = length of list; buckets partition |
| Layouts, clusters (`backend/graphlayout`) | none | four profiles, three clusterings | cycles, nodes without a time or a value, relations to nodes that are not there | no card on another; columns follow the edges; a cluster is whole |
| Snapshots (`backend/snapshot`, `api_snapshot.go`) | one file each | take, list, delete, preview and apply a restore | reads of three stores one after the other; events stored again under other ids | a node goes to the event of the same content; what was linked is linked again |
| Annotations, findings, layout files (`annotate`, `findings`, `layout`) | a copy in memory and one file per graph or case | add, move, mark, delete, save | derived ids; a failed write leaves the copy changed | what was acknowledged is on disk |
| Case check (`backend/caseintegrity`, `api_integrity.go`) | a report | eleven detectors over all of the above | no lock: every detector reads two stores one after the other | what lasts is reported; what is reported was real |
| Payload store (`backend/payload`) | append-only file | append, sync, read | a payload without its event after a crash | the unused tail is found |

How they interact: `EventsAPI` owns a run and its gate; a run drives the
pipeline or a live capture; both end in the same sink (`runSink`), which writes
to the event store, and for live capture to the bookmarks. The maintenance pass
and graph builds write to the same store with no lock between them and a run.
Every store write invalidates the order cache through one version counter, which
the dataset cache reads too. A build reads its dataset, asks the graph registry
for the rule's graph, clears it and writes relations, while the user edits
graphs through `GraphAPI`. `App.shutdown` drains ingestion, and only ingestion,
before it closes the store. `PROJECT.json` lists the hazards with their lines.

## 2. The modules

**LiveCapture** -- channel readers, the gate, `runSink` with its two buffers and
staged positions, the store and the bookmarks. One action per step at which
something else can happen: receiving a batch, taking a record (skip, duplicate in
the batch, duplicate in the store, new), end of a batch (stages its position),
`AddNodes`, each index registration, each increment flush, each `SetPosition`.
`Crash` and `StoreFails` are enabled throughout. `NothingUnwritten` is the
condition of `commitPositions`: both buffers empty. `nodes`, `indexed`,
`diskPos` are durable, the rest is lost in a crash.
**CaptureContract** is what capture promises, in three variables' worth of
state: what is kept, and a mark that only moves over what is kept.
LiveCapture implements it under `kept <- Contents, mark <- diskPos`. Occurrences
are counted as sets: `Occurrences(events, h)` has one element for each time content
`h` is accounted for, `Below(p, h)` one for each record behind position `p`.

**IngestLifecycle** -- the binding calls as sequences of critical sections
(`StartIngest`, `PauseIngestion`: take the gate under the lock; `TurnGate`: act
on it; `SetState`, `EmitState`: record and emit), the run's goroutine
(`TakeFile`, `FileEnds`, `LeaveFiles`, `GiveUpRun`, `SetIdle`, `EmitIdle`),
`Shutdown` with its drain timeout, and the reducer of `ingestion.js` with
`ControlsShown`, the buttons offered, as the guard of what a user can do. Events
are reduced as they are emitted.

**FilePipeline** -- for each file of a job the producer (`Feed`), worker pool,
closer (`CloseResults`) and sink around the two bounded channels. The next file
starts when the sink has left the previous one, whose other goroutines may live.

**DedupBackfill** -- the sink's `IncrementDedupCounts` and the pass's batches,
both read-modify-write over whole records. `overlapped` is a history variable:
the pass has run while the sink had records in hand.

**GraphBuild** -- relations as records, the property index as a set of ids, the
registry in memory and on disk, one build (`Repair`, `EnsureGraph`, clear,
`Generate`, `Collect` a chunk as long as there is no cancel, `InsertRelations` of
what was collected with `IndexEdge`, `RuleDone`, `DiscardGraph`, `BuildReturns`) and
one user, whose clear and draw steps interleave with it. Two variables are history:
`failed`, which of the calls whose failure the code swallows have failed; `late`, the
rules begun and the relations written since the build was cancelled.

**OrderCache** -- what the store holds is the set of changes made to it; a query
is lookup, version, node scan, relation scan, store, hydrate; a dataset call
wraps a query in the dataset mutex. `announced` is a history variable: the
changes of writes that have bumped the version and returned.

**RuleRegistry** -- a directory from file names to texts, the sidecar, the loaded
registry, and callers whose saves, imports, deletes, toggles and reloads run file
operation by file operation. `Loaded(dir, toggles)` is what a scan gives: the
first claimant of an id in sorting order wins. Any rule may stand under any file
name at the start (the user drops files in). Four variables are history: `off`,
the rules a user has switched off; `copied`, those of which an edit has left a copy
in the file it read them from; `together`, whether two calls have run together
since a call that ran alone listed the directory, only before that, or never;
`faulted`, whether a file operation has failed since that listing.

**Annotations**, **CaseFindings**, **CaseFiles** -- a case as the analyst edits it.
Annotations says what each operation of `annotate.go` makes of a graph's document
(ids are the instant and the number of entries, a deleted layer takes its notes
with it, a note without a layer goes to the first); CaseFindings the same of the
findings, keyed by content hash. CaseFiles holds the copies in memory, the files,
the events and relations of the store, the registered graphs, and one action per
call or part of a call with something in between: payload before event, edge
before index entry, and the deletion of a graph part by part
(`Unregister`, `DeleteRelations`, `DeleteLayout`, `DeleteSnapshots`,
`DeleteNotes`, `CascadeStops`). `Restart` forgets the copies in memory and may
open an empty store beside the old files. Ids of notes can repeat, so each note also
has a `uid`, which the code does not know. `kept` is a history variable: what each note
acknowledged as saved may stand as, until its own deletion is asked for (as it was
last saved, or as a saving that failed would have it), and which notes ever shared an
id with another. A layer is known by its id, so deleting a layer asks for the
deletion of every note that names it.

**Snapshots** -- `TakeSnapshot` as its three reads and the save, `BuildPlan` as
operators over what was read, `ApplyRestore` as read, plan, merge of the layout
and one link after the other, beside the calls of CaseFiles. `taken` is a history
variable (snapshots acknowledged), `quiet` another: nothing the restore relies on
has been deleted or moved since it began.

**CaseIntegrity** -- `Run` of the case check, one action per read of a store, over
the same CaseFiles. `ReadFails` is a read that fails and ends its detector;
`UsedFails` the first inventory, whose failure `api_integrity.go:79` passes over, so
that the log is `unmeasured`; `CountsFail` a count of a rule's events, which then
passes for "there are some" (`uncounted`). `Problems` says what is wrong with the
case now, findings of an older build included; `ever` and `always` are what has been
wrong at some time, and all the time, since the check began. `Mistaken` names, for
each detector an edit can mislead, the edits it takes and the read they must come
before; `during` is which of them have happened there.

**Correlation**, **GraphLayout**, **CaseQueries** -- the pure parts: what a rule
matches (dataset, scopes, buckets, the greedy sweep, the windowed sweep, process
lifetimes), where the canvas puts nodes and which it groups, which events a query
matches, counts and draws over time. Recursion is in folds and recursive
functions. **Ordering** is what a sort with a comparison without ties gives.
**RuleFormat** is in front of Correlation: a rule file is a sequence of
lines; `Problems` says what the validator refuses, `Inert` which fields it warns
are not read, `Normalize` what the loader keeps, `Evaluate` what the engine does
with it, its own checks included. A text is what is in it and whether there is
white space around it; a duration is a text that `Durations` knows.
**MCAlgorithms** lets a log, graph, case or rule file grow element by element, so
that every input within the bounds is a state, and compares each algorithm with a
definition that does not follow its steps: sets of matches, replaying the events,
`SUBSET` of the nodes. A reference definition is an operator of the input, so that
the proofs can state it of any input.

**LiveCaptureProofs**, **IngestionProofs** (IngestLifecycle and FilePipeline),
**EventStoreProofs** (OrderCache and DedupBackfill), **GraphBuildProofs**,
**RuleRegistryProofs**, **CaseFilesProofs** (with Snapshots and CaseIntegrity),
**LayoutProofs** and **AlgorithmsProofs** (the other pure parts) hold the theorems;
section 5 goes through them.

Operators named like an action with a suffix (`BatchDoneBookmarks`,
`RetireNew`, ...), or commented "Mutant", are plausible wrong versions of the
definition they stand before. They are in no specification: each property was
seen to be violated with one of them in place of the right one.

## 3. The runs

Distinct states and times are for two TLC workers. Every module has a type
invariant `TypeOK` (or is typed by its operators). TLAPS proves those of LiveCapture,
RuleRegistry and OrderCache as theorems; the other proofs have what they need of
types in their invariants.

| Run | Configuration | Checks | Size |
|---|---|---|---|
| capture_one_channel | 1 channel, 3 records of 2 contents or unreadable, batch 2, queue 1, 1 fault, 1 reset | one findable node per identity; no occurrence lost; consistent pause | 2.4M, 75 s |
| capture_two_channels | 2 channels, 2 records, batch 2, queue 1, 1 fault, idempotent and plain, fair | no bookmark skips; contract; pause takes effect; cancel unwinds | 0.3M, 77 s |
| lifecycle_safety | 2 calls in flight, live capture or jobs of a file, 2 runs | a working run is held; drained before closing | 3.6M, 67 s |
| lifecycle_ends | the same with jobs of 2 files and 1 run, fair | a cancel ends its run; shutdown ends | 0.2M, 64 s |
| pipeline | 2 files, up to 2 chunks, 2 workers, queue 1, 1 fault, fair | every chunk once; no send on closed; cancel stops all; ingestion ends | 0.2M, 64 s |
| backfill | 3 events, batch 2, 2 faults, 1 deletion | exact counts; the pass leaves nothing | 0.7M, 18 s |
| build | 2 rules of one name, 2 matches, chunk 1, 2 graphs, 4 relations, 1 fault, 1 edit | no match twice; nothing stale; registry consistent; a cancel is honoured | 0.8M, 27 s |
| cache | 1 writer, 2 readers, 2 filters, fair | returned writes seen; quiet caches exact; queries return | 0.3M, 86 s |
| rules | 2 callers, 2 ids (one of an embedded rule), 3 calls, 1 fault, 1 crash | memory is disk; rename keeps; off stays off; nothing replaced | 2.0M, 97 s |
| case_check | 2 events at the start, a third to come, 2 graphs, 2 relations, 3 calls, 1 fault or restart | what lasts is reported or owned; only races and counts that fail mislead | 1.2M, 79 s |
| case_files | the same with 3 relations, 1 layer, 2 notes, 2 snapshots, 2 instants, 4 calls | acknowledged is kept; restores go by content and are complete | 0.4M, 55 s |
| algorithms | logs of 4 events (processes: 3), 4 nodes, 4 relations, cases of 3 events (4 with relations), rule files of 5 lines | matches, lineage, layouts, clusters and queries against their definitions; accepted rules run as written | 0.17M, 110 s |

Why the bounds are enough for the cases that matter. Capture: batch size 2 with
three records gives a full flush, a remainder, a duplicate inside a batch, in the
store and across a crash; two channels give a position staged by one while the
other's events are unwritten; the queue can be full. Lifecycle: two calls and two
runs give every race of a call with another and with the end of its run and the
start of the next. Pipeline: two workers and two files give a worker that
outlives its file, and fewer queue places than chunks. Backfill: three events
with batches of two give a full and a short batch and an increment for an event
in either. Building: chunks of one relation give a build cut between two
relations, and the next build what that one left; a second graph gives creation,
deletion and adoption beside the default graph, and two rules of one name the
choice between them; a cancel finds a chunk collected, another to come and a rule after
it. Cache: one write with one change against two readers gives
every order of scan, store, bump and return; the theorem covers the rest. Rules:
two ids give a rule in a wrong file, two claimants of one id and an override of an
embedded rule, and three calls a rename of what two earlier calls have left.
Case: two events, one relation and a layout are there at the start, so that three or four calls are enough for what takes
something away between two reads, for a snapshot, a deletion, an ingest under
another id and a restore (two notes of one id take four calls, what goes wrong with
them a fifth). Algorithms: four events give two matches of two steps,
one of three with a choice, and ties; three processes give a number used twice
while a third refers to it; four nodes and four relations give every cycle, a
diamond, a relation from each node and one that leads off the canvas; a time axis of
24 against cards of 16 has cards of a lane overlap, meet exactly (two apart in a
range of three) and stand clear of one another; the cap on
matches is one, the cap on lanes one, so that both are passed; five lines give a
temporal rule both its windows, or one and the fields to share or the scope, and a
lineage rule all it reads; each bound of the format is met, missed by one
and undercut by some line (a file goes on until a line is refused). All seven
properties of that run are theorems without these bounds.

The runs without deadlock checking are those where the system may really stop:
bounds reached, everything idle, the application closed. Symmetry is used
only in runs without liveness properties, over sets no definition tells apart.

Conditions in the properties, most of them history of what has happened, none an
assumption on a constant unless it says so: `OneFindableNodePerIdentity` is about
idempotent runs (`IdemChoices = {TRUE}`), the application's default;
`NoMatchTwice` and `NothingStaleInTarget` hold until a repair has failed;
`CountsExact` and `PassLeavesNothing` until pass and sink have overlapped;
`MemoryIsDisk`, `RenameKeepsRule` and `NothingReplaced` from the first listing of
the directory by a call that runs alone until calls overlap, the first of them only
until a file operation fails (the next such listing restores all three);
`DisabledStaysOff` while calls have come one at a time, none has failed and nothing
has crashed, of rules of which no edit has left a copy; `ReturnedWritesSeen`
speaks of writes that bump the version; `RestoreCompletes` of restores during
which nothing was deleted or moved; `AcknowledgedIsKept` of notes that never shared an
id with another; `LastingIsReported` of every problem but the tail of a log that could
not be measured; `OnlyRacesMislead` names, for each detector, the edits that can
mislead it, all of which must have come before the read they mislead, and the count
that fails, which the report owns; `AcceptedRulesRunAsWritten` leaves out what
`Retraced` and `CrossesHosts` say; `QueriesAgree` leaves out one kind of
query, hash filters that let the undated in. Section 6 says what happens outside
of each.

## 4. Fairness

- LiveCapture: weak fairness of the sink's goroutine; strong fairness of leaving
  the loop, because Go's `select` picks a ready case at random. Readers, user and
  faults are not fair.
- IngestLifecycle: weak fairness of each call and of each run's steps except the
  reading of a file, which takes as long as it takes and may wedge.
  `CancelEndsTheRun` assumes that the reading of a *cancelled* run ends
  (`PipelineUnwinds`), which `CancelUnwinds` and `CancelStopsAll` show of the
  live and the file pipeline; `ShutdownEnds` does without, thanks to the timeout.
- FilePipeline: weak fairness of every goroutine; none for the branch a `select`
  takes. The user is not fair: a pause may last for ever.
- GraphBuild, CaseFiles, CaseIntegrity, Snapshots and the algorithms: none, they have no
  liveness properties; every call of theirs is a bounded number of reads and writes.
  What a cancelled build owes is a bound on what it still does, which is safety.
- OrderCache: weak fairness of a call's steps; strong fairness of getting the
  dataset mutex (a Go mutex goes to the longest waiter after a millisecond).

## 5. The proofs

tlapm checks every step; no constant is bounded except as each module's named
assumption says (sizes are naturals, batches not empty, a model value is not in
the set it is outside of).

**Capture** (`LiveCaptureProofs`). `NeverSkips` is not inductive: it says nothing
of events in buffers. `IInv` adds, for each place a record can be on its way, that
it is not lost there: `HandledIsHeld` (a handled record's event is stored or
pending), `StagedIsHandled`, `MarksHold`, `BatchIsReal` and `QueueInLog` (batches
are pieces of the log, after what was handled), `ByHashIsPending` and
`BufferedIsRecorded` (what deduplication takes as known really is buffered or
stored), `InsertedIsStored`. From `Init => IInv` and one lemma per action follow
`TypeCorrect`, `BookmarksNeverSkip`, `BookmarksStayInside` (no bookmark lies
outside its log), and `ImplementsContract`: every step is a step of
CaptureContract or leaves its variables alone.

`DInv` is for deduplication: the batch's hash map is exactly the set of pending
identities, these are distinct, and none of them is indexed; and while a batch is
being registered the rest of it still is not. On top of `IInv` this gives
`OneNodeFindable`.

`OInv` is for counting, and counts by pairing off: the records taken from the
channels fit, one to one, into the occurrences that the store, the batch and the
deferred increments account for together (`HandledFits`), those behind a bookmark
into the ones of the store alone (`MarksFit`). Taking a record adds one to each
side, whichever of the three ways it is counted; `InsertEvents` and
`IncrementDedupCounts` only move occurrences to the store, to places nobody has; a
bookmark moves while nothing is in memory, and never past what was taken
(`MarksBehind`). With finite sets that is a comparison of cardinalities: theorem
`NothingIsLost`. The pause needs in addition that both buffers are empty at the
boundary (`Emptied`), and that what was taken from a channel is staged or
bookmarked to the last record unless its batch is being processed
(`StagedIsLast`), which holds because a reader's batches arrive in the order they
were sent (`InOrder`): theorem `PauseCostsNothing`. Nothing is assumed of the
number of channels.

**Graph building** (`GraphBuildProofs`). `GInv`: ids are fresh, a clear in
progress covers what it has to (`ClrShape`, `ClearFindsAll`), outside the write
phase all relations of rules are findable (`RulesIndexed`), during it the rest of
the result is not in the graph (`AtWork`, `OnlyNew`). The repair at the start of
a build is what makes it inductive over crashes, so the invariant is
`"repair" \in failed \/ GInv`. Theorems `RebuildingReplaces`, `OnlyTheNewResult`.
For the registry, `RegInv` says that memory and document are both fit; a lemma for
each operation (a row added, changed, taken out, another one made active) keeps a
registry fit, whether it is then written or not, and a crash only takes the one for
the other. It needs no condition on repairs. Theorem `RegistryStaysConsistent`.
`CancelIsHonoured` becomes inductive with what `Prompt` adds: while a collected chunk is
waiting to be written nothing has been written late, and after it no other is collected.
Theorem `CancelsAreHonoured`.

**Caches** (`EventStoreProofs`). `CInv`: a cached order, a dataset and each
reader's progress all show at least what was announced at the version they carry.
`RInv` is the other direction: they show nothing that was not done to the store.
Theorems `NoReturnedWriteMissed`, `QuietCachesExact`, `CachesTypeCorrect`.

**Counts** (`EventStoreProofs`). `EInv`: records in hand carry current counts
and only one side has any; the invariant is `overlapped \/ EInv`. `BInv` adds that
every stored event without a current projection is still to come, in the batch in
hand, or covered by the number of failures. Theorems `CountsStayExact`,
`NothingLeftUntold`.

**Lifecycle** (`IngestionProofs`). That a working run is the one the API
holds says nothing of a start call that has claimed a run and not yet spawned it.
`LInv` adds that the run of such a call is new (`StartsAreNew`) and no other call's
(`StartsDiffer`), that a call's next step fits what it is (`CallsFit`), and that
after the shutdown began only the run it waits for may work (`ClosingWaits`).
Theorems `WorkingRunHeld`, `ClosedAfterDrain`.

**File pipeline** (`IngestionProofs`). `PInv`, for each file: a chunk is in at
most one of five places, not yet sent, in the first channel, in a worker's hand, in
the second channel, or stored (`OnePlace`); unless the job is cancelled it is in
one of them (`Kept`); a worker that is done has found the first channel empty and
the producer at its end; a channel is closed only when every worker has ended
(`WorkersFit`). Theorems `NeverOnClosed`, `OnceAndWhole`.

**Rules** (`RuleRegistryProofs`). The properties say nothing of a call that has
decided and not yet acted. `Shape` says what a job holds at each of its places and
what the registry may hold at all (a rule stands under its id, no file is loaded
twice); `Lone`, that what a call which runs alone has read still holds when it
acts; `Reliable`, how far a scan under way agrees with the directory. `Shape` needs
no condition and gives `RegistryTypeCorrect`, with `Lone` it gives
`RenamesKeepRules` and `NothingIsReplaced`, with `Reliable` `MemoryMatchesDisk`:
every call ends in a scan, or leaves the directory as it found it. For
`DisabledRulesStayOff`, `StaysOff` says of every file with a rule that is off that
its id is toggled off and loads from that file, but for the two files a rename is
at. The attempt to prove this without the exception for copies failed, on a state
that two calls cannot reach and three can: `OffThroughCopies` in section 6.

**Case check** (`CaseFilesProofs`). Most detectors read twice, with any edits of
the case between. `LastingInv` says what the first read must have brought of a
problem that has been there since the check began (`Seen`), and that every detector
that is over has told what it saw or is marked as failed (`AllTold`); it rests on
ids never being used again and on what a single edit can do (`Grown`). `RacesInv`
is its converse: what the report holds, or the first read would make it hold, was
wrong at some time or is excused, by edits that came between the reads or by a count
that failed. Theorems
`LastingProblemsAreTold`, `FalseAlarmsAreRaces`; the case at the start may be any
that `FirstCaseAssumption` allows.

**Notes and snapshots** (`CaseFilesProofs`). `AcknowledgedIsKept` is about files, and
the calls go by copies in memory. `SnapshotInv` joins them: an acknowledged note is
in the file and in the copy the next call writes back, each time as something it may
stand as, and a note that shares its id with no other is the one its id finds
(`NotesHeld`); an acknowledged
snapshot is in its file, and a new one goes to an id without a file, which the
pigeonhole principle finds among one more ids than there are files (`SnapsHeld`). Of
a restore it says what it may hold at each of its steps (`RestoreShape`): an event it
has read is, while the case has one of that id, of the same content (`LiveFits`); its
positions go to events it has read (`PutsFit`); a link it wants is drawn or to do
(`LinksFit`). `Held` is what every call beside a restore leaves of events and
relations. Theorems `AcknowledgedStays`, `RestoredByContent`,
`UndisturbedRestoreCompletes`.

**Algorithms** (`LayoutProofs`, `AlgorithmsProofs`). What a loop computes for every input. The
prover cannot use an induction rule for a formula, so induction is done on a set:
the numbers at which a claim fails have a least one (`LeastOf`, `UpTo`). A fold of
the community modules is, unfolded, a CHOOSE over recursive functions;
`FoldExists` builds one, so the chosen one has its equations, and what is true
after each element follows from one lemma per step, as for a state machine. The
theorems named `Every...` are about any input; those named `...Always...` follow for
each state MCAlgorithms can reach, with no bound on how far a log or graph grows.

- *Clusters.* Union by union, the parents form a forest with a root and a falling
  height for each node (`IsTree`), and two nodes have one root exactly if relations
  so far join them (`Joined`). `EveryClusteringCovers`: a component is closed under
  the relations and nothing smaller in it is, and no clustering leaves a node out.
- *Columns.* A node that has a rank has it after every node that points at it, and
  one more than the highest of these, unless it was started from out of turn; and
  there is such a node only if there is a cycle, because it happens when each node
  left has another of them behind it (`Ranked`). `EveryColumnIsOrdered`.
- *Forest.* The stack of the traversal holds, each once, the nodes that are taken
  and not handled; a taken node is under a handled one that points at it, or a root
  (`Grown`). Each step handles one node, so as many steps as there are nodes handle
  all of them. `EveryTreeFollowsEdges`.
- *Cards.* A sort puts each element at the place its number of predecessors says;
  lanes are kept by the last card in them (`Laned`). `EveryLayoutIsSpaced`.
- *Lines of processes.* A replay keeps a table from process number to process
  (`TableAt`); the lifetimes the code searches say the same at every moment.
  `EveryLineageIsReplay`, for any depth.
- *Matches.* After each event the chains found follow one another, and every match
  that has ended by then has the end of one of them between its own ends (`Kept`,
  `Swept`); matches that do not overlap have different ones between them, so no
  choice has more than were found. Within a window one predecessor per step is
  remembered, the latest. `EveryMatchIsMaximal`, for sequence and field rules of any length
  and window rules of two or three steps with different names; for other window rules
  it is false (section 6).
- *Queries.* Every total is the size of a set, cut into pieces by slices and by lanes
  (`FoldedAdds`), and folding the smallest lanes moves pieces without losing any.
  `EveryQueryAgrees`, for queries that are not hash filters with the undated let in.
- *Rule files.* `NormalizedRulesAreStable`: what the loader keeps has the problems of
  the file and is kept as it is. `AcceptedIsNeverRefused`: validator and engine, which
  check on their own, agree. `InertFieldsChangeNothing`: emptying a field that is
  advised to be unused leaves the engine's result on every log.
  `ReformattedReadsTheSame`: whatever keys a file repeats, reformatting it changes
  neither the rule nor the advisories. `EveryPatternIsFound`: a rule finds its own
  pattern exactly when gap, host and values are what it asks for. The maximality above
  gives this only for windows with different names, so it goes another way: in a
  pattern (`IsPatternOf`) events are a fixed time apart, and the sweep of a window
  visits them in order: after the k-th, the chain of step k ends there exactly if the
  bounds allow it, and no step is matched before its place (`OnPace`, `Behind`).
  `AcceptedRulesAlwaysRunAsWritten` puts the five together; its invariant is that a
  file is made of lines whose values fit their keys (`RulesAreLines`, `FitsField`), so
  that decoding it gives lists and numbers where the theorems want them.

**Only model-checked.** Liveness, because the prover has neither fairness nor
ENABLED: seven temporal properties of the four fair runs. Every invariant and every
action property of a run is a theorem. Two theorems are narrower than one would
wish, because the code is: `EveryMatchIsMaximal` for window rules, and
`EveryPatternIsFound` for those that are `Retraced` and for sequence rules of global
scope (section 6).

## 6. Known divergences

Found while modelling; what a comment or document says is at the line quoted,
what the code does is in the model. The definitions are in no run; adding one as
an INVARIANT or PROPERTY to the configuration named gives the trace
(MCDedupBackfillLost.cfg and MCRuleRegistryRename.cfg already name theirs).

| Definition | Configuration | What the code does | What it says |
|---|---|---|---|
| `CountsAlwaysExact` | MCDedupBackfillLost | a backfill batch overwrites increments committed since it was read | `evtx_ingest.go:102` |
| `RenameAlwaysKeeps` | MCRuleRegistryRename | a rename to the name of the file a hand-placed rule stands in writes that file, then removes it | `save.go:126` |
| `NoDuplicateNode` | MCLiveCapture | a crash between `AddNodes` and the index registration: the re-read adds a second node (only one is findable) | `evtx_ingest.go:104` |
| `NoOccurrenceCountedTwice` | MCLiveCapture | the re-read after a crash counts again | `LLD.md:719` |
| `PauseShownIsTaken` | MCIngestLifecycle | a pause whose run ends between two critical sections records "paused" with no run | `ingestion.js:190` |
| `CancelIsAnnounced` | MCIngestLifecycle | a cancel between two files ends the run with no Cancelled event | `api_events.go:253` |
| `StartNotOfferedTwice` | MCIngestLifecycle | `StartIngest` returns before Started is emitted | `Dashboard.svelte:156` |
| `ResultAddsUp` | MCDedupBackfill | a failed batch stays in Examined and is nowhere else | `graphene_backfill.go:32` |
| `ProjectionIsDurable` | MCDedupBackfill | an increment read before a batch's commit takes its projection back | `graphene_backfill.go:44` |
| `NoHalfBuiltGraph` | MCGraphBuild | chunks commit separately | `graphene_store.go:389` |
| `ActiveNeverDiscarded` | MCGraphBuild | look at the active graph and delete are two critical sections | `LLD.md:1350` |
| `ClearIsOneStep` | MCGraphBuild with one rule, MaxEdits = 2 | a relation gone at commit makes the clear go one by one | `LLD.md:1562` |
| `OneRuleOneGraph` | MCGraphBuild | a graph deleted during its build keeps receiving relations | `LLD.md:1227` |
| `Unique` (NoMatchTwice without its condition) | MCGraphBuild with MaxFaults = 2 | a failed repair is swallowed and the next build doubles unindexed relations | `graphbuild.go:9` |
| `NeverServedStale` | MCOrderCache | the version is bumped when the write returns, after its commits | `graphene_order.go:31` |
| `QueryNeverFails` | MCOrderCache | an event deleted after ordering fails the page | `graphene_order.go:333` |
| `CompletedIsWhole` | MCFilePipeline | cancel and closed channel ready together: may report Completed | `api_events.go:253` |
| `MemoryIsBounded` | MCFilePipeline with MaxChunks = 4, Depth = 2 | a failed file's chunks stay beside the next file's | `LLD.md:637` |
| `CallersAgreeWithDisk` | MCRuleRegistry | a scan outside the lock is installed over a newer toggle, save or delete | `registry.go:21` |
| `TwiceIsReported` | MCRuleRegistry | after a crash in a rename both rules load, none is reported | `save.go:125` |
| `OffSurvivesCrash` | MCRuleRegistry | the toggle moves after the file: a crash re-enables the rule | `save.go:135` |
| `FilesKeepTheirRule` | MCRuleRegistry | `<id>.json` is written over whatever rule it holds | `save.go:17` |
| `SaveAlwaysLoads` | MCRuleRegistry | an edit saved beside the file it came from is not the one loaded | `save.go:46` |
| `OffThroughCopies` | MCRuleRegistry | an edit of a rule read from an oddly named file leaves that file; when one of the two is renamed the other loads, enabled | `save.go:135` |
| `OfferedIsMissing` | MCSnapshots | a link drawn again has a new id, so the next restore of the same snapshot offers it although the pair is joined | `restore.go:160` |
| `AllAcknowledgedIsKept` | MCSnapshots with MaxCalls = 5 | a delete and an add within one instant give a second note the id of the first: an edit of one is written over the other, a deletion takes both | `annotate.go:486` |
| `AllLastingIsReported` | MCCaseFiles | a first inventory that fails is swallowed: the tail of the log is neither found nor marked as not looked for | `caseintegrity.go:66` |
| `SequencesStayOnHosts` | MCAlgorithms | a sequence rule of global scope joins events of different hosts, and no advisory calls the field unused | `RULES.md:169` |
| `OnlyRacesMislead` without "dangling" in `Mistaken` | MCCaseFiles | a relation read before its event is deleted, with it, is reported as dangling | `graphene_inventory.go:187` |

Some more without a definition of their own:

- A registry write that failed lets a restart hand out a used graph id.
- `RebuildIndexes`, or a repair that fails half way, changes what relation filters
  match without bumping the version (`graphene_order.go:60`), which
  `ReturnSilently` models and `announced` excepts.
- `temporal.go` keeps one predecessor per step and `walkBack` follows them as they
  are at the end ("provably enough", "right order, inside a bounded window"). A
  rule that names one event twice, or has four steps, can get a chain that goes
  back in time: with steps a, b, b and a at 1, b at 2, a at 3, b at 4 the match is
  a3, b2, b4; with steps A, B, C, D and A0 B1 C2 A3 B4 D5 it is A3, B1, C2, D5, and
  the bound on the whole is measured from the wrong anchor. `WindowRules` has
  neither; adding `<<"a", "b", "b">>` to it violates `MatchesAreMaximal`. In the rule
  files, a rule with steps a, a, a, a, a window of one and two for the whole finds its
  pattern one apart, which takes three: without its exception for `Retraced` rules
  `AcceptedRulesRunAsWritten` is violated.
- `graphlayout/sequence.go` says that where no node can be ranked "every remaining
  node is inside a cycle"; the lowest remaining id may be one that a cycle only
  leads to (2 and 3 point at each other, 2 at 1): it gets the first column and an
  edge leads left into it. `ColumnsFollowEdges` allows that edge.
- `graphlayout/lineage.go` says a node with two parents hangs under "the lowest
  id"; it hangs under the one the traversal reaches first.
- The fast path of `CountEvents` (`graphene_query.go:216`) does not look at the hash
  sets of the findings filters, so with undated events included the count exceeds
  the list, which the comment above it and `api_events.go:339` say cannot be.
- `matchesUndated` (`graphene_order.go:284`) says an unrecognized value includes
  everything; it excludes the undated.
- `newBucketing` truncates a slice's width, so the last events lie past the End it
  gives the last slice; and a timeline query with a lower time bound reports no
  undated events, because the index leaves them out, although the count is said to
  be honest regardless. `QueriesAgree` counts slices, not their bounds.
- `findings.go:256` says that removing twice is harmless; after a removal whose
  write failed the second one returns early and writes nothing, so the finding is
  back after a restart.
- `SequencesStayOnHosts` in more words: `RULES.md:72`, `:169` and `:206` say match_scope
  is not available to a sequence rule, and `consts.go:751` that no build reads it there;
  `sequence.go:33` partitions by it. `AsksFor` sides with the documents, so without its
  exception for `CrossesHosts` `AcceptedRulesRunAsWritten` is violated as well.
- `validate.go:303` refuses a window_total below window_within because it "can never
  be satisfied"; a chain whose gaps add up to less than the total satisfies both.
- `validate.go:473` compares keys exactly and `encoding/json` does not: a key written
  "Name" is reported as one this build does not interpret, and is read.
- `save.go:79` refuses a name that gives no id; `import.go:47` does not, and writes
  ".json" with a rule whose id is empty.
- `api_integrity.go:43` says a deep check can be stopped by the maintenance
  cancellation; the context it is given is not the one that control cancels.

## 7. What is left out

- The graph database itself is external: a transaction is atomic and durable at
  commit, a read sees all commits before it, indexes are as their calls left them.
- IngestLifecycle: no binding call begins after `OnShutdown` (Wails has closed the
  window); the pull of the state at mount (`syncLifecycle`) and delays between
  emission and reduction, hence a "stopping" recorded over the next run.
- LiveCapture: counters, error lists, payload bytes; a file and a database
  ingestion use the same sink without positions.
- GraphBuild: the correlation itself (a rule yields any set of keys; Correlation
  says which), editing a relation.
- CaseFiles: texts, colours and coordinates; ids of notes are instants and counts.
  Deleting a graph is one call at a time; the graph registry's own failing writes
  are GraphBuild's. The backfill is one step here, DedupBackfill has its batches.
- CaseQueries: the order by a column other than time; each view sort only changes
  the comparison.
- GraphLayout: coordinates are integers here and floating point in the code, so
  rounding is not checked; titles and labels of columns.
- RuleRegistry: text refused by validation before anything is written.
- FilePipeline: what the records of a chunk are.
- Database ingestion (`evtx_db.go`, `dbsource`): one reader in front of the sink
  LiveCapture models; its SQL and catalogue are data.
- RuleFormat: JSON syntax, keys in another case, positions of problems in the text,
  the layout of a reformatted file and the prose of the schema.
- Parsing and normalization of records: conversions of bytes with no state to go
  wrong between steps.
- Privileges, dialogs, startup, the command line and rendering: I/O.

## 8. Plan

Done, in this order: (1) LiveCapture with CaptureContract and its proofs,
(2) IngestLifecycle, (3) GraphBuild with proofs, (4) OrderCache with proofs,
(5) DedupBackfill with its proof, (6) FilePipeline, (7) RuleRegistry,
(8) Correlation, GraphLayout and CaseQueries with MCAlgorithms, (9) CaseFiles with
Annotations, CaseFindings and Snapshots, (10) CaseIntegrity, (11) proofs about
IngestLifecycle, FilePipeline and CaseIntegrity, (12) RuleFormat; proofs about the
graph registry, quiet caches and what a backfill pass leaves behind, (13) proofs about
the rule registry, notes and snapshots, and the counting of occurrences, (14) proofs
about the layouts, clusterings, correlation algorithms, queries and rule files, for
inputs of any size, and that every accepted rule finds its own pattern.

Next:

| Step | What | Why |
|---|---|---|
| 15 | `syncLifecycle` and a delay between emission and reduction in IngestLifecycle | three hazards without a property |
| 16 | database ingestion as a second reader of LiveCapture's sink | a source that can be re-read from any position |
| 17 | `EveryMatchIsMaximal` for window rules of any number of steps, with walkBack corrected | the theorem says where the code is right; this would say how to make it so |
