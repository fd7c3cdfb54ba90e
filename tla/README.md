# Formal model of the RustyEra TUI front end

The program is a terminal front end (Python, Textual) for a game runtime written in Rust.
The runtime is loaded as a shared library and spoken to in envelopes: the front end submits
messages, *drives* the runtime, polls what it wrote, answers the services it asks for and
acknowledges what it read. One worker thread owns the runtime; the UI thread talks to that
worker through two bounded queues. Several such programs may share one project directory, and
other programs edit the files of the project while it runs.

This directory holds TLA+ modules of that code, the TLC configurations that check them on small
instances, and proofs for every instance. `PROJECT.json` lists components, runs, mutants
(plausible bugs, one per property, that TLC must catch), the source lines every definition
stands for, hazards and theorems. A configuration that no run names is kept for the behaviour
it exhibits and is started by hand: see section 5.

Paths below are relative to `src/src/rustyera_tui/`.

## 1. Inventory

| component | state | operations | what makes it correct | module |
|---|---|---|---|---|
| runtime transport (`runtime_transport.py`) | message ids, deferred messages, epoch, undecided transition, expected output | `send_runtime`, `pump`, `_handle_envelope`, flush | nothing but replies behind an undecided transition; order kept; everything acknowledged; no self-made deadlock | `RuntimeTransport` |
| service requests (`runtime_interaction.py`) | pending SQL and device requests, tracked inputs | `_handle_service`, cancel, flush SQL, `submit_text`, `activate`, skip, undo, stale retry | answered once, never after a cancellation, only while open; an input is carried over once | `RuntimeTransport`, `InputGate` |
| worker thread (`worker.py`, `worker_project.py`) | command and event queues, pending projection, stop flag, session | `run`, `send`, `stop`, `shutdown` | no lost wake-up, the newest projection arrives, a failure is reported, leaving returns | `RuntimeWorker` |
| event drain and shell (`app_worker.py`, `app_shell.py`, `app_interaction.py`) | shown wait, gate, render lock, exporting flags, debug state | drain, submit, quit, render callbacks | a shut gate opens again; no answer asked twice; the player is let in when the screen is painted | `RuntimeWorker`, `InputGate`, `Presentation`, `DebugSession` |
| rejections (`runtime_rejections.py`) | none of its own | routes a rejected command to what waits for it | every rejected gesture, transfer, load or update is released | the module of the command |
| client state (`runtime_client.py`) | phase, wait, session reset, candidate project | reset, transition, replacement of the session, flush | a half-done replacement leaves a usable worker | `ProjectStart`, `Presentation` |
| project start and reload (`runtime_project*.py`) | stage of the start, cache attempt, updates | compatibility, cache or source, configuration, preferences, start, reload | one start at a time; a rejected cache falls back; settings agree everywhere | `ProjectStart` |
| bundles and scanning (`project*.py`) | index, bundle, sparse contents | full and quick scan, materialise, reload of all, a folder, a file | what is scanned was on the disk; what is not selected stays | `ProjectSources` |
| exports, imports, diagnosis (`runtime_transfer.py`, `runtime_export.py`, `diagnosis.py`) | one pending transfer of each sort, its files, the stages | request, chunks, finish, cancel | no file and no open export is left over; the app is unlocked | `StateTransfer` |
| presentation (`presentation*.py`) | model on the worker and on the app, merged deltas, retirement boundary | snapshot, delta, commit, resynchronise | merged deltas equal single ones; nothing of a left game returns | `PresentationModel`, `Presentation` |
| viewport (`widgets.py`) | rows, interactive buttons, policy | incremental `set_lines`, policies | the patched screen is the screen of a full layout | `Viewport` |
| debug channel (`runtime_debug.py`) | grant, stop, pending and deferred requests, owner of a pause | enable, request, pause, step, resume, disable | client and runtime agree on the stop; no pause is forgotten | `DebugSession` |
| SQL revision store (`sql_revision_store.py`) | revision files and a pointer file per database | `open_resource`, `publish` | the pointer is a compare-and-set register; what it or a save names exists | `SqlRevisions` |
| SQL provider (`sql_provider*.py`) | connections, readers, epochs | open, execute, read, close, reset | what was acknowledged is stored, what was refused is gone | `SqlProvider` |
| storage backend (`storage*.py`) | files, lock file | read, write, list | precondition and replacement atomic between processes | `SqlRevisions` |
| preferences | files and values | parse, save | when they are submitted and answered is in `ProjectStart`; parsing is not modelled | |
| runtime behind `abi.py` | not in this repository | drive, poll, submit | an environment, see section 7 | |
| tester, performance capture, entry points | | | not modelled | |

How they interact: UI -> worker by commands, worker -> UI by events plus one coalesced
notification; client -> runtime by envelopes; runtime -> client by outputs, among them requests
served by the SQL provider, the device pump of the UI loop and the storage backend; process <->
process through the files of the Data namespace; editor <-> scan through the project directory.

What is hard: two threads and bounded queues between them; a batch during which submissions are
deferred; epochs that end while messages are deferred; cancellations that race answers; timed
waits that end while the user answers; render callbacks that end out of order; results of an
operation that was cancelled; processes that crash between two files; files edited while they
are read.

## 2. Modules

| module | models | actors |
|---|---|---|
| `RuntimeTransport` | submission, deferral, the transition barrier, pump, services | worker, UI loop, runtime |
| `RuntimeWorker` | the two queues, the loop of `run`, drain, stop, join | two threads |
| `RuntimeProofs` | proofs about both | |
| `InputGate`, `MCInputGate` | a gesture from the key press to the runtime and back | app, client, runtime |
| `InputGateProofs` | proofs about it | |
| `StateTransfer` | exports, imports, the compiled cache, the diagnosis archive | user, app, client, runtime, disk |
| `StateTransferProofs` | proofs about its jobs and its messages | |
| `StateTransferFileProofs` | proofs about its files | |
| `ProjectStart` | load, start, restart, reload, settings, preferences | user, app, client, session, disk and its editors |
| `ProjectStartProofs` | proofs about it | |
| `ProjectSources` | scans, the index, sparse bundles, reload candidates | one operation and an editor |
| `ProjectSourcesProofs` | proofs about it | |
| `PresentationModel` | the pure part: operations on lines, merging, retirement | |
| `Presentation` | the two replicas and the lock while rendering | runtime, client, app |
| `Viewport` | rows and buttons patched against a full layout | one widget |
| `PresentationProofs` | proofs about `Presentation` and `Viewport` | |
| `DebugSession` | the debug channel | user, app, client, runtime |
| `RevisionRegister` | the abstract promise of the SQL chain: a compare-and-set register | |
| `SqlRevisions` | the files, the lock, the requests of `open_resource` and `publish` | several processes |
| `SqlProvider` | connections, readers, transactions and epochs above the chain | runtime, provider, chain |
| `SqlProofs` | proofs about both, the refinement among them | |

Every module has one action per step between two points where another actor may come in between.
An operation that runs without such a point is an operator on the state it changes (a record with
what it sends and publishes), and the action applies it.

**RuntimeTransport.** `pc` is where the worker is inside `pump`. `deferred` is
`_deferred_runtime_messages` (a set: the ids give the order), `flushing` the list being walked,
`epochTransition` the pair `_runtime_epoch_transition`. `SendRuntime` is `send_runtime` outside a
batch, `DeferRuntime` inside one. `HandleEvent`, `HandleRequest`, `HandleCancel` are
`_handle_envelope` on the oldest output with the handler it calls; each first adopts the epoch.
`ExecuteSql`, `AcknowledgeBatch`, `BeginFlush`, `FlushDeferred` are the rest of the pump in order,
`PumpFault` is the exception path. `Rt...` actions are the runtime; they fire only in `drive`.

**RuntimeWorker.** `SendCommand`, `StoreProjection`/`QueueProjection` (the two halves of sending a
projection: under the lock, and after it), `RequestQuit`; `BeginDrain`..`RecheckEvents` is
`on_worker_events_available`; `ForceExit`, `Unmount`, `StopRequest`..`Join` are the ways out.
`Open`..`Close` is `run`: creating the session may fail and is reported, and so are a fault of a pump,
a close of the session that fails (which leaves it open, and no more is tried) and a failing reset of
the wire, each with an event of its own, at the end `worker_stopped`. What a command or a pump does is
a number of published events.

**InputGate.** Three views of the open wait: the app's (`uiWait`), the client's (`activeWait`), the
runtime's (`rtWait`). A gesture shuts the gate on the app's wait; the worker submits it to the
client's; the runtime takes or rejects it against its own. `shutBy` remembers which gesture shut
the gate. Left out: exporting and rendering flags of the gate, diagnosis, transitions of the game.

**StateTransfer.** `client` holds `pending_export`, the project export, `pending_import`,
`pending_diagnosis` and the schedule of the cache, with the temporary files they own; `open` is what
the runtime holds open for them. The run loop alternates commands and pumps. An export is refused,
becomes ready, is read chunk by chunk, fails on the disk, is cancelled or left with its game at any
of these points; a late answer to a cancelled one is an output like any other.

**ProjectStart.** `client`, `session`, `app`, `disk` are records. `Process` runs one command with
everything it calls; `Handle...` are the handlers of the reports; `Abort`, `Prepare`, `Recreate` are
the replacement of a session with a failure possible at every call of the ABI. The two-phase commit
of a configuration is `BeginUpdate`, `HandlePrepared` (write, rescan, finalize) and
`HandleCommitted`. Writing takes two steps: when the worker takes an output (`TakeOutput`) the file is
read (`seen`), and `Written` compares and replaces what was read; another program may write in
between. A bundle that came from the compiled cache is submitted whole by the first reload (`due`).
Two fields are history and are read by properties only: `taken`, a write of the configuration took
other sources into the bundle; `torn`, an update failed when the file had been written.

**ProjectSources.** A file is a content and a signature, which every edit makes new; the index keeps
its size and milliseconds only (`ms`), and an edit may leave those as they were in any version before.
`versions` remembers what those were. A scan enumerates, inspects against the index, reads in any order with a signature before and after, and
verifies; it is tried again (`Attempts`, three in the code), and a full scan that stands in for a quick
one and fails gives the turn back to it (`quick`). `Candidate` is what a reload scans,
`Hydrate` what it submits when the loaded bundle is sparse after a hit of the compiled cache.

**Presentation and PresentationModel.** A line is an identity; `Limit` stands for the budgets of
lines, bytes and segments. The client applies what the runtime sends to its own model and merges it
for the app; a return to the title retires what it holds behind a boundary; the app applies commits
to its copy and locks input until they are painted. `MergeOperation` is the accumulation of deltas,
checked against one-by-one application through `CopyTrue`.

**Viewport.** `Merged` is what a full layout gives; the widget's own state is patched from
`changed_from` (`note`) and from the policies, in `SetLines` and `Switched`. Left out: widths, scrolling, drawing.

**DebugSession.** Commands, events and both directions of the wire are queues, so an answer, a stop
and a gesture may come in any order the program allows. `Request` is `_debug_request` with its
deferral, `Response`, `Stopped`, `Refused`, `Granted`, `Revoked` the branches of `_handle_debug`. At
most four refreshes and `MAX_PENDING_DEBUG_CONSOLE_REQUESTS` (32) console requests can be pending, so
the budget of 256 correlations is never met in the code; the run sets it to 1 to enter that branch.
`excused` is a history variable that no step reads: the stops that came when nobody wanted them any
more, or whose resume the runtime refused, which the properties name as their exceptions.

**SqlRevisions.** A session is the connection of one process to one database. `at` is its next
storage request, `target` the file of its next write. A write takes the lock and checks the
precondition (`BeginWrite`, `RefuseWrite`), then replaces the file and gives the lock back
(`CommitWrite`, `BreakWrite`). `Crash` may come anywhere; the file system drops the lock, the
temporary file stays. `base` is `current_storage_revision`, the digest of the pointer file, modelled
by the revision the file names, so a pointer that moved away and back looks unmoved, as in the code.
Left out: idempotent results (keys are never used twice), files changed by others, the fallback of
reads to the project directory.

**SqlProvider.** One statement at a time on a connection: opened, probed, executed, published when
autocommit is back, restored when that fails; readers with the cursor of a statement that may write;
`begin_epoch` with its candidate for a restored game. SQLite itself is external: several cursors may
write at a time, a statement it has seen may come compiled from the cache of apsw, so that the
authorizer is not asked, and a deadline may pass before any publication. `blamed` is history: for a
write, which of these made it possible that its answer is untrue. `AnswersTrue` looks there before it
calls an answer false.

## 3. Runs

The project keeps twelve checked runs, each about one component with the interesting cases together.

| run | instance | states | shows |
|---|---|---|---|
| `transport_barrier` | one storage request, 4 commands, 2 epochs, the runtime may leave input unread | 633 thousand | typing; `TransitionBarrier`, `CommandsInOrder` |
| `transport_services` | one SQL and one device request, a transition or a reload | 50 thousand | `AnswersValid` (SQL only for open requests, nothing after a cancellation, answered once, acknowledgements not stale) and `Progress` (transitions decided, requests settled, outputs acknowledged) |
| `worker` | command queue of 1, event queue of 4, batches of 1, bursts up to 1, 2 projections | 1.4 million | `NoLostWakeup`, `ProjectionCoalesced`, `FailureReported`, `ShutdownReturns` |
| `gate` | 3 timed waits of two kinds and a raw one, all gestures, 2 of them, 1 tracked input, a pause, failures | 522 thousand | `RetryDisciplined`, `AnsweredStaysShut`, `GateReleases` |
| `transfer_jobs` | every export and every way out of one, three choices of the user, one refusal, disk failure and fault | 893 thousand | `NothingLeft`, `JobTracked`, `WorkerSurvives`, `InteractionRestored` |
| `project_load` | directory, project file and read-only file, 2 operations, one edit, one failure, one refusal | 657 thousand | `HandleOwned`, `StartSettled`, `CopiesAgree`, `ForeignEditKept`, `RequestsAnswered` |
| `sources_scan` | 2 files, 2 edits, 2 operations | 7.3 million | `ScanIsSnapshot`, `IndexTrue`, `BaselineTrue`, `UnselectedKept` |
| `presentation` | 3 outputs, one return to the title, one fault, one refused delta | 1.4 million | `RetiredStaysBlank`, `CopyTrue`, `WaitReachesPlayer` |
| `viewport_rows` | 2 lines, 3 changes, 2 submissions, a lock | 1.4 million | `ScreenTrue`, `RetiredForGood` |
| `debug` | 3 dialogs, 5 gestures, a revocation | 508 thousand | `DebugSettles` |
| `sql_sessions` | 2 sessions, 3 revisions, room for 2 | 115 thousand | typing; `Recoverable`, `CompareAndSet`, `OperationSettles` |
| `sql_provider` | 2 epochs, 7 requests, 2 readers | 7.6 million | `AnswersTrue`, `ReadersOwned` |

Why the bounds are enough. A barrier needs a transition, something deferred behind it and
something issued after it: three commands, and a fourth to be ordered among them. Epoch 2 is the
second game, so a message of epoch 1 can be late. Queues of one to four entries fill, and batches
end both because the queue is empty and because the batch is full. Three waits let an input outlive
two of them, which is what a second retry would need. Two transfers let the second meet what is left
of the first, at every point where the first may end. Two project operations let one replace, reload
or save what the other made. Two files are one selected and one not; two edits are one before and one
after a look at a file. Two lines let a row hold a line and the one that hangs on it. Five gestures
enable the debugger, enter single step, leave it or disable while the pause is on its way, and go on
from there; or open, use and close a dialog at the stop.
Three revisions with room for two let a candidate be over the quota, and two sessions race for the
lock, the seed and the pointer; seven requests open, read, write in a transaction, end it and look at
the copy. What the bounds cut off repeats these steps.

`StateTransfer` with four user actions and no refusal or disk failure (489 thousand states),
`ProjectSources` with three operations (2.4 million) and `Presentation` with four outputs (22
million) were checked for their invariants once, by hand, with no violation. That every scan and
reload ends (`OperationEnds`) is checked by hand as well, for two contents and one operation
(`ProjectSources_ends.cfg`, 220 thousand states): beside the other properties it takes too long.

Deadlock is checked, except in `sql_provider` and `debug`, which stop when the runtime or the user
has used up its requests or gestures, in `Worker_wedge.cfg`, and in the other `DebugSession`
configurations. Models whose actors may really be done have a stuttering end (`Gone`, `Closed`).

### Fairness

* Transport: the run loop keeps pumping (`WF` on the pump's steps, one thread), the UI loop keeps
  turning (`SF` on the device answers), and the runtime consumes its input and decides a transition
  whose requests are answered. The last two are `SF` because `drive` may return before it is done.
* Worker: both threads run (`WF`); a user who wants out is asked again, and the app does unmount in
  the end (`SF` on `Leaves`). The interval timer that also drains is not relied on.
* Gate: the app drains, the worker alternates between commands and pumps, the runtime takes its
  inputs.
* Transfers and start: the worker goes on, the runtime consumes what was submitted, the app handles
  its events; a delay of the cache ends (`SF` on `TimePasses`). Nothing the user does is assumed.
* Sources: the operation goes on. Edits are bounded, so a scan in the end has an attempt of its own.
* Presentation: the worker, the runtime and the render loop of the app go on; the runtime answers
  what was submitted before its drive ends.
* Debugger: every queue is served, and a game told to stop comes to its next line or wait. Written
  out as recurrence of empty queues, which is weak fairness of the steps that take from them.
* SQL: a session that does not die goes on and is given the lock in the end. Crashes, deadlines,
  broken writes and new publications are never assumed to happen or to stop.

### Assumptions about the user

Some constants called `Careful` keep the user from hurrying. They name the cases in which the code
does not do what its properties say (section 5), so that the rest can be checked.

* `StateTransfer`: he starts nothing before the app has been told the end of what he cancelled or
  left, nothing while a file is imported, and no manual export while a cache export is due or written.
  He need not wait for the runtime: answers about what he gave up may still be under way. The delays
  before a cache export (250 ms, 10 s) are longer than a pump.
* `ProjectStart`: reloads and preferences only when nothing is under way. Settings are saved, and
  the project is edited, at any time. Operations are chosen between pumps. One operation fails per
  run.
* `Viewport`: a line drawn at the right edge changes only with the line it hangs on.
* `DebugSession`: he opens dialogs and returns to the title when the debugger is at rest, and in
  single-step mode opens dialogs at a stop. Everything else he does at any time, with a pause, a
  step, a resume or a stop under way: he disables, switches single step, steps, evaluates, refreshes,
  closes and submits input (`Hasty`). While a disabling is under way he does not switch single step
  on again.

## 4. Proofs

Each theorem holds for every value of the constants that the module's named assumption on them
allows (`ASSUME` in the module; TLC evaluates it in every run). The last column is what it assumes
beyond that.

| theorem | says | assumes besides |
|---|---|---|
| `RuntimeProofs!TypeCorrect` | `[]TypeOK` | |
| `RuntimeProofs!InOrder` | `[]CommandsInOrder` | |
| `RuntimeProofs!BarrierHolds` | `[](TransitionBarrier /\ NothingStale)` | `"reload" \notin Commands` |
| `RuntimeProofs!ServicesHold` | `[](SqlOnlyForOpenRequests /\ CancelledNeverAnswered /\ AnsweredOnce)` | |
| `RuntimeProofs!AnswersHold` | `[]AnswersValid` | `"reload" \notin Commands` |
| `RuntimeProofs!WorkerTypeCorrect` | `[]WorkerTypeOK` | |
| `RuntimeProofs!EventsDelivered` | `[]NoLostWakeup` | |
| `RuntimeProofs!Coalesces` | `[]ProjectionCoalesced` | |
| `RuntimeProofs!ReportsFailure` | `[]FailureReported` | `EventCapacity >= 4` |
| `InputGateProofs!TypeCorrect` | `[]TypeOK` | |
| `InputGateProofs!Disciplined` | `[]RetryDisciplined` | |
| `InputGateProofs!StaysShut` | `[]AnsweredStaysShut` | |
| `StateTransferProofs!JobsTracked` | `[]JobTracked` | `Careful`, `"folder" \notin DiskFailures` |
| `StateTransferFileProofs!NothingIsLeft` | `[]NothingLeft` | `Careful`, `"folder" \notin DiskFailures`, and `[][Waits]_vars`: nothing is begun while an answer about what was given up is under way |
| `ProjectStartProofs!HandleKnown` | `[]HandleOwned` | |
| `ProjectStartProofs!CopiesHold` | `[]BaselineMatches`, half of `CopiesAgree` | `Careful` |
| `ProjectStartProofs!StartSettles` | `[]StartSettled` | `Careful` |
| `ProjectStartProofs!ForeignEditStays` | `ForeignEditKept` (an action property) | `Careful` |
| `ProjectSourcesProofs!TypeCorrect` | `[]TypeOK` | |
| `ProjectSourcesProofs!ScanSnapshot` | `[]ScanIsSnapshot` | |
| `ProjectSourcesProofs!IndexHonest` | `[]IndexTrue` | |
| `ProjectSourcesProofs!UnselectedStays` | `UnselectedKept` (an action property) | |
| `ProjectSourcesProofs!Baseline` | `[]BaselineTrue` | `"configure" \notin Kinds` |
| `PresentationProofs!RetiredStays` | `[]RetiredForGood` | |
| `PresentationProofs!ScreenStaysTrue` | `[]ScreenTrue` | `Careful` |
| `PresentationProofs!BlankStays` | `[]RetiredStaysBlank` | `~SceneAcrossGames` |
| `PresentationProofs!CopyStaysTrue` | `[]CopyTrue` | `~SceneAcrossGames` |
| `SqlProofs!TypeCorrect` | `[]ChainTypeOK` | |
| `SqlProofs!Recovers` | `[]Recoverable` | |
| `SqlProofs!Implements` | `RevisionRegister!Spec` under `seen <- base` | |
| `SqlProofs!ReadersStay` | `[]ReadersOwned` | |
| `SqlProofs!AnswersHold` | `[]AnswersTrue` | |

Where something is assumed the code needs it, but for `ForeignEditStays`. A reload behind an
undecided transition ends the barrier early (section 5). The report of a failure needs room beside
two warnings of the close and `worker_stopped`, four events; the code's queue has 64. A save of the
configuration takes edited sources into the bundle (`ProjectSources_configure.cfg`). What the
theorems on `StateTransfer` exclude stands in section 5 under *Transfers*: the late event of a job
given up, and a diagnosis that cannot make its folder. `HandleKnown` does not assume the careful
user of the run; for `CopiesHold` and `StartSettles` he is needed: without him the second of two
reloads is taken for a start. `ForeignEditStays` assumes him because its proof builds on
`CopiesInv`; no counterexample without him is known. Once a game was left, an edit of the scene
applies to the worker's copy and not to the app's (`Presentation_scene.cfg`); `~SceneAcrossGames`
excludes that one. How many operations fail, are refused or are chosen is not bounded in any of the
four of `ProjectStart`.

*Transport.* `Bookkeeping` carries the order: ids are unique and each message is in one place
(`MessageIds`), the client learns of an epoch from what it polls (`EpochsAgree`), and nothing is held
back but behind a transition (`HeldOnlyBehind`). `TransitionBarrier` needs more: that the client
remembers exactly the transition the runtime has not decided, and that no output under way could be
mistaken for its end (`TransitionPending`). For the answers, a request is in one of six places at a
time, from the output that raises it to the answer that was taken (`Places`), a withdrawal leaves it
in none (`Cancels`), and what waits to be executed is open or on its way out (`SqlQueued`).

*Worker.* No event is stranded because a drain that was asked for is posted, scheduled or running
(`DrainServed`). The report of a failure survives a full queue that drops its oldest entry because
little is published behind it: the warnings of a close and the end. A warning is an event of another
kind and does not pass for the report. `BacklogShape` says what may still be published, `ReportKept`
where the report is and how much can still come behind it (`ToCome`).

*Gate.* `Numbered` gives every input the id it was sent under, `Followed` follows a gesture: waiting,
handled once, or remembered by one input and handled at most twice. That an answered wait stays shut
needs the order in which waits are announced through two queues (`Ordered`) and the one place the
answer of a wait is in, from the open gate to the runtime (`OneEach`).

*Transfers.* `JobInv` holds while the worker runs. `Coherent` says what the client keeps among its
four places: what serves a project file or a diagnosis has one to serve, at its stage of it, and
besides a manual export there is at most a restore or a diagnosis that waits. `Shown` is the converse
of the property: a job that is commanded or runs has no ending event under way, and is shown unless it
was cancelled or the app is being left; without it a new job could be taken for an old one. `Steps`
is what one operation of the client may do to the jobs: it begins none but the one commanded, ends
none without an event, and queues no event that ends a job still running. One lemma for each
operation shows that it is such a step; the queues and flags then follow (`StepOrderly`,
`CommandOrderly`).
`RuntimeReleased` needs what the two sides have to say to each other. `TalkInv` reads both queues as
one line, the oldest message first. At most one message is about an export, and it fits the one under
way (`OneTalk`), since a request has a number of its own (`Numbered`). An import waits for a message
that is under way (`Awaits`); what is left of an export that was given up comes before that message
(`InTurn`), so it cannot be taken for the answer. What the runtime holds open the client holds too, or
has closed (`Covered`, `Registered`); `RuntimeReleased` is that for an empty line. On the app's side a
job is commanded only when it can begin at once (`Ready`), and what ends the jobs comes before a
restore (`RestoreWaits`). `OneTalk` is where the theorem needs a user who waits (`Waits`): otherwise
the answer about an export he gave up stands in the line beside that of the next one. The run has a
user who does not, and finds `NothingLeft` true of him as well; `WorkerSurvives`, which is about those
answers, is only model-checked.
`TemporariesOwned` is one half of `Tidy`. That every file is somebody's (`Claimed`) is not inductive:
a file that goes with one job could be the file of another, and a job could name a file that is gone.
So what is owned exists and nobody shares a file (`Backed`, `Apart`). An operation returns a world or
raises an exception in the middle of it, and what it leaves then is accounted for too (`Accounted`):
`FilesInv` holds also after the worker closed itself (`WoundUp`).

*Start.* `Inv` adds to what the client knows of its handle (`Owned`) only the shape of the records
and of the queues. An operation is a function from a world to a world, so the proof is one lemma for
each: most keep the handle and what is known of it (`Keeps`); a prepared session is open and not yet
the client's (`Prepares`), and becomes so when it is greeted, or goes (`Greets`, `Aborts`).
For the copies `CopiesInv` reads every message under way as a promise (`Fits`): a report of success
holds the bundle the client waits for and the sources the runtime compiled. A promise is about one message only if numbers
tell messages apart (`Numbered`, `Apart`) and one message at a time loads a project (`OneLoad`).
`Books` is the client's side: a candidate or an update it keeps has its message under way, and the
bundle has the sources of the session, or the report that says so is still to be read, or a write of
the configuration took others in. While a
handler works, its message is in no queue; the invariant counts it as in his hand. A lemma for each
kind of step carries this through every operation: a message is settled (`SettledDown`), asked
(`Asked`), answered (`Exchanged`), a file or a bundle stored (`Stored`), a project published, a session
reset. `Orders` is why a careful user is enough: commands wait only between two pumps, so what held
when they were chosen holds when they run.
`StartSettled` and `ForeignEditKept` share a third invariant, `TurnsInv`, because whether a game may
start and whether a configuration may be written both depend on which configuration a message speaks
of. `Turns` says that of the load, the confirmation of a migration and the preferences only one has
the game still to start, and none once it was started. That a turn passes on needs the message it
waits for to be under way (`Owes`), a reload to be answered before what was asked behind it
(`First`), and a report, a prepared and a committed configuration to carry the session's (`Says`):
the optimistic lock compares the file with that one, so a file with a foreign content is replaced
only when the session knows that content. Again there is a lemma for each operation: a session that
is replaced starts nothing (`Boots`), a handler settles a message and keeps the rest (`Hears`), a
command takes no turn (`Executes`), the runtime answers in order (`Replies`).

*Sources.* Every look at a file sees the content of its stamp, and what is taken from the index is of
some version of it (`Sighted`); stamps of the past are below the next one. So a signature that is the same before and after a read, and at the check of
the whole, means nothing happened in between: `SnapInv` is that argument for one file at an instant
all files share. `ModeInv`, `ScopeInv` and `ReloadInv` say what each stage of an operation may look at
and how its candidate follows the bundle.

*Viewport.* A button comes back only as the line it was: `Labelled` says that lines and buttons have
numbers of their own which are not given again, and that all lines with one button carry one
sequence. So a retired button keeps its sequence whatever brings its line again, and `Behind` keeps
that sequence behind what is retired, and behind what a rejection would give back.
For the screen `ScreenInv` remembers some lines the rows stand for (`Depicts`): they are those of the
copy up to the first change it noted, and no row goes on over that point. That is what an operation
preserves (`NotedScreen`) when the user of a delete button is careful, and it is enough for a commit
that touches only the rows from there (`SuffixSet`), because rows are merged line by line (`FirstRows`,
`TailRows`). A child that is not told a policy has no button to enable before or after (`Child`).
What the merge of a sequence makes is found from the lines before the last (`MergeMore`): folds are
induction over data, done here for one step function after the other by the least index at which two
folds differ (`FoldsAgree`).

*Presentation.* `CopyInv` (theorem `CopiesFit`) follows the surface over three copies: `Sent` is what the app has when it
read every event under way, `Base` what a pending snapshot makes of that, `Target` what the pending
operations then make of it. `TargetFits` says that `Target` is the worker's copy but for lines hidden
above (`Follows`), and `Bare` of it that a game which was left shows nothing. This needs of the
operations that each finds what it works on when they are run in order (`Sound`), and of the lines
that numbers tell them apart (`Unlike`, `Numbered`).
A merge is the hard step. An operation that takes the place of an earlier one runs before those that
came between. That makes no difference only because nothing between touches its line or the wait; for
this at most one pending operation sets the wait, and at most one is about a line in the part where a
merge may look (`Single`).
`PlaceRuns` is the argument at each operation after the place (`PlacePassed`), `OneMore` and
`MergeStep` turn it into a merged operation that leaves `Target` as if it had come last (`Retaken`).
What a worker with a retired surface leaves out of a delta changes neither copy (`TakeOne`,
`Between`), so `DeltaAccepted` carries `TargetFits` over a delta and `DeltaRefused` over a
resynchronization. The wait beside the app's copy is that of the batch read last, because a batch
names the wait of the surface it leads to (`AppFits`).

*Chain.* `ChainIInv` adds to typing and `Recoverable`: whoever is inside a write holds the lock
(`LockHeld`), the pointer he is about to replace is the one he saw (`PointerSeen`), and whoever writes
the pointer has his revision on disk (`RevisionFirst`). Each step then sees, moves or forgets the
register, or leaves it alone (`RegisterStep`).

*Provider.* `Good` relates a copy to its readers: what is not saved yet is apart from what is, a reader
that writes has its cursor, and what it made is unsaved and no other reader's. With numbers that are
new (`FreshInv`) this is enough for both answers: what is acknowledged was saved when nothing writes
any more, and what is refused is not even unsaved (`AnswerInv`), or there is something to blame. The
lemmas follow an operation through its draft (`Draft`) to an outcome that may be answered (`Fine`,
`Honest`); the theorem takes no assumption.

Every safety invariant and action property that a run checks is stated by one of these theorems, but
for the other half of `CopiesAgree`: that runtime, bundle and file hold one configuration
(`ConfigurationAgrees`) is model-checked. So are the eight liveness properties, the one of `DebugSession`
among them: fairness and ENABLED are beyond the prover.

## 5. What the code does not do

The properties of section 3 hold under the assumptions stated there. Without them the code departs
from them. A configuration kept beside the modules shows each departure that a property of the
model states; TLC reports the property as violated.

| configuration | module | property | behaviour |
|---|---|---|---|
| `Worker_wedge.cfg` | `RuntimeWorker` | `ShutdownReturns` | `stop` empties the event queue once; `shutdown` joins a worker that may have more than 64 events left to publish, on the only thread that drains them. `worker.py:384` promises a join "so the C ABI session is closed before returning". With at most one queue of output between two looks at the stop flag leaving returns (run `worker`). |
| `InputGate_raw.cfg` | `MCInputGate` | `EveryGateReleases` | a text that does not parse for a raw wait is dropped with an error and nothing opens the gate the app shut, so the text the error asks for cannot be given |
| `Sql_quota.cfg` | `SqlRevisions` | `WithinQuota` | the quota is checked on a listing taken outside the lock; two processes pass it together, and as revisions are never deleted no publication succeeds afterwards |
| `Sql_listing.cfg` | `SqlRevisions` | `ListingWellFormed` | the temporary file of an atomic write stands in the directory the quota check lists and is no revision name; a process that dies there leaves it, and every later publication fails |
| `StateTransfer_late.cfg` | `StateTransfer` | `OnlyTheDisk` | a project export is cancelled and another export begun in the same round of commands: the late Ready of the first does not match the second, and `_fail_mismatched_export` stops the worker. `WorkerSurvives` excepts this case |
| `StateTransfer_fault.cfg` | `StateTransfer` | `AlwaysRestored` | a fault (tag 92) during the project part of a diagnosis forgets the import and tells nobody: the fatal error dialog ignores its buttons from then on. `InteractionRestored` excepts this case (`ImportLost`) |
| `ProjectStart_baseline.cfg` | `ProjectStart` | `BaselineKept` | a save of `reraconfig.toml` takes edited sources into the bundle although the runtime runs the old ones; a reload then finds nothing to submit |
| `ProjectSources_configure.cfg` | `ProjectSources` | `BaselineDue` | the same save forgets that the runtime, started from the compiled cache, holds no sources yet |
| `Presentation_lock.cfg` | `Presentation` | `LockedUntilPainted` | `_finish_presentation_render` with an older revision drops the lock although a newer commit is not painted, against the comment "this callback is stale" beside it |
| `Presentation_scene.cfg` | `Presentation` | `AppFollows` | a retirement empties the scene of the app and not the worker's, so a later scene operation does not apply in the app and is only logged |
| `Viewport_edge.cfg` | `Viewport` | `RowsMatch` | replacing or deleting the first of two lines drawn at one right edge leaves the old one merged in the row before, against the docstring at `widgets.py:330` |
| `DebugSession_refused.cfg` | `DebugSession` | `DebugSettles` | an error answer (tag 13) to the last request of a closed dialog does not end the pause the dialog owned |
| `DebugSession_hurry.cfg` | `DebugSession` | `DebugSettles` | a dialog opened while the resume of the last one is under way asks about a stop that is gone, and its deferred refresh waits for ever; a return to the title that a stop or an answer overtakes leaves a stale stop |

`Sql_alone.cfg` passes: one session, without deadlines, stays within the quota and never rolls back
(`WithinQuota`, `NeverRolledBack`); a deadline, or another session's move, between a broken write of
the pointer and its read-back does roll back a publication that succeeded.

`AnswersTrue` names what makes an answer of the SQL provider untrue, as a cause in `blamed`. Every one
happens in the run; without it in the property TLC violates `RefusedGone` (`"late"`, `"limit"`,
`"cached"`) or `AcknowledgedStored` (`"cached"`, `"beside"`):
* `"late"`: the deadline passes between the statement and `publish` (`sql_provider.py:643`, outside
  the `try` that restores the copy): the request is refused and its change stays;
* `"limit"`: a reader over its row limit is closed, which commits its write to the copy alone;
* `"cached"`: SQLite does not ask the authorizer again for a cached statement, so a write looks like
  a read: it is acknowledged without a publication, or fails and is not taken back;
* `"beside"`: a write while the cursor of an `INSERT ... RETURNING` is open is acknowledged, but not
  in the bytes that are published.

The others were met while reading and modelling. They stay outside the instances of the runs:
* *Transport.* With a hot reload issued behind an undecided transition the deferred acknowledgement
  of the same flush may be sent in the epoch the reload leaves, and adopting that epoch ends the
  barrier: `transport_services` has one change of epoch, and the proof no reload.
* *Gate.* `submit_text` and `activate` drop a gesture the debugger's pause overtakes, and a refused
  undo is reported to nobody: `GateReleases` excepts both. With timed waits a gesture may be
  submitted to a later wait than the one shown, and its rejection may open a gate shut by another
  gesture: hence the premise of `AnsweredStaysShut`.
* *Transfers.* A late finished or reset event of a cancelled export clears the flag of the next one.
  A manual export refused because a cache export is open makes the worker's boundary cancel that
  cache export, although `test_manual_state_export_does_not_replace_an_active_transfer` says
  otherwise of a transfer. A diagnosis begun from the fatal dialog while a project export imports its manifest
  has its export overwritten, with its file, when the import is ready; an export begun while a restore
  imports its state loses its flag to the reset event that follows. A diagnosis that cannot create its archive during a snapshot export cancels the export
  and leaves its flag. A cache file that cannot be opened stops the worker. A project export's
  manifest cancels a restore silently. Transfers of a refused transition stay open in the runtime.
* *Start.* Reload pressed twice: the second report of success is taken for a start. Preferences
  saved while a write of the configuration is pending may lose their answer, and the dialog stays
  busy. A restart that fails inside the pump ends the worker the comment wants preserved, and after
  any failed restart nothing but leaving is possible. A refused finalize after the file was written
  leaves the old digest, so later saves are refused. A refused reload is silent. An import of an old
  cache without the staging calls drops a pending restore. A scan that fails after the configuration
  was written reports that the write failed. `reraconfig.toml` edited between the scan and the hello
  stops the worker; edited between its reading and `os.replace` the edit is lost, and
  `ForeignEditKept` leaves out this window.
* *Sources.* An edit within the same millisecond that keeps the size, or one that sets the time back,
  is not seen by a quick scan: the index then vouches for the older contents. `IndexTrue` and
  `ScanIsSnapshot` promise of a file that was not read only that some version with its size and
  milliseconds held these contents.
* *Presentation.* A clear by the game being left, between the submission of a return and its
  refusal, lifts the boundary; a second return overwrites the command the first one waits for.
* *Debugger.* Single step switched off before the stop it asked for arrives, or while a step or an
  evaluation makes the request to resume too old, leaves the game paused; a debugger disabled then
  resumes it and keeps the stale stop. `DebugSettles` excepts exactly these stops (`excused`).
  A dialog opened in single step at a host wait has its refresh deferred for ever. Two console
  requests at one stop: the second is refused as stale and the pause goes on. A step while a console
  answer is due is refused, and the app shows a running game. After a revocation by the runtime the
  debugger cannot be enabled again. A transition of the game while an answer or a stop is under way
  leaves a stale stop, or a pending disable.

## 6. Not modelled

* *Headless tester, performance capture, entry points*: drivers and measuring of the same client;
  they keep no state the game depends on.
* *Formats*: the wire encoding (`wire.py`, `protocol_text.py`), the layouts of the ABI, manifests,
  preference values, storage paths and patterns are conversions without steps of their own. A message
  is its tag with the fields the handlers look at.
* *Drawing*: wrapping, widths, canvas, HTML geometry, scrolling, dialogs. Of the terminal layer the
  rows and the buttons are modelled, as far as they are patched instead of laid out again.
* *Storage outside the SQL chain* (namespaces without a lock, deletion, chunked reads, the table of
  idempotent results, resources), and images, sounds and the device services other than their
  request, cancellation and answer.
* *Parts of modelled components*: what a module leaves out is named in section 2 and in its header.
  Among them: limits on sizes and counts of a payload, resources and links in a scan, more than one
  project operation at a time, waits answered by a pointer device, transfers that meet a
  configuration commit.

## 7. Assumptions about the runtime

It is not in this repository. The modules let it do anything the front end's code provides for,
within these limits:
* it moves only inside `drive`; it refuses a message of another epoch, except a reply; it accepts or
  refuses a transition, waits for the requests it raised for it, and then commits (a new epoch) or
  refuses; it asks for SQL before the first epoch only for a transition;
* it opens one wait at a time, takes an input that names the open wait or rejects it, as stale when
  it names another;
* it holds an export open from Ready to its release, and answers each request of a transfer or of a
  project once;
* it sends revisions of the surface in order and answers a request for a snapshot with the surface
  as it is; what was submitted is answered before the drive ends (`Presentation`);
* a debug request that names another stop than the present one is refused; an answer of the console
  carries a new stop; revoking the grant resumes the game.

`EagerDrive` of `RuntimeTransport` says that `drive` returns with its input consumed;
`transport_barrier` does without it.

## 8. Plan

Done: every module of section 2, and the theorems of section 4. Mutant definitions that a stronger
property has taken over stay in their modules; each breaks the conjunct it stands beside.

Next, models: `StorageCas` (the other storage operations, namespaces without a lock, the idempotency
table), and abstract specifications of the service exchange (`RuntimeTransport`) and of a file that
is absent, old or complete (`StateTransfer`).
