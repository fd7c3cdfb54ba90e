----------------------------- MODULE ProjectStart -----------------------------
(***************************************************************************)
(* From a directory or a project file to a running game and back: the      *)
(* session of the runtime is created, replaced and destroyed               *)
(* (runtime_client.py, abi.py, worker_project.py), the project is          *)
(* submitted with the compiled cache or with its sources, its              *)
(* configuration is migrated, saved and committed in two phases, the       *)
(* preferences of the player are applied, the game is started, and the     *)
(* scripts are reloaded (runtime_project.py, runtime_project_reload.py).   *)
(* Operations map a world to a world: the client c, the disk d and the     *)
(* session s, which is all the runtime has and goes when it is destroyed.  *)
(* The sources and reraconfig.toml are versions: a number is a content.    *)
(* Left out: what the contents mean, diagnostics, progress, transfers and  *)
(* the state restored at a start (StateTransfer has both).                 *)
(***************************************************************************)
EXTENDS Naturals, Sequences, FiniteSets

CONSTANTS
  Projects,   \* what is played: a directory, a file, a file the runtime cannot update
  Moves,      \* what the user does: restart, recompile, reload, save, save_and_restart,
              \* preferences
  Edits,      \* what others edit meanwhile: sources, configuration
  Failures,   \* operations that may fail: destroy, scan, rescan, create, progress, decode,
              \* hello, read, write, identity; "x_and_abort" also leaves the handle open
  Careful,    \* TRUE: the user reloads and saves preferences when nothing is under way
  MaxMoves, MaxEdits, MaxFailures, MaxRefusals  \* bounds

ASSUME StartAssumption ==
  /\ Projects \subseteq {"directory", "file", "read_only_file"}
  /\ Moves \subseteq {"restart", "recompile", "reload", "save", "save_and_restart", "preferences"}
  /\ Edits \subseteq {"sources", "configuration"}
  /\ Careful \in BOOLEAN
  /\ {MaxMoves, MaxEdits, MaxFailures, MaxRefusals} \subseteq Nat

VARIABLES
  client,    \* RuntimeClient, with the events it has published
  disk,      \* the project on disk: sources, configuration and compiled cache
  session,   \* the session the ABI handle refers to, with its messages
  app,       \* phase, configuration and busy dialog of RustyEraTui
  commands,  \* RuntimeWorker.commands
  pc,        \* where run() is
  left       \* what is left of the bounds

vars == <<client, disk, session, app, commands, pc, left>>

\* No ProjectBundle; a revision or a message id 0 stands for None as well.
NoBundle == [rev |-> 0, sources |-> 0, conf |-> 0, full |-> FALSE]
NoSnapshot == [known |-> FALSE, conf |-> 0, generated |-> 0]
NoUpdate == [stage |-> "none", id |-> 0, digest |-> 0, restart |-> FALSE, automatic |-> FALSE,
             commit |-> FALSE, candidate |-> NoBundle]
\* pending_client_preferences, _save, pending_start_after_preferences
NoPreferences == [id |-> 0, save |-> FALSE, start |-> FALSE]

\* due: reload_baseline_pending of the bundle.  History, which no step reads: taken,
\* whether a write of the configuration took edited sources into the bundle; torn,
\* whether an update failed when the file had been written.
NewClient == [reset |-> FALSE, destroy |-> FALSE, cache |-> TRUE, events |-> <<>>, failed |-> FALSE,
              bundle |-> NoBundle, pending |-> NoBundle, candidate |-> NoBundle,
              compatibility |-> 0, reload |-> 0, update |-> NoUpdate, start |-> FALSE,
              preferences |-> NoPreferences, snapshot |-> NoSnapshot,
              due |-> FALSE, taken |-> FALSE, torn |-> FALSE]

\* compiled: the sources of the game; next: the configuration that was prepared.
NewSession == [open |-> TRUE, compiled |-> 0, conf |-> 0, next |-> 0, starts |-> 0,
               inbox |-> <<>>, outbox |-> <<>>]
Closed == [NewSession EXCEPT !.open = FALSE]

Message(tag, id) == [tag |-> tag, id |-> id, bundle |-> NoBundle, conf |-> 0, contents |-> 0]

In(queue) == {queue[i] : i \in DOMAIN queue}
Fresh(used) == CHOOSE n \in 1..(Cardinality(used) + 1) : n \notin used /\ 1..(n - 1) \subseteq used

Packaged(w) == w.d.project # "directory"
ReadOnly(w) == w.d.project = "read_only_file"
-----------------------------------------------------------------------------
(* The session *)

Emit(w, event) == [w EXCEPT !.c.events = Append(@, event)]
Raise(w) == [w EXCEPT !.c.failed = TRUE]

NewMessage(w) ==
  Fresh(({m.id : m \in In(w.s.inbox) \cup In(w.s.outbox)}
          \cup {w.c.compatibility, w.c.reload, w.c.update.id, w.c.preferences.id}) \ {0})

\* send_runtime
Send(w, m) == [w EXCEPT !.s.inbox = Append(@, m)]

\* _reset_wire_state
ResetWire(w) ==
  [w EXCEPT !.c = [NewClient EXCEPT !.reset = w.c.reset, !.destroy = w.c.destroy,
                   !.cache = w.c.cache, !.events = w.c.events, !.failed = w.c.failed]]

\* begin_session_reset: once; a destroy that failed is tried again.
BeginReset(w, bad) ==
  LET begun == IF w.c.reset THEN w
               ELSE Emit([w EXCEPT !.c.reset = TRUE, !.c.destroy = TRUE], "reset") IN
  IF ~begun.c.destroy THEN begun
  ELSE IF bad = "destroy" /\ begun.s.open THEN Raise(ResetWire(begun))
  ELSE [ResetWire(begun) EXCEPT !.c.destroy = FALSE, !.s = Closed]

\* Mutant: the handle left by a failed cleanup is taken for destroyed.
AbortHopefully(w, bad) ==
  LET stuck == w.s.open /\ bad \in {"progress_and_abort", "decode_and_abort", "hello_and_abort"} IN
  Raise(ResetWire([w EXCEPT !.c.reset = TRUE, !.c.destroy = FALSE,
                            !.s = IF stuck THEN @ ELSE Closed]))

\* abort_session_replacement
Abort(w, bad) ==
  LET stuck == w.s.open /\ bad \in {"progress_and_abort", "decode_and_abort", "hello_and_abort"} IN
  Raise(ResetWire([w EXCEPT !.c.reset = TRUE, !.c.destroy = stuck,
                            !.s = IF stuck THEN @ ELSE Closed]))

\* prepare_replacement_session: session_create may fail after it made a handle.
Prepare(w, bad) ==
  LET empty == BeginReset(w, bad) IN
  CASE empty.c.failed -> empty
    [] ~empty.c.failed /\ (empty.s.open \/ bad = "create") -> Abort(empty, bad)
    [] ~empty.c.failed /\ ~empty.s.open /\ bad # "create" ->
         IF bad \in {"progress", "progress_and_abort"} THEN Abort([empty EXCEPT !.s = NewSession], bad)
         ELSE [empty EXCEPT !.s = NewSession]

\* recreate, on a session that was prepared or prepares one.
Greet(w, bundle, cache, bad) ==
  LET ready == [w EXCEPT !.c.pending = bundle, !.c.cache = cache] IN
  IF bad \in {"hello", "hello_and_abort"} THEN Abort(ready, bad)
  ELSE [Send(ready, Message("hello", NewMessage(ready))) EXCEPT !.c.destroy = FALSE, !.c.reset = FALSE]

Recreate(w, bundle, cache, bad) ==
  LET prepared == Prepare(Emit(w, "cleared"), bad) IN
  IF prepared.c.failed THEN prepared ELSE Greet(prepared, bundle, cache, bad)

\* ProjectBundle.scan and scan_quick: what is on disk, with or without the sources.
Scan(w, rev, full) == [rev |-> rev, sources |-> w.d.sources, conf |-> w.d.conf, full |-> full]

\* _load_project, and restart_recompile, which reads everything and takes no cache
LoadDirectory(w, full, bad) ==
  LET empty == BeginReset(w, bad) IN
  CASE empty.c.failed -> empty
    [] ~empty.c.failed /\ bad = "scan" -> Raise(empty)
    [] ~empty.c.failed /\ bad # "scan" -> Recreate(empty, Scan(w, 1, full), ~full, bad)

\* _load_project_file: the manifest is decoded by the new session.
LoadFile(w, bad) ==
  LET empty == BeginReset(w, bad)
      prepared == Prepare(empty, bad)
  IN CASE empty.c.failed -> empty
       [] ~empty.c.failed /\ bad = "scan" -> Raise(empty)
       [] ~empty.c.failed /\ bad # "scan" ->
            IF prepared.c.failed THEN prepared
            ELSE IF bad \in {"decode", "decode_and_abort"} THEN Abort(prepared, bad)
            ELSE Greet(Emit(prepared, "cleared"), Scan(w, 1, TRUE), TRUE, bad)

Load(w, bad) == IF Packaged(w) THEN LoadFile(w, bad) ELSE LoadDirectory(w, FALSE, bad)
-----------------------------------------------------------------------------
(* Submitting the project *)

\* materialize
Materialize(w) == [w EXCEPT !.c.pending = Scan(w, w.c.pending.rev, TRUE)]

\* _submit_project; contents is the version of the compiled cache sent along.
Submit(w, cache) ==
  IF w.c.pending = NoBundle THEN w
  ELSE Send(w, [Message("project", NewMessage(w)) EXCEPT !.bundle = w.c.pending, !.contents = cache])

\* _resolve_project_compatibility; root_configuration refuses a file that changed.
Resolve(w) ==
  LET id == NewMessage(w) IN
  IF w.c.pending = NoBundle THEN w
  ELSE IF ~Packaged(w) /\ w.d.conf # w.c.pending.conf THEN Raise(w)
  ELSE [Send(w, Message("resolve", id)) EXCEPT !.c.compatibility = id]

\* _handle_project_compatibility, _stage_persistent_cache_or_source
HandleResolved(w, m, bad) ==
  LET resolved == [w EXCEPT !.c.compatibility = 0] IN
  IF w.c.compatibility # m.id \/ w.c.pending = NoBundle THEN w
  ELSE IF bad = "identity" THEN Emit(resolved, "runtime_error")
  ELSE IF Packaged(w) THEN Submit(resolved, w.d.sources)
  ELSE IF w.c.cache /\ w.d.cache # 0 /\ bad # "read" THEN Submit(resolved, w.d.cache)
  ELSE Submit(Materialize(resolved), 0)
-----------------------------------------------------------------------------
(* Configuration and preferences *)

\* Mutant: a file that another program changed is overwritten.
MayWriteAlways(w, expected, contents, bad) == w.d.seen = contents \/ bad # "write"

\* write_configuration: an optimistic lock on the content that was read (TakeOutput).
MayWrite(w, expected, contents, bad) ==
  w.d.seen = contents \/ (w.d.seen = expected /\ bad # "write")

\* os.replace, a later step than the reading, unless the file had the content; then
\* _write_configuration scans the project again.
Written(w, contents) ==
  [w EXCEPT !.d.conf = IF w.d.seen = contents THEN @ ELSE contents, !.d.written = @ \cup {contents}]
Rescanned(w, contents) == [Scan(w, 1, Packaged(w)) EXCEPT !.conf = contents]

\* _begin_configuration_update
BeginUpdate(w, restart, automatic) ==
  LET id == NewMessage(w) IN
  [Send(w, [Message("prepare", id) EXCEPT !.conf = w.c.snapshot.conf])
     EXCEPT !.c.update = [NoUpdate EXCEPT !.stage = "prepare", !.id = id, !.restart = restart,
                          !.automatic = automatic, !.digest = w.c.snapshot.conf]]

\* _publish_configuration: what the runtime generated from legacy files is
\* written, then confirmed by an update of its own.
Publish(w, m, confirm, bad) ==
  LET told == [w EXCEPT !.c.snapshot = [known |-> TRUE, conf |-> m.conf, generated |-> m.contents]]
      generated == m.contents # 0 /\ w.c.bundle # NoBundle /\ ~ReadOnly(w)
      allowed == MayWrite(w, m.conf, m.contents, bad)
      saved == [Written(told, m.contents) EXCEPT !.c.bundle = Rescanned(w, m.contents), !.c.due = FALSE,
                                                 !.c.taken = @ \/ w.d.sources # w.c.bundle.sources]
      failed == IF allowed THEN [Written(w, m.contents) EXCEPT !.c.torn = TRUE] ELSE w
  IN CASE ~generated -> Emit(told, "configuration")
       [] generated /\ allowed /\ bad # "rescan" ->
            Emit(IF confirm /\ w.c.update = NoUpdate THEN BeginUpdate(saved, FALSE, TRUE) ELSE saved,
                 "configuration")
       [] generated /\ ~(allowed /\ bad # "rescan") ->
            Emit([failed EXCEPT !.c.snapshot = NoSnapshot], "error")

\* _continue_project_start
Start(w) == Send(w, Message("start", NewMessage(w)))

\* _begin_client_preferences
BeginPreferences(w) ==
  LET id == NewMessage(w) IN
  IF w.c.bundle = NoBundle \/ ~w.c.snapshot.known THEN Start(w)
  ELSE [Send(w, Message("preferences", id))
          EXCEPT !.c.preferences = [id |-> id, save |-> FALSE, start |-> TRUE]]

\* Mutant: a save that was refused is not answered.
SavePreferencesQuietly(w, bad) ==
  LET id == NewMessage(w) IN
  CASE w.c.preferences.id # 0 \/ bad = "write" -> w
    [] w.c.preferences.id = 0 /\ bad # "write" ->
         IF ~w.c.snapshot.known THEN Emit(w, "preferences_applied")
         ELSE [Send(w, Message("preferences", id))
                 EXCEPT !.c.preferences = [id |-> id, save |-> TRUE, start |-> FALSE]]

\* save_client_preferences
SavePreferences(w, bad) ==
  LET id == NewMessage(w) IN
  CASE w.c.preferences.id # 0 \/ bad = "write" -> Emit(w, "preferences_failed")
    [] w.c.preferences.id = 0 /\ bad # "write" ->
         IF ~w.c.snapshot.known THEN Emit(w, "preferences_applied")
         ELSE [Send(w, Message("preferences", id))
                 EXCEPT !.c.preferences = [id |-> id, save |-> TRUE, start |-> FALSE]]

\* _handle_client_preferences_applied
HandleApplied(w, m) ==
  LET applied == Emit([w EXCEPT !.c.preferences = NoPreferences,
                                !.c.snapshot = [known |-> TRUE, conf |-> m.conf, generated |-> m.contents]],
                      "configuration")
  IN CASE m.id # w.c.preferences.id -> w
       [] m.id = w.c.preferences.id /\ w.c.preferences.start -> Start(applied)
       [] m.id = w.c.preferences.id /\ ~w.c.preferences.start ->
            IF w.c.preferences.save THEN Emit(applied, "preferences_applied") ELSE applied

\* Mutant: finalized before the file is written, whatever becomes of it.
FinalizeFirst(w, m, bad) ==
  LET u == w.c.update
      id == NewMessage(w)
      wrote == MayWrite(w, u.digest, m.contents, bad) /\ bad # "rescan"
      finalize == [u EXCEPT !.stage = "finalize", !.id = id, !.commit = TRUE,
                            !.candidate = Rescanned(w, m.contents)]
      asked == [Send(w, [Message("finalize", id) EXCEPT !.contents = 1]) EXCEPT !.c.update = finalize]
  IN IF u.stage # "prepare" \/ m.id # u.id THEN w
     ELSE IF wrote THEN Written(asked, m.contents) ELSE asked

\* _handle_configuration_prepared: the file first, then the runtime.
HandlePrepared(w, m, bad) ==
  LET u == w.c.update
      id == NewMessage(w)
      allowed == w.c.bundle # NoBundle /\ m.conf = u.digest
                   /\ (ReadOnly(w) \/ MayWrite(w, u.digest, m.contents, bad))
      wrote == allowed /\ (ReadOnly(w) \/ bad # "rescan")
      candidate == IF ReadOnly(w) THEN NoBundle ELSE Rescanned(w, m.contents)
      after == IF allowed /\ ~ReadOnly(w) THEN Written(w, m.contents) ELSE w
      finalize == [u EXCEPT !.stage = "finalize", !.id = id, !.commit = wrote,
                            !.candidate = IF wrote THEN candidate ELSE NoBundle]
      asked == [Send(after, [Message("finalize", id) EXCEPT !.contents = IF wrote THEN 1 ELSE 0])
                  EXCEPT !.c.update = finalize, !.c.torn = @ \/ (~wrote /\ (allowed \/ u.automatic))]
  IN IF u.stage # "prepare" \/ m.id # u.id THEN w
     ELSE IF wrote THEN asked ELSE Emit(asked, "save_failed")

\* _handle_configuration_committed; a restart that fails is only told.
HandleCommitted(w, m, bad) ==
  LET u == w.c.update
      published == Publish([w EXCEPT !.c.update = NoUpdate], m, ~(u.automatic /\ ~u.commit), bad)
      saved == Emit([published EXCEPT !.c.bundle = u.candidate, !.c.due = FALSE,
                       !.c.taken = @ \/ u.candidate.sources # published.c.bundle.sources],
                    IF u.restart THEN "saved_restarting" ELSE "saved")
      restarted == Recreate(saved, u.candidate, TRUE, bad)
  IN CASE u.stage # "finalize" \/ m.id # u.id -> w
       [] u.stage = "finalize" /\ m.id = u.id ->
            IF ~published.c.snapshot.known THEN Emit(published, "save_failed")
            ELSE IF ~u.commit
            THEN IF u.automatic
                 THEN Emit([published EXCEPT !.c.start = FALSE, !.c.snapshot = NoSnapshot], "error")
                 ELSE published
            ELSE IF u.automatic
            THEN IF w.c.start THEN BeginPreferences([published EXCEPT !.c.start = FALSE]) ELSE published
            ELSE IF u.candidate = NoBundle THEN Emit(published, "session_applied")
            ELSE IF ~u.restart THEN saved
            ELSE IF restarted.c.failed THEN Emit([restarted EXCEPT !.c.failed = FALSE], "error")
            ELSE restarted
-----------------------------------------------------------------------------
(* Commands of the app *)

\* reload_all, _submit_reload
Reload(w, bad) ==
  LET b == w.c.bundle
      id == NewMessage(w)
      candidate == Scan(w, b.rev + 1, TRUE)
      same == ~w.c.due /\ candidate.sources = b.sources /\ candidate.conf = b.conf
  IN IF b = NoBundle \/ Packaged(w) \/ bad = "scan" THEN Raise(w)
     ELSE IF same THEN [w EXCEPT !.c.bundle = [candidate EXCEPT !.rev = b.rev]]
     ELSE [Send(w, [Message("reload", id) EXCEPT !.bundle = candidate])
             EXCEPT !.c.candidate = candidate, !.c.reload = id]

\* prepare_configuration_update
Save(w, restart) ==
  IF \/ w.c.bundle = NoBundle \/ w.c.update # NoUpdate \/ ~w.c.snapshot.known
     \/ ReadOnly(w) /\ restart
  THEN Raise(w)
  ELSE BeginUpdate(w, restart, FALSE)

Process(w, command, bad) ==
  CASE command = "restart" -> IF w.c.bundle = NoBundle THEN Raise(w) ELSE Load(w, bad)
    [] command = "recompile" ->
         IF w.c.bundle = NoBundle \/ Packaged(w) THEN Raise(w) ELSE LoadDirectory(w, TRUE, bad)
    [] command = "reload" -> Reload(w, bad)
    [] command = "save" -> Save(w, FALSE)
    [] command = "save_and_restart" -> Save(w, TRUE)
    [] command = "preferences" -> SavePreferences(w, bad)

\* The boundary of _process_command: what a command raised is told.
Bounded(w) == IF w.c.failed THEN Emit([w EXCEPT !.c.failed = FALSE], "error") ELSE w
-----------------------------------------------------------------------------
(* Outputs of the runtime *)

\* Mutant: every report is one of the project that was submitted.
HandleLoadedAsNew(w, m, bad) ==
  LET loaded == IF w.c.pending = NoBundle THEN w
                ELSE [w EXCEPT !.c.bundle = w.c.pending, !.c.pending = NoBundle,
                               !.c.due = ~w.c.pending.full, !.c.taken = FALSE]
      published == Publish(loaded, m, TRUE, bad)
  IN IF published.c.update.stage = "prepare" /\ published.c.update.automatic
     THEN [published EXCEPT !.c.start = TRUE]
     ELSE BeginPreferences(published)

\* _handle_project_report: the report of a reload, or of the project submitted.
HandleLoaded(w, m, bad) ==
  LET reloaded == [w EXCEPT !.c.bundle = w.c.candidate, !.c.candidate = NoBundle, !.c.reload = 0,
                            !.c.due = FALSE, !.c.taken = FALSE]
      loaded == IF w.c.pending = NoBundle THEN w
                ELSE [w EXCEPT !.c.bundle = w.c.pending, !.c.pending = NoBundle,
                               !.c.due = ~w.c.pending.full, !.c.taken = FALSE]
      published == Publish(loaded, m, TRUE, bad)
  IN IF w.c.candidate # NoBundle /\ m.bundle.rev = w.c.candidate.rev
     THEN Publish(reloaded, m, TRUE, bad)
     ELSE IF published.c.update.stage = "prepare" /\ published.c.update.automatic
     THEN [published EXCEPT !.c.start = TRUE]
     ELSE BeginPreferences(published)

HandleLoadFailed(w) ==
  Emit([w EXCEPT !.c.candidate = NoBundle, !.c.reload = 0], "runtime_error")

HandleNeedsSource(w) ==
  IF w.c.pending = NoBundle THEN Emit(w, "error") ELSE Submit(Materialize(w), 0)

\* Mutant: preferences that were refused hold up the start.
HandleRejectedStop(w, m) ==
  IF m.id = w.c.preferences.id
  THEN [w EXCEPT !.c.preferences = NoPreferences]
  ELSE Emit(w, "runtime_error")

\* _handle_command_rejection
HandleRejected(w, m) ==
  LET u == w.c.update
      dropped == [w EXCEPT !.c.update = NoUpdate, !.c.torn = @ \/ u.automatic \/ u.commit]
      withdrawn == IF u.automatic
                   THEN Emit([dropped EXCEPT !.c.start = FALSE, !.c.snapshot = NoSnapshot], "error")
                   ELSE dropped
      unchanged == [w EXCEPT !.c.preferences = NoPreferences]
  IN CASE m.id = w.c.compatibility -> Emit([w EXCEPT !.c.compatibility = 0], "runtime_error")
       [] m.id = w.c.reload -> [w EXCEPT !.c.candidate = NoBundle, !.c.reload = 0]
       [] m.id = u.id -> Emit(withdrawn, "save_failed")
       [] m.id = w.c.preferences.id ->
            IF w.c.preferences.start THEN Start(unchanged)
            ELSE IF w.c.preferences.save THEN Emit(unchanged, "preferences_failed") ELSE unchanged
       [] OTHER -> Emit(w, "runtime_error")

\* _handle_runtime.  A session that was reset meanwhile answers out of order.
Handle(w, m, bad) ==
  CASE w.c.reset -> Raise(w)
    [] ~w.c.reset /\ m.tag = "welcome" -> Resolve(w)
    [] ~w.c.reset /\ m.tag = "resolved" -> HandleResolved(w, m, bad)
    [] ~w.c.reset /\ m.tag = "needs_source" -> HandleNeedsSource(w)
    [] ~w.c.reset /\ m.tag = "loaded" -> HandleLoaded(w, m, bad)
    [] ~w.c.reset /\ m.tag = "load_failed" -> HandleLoadFailed(w)
    [] ~w.c.reset /\ m.tag = "prepared" -> HandlePrepared(w, m, bad)
    [] ~w.c.reset /\ m.tag = "committed" -> HandleCommitted(w, m, bad)
    [] ~w.c.reset /\ m.tag = "applied" -> HandleApplied(w, m)
    [] ~w.c.reset /\ m.tag = "rejected" -> HandleRejected(w, m)
    [] ~w.c.reset /\ m.tag = "unwelcome" -> Emit(w, "runtime_error")
    [] ~w.c.reset /\ m.tag = "phase" -> Emit(w, "phase")
-----------------------------------------------------------------------------
(* The worker: the project it was started with, then commands, drive, poll *)

World == [c |-> client, d |-> disk, s |-> session]
Operations == {"none"} \cup (IF left.failures > 0 THEN Failures ELSE {})

\* What an exception that reaches run() leaves: abi.close, _reset_wire_state
WindUp(w) ==
  [ResetWire(w) EXCEPT !.c.events = Append(@, "error"), !.c.failed = FALSE, !.c.reset = TRUE,
                       !.c.destroy = FALSE, !.s = Closed]

Continue(w, next) ==
  \E after \in {IF w.c.failed THEN WindUp(w) ELSE w} :
    /\ client' = after.c /\ disk' = after.d /\ session' = after.s
    /\ pc' = IF w.c.failed THEN "closed" ELSE next
    /\ commands' = IF w.c.failed THEN <<>> ELSE IF pc = "commands" THEN Tail(commands) ELSE commands

\* One of the operations of a step may fail.
Attempt(Step(_), next) ==
  \E bad \in Operations : \E w \in {Step(bad)} :
    /\ bad = "none" \/ w # Step("none")
    /\ Continue(w, next)
    /\ left' = [left EXCEPT !.failures = IF bad = "none" THEN @ ELSE @ - 1]

StartUp ==
  /\ pc = "start"
  /\ Attempt(LAMBDA bad : Load(World, bad), "commands")
  /\ UNCHANGED app

ProcessCommand ==
  /\ pc = "commands" /\ commands # <<>>
  /\ Attempt(LAMBDA bad : Bounded(Process(World, Head(commands), bad)), "commands")
  /\ UNCHANGED app

\* can_pump: without a session the worker only waits for commands.
BeginPump ==
  /\ pc = "commands" /\ commands = <<>> /\ ~client.reset /\ session.inbox # <<>>
  /\ pc' = "driving"
  /\ UNCHANGED <<client, disk, session, app, commands, left>>

EndDrive ==
  /\ pc = "driving" /\ session.inbox = <<>> /\ pc' = "polling"
  /\ UNCHANGED <<client, disk, session, app, commands, left>>

\* poll gives an output.  When it leads to write_configuration, the file is read and
\* compared before it is replaced, and another program may write in between.
TakeOutput ==
  /\ pc = "polling" /\ session.outbox # <<>> /\ pc' = "handling"
  /\ disk' = [disk EXCEPT !.seen = disk.conf]
  /\ UNCHANGED <<client, session, app, commands, left>>

HandleOutput ==
  /\ pc = "handling" /\ session.outbox # <<>>
  /\ Attempt(LAMBDA bad : Handle([World EXCEPT !.s.outbox = Tail(@)], Head(session.outbox), bad),
             "polling")
  /\ UNCHANGED app

\* poll fails without a session.
EndPoll ==
  /\ pc = "polling" /\ session.outbox = <<>>
  /\ Continue(IF session.open THEN World ELSE Raise(World), "commands")
  /\ UNCHANGED <<app, left>>

Worker == StartUp \/ ProcessCommand \/ BeginPump \/ EndDrive \/ TakeOutput \/ HandleOutput \/ EndPoll
-----------------------------------------------------------------------------
(* The runtime, inside drive *)

Answer(s, m) == session' = [s EXCEPT !.inbox = Tail(@), !.outbox = Append(@, m)]
Refuse(m) ==
  /\ left.refusals > 0 /\ left' = [left EXCEPT !.refusals = @ - 1]
  /\ Answer(session, m)

\* A configuration with what the runtime generated from a legacy one, 0.
Profile(tag, m, conf) ==
  [Message(tag, m.id) EXCEPT !.bundle = m.bundle, !.conf = conf, !.contents = IF conf = 0 THEN 1 ELSE 0]

RtCompile(m) ==
  IF m.bundle.full \/ m.contents = m.bundle.sources
  THEN Answer([session EXCEPT !.compiled = m.bundle.sources, !.conf = m.bundle.conf],
              Profile("loaded", m, m.bundle.conf))
  ELSE Answer(session, Message("needs_source", m.id))

\* The configuration is replaced, or only what was generated is confirmed.
RtPrepare(m) ==
  LET contents == IF session.conf = 0 THEN 1
                  ELSE 1 + Cardinality(disk.written \cup {session.conf, 0}) IN
  IF m.conf # session.conf THEN Answer(session, Message("rejected", m.id))
  ELSE Answer([session EXCEPT !.next = contents],
              [Message("prepared", m.id) EXCEPT !.conf = m.conf, !.contents = contents])

RtFinalize(m) ==
  LET conf == IF m.contents = 1 THEN session.next ELSE session.conf IN
  Answer([session EXCEPT !.conf = conf, !.next = 0], Profile("committed", m, conf))

RtConsume ==
  /\ pc = "driving" /\ session.inbox # <<>>
  /\ LET m == Head(session.inbox) IN
     \/ /\ CASE m.tag = "hello" -> Answer(session, Message("welcome", m.id))
             [] m.tag = "resolve" -> Answer(session, Message("resolved", m.id))
             [] m.tag = "project" -> RtCompile(m)
             [] m.tag = "reload" ->
                  IF session.compiled = 0 THEN Answer(session, Message("rejected", m.id)) ELSE RtCompile(m)
             [] m.tag = "prepare" -> RtPrepare(m)
             [] m.tag = "finalize" -> RtFinalize(m)
             [] m.tag = "preferences" -> Answer(session, Profile("applied", m, session.conf))
             [] m.tag = "start" -> Answer([session EXCEPT !.starts = @ + 1], Message("phase", m.id))
        /\ UNCHANGED left
     \/ /\ m.tag = "hello" /\ Refuse(Message("unwelcome", m.id))
     \/ /\ m.tag \in {"project", "reload"} /\ Refuse([Message("load_failed", m.id) EXCEPT !.bundle = m.bundle])
     \/ /\ m.tag # "hello" /\ Refuse(Message("rejected", m.id))
  /\ UNCHANGED <<client, disk, app, commands, pc>>
-----------------------------------------------------------------------------
(* The app and the world around it *)

Quiet ==
  /\ pc = "commands" /\ commands = <<>> /\ client.events = <<>>
  /\ session.inbox = <<>> /\ session.outbox = <<>>

\* The menu needs a game (GAME_READY_PHASES), the settings a configuration; the
\* preferences are always there; a dialog that is busy covers the menu.
\* restart_recompile is offered by the fatal dialog.
Offered(move) ==
  /\ app.busy = "none"
  /\ move # "preferences" => app.ready
  /\ move \in {"save", "save_and_restart"} => app.snapshot
  /\ move = "reload" => ~(Careful /\ ~Quiet)
  /\ move = "preferences" => ~(Careful /\ (app.waiting \/ ~Quiet))

Choose ==
  \E move \in Moves :
    /\ pc = "commands" /\ left.moves > 0 /\ Offered(move)
    /\ left' = [left EXCEPT !.moves = @ - 1]
    /\ commands' = Append(commands, move)
    /\ app' = [app EXCEPT !.busy = CASE move \in {"save", "save_and_restart"} -> "settings"
                                     [] move = "preferences" -> "preferences"
                                     [] OTHER -> @]
    /\ UNCHANGED <<client, disk, session, pc>>

\* What ends the wait of ProjectSettingsDialog and PreferencesDialog.
Answers(dialog) ==
  IF dialog = "settings"
  THEN {"configuration", "save_failed", "session_applied", "saved_restarting", "error"}
  ELSE {"preferences_applied", "preferences_failed", "error"}

\* _handle_worker_event; the user waits for a project until he sees the game
\* or is told that there is none.
Shown(shown, event) ==
  [ready |-> event = "phase" \/ (shown.ready /\ event # "reset"),
   snapshot |-> event = "configuration" \/ (shown.snapshot /\ event \notin {"reset", "cleared"}),
   busy |-> IF event \in Answers(shown.busy) THEN "none" ELSE shown.busy,
   waiting |-> event = "cleared" \/ (shown.waiting /\ event \notin {"phase", "error", "runtime_error"})]

\* The drain of the events.  What the app does during a pump meets neither the
\* client nor the runtime: it is taken between pumps, as Choose is.
HandleEvents ==
  LET shown[n \in 0..Len(client.events)] ==
        IF n = 0 THEN app ELSE Shown(shown[n - 1], client.events[n])
  IN /\ pc \in {"commands", "closed"} /\ client.events # <<>>
     /\ app' = shown[Len(client.events)]
     /\ client' = [client EXCEPT !.events = <<>>]
     /\ UNCHANGED <<disk, session, commands, pc, left>>

\* Another program edits the project; the compiled cache keeps what it has.
Edit ==
  /\ left.edits > 0 /\ disk.project = "directory" /\ pc # "closed"
  /\ \/ /\ "sources" \in Edits
        /\ disk' = [disk EXCEPT !.sources = @ + 1]
     \/ /\ "configuration" \in Edits
        /\ disk' = [disk EXCEPT !.conf = 9]
  /\ left' = [left EXCEPT !.edits = @ - 1]
  /\ UNCHANGED <<client, session, app, commands, pc>>

\* Nothing to do, or the worker has ended and the app knows.
Stopped ==
  /\ pc \in {"commands", "closed"} /\ commands = <<>> /\ client.events = <<>>
  /\ client.reset \/ session.inbox = <<>>
  /\ UNCHANGED vars

Init ==
  /\ client = NewClient /\ session = NewSession
  /\ disk \in {[project |-> project, sources |-> 1, conf |-> conf, cache |-> cache, written |-> {conf},
             seen |-> conf] :
                 project \in Projects, conf \in {0, 1}, cache \in {0, 1}}
  /\ disk.project # "directory" => disk.cache = 0
  /\ app = [ready |-> FALSE, snapshot |-> FALSE, busy |-> "none", waiting |-> TRUE]
  /\ commands = <<>> /\ pc = "start"
  /\ left = [moves |-> MaxMoves, edits |-> MaxEdits, failures |-> MaxFailures, refusals |-> MaxRefusals]

Next == Worker \/ RtConsume \/ Choose \/ HandleEvents \/ Edit \/ Stopped

Spec == Init /\ [][Next]_vars

\* The worker loops, drive consumes its input, the app drains.  Weak fairness of
\* Worker and HandleEvents, with what enables them written out.
WorkerReady ==
  \/ pc \in {"start", "polling", "handling"}
  \/ pc = "commands" /\ (commands # <<>> \/ (~client.reset /\ session.inbox # <<>>))
  \/ pc = "driving" /\ session.inbox = <<>>
WorkerMoves ==
  pc' # pc \/ Len(commands') < Len(commands) \/ Len(session'.outbox) < Len(session.outbox)
AppReady == pc \in {"commands", "closed"} /\ client.events # <<>>

FairSpec ==
  /\ Spec /\ WF_vars(RtConsume)
  /\ []<>~WorkerReady \/ []<><<WorkerMoves>>_vars
  /\ []<>~AppReady \/ []<><<client'.events = <<>>>>_vars
-----------------------------------------------------------------------------
(* Properties *)

Bundles == [rev : 0..4, sources : 0..3, conf : 0..9, full : BOOLEAN]

TypeOK ==
  /\ {client.bundle, client.pending, client.candidate, client.update.candidate} \subseteq Bundles
  /\ client.update.stage \in {"none", "prepare", "finalize"}
  /\ {client.compatibility, client.reload, client.update.id, client.preferences.id} \subseteq 0..9
  /\ ~client.failed
  /\ session.compiled \in 0..3 /\ {session.conf, session.next, disk.conf} \subseteq 0..9
  /\ app.busy \in {"none", "settings", "preferences"}
  /\ pc \in {"start", "commands", "driving", "polling", "handling", "closed"}

\* Whatever step of a replacement fails, the client knows what it has: a live
\* session to pump, a handle still to be destroyed, or nothing
\* (begin_session_reset, abort_session_replacement, recreate).
HandleOwned ==
  pc # "closed" => /\ ~client.reset => session.open
                   /\ client.reset => (session.open <=> client.destroy)

\* A session starts its game once, and not while the migration of its
\* configuration is unconfirmed (pending_start_after_configuration).
StartSettled ==
  LET starting == {i \in DOMAIN session.inbox : session.inbox[i].tag = "start"} IN
  /\ session.starts + Cardinality(starting) <= 1
  /\ starting # {} => ~(client.update.automatic /\ client.update.stage = "prepare")

\* What is known of the project when no load, reload or update is under way.
Settled ==
  /\ client.bundle # NoBundle /\ client.candidate = NoBundle /\ session.compiled # 0
  /\ session.outbox = <<>> /\ \A m \in In(session.inbox) : m.tag # "project"

\* A reload compares the disk with what the runtime runs: the bundle holds the
\* sources the runtime compiled (reload_candidate), but for what a write of the
\* configuration takes into it (_write_configuration scans the whole project).
BaselineKept == Settled => client.bundle.sources = session.compiled
BaselineMatches == BaselineKept \/ client.taken

\* The configuration the runtime committed is the one of the bundle, and of the
\* file until another program edits it, unless an update failed after the file was
\* written, and the user was told (_handle_configuration_prepared writes, then
\* finalizes).  A read-only project has settings of the session only.
ConfigurationAgrees ==
  Settled /\ client.update = NoUpdate /\ disk.project # "read_only_file" /\ ~client.torn =>
    client.bundle.conf = session.conf /\ disk.conf \in {session.conf, 9}

\* What another program wrote into reraconfig.toml before the file was read and
\* compared is only replaced by a configuration made from it (the optimistic lock
\* of write_configuration); what it writes between that and os.replace is lost.
ForeignEditKept ==
  [][disk.conf = 9 /\ disk'.conf # 9 => session.conf = 9 \/ disk.seen # 9]_vars

\* Everyone who waits for a project sees the game or is told why not.
LoadSettles == app.waiting ~> ~app.waiting

\* A dialog that saves is answered, whatever fails or is refused.
SaveAnswered == (app.busy # "none") ~> (app.busy = "none")

\* The copies of a project agree where they must: the bundle with the sources
\* the runtime compiled, the runtime's configuration with the bundle and the file.
CopiesAgree == BaselineMatches /\ ConfigurationAgrees

\* Nobody who asked for a project or for a setting waits for ever.
RequestsAnswered == LoadSettles /\ SaveAnswered
=============================================================================
