---------------------------- MODULE StateTransfer ----------------------------
(***************************************************************************)
(* Exports, imports and the diagnosis archive (runtime_transfer.py,        *)
(* runtime_export.py, the transfer part of runtime_rejections.py), driven  *)
(* by the commands of the app (app_menu.py, worker.py) and answered by the *)
(* runtime.  The client has room for one export, one import, one project   *)
(* file export and one diagnosis; each owns files that must not survive    *)
(* it.  A diagnosis is three exports and an import in a row; the compiled  *)
(* cache is exported in the background whenever nothing else is.           *)
(* The worker alternates between commands and pumps: the runtime consumes  *)
(* everything submitted (drive), the client handles every output (poll),   *)
(* then maybe_refresh_compiled_cache looks once for postponed work.        *)
(* Left out: contents, offsets and digests (a write or a finish may fail), *)
(* progress, and the state restored by an import.                          *)
(***************************************************************************)
EXTENDS Naturals, Sequences, FiniteSets

CONSTANTS
  Jobs,          \* what the user exports: snapshot, replay, project, diagnosis
  Moves,         \* what else he does: cancel, title, restart, restore
  Packaged,      \* TRUE: a project file is played, else a directory
  DiskFailures,  \* disk operations that may fail: open, write, finish, manifest, folder,
                 \* archive
  Careful,       \* TRUE: the user exports no state while the cache is written, nothing
                 \* before the app knows the end of what he cancelled or left, and
                 \* nothing while a file is imported
  MaxChunks,     \* bound: chunks of an export
  MaxActions, MaxRejects, MaxFailures, MaxFaults  \* bounds

ASSUME TransferAssumption ==
  /\ Jobs \subseteq {"snapshot", "replay", "project", "diagnosis"}
  /\ Moves \subseteq {"cancel", "title", "restart", "restore"}
  /\ {Packaged, Careful} \subseteq BOOLEAN
  /\ DiskFailures \subseteq {"open", "write", "finish", "manifest", "folder", "archive"}
  /\ {MaxActions, MaxRejects, MaxFailures, MaxFaults} \subseteq Nat
  /\ MaxChunks \in Nat \ {0}

VARIABLES
  client,    \* RuntimeClient, with the messages and events it has under way
  app,       \* the *_exporting flags and the fatal dialog of RustyEraTui
  commands,  \* RuntimeWorker.commands
  open,      \* exports the runtime holds open, each with the chunks left
  pc,        \* where run() is
  left       \* what is left of the bounds

vars == <<client, app, commands, open, pc, left>>

Manual == {"snapshot", "replay"}
DiagnosisStages == {"diagnosis_replay", "diagnosis_snapshot", "diagnosis_project"}
Stages == Manual \cup {"cache", "project"} \cup DiagnosisStages
Kinds == {"snapshot", "cache", "project", "replay"}

\* RUNTIME_EXPORT_KIND
Kind(stage) ==
  CASE stage \in {"snapshot", "diagnosis_snapshot"} -> "snapshot"
    [] stage \in {"replay", "diagnosis_replay"} -> "replay"
    [] stage \in {"project", "diagnosis_project"} -> "project"
    [] stage = "cache" -> "cache"

\* None of pending_export, full_project_export, pending_diagnosis, pending_import.
\* A file, a message id or a transfer id 0 stands for None as well.
NoExport == [stage |-> "none", file |-> 0, message |-> 0, transfer |-> 0]
NoProject == [file |-> 0, waiting |-> FALSE]
NoDiagnosis == [stage |-> "none", folder |-> 0, parts |-> {}, waiting |-> FALSE]
NoImport == [purpose |-> "none", file |-> 0, begin |-> 0, transfer |-> 0, commit |-> 0]
\* cache_refresh_pending, now < cache_refresh_after_ns, cache_preparation_started
NoCache == [due |-> FALSE, waiting |-> FALSE, prepared |-> FALSE]

NewClient == [export |-> NoExport, project |-> NoProject, diagnosis |-> NoDiagnosis,
              import |-> NoImport, cache |-> NoCache, files |-> {}, sent |-> <<>>,
              polled |-> <<>>, events |-> <<>>, failed |-> FALSE]

Message(tag, id, kind, transfer) ==
  [tag |-> tag, id |-> id, kind |-> kind, transfer |-> transfer]

Fresh(used) == CHOOSE n \in 1..(Cardinality(used) + 1) : n \notin used /\ 1..(n - 1) \subseteq used

In(queue) == {queue[i] : i \in DOMAIN queue}
MessagesOf(c) == In(c.sent) \cup In(c.polled)
NewMessage(c) ==
  Fresh(({m.id : m \in MessagesOf(c)} \cup {c.export.message, c.import.begin, c.import.commit})
          \ {0})
-----------------------------------------------------------------------------
(* What the operations of the client are made of: each maps a client to a  *)
(* client.                                                                 *)

Emit(c, event) == [c EXCEPT !.events = Append(@, event)]
Tell(c, tag, kind, transfer) == [c EXCEPT !.sent = Append(@, Message(tag, 0, kind, transfer))]
Raise(c) == [c EXCEPT !.failed = TRUE]

Remove(c, ids) == [c EXCEPT !.files = {f \in @ : f.id \notin ids}]
NewFile(c) == Fresh({f.id : f \in c.files})
Create(c, folder) == [c EXCEPT !.files = @ \cup {[id |-> NewFile(c), folder |-> folder]}]

\* Mutant: pending_export is forgotten without cancel().
ForgetsFile(c) == [c EXCEPT !.export = NoExport]

\* pending_export.cancel(); pending_export = None
DropExport(c) == [Remove(c, {c.export.file}) EXCEPT !.export = NoExport]

\* Submit the request of the export in pending_export.
Ask(c) ==
  LET id == NewMessage(c) IN
  [c EXCEPT !.export.message = id,
            !.sent = Append(@, Message("export", id, Kind(c.export.stage), 0))]

\* _PendingExport.open, then the request
Request(c, stage, folder) ==
  Ask([Create(c, folder) EXCEPT !.export = [NoExport EXCEPT !.stage = stage, !.file = NewFile(c)]])

\* _request_project_file_export
RequestProject(c) ==
  IF c.project = NoProject THEN c
  ELSE Ask([c EXCEPT !.export = [NoExport EXCEPT !.stage = "project", !.file = c.project.file]])

\* _clear_pending_import and _cancel_pending_import
ClearImport(c) == [Remove(c, {c.import.file}) EXCEPT !.import = NoImport]
CancelImport(c) ==
  IF c.import.transfer = 0 THEN ClearImport(c)
  ELSE Tell(ClearImport(c), "release", "none", c.import.transfer)

\* write_full_manifest_temp: the manifest is a temporary file of its own.
StageManifest(c) == Create(c, 0)

\* _begin_file_import
BeginImport(c, purpose) ==
  LET staged == IF purpose = "restore" THEN c ELSE StageManifest(c)
      cleared == CancelImport(staged)
      id == NewMessage(cleared)
  IN [cleared EXCEPT
        !.import = [NoImport EXCEPT !.purpose = purpose, !.begin = id,
                    !.file = IF purpose = "restore" THEN 0 ELSE NewFile(c)],
        !.sent = Append(@, Message("begin", id, "none", 0))]

\* DiagnosisExport.cleanup: the folder goes when it is empty.
Cleanup(c) ==
  LET d == c.diagnosis
      cleared == Remove(c, d.parts)
      folder == IF \E f \in cleared.files : f.folder = d.folder /\ d.folder # 0
                THEN {} ELSE {d.folder}
  IN [Remove(cleared, folder) EXCEPT !.diagnosis = NoDiagnosis]

\* _finish_cache_export, _finish_project_file_export, _finish_diagnosis_export
FinishCache(c) == [DropExport(c) EXCEPT !.cache.prepared = FALSE]

FinishProject(c, success) ==
  LET settled == IF success THEN c ELSE Remove(CancelImport(c), {c.project.file})
  IN Emit([DropExport(settled) EXCEPT !.project = NoProject], "project")

FinishDiagnosis(c, success) ==
  LET cancelled == CancelImport(c)
      told == IF c.export.transfer # 0
              THEN Tell(cancelled, "release", "none", c.export.transfer)
              ELSE IF c.export.stage \in DiagnosisStages
                   THEN Tell(cancelled, "cancel", Kind(c.export.stage), 0)
                   ELSE cancelled
  IN Emit(Cleanup(DropExport(IF success THEN c ELSE told)), "diagnosis")

\* Postpone a refresh of the cache.
Reschedule(c) == [c EXCEPT !.cache.due = TRUE, !.cache.waiting = TRUE]

\* run() catches what a handler raised, winds up and resets the client.
WindUp(c) ==
  LET projectEnded == IF c.project = NoProject THEN c ELSE FinishProject(c, FALSE)
      cacheEnded == IF projectEnded.export.stage = "cache" THEN FinishCache(projectEnded)
                    ELSE projectEnded
      diagnosisEnded == IF cacheEnded.diagnosis = NoDiagnosis THEN cacheEnded
                        ELSE FinishDiagnosis(cacheEnded, FALSE)
  IN [Cleanup(DropExport(ClearImport(diagnosisEnded))) EXCEPT
        !.events = Append(@, "stopped"), !.project = NoProject, !.cache = NoCache,
        !.sent = <<>>, !.polled = <<>>]
-----------------------------------------------------------------------------
(* The steps of a diagnosis *)

\* The export of a part of a diagnosis.
Part(stage) == IF stage = "replay" THEN "diagnosis_replay" ELSE "diagnosis_snapshot"

\* Mutant: the stage of the diagnosis is that of its export.
StartPartByExport(c, stage, disk) ==
  LET staged == [c EXCEPT !.diagnosis.stage = Part(stage)] IN
  IF disk = "open" THEN Raise(staged)
  ELSE Request(staged, Part(stage), c.diagnosis.folder)

\* _start_diagnosis_replay_export, _start_diagnosis_snapshot_export
StartPart(c, stage, disk) ==
  LET staged == [c EXCEPT !.diagnosis.stage = stage] IN
  IF disk = "open" THEN Raise(staged)
  ELSE Request(staged, Part(stage), c.diagnosis.folder)

\* _request_diagnosis_project_export
RequestDiagnosisProject(c, disk) ==
  IF c.diagnosis = NoDiagnosis THEN c
  ELSE IF disk = "open" THEN Raise(c)
  ELSE Request(c, "diagnosis_project", c.diagnosis.folder)

\* _start_diagnosis_project_export
StartDiagnosisProject(c, disk) ==
  LET staged == [c EXCEPT !.diagnosis.stage = "project"] IN
  IF Packaged
  THEN IF disk = "open" THEN FinishDiagnosis(staged, FALSE)
       ELSE RequestDiagnosisProject(staged, disk)
  ELSE IF disk = "manifest" THEN FinishDiagnosis(staged, FALSE)
       ELSE BeginImport(staged, "diagnosis")
-----------------------------------------------------------------------------
(* Commands of the app: RuntimeWorker._process_command, whose boundary turns *)
(* an exception into the end of the export it started.                      *)

\* export_snapshot, export_input_replay
ManualExport(c, stage, disk) ==
  IF c.export # NoExport \/ disk = "open"
  THEN Emit(DropExport(c), stage)
  ELSE Request(c, stage, 0)

\* export_project_file: it may overtake the cache.
ExportProject(c, disk) ==
  LET ready == IF c.export.stage = "cache" \/ c.cache.prepared
               THEN Reschedule([DropExport(Tell(c, "cancel", "cache", 0)) EXCEPT
                                  !.cache.prepared = FALSE])
               ELSE c
      begun == [Create(ready, 0) EXCEPT !.project = [NoProject EXCEPT !.file = NewFile(ready)]]
  IN CASE disk = "open" -> FinishProject(ready, FALSE)
       [] disk = "manifest" /\ ~Packaged -> FinishProject(FinishProject(begun, FALSE), FALSE)
       [] OTHER -> IF Packaged THEN RequestProject(begun) ELSE BeginImport(begun, "project")

\* Mutant: the runtime is not told of the cancellation.
CancelProjectHere(c) ==
  IF c.export.stage # "project" /\ c.project = NoProject THEN c ELSE FinishProject(c, FALSE)

\* cancel_project_file_export
CancelProject(c) ==
  IF c.export.stage # "project" /\ c.project = NoProject THEN c
  ELSE FinishProject(Tell(c, "cancel", "project", 0), FALSE)

\* export_diagnosis: another export is waited for.
ExportDiagnosis(c, disk) ==
  LET begun == [Create(c, 0) EXCEPT
                  !.diagnosis = [NoDiagnosis EXCEPT !.stage = "export_wait", !.folder = NewFile(c)]]
  IN IF c.diagnosis # NoDiagnosis \/ disk = "folder" THEN FinishDiagnosis(c, FALSE)
     ELSE IF c.export # NoExport THEN begun
     ELSE IF disk = "open" THEN FinishDiagnosis(FinishDiagnosis(begun, FALSE), FALSE)
     ELSE StartPart(begun, "replay", disk)

\* _retire_transfers_for_game_transition
EndedBy(c) ==
  IF c.export.stage \in Manual THEN <<c.export.stage>>
  ELSE IF c.export.stage = "project" \/ c.project # NoProject THEN <<"project">>
  ELSE IF c.export.stage \in DiagnosisStages \/ c.diagnosis # NoDiagnosis THEN <<"diagnosis">>
  ELSE <<>>

RetiredFiles(c) == Remove(ClearImport(DropExport(c)), {c.project.file})

Retire(c) ==
  LET cleaned == Cleanup(RetiredFiles(c))
      rescheduled == IF c.export.stage = "cache" THEN Reschedule(cleaned) ELSE cleaned
  IN [rescheduled EXCEPT !.project = NoProject, !.cache.prepared = FALSE,
                         !.events = @ \o EndedBy(c)]

\* Submit a command that replaces the game, then begin_game_state_transition.
Transition(c) == Emit(Retire(Tell(c, "transition", "none", 0)), "reset")

\* begin_session_reset: everything goes, silently; the app resets itself.
ResetSession(c) ==
  [NewClient EXCEPT !.events = Append(c.events, "reset"),
                    !.files = Cleanup(RetiredFiles(c)).files]

Process(c, command, disk) ==
  CASE command \in Manual -> ManualExport(c, command, disk)
    [] command = "project" -> ExportProject(c, disk)
    [] command = "cancel" -> CancelProject(c)
    [] command = "diagnosis" -> ExportDiagnosis(c, disk)
    [] command = "restore" -> BeginImport(c, "restore")
    [] command = "title" -> Transition(c)
    [] command = "restart" -> ResetSession(c)
-----------------------------------------------------------------------------
(* Outputs of the runtime *)

\* _fail_mismatched_export
Mismatch(c) ==
  IF c.export.stage \in DiagnosisStages THEN FinishDiagnosis(c, FALSE)
  ELSE Raise(DropExport(c))

\* Mutant: nobody is told of the end of a snapshot or a replay.
FailQuietly(c) ==
  CASE c.export.stage = "cache" -> FinishCache(DropExport(c))
    [] c.export.stage = "project" -> FinishProject(DropExport(c), FALSE)
    [] c.export.stage \in DiagnosisStages -> FinishDiagnosis(DropExport(c), FALSE)
    [] c.export.stage \in Manual -> DropExport(c)

\* The end of an export that produced nothing, by its stage.
Fail(c) ==
  CASE c.export.stage = "cache" -> FinishCache(DropExport(c))
    [] c.export.stage = "project" -> FinishProject(DropExport(c), FALSE)
    [] c.export.stage \in DiagnosisStages -> FinishDiagnosis(DropExport(c), FALSE)
    [] c.export.stage \in Manual -> Emit(DropExport(c), c.export.stage)

\* _handle_export_ready
Expected(c, m) ==
  /\ c.export.message = 0 \/ m.id = c.export.message
  /\ m.kind = Kind(c.export.stage)

HandleReady(c, m) ==
  CASE c.export = NoExport -> c
    [] c.export # NoExport /\ ~Expected(c, m) -> Mismatch(c)
    [] c.export # NoExport /\ Expected(c, m) ->
         IF m.tag = "ineligible" THEN Fail(c)
         ELSE Tell([c EXCEPT !.export.message = 0, !.export.transfer = m.transfer],
                   "read", "none", m.transfer)

\* write_diagnosis_archive: a complete archive, or nothing of it.
Archived(disk) == disk # "archive"

\* The last chunk of an export: what the finished file is for.
Complete(c, disk) ==
  LET done == [Remove(c, {c.export.file}) EXCEPT !.export = NoExport]
      part == [c EXCEPT !.export = NoExport, !.diagnosis.parts = @ \cup {c.export.file}]
  IN CASE c.export.stage = "cache" -> FinishCache(done)
       [] c.export.stage = "project" ->
            IF c.project = NoProject THEN Raise(done) ELSE FinishProject(done, TRUE)
       [] c.export.stage \in Manual -> Emit(done, c.export.stage)
       [] c.export.stage = "diagnosis_replay" -> StartPart(part, "snapshot", disk)
       [] c.export.stage = "diagnosis_snapshot" -> StartDiagnosisProject(part, disk)
       [] c.export.stage = "diagnosis_project" -> FinishDiagnosis(part, Archived(disk))

\* Mutant: a chunk of an export that was given up is an error.
HandleChunkStrictly(c, m, disk) ==
  IF c.export.transfer = 0 \/ c.export.transfer # m.transfer THEN Raise(c)
  ELSE IF m.tag = "chunk" THEN Tell(c, "read", "none", m.transfer) ELSE Complete(c, disk)

\* _handle_export_chunk
HandleChunk(c, m, disk) ==
  CASE c.export = NoExport -> c
    [] c.export # NoExport /\ (c.export.transfer = 0 \/ c.export.transfer # m.transfer) ->
         IF c.export.stage \in DiagnosisStages THEN FinishDiagnosis(c, FALSE) ELSE Raise(c)
    [] c.export # NoExport /\ c.export.transfer = m.transfer /\ m.transfer # 0 ->
         IF disk = "write" THEN Raise(c)
         ELSE IF m.tag = "chunk" THEN Tell(c, "read", "none", m.transfer)
         ELSE IF disk # "finish" THEN Complete(c, disk)
         ELSE IF c.export.stage \in DiagnosisStages THEN FinishDiagnosis(c, FALSE)
         ELSE Raise(DropExport(c))

\* _fail_pending_import
FailImport(c) ==
  CASE c.import.purpose = "project" -> FinishProject(CancelImport(c), FALSE)
    [] c.import.purpose = "diagnosis" -> FinishDiagnosis(CancelImport(c), FALSE)
    [] c.import.purpose = "restore" -> CancelImport(c)

\* _handle_import_accepted: all chunks and the commit go at once.
HandleAccepted(c, m, disk) ==
  LET id == NewMessage(c) IN
  IF c.import = NoImport \/ m.id # c.import.begin
  THEN Tell(c, "release", "none", m.transfer)
  ELSE IF c.import.transfer # 0 THEN c
  ELSE IF disk = "open" THEN FailImport([c EXCEPT !.import.transfer = m.transfer])
  ELSE [Remove(c, {c.import.file}) EXCEPT
          !.import = [@ EXCEPT !.transfer = m.transfer, !.file = 0, !.commit = id],
          !.sent = Append(@, Message("commit", id, "none", m.transfer))]

\* _handle_import_ready
ImportMatches(c, m) ==
  /\ c.import # NoImport
  /\ m.transfer = c.import.transfer /\ m.id = c.import.commit

HandleImported(c, m, disk) ==
  IF ~ImportMatches(c, m) THEN c
  ELSE CASE c.import.purpose = "project" -> ClearImport(RequestProject(c))
         [] c.import.purpose = "diagnosis" -> ClearImport(RequestDiagnosisProject(c, disk))
         [] c.import.purpose = "restore" -> Transition(ClearImport(c))

\* _handle_command_rejection.  InvalidState means: the runtime is not ready yet.
HandleRejected(c, m) ==
  LET stage == IF c.export.message # 0 /\ m.id = c.export.message THEN c.export.stage ELSE "none"
      invalid == m.tag = "invalid_state"
      dropped == DropExport(c)
  IN IF c.import # NoImport /\ m.id \in {c.import.begin, c.import.commit} \ {0}
     THEN FailImport(c)
     ELSE CASE stage = "cache" -> IF invalid THEN Reschedule(dropped) ELSE FinishCache(dropped)
            [] stage \in DiagnosisStages ->
                 IF stage = "diagnosis_project" /\ invalid /\ c.diagnosis # NoDiagnosis
                 THEN [dropped EXCEPT !.diagnosis.stage = "project_wait",
                                      !.diagnosis.waiting = TRUE]
                 ELSE FinishDiagnosis(dropped, FALSE)
            [] stage \in Manual -> Emit(dropped, stage)
            \* The stream of a project file is kept for the next attempt.
            [] stage = "project" ->
                 IF invalid
                 THEN [c EXCEPT !.export = NoExport,
                                !.project.waiting = (@ \/ c.project # NoProject)]
                 ELSE FinishProject([c EXCEPT !.export = NoExport], FALSE)
            [] OTHER -> c

\* A fault of the game (tag 92).
HandleFault(c) == Emit(ClearImport(c), "fault")

Handle(c, m, disk) ==
  CASE m.tag \in {"ready", "ineligible"} -> HandleReady(c, m)
    [] m.tag \in {"chunk", "last_chunk"} -> HandleChunk(c, m, disk)
    [] m.tag = "accepted" -> HandleAccepted(c, m, disk)
    [] m.tag = "imported" -> HandleImported(c, m, disk)
    [] m.tag \in {"rejected", "invalid_state"} -> HandleRejected(c, m)
    [] m.tag = "fault" -> HandleFault(c)

\* Mutant: a diagnosis that waited for its turn is not taken up again.
RefreshCacheOnly(c, disk) ==
  IF c.project # NoProject
  THEN IF c.import = NoImport /\ c.export = NoExport /\ ~c.project.waiting
       THEN RequestProject(c) ELSE c
  ELSE IF ~(c.cache.due /\ c.export = NoExport /\ ~c.cache.waiting) \/ c.diagnosis # NoDiagnosis
  THEN c
  ELSE LET begun == [c EXCEPT !.cache.due = FALSE] IN
       IF disk = "open" THEN Raise(begun)
       ELSE Request([begun EXCEPT !.cache.prepared = TRUE], "cache", 0)

\* maybe_refresh_compiled_cache, and _refresh_compiled_cache
Refresh(c, disk) ==
  LET idle == c.export = NoExport IN
  CASE c.project # NoProject ->
         IF c.import = NoImport /\ idle /\ ~c.project.waiting THEN RequestProject(c) ELSE c
    [] c.project = NoProject /\ c.diagnosis # NoDiagnosis ->
         IF c.diagnosis.stage = "export_wait" /\ idle THEN StartPart(c, "replay", disk)
         ELSE IF c.diagnosis.stage = "project_wait" /\ idle /\ ~c.diagnosis.waiting
              THEN RequestDiagnosisProject(c, disk) ELSE c
    [] c.project = NoProject /\ c.diagnosis = NoDiagnosis ->
         IF ~(c.cache.due /\ idle /\ ~c.cache.waiting) THEN c
         ELSE LET begun == [c EXCEPT !.cache.due = FALSE] IN
              IF disk = "open" THEN Raise(begun)
              ELSE Request([begun EXCEPT !.cache.prepared = TRUE], "cache", 0)
-----------------------------------------------------------------------------
(* The worker: commands, drive, poll, refresh, and again *)

\* A step of the worker whose disk operation may fail.
Disks == {"fine"} \cup (IF left.failures > 0 THEN DiskFailures ELSE {})
Spend(disk) == left' = [left EXCEPT !.failures = IF disk = "fine" THEN @ ELSE @ - 1]

\* What a step left of the client; an exception ends the worker.
Continue(c, next) ==
  IF c.failed THEN /\ client' = WindUp(c) /\ pc' = "closed"
              ELSE /\ client' = c /\ pc' = next

ProcessCommand ==
  /\ pc = "commands" /\ commands # <<>>
  /\ \E disk \in Disks : Continue(Process(client, Head(commands), disk), "commands") /\ Spend(disk)
  /\ commands' = Tail(commands)
  /\ open' = IF Head(commands) = "restart" THEN {} ELSE open
  /\ UNCHANGED app

BeginPump ==
  /\ pc = "commands" /\ commands = <<>> /\ pc' = "driving"
  /\ UNCHANGED <<client, app, commands, open, left>>

EndDrive ==
  /\ pc = "driving" /\ client.sent = <<>> /\ pc' = "polling"
  /\ UNCHANGED <<client, app, commands, open, left>>

HandleOutput ==
  /\ pc = "polling" /\ client.polled # <<>>
  /\ \E disk \in Disks :
       /\ Continue(Handle([client EXCEPT !.polled = Tail(@)], Head(client.polled), disk), "polling")
       /\ Spend(disk)
  /\ commands' = IF pc' = "closed" THEN <<>> ELSE commands
  /\ UNCHANGED <<app, open>>

EndPoll ==
  /\ pc = "polling" /\ client.polled = <<>> /\ pc' = "refreshing"
  /\ UNCHANGED <<client, app, commands, open, left>>

MaybeRefresh ==
  /\ pc = "refreshing"
  /\ \E disk \in Disks : Continue(Refresh(client, disk), "commands") /\ Spend(disk)
  /\ commands' = IF pc' = "closed" THEN <<>> ELSE commands
  /\ UNCHANGED <<app, open>>

\* A retry or the delay of the cache comes due: not in the pump that set it, they
\* are longer than a pump.
TimePasses ==
  /\ pc = "commands"
  /\ \/ client.project.waiting \/ client.diagnosis.waiting \/ client.cache.waiting
  /\ client' = [client EXCEPT !.project.waiting = FALSE, !.diagnosis.waiting = FALSE,
                              !.cache.waiting = FALSE]
  /\ UNCHANGED <<app, commands, open, pc, left>>

\* defer_compiled_cache_refresh: the player acts before the cache is due.
Defer ==
  /\ pc = "commands" /\ client.cache.due /\ ~client.cache.waiting
  /\ client' = [client EXCEPT !.cache.waiting = TRUE]
  /\ UNCHANGED <<app, commands, open, pc, left>>

Worker == ProcessCommand \/ BeginPump \/ EndDrive \/ HandleOutput \/ EndPoll \/ MaybeRefresh
-----------------------------------------------------------------------------
(* The runtime, inside drive: it consumes one message after the other *)

Reply(messages, stillOpen) ==
  /\ client' = [client EXCEPT !.sent = Tail(@), !.polled = @ \o messages]
  /\ open' = stillOpen

Refuse ==
  /\ left.rejects > 0 /\ left' = [left EXCEPT !.rejects = @ - 1]

NewTransfer ==
  Fresh(({e.id : e \in open} \cup {m.transfer : m \in MessagesOf(client)}
          \cup {client.export.transfer, client.import.transfer}) \ {0})

RtExport(m) ==
  \/ \E chunks \in 1..MaxChunks :
       /\ Reply(<<Message("ready", m.id, m.kind, NewTransfer)>>,
                open \cup {[id |-> NewTransfer, kind |-> m.kind, chunks |-> chunks]})
       /\ UNCHANGED left
  \/ \E tag \in {"ineligible", "invalid_state", "rejected"} :
       Reply(<<Message(tag, m.id, m.kind, 0)>>, open) /\ Refuse

RtRead(m) ==
  /\ UNCHANGED left
  /\ \/ /\ \A e \in open : e.id # m.transfer
        /\ Reply(<<>>, open)
     \/ \E e \in open :
          /\ e.id = m.transfer
          /\ IF e.chunks = 1
             THEN Reply(<<Message("last_chunk", 0, e.kind, e.id)>>, open \ {e})
             ELSE Reply(<<Message("chunk", 0, e.kind, e.id)>>,
                        (open \ {e}) \cup {[e EXCEPT !.chunks = @ - 1]})

RtImport(m) ==
  \/ /\ Reply(<<IF m.tag = "begin" THEN Message("accepted", m.id, "none", NewTransfer)
                ELSE Message("imported", m.id, "none", m.transfer)>>, open)
     /\ UNCHANGED left
  \/ Reply(<<Message("rejected", m.id, "none", 0)>>, open) /\ Refuse

\* Releases, cancellations, and what a new game leaves of the old one.
RtClose(m) ==
  /\ Reply(<<>>, {e \in open : m.tag # "transition" /\ e.id # m.transfer /\ e.kind # m.kind})
  /\ UNCHANGED left

RtConsume ==
  /\ pc = "driving" /\ client.sent # <<>>
  /\ LET m == Head(client.sent) IN
       CASE m.tag = "export" -> RtExport(m)
         [] m.tag = "read" -> RtRead(m)
         [] m.tag \in {"begin", "commit"} -> RtImport(m)
         [] OTHER -> RtClose(m)
  /\ UNCHANGED <<app, commands, pc>>

\* The game fails; exports still work.
RtFault ==
  /\ pc = "driving" /\ left.faults > 0
  /\ client' = [client EXCEPT !.polled = Append(@, Message("fault", 0, "none", 0))]
  /\ left' = [left EXCEPT !.faults = @ - 1]
  /\ UNCHANGED <<app, commands, open, pc>>
-----------------------------------------------------------------------------
(* The app: the user's choices, and the events it handles *)

Choose(choice) ==
  /\ pc # "closed" /\ left.actions > 0
  /\ left' = [left EXCEPT !.actions = @ - 1]
  /\ commands' = Append(commands, choice)
  /\ UNCHANGED <<client, open, pc>>

\* _file_action: the menu is closed to him while anything is exported.
MenuOpen == app.flags = {} /\ ~app.fatal
Patient(job) ==
  /\ job \in Manual => client.export.stage # "cache" /\ ~client.cache.due
  /\ commands = <<>> /\ In(client.events) \cap {job, "reset"} = {}
  /\ client.import = NoImport

StartExport ==
  \E job \in Jobs \ {"diagnosis"} :
    /\ MenuOpen /\ (Careful => Patient(job))
    /\ Choose(job) /\ app' = [app EXCEPT !.flags = {job}]

\* From the help menu, which nothing but a dialog closes, or the fatal dialog.
StartDiagnosis ==
  /\ "diagnosis" \in Jobs \ app.flags /\ (Careful => Patient("diagnosis"))
  /\ app.fatal \/ "project" \notin app.flags
  /\ Choose("diagnosis") /\ app' = [app EXCEPT !.flags = @ \cup {"diagnosis"}]

\* _finish_project_file_progress_dialog
CancelExport ==
  /\ "cancel" \in Moves /\ "project" \in app.flags /\ ~app.fatal
  /\ Choose("cancel") /\ app' = [app EXCEPT !.flags = @ \ {"project"}]

\* Title, restart and restore from the menu; the fatal dialog offers the first
\* two unless a diagnosis is under way (on_fatal_error_dialog_action).
Leave ==
  \E move \in Moves \ {"cancel"} :
    /\ MenuOpen \/ (app.fatal /\ move # "restore" /\ "diagnosis" \notin app.flags)
    /\ Choose(move) /\ app' = [app EXCEPT !.fatal = FALSE]

Cleared(event) ==
  CASE event \in {"snapshot", "replay", "project", "diagnosis"} -> {event}
    [] event = "fault" -> Manual
    [] event = "stopped" -> Manual \cup {"diagnosis"}
    [] event = "reset" -> {"snapshot", "replay", "project", "diagnosis"}

HandleEvent ==
  /\ client.events # <<>>
  /\ LET event == Head(client.events) IN
       app' = [flags |-> app.flags \ Cleared(event),
               fatal |-> event = "fault" \/ (app.fatal /\ event # "reset")]
  /\ client' = [client EXCEPT !.events = Tail(@)]
  /\ UNCHANGED <<commands, open, pc, left>>

\* The worker has ended and the app knows.
Stopped == pc = "closed" /\ client.events = <<>> /\ UNCHANGED vars

Init ==
  /\ client \in {[NewClient EXCEPT !.cache.due = due] : due \in {FALSE, ~Packaged}}
  /\ app = [flags |-> {}, fatal |-> FALSE]
  /\ commands = <<>> /\ open = {} /\ pc = "commands"
  /\ left = [actions |-> MaxActions, rejects |-> MaxRejects, failures |-> MaxFailures,
             faults |-> MaxFaults]

Next ==
  \/ Worker \/ TimePasses \/ Defer \/ RtConsume \/ RtFault
  \/ StartExport \/ StartDiagnosis \/ CancelExport \/ Leave \/ HandleEvent \/ Stopped

Spec == Init /\ [][Next]_vars

\* The worker loops, drive consumes its input, the app drains, delays pass.
FairSpec == Spec /\ WF_vars(Worker) /\ WF_vars(RtConsume) /\ WF_vars(HandleEvent)
                 /\ SF_vars(TimePasses)
-----------------------------------------------------------------------------
(* Properties *)

Ids == 0..12
Purposes == {"project", "diagnosis", "restore"}

TypeOK ==
  /\ client.export \in [stage : Stages \cup {"none"}, file : Ids, message : Ids, transfer : Ids]
  /\ client.project \in [file : Ids, waiting : BOOLEAN]
  /\ client.diagnosis.stage \in {"none", "export_wait", "replay", "snapshot", "project", "project_wait"}
  /\ client.diagnosis.parts \subseteq 1..12 /\ Cardinality(client.diagnosis.parts) <= 2
  /\ client.import \in [purpose : Purposes \cup {"none"}, file : Ids, begin : Ids,
                        transfer : Ids, commit : Ids]
  /\ client.files \subseteq [id : 1..12, folder : Ids]
  /\ app.flags \subseteq {"snapshot", "replay", "project", "diagnosis"}
  /\ pc \in {"commands", "driving", "polling", "refreshing", "closed"}

\* Every temporary file on disk belongs to something under way, and what is
\* under way has its files.  A finished, failed, rejected, cancelled or
\* overtaken export, import or diagnosis leaves nothing behind
\* (_PendingExport, DiagnosisExport.cleanup, _clear_pending_import).
OwnedFiles ==
  ({client.export.file, client.project.file, client.import.file, client.diagnosis.folder}
     \cup client.diagnosis.parts) \ {0}
TemporariesOwned == {f.id : f \in client.files} = OwnedFiles

\* An export the app shows as running is on its way: a command, a job of the
\* client or an event that ends it exists (the *_exporting flags).
Working(job) ==
  CASE job \in Manual -> client.export.stage = job
    [] job = "project" -> client.project # NoProject
    [] job = "diagnosis" -> client.diagnosis # NoDiagnosis
JobTracked ==
  pc # "closed" => \A job \in app.flags :
    \/ job \in In(commands) \/ Working(job)
    \/ \E event \in In(client.events) : job \in Cleared(event)

\* An answer about an export the user gave up meets the next one: about a project
\* file he cancelled, or a state or replay he left with the game that failed.
MeetsTheNext(m, x) ==
  /\ x.stage \in Manual \cup {"project"}
  /\ \/ m.tag \in {"ready", "ineligible"} /\ m.id # x.message
     \/ m.tag \in {"chunk", "last_chunk"} /\ m.transfer # x.transfer
  /\ m.kind = "project" \/ (m.kind \in Manual /\ left.faults < MaxFaults)

\* A failure of the disk stops the worker, and nothing else but an export begun
\* before the last answer about the one given up has come (_fail_mismatched_export,
\* the sequence check of _handle_export_chunk).  A cache that was overtaken, a part
\* of a diagnosis that failed and an import that was dropped never do.
WorkerSurvives ==
  [][pc # "closed" /\ pc' = "closed" =>
       \/ left'.failures < left.failures
       \/ pc = "polling" /\ MeetsTheNext(Head(client.polled), client.export)]_vars

\* The same without the exception, which the code does not keep.
OnlyTheDisk == [][pc # "closed" /\ pc' = "closed" => left'.failures < left.failures]_vars

\* When nothing is under way the runtime holds no export open: whatever the
\* client gave up, it released or cancelled.
RuntimeReleased ==
  (/\ pc = "commands" /\ client.export = NoExport /\ client.project = NoProject
   /\ client.diagnosis = NoDiagnosis /\ client.sent = <<>>) => open = {}

\* Whatever goes wrong, what the app shows as running ends, and the app is given
\* back to the user.  The one exception is a fault of the game while a diagnosis
\* imports the project: _handle_runtime forgets the import and the diagnosis waits on.
ImportLost ==
  /\ left.faults < MaxFaults /\ client.diagnosis.stage = "project"
  /\ client.import = NoImport /\ client.export = NoExport
InteractionRestored == []<>(app.flags = {} \/ pc = "closed" \/ ImportLost)

\* The same without the exception, which the code does not keep.
AlwaysRestored == []<>(app.flags = {} \/ pc = "closed")

\* Nothing of a transfer that is over is left, on either side.
NothingLeft == TemporariesOwned /\ RuntimeReleased
=============================================================================
