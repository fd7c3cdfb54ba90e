----------------------------- MODULE Presentation -----------------------------
(***************************************************************************)
(* How what the game prints reaches the player: the runtime, external,     *)
(* sends deltas and snapshots while it is driven; the worker applies them  *)
(* to its copy, merges them until the game waits or stops, and hands the   *)
(* app one batch (runtime_client.py, presentation.py); the app applies it  *)
(* to its own copy, locks the surface, commits the lines to the viewport   *)
(* and unlocks when the refresh of that commit is done (app_worker.py,     *)
(* app_shell.py).  A game that is left is retired on both sides before the *)
(* runtime decides (ReplacementBoundary), and a copy that lost the thread  *)
(* is resynchronized with a snapshot (runtime_rejections.py).              *)
(* Left out: the wait messages outside the presentation and the gestures   *)
(* (InputGate), the epochs (RuntimeTransport), the replacement of the      *)
(* session (ProjectStart), the audit span of a performance run.            *)
(***************************************************************************)
EXTENDS PresentationModel

CONSTANTS
  Operations,   \* what the game does to the surface
  MaxOutputs,   \* bound: presentation messages of the game
  MaxReturns,   \* bound: returns to the title
  MaxFaults,    \* bound: deltas the worker cannot apply
  MaxBoundaries,  \* bound: times the game stops without a wait
  SceneAcrossGames  \* TRUE: a scene is also edited after a game was left

ASSUME PresentationAssumption ==
  /\ {Limit, MaxOutputs, MaxReturns, MaxFaults, MaxBoundaries} \subseteq Nat /\ Limit > 0
  /\ Operations \subseteq {"append", "delete", "clear", "replace", "trim", "wait", "scene"}
  /\ SceneAcrossGames \in BOOLEAN

VARIABLES
  rt,        \* the runtime: [rev, lines, wait, scene, game]
  worker,    \* ServicePresentationModel; phase and command of its boundary
  pending,   \* PresentationEventAccumulator
  pump,      \* the pump of the worker: running, _wait_event_dirty, _boundary_dirty
  inbox, deferred,  \* commands to the runtime; those of this pump
  events,    \* from the worker to the app
  app,       \* PresentationModel, active_wait
  gate,      \* presentation_rendering and what goes with it
  surface,   \* the lines of the viewport, those painted, callbacks after a refresh
  left       \* what is left of the bounds

vars == <<rt, worker, pending, pump, inbox, deferred, events, app, gate, surface, left>>

NoPending == [snapshot |-> <<>>, from |-> 0, to |-> 0, ops |-> <<>>]
-----------------------------------------------------------------------------
(* The worker handles an output: RuntimeClient._handle_runtime *)

Resync == [tag |-> "resync", id |-> 0]

\* _set_active_wait follows the copy.
WaitNoted(new) == [pump EXCEPT !.waitDirty = @ \/ new.wait # worker.wait]

\* reject() and accept_snapshot() of the boundary.
Resynchronizing(w) == [w EXCEPT !.phase = "resync", !.command = 0]
Idle(w) == [w EXCEPT !.phase = IF w.active THEN @ ELSE "idle",
                     !.command = IF w.active THEN @ ELSE 0]

TakeSnapshot(snapshot) ==
  LET new == [worker EXCEPT !.rev = snapshot.rev, !.lines = snapshot.lines, !.scene = snapshot.scene,
                            !.wait = snapshot.wait, !.active = FALSE]
  IN  /\ worker' = Idle(new)
      /\ pending' = [NoPending EXCEPT !.snapshot = <<snapshot>>]
      /\ pump' = WaitNoted(new)
      /\ UNCHANGED <<deferred, events>>

\* What is left of a delta for the app: apply_delta of the worker's copy.
Filtered(delta) ==
  FoldLeft(LAMBDA kept, op :
             IF Accepts([active |-> worker.active /\ \A i \in DOMAIN kept : kept[i].tag # "clear"], op)
             THEN Append(kept, op) ELSE kept,
           <<>>, delta.ops)

\* A scene is validated before anything is applied; the boundary saw the
\* operations already.
TakeDelta(delta) ==
  LET new == ApplyAll(worker, delta.ops)
      refused == new.failed \/ delta.from # worker.rev
  IN  IF refused
      THEN /\ worker' = Idle([worker EXCEPT !.active = @ /\ (delta.from # worker.rev \/ new.active)])
           /\ deferred' = Append(deferred, Resync)
           /\ UNCHANGED <<pending, pump, events>>
      ELSE /\ worker' = Idle([new EXCEPT !.rev = delta.to])
           /\ pending' = [pending EXCEPT !.from = IF pending.to = 0 THEN delta.from ELSE @,
                                         !.to = delta.to,
                                         !.ops = Merge(@, Filtered(delta))]
           /\ pump' = WaitNoted(new)
           /\ UNCHANGED <<deferred, events>>

\* The rejection of the command the boundary waits for.
KeepsBoundary(id) == UNCHANGED <<worker, pending, pump, deferred, events>>
TakeRejection(id) ==
  /\ IF worker.phase = "retired" /\ worker.command = id
     THEN worker' = Resynchronizing(worker) /\ deferred' = Append(deferred, Resync)
     ELSE UNCHANGED <<worker, deferred>>
  /\ UNCHANGED <<pending, pump, events>>
-----------------------------------------------------------------------------
(* The runtime, external, while it is driven *)

Line(text) == [id |-> rt.next, game |-> rt.game, text |-> text]

DeltaOf(ops) == [from |-> rt.rev, to |-> rt.rev + 1, ops |-> ops]
SnapshotOf(r) == [rev |-> r.rev, lines |-> r.lines, wait |-> r.wait, scene |-> r.scene]

\* The runtime follows the same operations, on its own surface.
Printed(r, ops) ==
  LET copy == ApplyAll([EmptyCopy(r.rev, r.scene, FALSE) EXCEPT !.lines = r.lines, !.wait = r.wait], ops)
  IN  [r EXCEPT !.rev = @ + 1, !.lines = copy.lines, !.wait = copy.wait, !.scene = copy.scene,
                !.next = @ + 1]

\* A game that is being left does not clear its history before it is answered:
\* its wait would be lost, were the return rejected (README).
Counts == 1..Len(rt.lines)
Delta(tag) ==
  CASE tag = "append" -> {[tag |-> tag, line |-> Line(1)]}
    [] tag = "delete" -> {[tag |-> tag, count |-> n] : n \in Counts}
    [] tag = "clear" -> IF inbox = <<>> THEN {[tag |-> tag]} ELSE {}
    [] tag = "replace" ->
         {[tag |-> tag, line |-> [rt.lines[i] EXCEPT !.text = 1 - @]] : i \in DOMAIN rt.lines}
    [] tag = "trim" -> {[tag |-> tag, count |-> n] : n \in Counts}
    [] tag = "wait" -> {[tag |-> tag, wait |-> w] : w \in {NoWait, rt.next} \ {rt.wait}}
    [] tag = "scene" -> IF SceneAcrossGames \/ left.returns = MaxReturns
                        THEN {[tag |-> tag, base |-> rt.scene, next |-> rt.scene + 1]} ELSE {}

\* The game prints, and the worker takes what it sent.
Emit ==
  /\ pump.running /\ left.outputs > 0
  /\ \E tag \in Operations : \E op \in Delta(tag) :
       LET ops == IF rt.fresh THEN <<[tag |-> "clear"], [tag |-> "wait", wait |-> NoWait], op>> ELSE <<op>>
       IN  rt' = [Printed(rt, ops) EXCEPT !.fresh = FALSE] /\ TakeDelta(DeltaOf(ops))
  /\ left' = [left EXCEPT !.outputs = @ - 1]
  /\ UNCHANGED <<inbox, app, gate, surface>>

\* A delta whose scene cannot be applied: the surface of the runtime changed.
Garble ==
  /\ pump.running /\ left.faults > 0 /\ left.outputs > 0 /\ ~rt.fresh
  /\ \E clear \in BOOLEAN :
       LET ops == IF clear THEN <<[tag |-> "clear"]>> ELSE <<[tag |-> "append", line |-> Line(1)]>>
       IN  rt' = Printed(rt, ops)
           /\ TakeDelta(DeltaOf(Append(ops, [tag |-> "scene", base |-> -1, next |-> 0])))
  /\ left' = [left EXCEPT !.outputs = @ - 1, !.faults = @ - 1]
  /\ UNCHANGED <<inbox, app, gate, surface>>

\* A phase, an exit or a fault the player has to see.
Stop ==
  /\ pump.running /\ left.boundaries > 0
  /\ pump' = [pump EXCEPT !.boundary = TRUE]
  /\ left' = [left EXCEPT !.boundaries = @ - 1]
  /\ UNCHANGED <<rt, worker, pending, inbox, deferred, events, app, gate, surface>>

\* What was submitted is answered: a return to the title is accepted, and the
\* new game starts with a snapshot or clears the history with its first
\* output; or it is rejected.
Answer ==
  LET command == Head(inbox)
      title == [rt EXCEPT !.rev = @ + 1, !.lines = <<>>, !.wait = NoWait, !.game = @ + 1, !.fresh = FALSE]
  IN
  /\ pump.running /\ inbox # <<>> /\ inbox' = Tail(inbox)
  /\ \/ /\ command.tag = "resync"
        /\ TakeSnapshot(SnapshotOf(rt)) /\ rt' = [rt EXCEPT !.fresh = FALSE]
     \/ /\ command.tag = "return"
        /\ rt' = title /\ TakeSnapshot(SnapshotOf(title))
     \/ /\ command.tag = "return"
        /\ rt' = [title EXCEPT !.rev = rt.rev, !.fresh = TRUE]
        /\ UNCHANGED <<worker, pending, pump, deferred, events>>
     \/ /\ command.tag = "return"
        /\ TakeRejection(command.id) /\ UNCHANGED rt
  /\ UNCHANGED <<app, gate, surface, left>>
-----------------------------------------------------------------------------
(* The worker between two outputs *)

\* A return to the title: begin_game_state_transition.
ReturnToTitle ==
  /\ ~pump.running /\ left.returns > 0
  /\ left' = [left EXCEPT !.returns = @ - 1]
  /\ inbox' = Append(inbox, [tag |-> "return", id |-> left.returns])
  /\ worker' = [worker EXCEPT !.lines = <<>>, !.wait = NoWait, !.active = TRUE,
                              !.phase = "retired", !.command = left.returns]
  /\ pending' = NoPending
  /\ events' = Append(events, [kind |-> "reset", rev |-> worker.rev])
  /\ UNCHANGED <<rt, pump, deferred, app, gate, surface>>

Drive ==
  /\ ~pump.running
  /\ pump' = [running |-> TRUE, waitDirty |-> FALSE, boundary |-> FALSE]
  /\ UNCHANGED <<rt, worker, pending, inbox, deferred, events, app, gate, surface, left>>

Batch(snapshot, delta, render) ==
  [kind |-> "batch", snapshot |-> snapshot, delta |-> delta, wait |-> worker.wait, render |-> render]

\* _flush_presentation_events: nothing of a running game but the end of its wait.
Visible == pump.boundary \/ worker.wait # NoWait
PendingDelta ==
  IF pending.to = 0 THEN <<>>
  ELSE <<[from |-> pending.from, to |-> pending.to, ops |-> pending.ops]>>
Flushed ==
  IF Visible
  THEN IF pending # NoPending \/ pump.waitDirty \/ pump.boundary
       THEN <<Batch(pending.snapshot, PendingDelta, TRUE)>> ELSE <<>>
  ELSE IF pump.waitDirty THEN <<Batch(<<>>, <<>>, FALSE)>> ELSE <<>>

\* The runtime took everything that was submitted before the drive.
EndPump ==
  /\ pump.running /\ inbox = <<>>
  /\ pump' = [pump EXCEPT !.running = FALSE]
  /\ events' = events \o Flushed
  /\ pending' = IF Visible THEN NoPending ELSE pending
  /\ inbox' = deferred /\ deferred' = <<>>
  /\ UNCHANGED <<rt, worker, app, gate, surface, left>>
-----------------------------------------------------------------------------
(* The app *)

AppSnapshot(copy, snapshot) ==
  Fit([EmptyCopy(snapshot.rev, snapshot.scene, FALSE)
         EXCEPT !.lines = snapshot.lines, !.wait = snapshot.wait])

\* apply_delta: what was applied before an operation that fails stays.
AppDelta(copy, delta) ==
  LET new == ApplyAll(copy, delta.ops)
  IN  IF delta.from # copy.rev THEN copy
      ELSE IF new.failed THEN [new EXCEPT !.failed = FALSE]
      ELSE [Fit(new) EXCEPT !.rev = delta.to]

\* _begin_presentation_render; _set_active_wait looks at the gate again.
Locked(g) == [g EXCEPT !.rendering = TRUE, !.dirty = TRUE, !.locked = TRUE]
Mark(g) == IF g.dirty THEN g ELSE Locked(g)

\* _commit_presentation, and the callback it asks for.
Committed(g) == [g EXCEPT !.dirty = FALSE, !.ready = FALSE]
Commit(copy) ==
  surface' = [surface EXCEPT !.lines = copy.lines, !.callbacks = Append(@, copy.rev)]

\* The copy after an event: _handle_worker_event, or retire_history.
CopyAfter(copy, event) ==
  IF event.kind = "reset" THEN EmptyCopy(event.rev, 0, TRUE)
  ELSE LET first == IF event.snapshot # <<>> THEN AppSnapshot(copy, event.snapshot[1]) ELSE copy
       IN  IF event.delta # <<>> THEN AppDelta(first, event.delta[1]) ELSE first

\* The surface is locked before the wait of the batch is installed.
HandleBatch(event, copy) ==
  LET dirty == event.snapshot # <<>> \/ copy.rev # app.copy.rev
      marked == IF dirty THEN Mark(gate) ELSE gate
      waiting == IF event.wait # app.wait THEN [marked EXCEPT !.locked = marked.rendering] ELSE marked
  IN  /\ app' = [copy |-> copy, wait |-> event.wait]
      /\ gate' = [waiting EXCEPT !.ready = event.render]
      /\ UNCHANGED surface

\* _reset_game_state_projection, and the commit the drain makes at once.
HandleReset(copy) ==
  /\ app' = [copy |-> copy, wait |-> NoWait]
  /\ gate' = Committed(Locked(gate))
  /\ Commit(copy)

HandleEvent ==
  LET event == Head(events)
      copy == CopyAfter(app.copy, event) IN
  /\ events # <<>> /\ events' = Tail(events)
  /\ IF event.kind = "reset" THEN HandleReset(copy) ELSE HandleBatch(event, copy)
  /\ UNCHANGED <<rt, worker, pending, pump, inbox, deferred, left>>

\* The drain found the queue empty.
EndDrain ==
  /\ events = <<>> /\ gate.dirty /\ gate.ready
  /\ Commit(app.copy) /\ gate' = Committed(gate)
  /\ UNCHANGED <<rt, worker, pending, pump, inbox, deferred, events, app, left>>

\* _finish_presentation_render: the callback of an older commit drops the lock
\* too, without looking at the prompt and the buttons.
Finish ==
  LET current == Head(surface.callbacks) = app.copy.rev IN
  /\ surface.callbacks # <<>>
  /\ surface' = [surface EXCEPT !.painted = surface.lines, !.callbacks = Tail(@)]
  /\ gate' = [gate EXCEPT !.rendering = FALSE, !.locked = IF current THEN FALSE ELSE @]
  /\ UNCHANGED <<rt, worker, pending, pump, inbox, deferred, events, app, left>>
-----------------------------------------------------------------------------
Init ==
  /\ rt = [rev |-> 1, lines |-> <<>>, wait |-> NoWait, scene |-> 0, game |-> 1, next |-> 1, fresh |-> FALSE]
  /\ worker = [rev |-> 1, lines |-> <<>>, hidden |-> 0, wait |-> NoWait, scene |-> 0, active |-> FALSE,
               failed |-> FALSE, phase |-> "idle", command |-> 0]
  /\ pending = NoPending
  /\ pump = [running |-> FALSE, waitDirty |-> FALSE, boundary |-> FALSE]
  /\ inbox = <<>> /\ deferred = <<>> /\ events = <<>>
  /\ app = [copy |-> EmptyCopy(1, 0, FALSE), wait |-> NoWait]
  /\ gate = [rendering |-> FALSE, dirty |-> FALSE, ready |-> FALSE, locked |-> FALSE]
  /\ surface = [lines |-> <<>>, painted |-> <<>>, callbacks |-> <<>>]
  /\ left = [outputs |-> MaxOutputs, returns |-> MaxReturns, faults |-> MaxFaults, boundaries |-> MaxBoundaries]

Runtime == Emit \/ Garble \/ Stop \/ Answer
Worker == ReturnToTitle \/ Drive \/ EndPump
App == HandleEvent \/ EndDrain \/ Finish
Next == Runtime \/ Worker \/ App
Spec == Init /\ [][Next]_vars

\* The worker pumps for ever, and the runtime answers what it was sent; the
\* app drains, and refreshes.
Pumping == Drive \/ Answer \/ EndPump
Draining == HandleEvent \/ EndDrain
FairSpec ==
  /\ Spec /\ []<><<Pumping>>_vars
  /\ []<>(events = <<>> /\ ~(gate.dirty /\ gate.ready)) \/ []<><<Draining>>_vars
  /\ []<>(surface.callbacks = <<>>) \/ []<><<Finish>>_vars
-----------------------------------------------------------------------------
(* Properties *)

\* Between leaving a game and the first surface of what follows, neither copy
\* shows a line of the game that was left or lets the player answer its wait
\* (ReplacementBoundary; runtime_rejections.py: intervening old-history deltas
\* cannot repopulate the retired surface).
RetiredStaysBlank ==
  /\ worker.active => worker.lines = <<>> /\ worker.wait = NoWait
  /\ app.copy.active => app.copy.lines = <<>> /\ app.wait = NoWait /\ surface.lines = <<>>

\* The app never loses the thread: once it took what is under way, merged or
\* not, it has the end of the surface the worker has, and knows how many lines
\* it hides above it.
AppFollows ==
  LET sent == FoldLeft(CopyAfter, app.copy, events)
      copy == IF pending = NoPending THEN sent
              ELSE CopyAfter(sent, Batch(pending.snapshot, PendingDelta, TRUE))
  IN  /\ copy.rev = worker.rev
      /\ IsSuffix(copy.lines, worker.lines)
      /\ copy.hidden = Len(worker.lines) - Len(copy.lines)
      /\ copy.wait = worker.wait

\* The wait the player can answer is that of the surface the app has: never
\* one of an older or a newer batch (_flush_presentation_events: a single
\* queue item).
WaitOfSurface == app.wait # NoWait => app.copy.wait = app.wait

\* Every wait of the game reaches the player, with its surface painted and the
\* lock off, unless it ends before: also through a rejected return and a
\* resynchronization.
Shown(w) ==
  /\ app.wait = w /\ ~gate.rendering /\ ~gate.locked
  /\ surface.painted = app.copy.lines
  /\ IsSuffix(app.copy.lines, rt.lines)
WaitReachesPlayer == []<>(rt.wait # NoWait => Shown(rt.wait))

\* Gameplay stays locked until the refresh of the presentation is finished:
\* while the lock is off, what is painted is what the app's wait is about.
LockedUntilPainted == app.wait # NoWait /\ ~gate.rendering => surface.painted = app.copy.lines

\* The app's copy and the wait beside it are of one and the worker's surface.
CopyTrue == AppFollows /\ WaitOfSurface
=============================================================================
