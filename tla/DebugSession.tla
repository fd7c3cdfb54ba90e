---------------------------- MODULE DebugSession ----------------------------
(***************************************************************************)
(* The debug channel (runtime_debug.py and send_debug), with the menu and  *)
(* the modal dialogs of the app that use it and the runtime that pauses    *)
(* and resumes the game.  Every request names the stop it is about; the    *)
(* client keeps the newest stop it was told, pauses the game for a dialog  *)
(* and resumes it when the dialog is closed.                               *)
(* The commands of the app, the events for it and both directions of the   *)
(* wire are queues, and every message is handled at a time of its own.     *)
(* Left out: the values that are read, the byte budgets (a queue holds one *)
(* action of each name and MaxConsoles console requests, far below         *)
(* MAX_PENDING_DEBUG_ACTIONS), exports and faults, which only block the    *)
(* menu, reads of local variables, which are refused at once, and stops    *)
(* without a fiber, which cannot be stepped.                               *)
(***************************************************************************)
EXTENDS Naturals, Sequences, FiniteSets, SequencesExt

CONSTANTS
  Surfaces,         \* dialogs the user opens: console, variables, stack
  Gestures,         \* what else he does: toggle, single, step, input, title
  Odd,              \* what the runtime may do unasked: refuse, revoke
  Hasty,            \* what he does while the debugger is at work: toggle, single,
                    \* step, title, open, evaluate; the rest waits until it is at rest
  MaxConsoles,      \* MAX_PENDING_DEBUG_CONSOLE_REQUESTS
  MaxCorrelations,  \* MAX_PENDING_DEBUG_CORRELATIONS
  MaxMoves          \* bound: what the user does

ASSUME DebugAssumption ==
  /\ Surfaces \subseteq {"console", "variables", "stack"}
  /\ Gestures \subseteq {"toggle", "single", "step", "input", "title"}
  /\ Odd \subseteq {"refuse", "revoke"}
  /\ Hasty \subseteq {"toggle", "single", "step", "title", "open", "evaluate"}
  /\ {MaxConsoles, MaxCorrelations} \subseteq Nat \ {0}
  /\ MaxMoves \in Nat

VARIABLES
  app,       \* the debug state of RustyEraTui and its open dialog
  commands,  \* RuntimeWorker.commands
  client,    \* RuntimeClient
  submitted, \* envelopes the runtime has not taken
  runtime,   \* the game as the debugger holds it
  outputs,   \* envelopes the client has not polled
  events,    \* RuntimeWorker.events
  moves,     \* gestures so far
  excused    \* stops that were on their way when nobody wanted them any more

vars == <<app, commands, client, submitted, runtime, outputs, events, moves, excused>>

None == "none"
NoStop == 0
Continues == {"continue", "disable_continue", "transient_continue", "auto_continue"}
Lifecycle == Continues \cup {"pause", "step"}
Refreshes == {"variables", "variable_value", "fibers", "call_stack"}

\* _debug_action_owner
Owner(action) ==
  CASE action = "console" -> "console"
    [] action \in {"variables", "variable_value"} -> "variables"
    [] action \in {"fibers", "call_stack"} -> "stack"
    [] action = "pause_only" -> None

\* RuntimeClient.phase as the runtime reports it
Phase(r) == IF r.stopped THEN 7 ELSE r.at

-----------------------------------------------------------------------------
(* The client.  A step is a function of s: the client, what it submits     *)
(* and what it publishes.                                                  *)

Now == [c |-> client, out |-> <<>>, evs |-> <<>>]

Publish(s, kind, value) == [s EXCEPT !.evs = Append(@, [kind |-> kind, value |-> value])]
Names(c) == {p.name : p \in c.pending}
Normal(c) == {p \in c.pending : p.name \notin Lifecycle}
DeferredNames(c) == {c.refresh[i].name : i \in DOMAIN c.refresh}

\* The client without stop, requests and queued work
Cleared(c) ==
  [c EXCEPT !.stop = NoStop, !.pending = {}, !.refresh = <<>>, !.consoles = <<>>,
            !.step = FALSE]

\* _submit_debug_request and send_debug
Submit(s, name, stop) ==
  [s EXCEPT !.out = Append(@, [tag |-> "request", id |-> s.c.id, name |-> name, stop |-> stop]),
            !.c.pending = @ \cup {[id |-> s.c.id, name |-> name]},
            !.c.id = @ + 1]

\* The newest command of a name replaces a deferred one in its place.
Defer(s, name, stop) ==
  LET entry == [name |-> name, stop |-> stop]
  IN  [s EXCEPT !.c.refresh =
         IF name \in DeferredNames(s.c)
         THEN [i \in DOMAIN @ |-> IF @[i].name = name THEN entry ELSE @[i]]
         ELSE Append(@, entry)]

\* _reserve_console_request
HasConsole(c) ==
  Cardinality({p \in c.pending : p.name = "console"}) + Len(c.consoles) < MaxConsoles

\* _debug_request
Request(s, name, stop) ==
  LET c == s.c
      full == Cardinality(Normal(c)) >= MaxCorrelations
  IN  CASE \/ ~c.grant
           \/ name \in Lifecycle /\ name \in Names(c)
           \/ name = "console" /\ ~HasConsole(c) -> s
        [] /\ name \in Refreshes
           /\ name \in Names(c) \cup DeferredNames(c) \/ full -> Defer(s, name, stop)
        [] name = "console" /\ HasConsole(c) /\ full ->
             [s EXCEPT !.c.consoles = Append(@, stop)]
        [] OTHER -> Submit(s, name, stop)

\* _queue_debug_action
Queue(s, action) ==
  LET others == SelectSeq(s.c.queue, LAMBDA a : a # action)
      consoles == Len(s.c.queue) - Len(others)
  IN  CASE action # "console" -> [s EXCEPT !.c.queue = Append(others, action)]
        [] action = "console" /\ consoles < MaxConsoles -> [s EXCEPT !.c.queue = Append(@, action)]
        [] OTHER -> s

\* enable_debug
Enable(s) ==
  IF s.c.grant THEN Publish(s, "debug_enabled", TRUE)
  ELSE IF s.c.requested THEN s
  ELSE [s EXCEPT !.c.requested = TRUE, !.out = Append(@, [tag |-> "hello"])]

\* _run_debug_action
Run(s, action) ==
  IF s.c.stop = NoStop \/ action = "pause_only" THEN s ELSE Request(s, action, s.c.stop)

\* request_debug_action
RequestAction(s, action) ==
  LET queued == Queue(s, action)
  IN  IF ~s.c.grant THEN Enable(queued)
      ELSE IF s.c.stop # NoStop THEN Run(s, action)
      ELSE Request([queued EXCEPT !.c.owner = IF @ = None THEN Owner(action) ELSE @],
                   "pause", NoStop)

\* _resume_transient_pause_if_ready
ResumeIfReady(s) ==
  LET c == s.c
  IN  IF /\ c.stop # NoStop
         /\ c.owner # None
         /\ c.closing = c.owner
         /\ Names(c) \subseteq {"continue", "transient_continue"}
         /\ c.refresh = <<>>
         /\ c.consoles = <<>>
      THEN Request(s, "transient_continue", c.stop)
      ELSE s

\* _drain_deferred_debug_requests: refreshes newest first, then consoles in order.
DrainOne(s, entry) ==
  LET c == s.c
  IN  IF ~c.grant \/ c.stop = NoStop \/ Cardinality(Normal(c)) >= MaxCorrelations THEN s
      ELSE IF c.refresh # <<>> THEN Submit([s EXCEPT !.c.refresh = Front(@)],
                                           Last(c.refresh).name, Last(c.refresh).stop)
      ELSE Submit([s EXCEPT !.c.consoles = Tail(@)], "console", Head(c.consoles))
Drain(s) == FoldLeft(DrainOne, s, s.c.refresh \o s.c.consoles)

\* _revoke_debug
Revoke(s) ==
  Publish([s EXCEPT !.out = IF s.c.grant THEN Append(@, [tag |-> "revoke"]) ELSE @,
                    !.c = [Cleared(@) EXCEPT !.requested = FALSE, !.grant = FALSE,
                                             !.disabling = FALSE]],
          "debug_enabled", FALSE)

\* disable_debug
Disabled(c) ==
  [c EXCEPT !.queue = <<>>, !.refresh = <<>>, !.consoles = <<>>, !.single = FALSE,
            !.owner = None, !.closing = None, !.disabling = TRUE]
Disable(s) ==
  LET t == [s EXCEPT !.c = Disabled(@)]
  IN  IF t.c.step THEN t
      ELSE IF t.c.stop # NoStop THEN Request(t, "disable_continue", t.c.stop)
      ELSE Revoke(t)

\* set_single_step
SetSingle(s, enabled) ==
  LET t == [s EXCEPT !.c.single = enabled]
  IN  CASE enabled /\ t.c.phase = 4 /\ t.c.stop = NoStop -> RequestAction(t, "pause_only")
        [] ~enabled /\ t.c.stop # NoStop -> Request(t, "continue", t.c.stop)
        [] OTHER -> t

\* close_debug_surface
CloseSurface(s, owner) ==
  IF s.c.owner # owner THEN s ELSE ResumeIfReady([s EXCEPT !.c.closing = owner])

\* debug_step
Step(s) ==
  IF s.c.stop = NoStop THEN s ELSE Request([s EXCEPT !.c.step = TRUE], "step", s.c.stop)

\* _submit_input, as far as the debugger follows it; submit_text refuses a paused game.
Input(s) ==
  LET t == [s EXCEPT !.out = Append(@, [tag |-> "input"])]
  IN  CASE s.c.phase # 5 -> s
        [] s.c.single /\ s.c.stop = NoStop -> RequestAction(t, "pause_only")
        [] OTHER -> t

\* return_title and begin_game_state_transition
ReturnTitle(s) ==
  [s EXCEPT !.out = Append(@, [tag |-> "title"]),
            !.c = [Cleared(@) EXCEPT !.queue = <<>>, !.owner = None, !.closing = None],
            !.evs = Append(@, [kind |-> "game_state_reset", value |-> None])]

\* _process_command, the debug commands and the two that touch the debugger
Process(s, cmd) ==
  CASE cmd.kind = "debug_enable" -> Enable(s)
    [] cmd.kind = "debug_disable" -> Disable(s)
    [] cmd.kind = "debug_single_step" -> SetSingle(s, cmd.value)
    [] cmd.kind = "debug_action" -> RequestAction(s, cmd.value)
    [] cmd.kind = "debug_surface_closed" -> CloseSurface(s, cmd.value)
    [] cmd.kind = "debug_step" -> Step(s)
    [] cmd.kind = "input" -> Input(s)
    [] cmd.kind = "return_title" -> ReturnTitle(s)

\* _handle_debug 1
Granted(s) ==
  LET t == Publish([s EXCEPT !.c.grant = TRUE, !.c.queue = <<>>], "debug_enabled", TRUE)
  IN  FoldLeft(RequestAction, t, s.c.queue)

\* _handle_debug 2; debug_requested stays as it is.
Revoked(s) ==
  Publish([s EXCEPT !.c = [Cleared(@) EXCEPT !.grant = FALSE, !.disabling = FALSE,
                                             !.owner = None, !.closing = None]],
          "debug_enabled", FALSE)

\* _complete_debug_request
NameOf(c, id) ==
  IF \E p \in c.pending : p.id = id THEN (CHOOSE p \in c.pending : p.id = id).name ELSE None
Complete(s, id) == [s EXCEPT !.c.pending = {p \in @ : p.id # id}]

\* _handle_debug 11
Answered(s, name, fresh) ==
  [Publish(s, "debug_response", name) EXCEPT
     !.c.stop = IF name \in Continues \cup {"step"} THEN NoStop
                ELSE IF fresh # NoStop THEN fresh ELSE @,
     !.c.owner = IF name = "transient_continue" THEN None ELSE @,
     !.c.closing = IF name = "transient_continue" THEN None ELSE @]
AnswerForgetsPause(s, m) ==  \* mutant: a pause ends only when its dialog closes
  LET t == Answered(Complete(s, m.id), NameOf(s.c, m.id), m.fresh)
  IN  IF NameOf(s.c, m.id) = "disable_continue" THEN Revoke(t) ELSE Drain(t)
Response(s, m) ==
  LET t == Answered(Complete(s, m.id), NameOf(s.c, m.id), m.fresh)
  IN  IF NameOf(s.c, m.id) = "disable_continue" THEN Revoke(t) ELSE Drain(ResumeIfReady(t))

\* _handle_debug 12
Stopped(s, m) ==
  LET t == [s EXCEPT !.c.stop = m.stop, !.c.step = FALSE]
      ran == FoldLeft(Run, Publish([t EXCEPT !.c.queue = <<>>], "debug_stopped", None), s.c.queue)
  IN  IF t.c.disabling THEN Request(t, "disable_continue", m.stop)
      ELSE ResumeIfReady(IF ran.c.single /\ m.waiting
                         THEN Request(ran, "auto_continue", m.stop) ELSE ran)

\* _handle_debug 13
Refused(s, m) ==
  LET name == NameOf(s.c, m.id)
      done == Complete(s, m.id)
      t == [done EXCEPT !.c.step = IF name = "step" THEN FALSE ELSE @]
  IN  Drain(Publish(IF t.c.disabling THEN Revoke(t) ELSE t, "runtime_error", name))

\* StateChanged
PhaseChanged(s, m) == Publish([s EXCEPT !.c.phase = m.phase], "phase", m.phase)

Handle(s, m) ==
  CASE m.tag = "grant" -> Granted(s)
    [] m.tag = "revoked" -> Revoked(s)
    [] m.tag = "response" -> Response(s, m)
    [] m.tag = "stopped" -> Stopped(s, m)
    [] m.tag = "error" -> Refused(s, m)
    [] m.tag = "phase" -> PhaseChanged(s, m)

Do(s) ==
  /\ client' = s.c
  /\ submitted' = submitted \o s.out
  /\ events' = events \o s.evs

\* The stop the game is at or comes to next
StopOf(r) == IF r.stopped THEN r.stop ELSE r.stop + 1

\* A pause that was asked for and that the client has not seen.
AskedFor(queue) ==
  \E i \in DOMAIN queue : queue[i].tag = "request" /\ queue[i].name = "pause"
OnItsWay ==
  runtime.pausing \/ (runtime.stopped /\ client.stop # runtime.stop) \/ AskedFor(submitted)
Coming == IF OnItsWay THEN {StopOf(runtime)} ELSE {}

\* The client gives up what a pause is for while it knows no stop: disable_debug
\* and a refusal revoke at once (99-100), set_single_step resumes nothing.
Forsaken ==
  /\ client'.stop = NoStop
  /\ (client.grant /\ ~client'.grant) \/ (client.single /\ ~client'.single)
Note == excused' = excused \cup IF Forsaken THEN Coming ELSE {}

\* RuntimeWorker.run: one command
ProcessCommand ==
  /\ commands # <<>>
  /\ Do(Process(Now, Head(commands)))
  /\ commands' = Tail(commands)
  /\ Note
  /\ UNCHANGED <<app, runtime, outputs, moves>>

\* pump: one envelope
HandleEnvelope ==
  /\ outputs # <<>>
  /\ Do(Handle(Now, Head(outputs)))
  /\ outputs' = Tail(outputs)
  /\ UNCHANGED <<app, commands, runtime, moves>>
  /\ Note

-----------------------------------------------------------------------------
(* The runtime.                                                            *)

PhaseOf(r) == [tag |-> "phase", phase |-> Phase(r)]
Answer(id, fresh) == [tag |-> "response", id |-> id, fresh |-> fresh]
Resumed == [runtime EXCEPT !.stopped = FALSE, !.pausing = FALSE]
Emit(r, msgs) == runtime' = r /\ outputs' = outputs \o msgs

\* A request is about the current stop, a pause about any moment.
RtRequest(m) ==
  LET valid == runtime.granted /\ (m.name = "pause" \/ (runtime.stopped /\ m.stop = runtime.stop))
      stepped == [Resumed EXCEPT !.pausing = TRUE]
  IN  \/ /\ ~valid \/ ("refuse" \in Odd /\ m.name \notin Lifecycle)
         /\ Emit(runtime, <<[tag |-> "error", id |-> m.id]>>)
      \/ /\ valid
         /\ CASE m.name = "pause" ->
                   Emit([runtime EXCEPT !.pausing = ~runtime.stopped], <<Answer(m.id, NoStop)>>)
              [] m.name \in Continues -> Emit(Resumed, <<Answer(m.id, NoStop), PhaseOf(Resumed)>>)
              [] m.name = "step" -> Emit(stepped, <<Answer(m.id, NoStop), PhaseOf(stepped)>>)
              [] m.name = "console" ->
                   Emit([runtime EXCEPT !.stop = @ + 1], <<Answer(m.id, runtime.stop + 1)>>)
              [] m.name \in Refreshes -> Emit(runtime, <<Answer(m.id, NoStop)>>)

\* A request to resume that is refused named an older stop or came too early; what is
\* evaluated at an excused stop renews it; a pause that is dropped needs no excuse.
ExcusedAfter(m) ==
  LET refused == m.tag = "request" /\ m.name \in Continues /\ runtime' = runtime
      renewed == runtime.stop \in excused /\ runtime'.stop # runtime.stop
      idle == ~runtime'.stopped /\ ~runtime'.pausing /\ ~AskedFor(submitted')
  IN  {n \in excused \cup IF refused \/ renewed THEN {StopOf(runtime')} ELSE {} :
         idle => n <= runtime'.stop}

RtTake ==
  /\ submitted # <<>>
  /\ submitted' = Tail(submitted)
  /\ LET m == Head(submitted)
         plain == [Resumed EXCEPT !.granted = FALSE]
         playing == [runtime EXCEPT !.at = 4]
         title == [Resumed EXCEPT !.at = 4]
     IN  CASE m.tag = "request" -> RtRequest(m)
           [] m.tag = "hello" -> Emit([runtime EXCEPT !.granted = TRUE], <<[tag |-> "grant"]>>)
           [] m.tag = "revoke" -> Emit(plain, IF runtime.stopped THEN <<PhaseOf(plain)>> ELSE <<>>)
           [] m.tag = "input" -> IF Phase(runtime) = 5 THEN Emit(playing, <<PhaseOf(playing)>>)
                                 ELSE Emit(runtime, <<>>)
           [] m.tag = "title" -> Emit(title, <<PhaseOf(title)>>)
  /\ excused' = ExcusedAfter(Head(submitted))
  /\ UNCHANGED <<app, commands, client, events, moves>>

\* The game stops for the debugger, at a source line or at a wait of the host.
RtStop ==
  /\ runtime.pausing
  /\ ~runtime.stopped
  /\ LET r == [runtime EXCEPT !.stopped = TRUE, !.pausing = FALSE, !.stop = @ + 1]
     IN  Emit(r, <<PhaseOf(r), [tag |-> "stopped", stop |-> r.stop, waiting |-> r.at = 5]>>)
  /\ UNCHANGED <<app, commands, client, submitted, events, moves, excused>>

\* The game comes to a wait.
RtWait ==
  /\ Phase(runtime) = 4
  /\ LET r == [runtime EXCEPT !.at = 5] IN Emit(r, <<PhaseOf(r)>>)
  /\ UNCHANGED <<app, commands, client, submitted, events, moves, excused>>

RtRevoke ==
  /\ "revoke" \in Odd
  /\ runtime.granted
  /\ LET r == [Resumed EXCEPT !.granted = FALSE] IN Emit(r, <<PhaseOf(r), [tag |-> "revoked"]>>)
  /\ UNCHANGED <<app, commands, client, submitted, events, moves, excused>>

-----------------------------------------------------------------------------
(* The app and its user.                                                   *)

Quiet ==
  /\ commands = <<>> /\ submitted = <<>> /\ outputs = <<>> /\ events = <<>>
  /\ ~runtime.pausing
\* A step that was asked for is all there is to wait for.
Settled == Quiet \/ (client.step /\ commands = <<>> /\ client.queue = <<>> /\ events = <<>>)

\* What the worker did is shown.
Shown == commands = <<>> /\ events = <<>>

Send(kind, value) == commands' = Append(commands, [kind |-> kind, value |-> value])
Move == moves < MaxMoves /\ moves' = moves + 1

\* _debug_interactions_blocked, of a dialog
InDialog(s) == Move /\ app.dialog = s /\ app.enabled
\* A modal dialog hides the menu.
InMenu(g) == Move /\ app.dialog = None /\ g \in Gestures

ToggleDebug ==
  /\ InMenu("toggle")
  /\ Settled \/ (Shown /\ "toggle" \in Hasty)
  /\ Send(IF app.enabled THEN "debug_disable" ELSE "debug_enable", None)
  /\ UNCHANGED <<app, client, submitted, runtime, outputs, events, excused>>

\* The variables are read when the dialog opens, the fibers when it is mounted.
OpenDialog(s) ==
  /\ Move
  /\ app.dialog = None
  /\ app.enabled
  /\ "open" \in Hasty \/ (Quiet /\ (app.single => app.paused))
  /\ app' = [app EXCEPT !.dialog = s]
  /\ IF s = "console" THEN UNCHANGED commands
     ELSE Send("debug_action", IF s = "variables" THEN "variables" ELSE "fibers")
  /\ UNCHANGED <<client, submitted, runtime, outputs, events, excused>>

\* on_debug_console_dialog_submitted, on_variable_refresh, on_variable_dialog_read_requested
UseDialog(s) ==
  /\ InDialog(s)
  /\ s # "console" \/ "evaluate" \in Hasty \/ Quiet
  /\ \E action \in {"console", "variables", "variable_value"} :
       /\ Owner(action) = s
       /\ Send("debug_action", action)
  /\ UNCHANGED <<app, client, submitted, runtime, outputs, events, excused>>

\* _finish_debug_surface
CloseDialog(s) ==
  /\ Move
  /\ app.dialog = s
  /\ app' = [app EXCEPT !.dialog = None]
  /\ Send("debug_surface_closed", s)
  /\ UNCHANGED <<client, submitted, runtime, outputs, events, excused>>

ToggleSingle ==
  /\ InMenu("single")
  /\ app.enabled
  /\ Quiet \/ (Shown /\ "single" \in Hasty /\ ~client.disabling)
  /\ app' = [app EXCEPT !.single = ~@]
  /\ Send("debug_single_step", ~app.single)
  /\ UNCHANGED <<client, submitted, runtime, outputs, events, excused>>

\* action_debug_step
DebugStep ==
  /\ InMenu("step")
  /\ app.enabled /\ app.single /\ app.paused
  /\ Quiet \/ (Shown /\ "step" \in Hasty)
  /\ app' = [app EXCEPT !.paused = FALSE]
  /\ Send("debug_step", None)
  /\ UNCHANGED <<client, submitted, runtime, outputs, events, excused>>

\* _submit_active_wait; _game_interactions_blocked refuses a paused game.
SubmitInput ==
  /\ InMenu("input")
  /\ ~app.paused
  /\ app.phase = 5
  /\ Send("input", None)
  /\ UNCHANGED <<app, client, submitted, runtime, outputs, events, excused>>

ReturnToTitle ==
  /\ InMenu("title")
  /\ "title" \in Hasty \/ Quiet
  /\ Send("return_title", None)
  /\ UNCHANGED <<app, client, submitted, runtime, outputs, events, excused>>

\* _set_debug_enabled, the phase and reset events, debug_stopped
AppAfter(a, e) ==
  CASE e.kind = "debug_enabled" ->
         [a EXCEPT !.enabled = e.value, !.single = @ /\ e.value, !.paused = @ /\ e.value]
    [] e.kind = "phase" -> [a EXCEPT !.phase = e.value, !.paused = @ /\ e.value = 7]
    [] e.kind = "debug_stopped" -> [a EXCEPT !.paused = TRUE]
    [] e.kind = "game_state_reset" -> [a EXCEPT !.paused = FALSE]
    [] e.kind \in {"debug_response", "runtime_error"} -> a

\* _drain_worker_events: one event; the fibers lead to a call stack.
DrainEvent ==
  /\ events # <<>>
  /\ app' = AppAfter(app, Head(events))
  /\ IF Head(events) = [kind |-> "debug_response", value |-> "fibers"] /\ app.dialog = "stack"
     THEN Send("debug_action", "call_stack")
     ELSE UNCHANGED commands
  /\ events' = Tail(events)
  /\ UNCHANGED <<client, submitted, runtime, outputs, moves, excused>>

-----------------------------------------------------------------------------
Init ==
  /\ app = [enabled |-> FALSE, single |-> FALSE, paused |-> FALSE, phase |-> 5, dialog |-> None]
  /\ client = [requested |-> FALSE, grant |-> FALSE, stop |-> NoStop, queue |-> <<>>,
               pending |-> {}, refresh |-> <<>>, consoles |-> <<>>, step |-> FALSE,
               disabling |-> FALSE, single |-> FALSE, owner |-> None, closing |-> None,
               phase |-> 5, id |-> 1]
  /\ runtime = [granted |-> FALSE, stopped |-> FALSE, pausing |-> FALSE, at |-> 5, stop |-> 0]
  /\ commands = <<>> /\ submitted = <<>> /\ outputs = <<>> /\ events = <<>>
  /\ moves = 0
  /\ excused = {}

User ==
  \/ ToggleDebug \/ ToggleSingle \/ DebugStep \/ SubmitInput \/ ReturnToTitle
  \/ \E s \in Surfaces : OpenDialog(s) \/ UseDialog(s) \/ CloseDialog(s)

Next ==
  \/ ProcessCommand \/ HandleEnvelope \/ DrainEvent
  \/ RtTake \/ RtStop \/ RtWait \/ RtRevoke
  \/ User

Spec == Init /\ [][Next]_vars

\* The worker, the runtime and the app serve their queues: weak fairness of the
\* action that takes from a queue, written out, since it is enabled exactly when
\* the queue is not empty and nothing else shortens it.  A game told to stop
\* comes to its next line or wait: weak fairness of RtStop, which ends what
\* enables it.
Fairness ==
  /\ []<>(commands = <<>>) \/ []<><<Len(commands') < Len(commands)>>_commands
  /\ []<>(submitted = <<>>) \/ []<><<Len(submitted') < Len(submitted)>>_submitted
  /\ []<>(outputs = <<>>) \/ []<><<Len(outputs') < Len(outputs)>>_outputs
  /\ []<>(events = <<>>) \/ []<><<Len(events') < Len(events)>>_events
  /\ []<>(runtime.stopped \/ ~runtime.pausing)

FairSpec == Spec /\ Fairness

-----------------------------------------------------------------------------
(* When nothing is under way, the client knows the stop the game is at, if *)
(* any, or still holds one that came when nobody wanted it any more        *)
(* (_handle_debug 12 asks for no grant); the app shows a pause exactly     *)
(* when there is one, and no request waits.                                *)
StopKnown ==
  Quiet => /\ \/ client.stop = IF runtime.stopped THEN runtime.stop ELSE NoStop
              \/ client.stop \in excused
           /\ app.paused = runtime.stopped
           /\ client.pending = {} /\ client.refresh = <<>> /\ client.consoles = <<>>
           /\ client.grant => client.queue = <<>>

(* The game does not stay paused when nobody looks at it: no dialog open   *)
(* and no single-step mode (close_debug_surface, set_single_step), but for *)
(* a stop that was on its way when single step was switched off, or at     *)
(* which a request to resume was refused (and shown as an error).          *)
PauseEnds ==
  (runtime.stopped /\ app.dialog = None /\ ~app.single)
    ~> (~runtime.stopped \/ app.dialog # None \/ app.single \/ runtime.stop \in excused)

(* Disabling the debugger, in the middle of a step and with a pause on its *)
(* way too, resumes the game and gives the grant back.                     *)
DisableResumes ==
  client.disabling ~> (~client.grant /\ ~runtime.stopped)

(* The three together.                                                     *)
DebugSettles == []StopKnown /\ PauseEnds /\ DisableResumes
=============================================================================
