------------------------------ MODULE InputGate ------------------------------
(***************************************************************************)
(* How a gesture of the user becomes an input of the runtime:              *)
(*   - the app (app_interaction.py, app_shell.py) shows one wait and shuts *)
(*     its gate on it once the user answered (_activated_wait);            *)
(*   - the worker hands the gesture to the client, which submits it to the *)
(*     wait IT knows (runtime_interaction.py), the app lagging behind;     *)
(*   - the runtime accepts or rejects it, and the client carries a stale   *)
(*     one over to the next wait, once (runtime_rejections.py);            *)
(*   - a rejection, or another wait, opens the gate again.                 *)
(* Waits are numbered by their identity, in the order the runtime opens    *)
(* them.  The runtime, external, moves only while it is driven.            *)
(* Left out: the export and rendering flags of the gate, which only narrow *)
(* what the user can do; a diagnosis export, during which the app makes no *)
(* gesture; game transitions, which close every wait on both sides; the    *)
(* pause a single step asks for (MaxPauses stands for it).                 *)
(***************************************************************************)
EXTENDS Naturals, Sequences, FiniteSets

CONSTANTS
  Waits,         \* bound: waits the runtime opens, 1..n
  KindOf,        \* the kind of each wait: "message", "value" or "raw"
  Timed,         \* waits that may end by themselves
  Gestures,      \* what the user does: "text", "activate", "skip", "undo"
  MaxGestures,   \* bound: gestures of the user
  MaxTracked,    \* inputs _input_messages remembers (256)
  MaxPauses,     \* bound: times a debugger pauses or resumes the runtime
  Failures       \* TRUE: the worker's handling of a gesture may raise

NoWait == 0
GestureKinds == {"text", "activate", "skip", "undo"}

ASSUME InputAssumption ==
  /\ Waits \subseteq Nat \ {0} /\ IsFiniteSet(Waits)
  /\ KindOf \in [Waits -> {"message", "value", "raw"}]
  /\ Timed \subseteq Waits /\ Gestures \subseteq GestureKinds
  /\ MaxGestures \in Nat /\ MaxTracked \in Nat \ {0}
  /\ MaxPauses \in Nat /\ Failures \in BOOLEAN

VARIABLES
  uiWait, activated, uiPaused,  \* active_wait, _activated_wait, debug_paused
  gestures,                     \* gestures made
  shutBy,                       \* the kind of the last, a history variable
  commands, events,             \* the queues between the app and the worker
  workerAt,                     \* "idle", "driving", "polling"
  activeWait, paused, dirty,    \* the client: active_wait, phase = 7, _wait_event_dirty
  inputMessages,                \* _input_messages: inputs by message id
  nextMessageId,
  inbox, outbox,                \* messages to and from the runtime
  rtWait, rtPaused,             \* the runtime: its open wait, paused
  opened,                       \* the last wait it opened
  answered,                     \* waits answered by the gesture made for them
  pauses,                       \* counter of the bound
  handled                       \* the waits the client handled each gesture for

app == <<uiWait, activated, uiPaused, gestures, shutBy>>
client == <<activeWait, paused, dirty, inputMessages, nextMessageId>>
runtime == <<rtWait, rtPaused, opened, answered, pauses>>
vars == <<app, commands, events, workerAt, client, inbox, outbox, runtime, handled>>
-----------------------------------------------------------------------------
(* The app *)

\* _game_interactions_blocked
Blocked == uiPaused \/ (activated # NoWait /\ activated = uiWait)

\* _submit_active_wait and _activate_button, for the wait the app shows.
StaysOpen(wait) == activated
ShutsOn(wait) == wait

Gesture ==
  /\ ~Blocked /\ uiWait # NoWait /\ gestures < MaxGestures
  /\ gestures' = gestures + 1
  /\ activated' = ShutsOn(uiWait)
  /\ \E kind \in Gestures :
       /\ kind = "skip" => KindOf[uiWait] = "message"
       /\ commands' = Append(commands,
            [kind |-> kind, gesture |-> gestures + 1, wait |-> uiWait])
       /\ shutBy' = kind
  /\ UNCHANGED <<uiWait, uiPaused, events, workerAt, client, inbox, outbox, runtime,
                 handled>>

\* _set_active_wait: another wait opens the gate.
ShowWait(wait) ==
  /\ uiWait' = wait
  /\ activated' = IF wait = uiWait THEN activated ELSE NoWait

\* interaction_rejected: the rejection of the wait the gate is shut on opens it.
NeverOpens(wait) == FALSE
OpensGate(wait) == wait = activated

\* _handle_worker_event, one event.
HandleEvent ==
  LET event == Head(events) IN
  /\ events # <<>> /\ events' = Tail(events)
  /\ \/ /\ event.kind = "wait" /\ ShowWait(event.wait)
        /\ UNCHANGED uiPaused
     \/ /\ event.kind = "rejected"
        /\ activated' = IF OpensGate(event.wait) THEN NoWait ELSE activated
        /\ UNCHANGED <<uiWait, uiPaused>>
     \/ /\ event.kind = "paused" /\ uiPaused' = TRUE
        /\ UNCHANGED <<uiWait, activated>>
     \/ /\ event.kind = "resumed" /\ uiPaused' = FALSE
        /\ UNCHANGED <<uiWait, activated>>
  /\ UNCHANGED <<gestures, shutBy, commands, workerAt, client, inbox, outbox, runtime,
                 handled>>
-----------------------------------------------------------------------------
(* The worker handles a gesture: RuntimeWorker._process_command *)

WaitEvent(wait) == [kind |-> "wait", wait |-> wait]
Rejected(wait) == [kind |-> "rejected", wait |-> wait]
Handling(gesture, madeFor, wait) ==
  [gesture |-> gesture, madeFor |-> madeFor, wait |-> wait]
Input(gesture, madeFor, wait, kind, retries) ==
  [id |-> nextMessageId, gesture |-> gesture, madeFor |-> madeFor, wait |-> wait,
   kind |-> kind, retries |-> retries]

\* _input_messages forgets its oldest input when it is full.
ForgetsNone(inputs) == inputs
Tracked(inputs) ==
  IF Cardinality(inputs) < MaxTracked THEN inputs
  ELSE inputs \ {CHOOSE i \in inputs : \A j \in inputs : i.id <= j.id}

\* _submit_input
SubmitInput(input, remaining) ==
  /\ inbox' = Append(inbox, input)
  /\ inputMessages' = Tracked(remaining) \cup {input}
  /\ nextMessageId' = nextMessageId + 1
  /\ handled' = handled \cup {Handling(input.gesture, input.madeFor, input.wait)}

\* What submit_text, activate and skip_message_waits drop without an answer:
\* the pause, no wait, a text that does not fit a raw wait, a skip of no message.
Dropped(kind) ==
  \/ kind # "skip" /\ paused
  \/ activeWait = NoWait
  \/ activeWait # NoWait /\ kind = "text" /\ KindOf[activeWait] = "raw"
  \/ activeWait # NoWait /\ kind = "skip" /\ KindOf[activeWait] # "message"
\* ... but a text may also fit a raw wait.
Accepted(kind) ==
  /\ activeWait # NoWait
  /\ kind # "skip" => ~paused
  /\ kind = "skip" => KindOf[activeWait] = "message"

ProcessGesture ==
  LET command == Head(commands) IN
  /\ workerAt = "idle" /\ commands # <<>> /\ commands' = Tail(commands)
  /\ command.kind # "undo"
  /\ \/ /\ Dropped(command.kind)
        /\ UNCHANGED <<inbox, inputMessages, nextMessageId, handled>>
     \/ /\ Accepted(command.kind)
        /\ SubmitInput(Input(command.gesture, command.wait, activeWait,
                             KindOf[activeWait], 0), inputMessages)
  /\ UNCHANGED <<app, events, workerAt, activeWait, paused, dirty, outbox, runtime>>

\* input_undo: the request is not an input and is not tracked as one.
ProcessUndo ==
  /\ workerAt = "idle" /\ commands # <<>> /\ Head(commands).kind = "undo"
  /\ commands' = Tail(commands)
  /\ inbox' = Append(inbox, [Input(Head(commands).gesture, Head(commands).wait,
                                   NoWait, "undo", 0) EXCEPT !.id = nextMessageId])
  /\ nextMessageId' = nextMessageId + 1
  /\ UNCHANGED <<app, events, workerAt, activeWait, paused, dirty, inputMessages, outbox,
                 runtime, handled>>

\* Handling the gesture raises: the gate of the client's wait is opened.
ReportsNothing == events
ReportsRejection ==
  IF activeWait = NoWait THEN events ELSE Append(events, Rejected(activeWait))

FailGesture ==
  /\ Failures /\ workerAt = "idle" /\ commands # <<>>
  /\ commands' = Tail(commands)
  /\ events' = ReportsRejection
  /\ handled' = handled \cup {Handling(Head(commands).gesture, Head(commands).wait,
                                       activeWait)}
  /\ UNCHANGED <<app, workerAt, client, inbox, outbox, runtime>>
-----------------------------------------------------------------------------
(* The worker pumps: drive, poll until nothing is left, publish *)

BeginDrive ==
  /\ workerAt = "idle" /\ workerAt' = "driving"
  /\ UNCHANGED <<app, commands, events, client, inbox, outbox, runtime, handled>>

EndDrive ==
  /\ workerAt = "driving" /\ workerAt' = "polling"
  /\ UNCHANGED <<app, commands, events, client, inbox, outbox, runtime, handled>>

\* _set_active_wait, from a wait change, a delta or a snapshot.
HandleWait(wait) ==
  /\ activeWait' = wait /\ dirty' = (dirty \/ wait # activeWait)
  /\ UNCHANGED <<events, paused, inputMessages, nextMessageId, inbox, handled>>

\* StateChanged, and the debugger's stop.
HandlePause(isPaused) ==
  /\ paused' = isPaused
  /\ events' = Append(events,
       [kind |-> IF isPaused THEN "paused" ELSE "resumed", wait |-> NoWait])
  /\ UNCHANGED <<activeWait, dirty, inputMessages, nextMessageId, inbox, handled>>

\* _retry_stale_input: once, and only on another wait of the same kind.
CarriesAnyKind(input) ==
  input.retries = 0 /\ activeWait # NoWait /\ activeWait # input.wait
Carries(input) ==
  /\ input.retries = 0 /\ activeWait # NoWait /\ activeWait # input.wait
  /\ KindOf[activeWait] = input.kind

\* _handle_command_rejection, of a tracked input and of anything else.
HandleRejection(id, stale) ==
  LET input == CHOOSE i \in inputMessages : i.id = id
      rest == inputMessages \ {input}
  IN
  /\ IF \A i \in inputMessages : i.id # id
     THEN UNCHANGED <<events, inputMessages, nextMessageId, inbox, handled>>
     ELSE \/ /\ stale /\ Carries(input)
             /\ SubmitInput(Input(input.gesture, input.madeFor, activeWait,
                                  input.kind, 1), rest)
             /\ UNCHANGED events
          \/ /\ ~(stale /\ Carries(input))
             /\ events' = Append(events, Rejected(input.wait))
             /\ inputMessages' = rest
             /\ UNCHANGED <<nextMessageId, inbox, handled>>
  /\ UNCHANGED <<activeWait, paused, dirty>>

HandleOutput ==
  LET output == Head(outbox) IN
  /\ workerAt = "polling" /\ outbox # <<>> /\ outbox' = Tail(outbox)
  /\ \/ output.kind = "wait" /\ HandleWait(output.wait)
     \/ output.kind = "pause" /\ HandlePause(output.flag)
     \/ output.kind = "reject" /\ HandleRejection(output.id, output.flag)
  /\ UNCHANGED <<app, commands, workerAt, runtime>>

\* _flush_presentation_events: the wait reaches the app once per pump.
FlushPresentation ==
  /\ workerAt = "polling" /\ outbox = <<>> /\ workerAt' = "idle"
  /\ events' = IF dirty THEN Append(events, WaitEvent(activeWait)) ELSE events
  /\ dirty' = FALSE
  /\ UNCHANGED <<app, commands, activeWait, paused, inputMessages, nextMessageId, inbox,
                 outbox, runtime, handled>>
-----------------------------------------------------------------------------
(* The runtime, external *)

Output(kind, wait, id, flag) == [kind |-> kind, wait |-> wait, id |-> id, flag |-> flag]
Driven == workerAt = "driving"

RtOpen ==
  /\ Driven /\ ~rtPaused /\ rtWait = NoWait /\ opened + 1 \in Waits
  /\ rtWait' = opened + 1 /\ opened' = opened + 1
  /\ outbox' = Append(outbox, Output("wait", opened + 1, 0, FALSE))
  /\ UNCHANGED <<app, commands, events, workerAt, client, inbox, rtPaused, answered,
                 pauses, handled>>

RtExpire ==
  /\ Driven /\ ~rtPaused /\ rtWait \in Timed
  /\ rtWait' = NoWait
  /\ outbox' = Append(outbox, Output("wait", NoWait, 0, FALSE))
  /\ UNCHANGED <<app, commands, events, workerAt, client, inbox, rtPaused, opened,
                 answered, pauses, handled>>

\* An input, or an undo, is accepted and ends the open wait, or is rejected:
\* as stale when it names another wait, for its value or state otherwise.
RtTake ==
  LET input == Head(inbox) IN
  /\ Driven /\ ~rtPaused /\ inbox # <<>> /\ inbox' = Tail(inbox)
  /\ \/ /\ rtWait # NoWait /\ (input.wait = rtWait \/ input.kind = "undo")
        /\ rtWait' = NoWait
        /\ answered' = IF input.kind # "undo" /\ input.wait = input.madeFor
                       THEN answered \cup {input.wait} ELSE answered
        /\ outbox' = Append(outbox, Output("wait", NoWait, 0, FALSE))
     \/ /\ outbox' = Append(outbox, Output("reject", NoWait, input.id,
                              input.wait # rtWait /\ input.kind # "undo"))
        /\ UNCHANGED <<rtWait, answered>>
  /\ UNCHANGED <<app, commands, events, workerAt, client, rtPaused, opened, pauses,
                 handled>>

RtPause ==
  /\ Driven /\ pauses < MaxPauses /\ pauses' = pauses + 1
  /\ rtPaused' = ~rtPaused
  /\ outbox' = Append(outbox, Output("pause", NoWait, 0, ~rtPaused))
  /\ UNCHANGED <<app, commands, events, workerAt, client, inbox, rtWait, opened, answered,
                 handled>>
-----------------------------------------------------------------------------
Init ==
  /\ uiWait = NoWait /\ activated = NoWait /\ uiPaused = FALSE
  /\ gestures = 0 /\ shutBy = "none"
  /\ commands = <<>> /\ events = <<>> /\ workerAt = "idle"
  /\ activeWait = NoWait /\ paused = FALSE /\ dirty = FALSE
  /\ inputMessages = {} /\ nextMessageId = 1
  /\ inbox = <<>> /\ outbox = <<>>
  /\ rtWait = NoWait /\ rtPaused = FALSE /\ opened = 0 /\ answered = {}
  /\ pauses = 0
  /\ handled = {}

App == Gesture \/ HandleEvent
Pump == BeginDrive \/ EndDrive \/ HandleOutput \/ FlushPresentation
Worker == ProcessGesture \/ ProcessUndo \/ FailGesture \/ Pump
Runtime == RtOpen \/ RtExpire \/ RtTake \/ RtPause

Next == App \/ Worker \/ Runtime
Spec == Init /\ [][Next]_vars

\* The app drains its events, the worker alternates commands and pumps, and
\* the runtime takes its inputs while driven.
Fairness ==
  /\ WF_vars(HandleEvent)
  /\ SF_vars(ProcessGesture \/ ProcessUndo) /\ WF_vars(Pump) /\ SF_vars(RtTake)

FairSpec == Spec /\ Fairness
-----------------------------------------------------------------------------
(* Properties *)

InputType ==
  [id : Nat, gesture : 1..MaxGestures, madeFor : Waits, wait : Waits \cup {NoWait},
   kind : {"message", "value", "raw", "undo"}, retries : {0, 1}]

FlagTypes ==
  /\ uiPaused \in BOOLEAN /\ paused \in BOOLEAN /\ rtPaused \in BOOLEAN
  /\ dirty \in BOOLEAN

ValueTypes ==
  /\ {uiWait, activated, activeWait, rtWait} \subseteq Waits \cup {NoWait}
  /\ opened \in Waits \cup {NoWait} /\ answered \subseteq Waits
  /\ workerAt \in {"idle", "driving", "polling"}
  /\ gestures \in 0..MaxGestures /\ shutBy \in Gestures \cup {"none"}
  /\ pauses \in 0..MaxPauses /\ nextMessageId \in Nat
  /\ commands \in Seq([kind : Gestures, gesture : 1..MaxGestures, wait : Waits])
  /\ events \in Seq([kind : {"wait", "rejected", "paused", "resumed"},
                      wait : Waits \cup {NoWait}])
  /\ inputMessages \subseteq InputType /\ inbox \in Seq(InputType)
  /\ outbox \in Seq([kind : {"wait", "pause", "reject"}, wait : Waits \cup {NoWait},
                      id : Nat, flag : BOOLEAN])
  /\ handled \subseteq [gesture : 1..MaxGestures, madeFor : Waits,
                         wait : Waits \cup {NoWait}]

\* No more inputs are remembered than the worker has room for.
TrackedBounded == IsFiniteSet(inputMessages) /\ Cardinality(inputMessages) <= MaxTracked

TypeOK == FlagTypes /\ ValueTypes /\ TrackedBounded

GateShut == uiWait # NoWait /\ activated = uiWait

\* A gesture is submitted to two waits at most, and to the second only when it
\* is of the kind the input was formed for.
RetryDisciplined ==
  /\ \A g \in 1..MaxGestures : Cardinality({h \in handled : h.gesture = g}) <= 2
  /\ \A i \in DOMAIN inbox : inbox[i].kind = "undo" \/ inbox[i].kind = KindOf[inbox[i].wait]

\* Once the runtime accepted the user's answer to a wait, the app does not ask
\* for that answer again, however late it learns of it: unless a gesture made
\* for another wait was handled for this one, only the end of the wait opens the
\* gate.
AnsweredStaysShut ==
  \A wait \in answered :
    uiWait = wait /\ (\A h \in handled : h.wait = wait => h.madeFor = wait)
      => activated = wait

\* Unless a debugger holds the game, a gate that was shut opens again: the wait
\* ends, or the app is told the gesture was rejected.  Not so for the gestures
\* of EveryGateReleases.
Answerable == shutBy # "undo" /\ ~(shutBy = "text" /\ KindOf[uiWait] = "raw")
GateReleases == GateShut /\ Answerable ~> ~GateShut \/ uiPaused

\* The same of every gesture, a text for a raw wait and an undo included.
EveryGateReleases == GateShut ~> ~GateShut \/ uiPaused
=============================================================================
