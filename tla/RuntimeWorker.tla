---------------------------- MODULE RuntimeWorker ----------------------------
(***************************************************************************)
(* The thread that owns the runtime (worker.py) and the UI thread that     *)
(* talks to it (app_worker.py, app_shell.py, app_interaction.py).  They    *)
(* share two bounded queues: commands, which the UI never waits for, and   *)
(* events, which the worker does wait for.  Publishing an event nudges the *)
(* UI through a coalesced notification.  Leaving the app stops the worker  *)
(* and joins it on the UI thread.                                          *)
(* What a command or a pump does is abstracted to how many events it       *)
(* publishes.  A step is what one thread does between two points where the *)
(* other can interfere: a queue operation or a critical section.           *)
(***************************************************************************)
EXTENDS Naturals, Sequences, FiniteSets

CONSTANTS
  CommandCapacity,  \* MAX_WORKER_COMMANDS
  EventCapacity,    \* MAX_WORKER_EVENTS
  CommandBatch,     \* commands one _process_commands takes (64)
  DrainBatch,       \* events one _drain_worker_events takes (1000)
  Bursts,           \* numbers of events one command, pump or failure publishes
  MaxProjections    \* bound: projections the UI sends

ASSUME CapacityAssumption ==
  /\ CommandCapacity \in Nat \ {0} /\ EventCapacity \in Nat \ {0}
  /\ CommandBatch \in Nat \ {0} /\ DrainBatch \in Nat \ {0}
  /\ Bursts \subseteq Nat /\ MaxProjections \in Nat

VARIABLES
  commands,             \* commands
  events,               \* events
  pendingProjection,    \* _pending_projection; 0 stands for None
  projectionQueued,     \* _projection_command_queued
  stopRequested,        \* _stop_requested
  notifier,             \* _event_notifier is installed
  drainPending,         \* _worker_event_notification_pending
  drainScheduled,       \* a drain callback is in the UI's message queue
  workerAt, command, processed,  \* where run() is, the command it runs, and how
                        \* many this _process_commands took
  backlog, then,        \* events run() has still to publish, where it goes next
  applied,              \* the last projection handed to the client
  shutdown,             \* what the runtime knows of the shutdown request
  abi, failed,          \* the session of the C ABI: "none", "open", "closed", or
                        \* "unclosed" after a close that failed; run() caught an exception
  uiAt, uiThen, drained,  \* where the UI thread is, where stop() returns to, and
                        \* the events this drain took
  exitPending, exiting, \* exit_pending; App.exit was called
  projections,          \* projections sent
  reportSeen            \* the UI handled the worker's error report

queues == <<commands, events>>
projection == <<pendingProjection, projectionQueued, projections, applied>>
notification == <<notifier, drainPending, drainScheduled>>
work == <<workerAt, command, processed, backlog, then, shutdown, abi, failed>>
ui == <<uiAt, uiThen, drained, exitPending, exiting, reportSeen>>
workerVars == <<queues, projection, notification, stopRequested, work, ui>>

WorkerCommands == {"other", "projection", "shutdown"}
\* "report" is the error that ended run(), a "warning" what failed in its finally clause.
TerminalKinds == {"report", "warning", "worker_stopped"}
EventKinds == {"data", "shutdown_ready"} \cup TerminalKinds

Occurrences(kind, queue) == Cardinality({i \in DOMAIN queue : queue[i] = kind})
-----------------------------------------------------------------------------
(* The UI sends commands: RuntimeWorker.send *)

UiIdle == uiAt = "running"

\* put_nowait: a full queue raises in a handler of the app, which ends the app.
Send(kind) ==
  \/ /\ Len(commands) < CommandCapacity
     /\ commands' = Append(commands, kind) /\ UNCHANGED exiting
  \/ /\ Len(commands) >= CommandCapacity
     /\ exiting' = TRUE /\ UNCHANGED commands

SendCommand ==
  /\ UiIdle /\ Send("other")
  /\ UNCHANGED <<events, projection, notification, stopRequested, work, uiAt, uiThen,
                 drained, exitPending, reportSeen>>

\* The first half of sending a projection, under the lock: newer replaces
\* older, and one queued command stands for all.
KeepsOlder(newer) == IF projectionQueued THEN pendingProjection ELSE newer
Stored(newer) == newer

StoreProjection ==
  /\ UiIdle /\ projections < MaxProjections
  /\ projections' = projections + 1
  /\ pendingProjection' = Stored(projections + 1)
  /\ projectionQueued' = TRUE
  /\ uiAt' = IF projectionQueued THEN "running" ELSE "queueing"
  /\ UNCHANGED <<queues, applied, notification, stopRequested, work, uiThen, drained,
                 exitPending, exiting, reportSeen>>

\* The second half: put_nowait, giving the claim back when the queue is full.
ClaimWhenFull == FALSE

QueueProjection ==
  /\ uiAt = "queueing" /\ uiAt' = "running"
  /\ \/ /\ Len(commands) < CommandCapacity
        /\ commands' = Append(commands, "projection")
        /\ UNCHANGED projectionQueued
     \/ /\ Len(commands) >= CommandCapacity
        /\ projectionQueued' = ClaimWhenFull
        /\ UNCHANGED commands
  /\ UNCHANGED <<events, pendingProjection, projections, applied, notification,
                 stopRequested, work, uiThen, drained, exitPending, exiting, reportSeen>>

\* action_request_quit: ask the runtime to shut down; a timer backs it up.
RequestQuit ==
  /\ UiIdle /\ ~exitPending /\ exitPending' = TRUE
  /\ Send("shutdown")
  /\ UNCHANGED <<events, projection, notification, stopRequested, work, uiAt, uiThen,
                 drained, reportSeen>>
-----------------------------------------------------------------------------
(* The UI drains events *)

\* The scheduled callback.
BeginDrain ==
  /\ UiIdle /\ drainScheduled /\ drainScheduled' = FALSE
  /\ uiAt' = "draining" /\ drained' = 0
  /\ UNCHANGED <<queues, projection, notifier, drainPending, stopRequested, work,
                 uiThen, exitPending, exiting, reportSeen>>

\* The interval timer drains too, without touching the notification.
BeginPoll ==
  /\ UiIdle /\ events # <<>>
  /\ uiAt' = "polling" /\ drained' = 0
  /\ UNCHANGED <<queues, projection, notification, stopRequested, work, uiThen,
                 exitPending, exiting, reportSeen>>

\* One event of _drain_worker_events.
DrainEvent ==
  LET event == Head(events) IN
  /\ uiAt \in {"draining", "polling"} /\ events # <<>> /\ drained < DrainBatch
  /\ events' = Tail(events) /\ drained' = drained + 1
  /\ \/ /\ event = "shutdown_ready"
        /\ uiThen' = uiAt /\ uiAt' = "stop"
     \/ /\ event # "shutdown_ready"
        /\ UNCHANGED <<uiAt, uiThen>>
  /\ exiting' = (exiting \/ (event \in {"shutdown_ready", "worker_stopped"} /\ exitPending))
  /\ reportSeen' = (reportSeen \/ event = "report")
  /\ UNCHANGED <<commands, projection, notification, stopRequested, work, exitPending>>

\* The queue is empty or the batch is full: a notified drain looks again.
EndDrain ==
  /\ uiAt \in {"draining", "polling"}
  /\ events = <<>> \/ drained = DrainBatch
  /\ uiAt' = IF uiAt = "draining" THEN "rechecking" ELSE "running"
  /\ drained' = 0
  /\ UNCHANGED <<queues, projection, notification, stopRequested, work, uiThen,
                 exitPending, exiting, reportSeen>>

\* The critical section that closes _drain_notified_worker_events: what was
\* published meanwhile schedules another drain.
NeverReschedules == FALSE
Reschedule == events # <<>>

RecheckEvents ==
  /\ uiAt = "rechecking" /\ uiAt' = "running"
  /\ drainPending' = Reschedule
  /\ drainScheduled' = (drainScheduled \/ Reschedule)
  /\ UNCHANGED <<queues, projection, notifier, stopRequested, work, uiThen, drained,
                 exitPending, exiting, reportSeen>>
-----------------------------------------------------------------------------
(* The UI stops the worker *)

\* The three-second timer of action_request_quit.
ForceExit ==
  /\ UiIdle /\ exitPending
  /\ uiAt' = "stop" /\ uiThen' = "running" /\ exiting' = TRUE
  /\ UNCHANGED <<queues, projection, notification, stopRequested, work, drained,
                 exitPending, reportSeen>>

\* on_unmount: take the notifier away, then shutdown() = stop() and join().
Unmount ==
  /\ UiIdle /\ exiting
  /\ notifier' = FALSE
  /\ uiAt' = "stop" /\ uiThen' = "joining"
  /\ UNCHANGED <<queues, projection, drainPending, drainScheduled, stopRequested, work,
                 drained, exitPending, exiting, reportSeen>>

\* stop() step by step: the flag, the events, the commands, the projection.
FlagForgotten == stopRequested
FlagSet == TRUE

StopRequest ==
  /\ uiAt = "stop" /\ uiAt' = "stopEvents"
  /\ stopRequested' = FlagSet
  /\ UNCHANGED <<queues, projection, notification, work, uiThen, drained, exitPending,
                 exiting, reportSeen>>

StopEvents ==
  /\ uiAt = "stopEvents"
  /\ \/ events # <<>> /\ events' = Tail(events) /\ UNCHANGED uiAt
     \/ events = <<>> /\ uiAt' = "stopCommands" /\ UNCHANGED events
  /\ UNCHANGED <<commands, projection, notification, stopRequested, work, uiThen,
                 drained, exitPending, exiting, reportSeen>>

StopCommands ==
  /\ uiAt = "stopCommands"
  /\ \/ commands # <<>> /\ commands' = Tail(commands) /\ UNCHANGED uiAt
     \/ commands = <<>> /\ uiAt' = "stopProjection" /\ UNCHANGED commands
  /\ UNCHANGED <<events, projection, notification, stopRequested, work, uiThen,
                 drained, exitPending, exiting, reportSeen>>

StopProjection ==
  /\ uiAt = "stopProjection" /\ uiAt' = uiThen /\ uiThen' = "running"
  /\ pendingProjection' = 0 /\ projectionQueued' = FALSE
  /\ UNCHANGED <<queues, projections, applied, notification, stopRequested, work,
                 drained, exitPending, exiting, reportSeen>>

\* Thread.join returns once run() has.
Join ==
  /\ uiAt = "joining" /\ workerAt = "stopped"
  /\ uiAt' = "gone"
  /\ UNCHANGED <<queues, projection, notification, stopRequested, work, uiThen, drained,
                 exitPending, exiting, reportSeen>>
-----------------------------------------------------------------------------
(* The worker: RuntimeWorker.run *)

DataBursts == {[i \in 1..n |-> "data"] : n \in Bursts}
\* Nothing that publishes runs on while the burst waits; "next" follows it.
Publishing(burst, next) == workerAt' = "publishing" /\ backlog' = burst /\ then' = next

\* Open the ABI, build the client and load the initial project.
Open ==
  /\ workerAt = "starting"
  /\ abi' = "open"
  /\ \E burst \in DataBursts :
       \/ Publishing(burst, "checking")
       \* InterruptedError of a scan that saw the stop flag: nothing is reported
       \/ stopRequested /\ Publishing(burst, "closing")
  /\ UNCHANGED <<queues, projection, notification, stopRequested, command, processed,
                 shutdown, failed, ui>>

\* An exception reaches run(): release the exports, fail the startup, report.
\* The ABI may be what could not be opened.
Fail ==
  /\ workerAt \in {"starting", "pumping"}
  /\ failed' = TRUE
  /\ abi' \in (IF workerAt = "starting" THEN {"none", "open"} ELSE {abi})
  /\ \E burst \in DataBursts : Publishing(Append(burst, "report"), "closing")
  /\ UNCHANGED <<queues, projection, notification, stopRequested, command, processed,
                 shutdown, ui>>

\* while not self._stop_requested.is_set()
CheckStop ==
  /\ workerAt = "checking"
  /\ workerAt' = IF stopRequested THEN "closing" ELSE "commands"
  /\ processed' = 0
  /\ UNCHANGED <<queues, projection, notification, stopRequested, command, backlog,
                 then, shutdown, abi, failed, ui>>

\* _process_commands, and the command waited for when there is nothing to pump.
TakeCommand ==
  /\ \/ workerAt = "commands" /\ processed < CommandBatch /\ then' = "commands"
     \/ workerAt = "waiting" /\ then' = "checking"
  /\ commands # <<>>
  /\ command' = Head(commands) /\ commands' = Tail(commands)
  /\ processed' = processed + 1
  /\ workerAt' = "executing"
  /\ UNCHANGED <<events, projection, notification, stopRequested, backlog, shutdown,
                 abi, failed, ui>>

\* _process_command: it reports its own failures as data, so it always returns.
Execute ==
  /\ workerAt = "executing"
  /\ \E burst \in DataBursts : Publishing(burst, then)
  /\ command' = "none"
  /\ IF command = "projection"
     THEN /\ pendingProjection' = 0 /\ projectionQueued' = FALSE
          /\ applied' = IF pendingProjection = 0 THEN applied ELSE pendingProjection
     ELSE UNCHANGED <<pendingProjection, projectionQueued, applied>>
  /\ shutdown' = IF command = "shutdown" /\ shutdown = "none" THEN "asked" ELSE shutdown
  /\ UNCHANGED <<queues, projections, notification, stopRequested, processed, abi,
                 failed, ui>>

\* No command is left or the batch is full; a session being reset is not pumped.
EndCommands ==
  /\ workerAt = "commands"
  /\ commands = <<>> \/ processed = CommandBatch
  /\ workerAt' \in {"pumping", "waiting"} /\ processed' = 0
  /\ UNCHANGED <<queues, projection, notification, stopRequested, command, backlog,
                 then, shutdown, abi, failed, ui>>

\* pump and maybe_refresh_compiled_cache.  Once asked, the runtime may be ready
\* to shut down.  A busy runtime is pumped again at once.
PumpClient ==
  /\ workerAt = "pumping"
  /\ \E burst \in DataBursts, next \in {"checking", "waiting"} :
       \/ Publishing(burst, next) /\ UNCHANGED shutdown
       \/ /\ shutdown = "asked" /\ shutdown' = "ready"
          /\ Publishing(Append(burst, "shutdown_ready"), next)
  /\ UNCHANGED <<queues, projection, notification, stopRequested, command, processed,
                 abi, failed, ui>>

WaitTimeout ==
  /\ workerAt = "waiting" /\ commands = <<>>
  /\ workerAt' = "checking"
  /\ UNCHANGED <<queues, projection, notification, stopRequested, command, processed,
                 backlog, then, shutdown, abi, failed, ui>>

\* events.put: it blocks while the queue is full.
AlwaysRoom == TRUE
RoomForEvent == Len(events) < EventCapacity

Publish ==
  /\ workerAt = "publishing" /\ backlog # <<>> /\ Head(backlog) \notin TerminalKinds
  /\ RoomForEvent
  /\ events' = Append(events, Head(backlog)) /\ backlog' = Tail(backlog)
  /\ workerAt' = "notifying"
  /\ UNCHANGED <<commands, projection, notification, stopRequested, command, processed,
                 then, shutdown, abi, failed, ui>>

\* _emit_terminal_event: it never blocks, a full queue loses its oldest event.
DropNewest(queue) == SubSeq(queue, 1, Len(queue) - 1)
MakeRoom(queue) == Tail(queue)

PublishTerminal ==
  /\ workerAt = "publishing" /\ backlog # <<>> /\ Head(backlog) \in TerminalKinds
  /\ \/ /\ Len(events) < EventCapacity
        /\ events' = Append(events, Head(backlog)) /\ backlog' = Tail(backlog)
        /\ workerAt' = "notifying"
     \/ /\ Len(events) >= EventCapacity
        /\ events' = MakeRoom(events) /\ UNCHANGED <<backlog, workerAt>>
  /\ UNCHANGED <<commands, projection, notification, stopRequested, command, processed,
                 then, shutdown, abi, failed, ui>>

\* _notify_worker_events: one drain at a time is asked for ...
Notify ==
  /\ workerAt = "notifying"
  /\ IF notifier /\ ~drainPending
     THEN drainPending' = TRUE /\ workerAt' = "posting"
     ELSE workerAt' = "publishing" /\ UNCHANGED drainPending
  /\ UNCHANGED <<queues, projection, notifier, drainScheduled, stopRequested, command,
                 processed, backlog, then, shutdown, abi, failed, ui>>

\* ... by a message that an app on its way out may refuse.
Post ==
  /\ workerAt = "posting" /\ workerAt' = "publishing"
  /\ \/ drainScheduled' = TRUE /\ UNCHANGED drainPending
     \/ exiting /\ drainPending' = FALSE /\ UNCHANGED drainScheduled
  /\ UNCHANGED <<queues, projection, notifier, stopRequested, command, processed,
                 backlog, then, shutdown, abi, failed, ui>>

EndPublishing ==
  /\ workerAt = "publishing" /\ backlog = <<>>
  /\ workerAt' = then /\ then' = "checking"
  /\ UNCHANGED <<queues, projection, notification, stopRequested, command, processed,
                 backlog, shutdown, abi, failed, ui>>

\* The finally clause: close the ABI and reset the wire state; each may fail,
\* with a warning of its own, and a close that failed leaves the session open.
Warnings(closed) ==
  IF closed THEN {<<>>, <<"warning">>} ELSE {<<"warning">>, <<"warning", "warning">>}

Close ==
  /\ workerAt = "closing"
  /\ \/ abi = "open" /\ abi' \in {"closed", "unclosed"}
        /\ \E burst \in Warnings(abi' = "closed") : Publishing(burst, "emptying")
     \/ abi # "open" /\ UNCHANGED abi /\ Publishing(<<>>, "emptying")
  /\ UNCHANGED <<queues, projection, notification, stopRequested, command, processed,
                 shutdown, failed, ui>>

\* ... and then drain the commands and say so.
EmptyCommands ==
  /\ workerAt = "emptying"
  /\ commands' = <<>>
  /\ Publishing(<<"worker_stopped">>, "stopped")
  /\ UNCHANGED <<events, projection, notification, stopRequested, command, processed,
                 shutdown, abi, failed, ui>>
-----------------------------------------------------------------------------
WorkerInit ==
  /\ commands = <<>> /\ events = <<>>
  /\ pendingProjection = 0 /\ projectionQueued = FALSE /\ projections = 0 /\ applied = 0
  /\ stopRequested = FALSE
  /\ notifier = TRUE /\ drainPending = FALSE /\ drainScheduled = FALSE
  /\ workerAt = "starting" /\ command = "none" /\ processed = 0
  /\ backlog = <<>> /\ then = "checking"
  /\ shutdown = "none" /\ abi = "none" /\ failed = FALSE
  /\ uiAt = "running" /\ uiThen = "running" /\ drained = 0
  /\ exitPending = FALSE /\ exiting = FALSE /\ reportSeen = FALSE

Drains == BeginDrain \/ BeginPoll \/ DrainEvent \/ EndDrain \/ RecheckEvents
Stops == StopRequest \/ StopEvents \/ StopCommands \/ StopProjection
Ui ==
  \/ SendCommand \/ StoreProjection \/ QueueProjection \/ RequestQuit
  \/ Drains
  \/ ForceExit \/ Unmount \/ Stops \/ Join
Worker ==
  \/ Open \/ Fail \/ CheckStop
  \/ TakeCommand \/ Execute \/ EndCommands \/ PumpClient \/ WaitTimeout
  \/ Publish \/ PublishTerminal \/ Notify \/ Post \/ EndPublishing
  \/ Close \/ EmptyCommands
\* The process has left: both threads are done.
Gone == uiAt = "gone" /\ UNCHANGED workerVars

WorkerNext == Ui \/ Worker \/ Gone

WorkerSpec == WorkerInit /\ [][WorkerNext]_workerVars

\* Both threads run, and an app between two callbacks again and again comes to
\* the timer and the close request it was given, once each; that it drains
\* events is not relied on.
Leaves == (ForceExit /\ ~exiting) \/ Unmount
WorkerFairness ==
  /\ WF_workerVars(Worker)
  /\ WF_workerVars(QueueProjection \/ DrainEvent \/ EndDrain \/ RecheckEvents \/ Stops \/ Join)
  /\ SF_workerVars(Leaves)

WorkerFairSpec == WorkerSpec /\ WorkerFairness
-----------------------------------------------------------------------------
(* Properties *)

FlagTypes ==
  /\ projectionQueued \in BOOLEAN /\ stopRequested \in BOOLEAN /\ notifier \in BOOLEAN
  /\ drainPending \in BOOLEAN /\ drainScheduled \in BOOLEAN
  /\ failed \in BOOLEAN /\ reportSeen \in BOOLEAN
  /\ exitPending \in BOOLEAN /\ exiting \in BOOLEAN
ValueTypes ==
  /\ commands \in Seq(WorkerCommands) /\ Len(commands) <= CommandCapacity
  /\ events \in Seq(EventKinds) /\ Len(events) <= EventCapacity
  /\ pendingProjection \in 0..MaxProjections /\ projections \in 0..MaxProjections
  /\ applied \in 0..MaxProjections
  /\ workerAt \in {"starting", "checking", "commands", "executing", "pumping", "waiting",
                   "publishing", "notifying", "posting", "closing", "emptying", "stopped"}
  /\ command \in WorkerCommands \cup {"none"} /\ processed \in 0..CommandBatch + 1
  /\ backlog \in Seq(EventKinds)
  /\ then \in {"checking", "waiting", "commands", "closing", "emptying", "stopped"}
  /\ shutdown \in {"none", "asked", "ready"} /\ abi \in {"none", "open", "closed", "unclosed"}
  /\ uiAt \in {"running", "queueing", "draining", "polling", "rechecking", "stop",
               "stopEvents", "stopCommands", "stopProjection", "joining", "gone"}
  /\ uiThen \in {"running", "draining", "polling", "joining"}
  /\ drained \in 0..DrainBatch
WorkerTypeOK == FlagTypes /\ ValueTypes

Stopping == {"stop", "stopEvents", "stopCommands", "stopProjection"}
Ending == {"closing", "emptying", "stopped"}
Draining(at) == at \in {"draining", "rechecking"}
Leaving == uiAt \in {"joining", "gone"} \/ (uiAt \in Stopping /\ uiThen = "joining")

\* While the app is not leaving, an event in the queue has a drain under way,
\* a drain scheduled, or a worker that is about to ask for one: coalescing
\* notifications never strands an event, even without the interval timer.
NoLostWakeup ==
  events # <<>> /\ notifier /\ ~exiting =>
    \/ drainScheduled
    \/ Draining(uiAt) \/ (uiAt \in Stopping /\ Draining(uiThen))
    \/ workerAt \in {"notifying", "posting"}

\* While the worker serves commands, the claim flag is up exactly when one
\* projection command, and no other, is on its way to the client; what it will
\* find there is the newest projection, and nothing pending means it arrived.
ProjectionCoalesced ==
  ~stopRequested /\ uiAt # "stop" /\ workerAt \notin Ending /\ then \notin Ending =>
    /\ Occurrences("projection", commands)
         + (IF command = "projection" THEN 1 ELSE 0)
         + (IF uiAt = "queueing" THEN 1 ELSE 0) = (IF projectionQueued THEN 1 ELSE 0)
    /\ projectionQueued => pendingProjection = projections
    /\ pendingProjection = 0 => applied = projections

\* A worker that failed has told the UI so, or the report of the failure itself
\* is still in the queue: full as that may be, what is published after it, two
\* warnings and the end, does not push it out, unless the app told the worker to
\* stop.
FailureReported ==
  workerAt = "stopped" /\ failed /\ ~stopRequested =>
    reportSeen \/ Occurrences("report", events) > 0

\* Leaving the app returns, with the session of the C ABI closed or the attempt
\* made: the worker's stop and join on the UI thread is never waited for by a
\* worker that waits for the UI thread.
ShutdownReturns == exitPending ~> uiAt = "gone" /\ abi # "open"
=============================================================================
