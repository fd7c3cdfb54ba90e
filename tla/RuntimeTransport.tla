-------------------------- MODULE RuntimeTransport --------------------------
(***************************************************************************)
(* The wire boundary of RuntimeClient (runtime_transport.py and the        *)
(* service half of runtime_interaction.py).  One worker thread submits     *)
(* messages to an embedded runtime, drives it, polls its output until it   *)
(* is empty, answers the requests it found there and acknowledges the      *)
(* batch.  Three mechanisms interact:                                      *)
(*   - while a batch is being handled every submission is deferred;        *)
(*   - after a command that replaces the running game (tags 20 and 23)     *)
(*     everything but a reply is deferred until the runtime answers it;    *)
(*   - an output of another epoch moves the client to that epoch.          *)
(* The runtime is external: its steps (Rt...) happen only inside drive().  *)
(***************************************************************************)
EXTENDS Naturals, Sequences, FiniteSets

CONSTANTS
  SqlRequests,      \* service requests executed after the whole batch was read
  DeviceRequests,   \* service requests answered by a later turn of the UI loop
  PromptRequests,   \* service requests answered while they are handled
  StorageRequests,  \* storage requests, answered while they are handled
  Commands,         \* kinds of command the frontend issues
  MaxCommands,      \* bound: commands issued in a behaviour
  MaxEpoch,         \* bound: epochs the runtime reaches
  EagerDrive        \* TRUE: drive() returns only with its input consumed

Requests == SqlRequests \cup DeviceRequests \cup PromptRequests \cup StorageRequests

\* _EPOCH_TRANSITION_TAGS are "transition"; a hot reload (tag 12) also moves
\* the epoch but is not one of them; every other command is "command".
CommandKinds == {"transition", "reload", "command"}

ASSUME CommandsAssumption == Commands \subseteq CommandKinds
ASSUME BoundsAssumption == MaxCommands \in Nat /\ MaxEpoch \in Nat
ASSUME EagerAssumption == EagerDrive \in BOOLEAN
\* A request has one tag: a service request or a storage request.
ASSUME ServicesAssumption == SqlRequests \cap StorageRequests = {}

VARIABLES
  pc,               \* where the worker is: between pumps or inside one
  nextMessageId,    \* next_message_id
  deferred,         \* _deferred_runtime_messages; identifiers give the order
  flushing,         \* the local list _flush_deferred_runtime_messages walks
  epochTransition,  \* _runtime_epoch_transition
  epoch,            \* epoch; 0 stands for None
  expectedOutput,   \* expected_runtime_output
  acknowledge,      \* acknowledge_through is not None
  pendingSql,       \* keys of _pending_sql_requests
  pendingDevice,    \* keys of _pending_device_pumps
  deviceEvents,     \* "device_pump" events the UI has still to answer
  issued,           \* commands issued so far
  cancelSeen,       \* requests whose cancellation was handled
  rtInput,          \* external: submitted envelopes not yet taken
  rtOutput,         \* external: emitted envelopes not yet polled
  rtEpoch,          \* external: committed epoch
  rtTransition,     \* external: message accepted but not committed, or 0
  rtOpen,           \* external: requests raised and not settled
  rtNeeds,          \* external: open requests the transition waits for
  rtRaised,         \* external: requests raised so far
  rtAnswered,       \* external: requests a reply was taken for
  rtAcknowledged,   \* external: outputs acknowledged
  rtStale           \* external: kinds of message refused for their epoch

clientVars == <<nextMessageId, deferred, flushing, epochTransition, epoch,
                expectedOutput, acknowledge, pendingSql, pendingDevice,
                deviceEvents, issued, cancelSeen>>
rtVars == <<rtOutput, rtEpoch, rtTransition, rtOpen, rtNeeds, rtRaised,
            rtAnswered, rtAcknowledged, rtStale>>
vars == <<pc, clientVars, rtInput, rtVars>>

NoTransition == [id |-> 0, epoch |-> 0]
Kinds == CommandKinds \cup {"reply", "ack"}
Refs == Requests \cup Nat
Message == [id: Nat, kind: Kinds, ref: Refs]
Envelope == [id: Nat, kind: Kinds, ref: Refs, epoch: Nat]
Output == [kind: {"event", "rejected", "request", "cancel"}, ref: Refs, epoch: Nat]
-----------------------------------------------------------------------------
(* Submission *)

\* _submit_runtime: stamp the current epoch, hand the envelope over, remember
\* a transition together with the epoch it leaves.
SubmitRuntime(m) ==
  /\ rtInput' = Append(rtInput, [id |-> m.id, kind |-> m.kind, ref |-> m.ref,
                                 epoch |-> epoch])
  /\ epochTransition' = IF m.kind = "transition"
                        THEN [id |-> m.id, epoch |-> epoch]
                        ELSE epochTransition

\* send_runtime outside a batch.
SendRuntime(kind, ref) ==
  LET m == [id |-> nextMessageId, kind |-> kind, ref |-> ref] IN
  /\ nextMessageId' = nextMessageId + 1
  /\ \/ /\ epochTransition # NoTransition
        /\ deferred' = deferred \cup {m}
        /\ UNCHANGED <<rtInput, epochTransition>>
     \/ /\ epochTransition = NoTransition
        /\ SubmitRuntime(m)
        /\ UNCHANGED deferred

\* send_runtime while _runtime_output_batch_active: "kept" is what an earlier
\* part of the same handler left of the deferred list.
DeferRuntime(kept, kind, ref) ==
  /\ nextMessageId' = nextMessageId + 1
  /\ deferred' = kept \cup {[id |-> nextMessageId, kind |-> kind, ref |-> ref]}
-----------------------------------------------------------------------------
(* The worker between two pumps *)

\* A command from the UI, or the tick _advance_deadline sends before a drive.
IssueCommand ==
  /\ pc = "idle" /\ issued < MaxCommands
  /\ issued' = issued + 1
  /\ \E kind \in Commands : SendRuntime(kind, 0)
  /\ UNCHANGED <<pc, flushing, epoch, expectedOutput, acknowledge, pendingSql,
                 pendingDevice, deviceEvents, cancelSeen, rtVars>>

\* complete_device_pump: the UI loop turned; answer unless no longer pending.
CompleteDevicePump(r) ==
  /\ pc = "idle" /\ r \in deviceEvents
  /\ deviceEvents' = deviceEvents \ {r}
  /\ pendingDevice' = pendingDevice \ {r}
  /\ \/ r \in pendingDevice /\ SendRuntime("reply", r)
     \/ /\ r \notin pendingDevice
        /\ UNCHANGED <<nextMessageId, deferred, epochTransition, rtInput>>
  /\ UNCHANGED <<pc, flushing, epoch, expectedOutput, acknowledge, pendingSql,
                 issued, cancelSeen, rtVars>>

BeginDrive ==
  /\ pc = "idle" /\ pc' = "driving"
  /\ UNCHANGED <<clientVars, rtInput, rtVars>>

EndDrive ==
  /\ pc = "driving" /\ (EagerDrive => rtInput = <<>>)
  /\ pc' = "polling" /\ acknowledge' = FALSE
  /\ UNCHANGED <<nextMessageId, deferred, flushing, epochTransition, epoch,
                 expectedOutput, pendingSql, pendingDevice, deviceEvents, issued,
                 cancelSeen, rtInput, rtVars>>
-----------------------------------------------------------------------------
(* Polling: _handle_envelope on the oldest output *)

Polled(kinds) ==
  /\ pc = "polling" /\ rtOutput # <<>> /\ Head(rtOutput).kind \in kinds
  /\ rtOutput' = Tail(rtOutput)
  /\ expectedOutput' = expectedOutput + 1
  /\ acknowledge' = TRUE

\* An envelope of another epoch, or a rejection of the transition, ends it.
EndsTransition(o) ==
  \/ o.epoch # 0 /\ o.epoch # epochTransition.epoch
  \/ o.kind = "rejected" /\ o.ref = epochTransition.id

\* Mutant: the epoch of an envelope is not adopted.
KeepEpoch(o) ==
  /\ epochTransition' = epochTransition
  /\ epoch' = epoch

AdoptEpoch(o) ==
  /\ epochTransition' = IF epochTransition # NoTransition /\ EndsTransition(o)
                        THEN NoTransition ELSE epochTransition
  /\ epoch' = IF o.epoch = 0 THEN epoch ELSE o.epoch

\* Mutants: every request is queued as SQL; SQL work never survives an envelope.
SqlQueuesEverything(o) == IF o.kind = "request" THEN pendingSql \cup {o.ref} ELSE pendingSql
SqlDroppedByAnyEnvelope(o) == IF o.epoch # 0 /\ epoch # 0 THEN {} ELSE pendingSql

\* SQL work queued for the previous epoch is dropped when the epoch moves.
SqlAfterAdoption(o) ==
  IF o.epoch # 0 /\ epoch # 0 /\ o.epoch # epoch THEN {} ELSE pendingSql

\* A state change, report or rejection; its handler may issue a command.
HandleEvent ==
  /\ Polled({"event", "rejected"})
  /\ LET o == Head(rtOutput) IN
      /\ AdoptEpoch(o)
      /\ pendingSql' = SqlAfterAdoption(o)
      /\ \/ UNCHANGED <<issued, nextMessageId, deferred>>
         \/ /\ issued < MaxCommands /\ issued' = issued + 1
            /\ \E kind \in Commands : DeferRuntime(deferred, kind, 0)
  /\ UNCHANGED <<pc, flushing, pendingDevice, deviceEvents, cancelSeen,
                 rtInput, rtEpoch, rtTransition, rtOpen, rtNeeds, rtRaised,
                 rtAnswered, rtAcknowledged, rtStale>>

\* _handle_service and _handle_storage.
HandleRequest ==
  /\ Polled({"request"})
  /\ LET o == Head(rtOutput) IN
      /\ AdoptEpoch(o)
      /\ \/ /\ o.ref \in SqlRequests
            /\ pendingSql' = SqlAfterAdoption(o) \cup {o.ref}
            /\ UNCHANGED <<pendingDevice, deviceEvents, nextMessageId, deferred>>
         \/ /\ o.ref \in DeviceRequests
            /\ pendingSql' = SqlAfterAdoption(o)
            /\ pendingDevice' = pendingDevice \cup {o.ref}
            /\ deviceEvents' = deviceEvents \cup {o.ref}
            /\ UNCHANGED <<nextMessageId, deferred>>
         \/ /\ o.ref \in PromptRequests \cup StorageRequests
            /\ pendingSql' = SqlAfterAdoption(o)
            /\ DeferRuntime(deferred, "reply", o.ref)
            /\ UNCHANGED <<pendingDevice, deviceEvents>>
  /\ UNCHANGED <<pc, flushing, issued, cancelSeen, rtInput, rtEpoch,
                 rtTransition, rtOpen, rtNeeds, rtRaised, rtAnswered,
                 rtAcknowledged, rtStale>>

\* Mutants: a cancellation leaves the queued request, or the deferred reply.
SqlIgnoresCancel(o) == SqlAfterAdoption(o)
WithdrawNothing(r) == deferred

\* _cancel_external_request: forget the request and withdraw a reply that is
\* still deferred.  Storage requests are not cancelled.
SqlAfterCancel(o) == SqlAfterAdoption(o) \ {o.ref}

Withdraw(r) == {m \in deferred : ~(m.kind = "reply" /\ m.ref = r)}

HandleCancel ==
  /\ Polled({"cancel"})
  /\ LET o == Head(rtOutput) IN
      /\ AdoptEpoch(o)
      /\ \/ /\ o.ref \in StorageRequests
            /\ pendingSql' = SqlAfterAdoption(o)
            /\ UNCHANGED <<pendingDevice, deferred, cancelSeen>>
         \/ /\ o.ref \notin StorageRequests
            /\ pendingSql' = SqlAfterCancel(o)
            /\ pendingDevice' = pendingDevice \ {o.ref}
            /\ deferred' = Withdraw(o.ref)
            /\ cancelSeen' = cancelSeen \cup {o.ref}
  /\ UNCHANGED <<pc, nextMessageId, flushing, deviceEvents, issued, rtInput,
                 rtEpoch, rtTransition, rtOpen, rtNeeds, rtRaised, rtAnswered,
                 rtAcknowledged, rtStale>>

EndPoll ==
  /\ pc = "polling" /\ rtOutput = <<>>
  /\ pc' = "settling"
  /\ UNCHANGED <<clientVars, rtInput, rtVars>>

\* A handler raised: the batch's replies are dropped and the worker ends.
PumpFault ==
  /\ pc = "polling" /\ rtOutput # <<>>
  /\ pc' = "closed" /\ deferred' = {} /\ pendingSql' = {}
  /\ UNCHANGED <<nextMessageId, flushing, epochTransition, epoch, expectedOutput,
                 acknowledge, pendingDevice, deviceEvents, issued,
                 cancelSeen, rtInput, rtVars>>
-----------------------------------------------------------------------------
(* After the batch: SQL, acknowledgement, deferred messages *)

\* One iteration of _flush_pending_sql_requests.
ExecuteSql(r) ==
  /\ pc = "settling" /\ r \in pendingSql
  /\ pendingSql' = pendingSql \ {r}
  /\ DeferRuntime(deferred, "reply", r)
  /\ UNCHANGED <<pc, flushing, epochTransition, epoch, expectedOutput, acknowledge,
                 pendingDevice, deviceEvents, issued, cancelSeen, rtInput, rtVars>>

\* Mutant: one output too few is acknowledged.
AcknowledgeOneLess == expectedOutput - 1

\* Outputs handled so far; the acknowledgement is cumulative.
AcknowledgeThrough == expectedOutput

AcknowledgeBatch ==
  /\ pc = "settling" /\ pendingSql = {}
  /\ pc' = "acked"
  /\ \/ acknowledge /\ SendRuntime("ack", AcknowledgeThrough)
     \/ /\ ~acknowledge
        /\ UNCHANGED <<nextMessageId, deferred, epochTransition, rtInput>>
  /\ UNCHANGED <<flushing, epoch, expectedOutput, acknowledge, pendingSql,
                 pendingDevice, deviceEvents, issued, cancelSeen, rtVars>>

\* Mutant: the list is walked without being replaced.
NothingTakenOut == deferred

\* The list is replaced before it is walked.
LeftDeferred == {}

BeginFlush ==
  /\ pc = "acked" /\ pc' = "flushing"
  /\ flushing' = deferred /\ deferred' = LeftDeferred
  /\ UNCHANGED <<nextMessageId, epochTransition, epoch, expectedOutput, acknowledge,
                 pendingSql, pendingDevice, deviceEvents, issued,
                 cancelSeen, rtInput, rtVars>>

\* Mutants: the list is walked from its end; acknowledgements, or nothing at
\* all, pass a transition.
Newest(m, messages) == \A n \in messages : n.id <= m.id
HoldsAllButAcks(m) == epochTransition # NoTransition /\ m.kind \notin {"reply", "ack"}
HoldsEverything(m) == epochTransition # NoTransition

Oldest(m, messages) == \A n \in messages : m.id <= n.id

\* Only the replies a transition may itself be waiting for pass it
\* (_EPOCH_TRANSITION_REPLY_TAGS).
HeldBack(m) == epochTransition # NoTransition /\ m.kind # "reply"

\* One iteration of the loop of _flush_deferred_runtime_messages.
FlushDeferred ==
  /\ pc = "flushing"
  /\ \E m \in flushing :
       /\ Oldest(m, flushing)
       /\ flushing' = flushing \ {m}
       /\ \/ /\ HeldBack(m)
             /\ deferred' = deferred \cup {m}
             /\ UNCHANGED <<rtInput, epochTransition>>
          \/ /\ ~HeldBack(m)
             /\ SubmitRuntime(m)
             /\ UNCHANGED deferred
  /\ UNCHANGED <<pc, nextMessageId, epoch, expectedOutput, acknowledge, pendingSql,
                 pendingDevice, deviceEvents, issued, cancelSeen, rtVars>>

EndPump ==
  /\ pc = "flushing" /\ flushing = {}
  /\ pc' = "idle"
  /\ UNCHANGED <<clientVars, rtInput, rtVars>>
-----------------------------------------------------------------------------
(* The embedded runtime, as the client code relies on it *)

Emit(kind, ref, e) == rtOutput' = Append(rtOutput, [kind |-> kind, ref |-> ref, epoch |-> e])

RtUnchangedBut == <<pc, clientVars>>

Stale(m) == m.kind # "reply" /\ m.epoch # rtEpoch

\* Take the oldest envelope and treat it according to its kind.
RtTake ==
  /\ pc = "driving" /\ rtInput # <<>>
  /\ rtInput' = Tail(rtInput)
  /\ LET m == Head(rtInput) IN
     \/ /\ Stale(m)
        /\ rtStale' = rtStale \cup {m.kind}
        /\ IF m.kind = "ack" THEN UNCHANGED rtOutput
                             ELSE Emit("rejected", m.id, rtEpoch)
        /\ UNCHANGED <<rtEpoch, rtTransition, rtOpen, rtNeeds, rtAnswered, rtAcknowledged>>
     \/ /\ m.kind = "reply"
        /\ rtAnswered' = rtAnswered \cup {m.ref}
        /\ rtOpen' = rtOpen \ {m.ref} /\ rtNeeds' = rtNeeds \ {m.ref}
        /\ UNCHANGED <<rtOutput, rtEpoch, rtTransition, rtAcknowledged, rtStale>>
     \/ /\ m.kind = "ack" /\ ~Stale(m)
        /\ rtAcknowledged' = IF m.ref > rtAcknowledged THEN m.ref ELSE rtAcknowledged
        /\ UNCHANGED <<rtOutput, rtEpoch, rtTransition, rtOpen, rtNeeds, rtAnswered, rtStale>>
     \/ /\ m.kind = "transition" /\ ~Stale(m)
        /\ \/ rtTransition = 0 /\ rtTransition' = m.id /\ UNCHANGED rtOutput
           \/ Emit("rejected", m.id, rtEpoch) /\ UNCHANGED rtTransition
        /\ UNCHANGED <<rtEpoch, rtOpen, rtNeeds, rtAnswered, rtAcknowledged, rtStale>>
     \/ /\ m.kind = "reload" /\ ~Stale(m)
        /\ \/ /\ rtEpoch \in 1..(MaxEpoch - 1) /\ rtEpoch' = rtEpoch + 1
              /\ rtOpen' = {} /\ rtNeeds' = {}
           \/ UNCHANGED <<rtEpoch, rtOpen, rtNeeds>>
        /\ Emit("event", 0, rtEpoch')
        /\ UNCHANGED <<rtTransition, rtAnswered, rtAcknowledged, rtStale>>
     \/ /\ m.kind = "command" /\ ~Stale(m)
        /\ UNCHANGED <<rtOutput, rtEpoch, rtTransition, rtOpen, rtNeeds, rtAnswered,
                       rtAcknowledged, rtStale>>
  /\ UNCHANGED <<RtUnchangedBut, rtRaised>>

\* Ask the frontend for a service; a transition under way waits for the answer.
\* Before the first epoch only a transition has a reason to reach for SQL.
RtRaise(r) ==
  /\ pc = "driving" /\ r \notin rtRaised
  /\ r \in SqlRequests => rtEpoch # 0 \/ rtTransition # 0
  /\ rtRaised' = rtRaised \cup {r} /\ rtOpen' = rtOpen \cup {r}
  /\ rtNeeds' = IF rtTransition = 0 THEN rtNeeds ELSE rtNeeds \cup {r}
  /\ Emit("request", r, rtEpoch)
  /\ UNCHANGED <<RtUnchangedBut, rtInput, rtEpoch, rtTransition, rtAnswered,
                 rtAcknowledged, rtStale>>

RtCancel(r) ==
  /\ pc = "driving" /\ r \in rtOpen
  /\ rtOpen' = rtOpen \ {r} /\ rtNeeds' = rtNeeds \ {r}
  /\ Emit("cancel", r, rtEpoch)
  /\ UNCHANGED <<RtUnchangedBut, rtInput, rtEpoch, rtTransition, rtRaised, rtAnswered,
                 rtAcknowledged, rtStale>>

\* Commit the accepted transition: a new epoch, nothing of the old one open.
RtCommit ==
  /\ pc = "driving" /\ rtTransition # 0 /\ rtNeeds = {} /\ rtEpoch < MaxEpoch
  /\ rtTransition' = 0 /\ rtEpoch' = rtEpoch + 1 /\ rtOpen' = {}
  /\ Emit("event", 0, rtEpoch + 1)
  /\ UNCHANGED <<RtUnchangedBut, rtInput, rtNeeds, rtRaised, rtAnswered,
                 rtAcknowledged, rtStale>>

\* Give the accepted transition up.
RtRefuse ==
  /\ pc = "driving" /\ rtTransition # 0 /\ rtNeeds = {}
  /\ rtTransition' = 0
  /\ Emit("rejected", rtTransition, rtEpoch)
  /\ UNCHANGED <<RtUnchangedBut, rtInput, rtEpoch, rtOpen, rtNeeds, rtRaised, rtAnswered,
                 rtAcknowledged, rtStale>>
-----------------------------------------------------------------------------
Init ==
  /\ pc = "idle" /\ nextMessageId = 1 /\ deferred = {} /\ flushing = {}
  /\ epochTransition = NoTransition
  /\ epoch \in {e \in {0, 1} : e <= MaxEpoch} /\ rtEpoch = epoch
  /\ expectedOutput = 0 /\ acknowledge = FALSE
  /\ pendingSql = {} /\ pendingDevice = {} /\ deviceEvents = {}
  /\ issued = 0 /\ cancelSeen = {}
  /\ rtInput = <<>> /\ rtOutput = <<>> /\ rtTransition = 0
  /\ rtOpen = {} /\ rtNeeds = {} /\ rtRaised = {} /\ rtAnswered = {}
  /\ rtAcknowledged = 0 /\ rtStale = {}

\* The steps of pump(), in the order one thread takes them.
Pump ==
  \/ BeginDrive \/ EndDrive \/ HandleEvent \/ HandleRequest \/ HandleCancel \/ EndPoll
  \/ \E r \in SqlRequests : ExecuteSql(r)
  \/ AcknowledgeBatch \/ BeginFlush \/ FlushDeferred \/ EndPump

Runtime ==
  \/ RtTake \/ RtCommit \/ RtRefuse
  \/ \E r \in Requests : RtRaise(r) \/ RtCancel(r)

\* The worker has ended.
Closed == pc = "closed" /\ UNCHANGED vars

Next ==
  \/ IssueCommand
  \/ \E r \in DeviceRequests : CompleteDevicePump(r)
  \/ Pump \/ PumpFault \/ Runtime \/ Closed

Spec == Init /\ [][Next]_vars

\* The run loop keeps pumping and the UI loop keeps turning.  The runtime is
\* assumed to consume its input and to settle an accepted transition whose
\* requests are answered; drive() may return before it does, hence SF.
Fairness ==
  /\ WF_vars(Pump)
  /\ \A r \in DeviceRequests : SF_vars(CompleteDevicePump(r))
  /\ SF_vars(RtTake)
  /\ SF_vars(RtCommit \/ RtRefuse)

FairSpec == Spec /\ Fairness
-----------------------------------------------------------------------------
(* Properties *)

TypeOK ==
  /\ pc \in {"idle", "driving", "polling", "settling", "acked", "flushing", "closed"}
  /\ nextMessageId \in Nat \ {0}
  /\ deferred \subseteq Message /\ flushing \subseteq Message
  /\ epochTransition \in [id: Nat, epoch: Nat]
  /\ epoch \in Nat /\ expectedOutput \in Nat /\ acknowledge \in BOOLEAN
  /\ pendingSql \subseteq SqlRequests
  /\ pendingDevice \subseteq DeviceRequests /\ deviceEvents \subseteq DeviceRequests
  /\ issued \in Nat /\ cancelSeen \subseteq Refs
  /\ rtInput \in Seq(Envelope) /\ rtOutput \in Seq(Output)
  /\ rtEpoch \in Nat /\ rtTransition \in Nat
  /\ rtOpen \subseteq Requests /\ rtNeeds \subseteq Requests
  /\ rtRaised \subseteq Requests /\ rtAnswered \subseteq Refs
  /\ rtAcknowledged \in Refs /\ rtStale \subseteq Kinds

\* Behind a command that replaces the game, from its submission until the
\* runtime has decided it, the runtime is sent replies and nothing else: what
\* send_runtime and the flush defer for.
TransitionBarrier ==
  /\ \A i, j \in DOMAIN rtInput :
       i < j /\ rtInput[i].kind = "transition" => rtInput[j].kind = "reply"
  /\ rtTransition # 0 => \A i \in DOMAIN rtInput : rtInput[i].kind = "reply"

\* So no message but a reply ever reaches the runtime in an epoch it has left,
\* whatever was deferred and however the pumps and commands interleave.
NothingStale == rtStale = {}

\* "adopt it before acknowledging the message so the acknowledgement cannot be
\* stale" (runtime_transport.py, _handle_envelope).
AckNeverStale == "ack" \notin rtStale

\* Deferral does not reorder the frontend's commands: what the runtime has yet
\* to take, then what is still deferred, is in the order it was issued.
CommandsInOrder ==
  LET IsCommand(m) == m.kind \in CommandKinds
      Waiting == {m \in deferred \cup flushing : IsCommand(m)} IN
  /\ \A i, j \in DOMAIN rtInput :
       i < j /\ IsCommand(rtInput[i]) /\ IsCommand(rtInput[j])
         => rtInput[i].id < rtInput[j].id
  /\ \A i \in DOMAIN rtInput, m \in Waiting :
       IsCommand(rtInput[i]) => rtInput[i].id < m.id

\* SQL runs after the complete batch was read, and only for requests that are
\* then still open: a cancellation or a new epoch later in the batch wins
\* (_flush_pending_sql_requests, the comment in pump).
SqlOnlyForOpenRequests == pc = "settling" => pendingSql \subseteq rtOpen

\* Once the client has handled the cancellation of a service request it neither
\* holds a reply for it nor will produce one.
CancelledNeverAnswered ==
  \A r \in cancelSeen :
    /\ r \notin pendingSql \cup pendingDevice
    /\ \A m \in deferred \cup flushing : ~(m.kind = "reply" /\ m.ref = r)

\* A request is answered at most once, counting replies deferred, under way
\* and taken.
AnsweredOnce ==
  \A r \in rtRaised :
    LET InList == {m \in deferred \cup flushing : m.kind = "reply" /\ m.ref = r}
        InInput == {i \in DOMAIN rtInput : rtInput[i].kind = "reply" /\ rtInput[i].ref = r}
        Taken == IF r \in rtAnswered THEN 1 ELSE 0 IN
    Cardinality(InList) + Cardinality(InInput) + Taken <= 1

\* A transition does not block its own progress: the runtime may need answers
\* before it can commit, and the deferral lets them through.
TransitionResolves ==
  epochTransition # NoTransition ~> (epochTransition = NoTransition \/ pc = "closed")

\* No request is left open: it is answered, withdrawn, or its epoch ends.
RequestsSettle ==
  \A r \in Requests : r \in rtOpen ~> (r \notin rtOpen \/ pc = "closed")

\* Every output the client handled is acknowledged in the end, those seen
\* while acknowledgements were deferred included.
OutputsAcknowledged == []<>(rtAcknowledged = expectedOutput \/ pc = "closed")

\* What the client sends is meant for what is still open: an answer for a request
\* that is neither withdrawn nor answered, an acknowledgement in the epoch of
\* its output.
AnswersValid ==
  /\ SqlOnlyForOpenRequests /\ CancelledNeverAnswered /\ AnsweredOnce
  /\ AckNeverStale

\* No deferral is for ever: transitions are decided, requests settle and outputs
\* are acknowledged, each of which may wait for another.
Progress == TransitionResolves /\ RequestsSettle /\ OutputsAcknowledged
=============================================================================
