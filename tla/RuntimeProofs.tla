---------------------------- MODULE RuntimeProofs ----------------------------
(***************************************************************************)
(* What holds of the client's runtime session and of the thread that owns  *)
(* it.  First RuntimeTransport, for every set of requests and every bound. *)
(* Then RuntimeWorker, for queues, batches, bursts and numbers of          *)
(* projections of any size: the types, that no event is stranded, that     *)
(* projections are coalesced without losing the newest, and that a failure *)
(* is reported.                                                            *)
(***************************************************************************)
EXTENDS RuntimeTransport, RuntimeWorker, SequenceTheorems, FunctionTheorems,
        FiniteSetTheorems, TLAPS
-----------------------------------------------------------------------------
(* RuntimeTransport *)

\* Taking the oldest element and adding a new one keep a queue's element type.
LEMMA QueueTyping ==
  ASSUME NEW S, NEW q \in Seq(S)
  PROVE  /\ \A x \in S : Append(q, x) \in Seq(S)
         /\ q # <<>> => Head(q) \in S /\ Tail(q) \in Seq(S)
  OBVIOUS

\* Sending puts a well-formed message on its way, deferred or submitted.
LEMMA SendTyping ==
  ASSUME TypeOK, NEW kind \in Kinds, NEW ref \in Refs, SendRuntime(kind, ref)
  PROVE  /\ nextMessageId' \in Nat \ {0}
         /\ deferred' \subseteq Message
         /\ rtInput' \in Seq(Envelope)
         /\ epochTransition' \in [id: Nat, epoch: Nat]
<1> DEFINE m == [id |-> nextMessageId, kind |-> kind, ref |-> ref]
           e == [id |-> m.id, kind |-> m.kind, ref |-> m.ref, epoch |-> epoch]
<1>1. m \in Message /\ e \in Envelope
  BY DEF TypeOK, Message, Envelope
<1>2. Append(rtInput, e) \in Seq(Envelope)
  BY <1>1, QueueTyping DEF TypeOK
<1>3. nextMessageId' = nextMessageId + 1
  BY DEF SendRuntime
<1>4. CASE epochTransition # NoTransition
  <2>1. /\ deferred' = deferred \cup {m}
        /\ UNCHANGED <<rtInput, epochTransition>>
    BY <1>4 DEF SendRuntime
  <2>2. QED
    BY <1>1, <1>3, <2>1 DEF TypeOK
<1>5. CASE epochTransition = NoTransition
  <2>1. /\ rtInput' = Append(rtInput, e)
        /\ epochTransition' = IF m.kind = "transition" THEN [id |-> m.id, epoch |-> epoch]
                                                      ELSE epochTransition
        /\ UNCHANGED deferred
    BY <1>5 DEF SendRuntime, SubmitRuntime
  <2>2. epochTransition' \in [id: Nat, epoch: Nat]
    BY <2>1 DEF TypeOK
  <2>3. QED
    BY <1>2, <1>3, <2>1, <2>2 DEF TypeOK
<1>6. QED
  BY <1>4, <1>5

\* Deferring keeps the deferred list a set of messages.
LEMMA DeferTyping ==
  ASSUME TypeOK, NEW kind \in Kinds, NEW ref \in Refs, NEW kept \in SUBSET Message,
         DeferRuntime(kept, kind, ref)
  PROVE  nextMessageId' \in Nat \ {0} /\ deferred' \subseteq Message
<1>1. [id |-> nextMessageId, kind |-> kind, ref |-> ref] \in Message
  BY DEF TypeOK, Message
<1>2. QED
  BY <1>1 DEF DeferRuntime, TypeOK

\* Handling an output's header: where the queue, the epoch and the transition go.
LEMMA PollTyping ==
  ASSUME TypeOK, NEW kinds, Polled(kinds), AdoptEpoch(Head(rtOutput))
  PROVE  /\ Head(rtOutput) \in Output
         /\ rtOutput' \in Seq(Output) /\ expectedOutput' \in Nat /\ acknowledge' \in BOOLEAN
         /\ epoch' \in Nat /\ epochTransition' \in [id: Nat, epoch: Nat]
         /\ SqlAfterAdoption(Head(rtOutput)) \subseteq pendingSql
<1>1. Head(rtOutput) \in Output /\ Tail(rtOutput) \in Seq(Output)
  BY QueueTyping DEF Polled, TypeOK
<1>2. Head(rtOutput).epoch \in Nat
  BY <1>1 DEF Output
<1>3. epoch' \in Nat
  BY <1>2 DEF AdoptEpoch, TypeOK
<1>4. epochTransition' \in [id: Nat, epoch: Nat]
  BY DEF AdoptEpoch, NoTransition, TypeOK
<1>5. QED
  BY <1>1, <1>3, <1>4 DEF Polled, SqlAfterAdoption, TypeOK

\* Emitting appends a well-formed output.
LEMMA EmitTyping ==
  ASSUME TypeOK, NEW kind \in {"event", "rejected", "request", "cancel"},
         NEW ref \in Refs, NEW e \in Nat, Emit(kind, ref, e)
  PROVE  rtOutput' \in Seq(Output)
<1>1. [kind |-> kind, ref |-> ref, epoch |-> e] \in Output
  BY DEF Output
<1>2. QED
  BY <1>1, QueueTyping DEF Emit, TypeOK

\* Taking an envelope keeps the runtime's part of the state well formed.
LEMMA TakeTyping ==
  ASSUME TypeOK, RtTake
  PROVE  TypeOK'
<1> DEFINE m == Head(rtInput)
<1>1. /\ m \in Envelope /\ rtInput' \in Seq(Envelope)
  BY QueueTyping DEF RtTake, TypeOK
<1>2. /\ m.id \in Nat /\ m.id \in Refs /\ m.kind \in Kinds /\ m.ref \in Refs
      /\ 0 \in Refs
  BY <1>1 DEF Envelope, Refs
<1>3. rtOutput' \in Seq(Output)
  BY <1>2, EmitTyping DEF RtTake, TypeOK
<1>4. /\ rtEpoch' \in Nat /\ rtTransition' \in Nat
      /\ rtOpen' \subseteq Requests /\ rtNeeds' \subseteq Requests
      /\ rtAnswered' \subseteq Refs /\ rtAcknowledged' \in Refs /\ rtStale' \subseteq Kinds
  BY <1>2 DEF RtTake, TypeOK
<1>5. UNCHANGED <<pc, clientVars, rtRaised>>
  BY DEF RtTake, RtUnchangedBut
<1>6. QED
  BY <1>1, <1>3, <1>4, <1>5 DEF TypeOK, clientVars

\* The state stays well formed: in particular only SQL requests wait for the SQL
\* provider, only device requests for the UI loop, whatever the runtime raises.
THEOREM TypeCorrect == Spec => []TypeOK
<1>1. ASSUME Init
      PROVE  TypeOK
  <2>1. epoch \in Nat /\ rtEpoch \in Nat
    BY <1>1 DEF Init
  <2>2. epochTransition \in [id: Nat, epoch: Nat]
    BY <1>1 DEF Init, NoTransition
  <2>3. rtInput \in Seq(Envelope) /\ rtOutput \in Seq(Output)
    BY <1>1 DEF Init
  <2>4. /\ nextMessageId \in Nat \ {0} /\ expectedOutput \in Nat
        /\ issued \in Nat /\ rtTransition \in Nat /\ rtAcknowledged \in Refs
    BY <1>1 DEF Init, Refs
  <2>4a. acknowledge \in BOOLEAN
    BY <1>1 DEF Init
  <2>5. /\ pc \in {"idle", "driving", "polling", "settling", "acked", "flushing", "closed"}
        /\ deferred = {} /\ flushing = {} /\ pendingSql = {} /\ pendingDevice = {}
        /\ deviceEvents = {} /\ cancelSeen = {} /\ rtOpen = {} /\ rtNeeds = {}
        /\ rtRaised = {} /\ rtAnswered = {} /\ rtStale = {}
    BY <1>1 DEF Init
  <2>6. QED
    BY <2>1, <2>2, <2>3, <2>4, <2>4a, <2>5 DEF TypeOK
<1>2. ASSUME TypeOK, [Next]_vars
      PROVE  TypeOK'
  <2> USE <1>2
  <2> USE DEF clientVars, rtVars
  <2>0. CommandKinds \subseteq Kinds /\ 0 \in Refs /\ Requests \subseteq Refs
        /\ "reply" \in Kinds /\ "ack" \in Kinds
    BY DEF Kinds, Refs
  <2>1. CASE IssueCommand
    <3>1. PICK kind \in Commands : SendRuntime(kind, 0)
      BY <2>1 DEF IssueCommand
    <3>2. kind \in Kinds
      BY <2>0, CommandsAssumption
    <3>3. QED
      BY <2>0, <2>1, <3>1, <3>2, SendTyping DEF IssueCommand, TypeOK
  <2>2. ASSUME NEW r \in DeviceRequests, CompleteDevicePump(r)
        PROVE  TypeOK'
    <3>1. r \in Refs
      BY <2>0 DEF Requests
    <3>2. /\ nextMessageId' \in Nat \ {0} /\ deferred' \subseteq Message
          /\ rtInput' \in Seq(Envelope) /\ epochTransition' \in [id: Nat, epoch: Nat]
      BY <2>0, <2>2, <3>1, SendTyping DEF CompleteDevicePump, TypeOK
    <3>3. QED
      BY <2>2, <3>2 DEF CompleteDevicePump, TypeOK
  <2>3. CASE BeginDrive
    BY <2>3 DEF BeginDrive, TypeOK
  <2>4. CASE EndDrive
    BY <2>4 DEF EndDrive, TypeOK
  <2>5. CASE HandleEvent
    <3>1. nextMessageId' \in Nat \ {0} /\ deferred' \subseteq Message /\ issued' \in Nat
      <4>1. CASE UNCHANGED <<issued, nextMessageId, deferred>>
        BY <4>1 DEF TypeOK
      <4>2. CASE issued' = issued + 1 /\ \E kind \in Commands : DeferRuntime(deferred, kind, 0)
        BY <2>0, <4>2, CommandsAssumption, DeferTyping DEF TypeOK
      <4>3. QED
        BY <2>5, <4>1, <4>2 DEF HandleEvent
    <3>2. QED
      BY <2>5, <3>1, PollTyping DEF HandleEvent, TypeOK
  <2>6. CASE HandleRequest
    <3> DEFINE o == Head(rtOutput)
    <3>1. /\ rtOutput' \in Seq(Output) /\ expectedOutput' \in Nat /\ acknowledge' \in BOOLEAN
          /\ epoch' \in Nat /\ epochTransition' \in [id: Nat, epoch: Nat]
          /\ SqlAfterAdoption(o) \subseteq pendingSql
      BY <2>6, PollTyping DEF HandleRequest
    <3>2. nextMessageId' \in Nat \ {0} /\ deferred' \subseteq Message
      <4>1. CASE UNCHANGED <<nextMessageId, deferred>>
        BY <4>1 DEF TypeOK
      <4>2. CASE o.ref \in PromptRequests \cup StorageRequests /\ DeferRuntime(deferred, "reply", o.ref)
        <5>1. o.ref \in Refs
          BY <4>2, <2>0 DEF Requests
        <5>2. QED
          BY <2>0, <4>2, <5>1, DeferTyping DEF TypeOK
      <4>3. QED
        BY <2>6, <4>1, <4>2 DEF HandleRequest
    <3>3. /\ pendingSql' \subseteq SqlRequests /\ pendingDevice' \subseteq DeviceRequests
          /\ deviceEvents' \subseteq DeviceRequests
      BY <2>6, <3>1 DEF HandleRequest, TypeOK
    <3>4. QED
      BY <2>6, <3>1, <3>2, <3>3 DEF HandleRequest, TypeOK
  <2>7. CASE HandleCancel
    <3> DEFINE o == Head(rtOutput)
    <3>1. /\ o \in Output
          /\ rtOutput' \in Seq(Output) /\ expectedOutput' \in Nat /\ acknowledge' \in BOOLEAN
          /\ epoch' \in Nat /\ epochTransition' \in [id: Nat, epoch: Nat]
          /\ SqlAfterAdoption(o) \subseteq pendingSql
      BY <2>7, PollTyping DEF HandleCancel
    <3>2. o.ref \in Refs
      BY <3>1 DEF Output
    <3>3. /\ deferred' \subseteq Message /\ pendingSql' \subseteq SqlRequests
          /\ pendingDevice' \subseteq DeviceRequests /\ cancelSeen' \subseteq Refs
      BY <2>7, <3>1, <3>2 DEF HandleCancel, SqlAfterCancel, Withdraw, TypeOK
    <3>4. QED
      BY <2>7, <3>1, <3>3 DEF HandleCancel, TypeOK
  <2>8. CASE EndPoll
    BY <2>8 DEF EndPoll, TypeOK
  <2>9. CASE PumpFault
    BY <2>9 DEF PumpFault, TypeOK
  <2>10. ASSUME NEW r \in SqlRequests, ExecuteSql(r)
         PROVE  TypeOK'
    <3>1. r \in Refs
      BY <2>0 DEF Requests
    <3>2. nextMessageId' \in Nat \ {0} /\ deferred' \subseteq Message
      BY <2>0, <2>10, <3>1, DeferTyping DEF ExecuteSql, TypeOK
    <3>3. QED
      BY <2>10, <3>2 DEF ExecuteSql, TypeOK
  <2>11. CASE AcknowledgeBatch
    <3>1. AcknowledgeThrough \in Refs
      BY DEF AcknowledgeThrough, Refs, TypeOK
    <3>2. /\ nextMessageId' \in Nat \ {0} /\ deferred' \subseteq Message
          /\ rtInput' \in Seq(Envelope) /\ epochTransition' \in [id: Nat, epoch: Nat]
      BY <2>0, <2>11, <3>1, SendTyping DEF AcknowledgeBatch, TypeOK
    <3>3. QED
      BY <2>11, <3>2 DEF AcknowledgeBatch, TypeOK
  <2>12. CASE BeginFlush
    BY <2>12 DEF BeginFlush, LeftDeferred, TypeOK
  <2>13. CASE FlushDeferred
    <3>1. PICK m \in flushing :
             /\ flushing' = flushing \ {m}
             /\ \/ /\ deferred' = deferred \cup {m}
                   /\ UNCHANGED <<rtInput, epochTransition>>
                \/ SubmitRuntime(m) /\ UNCHANGED deferred
      BY <2>13 DEF FlushDeferred
    <3>2. m \in Message /\ m.id \in Nat
      BY DEF TypeOK, Message
    <3>3. [id |-> m.id, kind |-> m.kind, ref |-> m.ref, epoch |-> epoch] \in Envelope
      BY <3>2 DEF TypeOK, Message, Envelope
    <3>4. rtInput' \in Seq(Envelope)
      <4>1. CASE UNCHANGED rtInput
        BY <4>1 DEF TypeOK
      <4>2. CASE SubmitRuntime(m)
        <5>1. rtInput \in Seq(Envelope)
          BY DEF TypeOK
        <5>2. QED
          BY <4>2, <5>1, <3>3, QueueTyping DEF SubmitRuntime
      <4>3. QED
        BY <3>1, <4>1, <4>2
    <3>5. epochTransition' \in [id: Nat, epoch: Nat]
      BY <3>1, <3>2 DEF SubmitRuntime, TypeOK
    <3>6. QED
      BY <2>13, <3>1, <3>2, <3>4, <3>5 DEF FlushDeferred, TypeOK
  <2>14. CASE EndPump
    BY <2>14 DEF EndPump, TypeOK
  <2>15. CASE RtTake
    BY <2>15, TakeTyping
  <2>16. ASSUME NEW r \in Requests, RtRaise(r) \/ RtCancel(r)
         PROVE  TypeOK'
    <3>1. rtOutput' \in Seq(Output)
      BY <2>0, <2>16, EmitTyping DEF RtRaise, RtCancel, TypeOK
    <3>2. QED
      BY <2>16, <3>1 DEF RtRaise, RtCancel, RtUnchangedBut, TypeOK
  <2>17. CASE RtCommit
    <3>1. rtEpoch + 1 \in Nat
      BY DEF TypeOK
    <3>2. rtOutput' \in Seq(Output)
      BY <2>0, <2>17, <3>1, EmitTyping DEF RtCommit
    <3>3. QED
      BY <2>17, <3>1, <3>2 DEF RtCommit, RtUnchangedBut, TypeOK
  <2>18. CASE RtRefuse
    <3>1. rtOutput' \in Seq(Output)
      BY <2>18, EmitTyping DEF RtRefuse, TypeOK, Refs
    <3>2. QED
      BY <2>18, <3>1 DEF RtRefuse, RtUnchangedBut, TypeOK
  <2>19. CASE UNCHANGED vars
    BY <2>19 DEF vars, TypeOK
  <2>20. QED
    BY <2>1, <2>2, <2>3, <2>4, <2>5, <2>6, <2>7, <2>8, <2>9, <2>10, <2>11, <2>12, <2>13,
       <2>14, <2>15, <2>16, <2>17, <2>18, <2>19 DEF Next, Pump, Runtime, Closed
<1>3. QED
  BY <1>1, <1>2, PTL DEF Spec
-----------------------------------------------------------------------------
(* Queues by index *)

\* A new last element: every index keeps its element.
LEMMA AppendedQueue ==
  ASSUME NEW S, NEW q \in Seq(S), NEW x \in S
  PROVE  /\ DOMAIN q = 1..Len(q) /\ Len(q) \in Nat
         /\ DOMAIN Append(q, x) = 1..(Len(q) + 1)
         /\ Len(Append(q, x)) = Len(q) + 1 /\ Append(q, x) # <<>>
         /\ \A i \in 1..Len(q) : Append(q, x)[i] = q[i]
         /\ Append(q, x)[Len(q) + 1] = x
  OBVIOUS


\* The oldest element leaves: every other moves up by one.
LEMMA ShortenedQueue ==
  ASSUME NEW S, NEW q \in Seq(S), q # <<>>
  PROVE  /\ DOMAIN q = 1..Len(q) /\ Len(q) \in Nat \ {0} /\ 1 \in DOMAIN q
         /\ Head(q) = q[1]
         /\ Len(Tail(q)) = Len(q) - 1
         /\ DOMAIN Tail(q) = 1..(Len(q) - 1)
         /\ \A i \in 1..(Len(q) - 1) : Tail(q)[i] = q[i + 1] /\ i + 1 \in DOMAIN q
         /\ Tail(q) = <<>> => Len(q) = 1
<1>1. DOMAIN q = 1..Len(q) /\ Len(q) \in Nat \ {0}
  OBVIOUS
<1>2. Head(q) = q[1] /\ Len(Tail(q)) = Len(q) - 1 /\ Tail(q) \in Seq(S)
  OBVIOUS
<1>3. \A i \in 1..(Len(q) - 1) : Tail(q)[i] = q[i + 1]
  BY <1>1
<1>4. DOMAIN Tail(q) = 1..(Len(q) - 1)
  BY <1>1, <1>2
<1>5. Tail(q) = <<>> => Len(q) = 1
  <2>1. \A k \in Nat \ {0} : k - 1 = 0 => k = 1
    OBVIOUS
  <2>2. Len(<<>>) = 0
    BY EmptySeq
  <2>3. QED
    BY <1>1, <1>2, <2>1, <2>2, Zenon
<1>6. QED
  BY <1>1, <1>2, <1>3, <1>4, <1>5
-----------------------------------------------------------------------------
(* Identifiers and epochs *)

\* Every message has one identifier and is in one place.
MessageIds ==
  /\ \A m \in deferred \cup flushing : m.id \in 1..(nextMessageId - 1)
  /\ \A i \in DOMAIN rtInput : rtInput[i].id \in 1..(nextMessageId - 1)
  /\ \A i, j \in DOMAIN rtInput : rtInput[i].id = rtInput[j].id => i = j
  /\ \A i \in DOMAIN rtInput, m \in deferred \cup flushing : rtInput[i].id # m.id
  /\ \A m, n \in deferred \cup flushing : m.id = n.id => m = n
  /\ deferred \cap flushing = {}

\* The client learns of every epoch from the output it polls, and has polled
\* all of it whenever it may submit.
EpochsAgree ==
  /\ epoch <= rtEpoch
  /\ \A k \in DOMAIN rtOutput : rtOutput[k].epoch <= rtEpoch
  /\ rtOutput # <<>> => rtOutput[Len(rtOutput)].epoch = rtEpoch
  /\ rtOutput = <<>> => epoch = rtEpoch
  /\ pc \notin {"driving", "polling", "closed"} => rtOutput = <<>>

-----------------------------------------------------------------------------
(* Every message has one identifier *)

\* A submitted message is the runtime's newest envelope.
LEMMA Submitted ==
  ASSUME TypeOK, NEW m \in Message, SubmitRuntime(m)
  PROVE  /\ DOMAIN rtInput' = 1..(Len(rtInput) + 1) /\ DOMAIN rtInput = 1..Len(rtInput)
         /\ Len(rtInput) \in Nat
         /\ \A i \in DOMAIN rtInput : rtInput'[i] = rtInput[i]
         /\ rtInput'[Len(rtInput) + 1].id = m.id
         /\ rtInput'[Len(rtInput) + 1].kind = m.kind
         /\ rtInput'[Len(rtInput) + 1].ref = m.ref
         /\ rtInput'[Len(rtInput) + 1].epoch = epoch
<1> DEFINE e == [id |-> m.id, kind |-> m.kind, ref |-> m.ref, epoch |-> epoch]
<1>1. e \in Envelope /\ e.id = m.id /\ e.kind = m.kind /\ e.ref = m.ref /\ e.epoch = epoch
  BY DEF TypeOK, Message, Envelope
<1>2. rtInput \in Seq(Envelope) /\ rtInput' = Append(rtInput, e)
  BY DEF SubmitRuntime, TypeOK
<1>3. QED
  BY <1>1, <1>2, AppendedQueue

\* The runtime has taken its oldest envelope.
LEMMA Taken ==
  ASSUME TypeOK, RtTake
  PROVE  /\ Head(rtInput) = rtInput[1] /\ 1 \in DOMAIN rtInput /\ Head(rtInput) \in Envelope
         /\ DOMAIN rtInput = 1..Len(rtInput) /\ Len(rtInput) \in Nat \ {0}
         /\ DOMAIN rtInput' = 1..(Len(rtInput) - 1)
         /\ \A i \in DOMAIN rtInput' : rtInput'[i] = rtInput[i + 1] /\ i + 1 \in DOMAIN rtInput
         /\ UNCHANGED <<pc, clientVars, rtRaised>>
<1>1. rtInput # <<>> /\ rtInput' = Tail(rtInput) /\ rtInput \in Seq(Envelope)
  BY DEF RtTake, TypeOK
<1>2. Head(rtInput) \in Envelope
  BY <1>1, QueueTyping
<1>3. UNCHANGED <<pc, clientVars, rtRaised>>
  BY DEF RtTake, RtUnchangedBut
<1>4. QED
  BY <1>1, <1>2, <1>3, ShortenedQueue

\* send_runtime between batches takes a new identifier.
LEMMA SendIds ==
  ASSUME TypeOK, MessageIds, NEW kind \in Kinds, NEW ref \in Refs, SendRuntime(kind, ref),
         UNCHANGED flushing
  PROVE  MessageIds'
<1> DEFINE m == [id |-> nextMessageId, kind |-> kind, ref |-> ref]
<1>1. nextMessageId \in Nat \ {0} /\ nextMessageId' = nextMessageId + 1
  BY DEF TypeOK, SendRuntime
<1>2. m \in Message
  BY <1>1 DEF Message
<1>3. /\ \A i \in DOMAIN rtInput : rtInput[i].id \in 1..(nextMessageId - 1)
      /\ \A n \in deferred \cup flushing : n.id \in 1..(nextMessageId - 1)
  BY DEF MessageIds
<1>4. CASE deferred' = deferred \cup {m} /\ UNCHANGED rtInput
  BY <1>1, <1>3, <1>4 DEF MessageIds
<1>5. CASE SubmitRuntime(m) /\ UNCHANGED deferred
  <2>1. \A i \in DOMAIN rtInput : rtInput[i].id # m.id
    BY <1>1, <1>3
  <2>2. /\ DOMAIN rtInput' = 1..(Len(rtInput) + 1) /\ DOMAIN rtInput = 1..Len(rtInput)
        /\ Len(rtInput) \in Nat
        /\ \A i \in DOMAIN rtInput : rtInput'[i] = rtInput[i]
        /\ rtInput'[Len(rtInput) + 1].id = m.id
    BY <1>2, <1>5, Submitted
  <2>3. \A n \in deferred' \cup flushing' : n.id \in 1..(nextMessageId' - 1) /\ n.id # m.id
    BY <1>1, <1>3, <1>5
  <2>4. \A i \in DOMAIN rtInput' : rtInput'[i].id \in 1..(nextMessageId' - 1)
    BY <1>1, <1>3, <2>2
  <2>5. \A i, j \in DOMAIN rtInput' : rtInput'[i].id = rtInput'[j].id => i = j
    BY <2>1, <2>2 DEF MessageIds
  <2>6. \A i \in DOMAIN rtInput', n \in deferred' \cup flushing' : rtInput'[i].id # n.id
    BY <1>5, <2>2, <2>3 DEF MessageIds
  <2>7. QED
    BY <1>5, <2>3, <2>4, <2>5, <2>6 DEF MessageIds
<1>6. QED
  BY <1>4, <1>5 DEF SendRuntime

\* So does a message deferred inside a batch; one withdrawn frees none.
LEMMA DeferIds ==
  ASSUME TypeOK, MessageIds, NEW kept \in SUBSET deferred,
         UNCHANGED <<flushing, rtInput>>,
         \/ deferred' = kept /\ UNCHANGED nextMessageId
         \/ \E kind \in Kinds, ref \in Refs : DeferRuntime(kept, kind, ref)
  PROVE  MessageIds'
<1>1. nextMessageId \in Nat \ {0}
  BY DEF TypeOK
<1>2. CASE deferred' = kept /\ UNCHANGED nextMessageId
  BY <1>2 DEF MessageIds
<1>3. ASSUME NEW kind \in Kinds, NEW ref \in Refs, DeferRuntime(kept, kind, ref)
      PROVE  MessageIds'
  <2> DEFINE m == [id |-> nextMessageId, kind |-> kind, ref |-> ref]
  <2>1. nextMessageId' = nextMessageId + 1 /\ deferred' = kept \cup {m}
    BY <1>3 DEF DeferRuntime
  <2>2. QED
    BY <1>1, <2>1 DEF MessageIds
<1>4. QED
  BY <1>2, <1>3

\* A flushed message goes back to the list or to the runtime, not to both.
LEMMA FlushIds ==
  ASSUME TypeOK, MessageIds, FlushDeferred
  PROVE  MessageIds'
<1>1. PICK m \in flushing :
        /\ flushing' = flushing \ {m}
        /\ \/ deferred' = deferred \cup {m} /\ UNCHANGED rtInput
           \/ SubmitRuntime(m) /\ UNCHANGED deferred
  BY DEF FlushDeferred
<1>2. UNCHANGED nextMessageId
  BY DEF FlushDeferred
<1>3. CASE deferred' = deferred \cup {m} /\ UNCHANGED rtInput
  BY <1>1, <1>2, <1>3 DEF MessageIds
<1>4. CASE SubmitRuntime(m) /\ UNCHANGED deferred
  <2>1. m \in Message /\ m \in deferred \cup flushing
    BY DEF TypeOK
  <2>2. /\ DOMAIN rtInput' = 1..(Len(rtInput) + 1) /\ DOMAIN rtInput = 1..Len(rtInput)
        /\ Len(rtInput) \in Nat
        /\ \A i \in DOMAIN rtInput : rtInput'[i] = rtInput[i]
        /\ rtInput'[Len(rtInput) + 1].id = m.id
    BY <1>4, <2>1, Submitted
  <2>3. \A i \in DOMAIN rtInput : rtInput[i].id # m.id
    BY <2>1 DEF MessageIds
  <2>4. \A n \in deferred' \cup flushing' : n \in deferred \cup flushing /\ n # m
    BY <1>1, <1>4 DEF MessageIds
  <2>5. \A n \in deferred' \cup flushing' : n.id # m.id
    BY <2>1, <2>4 DEF MessageIds
  <2>6. deferred' \cap flushing' = {}
    BY <1>1, <1>4 DEF MessageIds
  <2>7. /\ \A n \in deferred' \cup flushing' : n.id \in 1..(nextMessageId' - 1)
        /\ \A i \in DOMAIN rtInput' : rtInput'[i].id \in 1..(nextMessageId' - 1)
    BY <1>2, <2>1, <2>2, <2>4 DEF MessageIds
  <2>8. \A i, j \in DOMAIN rtInput' : rtInput'[i].id = rtInput'[j].id => i = j
    BY <2>2, <2>3 DEF MessageIds
  <2>9. \A i \in DOMAIN rtInput', n \in deferred' \cup flushing' : rtInput'[i].id # n.id
    BY <2>2, <2>4, <2>5 DEF MessageIds
  <2>10. \A n, o \in deferred' \cup flushing' : n.id = o.id => n = o
    BY <2>4 DEF MessageIds
  <2>11. QED
    BY <2>6, <2>7, <2>8, <2>9, <2>10 DEF MessageIds
<1>5. QED
  BY <1>1, <1>3, <1>4

\* Taking an envelope gives no identifier to another.
LEMMA TakeIds ==
  ASSUME TypeOK, MessageIds, RtTake
  PROVE  MessageIds'
<1>1. /\ Len(rtInput) \in Nat \ {0} /\ DOMAIN rtInput' = 1..(Len(rtInput) - 1)
      /\ \A i \in DOMAIN rtInput' : rtInput'[i] = rtInput[i + 1] /\ i + 1 \in DOMAIN rtInput
      /\ UNCHANGED <<nextMessageId, deferred, flushing>>
  BY Taken DEF clientVars
<1>2. \A i \in DOMAIN rtInput' : rtInput'[i].id \in 1..(nextMessageId - 1)
  BY <1>1 DEF MessageIds
<1>3. ASSUME NEW i \in DOMAIN rtInput', NEW j \in DOMAIN rtInput', rtInput'[i].id = rtInput'[j].id
      PROVE  i = j
  <2>1. i + 1 = j + 1
    BY <1>1, <1>3 DEF MessageIds
  <2>2. i \in Int /\ j \in Int
    BY <1>1
  <2>3. QED
    BY <2>1, <2>2
<1>4. \A i \in DOMAIN rtInput', n \in deferred \cup flushing : rtInput'[i].id # n.id
  BY <1>1 DEF MessageIds
<1>5. QED
  BY <1>1, <1>2, <1>3, <1>4 DEF MessageIds

\* The kinds and references the client's steps send are messages'.
LEMMA Sendable ==
  /\ Commands \subseteq Kinds /\ "reply" \in Kinds /\ "ack" \in Kinds
  /\ 0 \in Refs /\ Requests \subseteq Refs
  /\ SqlRequests \subseteq Requests /\ DeviceRequests \subseteq Requests
  /\ PromptRequests \cup StorageRequests \subseteq Requests
  /\ TypeOK => AcknowledgeThrough \in Refs
  BY CommandsAssumption DEF Kinds, Refs, Requests, AcknowledgeThrough, TypeOK

\* What a step can do to the messages: nothing, send one, defer or withdraw one
\* inside a batch, begin a flush, flush one, or have one taken.
LEMMA Moves ==
  ASSUME TypeOK, [Next]_vars
  PROVE  \/ UNCHANGED <<nextMessageId, deferred, flushing, rtInput>>
         \/ \E kind \in Kinds, ref \in Refs : SendRuntime(kind, ref) /\ UNCHANGED flushing
         \/ /\ UNCHANGED <<flushing, rtInput>>
            /\ \E kept \in SUBSET deferred :
                 \/ deferred' = kept /\ UNCHANGED nextMessageId
                 \/ \E kind \in Kinds, ref \in Refs : DeferRuntime(kept, kind, ref)
         \/ BeginFlush \/ FlushDeferred \/ RtTake
<1> USE DEF clientVars, rtVars
<1>1. CASE IssueCommand
  BY <1>1, Sendable DEF IssueCommand
<1>2. ASSUME NEW r \in DeviceRequests, CompleteDevicePump(r)
      PROVE  \/ UNCHANGED <<nextMessageId, deferred, flushing, rtInput>>
             \/ \E kind \in Kinds, ref \in Refs : SendRuntime(kind, ref) /\ UNCHANGED flushing
  BY <1>2, Sendable DEF CompleteDevicePump
<1>3. CASE BeginDrive \/ EndDrive \/ EndPoll \/ EndPump \/ UNCHANGED vars
  BY <1>3 DEF BeginDrive, EndDrive, EndPoll, EndPump, vars
<1>4. CASE HandleEvent
  <2>1. UNCHANGED <<flushing, rtInput>>
    BY <1>4 DEF HandleEvent
  <2>2. \/ UNCHANGED <<nextMessageId, deferred>>
        \/ \E kind \in Commands : DeferRuntime(deferred, kind, 0)
    BY <1>4 DEF HandleEvent
  <2>3. QED
    BY <2>1, <2>2, Sendable
<1>5. CASE HandleRequest
  <2>1. UNCHANGED <<flushing, rtInput>>
    BY <1>5 DEF HandleRequest
  <2>2. \/ UNCHANGED <<nextMessageId, deferred>>
        \/ \E r \in PromptRequests \cup StorageRequests : DeferRuntime(deferred, "reply", r)
    BY <1>5 DEF HandleRequest
  <2>3. QED
    BY <2>1, <2>2, Sendable
<1>6. CASE HandleCancel
  <2>1. UNCHANGED <<nextMessageId, flushing, rtInput>>
    BY <1>6 DEF HandleCancel
  <2>2. deferred' \in SUBSET deferred
    BY <1>6 DEF HandleCancel, Withdraw
  <2>3. QED
    BY <2>1, <2>2
<1>7. CASE PumpFault
  <2>1. UNCHANGED <<nextMessageId, flushing, rtInput>> /\ deferred' \in SUBSET deferred
    BY <1>7 DEF PumpFault
  <2>2. QED
    BY <2>1
<1>8. ASSUME NEW r \in SqlRequests, ExecuteSql(r)
      PROVE  /\ UNCHANGED <<flushing, rtInput>>
             /\ \E kept \in SUBSET deferred :
                  \E kind \in Kinds, ref \in Refs : DeferRuntime(kept, kind, ref)
  BY <1>8, Sendable DEF ExecuteSql
<1>9. CASE AcknowledgeBatch
  BY <1>9, Sendable DEF AcknowledgeBatch
<1>10. ASSUME NEW r \in Requests, RtRaise(r) \/ RtCancel(r)
       PROVE  UNCHANGED <<nextMessageId, deferred, flushing, rtInput>>
  BY <1>10 DEF RtRaise, RtCancel, RtUnchangedBut
<1>11. CASE RtCommit \/ RtRefuse
  BY <1>11 DEF RtCommit, RtRefuse, RtUnchangedBut
<1>12. QED
  BY <1>1, <1>2, <1>3, <1>4, <1>5, <1>6, <1>7, <1>8, <1>9, <1>10, <1>11
     DEF Next, Pump, Runtime, Closed

\* No step gives an identifier twice or leaves a message in two places.
LEMMA IdsInductive ==
  ASSUME TypeOK, MessageIds, [Next]_vars
  PROVE  MessageIds'
<1>1. CASE UNCHANGED <<nextMessageId, deferred, flushing, rtInput>>
  BY <1>1 DEF MessageIds
<1>2. CASE BeginFlush
  <2>1. flushing' = deferred /\ deferred' = {} /\ UNCHANGED <<nextMessageId, rtInput>>
    BY <1>2 DEF BeginFlush, LeftDeferred
  <2>2. QED
    BY <2>1 DEF MessageIds
<1>3. QED
  BY <1>1, <1>2, Moves, SendIds, DeferIds, FlushIds, TakeIds
-----------------------------------------------------------------------------
(* The client learns of every epoch *)

\* Reading one output: after the last one the client is in the runtime's epoch.
LEMMA PollEpochs ==
  ASSUME TypeOK, EpochsAgree, NEW kinds, Polled(kinds), AdoptEpoch(Head(rtOutput)),
         UNCHANGED <<pc, rtEpoch>>
  PROVE  EpochsAgree'
<1> DEFINE o == Head(rtOutput)
<1>1. rtOutput \in Seq(Output) /\ rtOutput # <<>> /\ rtOutput' = Tail(rtOutput)
  BY DEF Polled, TypeOK
<1>2. /\ DOMAIN rtOutput = 1..Len(rtOutput) /\ Len(rtOutput) \in Nat \ {0} /\ 1 \in DOMAIN rtOutput
      /\ o = rtOutput[1]
      /\ Len(rtOutput') = Len(rtOutput) - 1
      /\ DOMAIN rtOutput' = 1..(Len(rtOutput) - 1)
      /\ \A k \in 1..(Len(rtOutput) - 1) : rtOutput'[k] = rtOutput[k + 1] /\ k + 1 \in DOMAIN rtOutput
      /\ rtOutput' = <<>> => Len(rtOutput) = 1
  BY <1>1, ShortenedQueue
<1>3. /\ epoch \in Nat /\ rtEpoch \in Nat /\ o.epoch \in Nat /\ o.epoch <= rtEpoch
      /\ epoch <= rtEpoch
      /\ epoch' = IF o.epoch = 0 THEN epoch ELSE o.epoch
  <2>1. o \in Output
    BY <1>1, QueueTyping
  <2>2. QED
    BY <1>2, <2>1 DEF AdoptEpoch, EpochsAgree, TypeOK, Output
<1>4. epoch' <= rtEpoch'
  BY <1>3
<1>5. \A k \in DOMAIN rtOutput' : rtOutput'[k].epoch <= rtEpoch'
  BY <1>2 DEF EpochsAgree
<1>6. ASSUME rtOutput' # <<>>
      PROVE  rtOutput'[Len(rtOutput')].epoch = rtEpoch'
  <2>1. Len(rtOutput') # 0
    BY <1>1, <1>6, QueueTyping, EmptySeq
  <2>2. rtOutput'[Len(rtOutput')] = rtOutput[Len(rtOutput)]
    BY <1>2, <2>1
  <2>3. QED
    BY <1>1, <2>2 DEF EpochsAgree
<1>7. rtOutput' = <<>> => epoch' = rtEpoch'
  BY <1>1, <1>2, <1>3 DEF EpochsAgree
<1>8. pc' \notin {"driving", "polling", "closed"} => rtOutput' = <<>>
  BY DEF Polled
<1>9. QED
  BY <1>4, <1>5, <1>6, <1>7, <1>8 DEF EpochsAgree

\* Emitting an output of the runtime's epoch, under way only while driving.
LEMMA EmitEpochs ==
  ASSUME TypeOK, EpochsAgree, pc = "driving", pc' = pc,
         NEW kind \in {"event", "rejected", "request", "cancel"},
         NEW ref \in Refs, Emit(kind, ref, rtEpoch'), rtEpoch' \in Nat, rtEpoch <= rtEpoch',
         UNCHANGED epoch
  PROVE  /\ EpochsAgree'
         /\ DOMAIN rtOutput' = 1..(Len(rtOutput) + 1) /\ DOMAIN rtOutput = 1..Len(rtOutput)
         /\ Len(rtOutput) \in Nat
         /\ \A k \in DOMAIN rtOutput : rtOutput'[k] = rtOutput[k]
         /\ rtOutput'[Len(rtOutput) + 1] = [kind |-> kind, ref |-> ref, epoch |-> rtEpoch']
<1> DEFINE o == [kind |-> kind, ref |-> ref, epoch |-> rtEpoch']
<1>1. o \in Output
  BY DEF Output
<1>2. rtOutput \in Seq(Output) /\ rtOutput' = Append(rtOutput, o)
  BY DEF Emit, TypeOK
<1>3. /\ DOMAIN rtOutput = 1..Len(rtOutput) /\ Len(rtOutput) \in Nat
      /\ DOMAIN rtOutput' = 1..(Len(rtOutput) + 1)
      /\ Len(rtOutput') = Len(rtOutput) + 1 /\ rtOutput' # <<>>
      /\ \A k \in 1..Len(rtOutput) : rtOutput'[k] = rtOutput[k]
      /\ rtOutput'[Len(rtOutput) + 1] = o
  BY <1>1, <1>2, AppendedQueue
<1>4. rtEpoch \in Nat /\ epoch \in Nat /\ epoch <= rtEpoch
      /\ \A k \in DOMAIN rtOutput : rtOutput[k].epoch <= rtEpoch /\ rtOutput[k].epoch \in Nat
  <2>1. \A k \in DOMAIN rtOutput : rtOutput[k] \in Output
    BY <1>2
  <2>2. \A k \in DOMAIN rtOutput : rtOutput[k].epoch \in Nat
    BY <2>1 DEF Output
  <2>3. QED
    BY <2>2 DEF EpochsAgree, TypeOK
<1>5. \A k \in DOMAIN rtOutput' : rtOutput'[k].epoch <= rtEpoch'
  BY <1>3, <1>4
<1>6. EpochsAgree'
  BY <1>3, <1>4, <1>5 DEF EpochsAgree
<1>7. QED
  BY <1>3, <1>6

\* Every step keeps the client on its way to the runtime's epoch, a hot reload
\* in the middle of the drive included.
LEMMA EpochsInductive ==
  ASSUME TypeOK, MessageIds, EpochsAgree, [Next]_vars
  PROVE  EpochsAgree'
<1> USE DEF clientVars, rtVars
<1>1. CASE UNCHANGED <<epoch, rtOutput, rtEpoch>>
           /\ (pc' \notin {"driving", "polling", "closed"} => rtOutput = <<>>)
  BY <1>1 DEF EpochsAgree
<1>2. CASE IssueCommand \/ BeginDrive \/ EndDrive \/ EndPoll \/ PumpFault \/ AcknowledgeBatch
           \/ BeginFlush \/ FlushDeferred \/ EndPump \/ UNCHANGED vars
  <2>1. UNCHANGED <<epoch, rtOutput, rtEpoch>>
    BY <1>2 DEF IssueCommand, BeginDrive, EndDrive, EndPoll, PumpFault, AcknowledgeBatch,
       BeginFlush, FlushDeferred, EndPump, vars
  <2>2. pc' \notin {"driving", "polling", "closed"} => rtOutput = <<>>
    BY <1>2 DEF IssueCommand, BeginDrive, EndDrive, EndPoll, PumpFault, AcknowledgeBatch,
       BeginFlush, FlushDeferred, EndPump, vars, EpochsAgree
  <2>3. QED
    BY <1>1, <2>1, <2>2
<1>3. ASSUME NEW r, CompleteDevicePump(r) \/ ExecuteSql(r)
      PROVE  EpochsAgree'
  BY <1>1, <1>3 DEF CompleteDevicePump, ExecuteSql, EpochsAgree
<1>4. CASE HandleEvent \/ HandleRequest \/ HandleCancel
  <2>1. \E kinds : Polled(kinds)
    BY <1>4 DEF HandleEvent, HandleRequest, HandleCancel
  <2>2. AdoptEpoch(Head(rtOutput)) /\ UNCHANGED <<pc, rtEpoch>>
    BY <1>4 DEF HandleEvent, HandleRequest, HandleCancel
  <2>3. QED
    BY <2>1, <2>2, PollEpochs
<1>5. CASE RtTake
  <2> DEFINE m == Head(rtInput)
  <2>1. /\ m \in Envelope /\ m = rtInput[1] /\ 1 \in DOMAIN rtInput
        /\ UNCHANGED <<pc, epoch>> /\ pc = "driving"
    BY <1>5, Taken DEF RtTake
  <2>2. m.id \in Refs /\ 0 \in Refs /\ rtEpoch \in Nat
    BY <2>1 DEF Envelope, Refs, TypeOK
  <2>3. CASE UNCHANGED <<rtOutput, rtEpoch>>
    BY <1>1, <2>1, <2>3
  <2>4. CASE Emit("rejected", m.id, rtEpoch) /\ UNCHANGED rtEpoch
    <3>1. Emit("rejected", m.id, rtEpoch') /\ rtEpoch' \in Nat /\ rtEpoch <= rtEpoch'
      BY <2>2, <2>4
    <3>2. QED
      BY <2>1, <2>2, <3>1, EmitEpochs
  <2>5. CASE Emit("event", 0, rtEpoch') /\ (rtEpoch' = rtEpoch \/ rtEpoch' = rtEpoch + 1)
    <3>1. rtEpoch' \in Nat /\ rtEpoch <= rtEpoch'
      BY <2>2, <2>5
    <3>2. QED
      BY <2>1, <2>2, <2>5, <3>1, EmitEpochs
  <2>6. QED
    BY <1>5, <2>3, <2>4, <2>5 DEF RtTake
<1>6. ASSUME NEW r \in Requests, RtRaise(r) \/ RtCancel(r)
      PROVE  EpochsAgree'
  <2>1. PICK kind \in {"request", "cancel"} :
          Emit(kind, r, rtEpoch) /\ pc = "driving" /\ UNCHANGED <<pc, epoch, rtEpoch>>
    BY <1>6 DEF RtRaise, RtCancel, RtUnchangedBut
  <2>2. /\ r \in Refs /\ rtEpoch' \in Nat /\ rtEpoch <= rtEpoch'
        /\ Emit(kind, r, rtEpoch')
    BY <2>1, Sendable DEF TypeOK
  <2>3. QED
    BY <2>1, <2>2, EmitEpochs
<1>7. CASE RtCommit \/ RtRefuse
  <2>1. rtEpoch \in Nat /\ rtTransition \in Refs /\ 0 \in Refs
    BY DEF TypeOK, Refs
  <2>2. pc = "driving" /\ UNCHANGED <<pc, epoch>>
    BY <1>7 DEF RtCommit, RtRefuse, RtUnchangedBut
  <2>3. CASE RtCommit
    <3>1. Emit("event", 0, rtEpoch') /\ rtEpoch' = rtEpoch + 1
      BY <2>3 DEF RtCommit
    <3>2. rtEpoch' \in Nat /\ rtEpoch <= rtEpoch'
      BY <2>1, <3>1
    <3>3. QED
      BY <2>1, <2>2, <3>1, <3>2, EmitEpochs
  <2>4. CASE RtRefuse
    <3>1. Emit("rejected", rtTransition, rtEpoch') /\ rtEpoch' = rtEpoch
      BY <2>4 DEF RtRefuse
    <3>2. rtEpoch' \in Nat /\ rtEpoch <= rtEpoch'
      BY <2>1, <3>1
    <3>3. QED
      BY <2>1, <2>2, <3>1, <3>2, EmitEpochs
  <2>5. QED
    BY <1>7, <2>3, <2>4
<1>8. QED
  BY <1>2, <1>3, <1>4, <1>5, <1>6, <1>7 DEF Next, Pump, Runtime, Closed
-----------------------------------------------------------------------------
(* Deferral keeps the order of the frontend's commands *)

\* A command is left deferred only behind a transition, and only a flush walks
\* the list.
HeldOnlyBehind ==
  /\ pc # "flushing" => flushing = {}
  /\ pc \in {"idle", "driving", "flushing"} /\ epochTransition = NoTransition
       => \A m \in deferred : m.kind \notin CommandKinds

OrderInv == HeldOnlyBehind /\ CommandsInOrder

\* A message sent between batches is the youngest, and a command is submitted
\* only when none is deferred.
LEMMA SendOrder ==
  ASSUME TypeOK, MessageIds, OrderInv, flushing = {},
         NEW kind \in Kinds, NEW ref \in Refs, SendRuntime(kind, ref), UNCHANGED flushing,
         kind \in CommandKinds /\ epochTransition = NoTransition
           => \A n \in deferred : n.kind \notin CommandKinds
  PROVE  /\ CommandsInOrder'
         /\ kind \in CommandKinds /\ epochTransition' = NoTransition
              => \A n \in deferred' : n.kind \notin CommandKinds
<1> DEFINE m == [id |-> nextMessageId, kind |-> kind, ref |-> ref]
<1>1. nextMessageId \in Nat \ {0} /\ m \in Message /\ m.id = nextMessageId /\ m.kind = kind
  BY DEF TypeOK, Message
<1>2. \A i \in DOMAIN rtInput : rtInput[i].id < m.id
  BY <1>1 DEF MessageIds
<1>3. CASE deferred' = deferred \cup {m} /\ UNCHANGED rtInput /\ epochTransition # NoTransition
           /\ UNCHANGED epochTransition
  BY <1>2, <1>3 DEF OrderInv, CommandsInOrder
<1>4. CASE SubmitRuntime(m) /\ UNCHANGED deferred /\ epochTransition = NoTransition
  <2>1. /\ DOMAIN rtInput' = 1..(Len(rtInput) + 1) /\ DOMAIN rtInput = 1..Len(rtInput)
        /\ Len(rtInput) \in Nat
        /\ \A i \in DOMAIN rtInput : rtInput'[i] = rtInput[i]
        /\ rtInput'[Len(rtInput) + 1].id = m.id
        /\ rtInput'[Len(rtInput) + 1].kind = m.kind
    BY <1>1, <1>4, Submitted
  <2>2. \A i, j \in DOMAIN rtInput' :
           i < j /\ rtInput'[i].kind \in CommandKinds /\ rtInput'[j].kind \in CommandKinds
             => rtInput'[i].id < rtInput'[j].id
    BY <1>2, <2>1 DEF OrderInv, CommandsInOrder
  <2>3. \A i \in DOMAIN rtInput', n \in deferred :
           rtInput'[i].kind \in CommandKinds /\ n.kind \in CommandKinds => rtInput'[i].id < n.id
    BY <1>1, <1>4, <2>1 DEF OrderInv, CommandsInOrder
  <2>4. CommandsInOrder'
    BY <1>4, <2>2, <2>3 DEF CommandsInOrder
  <2>5. QED
    BY <1>4, <2>4
<1>5. QED
  BY <1>3, <1>4 DEF SendRuntime

\* So is one deferred inside a batch.
LEMMA DeferOrder ==
  ASSUME TypeOK, MessageIds, OrderInv, NEW kept \in SUBSET deferred,
         UNCHANGED <<flushing, rtInput>>,
         \/ deferred' = kept
         \/ \E kind \in Kinds, ref \in Refs : DeferRuntime(kept, kind, ref)
  PROVE  CommandsInOrder'
<1>1. nextMessageId \in Nat \ {0}
  BY DEF TypeOK
<1>2. \A i \in DOMAIN rtInput : rtInput[i].id < nextMessageId
  BY <1>1 DEF MessageIds
<1>3. CASE deferred' = kept
  BY <1>3 DEF OrderInv, CommandsInOrder
<1>4. ASSUME NEW kind \in Kinds, NEW ref \in Refs, DeferRuntime(kept, kind, ref)
      PROVE  CommandsInOrder'
  <2> DEFINE m == [id |-> nextMessageId, kind |-> kind, ref |-> ref]
  <2>1. deferred' = kept \cup {m} /\ m.id = nextMessageId
    BY <1>4 DEF DeferRuntime
  <2>2. QED
    BY <1>2, <2>1 DEF OrderInv, CommandsInOrder
<1>5. QED
  BY <1>3, <1>4

\* The flush submits the oldest command there is, or keeps it and all after it.
LEMMA FlushOrder ==
  ASSUME TypeOK, MessageIds, OrderInv, FlushDeferred
  PROVE  OrderInv'
<1>1. PICK m \in flushing :
        /\ Oldest(m, flushing) /\ flushing' = flushing \ {m}
        /\ \/ HeldBack(m) /\ deferred' = deferred \cup {m} /\ UNCHANGED <<rtInput, epochTransition>>
           \/ ~HeldBack(m) /\ SubmitRuntime(m) /\ UNCHANGED deferred
  BY DEF FlushDeferred
<1>2. pc = "flushing" /\ pc' = pc
  BY DEF FlushDeferred
<1>3. m \in Message /\ m \in deferred \cup flushing /\ m.id \in Nat
      /\ \A n \in deferred \cup flushing : n.id \in Nat
  BY DEF TypeOK, Message
<1>4. CASE HeldBack(m) /\ deferred' = deferred \cup {m} /\ UNCHANGED <<rtInput, epochTransition>>
  <2>1. epochTransition' # NoTransition
    BY <1>4 DEF HeldBack
  <2>2. CommandsInOrder'
    BY <1>1, <1>4 DEF OrderInv, CommandsInOrder
  <2>3. QED
    BY <1>2, <2>1, <2>2 DEF OrderInv, HeldOnlyBehind
<1>5. CASE ~HeldBack(m) /\ SubmitRuntime(m) /\ UNCHANGED deferred
  <2>1. /\ DOMAIN rtInput' = 1..(Len(rtInput) + 1) /\ DOMAIN rtInput = 1..Len(rtInput)
        /\ Len(rtInput) \in Nat
        /\ \A i \in DOMAIN rtInput : rtInput'[i] = rtInput[i]
        /\ rtInput'[Len(rtInput) + 1].id = m.id
        /\ rtInput'[Len(rtInput) + 1].kind = m.kind
    BY <1>3, <1>5, Submitted
  <2>2. m.kind \in CommandKinds => epochTransition = NoTransition
    BY <1>5 DEF HeldBack, CommandKinds
  <2>3. m.kind \in CommandKinds => \A n \in deferred : n.kind \notin CommandKinds
    BY <1>2, <2>2 DEF OrderInv, HeldOnlyBehind
  <2>4. \A n \in flushing' : m.id < n.id
    BY <1>1, <1>3 DEF Oldest, MessageIds
  <2>5. \A i, j \in DOMAIN rtInput' :
           i < j /\ rtInput'[i].kind \in CommandKinds /\ rtInput'[j].kind \in CommandKinds
             => rtInput'[i].id < rtInput'[j].id
    BY <1>3, <2>1 DEF OrderInv, CommandsInOrder
  <2>6. \A i \in DOMAIN rtInput', n \in deferred' \cup flushing' :
           rtInput'[i].kind \in CommandKinds /\ n.kind \in CommandKinds => rtInput'[i].id < n.id
    BY <1>1, <1>3, <1>5, <2>1, <2>3, <2>4 DEF OrderInv, CommandsInOrder
  <2>7. CommandsInOrder'
    BY <2>5, <2>6 DEF CommandsInOrder
  <2>8. epochTransition' = NoTransition => epochTransition = NoTransition
    BY <1>5, <2>2 DEF SubmitRuntime, CommandKinds
  <2>9. QED
    BY <1>2, <1>5, <2>7, <2>8 DEF OrderInv, HeldOnlyBehind
<1>6. QED
  BY <1>1, <1>4, <1>5

\* Taking the oldest envelope leaves the order of the others.
LEMMA TakeOrder ==
  ASSUME TypeOK, OrderInv, RtTake
  PROVE  OrderInv'
<1>1. /\ Len(rtInput) \in Nat \ {0} /\ DOMAIN rtInput' = 1..(Len(rtInput) - 1)
      /\ \A i \in DOMAIN rtInput' : rtInput'[i] = rtInput[i + 1] /\ i + 1 \in DOMAIN rtInput
      /\ UNCHANGED <<pc, epochTransition, deferred, flushing>>
  BY Taken DEF clientVars
<1>2. \A i, j \in DOMAIN rtInput' : i < j => i + 1 < j + 1
  BY <1>1
<1>3. CommandsInOrder'
  BY <1>1, <1>2 DEF OrderInv, CommandsInOrder
<1>4. QED
  BY <1>1, <1>3 DEF OrderInv, HeldOnlyBehind

\* Every step keeps the order.
LEMMA OrderInductive ==
  ASSUME TypeOK, MessageIds, OrderInv, [Next]_vars
  PROVE  OrderInv'
<1> USE DEF clientVars, rtVars
<1>1. CASE UNCHANGED <<deferred, flushing, rtInput, epochTransition>>
           /\ (pc' # "flushing" => flushing = {})
           /\ (pc' \in {"idle", "driving", "flushing"} => pc \in {"idle", "driving", "flushing"})
  BY <1>1 DEF OrderInv, HeldOnlyBehind, CommandsInOrder
<1>2. CASE IssueCommand
  <2>1. PICK kind \in Commands : SendRuntime(kind, 0)
    BY <1>2 DEF IssueCommand
  <2>2. pc = "idle" /\ flushing = {} /\ UNCHANGED <<pc, flushing>>
    BY <1>2 DEF IssueCommand, OrderInv, HeldOnlyBehind
  <2>3. kind \in Kinds /\ kind \in CommandKinds /\ 0 \in Refs
    BY Sendable, CommandsAssumption
  <2>4. epochTransition = NoTransition => \A n \in deferred : n.kind \notin CommandKinds
    BY <2>2 DEF OrderInv, HeldOnlyBehind
  <2>5. CommandsInOrder'
        /\ (epochTransition' = NoTransition => \A n \in deferred' : n.kind \notin CommandKinds)
    BY <2>1, <2>2, <2>3, <2>4, SendOrder
  <2>6. QED
    BY <2>2, <2>5 DEF OrderInv, HeldOnlyBehind
<1>3. ASSUME NEW kind \in {"reply", "ack"}, NEW ref \in Refs, SendRuntime(kind, ref),
             flushing = {}, UNCHANGED flushing,
             pc' = pc \/ pc' \notin {"idle", "driving", "flushing"}
      PROVE  OrderInv'
  <2> DEFINE m == [id |-> nextMessageId, kind |-> kind, ref |-> ref]
  <2>1. kind \in Kinds /\ kind \notin CommandKinds
    BY DEF Kinds, CommandKinds
  <2>2. CommandsInOrder'
    BY <1>3, <2>1, SendOrder
  <2>3. UNCHANGED epochTransition /\ deferred' \subseteq deferred \cup {m} /\ m.kind = kind
    BY <1>3, <2>1 DEF SendRuntime, SubmitRuntime, CommandKinds
  <2>4. QED
    BY <1>3, <2>1, <2>2, <2>3 DEF OrderInv, HeldOnlyBehind
<1>4. ASSUME NEW r \in DeviceRequests, CompleteDevicePump(r)
      PROVE  OrderInv'
  <2>1. pc = "idle" /\ flushing = {} /\ UNCHANGED <<pc, flushing>>
    BY <1>4 DEF CompleteDevicePump, OrderInv, HeldOnlyBehind
  <2>2. r \in Refs
    BY Sendable
  <2>3. CASE SendRuntime("reply", r)
    BY <1>3, <2>1, <2>2, <2>3
  <2>4. CASE UNCHANGED <<nextMessageId, deferred, epochTransition, rtInput>>
    BY <1>1, <2>1, <2>4
  <2>5. QED
    BY <1>4, <2>3, <2>4 DEF CompleteDevicePump
<1>5. CASE BeginDrive \/ EndDrive \/ EndPoll \/ EndPump \/ UNCHANGED vars
  <2>1. /\ UNCHANGED <<deferred, flushing, rtInput, epochTransition>>
        /\ pc' # "flushing" => flushing = {}
        /\ pc' \in {"idle", "driving", "flushing"} => pc \in {"idle", "driving", "flushing"}
    BY <1>5 DEF BeginDrive, EndDrive, EndPoll, EndPump, vars, OrderInv, HeldOnlyBehind
  <2>2. QED
    BY <1>1, <2>1
<1>6. CASE HandleEvent \/ HandleRequest \/ HandleCancel \/ PumpFault \/ \E r \in SqlRequests : ExecuteSql(r)
  <2>1. UNCHANGED <<flushing, rtInput>> /\ pc \in {"polling", "settling"}
        /\ pc' \in {"polling", "settling", "closed"}
    BY <1>6 DEF HandleEvent, HandleRequest, HandleCancel, PumpFault, ExecuteSql, Polled
  <2>2. \E kept \in SUBSET deferred :
          \/ deferred' = kept
          \/ \E kind \in Kinds, ref \in Refs : DeferRuntime(kept, kind, ref)
    <3>1. CASE deferred' \in SUBSET deferred
      BY <3>1
    <3>2. CASE HandleEvent
      BY <3>1, <3>2, Sendable DEF HandleEvent
    <3>3. CASE HandleRequest
      BY <3>1, <3>3, Sendable DEF HandleRequest
    <3>4. CASE HandleCancel
      BY <3>1, <3>4 DEF HandleCancel, Withdraw
    <3>5. CASE PumpFault
      BY <3>1, <3>5 DEF PumpFault
    <3>6. CASE \E r \in SqlRequests : ExecuteSql(r)
      BY <3>6, Sendable DEF ExecuteSql
    <3>7. QED
      BY <1>6, <3>2, <3>3, <3>4, <3>5, <3>6
  <2>3. CommandsInOrder'
    BY <2>1, <2>2, DeferOrder
  <2>4. QED
    BY <2>1, <2>3 DEF OrderInv, HeldOnlyBehind
<1>7. CASE AcknowledgeBatch
  <2>1. /\ pc = "settling" /\ pc' = "acked" /\ flushing = {} /\ UNCHANGED flushing
        /\ AcknowledgeThrough \in Refs
    BY <1>7, Sendable DEF AcknowledgeBatch, OrderInv, HeldOnlyBehind
  <2>2. CASE SendRuntime("ack", AcknowledgeThrough)
    BY <1>3, <2>1, <2>2
  <2>3. CASE UNCHANGED <<nextMessageId, deferred, epochTransition, rtInput>>
    BY <1>1, <2>1, <2>3
  <2>4. QED
    BY <1>7, <2>2, <2>3 DEF AcknowledgeBatch
<1>8. CASE BeginFlush
  <2>1. flushing' = deferred /\ deferred' = {} /\ UNCHANGED rtInput /\ flushing = {}
        /\ pc' = "flushing"
    BY <1>8 DEF BeginFlush, LeftDeferred, OrderInv, HeldOnlyBehind
  <2>2. QED
    BY <2>1 DEF OrderInv, HeldOnlyBehind, CommandsInOrder
<1>9. CASE RtCommit \/ RtRefuse \/ \E r \in Requests : RtRaise(r) \/ RtCancel(r)
  <2>1. UNCHANGED <<pc, deferred, flushing, rtInput, epochTransition>>
    BY <1>9 DEF RtCommit, RtRefuse, RtRaise, RtCancel, RtUnchangedBut
  <2>2. QED
    BY <1>1, <2>1 DEF OrderInv, HeldOnlyBehind
<1>10. QED
  BY <1>2, <1>4, <1>5, <1>6, <1>7, <1>8, <1>9, FlushOrder, TakeOrder
     DEF Next, Pump, Runtime, Closed

\* What the later arguments start from, always true.
Bookkeeping == TypeOK /\ MessageIds /\ EpochsAgree /\ OrderInv

\* Identifiers are unique, epochs are learnt and commands stay in order.
THEOREM BookKept == Spec => []Bookkeeping
<1>1. ASSUME Init, TypeOK
      PROVE  Bookkeeping
  <2>1. /\ pc = "idle" /\ deferred = {} /\ flushing = {} /\ rtInput = <<>> /\ rtOutput = <<>>
        /\ epoch = rtEpoch /\ epoch \in Nat
    BY <1>1 DEF Init
  <2>2. DOMAIN rtInput = {} /\ DOMAIN rtOutput = {}
    BY <2>1
  <2>3. QED
    BY <1>1, <2>1, <2>2 DEF Bookkeeping, MessageIds, EpochsAgree, OrderInv, HeldOnlyBehind,
       CommandsInOrder
<1>2. ASSUME Bookkeeping, TypeOK', [Next]_vars
      PROVE  Bookkeeping'
  BY <1>2, IdsInductive, EpochsInductive, OrderInductive DEF Bookkeeping
<1>3. QED
  BY <1>1, <1>2, TypeCorrect, PTL DEF Spec

\* For every set of requests and every bound: what the runtime has yet to take
\* and what is still deferred is in the order the frontend issued it, through
\* transitions, hot reloads, rejections and faults.
THEOREM InOrder == Spec => []CommandsInOrder
<1>1. Bookkeeping => CommandsInOrder
  BY DEF Bookkeeping, OrderInv
<1>2. QED
  BY <1>1, BookKept, PTL
-----------------------------------------------------------------------------
(* The transition barrier, as long as no hot reload is issued *)

NoReloads ==
  /\ \A m \in deferred \cup flushing : m.kind # "reload"
  /\ \A i \in DOMAIN rtInput : rtInput[i].kind # "reload"

Undecided == rtTransition # 0 \/ \E i \in DOMAIN rtInput : rtInput[i].kind = "transition"

\* The client remembers exactly the transition the runtime has not decided, and
\* no output under way could be taken for its end.
TransitionPending ==
  /\ rtTransition # 0 => epochTransition = [id |-> rtTransition, epoch |-> rtEpoch]
  /\ \A i \in DOMAIN rtInput : rtInput[i].kind = "transition"
       => epochTransition = [id |-> rtInput[i].id, epoch |-> rtEpoch]
  /\ Undecided => \A k \in DOMAIN rtOutput :
       /\ rtOutput[k].epoch = rtEpoch
       /\ ~(rtOutput[k].kind = "rejected" /\ rtOutput[k].ref = epochTransition.id)

InputFresh == \A i \in DOMAIN rtInput :
                rtInput[i].kind # "reply" => rtInput[i].epoch = rtEpoch

Barrier ==
  NoReloads /\ TransitionPending /\ TransitionBarrier /\ InputFresh /\ NothingStale

BarrierInv == TypeOK /\ MessageIds /\ EpochsAgree /\ Barrier
-----------------------------------------------------------------------------
(* The client's steps *)

\* An envelope joins the runtime's input: what submitting it keeps.  The
\* message is new or leaves the list being flushed.
LEMMA SubmitKeeps ==
  ASSUME BarrierInv, pc \notin {"driving", "polling", "closed"},
         NEW m \in Message, m.kind # "reload", m.id # 0,
         \A i \in DOMAIN rtInput : rtInput[i].id # m.id,
         m.kind = "reply" \/ epochTransition = NoTransition,
         SubmitRuntime(m),
         UNCHANGED <<epoch, rtOutput, rtEpoch, rtTransition, rtStale>>
  PROVE  TransitionPending' /\ TransitionBarrier' /\ InputFresh' /\ NothingStale'
<1> DEFINE n == Len(rtInput) + 1
<1>1. /\ DOMAIN rtInput' = 1..n /\ DOMAIN rtInput = 1..Len(rtInput)
      /\ Len(rtInput) \in Nat
      /\ \A i \in DOMAIN rtInput : rtInput'[i] = rtInput[i]
      /\ rtInput'[n].id = m.id /\ rtInput'[n].kind = m.kind /\ rtInput'[n].epoch = epoch
  BY Submitted DEF BarrierInv
<1>2. rtOutput = <<>> /\ epoch = rtEpoch
  BY DEF BarrierInv, EpochsAgree
<1>3. DOMAIN rtOutput' = {}
  BY <1>2
<1>4. InputFresh'
  BY <1>1, <1>2 DEF BarrierInv, Barrier, InputFresh
<1>5. NothingStale'
  BY DEF BarrierInv, Barrier, NothingStale
<1>6. m.kind # "reply" => rtTransition = 0 /\ \A i \in DOMAIN rtInput : rtInput[i].kind # "transition"
  <2>1. \A i \in DOMAIN rtInput : rtInput[i].id # 0
    BY DEF BarrierInv, MessageIds, TypeOK
  <2>2. NoTransition.id = 0
    BY DEF NoTransition
  <2>3. QED
    BY <2>1, <2>2 DEF BarrierInv, Barrier, TransitionPending
<1>7. TransitionBarrier'
  BY <1>1, <1>6 DEF BarrierInv, Barrier, TransitionBarrier
<1>8. TransitionPending'
  <2>1. CASE m.kind = "transition"
    <3>1. epochTransition' = [id |-> m.id, epoch |-> rtEpoch]
      BY <2>1, <1>2 DEF SubmitRuntime
    <3>2. QED
      BY <2>1, <3>1, <1>1, <1>3, <1>6 DEF TransitionPending
  <2>2. CASE m.kind # "transition"
    <3>1. epochTransition' = epochTransition
      BY <2>2 DEF SubmitRuntime
    <3>2. QED
      BY <2>2, <3>1, <1>1, <1>3 DEF BarrierInv, Barrier, TransitionPending
  <2>3. QED
    BY <2>1, <2>2
<1>9. QED
  BY <1>4, <1>5, <1>7, <1>8

\* send_runtime between batches.
LEMMA SendKeeps ==
  ASSUME BarrierInv, pc \notin {"driving", "polling", "closed"},
         NEW kind \in Kinds, kind # "reload", NEW ref \in Refs, SendRuntime(kind, ref),
         UNCHANGED <<flushing, epoch, rtOutput, rtEpoch, rtTransition, rtStale>>
  PROVE  Barrier'
<1> DEFINE m == [id |-> nextMessageId, kind |-> kind, ref |-> ref]
<1>1. nextMessageId \in Nat \ {0} /\ nextMessageId' = nextMessageId + 1
  BY DEF BarrierInv, TypeOK, SendRuntime
<1>2. m \in Message
  BY <1>1 DEF Message
<1>3. \A i \in DOMAIN rtInput : rtInput[i].id \in 1..(nextMessageId - 1)
  BY DEF BarrierInv, MessageIds
<1>4. CASE /\ deferred' = deferred \cup {m}
           /\ UNCHANGED <<rtInput, epochTransition>>
  <2>1. NoReloads'
    BY <1>4 DEF BarrierInv, Barrier, NoReloads
  <2>2. QED
    BY <1>4, <2>1 DEF BarrierInv, Barrier, TransitionPending, Undecided, TransitionBarrier,
       InputFresh, NothingStale
<1>5. CASE epochTransition = NoTransition /\ SubmitRuntime(m) /\ UNCHANGED deferred
  <2>1. (\A i \in DOMAIN rtInput : rtInput[i].id # m.id) /\ m.id # 0 /\ m.kind = kind
    BY <1>1, <1>3
  <2>2. TransitionPending' /\ TransitionBarrier' /\ InputFresh' /\ NothingStale'
    BY <1>2, <1>5, <2>1, SubmitKeeps
  <2>3. NoReloads'
    <3>1. /\ DOMAIN rtInput' = 1..(Len(rtInput) + 1) /\ DOMAIN rtInput = 1..Len(rtInput)
          /\ Len(rtInput) \in Nat
          /\ \A i \in DOMAIN rtInput : rtInput'[i] = rtInput[i]
          /\ rtInput'[Len(rtInput) + 1].kind = m.kind
      BY <1>2, <1>5, Submitted DEF BarrierInv
    <3>2. QED
      BY <1>5, <2>1, <3>1 DEF BarrierInv, Barrier, NoReloads
  <2>4. QED
    BY <2>2, <2>3 DEF Barrier
<1>6. QED
  BY <1>4, <1>5 DEF SendRuntime

\* Reading one output: an undecided transition is not taken for decided.
LEMMA PollKeeps ==
  ASSUME BarrierInv, NEW kinds, Polled(kinds), AdoptEpoch(Head(rtOutput)),
         UNCHANGED <<rtInput, rtEpoch, rtTransition, rtStale>>
  PROVE  TransitionPending' /\ TransitionBarrier' /\ InputFresh' /\ NothingStale'
<1> DEFINE o == Head(rtOutput)
<1>1. rtOutput \in Seq(Output) /\ rtOutput # <<>> /\ rtOutput' = Tail(rtOutput)
  BY DEF Polled, BarrierInv, TypeOK
<1>2. /\ DOMAIN rtOutput = 1..Len(rtOutput) /\ Len(rtOutput) \in Nat \ {0} /\ 1 \in DOMAIN rtOutput
      /\ o = rtOutput[1]
      /\ Len(rtOutput') = Len(rtOutput) - 1
      /\ DOMAIN rtOutput' = 1..(Len(rtOutput) - 1)
      /\ \A k \in 1..(Len(rtOutput) - 1) : rtOutput'[k] = rtOutput[k + 1] /\ k + 1 \in DOMAIN rtOutput
      /\ rtOutput' = <<>> => Len(rtOutput) = 1
  BY <1>1, ShortenedQueue
<1>3. TransitionPending'
  <2>1. CASE Undecided
    <3>1. o.epoch = rtEpoch /\ ~(o.kind = "rejected" /\ o.ref = epochTransition.id)
      BY <1>2, <2>1 DEF BarrierInv, Barrier, TransitionPending
    <3>2. epochTransition.epoch = rtEpoch
      BY <2>1 DEF BarrierInv, Barrier, TransitionPending, Undecided
    <3>3. epochTransition' = epochTransition
      BY <3>1, <3>2 DEF AdoptEpoch, EndsTransition
    <3>4. \A k \in DOMAIN rtOutput' :
             /\ rtOutput'[k].epoch = rtEpoch
             /\ ~(rtOutput'[k].kind = "rejected" /\ rtOutput'[k].ref = epochTransition.id)
      BY <1>2, <2>1 DEF BarrierInv, Barrier, TransitionPending
    <3>5. QED
      BY <3>3, <3>4 DEF BarrierInv, Barrier, TransitionPending, Undecided
  <2>2. CASE ~Undecided
    BY <2>2 DEF TransitionPending, Undecided
  <2>3. QED
    BY <2>1, <2>2
<1>4. QED
  BY <1>3 DEF BarrierInv, Barrier, TransitionBarrier, InputFresh, NothingStale
-----------------------------------------------------------------------------
(* The runtime's steps *)

\* Taking the oldest envelope.
LEMMA TakeKeeps ==
  ASSUME BarrierInv, RtTake
  PROVE  Barrier'
<1> DEFINE m == Head(rtInput)
<1>1. /\ m = rtInput[1] /\ 1 \in DOMAIN rtInput /\ m \in Envelope
      /\ DOMAIN rtInput = 1..Len(rtInput) /\ Len(rtInput) \in Nat \ {0}
      /\ DOMAIN rtInput' = 1..(Len(rtInput) - 1)
      /\ \A i \in DOMAIN rtInput' : rtInput'[i] = rtInput[i + 1] /\ i + 1 \in DOMAIN rtInput
      /\ UNCHANGED <<nextMessageId, deferred, flushing, epochTransition, epoch>>
  BY Taken DEF clientVars, BarrierInv
<1>2. m.id \in Refs /\ rtOutput \in Seq(Output) /\ rtEpoch \in Nat
  BY <1>1 DEF BarrierInv, TypeOK, Envelope, Refs
<1>3. ~Stale(m) /\ m.kind # "reload"
  BY <1>1 DEF BarrierInv, Barrier, InputFresh, NoReloads, Stale
<1>4. rtEpoch' = rtEpoch /\ NothingStale'
  BY <1>3 DEF RtTake, BarrierInv, Barrier, NothingStale
<1>5. NoReloads'
  BY <1>1 DEF BarrierInv, Barrier, NoReloads
<1>6. InputFresh'
  BY <1>1, <1>4 DEF BarrierInv, Barrier, InputFresh
<1>7. \A i, j \in DOMAIN rtInput' :
        i < j /\ rtInput'[i].kind = "transition" => rtInput'[j].kind = "reply"
  <2>1. \A i, j \in DOMAIN rtInput' : i < j => i + 1 < j + 1
    BY <1>1
  <2>2. QED
    BY <1>1, <2>1 DEF BarrierInv, Barrier, TransitionBarrier
<1>8. \A i \in DOMAIN rtInput' : m.id # rtInput'[i].id
  BY <1>1 DEF BarrierInv, MessageIds
<1>9. CASE UNCHANGED <<rtOutput, rtTransition>> /\ m.kind # "transition"
  <2>1. TransitionBarrier'
    BY <1>1, <1>7, <1>9 DEF BarrierInv, Barrier, TransitionBarrier
  <2>2. Undecided' => Undecided
    BY <1>1, <1>9 DEF Undecided
  <2>3. TransitionPending'
    BY <1>1, <1>4, <1>9, <2>2 DEF BarrierInv, Barrier, TransitionPending
  <2>4. QED
    BY <1>4, <1>5, <1>6, <2>1, <2>3 DEF Barrier
<1>10. CASE m.kind = "transition"
  <2>1. /\ rtTransition = 0 /\ Undecided
        /\ epochTransition = [id |-> m.id, epoch |-> rtEpoch]
        /\ \A i \in DOMAIN rtInput' : rtInput'[i].kind = "reply"
    BY <1>1, <1>10 DEF BarrierInv, Barrier, TransitionBarrier, TransitionPending, Undecided
  <2>2. TransitionBarrier'
    BY <1>7, <2>1 DEF TransitionBarrier
  <2>3. CASE rtTransition' = m.id /\ UNCHANGED rtOutput
    <3>1. TransitionPending'
      BY <1>1, <1>4, <2>1, <2>3 DEF BarrierInv, Barrier, TransitionPending
    <3>2. QED
      BY <1>4, <1>5, <1>6, <2>2, <3>1 DEF Barrier
  <2>4. CASE Emit("rejected", m.id, rtEpoch) /\ UNCHANGED rtTransition
    <3>1. TransitionPending'
      BY <2>1, <2>4 DEF TransitionPending, Undecided
    <3>2. QED
      BY <1>4, <1>5, <1>6, <2>2, <3>1 DEF Barrier
  <2>5. QED
    BY <1>3, <1>10, <2>3, <2>4 DEF RtTake
<1>11. QED
  BY <1>3, <1>9, <1>10 DEF RtTake

\* Raising or withdrawing a request.
LEMMA RequestKeeps ==
  ASSUME BarrierInv, NEW r \in Requests, RtRaise(r) \/ RtCancel(r)
  PROVE  Barrier'
<1>1. PICK kind \in {"request", "cancel"} :
        /\ Emit(kind, r, rtEpoch)
        /\ UNCHANGED <<clientVars, rtInput, rtEpoch, rtTransition, rtStale>>
  BY DEF RtRaise, RtCancel, RtUnchangedBut
<1> DEFINE o == [kind |-> kind, ref |-> r, epoch |-> rtEpoch]
<1>2. o \in Output /\ rtOutput \in Seq(Output) /\ o.kind = kind /\ o.epoch = rtEpoch
  BY Sendable DEF BarrierInv, TypeOK, Output
<1>3. rtOutput' = Append(rtOutput, o)
  BY <1>1 DEF Emit
<1>4. /\ DOMAIN rtOutput' = 1..(Len(rtOutput) + 1) /\ DOMAIN rtOutput = 1..Len(rtOutput)
      /\ Len(rtOutput) \in Nat
      /\ \A k \in DOMAIN rtOutput : rtOutput'[k] = rtOutput[k]
      /\ rtOutput'[Len(rtOutput) + 1] = o
  BY <1>2, <1>3, AppendedQueue
<1>5. TransitionPending'
  BY <1>1, <1>2, <1>4 DEF clientVars, BarrierInv, Barrier, TransitionPending, Undecided
<1>6. QED
  BY <1>1, <1>5 DEF clientVars, BarrierInv, Barrier, NoReloads, TransitionBarrier, InputFresh,
     NothingStale

\* Deciding the accepted transition.
LEMMA DecideKeeps ==
  ASSUME BarrierInv, RtCommit \/ RtRefuse
  PROVE  Barrier'
<1>1. /\ rtTransition # 0 /\ rtTransition' = 0
      /\ UNCHANGED <<clientVars, rtInput, rtStale>>
  BY DEF RtCommit, RtRefuse, RtUnchangedBut
<1>2. \A i \in DOMAIN rtInput' : rtInput'[i].kind = "reply"
  BY <1>1 DEF BarrierInv, Barrier, TransitionBarrier
<1>3. ~Undecided'
  BY <1>1, <1>2 DEF Undecided
<1>4. TransitionPending' /\ TransitionBarrier' /\ InputFresh'
  BY <1>1, <1>2, <1>3 DEF TransitionPending, Undecided, TransitionBarrier, InputFresh
<1>5. QED
  BY <1>1, <1>4 DEF clientVars, BarrierInv, Barrier, NoReloads, NothingStale
-----------------------------------------------------------------------------
(* The barrier *)

\* Moving through the pump, deferring or withdrawing messages, without touching
\* epochs or the runtime.
LEMMA QuietKeeps ==
  ASSUME BarrierInv, NoReloads',
         UNCHANGED <<epochTransition, rtInput, rtOutput, rtEpoch, rtTransition, rtStale>>
  PROVE  Barrier'
  BY DEF BarrierInv, Barrier, TransitionPending, Undecided, TransitionBarrier, InputFresh,
     NothingStale

\* One deferred message is submitted, or held back.
LEMMA FlushKeeps ==
  ASSUME BarrierInv, FlushDeferred
  PROVE  Barrier'
<1>1. /\ pc = "flushing"
      /\ UNCHANGED <<epoch, rtOutput, rtEpoch, rtTransition, rtStale>>
  BY DEF FlushDeferred, rtVars
<1>2. PICK m \in flushing :
        /\ flushing' = flushing \ {m}
        /\ \/ deferred' = deferred \cup {m} /\ UNCHANGED <<rtInput, epochTransition>>
           \/ ~HeldBack(m) /\ SubmitRuntime(m) /\ UNCHANGED deferred
  BY DEF FlushDeferred
<1>3. /\ m \in Message /\ m.kind # "reload"
      /\ \A i \in DOMAIN rtInput : rtInput[i].id # m.id
      /\ m.id \in 1..(nextMessageId - 1) /\ nextMessageId \in Nat
  BY DEF BarrierInv, Barrier, TypeOK, NoReloads, MessageIds
<1>4. m.id # 0
  BY <1>3
<1>5. CASE deferred' = deferred \cup {m} /\ UNCHANGED <<rtInput, epochTransition>>
  <2>1. NoReloads'
    BY <1>2, <1>5 DEF BarrierInv, Barrier, NoReloads
  <2>2. QED
    BY <1>1, <1>5, <2>1, QuietKeeps
<1>6. CASE ~HeldBack(m) /\ SubmitRuntime(m) /\ UNCHANGED deferred
  <2>1. m.kind = "reply" \/ epochTransition = NoTransition
    BY <1>6 DEF HeldBack
  <2>2. TransitionPending' /\ TransitionBarrier' /\ InputFresh' /\ NothingStale'
    BY <1>1, <1>3, <1>4, <1>6, <2>1, SubmitKeeps
  <2>3. /\ DOMAIN rtInput' = 1..(Len(rtInput) + 1) /\ DOMAIN rtInput = 1..Len(rtInput)
        /\ Len(rtInput) \in Nat
        /\ \A i \in DOMAIN rtInput : rtInput'[i] = rtInput[i]
        /\ rtInput'[Len(rtInput) + 1].kind = m.kind
    BY <1>3, <1>6, Submitted DEF BarrierInv
  <2>4. NoReloads'
    BY <1>2, <1>3, <1>6, <2>3 DEF BarrierInv, Barrier, NoReloads
  <2>5. QED
    BY <2>2, <2>4 DEF Barrier
<1>7. QED
  BY <1>2, <1>5, <1>6

\* Every step keeps the barrier.
LEMMA BarrierInductive ==
  ASSUME "reload" \notin Commands, BarrierInv, [Next]_vars
  PROVE  Barrier'
<1> USE DEF clientVars, rtVars
<1>0. \A kind \in Commands : kind # "reload"
  OBVIOUS
<1>1. CASE IssueCommand
  <2>1. PICK kind \in Commands : SendRuntime(kind, 0)
    BY <1>1 DEF IssueCommand
  <2>2. kind \in Kinds /\ kind # "reload" /\ 0 \in Refs
    BY <1>0, Sendable
  <2>3. pc = "idle" /\ UNCHANGED <<flushing, epoch, rtOutput, rtEpoch, rtTransition, rtStale>>
    BY <1>1 DEF IssueCommand
  <2>4. QED
    BY <2>1, <2>2, <2>3, SendKeeps
<1>2. ASSUME NEW r \in DeviceRequests, CompleteDevicePump(r)
      PROVE  Barrier'
  <2>1. pc = "idle" /\ UNCHANGED <<flushing, epoch, rtOutput, rtEpoch, rtTransition, rtStale>>
    BY <1>2 DEF CompleteDevicePump
  <2>2. CASE UNCHANGED <<nextMessageId, deferred, epochTransition, rtInput>>
    BY <2>1, <2>2, QuietKeeps DEF BarrierInv, Barrier, NoReloads
  <2>3. CASE SendRuntime("reply", r)
    BY <2>1, <2>3, Sendable, SendKeeps
  <2>4. QED
    BY <1>2, <2>2, <2>3 DEF CompleteDevicePump
<1>3. CASE BeginDrive \/ EndDrive \/ EndPoll \/ EndPump \/ PumpFault \/ BeginFlush \/ UNCHANGED vars
  <2>1. UNCHANGED <<epochTransition, rtInput, rtOutput, rtEpoch, rtTransition, rtStale>>
    BY <1>3 DEF BeginDrive, EndDrive, EndPoll, EndPump, PumpFault, BeginFlush, vars
  <2>2. deferred' \cup flushing' \subseteq deferred \cup flushing
    BY <1>3 DEF BeginDrive, EndDrive, EndPoll, EndPump, PumpFault, BeginFlush, LeftDeferred, vars
  <2>3. NoReloads'
    BY <2>1, <2>2 DEF BarrierInv, Barrier, NoReloads
  <2>4. QED
    BY <2>1, <2>3, QuietKeeps
<1>4. CASE HandleEvent
  <2>1. /\ Polled({"event", "rejected"}) /\ AdoptEpoch(Head(rtOutput))
        /\ UNCHANGED <<flushing, rtInput, rtEpoch, rtTransition, rtStale>>
    BY <1>4 DEF HandleEvent
  <2>2. \/ UNCHANGED deferred
        \/ \E kind \in Commands : DeferRuntime(deferred, kind, 0)
    BY <1>4 DEF HandleEvent
  <2>3. NoReloads'
    BY <1>0, <2>1, <2>2 DEF BarrierInv, Barrier, NoReloads, DeferRuntime
  <2>4. QED
    BY <2>1, <2>3, PollKeeps DEF Barrier
<1>5. CASE HandleRequest
  <2>1. /\ Polled({"request"}) /\ AdoptEpoch(Head(rtOutput))
        /\ UNCHANGED <<flushing, rtInput, rtEpoch, rtTransition, rtStale>>
    BY <1>5 DEF HandleRequest
  <2>2. UNCHANGED deferred \/ DeferRuntime(deferred, "reply", Head(rtOutput).ref)
    BY <1>5 DEF HandleRequest
  <2>3. NoReloads'
    BY <2>1, <2>2 DEF BarrierInv, Barrier, NoReloads, DeferRuntime
  <2>4. QED
    BY <2>1, <2>3, PollKeeps DEF Barrier
<1>6. CASE HandleCancel
  <2>1. /\ Polled({"cancel"}) /\ AdoptEpoch(Head(rtOutput))
        /\ UNCHANGED <<flushing, rtInput, rtEpoch, rtTransition, rtStale>>
    BY <1>6 DEF HandleCancel
  <2>2. deferred' \subseteq deferred
    BY <1>6 DEF HandleCancel, Withdraw
  <2>3. NoReloads'
    BY <2>1, <2>2 DEF BarrierInv, Barrier, NoReloads
  <2>4. QED
    BY <2>1, <2>3, PollKeeps DEF Barrier
<1>7. ASSUME NEW r \in SqlRequests, ExecuteSql(r)
      PROVE  Barrier'
  <2>1. /\ DeferRuntime(deferred, "reply", r) /\ UNCHANGED flushing
        /\ UNCHANGED <<epochTransition, rtInput, rtOutput, rtEpoch, rtTransition, rtStale>>
    BY <1>7 DEF ExecuteSql
  <2>2. NoReloads'
    BY <2>1 DEF BarrierInv, Barrier, NoReloads, DeferRuntime
  <2>3. QED
    BY <2>1, <2>2, QuietKeeps
<1>8. CASE AcknowledgeBatch
  <2>1. /\ pc = "settling"
        /\ UNCHANGED <<flushing, epoch, rtOutput, rtEpoch, rtTransition, rtStale>>
    BY <1>8 DEF AcknowledgeBatch
  <2>2. CASE UNCHANGED <<nextMessageId, deferred, epochTransition, rtInput>>
    BY <2>1, <2>2, QuietKeeps DEF BarrierInv, Barrier, NoReloads
  <2>3. CASE SendRuntime("ack", AcknowledgeThrough)
    <3>1. AcknowledgeThrough \in Refs
      BY Sendable DEF BarrierInv
    <3>2. QED
      BY <2>1, <2>3, <3>1, Sendable, SendKeeps
  <2>4. QED
    BY <1>8, <2>2, <2>3 DEF AcknowledgeBatch
<1>9. QED
  BY <1>1, <1>2, <1>3, <1>4, <1>5, <1>6, <1>7, <1>8, FlushKeeps, TakeKeeps, RequestKeeps,
     DecideKeeps DEF Next, Pump, Runtime, Closed

\* For every set of requests and every bound: if no hot reload is issued, an
\* undecided game transition has nothing but replies behind it, and no message
\* but a reply is ever refused for its epoch.
THEOREM BarrierHolds ==
  ASSUME "reload" \notin Commands
  PROVE  Spec => [](TransitionBarrier /\ NothingStale)
<1>1. ASSUME Init
      PROVE  Barrier
  <2>1. /\ deferred = {} /\ flushing = {} /\ rtInput = <<>> /\ rtOutput = <<>>
        /\ rtTransition = 0 /\ rtStale = {}
    BY <1>1 DEF Init
  <2>2. DOMAIN rtInput = {} /\ DOMAIN rtOutput = {}
    BY <2>1
  <2>3. QED
    BY <2>1, <2>2 DEF Barrier, NoReloads, TransitionPending, Undecided, TransitionBarrier,
       InputFresh, NothingStale
<1>2. ASSUME Bookkeeping, Barrier, [Next]_vars
      PROVE  Barrier'
  BY <1>2, BarrierInductive DEF BarrierInv, Bookkeeping
<1>3. Barrier => TransitionBarrier /\ NothingStale
  BY DEF Barrier
<1>4. QED
  BY <1>1, <1>2, <1>3, BookKept, PTL DEF Spec
-----------------------------------------------------------------------------
(* What the client answers: a request is in one place at a time, a withdrawn *)
(* one in none, and SQL is executed only for what is open.                   *)

\* Where an output, a reply still held by the client, or a reply under way is.
Outputs(kind, r) == {k \in DOMAIN rtOutput : rtOutput[k].kind = kind /\ rtOutput[k].ref = r}
Asked(r) == Outputs("request", r)
Withdrawn(r) == Outputs("cancel", r)
Held(r) == {m \in deferred \cup flushing : m.kind = "reply" /\ m.ref = r}
Sent(r) == {i \in DOMAIN rtInput : rtInput[i].kind = "reply" /\ rtInput[i].ref = r}

Single(S) == \A x, y \in S : x = y

\* Nothing where there was nothing, one where there was one.
Keeps(S, T) == (S = {} => T = {}) /\ (Single(S) => Single(T))

\* A request on its way is asked, queued, answered by a reply held, under way,
\* or taken: one of them, once, and none before it is raised.
OnePlace(r) ==
  /\ Single(Asked(r)) /\ Single(Held(r)) /\ Single(Sent(r))
  /\ r \in pendingSql => r \notin pendingDevice
  /\ r \notin rtRaised => /\ Asked(r) = {} /\ Held(r) = {} /\ Sent(r) = {}
                          /\ r \notin pendingSql /\ r \notin pendingDevice /\ r \notin rtAnswered
  /\ Asked(r) # {} => /\ Held(r) = {} /\ Sent(r) = {}
                      /\ r \notin pendingSql /\ r \notin pendingDevice /\ r \notin rtAnswered
  /\ r \in pendingSql \/ r \in pendingDevice => Held(r) = {} /\ Sent(r) = {} /\ r \notin rtAnswered
  /\ Held(r) # {} => Sent(r) = {} /\ r \notin rtAnswered
  /\ Sent(r) # {} => r \notin rtAnswered

Places == \A r \in Requests : OnePlace(r)
-----------------------------------------------------------------------------
(* Where things go *)

\* Part of a set is no more than the set.
LEMMA SubsetKeeps ==
  ASSUME NEW S, NEW T \in SUBSET S
  PROVE  Keeps(S, T)
  BY DEF Keeps, Single

\* An output leaves, and the others move up.
LEMMA OutputsPolled ==
  ASSUME TypeOK, NEW kinds, Polled(kinds), NEW kind, NEW r
  PROVE  /\ \A k \in Outputs(kind, r) : k \in Nat \ {0}
         /\ \A k \in Outputs(kind, r)' : /\ k \in Nat \ {0} /\ k + 1 \in Outputs(kind, r)
                                         /\ rtOutput'[k] = rtOutput[k + 1]
         /\ \A k \in Outputs(kind, r) : k # 1 => k - 1 \in Outputs(kind, r)'
         /\ 1 \in Outputs(kind, r) <=> Head(rtOutput).kind = kind /\ Head(rtOutput).ref = r
         /\ Head(rtOutput) = rtOutput[1] /\ Head(rtOutput) \in Output
<1>1. rtOutput \in Seq(Output) /\ rtOutput # <<>> /\ rtOutput' = Tail(rtOutput)
  BY DEF Polled, TypeOK
<1>2. /\ DOMAIN rtOutput = 1..Len(rtOutput) /\ Len(rtOutput) \in Nat \ {0} /\ 1 \in DOMAIN rtOutput
      /\ Head(rtOutput) = rtOutput[1]
      /\ DOMAIN rtOutput' = 1..(Len(rtOutput) - 1)
      /\ \A k \in 1..(Len(rtOutput) - 1) : rtOutput'[k] = rtOutput[k + 1] /\ k + 1 \in DOMAIN rtOutput
  BY <1>1, ShortenedQueue
<1>3. \A k \in Outputs(kind, r) : k # 1 => k - 1 \in Outputs(kind, r)'
  <2>1. SUFFICES ASSUME NEW k \in Outputs(kind, r), k # 1
                 PROVE  k - 1 \in Outputs(kind, r)'
    OBVIOUS
  <2>2. k \in 1..Len(rtOutput) /\ rtOutput[k].kind = kind /\ rtOutput[k].ref = r
    BY <1>2 DEF Outputs
  <2>3. k - 1 \in 1..(Len(rtOutput) - 1) /\ (k - 1) + 1 = k
    BY <1>2, <2>1, <2>2
  <2>4. rtOutput'[k - 1] = rtOutput[k]
    BY <1>2, <2>3
  <2>5. QED
    BY <1>2, <2>2, <2>3, <2>4 DEF Outputs
<1>4. \A k \in Outputs(kind, r)' : k \in Nat \ {0} /\ k + 1 \in Outputs(kind, r)
                                   /\ rtOutput'[k] = rtOutput[k + 1]
  BY <1>2 DEF Outputs
<1>5. \A k \in Outputs(kind, r) : k \in Nat \ {0}
  BY <1>2 DEF Outputs
<1>6. 1 \in Outputs(kind, r) <=> Head(rtOutput).kind = kind /\ Head(rtOutput).ref = r
  BY <1>2 DEF Outputs
<1>7. Head(rtOutput) \in Output
  BY <1>1, QueueTyping
<1>8. QED
  BY <1>2, <1>3, <1>4, <1>5, <1>6, <1>7

\* Reading outputs keeps what is asked; reading the only request of its name
\* leaves none.
LEMMA AskedPolled ==
  ASSUME TypeOK, NEW kinds, Polled(kinds), NEW r
  PROVE  /\ Keeps(Asked(r), Asked(r)')
         /\ Head(rtOutput).kind = "request" /\ Head(rtOutput).ref = r /\ Single(Asked(r))
              => Asked(r) # {} /\ Asked(r)' = {}
<1>1. /\ \A k \in Asked(r) : k \in Nat \ {0}
      /\ \A k \in Asked(r)' : k \in Nat \ {0} /\ k + 1 \in Asked(r)
      /\ 1 \in Asked(r) <=> Head(rtOutput).kind = "request" /\ Head(rtOutput).ref = r
  BY OutputsPolled DEF Asked
<1>2. \A j, k \in Nat : (j + 1 = k + 1 => j = k) /\ (k # 0 => k + 1 # 1)
  OBVIOUS
<1>3. QED
  BY <1>1, <1>2 DEF Keeps, Single

\* An output joins the others.
LEMMA OutputsEmitted ==
  ASSUME TypeOK, NEW kind \in {"event", "rejected", "request", "cancel"}, NEW ref \in Refs,
         NEW e \in Nat, Emit(kind, ref, e), NEW other, NEW r
  PROVE  /\ Len(rtOutput) \in Nat
         /\ \A k \in Outputs(other, r) : /\ k \in 1..Len(rtOutput) /\ k \in Outputs(other, r)'
                                         /\ rtOutput'[k] = rtOutput[k]
         /\ \A k \in Outputs(other, r)' :
              \/ k \in Outputs(other, r)
              \/ /\ k = Len(rtOutput) + 1 /\ kind = other /\ ref = r
                 /\ rtOutput'[k].epoch = e
<1> DEFINE o == [kind |-> kind, ref |-> ref, epoch |-> e]
<1>1. o \in Output /\ o.kind = kind /\ o.ref = ref /\ o.epoch = e
  BY DEF Output
<1>2. rtOutput \in Seq(Output) /\ rtOutput' = Append(rtOutput, o)
  BY DEF Emit, TypeOK
<1>3. /\ DOMAIN rtOutput = 1..Len(rtOutput) /\ Len(rtOutput) \in Nat
      /\ DOMAIN rtOutput' = 1..(Len(rtOutput) + 1)
      /\ \A k \in 1..Len(rtOutput) : rtOutput'[k] = rtOutput[k]
      /\ rtOutput'[Len(rtOutput) + 1] = o
  BY <1>1, <1>2, AppendedQueue
<1>4. QED
  BY <1>1, <1>3 DEF Outputs

\* Only a request asks.
LEMMA AskedEmitted ==
  ASSUME TypeOK, NEW kind \in {"event", "rejected", "request", "cancel"}, NEW ref \in Refs,
         NEW e \in Nat, Emit(kind, ref, e), NEW r
  PROVE  /\ kind # "request" \/ ref # r => Keeps(Asked(r), Asked(r)')
         /\ Asked(r) = {} => Single(Asked(r)')
<1>1. /\ \A k \in Asked(r)' : \/ k \in Asked(r)
                              \/ k = Len(rtOutput) + 1 /\ kind = "request" /\ ref = r
  BY OutputsEmitted DEF Asked
<1>2. QED
  BY <1>1 DEF Keeps, Single

\* A submitted reply is under way.
LEMMA SentSubmitted ==
  ASSUME TypeOK, NEW m \in Message, SubmitRuntime(m), NEW r
  PROVE  /\ ~(m.kind = "reply" /\ m.ref = r) => Keeps(Sent(r), Sent(r)')
         /\ Sent(r) = {} => Single(Sent(r)')
<1>1. /\ DOMAIN rtInput' = 1..(Len(rtInput) + 1) /\ DOMAIN rtInput = 1..Len(rtInput)
      /\ Len(rtInput) \in Nat
      /\ \A i \in DOMAIN rtInput : rtInput'[i] = rtInput[i]
      /\ rtInput'[Len(rtInput) + 1].kind = m.kind
      /\ rtInput'[Len(rtInput) + 1].ref = m.ref
  BY Submitted
<1>2. \A i \in Sent(r)' : \/ i \in Sent(r)
                          \/ i = Len(rtInput) + 1 /\ m.kind = "reply" /\ m.ref = r
  BY <1>1 DEF Sent
<1>3. QED
  BY <1>2 DEF Keeps, Single

\* Taking the only reply to a request leaves none under way.
LEMMA SentTaken ==
  ASSUME TypeOK, RtTake, NEW r
  PROVE  /\ Keeps(Sent(r), Sent(r)')
         /\ Head(rtInput).kind = "reply" /\ Head(rtInput).ref = r /\ Single(Sent(r))
              => Sent(r) # {} /\ Sent(r)' = {}
<1>1. /\ Head(rtInput) = rtInput[1] /\ 1 \in DOMAIN rtInput
      /\ DOMAIN rtInput = 1..Len(rtInput) /\ Len(rtInput) \in Nat \ {0}
      /\ DOMAIN rtInput' = 1..(Len(rtInput) - 1)
      /\ \A i \in DOMAIN rtInput' : rtInput'[i] = rtInput[i + 1] /\ i + 1 \in DOMAIN rtInput
  BY Taken
<1>2. \A i \in Sent(r)' : i \in Nat \ {0} /\ i + 1 \in Sent(r)
  BY <1>1 DEF Sent
<1>3. 1 \in Sent(r) <=> Head(rtInput).kind = "reply" /\ Head(rtInput).ref = r
  BY <1>1 DEF Sent
<1>4. \A i, j \in Nat : (i + 1 = j + 1 => i = j) /\ (i # 0 => i + 1 # 1)
  OBVIOUS
<1>5. QED
  BY <1>2, <1>3, <1>4 DEF Keeps, Single

\* A message deferred inside a batch: a reply is held, another changes nothing.
LEMMA HeldDeferred ==
  ASSUME NEW kept \in SUBSET deferred, UNCHANGED flushing, NEW kind, NEW ref, NEW r,
         deferred' = kept \/ DeferRuntime(kept, kind, ref)
  PROVE  /\ deferred' = kept \/ kind # "reply" \/ ref # r => Keeps(Held(r), Held(r)')
         /\ Held(r) = {} => Single(Held(r)')
<1> DEFINE m == [id |-> nextMessageId, kind |-> kind, ref |-> ref]
<1>1. CASE deferred' = kept
  <2>1. Held(r)' \in SUBSET Held(r)
    BY <1>1 DEF Held
  <2>2. QED
    BY <2>1, SubsetKeeps DEF Keeps, Single
<1>2. CASE DeferRuntime(kept, kind, ref)
  <2>1. \A n \in Held(r)' : n \in Held(r) \/ (n = m /\ kind = "reply" /\ ref = r)
    BY <1>2 DEF DeferRuntime, Held
  <2>2. Held(r) = {} => Single(Held(r)')
    BY <2>1 DEF Single
  <2>3. kind # "reply" \/ ref # r => Keeps(Held(r), Held(r)')
    BY <2>1 DEF Keeps, Single
  <2>4. CASE deferred' = kept
    BY <1>1, <2>4
  <2>5. QED
    BY <2>2, <2>3, <2>4
<1>3. QED
  BY <1>1, <1>2

\* A message sent between batches: a reply is held or under way.
LEMMA RepliesSent ==
  ASSUME TypeOK, NEW kind \in Kinds, NEW ref \in Refs, SendRuntime(kind, ref),
         UNCHANGED flushing, NEW r
  PROVE  /\ kind # "reply" \/ ref # r => Keeps(Held(r), Held(r)') /\ Keeps(Sent(r), Sent(r)')
         /\ Held(r) = {} /\ Sent(r) = {} => \/ Single(Held(r)') /\ Sent(r)' = {}
                                            \/ Held(r)' = {} /\ Single(Sent(r)')
<1> DEFINE m == [id |-> nextMessageId, kind |-> kind, ref |-> ref]
<1>1. m \in Message /\ m.kind = kind /\ m.ref = ref
  BY DEF TypeOK, Message
<1>2. CASE deferred' = deferred \cup {m} /\ UNCHANGED rtInput
  <2>1. Sent(r)' = Sent(r)
    BY <1>2 DEF Sent
  <2>2. \A n \in Held(r)' : n \in Held(r) \/ (n = m /\ kind = "reply" /\ ref = r)
    BY <1>1, <1>2 DEF Held
  <2>3. QED
    BY <2>1, <2>2 DEF Keeps, Single
<1>3. CASE SubmitRuntime(m) /\ UNCHANGED deferred
  <2>1. Held(r)' = Held(r)
    BY <1>3 DEF Held
  <2>2. QED
    BY <1>1, <1>3, <2>1, SentSubmitted DEF Keeps
<1>4. QED
  BY <1>2, <1>3 DEF SendRuntime
-----------------------------------------------------------------------------
(* One place at a time *)

\* Fewer places than before are still at most one.
LEMMA FewerPlaces ==
  ASSUME NEW r, OnePlace(r), Keeps(Asked(r), Asked(r)'), Keeps(Held(r), Held(r)'),
         Keeps(Sent(r), Sent(r)'),
         r \in pendingSql' => r \in pendingSql, r \in pendingDevice' => r \in pendingDevice,
         r \in rtAnswered' => r \in rtAnswered, r \in rtRaised => r \in rtRaised'
  PROVE  OnePlace(r)'
  BY Zenon DEF OnePlace, Keeps

\* What a step leaves alone.
LEMMA SamePlaces ==
  ASSUME NEW r
  PROVE  /\ UNCHANGED rtOutput => Keeps(Asked(r), Asked(r)')
         /\ UNCHANGED <<deferred, flushing>> => Keeps(Held(r), Held(r)')
         /\ UNCHANGED rtInput => Keeps(Sent(r), Sent(r)')
<1>1. UNCHANGED rtOutput => Asked(r)' = Asked(r)
  BY DEF Asked, Outputs
<1>2. UNCHANGED <<deferred, flushing>> => Held(r)' = Held(r)
  BY DEF Held
<1>3. UNCHANGED rtInput => Sent(r)' = Sent(r)
  BY DEF Sent
<1>4. QED
  BY <1>1, <1>2, <1>3 DEF Keeps

\* Nothing is single.
LEMMA NoneSingle ==
  Single({})
  BY DEF Single

\* A reply to a pending request, held or sent, takes its place.
LEMMA AnsweredPlace ==
  ASSUME NEW r, OnePlace(r), r \in pendingSql \/ r \in pendingDevice,
         r \notin pendingSql', r \notin pendingDevice',
         \/ Single(Held(r)') /\ Sent(r)' = {}
         \/ Held(r)' = {} /\ Single(Sent(r)'),
         Keeps(Asked(r), Asked(r)'), UNCHANGED <<rtAnswered, rtRaised>>
  PROVE  OnePlace(r)'
<1>1. Asked(r)' = {} /\ r \notin rtAnswered' /\ r \in rtRaised'
  BY DEF OnePlace, Keeps
<1>2. Single(Asked(r)')
  BY <1>1, NoneSingle
<1>3. Single(Held(r)') /\ Single(Sent(r)')
  BY NoneSingle
<1>4. QED
  BY <1>1, <1>2, <1>3, Zenon DEF OnePlace

\* Reading an output moves a request from the queue of outputs to a place of
\* the client.
LEMMA PollPlaces ==
  ASSUME TypeOK, Places, HandleEvent \/ HandleRequest \/ HandleCancel, NEW r \in Requests
  PROVE  OnePlace(r)'
<1> DEFINE o == Head(rtOutput)
<1>1. /\ UNCHANGED <<flushing, rtInput, rtAnswered, rtRaised>>
      /\ \E kinds : Polled(kinds)
      /\ o.kind = "request" <=> HandleRequest
  BY DEF HandleEvent, HandleRequest, HandleCancel, Polled
<1>2. /\ Keeps(Asked(r), Asked(r)')
      /\ o.kind = "request" /\ o.ref = r /\ Single(Asked(r)) => Asked(r) # {} /\ Asked(r)' = {}
      /\ Keeps(Sent(r), Sent(r)')
  BY <1>1, AskedPolled, SamePlaces
<1>3. OnePlace(r)
  BY DEF Places
<1>4. SqlAfterAdoption(o) \subseteq pendingSql
  BY DEF SqlAfterAdoption
<1>5. CASE HandleEvent
  <2>1. UNCHANGED deferred \/ \E kind \in Commands : DeferRuntime(deferred, kind, 0)
    BY <1>5 DEF HandleEvent
  <2>2. \A kind \in Commands : kind # "reply"
    BY CommandsAssumption DEF CommandKinds
  <2>3. Keeps(Held(r), Held(r)')
    BY <1>1, <2>1, <2>2, HeldDeferred
  <2>4. (r \in pendingSql' => r \in pendingSql) /\ UNCHANGED pendingDevice
    BY <1>4, <1>5 DEF HandleEvent
  <2>5. QED
    BY <1>1, <1>2, <1>3, <2>3, <2>4, FewerPlaces
<1>6. CASE HandleCancel
  <2>1. deferred' \in SUBSET deferred
    BY <1>6 DEF HandleCancel, Withdraw
  <2>2. Keeps(Held(r), Held(r)')
    BY <1>1, <2>1, HeldDeferred
  <2>3. (r \in pendingSql' => r \in pendingSql) /\ (r \in pendingDevice' => r \in pendingDevice)
    BY <1>4, <1>6 DEF HandleCancel, SqlAfterCancel
  <2>4. QED
    BY <1>1, <1>2, <1>3, <2>2, <2>3, FewerPlaces
<1>7. CASE HandleRequest /\ o.ref # r
  <2>1. UNCHANGED deferred \/ DeferRuntime(deferred, "reply", o.ref)
    BY <1>7 DEF HandleRequest
  <2>2. Keeps(Held(r), Held(r)')
    BY <1>1, <1>7, <2>1, HeldDeferred
  <2>3. (r \in pendingSql' => r \in pendingSql) /\ (r \in pendingDevice' => r \in pendingDevice)
    BY <1>4, <1>7 DEF HandleRequest
  <2>4. QED
    BY <1>1, <1>2, <1>3, <2>2, <2>3, FewerPlaces
<1>8. CASE HandleRequest /\ o.ref = r
  <2>1. Single(Asked(r))
    BY <1>3 DEF OnePlace
  <2>2. Asked(r) # {} /\ Asked(r)' = {}
    BY <1>1, <1>2, <1>8, <2>1
  <2>3. /\ Held(r) = {} /\ Sent(r) = {} /\ r \notin pendingSql /\ r \notin pendingDevice
        /\ r \notin rtAnswered' /\ r \in rtRaised'
    BY <1>1, <1>3, <2>2 DEF OnePlace
  <2>4. Sent(r)' = {} /\ Single(Asked(r)') /\ Single(Sent(r)')
    BY <1>2, <2>2, <2>3, NoneSingle DEF Keeps
  <2>5. CASE UNCHANGED deferred
    <3>1. Held(r)' = {} /\ Single(Held(r)')
      BY <1>1, <2>3, <2>5, SamePlaces, NoneSingle DEF Keeps
    <3>2. ~(r \in pendingSql' /\ r \in pendingDevice')
      BY <1>4, <1>8, <2>3 DEF HandleRequest
    <3>3. QED
      BY <2>2, <2>3, <2>4, <3>1, <3>2, Zenon DEF OnePlace
  <2>6. CASE DeferRuntime(deferred, "reply", r) /\ r \notin pendingSql' /\ r \notin pendingDevice'
    <3>1. Single(Held(r)')
      BY <1>1, <2>3, <2>6, HeldDeferred
    <3>2. QED
      BY <2>2, <2>3, <2>4, <2>6, <3>1, Zenon DEF OnePlace
  <2>7. QED
    BY <1>4, <1>8, <2>3, <2>5, <2>6 DEF HandleRequest
<1>9. QED
  BY <1>1, <1>5, <1>6, <1>7, <1>8

\* Taking a reply settles its request.
LEMMA TakePlaces ==
  ASSUME TypeOK, Places, RtTake, NEW r \in Requests
  PROVE  OnePlace(r)'
<1> DEFINE m == Head(rtInput)
<1>1. /\ UNCHANGED <<deferred, flushing, pendingSql, pendingDevice, rtRaised>>
      /\ m \in Envelope /\ m.id \in Refs /\ 0 \in Refs /\ rtEpoch \in Nat
  BY Taken DEF clientVars, Envelope, Refs, TypeOK
<1>2. Keeps(Asked(r), Asked(r)')
  <2>1. CASE UNCHANGED rtOutput
    BY <2>1, SamePlaces
  <2>2. CASE Emit("rejected", m.id, rtEpoch)
    BY <1>1, <2>2, AskedEmitted
  <2>3. CASE Emit("event", 0, rtEpoch') /\ (rtEpoch' = rtEpoch \/ rtEpoch' = rtEpoch + 1)
    BY <1>1, <2>3, AskedEmitted
  <2>4. QED
    BY <2>1, <2>2, <2>3 DEF RtTake
<1>3. Keeps(Held(r), Held(r)')
  BY <1>1, SamePlaces
<1>4. /\ Keeps(Sent(r), Sent(r)')
      /\ m.kind = "reply" /\ m.ref = r /\ Single(Sent(r)) => Sent(r) # {} /\ Sent(r)' = {}
  BY SentTaken
<1>5. OnePlace(r)
  BY DEF Places
<1>6. CASE r \in rtAnswered' => r \in rtAnswered
  BY <1>1, <1>2, <1>3, <1>4, <1>5, <1>6, FewerPlaces
<1>7. CASE ~(r \in rtAnswered' => r \in rtAnswered)
  <2>1. m.kind = "reply" /\ m.ref = r
    BY <1>7 DEF RtTake
  <2>2. Sent(r) # {} /\ Sent(r)' = {}
    BY <1>4, <1>5, <2>1 DEF OnePlace
  <2>3. /\ Asked(r) = {} /\ Held(r) = {} /\ r \notin pendingSql' /\ r \notin pendingDevice'
        /\ r \in rtRaised'
    BY <1>1, <1>5, <2>2 DEF OnePlace
  <2>4. Asked(r)' = {} /\ Held(r)' = {}
    BY <1>2, <1>3, <2>3 DEF Keeps
  <2>5. Single(Asked(r)') /\ Single(Held(r)') /\ Single(Sent(r)')
    BY <2>2, <2>4, NoneSingle
  <2>6. QED
    BY <2>2, <2>3, <2>4, <2>5, Zenon DEF OnePlace
<1>8. QED
  BY <1>6, <1>7

\* A flushed reply goes back to the list or to the runtime, not to both.
LEMMA FlushPlaces ==
  ASSUME TypeOK, MessageIds, Places, FlushDeferred, NEW r \in Requests
  PROVE  OnePlace(r)'
<1>1. PICK m \in flushing :
        /\ flushing' = flushing \ {m}
        /\ \/ deferred' = deferred \cup {m} /\ UNCHANGED rtInput
           \/ SubmitRuntime(m) /\ UNCHANGED deferred
  BY DEF FlushDeferred
<1>2. UNCHANGED <<pendingSql, pendingDevice, rtOutput, rtAnswered, rtRaised>>
  BY DEF FlushDeferred, rtVars
<1>3. Keeps(Asked(r), Asked(r)')
  BY <1>2, SamePlaces
<1>4. OnePlace(r)
  BY DEF Places
<1>5. CASE deferred' = deferred \cup {m} /\ UNCHANGED rtInput
  <2>1. Held(r)' \in SUBSET Held(r)
    BY <1>1, <1>5 DEF Held
  <2>2. Keeps(Held(r), Held(r)') /\ Keeps(Sent(r), Sent(r)')
    BY <1>5, <2>1, SubsetKeeps, SamePlaces
  <2>3. QED
    BY <1>2, <1>3, <1>4, <2>2, FewerPlaces
<1>6. CASE SubmitRuntime(m) /\ UNCHANGED deferred
  <2>1. m \in Message
    BY DEF TypeOK
  <2>2. Held(r)' \in SUBSET Held(r) /\ m \notin Held(r)'
    BY <1>1, <1>6 DEF Held, MessageIds
  <2>3. Keeps(Held(r), Held(r)')
    BY <2>2, SubsetKeeps
  <2>4. /\ ~(m.kind = "reply" /\ m.ref = r) => Keeps(Sent(r), Sent(r)')
        /\ Sent(r) = {} => Single(Sent(r)')
    BY <1>6, <2>1, SentSubmitted
  <2>5. CASE ~(m.kind = "reply" /\ m.ref = r)
    BY <1>2, <1>3, <1>4, <2>3, <2>4, <2>5, FewerPlaces
  <2>6. CASE m.kind = "reply" /\ m.ref = r
    <3>1. m \in Held(r)
      BY <2>6 DEF Held
    <3>2. /\ Sent(r) = {} /\ r \notin rtAnswered' /\ r \notin pendingSql' /\ r \notin pendingDevice'
          /\ Asked(r) = {} /\ r \in rtRaised'
      BY <1>2, <1>4, <3>1 DEF OnePlace
    <3>3. Held(r)' = {}
      BY <1>4, <2>2, <3>1 DEF OnePlace, Single
    <3>4. Asked(r)' = {} /\ Single(Sent(r)')
      BY <1>3, <2>4, <3>2 DEF Keeps
    <3>5. Single(Asked(r)') /\ Single(Held(r)')
      BY <3>3, <3>4, NoneSingle
    <3>6. QED
      BY <3>2, <3>3, <3>4, <3>5, Zenon DEF OnePlace
  <2>7. QED
    BY <2>5, <2>6
<1>7. QED
  BY <1>1, <1>5, <1>6

\* Raising a request is where it first is anywhere.
LEMMA RaisePlaces ==
  ASSUME TypeOK, Places, NEW q \in Requests, RtRaise(q) \/ RtCancel(q), NEW r \in Requests
  PROVE  OnePlace(r)'
<1>1. /\ UNCHANGED <<deferred, flushing, pendingSql, pendingDevice, rtInput, rtAnswered>>
      /\ rtRaised \subseteq rtRaised'
  BY DEF RtRaise, RtCancel, RtUnchangedBut, clientVars
<1>2. q \in Refs /\ rtEpoch \in Nat
  BY Sendable DEF TypeOK
<1>3. Keeps(Held(r), Held(r)') /\ Keeps(Sent(r), Sent(r)')
  BY <1>1, SamePlaces
<1>4. OnePlace(r)
  BY DEF Places
<1>5. CASE RtCancel(q) \/ r # q
  <2>1. Keeps(Asked(r), Asked(r)')
    BY <1>2, <1>5, AskedEmitted DEF RtRaise, RtCancel
  <2>2. QED
    BY <1>1, <1>3, <1>4, <2>1, FewerPlaces
<1>6. CASE RtRaise(q) /\ r = q
  <2>1. Emit("request", q, rtEpoch) /\ r \notin rtRaised /\ r \in rtRaised'
    BY <1>6 DEF RtRaise
  <2>2. /\ Asked(r) = {} /\ Held(r) = {} /\ Sent(r) = {} /\ r \notin rtAnswered'
        /\ r \notin pendingSql' /\ r \notin pendingDevice'
    BY <1>1, <1>4, <2>1 DEF OnePlace
  <2>3. Single(Asked(r)') /\ Held(r)' = {} /\ Sent(r)' = {}
    BY <1>2, <1>3, <2>1, <2>2, AskedEmitted DEF Keeps
  <2>4. Single(Held(r)') /\ Single(Sent(r)')
    BY <2>3, NoneSingle
  <2>5. QED
    BY <2>1, <2>2, <2>3, <2>4, Zenon DEF OnePlace
<1>7. QED
  BY <1>5, <1>6

\* Every step keeps every request in one place.
LEMMA PlacesInductive ==
  ASSUME TypeOK, MessageIds, Places, [Next]_vars
  PROVE  Places'
<1> USE DEF clientVars, rtVars
<1>1. SUFFICES ASSUME NEW r \in Requests
               PROVE  OnePlace(r)'
  BY DEF Places
<1>2. OnePlace(r)
  BY DEF Places
<1>3. CASE IssueCommand
  <2>1. PICK kind \in Commands : SendRuntime(kind, 0)
    BY <1>3 DEF IssueCommand
  <2>2. kind \in Kinds /\ kind # "reply" /\ 0 \in Refs
    BY Sendable, CommandsAssumption DEF CommandKinds
  <2>3. UNCHANGED <<flushing, pendingSql, pendingDevice, rtOutput, rtAnswered, rtRaised>>
    BY <1>3 DEF IssueCommand
  <2>4. Keeps(Held(r), Held(r)') /\ Keeps(Sent(r), Sent(r)')
    BY <2>1, <2>2, <2>3, RepliesSent
  <2>5. QED
    BY <1>2, <2>3, <2>4, SamePlaces, FewerPlaces
<1>4. ASSUME NEW q \in DeviceRequests, CompleteDevicePump(q)
      PROVE  OnePlace(r)'
  <2>1. /\ UNCHANGED <<flushing, pendingSql, rtOutput, rtAnswered, rtRaised>>
        /\ pendingDevice' = pendingDevice \ {q}
    BY <1>4 DEF CompleteDevicePump
  <2>2. Keeps(Asked(r), Asked(r)')
    BY <2>1, SamePlaces
  <2>3. CASE UNCHANGED <<deferred, rtInput>>
    BY <1>2, <2>1, <2>2, <2>3, SamePlaces, FewerPlaces
  <2>4. CASE q \in pendingDevice /\ SendRuntime("reply", q)
    <3>1. "reply" \in Kinds /\ q \in Refs
      BY Sendable
    <3>2. CASE r # q
      <4>1. Keeps(Held(r), Held(r)') /\ Keeps(Sent(r), Sent(r)')
        BY <2>1, <2>4, <3>1, <3>2, RepliesSent
      <4>2. QED
        BY <1>2, <2>1, <2>2, <4>1, FewerPlaces
    <3>3. CASE r = q
      <4>1. /\ Held(r) = {} /\ Sent(r) = {} /\ r \in pendingDevice
            /\ r \notin pendingSql' /\ r \notin pendingDevice'
        BY <1>2, <2>1, <2>4, <3>3 DEF OnePlace
      <4>2. \/ Single(Held(r)') /\ Sent(r)' = {}
            \/ Held(r)' = {} /\ Single(Sent(r)')
        BY <2>1, <2>4, <3>1, <3>3, <4>1, RepliesSent
      <4>3. QED
        BY <1>2, <2>1, <2>2, <4>1, <4>2, AnsweredPlace
    <3>4. QED
      BY <3>2, <3>3
  <2>5. QED
    BY <1>4, <2>3, <2>4 DEF CompleteDevicePump
<1>5. ASSUME NEW q \in SqlRequests, ExecuteSql(q)
      PROVE  OnePlace(r)'
  <2>1. /\ UNCHANGED <<flushing, pendingDevice, rtInput, rtOutput, rtAnswered, rtRaised>>
        /\ pendingSql' = pendingSql \ {q} /\ q \in pendingSql
        /\ DeferRuntime(deferred, "reply", q)
    BY <1>5 DEF ExecuteSql
  <2>2. Keeps(Asked(r), Asked(r)') /\ Keeps(Sent(r), Sent(r)')
    BY <2>1, SamePlaces
  <2>3. CASE r # q
    <3>1. Keeps(Held(r), Held(r)')
      BY <2>1, <2>3, HeldDeferred
    <3>2. QED
      BY <1>2, <2>1, <2>2, <3>1, FewerPlaces
  <2>4. CASE r = q
    <3>1. /\ Held(r) = {} /\ Sent(r) = {} /\ r \in pendingSql
          /\ r \notin pendingSql' /\ r \notin pendingDevice'
      BY <1>2, <2>1, <2>4 DEF OnePlace
    <3>2. Single(Held(r)') /\ Sent(r)' = {}
      BY <2>1, <2>2, <2>4, <3>1, HeldDeferred DEF Keeps
    <3>3. QED
      BY <1>2, <2>1, <2>2, <3>1, <3>2, AnsweredPlace
  <2>5. QED
    BY <2>3, <2>4
<1>6. CASE AcknowledgeBatch
  <2>1. UNCHANGED <<flushing, pendingSql, pendingDevice, rtOutput, rtAnswered, rtRaised>>
    BY <1>6 DEF AcknowledgeBatch
  <2>2. Keeps(Held(r), Held(r)') /\ Keeps(Sent(r), Sent(r)')
    <3>1. CASE UNCHANGED <<deferred, rtInput>>
      BY <2>1, <3>1, SamePlaces
    <3>2. CASE SendRuntime("ack", AcknowledgeThrough)
      <4>1. "ack" \in Kinds /\ "ack" # "reply" /\ AcknowledgeThrough \in Refs
        BY Sendable
      <4>2. QED
        BY <2>1, <3>2, <4>1, RepliesSent
    <3>3. QED
      BY <1>6, <3>1, <3>2 DEF AcknowledgeBatch
  <2>3. QED
    BY <1>2, <2>1, <2>2, SamePlaces, FewerPlaces
<1>7. CASE BeginDrive \/ EndDrive \/ EndPoll \/ EndPump \/ PumpFault \/ BeginFlush \/ RtCommit
           \/ RtRefuse \/ UNCHANGED vars
  <2>1. /\ UNCHANGED <<rtInput, rtAnswered, rtRaised, pendingDevice>>
        /\ pendingSql' \subseteq pendingSql
    BY <1>7 DEF BeginDrive, EndDrive, EndPoll, EndPump, PumpFault, BeginFlush, RtCommit, RtRefuse,
       RtUnchangedBut, vars
  <2>2. Held(r)' \in SUBSET Held(r)
    <3>1. deferred' \cup flushing' \subseteq deferred \cup flushing
      BY <1>7 DEF BeginDrive, EndDrive, EndPoll, EndPump, PumpFault, BeginFlush, LeftDeferred,
         RtCommit, RtRefuse, RtUnchangedBut, vars
    <3>2. QED
      BY <3>1 DEF Held
  <2>3. Keeps(Asked(r), Asked(r)')
    <3>1. CASE RtCommit
      <4>1. Emit("event", 0, rtEpoch + 1) /\ rtEpoch + 1 \in Nat /\ 0 \in Refs
        BY <3>1, Sendable DEF RtCommit, TypeOK
      <4>2. QED
        BY <4>1, AskedEmitted
    <3>2. CASE RtRefuse
      <4>1. Emit("rejected", rtTransition, rtEpoch) /\ rtEpoch \in Nat /\ rtTransition \in Refs
        BY <3>2 DEF RtRefuse, TypeOK, Refs
      <4>2. QED
        BY <4>1, AskedEmitted
    <3>3. CASE UNCHANGED rtOutput
      BY <3>3, SamePlaces
    <3>4. QED
      BY <1>7, <3>1, <3>2, <3>3 DEF BeginDrive, EndDrive, EndPoll, EndPump, PumpFault, BeginFlush, vars
  <2>4. QED
    BY <1>2, <2>1, <2>2, <2>3, SamePlaces, SubsetKeeps, FewerPlaces
<1>8. QED
  BY <1>3, <1>4, <1>5, <1>6, <1>7, PollPlaces, TakePlaces, FlushPlaces, RaisePlaces
     DEF Next, Pump, Runtime, Closed
-----------------------------------------------------------------------------
(* Withdrawn requests *)

\* A request is withdrawn after it was asked, and after the client has seen it
\* withdrawn it is nowhere.
Cancels ==
  /\ rtOpen \subseteq rtRaised /\ cancelSeen \subseteq rtRaised
  /\ \A r \in cancelSeen : /\ Asked(r) = {} /\ Held(r) = {}
                           /\ r \notin pendingSql /\ r \notin pendingDevice
  /\ \A r \in Refs : Withdrawn(r) # {} => r \in rtRaised
  /\ \A r \in Refs : \A j \in Asked(r), k \in Withdrawn(r) : j < k

\* A step that asks and holds nothing new and sees no withdrawal keeps all this.
LEMMA QuietCancels ==
  ASSUME Cancels, UNCHANGED <<rtOutput, rtRaised, cancelSeen>>, rtOpen' \subseteq rtOpen,
         \A r \in cancelSeen : /\ Held(r) = {} => Held(r)' = {}
                               /\ r \in pendingSql' => r \in pendingSql
                               /\ r \in pendingDevice' => r \in pendingDevice
  PROVE  Cancels'
<1>1. \A r : Asked(r)' = Asked(r) /\ Withdrawn(r)' = Withdrawn(r)
  BY DEF Asked, Withdrawn, Outputs
<1>2. QED
  BY <1>1 DEF Cancels

\* Reading an output: a withdrawal clears every place there is.
LEMMA PollCancels ==
  ASSUME TypeOK, OrderInv, Places, Cancels, HandleEvent \/ HandleRequest \/ HandleCancel
  PROVE  Cancels'
<1> DEFINE o == Head(rtOutput)
<1>1. PICK kinds : Polled(kinds)
  BY DEF HandleEvent, HandleRequest, HandleCancel
<1>2. pc = "polling" /\ flushing = {} /\ UNCHANGED <<flushing, rtRaised, rtOpen>>
  BY DEF HandleEvent, HandleRequest, HandleCancel, Polled, OrderInv, HeldOnlyBehind
<1>3. \A r : /\ \A k \in Asked(r) : k \in Nat \ {0}
             /\ \A k \in Asked(r)' : k \in Nat \ {0} /\ k + 1 \in Asked(r)
             /\ 1 \in Asked(r) <=> o.kind = "request" /\ o.ref = r
  BY <1>1, OutputsPolled DEF Asked
<1>4. \A r : /\ \A k \in Withdrawn(r) : k \in Nat \ {0}
             /\ \A k \in Withdrawn(r)' : k \in Nat \ {0} /\ k + 1 \in Withdrawn(r)
             /\ 1 \in Withdrawn(r) <=> o.kind = "cancel" /\ o.ref = r
  BY <1>1, OutputsPolled DEF Withdrawn
<1>5. o \in Output /\ o.ref \in Refs
  BY <1>1, OutputsPolled DEF Output
<1>6. \A r \in Refs : Withdrawn(r)' # {} => r \in rtRaised'
  BY <1>2, <1>4 DEF Cancels
<1>7. \A r \in Refs : \A j \in Asked(r)', k \in Withdrawn(r)' : j < k
  <2>1. SUFFICES ASSUME NEW r \in Refs, NEW j \in Asked(r)', NEW k \in Withdrawn(r)'
                 PROVE  j < k
    OBVIOUS
  <2>2. j \in Nat /\ k \in Nat /\ j + 1 < k + 1
    BY <1>3, <1>4 DEF Cancels
  <2>3. QED
    BY <2>2
<1>8. SqlAfterAdoption(o) \subseteq pendingSql
  BY DEF SqlAfterAdoption
<1>9. \A r : Asked(r) = {} => Asked(r)' = {}
  BY <1>3
<1>10. CASE HandleEvent \/ HandleRequest
  <2>1. UNCHANGED cancelSeen
    BY <1>10 DEF HandleEvent, HandleRequest
  <2>2. ASSUME NEW r \in cancelSeen
        PROVE  /\ Asked(r)' = {} /\ Held(r)' = {}
               /\ r \notin pendingSql' /\ r \notin pendingDevice'
    <3>1. Asked(r) = {} /\ Held(r) = {} /\ r \notin pendingSql /\ r \notin pendingDevice
      BY DEF Cancels
    <3>2. o.kind = "request" => o.ref # r
      BY <1>3, <3>1
    <3>3. CASE HandleEvent
      <4>1. UNCHANGED deferred \/ \E kind \in Commands : DeferRuntime(deferred, kind, 0)
        BY <3>3 DEF HandleEvent
      <4>2. \A kind \in Commands : kind # "reply"
        BY CommandsAssumption DEF CommandKinds
      <4>3. Keeps(Held(r), Held(r)')
        BY <1>2, <4>1, <4>2, HeldDeferred
      <4>4. QED
        BY <1>8, <1>9, <3>1, <3>3, <4>3 DEF HandleEvent, Keeps
    <3>4. CASE HandleRequest
      <4>1. o.ref # r
        BY <3>2, <3>4 DEF HandleRequest, Polled
      <4>2. UNCHANGED deferred \/ DeferRuntime(deferred, "reply", o.ref)
        BY <3>4 DEF HandleRequest
      <4>3. Keeps(Held(r), Held(r)')
        BY <1>2, <4>1, <4>2, HeldDeferred
      <4>4. QED
        BY <1>8, <1>9, <3>1, <3>4, <4>1, <4>3 DEF HandleRequest, Keeps
    <3>5. QED
      BY <1>10, <3>3, <3>4
  <2>3. QED
    BY <1>2, <1>6, <1>7, <2>1, <2>2 DEF Cancels
<1>11. CASE HandleCancel
  <2>1. o.kind = "cancel"
    BY <1>11 DEF HandleCancel, Polled
  <2>2. deferred' \subseteq deferred
    BY <1>11 DEF HandleCancel, Withdraw
  <2>3. \A r : Held(r)' \subseteq Held(r)
    BY <1>2, <2>2 DEF Held
  <2>4. pendingSql' \subseteq pendingSql /\ pendingDevice' \subseteq pendingDevice
    BY <1>8, <1>11 DEF HandleCancel, SqlAfterCancel
  <2>5. ASSUME NEW r \in cancelSeen
        PROVE  /\ Asked(r)' = {} /\ Held(r)' = {}
               /\ r \notin pendingSql' /\ r \notin pendingDevice' /\ r \in rtRaised'
    BY <1>2, <1>9, <2>3, <2>4 DEF Cancels
  <2>6. CASE UNCHANGED cancelSeen
    BY <1>2, <1>6, <1>7, <2>5, <2>6 DEF Cancels
  <2>7. CASE /\ pendingSql' = SqlAfterCancel(o) /\ pendingDevice' = pendingDevice \ {o.ref}
             /\ deferred' = Withdraw(o.ref) /\ cancelSeen' = cancelSeen \cup {o.ref}
    <3>1. PICK q \in Refs : q = o.ref
      BY <1>5
    <3>2. 1 \in Withdrawn(q) /\ q \in rtRaised'
      BY <1>2, <1>4, <2>1, <3>1 DEF Cancels
    <3>3. Asked(q) = {}
      <4>1. \A j \in Asked(q) : j < 1
        BY <3>2 DEF Cancels
      <4>2. QED
        BY <1>3, <4>1
    <3>4. Asked(q)' = {}
      BY <1>9, <3>3
    <3>5. Held(q)' = {}
      BY <1>2, <2>7, <3>1 DEF Held, Withdraw
    <3>6. q \notin pendingSql' /\ q \notin pendingDevice' /\ cancelSeen' = cancelSeen \cup {q}
      BY <2>7, <3>1 DEF SqlAfterCancel
    <3>7. \A r \in cancelSeen' : /\ Asked(r)' = {} /\ Held(r)' = {} /\ r \in rtRaised'
                                 /\ r \notin pendingSql' /\ r \notin pendingDevice'
      BY <2>5, <3>2, <3>4, <3>5, <3>6
    <3>8. rtOpen' \subseteq rtRaised' /\ cancelSeen' \subseteq rtRaised'
      BY <1>2, <3>7 DEF Cancels
    <3>9. QED
      BY <1>6, <1>7, <3>7, <3>8 DEF Cancels
  <2>8. QED
    BY <1>11, <2>6, <2>7 DEF HandleCancel
<1>12. QED
  BY <1>10, <1>11

\* What the runtime emits: a request it raises was never withdrawn, and it
\* withdraws only what it has asked.
LEMMA EmitCancels ==
  ASSUME TypeOK, Places, Cancels, NEW kind \in {"event", "rejected", "request", "cancel"},
         NEW ref \in Refs, NEW e \in Nat, Emit(kind, ref, e),
         UNCHANGED <<deferred, flushing, pendingSql, pendingDevice, cancelSeen>>,
         rtOpen' \subseteq rtRaised', rtRaised \subseteq rtRaised',
         kind = "request" => ref \notin rtRaised,
         kind = "cancel" => ref \in rtRaised
  PROVE  Cancels'
<1>1. \A r : /\ Len(rtOutput) \in Nat
             /\ \A k \in Asked(r) : k \in 1..Len(rtOutput)
             /\ \A k \in Asked(r)' : \/ k \in Asked(r)
                                     \/ k = Len(rtOutput) + 1 /\ kind = "request" /\ ref = r
  BY OutputsEmitted DEF Asked
<1>2. \A r : /\ \A k \in Withdrawn(r) : k \in 1..Len(rtOutput)
             /\ \A k \in Withdrawn(r)' : \/ k \in Withdrawn(r)
                                         \/ k = Len(rtOutput) + 1 /\ kind = "cancel" /\ ref = r
  BY OutputsEmitted DEF Withdrawn
<1>3. \A r \in cancelSeen : Asked(r)' = {} /\ Held(r)' = {}
  <2>1. \A r : Held(r)' = Held(r)
    BY DEF Held
  <2>2. QED
    BY <1>1, <2>1 DEF Cancels
<1>4. \A r \in Refs : Withdrawn(r)' # {} => r \in rtRaised'
  BY <1>2 DEF Cancels
<1>5. \A r \in Refs : \A j \in Asked(r)', k \in Withdrawn(r)' : j < k
  <2>1. SUFFICES ASSUME NEW r \in Refs, NEW j \in Asked(r)', NEW k \in Withdrawn(r)'
                 PROVE  j < k
    OBVIOUS
  <2>2. CASE j \in Asked(r)
    BY <1>1, <1>2, <2>2 DEF Cancels
  <2>3. CASE kind = "request" /\ ref = r
    <3>1. Withdrawn(r) = {}
      BY <2>3 DEF Cancels
    <3>2. QED
      BY <1>2, <2>3, <3>1
  <2>4. QED
    BY <1>1, <2>2, <2>3
<1>6. QED
  BY <1>3, <1>4, <1>5 DEF Cancels

\* Every step keeps what is withdrawn withdrawn.
LEMMA CancelsInductive ==
  ASSUME Bookkeeping, TypeOK', Places, Cancels, [Next]_vars
  PROVE  Cancels'
<1> USE DEF clientVars, rtVars
<1>0. TypeOK /\ MessageIds /\ OrderInv
  BY DEF Bookkeeping
<1>1. CASE HandleEvent \/ HandleRequest \/ HandleCancel
  BY <1>0, <1>1, PollCancels
<1>2. CASE IssueCommand
  <2>1. PICK kind \in Commands : SendRuntime(kind, 0)
    BY <1>2 DEF IssueCommand
  <2>2. kind \in Kinds /\ kind # "reply" /\ 0 \in Refs
    BY Sendable, CommandsAssumption DEF CommandKinds
  <2>3. UNCHANGED <<flushing, pendingSql, pendingDevice, cancelSeen, rtOutput, rtOpen, rtRaised>>
    BY <1>2 DEF IssueCommand
  <2>4. \A r : Held(r) = {} => Held(r)' = {}
    BY <1>0, <2>1, <2>2, <2>3, RepliesSent DEF Keeps
  <2>5. QED
    BY <2>3, <2>4, QuietCancels
<1>3. ASSUME NEW q \in DeviceRequests, CompleteDevicePump(q)
      PROVE  Cancels'
  <2>1. /\ UNCHANGED <<flushing, pendingSql, cancelSeen, rtOutput, rtOpen, rtRaised>>
        /\ pendingDevice' = pendingDevice \ {q}
    BY <1>3 DEF CompleteDevicePump
  <2>2. ASSUME NEW r \in cancelSeen
        PROVE  Held(r) = {} => Held(r)' = {}
    <3>1. CASE UNCHANGED deferred
      BY <2>1, <3>1 DEF Held
    <3>2. CASE q \in pendingDevice /\ SendRuntime("reply", q)
      <4>1. q # r
        BY <3>2 DEF Cancels
      <4>2. "reply" \in Kinds /\ q \in Refs
        BY Sendable
      <4>3. QED
        BY <1>0, <2>1, <3>2, <4>1, <4>2, RepliesSent DEF Keeps
    <3>3. QED
      BY <1>3, <3>1, <3>2 DEF CompleteDevicePump
  <2>3. QED
    BY <2>1, <2>2, QuietCancels
<1>4. ASSUME NEW q \in SqlRequests, ExecuteSql(q)
      PROVE  Cancels'
  <2>1. /\ UNCHANGED <<flushing, pendingDevice, cancelSeen, rtOutput, rtOpen, rtRaised>>
        /\ pendingSql' = pendingSql \ {q} /\ q \in pendingSql
        /\ DeferRuntime(deferred, "reply", q)
    BY <1>4 DEF ExecuteSql
  <2>2. ASSUME NEW r \in cancelSeen
        PROVE  Held(r) = {} => Held(r)' = {}
    <3>1. q # r
      BY <2>1 DEF Cancels
    <3>2. QED
      BY <2>1, <3>1, HeldDeferred DEF Keeps
  <2>3. QED
    BY <2>1, <2>2, QuietCancels
<1>5. CASE AcknowledgeBatch
  <2>1. UNCHANGED <<flushing, pendingSql, pendingDevice, cancelSeen, rtOutput, rtOpen, rtRaised>>
    BY <1>5 DEF AcknowledgeBatch
  <2>2. \A r : Held(r) = {} => Held(r)' = {}
    <3>1. CASE UNCHANGED deferred
      BY <2>1, <3>1 DEF Held
    <3>2. CASE SendRuntime("ack", AcknowledgeThrough)
      <4>1. "ack" \in Kinds /\ "ack" # "reply" /\ AcknowledgeThrough \in Refs
        BY <1>0, Sendable
      <4>2. QED
        BY <1>0, <2>1, <3>2, <4>1, RepliesSent DEF Keeps
    <3>3. QED
      BY <1>5, <3>1, <3>2 DEF AcknowledgeBatch
  <2>3. QED
    BY <2>1, <2>2, QuietCancels
<1>6. CASE BeginDrive \/ EndDrive \/ EndPoll \/ EndPump \/ PumpFault \/ BeginFlush \/ FlushDeferred
           \/ UNCHANGED vars
  <2>1. /\ UNCHANGED <<pendingDevice, cancelSeen, rtOutput, rtOpen, rtRaised>>
        /\ pendingSql' \subseteq pendingSql
    BY <1>6 DEF BeginDrive, EndDrive, EndPoll, EndPump, PumpFault, BeginFlush, FlushDeferred, vars
  <2>2. deferred' \cup flushing' \subseteq deferred \cup flushing
    BY <1>6 DEF BeginDrive, EndDrive, EndPoll, EndPump, PumpFault, BeginFlush, LeftDeferred,
       FlushDeferred, vars
  <2>3. \A r : Held(r) = {} => Held(r)' = {}
    BY <2>2 DEF Held
  <2>4. QED
    BY <2>1, <2>3, QuietCancels
<1>7. ASSUME NEW q \in Requests, RtRaise(q)
      PROVE  Cancels'
  <2>1. /\ Emit("request", q, rtEpoch) /\ q \notin rtRaised
        /\ UNCHANGED <<deferred, flushing, pendingSql, pendingDevice, cancelSeen>>
        /\ rtOpen' \subseteq rtRaised' /\ rtRaised \subseteq rtRaised'
    BY <1>7 DEF RtRaise, RtUnchangedBut, Cancels
  <2>2. rtEpoch \in Nat /\ q \in Refs
    BY <1>0, Sendable DEF TypeOK
  <2>3. QED
    BY <1>0, <2>1, <2>2, EmitCancels
<1>8. ASSUME NEW q \in Requests, RtCancel(q)
      PROVE  Cancels'
  <2>1. /\ Emit("cancel", q, rtEpoch) /\ q \in rtRaised
        /\ UNCHANGED <<deferred, flushing, pendingSql, pendingDevice, cancelSeen, rtRaised>>
        /\ rtOpen' \subseteq rtRaised'
    BY <1>8 DEF RtCancel, RtUnchangedBut, Cancels
  <2>2. rtEpoch \in Nat /\ q \in Refs
    BY <1>0, Sendable DEF TypeOK
  <2>3. QED
    BY <1>0, <2>1, <2>2, EmitCancels
<1>9. CASE RtTake \/ RtCommit \/ RtRefuse
  <2>1. /\ UNCHANGED <<deferred, flushing, pendingSql, pendingDevice, cancelSeen, rtRaised>>
        /\ rtOpen' \subseteq rtOpen
    BY <1>9 DEF RtTake, RtCommit, RtRefuse, RtUnchangedBut
  <2>2. CASE UNCHANGED rtOutput
    <3>1. \A r : Held(r)' = Held(r)
      BY <2>1 DEF Held
    <3>2. QED
      BY <2>1, <2>2, <3>1, QuietCancels
  <2>3. CASE \E kind \in {"event", "rejected"}, ref \in Refs, e \in Nat : Emit(kind, ref, e)
    <3>1. rtOpen' \subseteq rtRaised' /\ rtRaised \subseteq rtRaised'
      BY <2>1 DEF Cancels
    <3>2. QED
      BY <1>0, <2>1, <2>3, <3>1, EmitCancels
  <2>4. \/ UNCHANGED rtOutput
        \/ \E kind \in {"event", "rejected"}, ref \in Refs, e \in Nat : Emit(kind, ref, e)
    <3>1. rtEpoch \in Nat /\ rtEpoch' \in Nat /\ rtEpoch + 1 \in Nat /\ 0 \in Refs
          /\ rtTransition \in Refs
      BY <1>0, Sendable DEF TypeOK, Refs
    <3>2. CASE RtTake
      <4>1. Head(rtInput).id \in Refs
        BY <1>0, <3>2, Taken DEF Envelope, Refs
      <4>2. QED
        BY <3>1, <3>2, <4>1 DEF RtTake
    <3>3. CASE RtCommit \/ RtRefuse
      BY <3>1, <3>3 DEF RtCommit, RtRefuse
    <3>4. QED
      BY <1>9, <3>2, <3>3
  <2>5. QED
    BY <2>2, <2>3, <2>4
<1>10. QED
  BY <1>1, <1>2, <1>3, <1>4, <1>5, <1>6, <1>7, <1>8, <1>9 DEF Next, Pump, Runtime, Closed
-----------------------------------------------------------------------------
(* SQL requests *)

\* An SQL request asked in epoch e is open, withdrawn later in the batch, or of an
\* epoch that ended; before the first epoch the transition waits for it.
AskedFine(r, e) ==
  \/ Withdrawn(r) # {}
  \/ r \in rtOpen /\ (e = 0 => rtEpoch = 0 /\ r \in rtNeeds)
  \/ e # 0 /\ e # rtEpoch

\* So is one the client has queued: the rest of the batch will show which.
QueuedFine(r) == r \in rtOpen \/ Withdrawn(r) # {} \/ (epoch # 0 /\ epoch # rtEpoch)

SqlQueued ==
  /\ rtNeeds \subseteq rtOpen
  /\ pc \notin {"polling", "settling"} => pendingSql = {}
  /\ \A r \in pendingSql : QueuedFine(r)
  /\ \A r \in SqlRequests : \A j \in Asked(r) : AskedFine(r, rtOutput[j].epoch)

\* A step of the client alone, outside the polling.
LEMMA QuietSql ==
  ASSUME SqlQueued, UNCHANGED <<rtOutput, rtOpen, rtNeeds, rtEpoch, epoch>>,
         pendingSql' \subseteq pendingSql,
         pc' \notin {"polling", "settling"} => pendingSql' = {}
  PROVE  SqlQueued'
<1>1. \A r : Asked(r)' = Asked(r) /\ Withdrawn(r)' = Withdrawn(r)
  BY DEF Asked, Withdrawn, Outputs
<1>2. QED
  BY <1>1 DEF SqlQueued, QueuedFine, AskedFine

\* Reading an output: what it says of the queued requests, and of the one it asks.
LEMMA PollSql ==
  ASSUME TypeOK, Cancels, SqlQueued, HandleEvent \/ HandleRequest \/ HandleCancel
  PROVE  SqlQueued'
<1> DEFINE o == Head(rtOutput)
<1>1. PICK kinds : Polled(kinds)
  BY DEF HandleEvent, HandleRequest, HandleCancel
<1>2. /\ UNCHANGED <<pc, rtOpen, rtNeeds, rtEpoch>> /\ pc = "polling"
      /\ AdoptEpoch(o)
  BY DEF HandleEvent, HandleRequest, HandleCancel, Polled
<1>3. \A r : /\ \A k \in Asked(r)' : /\ k \in Nat \ {0} /\ k + 1 \in Asked(r)
                                     /\ rtOutput'[k] = rtOutput[k + 1]
             /\ 1 \in Asked(r) <=> o.kind = "request" /\ o.ref = r
  BY <1>1, OutputsPolled DEF Asked
<1>4. \A r : /\ \A k \in Withdrawn(r) : k \in Nat \ {0} /\ (k # 1 => k - 1 \in Withdrawn(r)')
             /\ 1 \in Withdrawn(r) <=> o.kind = "cancel" /\ o.ref = r
  BY <1>1, OutputsPolled DEF Withdrawn
<1>5. o = rtOutput[1] /\ o \in Output
  BY <1>1, OutputsPolled
<1>6. SqlRequests \subseteq Refs /\ pendingSql \subseteq SqlRequests
      /\ SqlRequests \cap StorageRequests = {}
  BY Sendable, ServicesAssumption DEF TypeOK
<1>7. ASSUME NEW r \in SqlRequests, NEW j \in Asked(r), Withdrawn(r) # {}
      PROVE  Withdrawn(r)' # {}
  <2>1. PICK k \in Withdrawn(r) : TRUE
    BY <1>7
  <2>2. j < k /\ r \in Refs
    BY <1>6 DEF Cancels
  <2>3. j \in Nat \ {0}
    BY <1>1, OutputsPolled DEF Asked
  <2>4. k # 1
    BY <1>4, <2>2, <2>3
  <2>5. QED
    BY <1>4, <2>4
<1>8. ASSUME NEW r \in SqlRequests, NEW j \in Asked(r)'
      PROVE  AskedFine(r, rtOutput[j].epoch)'
  <2>1. j + 1 \in Asked(r) /\ rtOutput'[j] = rtOutput[j + 1]
    BY <1>3
  <2>2. AskedFine(r, rtOutput[j + 1].epoch)
    BY <2>1 DEF SqlQueued
  <2>3. Withdrawn(r) # {} => Withdrawn(r)' # {}
    BY <1>7, <2>1
  <2>4. QED
    BY <1>2, <2>1, <2>2, <2>3 DEF AskedFine
<1>9. ASSUME NEW r \in SqlAfterAdoption(o),
             ~(o.kind = "cancel" /\ o.ref = r)
      PROVE  QueuedFine(r)'
  <2>1. r \in pendingSql /\ QueuedFine(r)
    BY DEF SqlAfterAdoption, SqlQueued
  <2>2. Withdrawn(r) # {} => Withdrawn(r)' # {}
    BY <1>4, <1>9
  <2>3. epoch # 0 => epoch' = epoch
    BY <1>2, <1>9 DEF SqlAfterAdoption, AdoptEpoch
  <2>4. QED
    BY <1>2, <2>1, <2>2, <2>3 DEF QueuedFine
<1>10. CASE HandleEvent
  <2>1. o.kind # "cancel" /\ pendingSql' = SqlAfterAdoption(o)
    BY <1>10 DEF HandleEvent, Polled
  <2>2. \A r \in pendingSql' : QueuedFine(r)'
    BY <1>9, <2>1
  <2>3. QED
    BY <1>2, <1>8, <2>2 DEF SqlQueued
<1>11. CASE HandleRequest
  <2>1. o.kind = "request"
    BY <1>11 DEF HandleRequest, Polled
  <2>2. ASSUME NEW r \in SqlRequests, r = o.ref
        PROVE  QueuedFine(r)'
    <3>1. 1 \in Asked(r)
      BY <1>3, <2>1, <2>2
    <3>2. AskedFine(r, o.epoch)
      BY <1>5, <3>1 DEF SqlQueued
    <3>3. Withdrawn(r) # {} => Withdrawn(r)' # {}
      BY <1>7, <3>1
    <3>4. o.epoch # 0 => epoch' = o.epoch
      BY <1>2 DEF AdoptEpoch
    <3>5. QED
      BY <1>2, <3>2, <3>3, <3>4 DEF AskedFine, QueuedFine
  <2>3. \A r \in pendingSql' : r \in SqlAfterAdoption(o) \/ (r \in SqlRequests /\ r = o.ref)
    BY <1>11 DEF HandleRequest
  <2>4. \A r \in pendingSql' : QueuedFine(r)'
    BY <1>9, <2>1, <2>2, <2>3
  <2>5. QED
    BY <1>2, <1>8, <2>4 DEF SqlQueued
<1>12. CASE HandleCancel
  <2>1. \A r \in pendingSql' : r \in SqlAfterAdoption(o)
    BY <1>12 DEF HandleCancel, SqlAfterCancel
  <2>2. \A r \in pendingSql' : r \in SqlRequests
    BY <1>6, <2>1 DEF SqlAfterAdoption
  <2>3. \A r \in pendingSql' : r # o.ref
    BY <1>6, <1>12, <2>2 DEF HandleCancel, SqlAfterCancel
  <2>4. \A r \in pendingSql' : QueuedFine(r)'
    BY <1>9, <2>1, <2>3
  <2>5. QED
    BY <1>2, <1>8, <2>4 DEF SqlQueued
<1>13. QED
  BY <1>10, <1>11, <1>12

\* The runtime while it is driven: nothing is queued then.
LEMMA DriveSql ==
  ASSUME SqlQueued, pc = "driving", UNCHANGED <<pc, pendingSql>>, rtNeeds' \subseteq rtOpen',
         \A r \in SqlRequests : \A j \in Asked(r)' : AskedFine(r, rtOutput[j].epoch)'
  PROVE  SqlQueued'
<1>1. pendingSql' = {}
  BY DEF SqlQueued
<1>2. QED
  BY <1>1 DEF SqlQueued

\* What becomes of the asked requests when the runtime emits an output that asks
\* nothing.
LEMMA EmitSql ==
  ASSUME TypeOK, EpochsAgree, SqlQueued, NEW kind \in {"event", "rejected", "cancel"},
         NEW ref \in Refs, NEW e \in Nat, Emit(kind, ref, e),
         \/ /\ UNCHANGED rtEpoch
            /\ \A r \in rtOpen : r \in rtOpen' \/ (kind = "cancel" /\ ref = r)
            /\ rtNeeds \cap rtOpen' \subseteq rtNeeds'
         \/ rtEpoch' = rtEpoch + 1 /\ (rtEpoch # 0 \/ rtNeeds = {})
  PROVE  \A r \in SqlRequests : \A j \in Asked(r)' : AskedFine(r, rtOutput[j].epoch)'
<1>1. SUFFICES ASSUME NEW r \in SqlRequests, NEW j \in Asked(r)'
               PROVE  AskedFine(r, rtOutput[j].epoch)'
  OBVIOUS
<1>2. j \in Asked(r) /\ rtOutput'[j] = rtOutput[j]
  BY OutputsEmitted DEF Asked
<1>3. Withdrawn(r) # {} => Withdrawn(r)' # {}
  BY OutputsEmitted DEF Withdrawn
<1>4. kind = "cancel" /\ ref = r => Withdrawn(r)' # {}
  <2> DEFINE o == [kind |-> kind, ref |-> ref, epoch |-> e]
  <2>1. o \in Output /\ o.kind = kind /\ o.ref = ref
    BY DEF Output
  <2>2. rtOutput \in Seq(Output) /\ rtOutput' = Append(rtOutput, o)
    BY DEF Emit, TypeOK
  <2>3. Len(rtOutput) + 1 \in DOMAIN rtOutput' /\ rtOutput'[Len(rtOutput) + 1] = o
    BY <2>1, <2>2, AppendedQueue
  <2>4. QED
    BY <2>1, <2>3 DEF Withdrawn, Outputs
<1>5. AskedFine(r, rtOutput[j].epoch)
  BY <1>2 DEF SqlQueued
<1>6. rtOutput[j].epoch \in Nat /\ rtEpoch \in Nat /\ rtOutput[j].epoch <= rtEpoch
  <2>1. j \in DOMAIN rtOutput /\ rtOutput \in Seq(Output) /\ rtEpoch \in Nat
    BY <1>2 DEF Asked, Outputs, TypeOK
  <2>2. rtOutput[j] \in Output
    BY <2>1
  <2>3. QED
    BY <2>1, <2>2 DEF Output, EpochsAgree
<1>7. CASE /\ UNCHANGED rtEpoch
           /\ \A q \in rtOpen : q \in rtOpen' \/ (kind = "cancel" /\ ref = q)
           /\ rtNeeds \cap rtOpen' \subseteq rtNeeds'
  BY <1>2, <1>3, <1>4, <1>5, <1>7 DEF AskedFine
<1>8. CASE rtEpoch' = rtEpoch + 1 /\ (rtEpoch # 0 \/ rtNeeds = {})
  BY <1>2, <1>3, <1>5, <1>6, <1>8 DEF AskedFine
<1>9. QED
  BY <1>7, <1>8

\* Taking an envelope: a reply closes a request that is no longer asked.
LEMMA TakeSql ==
  ASSUME TypeOK, EpochsAgree, Places, SqlQueued, RtTake
  PROVE  SqlQueued'
<1> DEFINE m == Head(rtInput)
<1>1. /\ pc = "driving" /\ UNCHANGED <<pc, pendingSql>>
      /\ m \in Envelope /\ m.id \in Refs /\ 0 \in Refs /\ rtEpoch \in Nat
  BY Taken DEF RtTake, clientVars, Envelope, Refs, TypeOK
<1>2. rtNeeds' \subseteq rtOpen'
  BY DEF RtTake, SqlQueued
<1>3. CASE m.kind = "reply" /\ UNCHANGED <<rtOutput, rtEpoch>>
           /\ rtOpen' = rtOpen \ {m.ref} /\ rtNeeds' = rtNeeds \ {m.ref}
  <2>1. \A r : Asked(r)' = Asked(r) /\ Withdrawn(r)' = Withdrawn(r)
    BY <1>3 DEF Asked, Withdrawn, Outputs
  <2>2. ASSUME NEW r \in SqlRequests, NEW j \in Asked(r)
        PROVE  r # m.ref
    <3>1. Sent(r) = {} /\ Single(Sent(r))
      BY Sendable DEF Places, OnePlace
    <3>2. QED
      BY <1>3, <3>1, SentTaken
  <2>3. \A r \in SqlRequests : \A j \in Asked(r)' : AskedFine(r, rtOutput[j].epoch)'
    BY <1>3, <2>1, <2>2 DEF SqlQueued, AskedFine
  <2>4. QED
    BY <1>1, <1>2, <2>3, DriveSql
<1>4. CASE UNCHANGED <<rtOutput, rtEpoch, rtOpen, rtNeeds>>
  <2>1. \A r : Asked(r)' = Asked(r) /\ Withdrawn(r)' = Withdrawn(r)
    BY <1>4 DEF Asked, Withdrawn, Outputs
  <2>2. \A r \in SqlRequests : \A j \in Asked(r)' : AskedFine(r, rtOutput[j].epoch)'
    BY <1>4, <2>1 DEF SqlQueued, AskedFine
  <2>3. QED
    BY <1>1, <1>2, <2>2, DriveSql
<1>5. CASE /\ \E kind \in {"event", "rejected"}, ref \in Refs, e \in Nat : Emit(kind, ref, e)
           /\ \/ UNCHANGED <<rtEpoch, rtOpen, rtNeeds>>
              \/ rtEpoch' = rtEpoch + 1 /\ rtEpoch # 0
  BY <1>1, <1>2, <1>5, EmitSql, DriveSql
<1>6. \/ m.kind = "reply" /\ UNCHANGED <<rtOutput, rtEpoch>>
           /\ rtOpen' = rtOpen \ {m.ref} /\ rtNeeds' = rtNeeds \ {m.ref}
      \/ UNCHANGED <<rtOutput, rtEpoch, rtOpen, rtNeeds>>
      \/ /\ Emit("rejected", m.id, rtEpoch) /\ UNCHANGED <<rtEpoch, rtOpen, rtNeeds>>
      \/ /\ Emit("event", 0, rtEpoch')
         /\ \/ UNCHANGED <<rtEpoch, rtOpen, rtNeeds>>
            \/ rtEpoch' = rtEpoch + 1 /\ rtEpoch \in 1..(MaxEpoch - 1)
  BY DEF RtTake
<1>7. rtEpoch \in 1..(MaxEpoch - 1) => rtEpoch # 0
  BY <1>1, BoundsAssumption
<1>8. CASE Emit("event", 0, rtEpoch')
         /\ \/ UNCHANGED <<rtEpoch, rtOpen, rtNeeds>>
            \/ rtEpoch' = rtEpoch + 1 /\ rtEpoch # 0
  <2>1. rtEpoch' \in Nat
    BY <1>1, <1>8
  <2>2. QED
    BY <1>1, <1>5, <1>8, <2>1
<1>9. QED
  BY <1>1, <1>3, <1>4, <1>5, <1>6, <1>7, <1>8

\* Asking: before the first epoch it is the transition that asks.
LEMMA RaiseSql ==
  ASSUME TypeOK, SqlQueued, NEW q \in Requests, RtRaise(q)
  PROVE  SqlQueued'
<1>1. /\ pc = "driving" /\ UNCHANGED <<pc, pendingSql, rtEpoch>>
      /\ Emit("request", q, rtEpoch) /\ rtOpen' = rtOpen \cup {q}
      /\ rtNeeds' = IF rtTransition = 0 THEN rtNeeds ELSE rtNeeds \cup {q}
      /\ q \in SqlRequests => rtEpoch # 0 \/ rtTransition # 0
  BY DEF RtRaise, RtUnchangedBut, clientVars
<1>2. rtEpoch \in Nat /\ q \in Refs
  BY Sendable DEF TypeOK
<1>3. rtNeeds' \subseteq rtOpen'
  BY <1>1 DEF SqlQueued
<1>4. ASSUME NEW r \in SqlRequests, NEW j \in Asked(r)'
      PROVE  AskedFine(r, rtOutput[j].epoch)'
  <2>1. \/ j \in Asked(r) /\ rtOutput'[j] = rtOutput[j]
        \/ q = r /\ rtOutput'[j].epoch = rtEpoch
    BY <1>1, <1>2, OutputsEmitted DEF Asked
  <2>2. Withdrawn(r) # {} => Withdrawn(r)' # {}
    BY <1>1, <1>2, OutputsEmitted DEF Withdrawn
  <2>3. CASE j \in Asked(r) /\ rtOutput'[j] = rtOutput[j]
    BY <1>1, <2>2, <2>3 DEF SqlQueued, AskedFine
  <2>4. CASE q = r /\ rtOutput'[j].epoch = rtEpoch
    BY <1>1, <2>4 DEF AskedFine
  <2>5. QED
    BY <2>1, <2>3, <2>4
<1>5. QED
  BY <1>1, <1>3, <1>4, DriveSql

\* Withdrawing, and deciding a transition that waits for nothing.
LEMMA DecideSql ==
  ASSUME TypeOK, EpochsAgree, SqlQueued,
         RtCommit \/ RtRefuse \/ \E q \in Requests : RtCancel(q)
  PROVE  SqlQueued'
<1>1. pc = "driving" /\ UNCHANGED <<pc, pendingSql>> /\ rtNeeds' \subseteq rtOpen'
  BY DEF RtCommit, RtRefuse, RtCancel, RtUnchangedBut, clientVars, SqlQueued
<1>2. rtEpoch \in Nat /\ rtEpoch + 1 \in Nat /\ rtTransition \in Refs /\ 0 \in Refs
  BY DEF TypeOK, Refs
<1>3. \A r \in SqlRequests : \A j \in Asked(r)' : AskedFine(r, rtOutput[j].epoch)'
  <2>1. CASE RtCommit
    <3>1. Emit("event", 0, rtEpoch + 1) /\ rtEpoch' = rtEpoch + 1 /\ rtNeeds = {}
      BY <2>1 DEF RtCommit
    <3>2. QED
      BY <1>2, <3>1, EmitSql
  <2>2. CASE RtRefuse
    <3>1. Emit("rejected", rtTransition, rtEpoch) /\ UNCHANGED <<rtEpoch, rtOpen, rtNeeds>>
      BY <2>2 DEF RtRefuse
    <3>2. QED
      BY <1>2, <3>1, EmitSql
  <2>3. ASSUME NEW q \in Requests, RtCancel(q)
        PROVE  \A r \in SqlRequests : \A j \in Asked(r)' : AskedFine(r, rtOutput[j].epoch)'
    <3>1. /\ Emit("cancel", q, rtEpoch) /\ UNCHANGED rtEpoch /\ q \in Refs
          /\ rtOpen' = rtOpen \ {q} /\ rtNeeds' = rtNeeds \ {q}
      BY <2>3, Sendable DEF RtCancel
    <3>2. QED
      BY <1>2, <3>1, EmitSql
  <2>4. QED
    BY <2>1, <2>2, <2>3
<1>4. QED
  BY <1>1, <1>3, DriveSql

\* Every step keeps the queue of SQL requests fine.
LEMMA SqlInductive ==
  ASSUME Bookkeeping, Places, Cancels, SqlQueued, [Next]_vars
  PROVE  SqlQueued'
<1> USE DEF clientVars, rtVars
<1>0. TypeOK /\ EpochsAgree
  BY DEF Bookkeeping
<1>1. CASE HandleEvent \/ HandleRequest \/ HandleCancel
  BY <1>0, <1>1, PollSql
<1>2. CASE IssueCommand \/ BeginDrive \/ EndDrive \/ EndPoll \/ PumpFault \/ AcknowledgeBatch
           \/ BeginFlush \/ FlushDeferred \/ EndPump \/ UNCHANGED vars
  <2>1. /\ UNCHANGED <<rtOutput, rtOpen, rtNeeds, rtEpoch, epoch>>
        /\ pendingSql' \subseteq pendingSql
    BY <1>2 DEF IssueCommand, BeginDrive, EndDrive, EndPoll, PumpFault, AcknowledgeBatch,
       BeginFlush, FlushDeferred, EndPump, vars
  <2>2. pc' \notin {"polling", "settling"} => pendingSql' = {}
    BY <1>2 DEF IssueCommand, BeginDrive, EndDrive, EndPoll, PumpFault, AcknowledgeBatch,
       BeginFlush, FlushDeferred, EndPump, vars, SqlQueued
  <2>3. QED
    BY <2>1, <2>2, QuietSql
<1>3. ASSUME NEW q, CompleteDevicePump(q) \/ ExecuteSql(q)
      PROVE  SqlQueued'
  <2>1. /\ UNCHANGED <<pc, rtOutput, rtOpen, rtNeeds, rtEpoch, epoch>>
        /\ pendingSql' \subseteq pendingSql
    BY <1>3 DEF CompleteDevicePump, ExecuteSql
  <2>2. pc' \notin {"polling", "settling"} => pendingSql' = {}
    BY <2>1 DEF SqlQueued
  <2>3. QED
    BY <2>1, <2>2, QuietSql
<1>4. QED
  BY <1>0, <1>1, <1>2, <1>3, TakeSql, RaiseSql, DecideSql DEF Next, Pump, Runtime, Closed
-----------------------------------------------------------------------------
(* What the client answers *)

ServicesInv == Bookkeeping /\ Places /\ Cancels /\ SqlQueued

\* One place, at most once: the count of AnsweredOnce.
LEMMA OnceEach ==
  ASSUME Places, TypeOK
  PROVE  AnsweredOnce
<1>1. SUFFICES ASSUME NEW r \in rtRaised
               PROVE  Cardinality(Held(r)) + Cardinality(Sent(r))
                        + (IF r \in rtAnswered THEN 1 ELSE 0) <= 1
  BY DEF AnsweredOnce, Held, Sent
<1>2. OnePlace(r)
  BY DEF Places, TypeOK
<1>3. ASSUME NEW S, Single(S)
      PROVE  Cardinality(S) \in {0, 1} /\ (S = {} => Cardinality(S) = 0)
  <2>1. CASE S = {}
    BY <2>1, FS_EmptySet
  <2>2. CASE S # {}
    <3>1. PICK x \in S : TRUE
      BY <2>2
    <3>2. S = {x}
      BY <1>3, <3>1 DEF Single
    <3>3. QED
      BY <2>2, <3>2, FS_Singleton
  <2>3. QED
    BY <2>1, <2>2
<1>4. /\ Cardinality(Held(r)) \in {0, 1} /\ (Held(r) = {} => Cardinality(Held(r)) = 0)
      /\ Cardinality(Sent(r)) \in {0, 1} /\ (Sent(r) = {} => Cardinality(Sent(r)) = 0)
  BY <1>2, <1>3 DEF OnePlace
<1>5. /\ Held(r) # {} => Sent(r) = {} /\ r \notin rtAnswered
      /\ Sent(r) # {} => r \notin rtAnswered
  BY <1>2 DEF OnePlace
<1>6. QED
  BY <1>4, <1>5

\* For every set of requests and every bound, hot reloads included: the client
\* executes SQL only for requests that are open, answers none it has seen
\* withdrawn, and answers none twice.
THEOREM ServicesHold ==
  Spec => [](SqlOnlyForOpenRequests /\ CancelledNeverAnswered /\ AnsweredOnce)
<1>1. ASSUME Init, Bookkeeping
      PROVE  ServicesInv
  <2>1. /\ pc = "idle" /\ deferred = {} /\ flushing = {} /\ rtInput = <<>> /\ rtOutput = <<>>
        /\ pendingSql = {} /\ pendingDevice = {} /\ cancelSeen = {}
        /\ rtOpen = {} /\ rtNeeds = {} /\ rtAnswered = {}
    BY <1>1 DEF Init
  <2>2. DOMAIN rtInput = {} /\ DOMAIN rtOutput = {}
    BY <2>1
  <2>3. \A r : Asked(r) = {} /\ Withdrawn(r) = {} /\ Held(r) = {} /\ Sent(r) = {}
    BY <2>1, <2>2 DEF Asked, Withdrawn, Outputs, Held, Sent
  <2>4. Places
    BY <2>1, <2>3, NoneSingle DEF Places, OnePlace
  <2>5. Cancels /\ SqlQueued
    BY <2>1, <2>3 DEF Cancels, SqlQueued
  <2>6. QED
    BY <1>1, <2>4, <2>5 DEF ServicesInv
<1>2. ASSUME ServicesInv, Bookkeeping', [Next]_vars
      PROVE  ServicesInv'
  <2>1. TypeOK /\ MessageIds /\ TypeOK'
    BY <1>2 DEF ServicesInv, Bookkeeping
  <2>2. QED
    BY <1>2, <2>1, PlacesInductive, CancelsInductive, SqlInductive DEF ServicesInv
<1>3. ServicesInv => SqlOnlyForOpenRequests /\ CancelledNeverAnswered /\ AnsweredOnce
  <2>1. SUFFICES ASSUME ServicesInv
                 PROVE  SqlOnlyForOpenRequests /\ CancelledNeverAnswered /\ AnsweredOnce
    OBVIOUS
  <2>2. SqlOnlyForOpenRequests
    <3>1. SUFFICES ASSUME pc = "settling", NEW r \in pendingSql
                   PROVE  r \in rtOpen
      BY DEF SqlOnlyForOpenRequests
    <3>2. rtOutput = <<>> /\ epoch = rtEpoch
      BY <2>1, <3>1 DEF ServicesInv, Bookkeeping, EpochsAgree
    <3>3. Withdrawn(r) = {}
      BY <3>2 DEF Withdrawn, Outputs
    <3>4. QED
      BY <2>1, <3>2, <3>3 DEF ServicesInv, SqlQueued, QueuedFine
  <2>3. CancelledNeverAnswered
    BY <2>1 DEF ServicesInv, Cancels, Held, CancelledNeverAnswered
  <2>4. AnsweredOnce
    BY <2>1, OnceEach DEF ServicesInv, Bookkeeping
  <2>5. QED
    BY <2>2, <2>3, <2>4
<1>4. QED
  BY <1>1, <1>2, <1>3, BookKept, PTL DEF Spec

\* Without hot reloads the acknowledgements are in the epoch of their outputs too:
\* everything the client sends is meant for what is still open.
THEOREM AnswersHold ==
  ASSUME "reload" \notin Commands
  PROVE  Spec => []AnswersValid
<1>1. NothingStale => AckNeverStale
  BY DEF NothingStale, AckNeverStale
<1>2. SqlOnlyForOpenRequests /\ CancelledNeverAnswered /\ AnsweredOnce /\ AckNeverStale
        => AnswersValid
  BY DEF AnswersValid
<1>3. QED
  BY <1>1, <1>2, ServicesHold, BarrierHolds, PTL
-----------------------------------------------------------------------------
(* RuntimeWorker *)

(* The inductive invariants of the worker *)

InPublish == {"publishing", "notifying", "posting"}

\* Nothing of the batch before is counted when the worker waits for a command.
BatchCounted ==
  workerAt \in {"pumping", "waiting"} \/ then = "waiting" => processed = 0

\* A command is in the worker's hands only while it is executed.
CommandInHand == workerAt # "executing" => command = "none"

\* A drain that was asked for is on its way: a post, a callback or a drain.
DrainServed ==
  drainPending /\ notifier /\ ~exiting =>
    \/ drainScheduled
    \/ Draining(uiAt) \/ (uiAt \in Stopping /\ Draining(uiThen))
    \/ workerAt = "posting"

\* stop() raises the flag before it empties the queues.
StopFlagged == uiAt \in Stopping \ {"stop"} => stopRequested

\* The worker heads for the end only while it publishes what it has to say.
EndsPublished == then \in Ending => workerAt \in InPublish

\* The worker serves commands, and nothing has told it to stop.
Serving ==
  /\ ~stopRequested /\ uiAt # "stop"
  /\ workerAt \notin Ending /\ then \notin Ending

HasReport(queue) == \E i \in DOMAIN queue : queue[i] = "report"
EndsInReport(queue) == queue # <<>> /\ queue[Len(queue)] = "report"
SaysLast(queue) == \E i \in DOMAIN queue : queue[i] \in {"warning", "worker_stopped"}

\* Where the backlog of the worker can be, and what it ends with.
BacklogShape ==
  /\ workerAt \notin InPublish => backlog = <<>>
  /\ then = "emptying" => backlog \in {<<>>, <<"warning">>, <<"warning", "warning">>}
  /\ then = "stopped" => backlog \in {<<>>, <<"worker_stopped">>}
  /\ then \notin {"emptying", "stopped"} => ~SaysLast(backlog)
  /\ failed /\ then = "closing" => backlog = <<>> \/ EndsInReport(backlog)

\* A worker that failed is on its way out.
FailedEnds ==
  failed => \/ workerAt \in InPublish /\ then \in Ending
            \/ workerAt \in Ending

\* How many events can still be published after the report: the warnings of a
\* close and of a reset that failed, and the last word.
ToCome ==
  CASE workerAt = "closing" \/ (workerAt \in InPublish /\ then = "closing") -> 3
    [] workerAt \in InPublish /\ then = "emptying" -> Len(backlog) + 1
    [] workerAt = "emptying" -> 1
    [] OTHER -> Len(backlog)

\* A report in the queue stays behind the three newest places once the events
\* still to come are counted.
Kept(queue, room) ==
  \E p \in DOMAIN queue : queue[p] = "report" /\ Len(queue) - p + room <= 3

\* Until it was handled, the report of a failure is to come, or is so near the
\* end of the queue that what is still to be published cannot push it out.
ReportKept ==
  failed /\ ~stopRequested /\ ~reportSeen => HasReport(backlog) \/ Kept(events, ToCome)

WakeInv == NoLostWakeup /\ DrainServed
ProjectionInv == CommandInHand /\ StopFlagged /\ EndsPublished /\ ProjectionCoalesced
BacklogInv == EndsPublished /\ BacklogShape /\ FailedEnds
ReportInv == StopFlagged /\ BacklogInv /\ ReportKept
-----------------------------------------------------------------------------
(* Queues by index *)

\* The positions of a queue and of the queue a put leaves.
LEMMA AppendAt ==
  ASSUME NEW S, NEW q \in Seq(S), NEW x \in S
  PROVE  /\ Append(q, x) \in Seq(S) /\ Len(q) \in Nat /\ Len(Append(q, x)) = Len(q) + 1
         /\ Append(q, x) # <<>>
         /\ DOMAIN q = 1..Len(q) /\ DOMAIN Append(q, x) = 1..(Len(q) + 1)
         /\ \A i \in 1..Len(q) : Append(q, x)[i] = q[i]
         /\ Append(q, x)[Len(q) + 1] = x
OBVIOUS

\* The positions of a queue and of the queue a get leaves.
LEMMA TailAt ==
  ASSUME NEW S, NEW q \in Seq(S), q # <<>>
  PROVE  /\ Head(q) \in S /\ Head(q) = q[1] /\ Tail(q) \in Seq(S)
         /\ Len(q) \in Nat \ {0} /\ Len(Tail(q)) = Len(q) - 1
         /\ DOMAIN q = 1..Len(q) /\ DOMAIN Tail(q) = 1..(Len(q) - 1)
         /\ \A i \in 1..(Len(q) - 1) : Tail(q)[i] = q[i + 1]
<1>1. Len(q) \in Nat \ {0} /\ DOMAIN q = 1..Len(q) /\ Head(q) = q[1]
  OBVIOUS
<1>2. /\ Head(q) \in S /\ Tail(q) \in Seq(S) /\ Len(Tail(q)) = Len(q) - 1
      /\ \A i \in 1..Len(Tail(q)) : Tail(q)[i] = q[i + 1]
  BY HeadTailProperties
<1>3. DOMAIN Tail(q) = 1..(Len(q) - 1)
  BY <1>2
<1> QED
  BY <1>1, <1>2, <1>3

\* What counting the occurrences of a kind of command comes to.
LEMMA OccurrencesFinite ==
  ASSUME NEW S, NEW q \in Seq(S), NEW kind
  PROVE  /\ IsFiniteSet({i \in DOMAIN q : q[i] = kind}) /\ Occurrences(kind, q) \in Nat
         /\ Occurrences(kind, q) > 0 <=> \E i \in DOMAIN q : q[i] = kind
<1> DEFINE A == {i \in DOMAIN q : q[i] = kind}
<1>1. IsFiniteSet(1..Len(q)) /\ A \in SUBSET (1..Len(q))
  BY FS_Interval
<1>2. IsFiniteSet(A)
  BY <1>1, FS_Subset
<1>3. Cardinality(A) \in Nat /\ (Cardinality(A) = 0 <=> A = {})
  BY <1>2, FS_CardinalityType, FS_EmptySet
<1> QED
  BY <1>2, <1>3 DEF Occurrences

\* An empty queue holds no item of any kind.
LEMMA OccurrencesEmpty ==
  ASSUME NEW kind
  PROVE  Occurrences(kind, <<>>) = 0
<1>1. {i \in DOMAIN <<>> : <<>>[i] = kind} = {}
  OBVIOUS
<1> QED
  BY <1>1, FS_EmptySet DEF Occurrences

\* A put adds one item of its kind to the count and nothing else.
LEMMA OccurrencesAppend ==
  ASSUME NEW S, NEW q \in Seq(S), NEW x \in S, NEW kind
  PROVE  Occurrences(kind, Append(q, x)) = Occurrences(kind, q) + (IF x = kind THEN 1 ELSE 0)
<1> DEFINE A == {i \in DOMAIN q : q[i] = kind}
           B == {i \in DOMAIN Append(q, x) : Append(q, x)[i] = kind}
           n == Len(q) + 1
<1>1. /\ n \in Nat /\ DOMAIN q = 1..(n - 1) /\ DOMAIN Append(q, x) = 1..n
      /\ Append(q, x)[n] = x
      /\ \A i \in 1..(n - 1) : Append(q, x)[i] = q[i]
  BY AppendAt
<1>2. IsFiniteSet(A) /\ Cardinality(A) \in Nat
  BY OccurrencesFinite, FS_CardinalityType
<1>0. n \notin A
  BY <1>1
<1>3. CASE x = kind
  <2>1. B = A \cup {n}
    BY <1>1, <1>3
  <2>2. Cardinality(A \cup {n}) = Cardinality(A) + 1
    BY <1>2, <1>0, FS_AddElement
  <2> QED
    BY <1>3, <2>1, <2>2 DEF Occurrences
<1>4. CASE x # kind
  <2>0. \A i \in 1..n : i \in B <=> i \in A
    BY <1>1, <1>4
  <2>1. B = A
    BY <1>1, <2>0
  <2>2. Occurrences(kind, Append(q, x)) = Occurrences(kind, q) + 0
    <3> HIDE DEF A, B
    <3>1. Cardinality(B) = Cardinality(A) + 0
      BY <1>2, <2>1
    <3> QED
      BY <3>1 DEF Occurrences, A, B
  <2> QED
    BY <1>4, <2>2
<1> QED
  BY <1>3, <1>4

\* A get takes one item of its kind from the count and nothing else.
LEMMA OccurrencesTail ==
  ASSUME NEW S, NEW q \in Seq(S), q # <<>>, NEW kind
  PROVE  Occurrences(kind, q)
           = Occurrences(kind, Tail(q)) + (IF Head(q) = kind THEN 1 ELSE 0)
<1> DEFINE A == {i \in DOMAIN q : q[i] = kind}
           B == {i \in DOMAIN Tail(q) : Tail(q)[i] = kind}
           f == [i \in B |-> i + 1]
<1>1. /\ Len(q) \in Nat \ {0} /\ DOMAIN q = 1..Len(q) /\ DOMAIN Tail(q) = 1..(Len(q) - 1)
      /\ \A i \in 1..(Len(q) - 1) : Tail(q)[i] = q[i + 1]
      /\ Head(q) = q[1] /\ Tail(q) \in Seq(S)
  BY TailAt
<1>2. /\ IsFiniteSet(A) /\ Cardinality(A) \in Nat
      /\ IsFiniteSet(B) /\ Cardinality(B) \in Nat
  BY <1>1, OccurrencesFinite DEF Occurrences
<1>3. Cardinality(B) = Cardinality(A \ {1})
  <2>1. f \in [B -> A \ {1}]
    BY <1>1
  <2>2. \A i, j \in B : f[i] = f[j] => i = j
    BY <1>1
  <2>3. \A j \in A \ {1} : \E i \in B : f[i] = j
    <3> SUFFICES ASSUME NEW j \in A \ {1} PROVE \E i \in B : f[i] = j
      OBVIOUS
    <3>1. j - 1 \in B /\ f[j - 1] = j
      BY <1>1
    <3> QED
      BY <3>1
  <2>4. f \in Bijection(B, A \ {1})
    BY <2>1, <2>2, <2>3, Fun_IsBij
  <2>5. ExistsBijection(B, A \ {1})
    BY <2>4 DEF ExistsBijection
  <2> HIDE DEF A, B
  <2> QED
    BY <1>2, <2>5, FS_Bijection
<1>4. Cardinality(A) = Cardinality(A \ {1}) + (IF 1 \in A THEN 1 ELSE 0)
  <2> HIDE DEF A
  <2>1. Cardinality(A \ {1}) = IF 1 \in A THEN Cardinality(A) - 1 ELSE Cardinality(A)
    BY <1>2, FS_RemoveElement
  <2> QED
    BY <1>2, <2>1
<1>5. 1 \in A <=> Head(q) = kind
  BY <1>1
<1> QED
  BY <1>3, <1>4, <1>5 DEF Occurrences
-----------------------------------------------------------------------------
(* Type correctness *)

\* A burst holds nothing but data, so what follows it is told apart.
LEMMA BurstTypes ==
  ASSUME NEW burst \in DataBursts
  PROVE  /\ burst \in Seq(EventKinds)
         /\ \A i \in DOMAIN burst : burst[i] = "data"
         /\ \A kind \in EventKinds : Append(burst, kind) \in Seq(EventKinds)
<1>1. PICK n \in Bursts : burst = [i \in 1..n |-> "data"]
  BY DEF DataBursts
<1>2. n \in Nat /\ "data" \in EventKinds
  BY CapacityAssumption DEF EventKinds
<1>3. burst \in Seq(EventKinds) /\ \A i \in DOMAIN burst : burst[i] = "data"
  BY <1>1, <1>2
<1> QED
  BY <1>3

\* The worker starts well typed, with nothing to publish.
LEMMA InitTypes == WorkerInit => WorkerTypeOK /\ BatchCounted
<1> SUFFICES ASSUME WorkerInit PROVE WorkerTypeOK /\ BatchCounted
  OBVIOUS
<1>1. FlagTypes
  BY DEF WorkerInit, FlagTypes
<1>2. ValueTypes /\ BatchCounted
  BY CapacityAssumption DEF WorkerInit, ValueTypes, BatchCounted, WorkerCommands
<1> QED
  BY <1>1, <1>2 DEF WorkerTypeOK

\* No step writes anything but TRUE or FALSE to a flag.
LEMMA FlagStep ==
  ASSUME FlagTypes, [WorkerNext]_workerVars
  PROVE  FlagTypes'
<1> USE DEF FlagTypes, queues, projection, notification, work, ui
<1>1. CASE SendCommand \/ RequestQuit
  BY <1>1, ZenonT(60) DEF SendCommand, RequestQuit, Send
<1>2. CASE StoreProjection \/ QueueProjection
  BY <1>2, ZenonT(60) DEF StoreProjection, QueueProjection, ClaimWhenFull
<1>3. CASE BeginDrain \/ BeginPoll \/ EndDrain
  BY <1>3, ZenonT(60) DEF BeginDrain, BeginPoll, EndDrain
<1>4. CASE DrainEvent \/ RecheckEvents
  BY <1>4, ZenonT(60) DEF DrainEvent, RecheckEvents, Reschedule
<1>5. CASE ForceExit \/ Unmount \/ Join
  BY <1>5, ZenonT(60) DEF ForceExit, Unmount, Join
<1>6. CASE Stops
  BY <1>6, ZenonT(60) DEF Stops, StopRequest, StopEvents, StopCommands, StopProjection, FlagSet
<1>7. CASE Open \/ Fail \/ Close \/ EmptyCommands
  BY <1>7, ZenonT(60) DEF Open, Fail, Close, EmptyCommands
<1>8. CASE CheckStop \/ TakeCommand \/ EndCommands \/ WaitTimeout \/ PumpClient
  BY <1>8, ZenonT(60) DEF CheckStop, TakeCommand, EndCommands, WaitTimeout, PumpClient
<1>12. CASE Execute
  BY <1>12, ZenonT(60) DEF Execute
<1>9. CASE Publish \/ PublishTerminal \/ EndPublishing
  BY <1>9, ZenonT(60) DEF Publish, PublishTerminal, EndPublishing
<1>10. CASE Notify \/ Post
  BY <1>10, ZenonT(60) DEF Notify, Post
<1>11. CASE UNCHANGED workerVars
  BY <1>11, ZenonT(60) DEF workerVars
<1> QED
  BY <1>1, <1>2, <1>3, <1>4, <1>5, <1>6, <1>7, <1>8, <1>9, <1>10, <1>11, <1>12
  DEF WorkerNext, Ui, Drains, Worker, Gone

\* The steps of the UI keep the types.
LEMMA UiTypes ==
  ASSUME ValueTypes, BatchCounted, Ui
  PROVE  ValueTypes' /\ BatchCounted'
<1> USE CapacityAssumption
    DEF ValueTypes, BatchCounted, queues, projection, notification, work, UiIdle, WorkerCommands
<1>1. CASE SendCommand
  BY <1>1, SMTT(60) DEF SendCommand, Send
<1>2. CASE StoreProjection
  BY <1>2, SMTT(60) DEF StoreProjection, Stored
<1>3. CASE QueueProjection
  BY <1>3, SMTT(60) DEF QueueProjection, ClaimWhenFull
<1>4. CASE RequestQuit
  BY <1>4, SMTT(60) DEF RequestQuit, Send
<1>5. CASE BeginDrain \/ BeginPoll
  BY <1>5, SMTT(60) DEF BeginDrain, BeginPoll
<1>6. CASE DrainEvent
  BY <1>6, SMTT(60) DEF DrainEvent
<1>7. CASE EndDrain \/ RecheckEvents
  BY <1>7, SMTT(60) DEF EndDrain, RecheckEvents, Reschedule
<1>8. CASE ForceExit \/ Unmount \/ Join
  BY <1>8, SMTT(60) DEF ForceExit, Unmount, Join
<1>9. CASE StopRequest \/ StopProjection
  BY <1>9, SMTT(60) DEF StopRequest, StopProjection, FlagSet
<1>10. CASE StopEvents /\ events # <<>>
  <2>1. events' \in Seq(EventKinds) /\ Len(events') <= EventCapacity
    BY <1>10, SMTT(60) DEF StopEvents
  <2> QED
    BY <1>10, <2>1 DEF StopEvents
<1>11. CASE StopEvents /\ events = <<>>
  BY <1>11, SMTT(60) DEF StopEvents
<1>12. CASE StopCommands /\ commands # <<>>
  BY <1>12, SMTT(60) DEF StopCommands
<1>13. CASE StopCommands /\ commands = <<>>
  BY <1>13, SMTT(60) DEF StopCommands
<1> QED
  BY <1>1, <1>2, <1>3, <1>4, <1>5, <1>6, <1>7, <1>8, <1>9, <1>10, <1>11, <1>12, <1>13
  DEF Ui, Drains, Stops

\* The steps of the worker keep the types.
LEMMA WorkerTypes ==
  ASSUME ValueTypes, BatchCounted, Worker
  PROVE  ValueTypes' /\ BatchCounted'
<1>0. \A burst \in DataBursts :
        burst \in Seq(EventKinds) /\ \A kind \in EventKinds : Append(burst, kind) \in Seq(EventKinds)
  BY BurstTypes
<1> USE CapacityAssumption
    DEF ValueTypes, BatchCounted, queues, projection, notification, ui, Publishing
<1>1. CASE Open
  BY <1>0, <1>1, SMTT(60) DEF Open
<1>2. CASE Fail
  BY <1>0, <1>2, SMTT(60) DEF Fail, EventKinds, TerminalKinds
<1>3. CASE CheckStop \/ EndCommands \/ WaitTimeout
  BY <1>3, SMTT(60) DEF CheckStop, EndCommands, WaitTimeout
<1>4. CASE TakeCommand
  <2>1. /\ commands' \in Seq(WorkerCommands) /\ Len(commands') <= CommandCapacity
        /\ command' \in WorkerCommands
    BY <1>4, SMTT(60) DEF TakeCommand
  <2>2. CASE workerAt = "commands"
    BY <1>4, <2>1, <2>2 DEF TakeCommand
  <2>3. CASE workerAt = "waiting"
    BY <1>4, <2>1, <2>3 DEF TakeCommand
  <2>4. workerAt = "commands" \/ workerAt = "waiting"
    BY <1>4, SMTT(60) DEF TakeCommand
  <2> HIDE DEF ValueTypes, BatchCounted
  <2> QED
    BY <2>2, <2>3, <2>4
<1>5. CASE Execute
  BY <1>0, <1>5, SMTT(60) DEF Execute
<1>6. CASE PumpClient
  BY <1>0, <1>6, ZenonT(60) DEF PumpClient, EventKinds
<1>7. CASE Publish
  <2>1. backlog' \in Seq(EventKinds) /\ Head(backlog) \in EventKinds
    BY <1>7, SMTT(60) DEF Publish
  <2> QED
    BY <1>7, <2>1 DEF Publish, RoomForEvent
<1>8. CASE PublishTerminal
  <2>0. Tail(backlog) \in Seq(EventKinds)
    BY <1>8, SMTT(60) DEF PublishTerminal
  <2>1. backlog' \in Seq(EventKinds) /\ workerAt' \in {"publishing", "notifying"}
    BY <1>8, <2>0 DEF PublishTerminal
  <2>2. CASE Len(events) < EventCapacity
    <3>1. Head(backlog) \in EventKinds /\ events' = Append(events, Head(backlog))
      BY <1>8, <2>2 DEF PublishTerminal
    <3> QED
      BY <1>8, <2>1, <2>2, <3>1 DEF PublishTerminal
  <2>3. CASE Len(events) >= EventCapacity
    <3>1. events # <<>> /\ events' = Tail(events)
      BY <1>8, <2>3 DEF PublishTerminal, MakeRoom
    <3> QED
      BY <1>8, <2>1, <2>3, <3>1 DEF PublishTerminal
  <2>4. Len(events) < EventCapacity \/ Len(events) >= EventCapacity
    BY <1>8, SMTT(60) DEF PublishTerminal
  <2> HIDE DEF ValueTypes, BatchCounted
  <2> QED
    BY <2>2, <2>3, <2>4
<1>9. CASE Notify \/ Post \/ EndPublishing
  BY <1>9, SMTT(60) DEF Notify, Post, EndPublishing
<1>10. CASE Close
  <2>1. \A closed \in BOOLEAN : \A burst \in Warnings(closed) : burst \in Seq(EventKinds)
    <3>1. /\ <<>> \in Seq(EventKinds) /\ <<"warning">> \in Seq(EventKinds)
          /\ <<"warning", "warning">> \in Seq(EventKinds)
      BY DEF EventKinds, TerminalKinds
    <3> QED
      BY <3>1 DEF Warnings
  <2>2. <<>> \in Seq(EventKinds)
    OBVIOUS
  <2>3. /\ backlog' \in Seq(EventKinds) /\ workerAt' = "publishing" /\ then' = "emptying"
        /\ abi' \in {"none", "open", "closed", "unclosed"}
    BY <1>10, <2>1, <2>2 DEF Close
  <2> QED
    BY <1>10, <2>3 DEF Close
<1>11. CASE EmptyCommands
  <2>1. <<"worker_stopped">> \in Seq(EventKinds)
    BY DEF EventKinds, TerminalKinds
  <2>2. /\ backlog' \in Seq(EventKinds) /\ workerAt' = "publishing" /\ then' = "stopped"
        /\ commands' = <<>>
    BY <1>11, <2>1 DEF EmptyCommands
  <2> QED
    BY <1>11, <2>2 DEF EmptyCommands
<1> QED
  BY <1>1, <1>2, <1>3, <1>4, <1>5, <1>6, <1>7, <1>8, <1>9, <1>10, <1>11 DEF Worker

\* Every step keeps the types and the count of the burst.
LEMMA TypeStep ==
  ASSUME WorkerTypeOK, BatchCounted, [WorkerNext]_workerVars
  PROVE  WorkerTypeOK' /\ BatchCounted'
<1> USE DEF WorkerTypeOK
<1>1. FlagTypes'
  BY FlagStep
<1>2. CASE Ui
  BY <1>1, <1>2, UiTypes
<1>3. CASE Worker
  BY <1>1, <1>3, WorkerTypes
<1>4. CASE UNCHANGED workerVars
  BY <1>1, <1>4 DEF ValueTypes, BatchCounted, workerVars, queues, projection, notification, work, ui
<1> QED
  BY <1>2, <1>3, <1>4 DEF WorkerNext, Gone

\* Every state of the program has the types the comments of worker.py give it:
\* neither queue is ever longer than its capacity, no batch longer than its
\* limit, whatever the limits are.
THEOREM WorkerTypeCorrect == WorkerSpec => []WorkerTypeOK
<1>1. WorkerInit => WorkerTypeOK /\ BatchCounted
  BY InitTypes
<1>2. WorkerTypeOK /\ BatchCounted /\ [WorkerNext]_workerVars => (WorkerTypeOK /\ BatchCounted)'
  BY TypeStep
<1> QED
  BY <1>1, <1>2, PTL DEF WorkerSpec
-----------------------------------------------------------------------------
(* No event is stranded *)

\* No step of the app loses the notification: drain_events clears the flag
\* before it looks whether events are left (app_worker).
LEMMA UiWakes ==
  ASSUME ValueTypes, WakeInv, Ui
  PROVE  WakeInv'
<1> USE DEF WakeInv, NoLostWakeup, DrainServed, Draining, Stopping,
            queues, projection, notification, work, UiIdle
<1>1. CASE SendCommand \/ RequestQuit
  BY <1>1 DEF SendCommand, RequestQuit, Send
<1>2. CASE StoreProjection \/ QueueProjection
  BY <1>2 DEF StoreProjection, QueueProjection
<1>3. CASE BeginDrain \/ BeginPoll
  BY <1>3 DEF BeginDrain, BeginPoll
<1>4. CASE DrainEvent
  BY <1>4 DEF DrainEvent
<1>5. CASE EndDrain
  BY <1>5 DEF EndDrain
<1>6. CASE RecheckEvents
  BY <1>6 DEF RecheckEvents, Reschedule
<1>7. CASE ForceExit \/ Unmount \/ Join
  BY <1>7 DEF ForceExit, Unmount, Join
<1>8. CASE StopRequest \/ StopCommands
  BY <1>8 DEF StopRequest, StopCommands
<1>9. CASE StopEvents
  BY <1>9 DEF StopEvents
<1>10. CASE StopProjection
  BY <1>10 DEF StopProjection, ValueTypes
<1> QED
  BY <1>1, <1>2, <1>3, <1>4, <1>5, <1>6, <1>7, <1>8, <1>9, <1>10 DEF Ui, Drains, Stops

\* The worker notifies whenever the flag is down, so what it publishes is
\* either notified or will be seen by a drain under way.
LEMMA WorkerWakes ==
  ASSUME ValueTypes, WakeInv, Worker
  PROVE  WakeInv'
<1> USE DEF WakeInv, NoLostWakeup, DrainServed, Draining, Stopping, Publishing,
            queues, projection, notification, ui
<1>1. CASE Open \/ Fail \/ Close \/ EmptyCommands
  BY <1>1 DEF Open, Fail, Close, EmptyCommands
<1>2. CASE CheckStop \/ EndCommands \/ WaitTimeout
  BY <1>2 DEF CheckStop, EndCommands, WaitTimeout
<1>3. CASE TakeCommand \/ Execute
  BY <1>3 DEF TakeCommand, Execute
<1>4. CASE PumpClient
  BY <1>4 DEF PumpClient
<1>5. CASE Publish
  BY <1>5 DEF Publish
<1>6. CASE PublishTerminal
  <2>1. Len(events) >= EventCapacity => events # <<>>
    BY CapacityAssumption DEF ValueTypes
  <2> QED
    BY <1>6, <2>1 DEF PublishTerminal
<1>7. CASE Notify
  BY <1>7 DEF Notify
<1>8. CASE Post
  BY <1>8 DEF Post
<1>9. CASE EndPublishing
  BY <1>9 DEF EndPublishing
<1> QED
  BY <1>1, <1>2, <1>3, <1>4, <1>5, <1>6, <1>7, <1>8, <1>9 DEF Worker

\* Every step keeps the flag and the notification in agreement with the queue.
LEMMA WakeStep ==
  ASSUME WorkerTypeOK, WakeInv, [WorkerNext]_workerVars
  PROVE  WakeInv'
<1>1. CASE UNCHANGED workerVars
  BY <1>1 DEF WakeInv, NoLostWakeup, DrainServed, workerVars, queues, notification, work, ui
<1> QED
  BY <1>1, UiWakes, WorkerWakes DEF WorkerTypeOK, WorkerNext, Gone

\* Coalescing notifications never strands an event, whatever the sizes of the
\* queue and of the batches: an event in the queue of an app that is not leaving
\* has a drain scheduled or running, or a worker about to ask for one.
THEOREM EventsDelivered == WorkerSpec => []NoLostWakeup
<1>1. WorkerInit => WorkerTypeOK /\ BatchCounted /\ WakeInv
  BY InitTypes DEF WorkerInit, WakeInv, NoLostWakeup, DrainServed
<1>2. WorkerTypeOK /\ BatchCounted /\ WakeInv /\ [WorkerNext]_workerVars => (WorkerTypeOK /\ BatchCounted /\ WakeInv)'
  BY TypeStep, WakeStep
<1>3. WakeInv => NoLostWakeup
  BY DEF WakeInv
<1> QED
  BY <1>1, <1>2, <1>3, PTL DEF WorkerSpec
-----------------------------------------------------------------------------
(* Projections are coalesced *)

\* Serving ends for good: the flag stays up, and the worker that left its loop
\* does not come back to it.
LEMMA ServingBefore ==
  ASSUME StopFlagged, EndsPublished, [WorkerNext]_workerVars, Serving'
  PROVE  Serving
<1> USE DEF StopFlagged, EndsPublished, InPublish, Serving, Ending, Stopping, UiIdle, Publishing,
            queues, projection, notification, work, ui
<1>1. CASE SendCommand \/ StoreProjection \/ QueueProjection \/ RequestQuit
  BY <1>1 DEF SendCommand, StoreProjection, QueueProjection, RequestQuit
<1>2. CASE Drains
  BY <1>2 DEF Drains, BeginDrain, BeginPoll, DrainEvent, EndDrain, RecheckEvents
<1>3. CASE ForceExit \/ Unmount \/ Join
  BY <1>3 DEF ForceExit, Unmount, Join
<1>4. CASE Stops
  BY <1>4 DEF Stops, StopRequest, StopEvents, StopCommands, StopProjection, FlagSet
<1>5. CASE Open \/ Fail \/ CheckStop \/ Close \/ EmptyCommands
  BY <1>5 DEF Open, Fail, CheckStop, Close, EmptyCommands
<1>6. CASE TakeCommand \/ Execute \/ EndCommands
  BY <1>6 DEF TakeCommand, Execute, EndCommands
<1>7. CASE PumpClient \/ WaitTimeout
  BY <1>7 DEF PumpClient, WaitTimeout
<1>8. CASE Publish \/ PublishTerminal
  BY <1>8 DEF Publish, PublishTerminal
<1>9. CASE Notify \/ Post \/ EndPublishing
  BY <1>9 DEF Notify, Post, EndPublishing
<1>10. CASE UNCHANGED workerVars
  BY <1>10 DEF workerVars
<1> QED
  BY <1>1, <1>2, <1>3, <1>4, <1>5, <1>6, <1>7, <1>8, <1>9, <1>10 DEF WorkerNext, Ui, Worker, Gone

\* The invariants the argument rests on.
LEMMA InHandStep ==
  ASSUME CommandInHand, StopFlagged, EndsPublished, [WorkerNext]_workerVars
  PROVE  CommandInHand' /\ StopFlagged' /\ EndsPublished'
<1> USE DEF CommandInHand, StopFlagged, EndsPublished, InPublish, Ending, Stopping, UiIdle, Publishing,
            queues, projection, notification, work, ui
<1>1. CASE SendCommand \/ StoreProjection \/ QueueProjection \/ RequestQuit
  BY <1>1 DEF SendCommand, StoreProjection, QueueProjection, RequestQuit
<1>2. CASE Drains
  BY <1>2 DEF Drains, BeginDrain, BeginPoll, DrainEvent, EndDrain, RecheckEvents
<1>3. CASE ForceExit \/ Unmount \/ Join
  BY <1>3 DEF ForceExit, Unmount, Join
<1>4. CASE Stops
  BY <1>4 DEF Stops, StopRequest, StopEvents, StopCommands, StopProjection, FlagSet
<1>5. CASE Open \/ Fail \/ CheckStop \/ Close \/ EmptyCommands
  BY <1>5 DEF Open, Fail, CheckStop, Close, EmptyCommands
<1>6. CASE TakeCommand \/ Execute \/ EndCommands
  BY <1>6 DEF TakeCommand, Execute, EndCommands
<1>7. CASE PumpClient \/ WaitTimeout
  BY <1>7 DEF PumpClient, WaitTimeout
<1>8. CASE Publish \/ PublishTerminal
  BY <1>8 DEF Publish, PublishTerminal
<1>9. CASE Notify \/ Post \/ EndPublishing
  BY <1>9 DEF Notify, Post, EndPublishing
<1>10. CASE UNCHANGED workerVars
  BY <1>10 DEF workerVars
<1> QED
  BY <1>1, <1>2, <1>3, <1>4, <1>5, <1>6, <1>7, <1>8, <1>9, <1>10 DEF WorkerNext, Ui, Worker, Gone

\* While the worker serves commands one queued command stands for the pending
\* projection: both change under one lock in each of the handlers.
LEMMA ProjectionStep ==
  ASSUME WorkerTypeOK, ProjectionInv, [WorkerNext]_workerVars
  PROVE  ProjectionInv'
<1> SUFFICES ASSUME Serving'
             PROVE  ProjectionCoalesced'
  BY InHandStep DEF ProjectionInv, Serving, ProjectionCoalesced
<1>1. Serving
  BY ServingBefore DEF ProjectionInv
<1> DEFINE Carried ==
      /\ Occurrences("projection", commands)
           + (IF command = "projection" THEN 1 ELSE 0)
           + (IF uiAt = "queueing" THEN 1 ELSE 0) = (IF projectionQueued THEN 1 ELSE 0)
      /\ projectionQueued => pendingProjection = projections
      /\ pendingProjection = 0 => applied = projections
<1>2. Carried /\ CommandInHand /\ StopFlagged
  BY <1>1 DEF Serving, ProjectionInv, ProjectionCoalesced
<1> SUFFICES Carried'
  BY DEF ProjectionCoalesced
<1>3. /\ Occurrences("projection", commands) \in Nat
      /\ \A kind \in WorkerCommands :
           Occurrences("projection", Append(commands, kind))
             = Occurrences("projection", commands) + (IF kind = "projection" THEN 1 ELSE 0)
      /\ commands # <<>> =>
           Occurrences("projection", commands) = Occurrences("projection", Tail(commands))
             + (IF Head(commands) = "projection" THEN 1 ELSE 0)
      /\ commands # <<>> => Occurrences("projection", Tail(commands)) \in Nat
  <2>1. commands \in Seq(WorkerCommands)
    BY DEF WorkerTypeOK, ValueTypes
  <2>2. commands # <<>> => Tail(commands) \in Seq(WorkerCommands)
    BY <2>1
  <2> QED
    BY <2>1, <2>2, OccurrencesFinite, OccurrencesAppend, OccurrencesTail, ZenonT(40)
<1>4. projections \in Nat /\ Len(commands) \in Nat /\ CommandCapacity \in Nat
  BY CapacityAssumption DEF WorkerTypeOK, ValueTypes
<1> USE <1>1, <1>2, <1>3 DEF WorkerCommands, CommandInHand, Serving,
        queues, projection, notification, work, ui
<1>5. CASE SendCommand
  <2>1. CASE Len(commands) < CommandCapacity
    <3>1. commands' = Append(commands, "other")
      BY <1>4, <1>5, <2>1 DEF SendCommand, Send
    <3>2. Occurrences("projection", commands')
            = Occurrences("projection", commands) + 0
      BY <3>1
    <3> QED
      BY <1>5, <3>2 DEF SendCommand, Send
  <2>2. CASE ~ (Len(commands) < CommandCapacity)
    BY <1>5, <2>2 DEF SendCommand, Send
  <2> QED
    BY <2>1, <2>2
<1>6. CASE RequestQuit
  <2>1. CASE Len(commands) < CommandCapacity
    <3>1. commands' = Append(commands, "shutdown")
      BY <1>4, <1>6, <2>1 DEF RequestQuit, Send
    <3>2. Occurrences("projection", commands')
            = Occurrences("projection", commands) + 0
      BY <3>1
    <3> QED
      BY <1>6, <3>2 DEF RequestQuit, Send
  <2>2. CASE ~ (Len(commands) < CommandCapacity)
    BY <1>6, <2>2 DEF RequestQuit, Send
  <2> QED
    BY <2>1, <2>2
<1>7. CASE StoreProjection
  BY <1>4, <1>7 DEF StoreProjection, Stored, UiIdle
<1>8. CASE QueueProjection
  <2>1. CASE Len(commands) < CommandCapacity
    <3>1. commands' = Append(commands, "projection")
      BY <1>4, <1>8, <2>1 DEF QueueProjection
    <3>2. Occurrences("projection", commands')
            = Occurrences("projection", commands) + 1
      BY <3>1
    <3> QED
      BY <1>8, <3>2 DEF QueueProjection
  <2>2. CASE ~ (Len(commands) < CommandCapacity)
    BY <1>8, <2>2 DEF QueueProjection, ClaimWhenFull
  <2> QED
    BY <2>1, <2>2
<1>9. CASE TakeCommand
  BY <1>9 DEF TakeCommand
<1>10. CASE Execute
  BY <1>10 DEF Execute, Publishing
<1>11. CASE Drains
  BY <1>11 DEF Drains, BeginDrain, BeginPoll, DrainEvent, EndDrain, RecheckEvents, UiIdle
<1>12. CASE ForceExit \/ Unmount \/ Join
  BY <1>12 DEF ForceExit, Unmount, Join, UiIdle
<1>13. CASE Stops
  BY <1>13 DEF Stops, StopRequest, StopEvents, StopCommands, StopProjection, FlagSet,
               StopFlagged, Stopping
<1>14. CASE Fail \/ Close \/ EmptyCommands
  BY <1>14 DEF Fail, Close, EmptyCommands, Publishing, Ending
<1>15. CASE Open \/ CheckStop \/ EndCommands \/ PumpClient \/ WaitTimeout
  BY <1>15 DEF Open, CheckStop, EndCommands, PumpClient, WaitTimeout
<1>16. CASE Publish \/ PublishTerminal \/ Notify \/ Post \/ EndPublishing
  BY <1>16 DEF Publish, PublishTerminal, Notify, Post, EndPublishing
<1>17. CASE UNCHANGED workerVars
  BY <1>17 DEF workerVars
<1> QED
  BY <1>5, <1>6, <1>7, <1>8, <1>9, <1>10, <1>11, <1>12, <1>13, <1>14, <1>15, <1>16, <1>17
  DEF WorkerNext, Ui, Worker, Gone

\* However many projections the UI sends and however small the queue of commands,
\* one queued command stands for all of them while the worker serves commands,
\* and the newest is the one the client gets.
THEOREM Coalesces == WorkerSpec => []ProjectionCoalesced
<1>1. WorkerInit => WorkerTypeOK /\ BatchCounted /\ ProjectionInv
  BY InitTypes, OccurrencesEmpty
  DEF WorkerInit, ProjectionInv, CommandInHand, StopFlagged, EndsPublished, Stopping, Ending,
      ProjectionCoalesced
<1>2. WorkerTypeOK /\ BatchCounted /\ ProjectionInv /\ [WorkerNext]_workerVars
        => (WorkerTypeOK /\ BatchCounted /\ ProjectionInv)'
  BY TypeStep, ProjectionStep
<1>3. ProjectionInv => ProjectionCoalesced
  BY DEF ProjectionInv
<1> QED
  BY <1>1, <1>2, <1>3, PTL DEF WorkerSpec
-----------------------------------------------------------------------------
(* A failure is reported *)

\* What a put does to what is in a queue, and to the room behind its report.
LEMMA ReportAppended ==
  ASSUME NEW q \in Seq(EventKinds), NEW event \in EventKinds
  PROVE  /\ HasReport(q) => HasReport(Append(q, event))
         /\ EndsInReport(Append(q, event)) <=> event = "report"
         /\ SaysLast(Append(q, event)) <=> SaysLast(q) \/ event \in {"warning", "worker_stopped"}
         /\ EndsInReport(q) => HasReport(q)
<1> DEFINE n == Len(q)
<1>1. /\ n \in Nat /\ Len(Append(q, event)) = n + 1 /\ Append(q, event) # <<>>
      /\ DOMAIN q = 1..n /\ DOMAIN Append(q, event) = 1..(n + 1)
      /\ Append(q, event)[n + 1] = event
      /\ \A i \in 1..n : Append(q, event)[i] = q[i]
  BY AppendAt
<1>2. \A i \in 1..(n + 1) : i \in 1..n \/ i = n + 1
  BY <1>1
<1>3. 1..n \subseteq 1..(n + 1) /\ n + 1 \in 1..(n + 1)
  BY <1>1
<1>4. EndsInReport(q) => HasReport(q)
  <2>1. q # <<>> => n \in 1..n
    BY <1>1
  <2> QED
    BY <1>1, <2>1 DEF EndsInReport, HasReport
<1> HIDE DEF n
<1>5. HasReport(q) => HasReport(Append(q, event))
  BY <1>1, <1>2, <1>3 DEF HasReport
<1>6. SaysLast(Append(q, event)) <=> SaysLast(q) \/ event \in {"warning", "worker_stopped"}
  BY <1>1, <1>2, <1>3 DEF SaysLast
<1> QED
  BY <1>1, <1>4, <1>5, <1>6 DEF EndsInReport

\* A put uses up one place behind the report, and a report takes the last one.
LEMMA KeptAppended ==
  ASSUME NEW q \in Seq(EventKinds), NEW event \in EventKinds, NEW room \in Nat
  PROVE  /\ Kept(q, room + 1) => Kept(Append(q, event), room)
         /\ event = "report" /\ room <= 3 => Kept(Append(q, event), room)
<1> DEFINE n == Len(q)
<1>1. /\ n \in Nat /\ Len(Append(q, event)) = n + 1
      /\ DOMAIN q = 1..n /\ DOMAIN Append(q, event) = 1..(n + 1)
      /\ Append(q, event)[n + 1] = event
      /\ \A i \in 1..n : Append(q, event)[i] = q[i]
  BY AppendAt
<1>2. ASSUME Kept(q, room + 1) PROVE Kept(Append(q, event), room)
  <2>1. PICK p \in 1..n : q[p] = "report" /\ n - p + (room + 1) <= 3
    BY <1>1, <1>2 DEF Kept
  <2>2. p \in 1..(n + 1) /\ (n + 1) - p + room <= 3
    BY <1>1, <2>1
  <2> QED
    BY <1>1, <2>1, <2>2 DEF Kept
<1>3. ASSUME event = "report", room <= 3 PROVE Kept(Append(q, event), room)
  <2>1. n + 1 \in 1..(n + 1) /\ (n + 1) - (n + 1) + room <= 3
    BY <1>1, <1>3
  <2> QED
    BY <1>1, <1>3, <2>1 DEF Kept
<1> QED
  BY <1>2, <1>3

\* A get, or dropping the oldest event of a queue of four, leaves the report
\* where it was, counted from the end.
LEMMA KeptTail ==
  ASSUME NEW q \in Seq(EventKinds), q # <<>>, NEW room \in Nat, Kept(q, room),
         Head(q) # "report" \/ (Len(q) >= 4 /\ room >= 1)
  PROVE  Kept(Tail(q), room)
<1> DEFINE n == Len(q)
<1>1. /\ n \in Nat \ {0} /\ Len(Tail(q)) = n - 1 /\ Head(q) = q[1]
      /\ DOMAIN q = 1..n /\ DOMAIN Tail(q) = 1..(n - 1)
      /\ \A i \in 1..(n - 1) : Tail(q)[i] = q[i + 1]
  BY TailAt
<1>2. PICK p \in 1..n : q[p] = "report" /\ n - p + room <= 3
  BY <1>1 DEF Kept
<1>3. p # 1
  <2>1. CASE Head(q) # "report"
    BY <1>1, <1>2, <2>1
  <2>2. CASE n >= 4 /\ room >= 1
    BY <1>1, <1>2, <2>2
  <2> QED
    BY <2>1, <2>2
<1>4. p - 1 \in 1..(n - 1) /\ (p - 1) + 1 = p /\ (n - 1) - (p - 1) + room <= 3
  BY <1>1, <1>2, <1>3
<1>5. Tail(q)[p - 1] = "report"
  BY <1>1, <1>2, <1>4
<1> QED
  BY <1>1, <1>4, <1>5 DEF Kept

\* With less to come a report is as safe; and a report that is kept is there.
LEMMA KeptLess ==
  ASSUME NEW q \in Seq(EventKinds), NEW room \in Nat, Kept(q, room),
         NEW less \in Nat, less <= room
  PROVE  Kept(q, less) /\ HasReport(q)
<1>1. Len(q) \in Nat /\ DOMAIN q = 1..Len(q)
  OBVIOUS
<1>2. PICK p \in 1..Len(q) : q[p] = "report" /\ Len(q) - p + room <= 3
  BY <1>1 DEF Kept
<1>3. Len(q) - p + less <= 3
  BY <1>1, <1>2
<1> QED
  BY <1>1, <1>2, <1>3 DEF Kept, HasReport

\* What a get does to what is in a queue.
LEMMA ReportTail ==
  ASSUME NEW q \in Seq(EventKinds), q # <<>>
  PROVE  /\ Head(q) \in EventKinds /\ Tail(q) \in Seq(EventKinds)
         /\ Len(q) \in Nat /\ Len(q) = Len(Tail(q)) + 1
         /\ Head(q) # "report" /\ HasReport(q) => HasReport(Tail(q))
         /\ EndsInReport(q) => Tail(q) = <<>> \/ EndsInReport(Tail(q))
         /\ SaysLast(Tail(q)) => SaysLast(q)
         /\ Head(q) \in {"warning", "worker_stopped"} => SaysLast(q)
<1> DEFINE n == Len(q)
<1>1. /\ n \in Nat \ {0} /\ Len(Tail(q)) = n - 1 /\ Head(q) = q[1]
      /\ DOMAIN q = 1..n /\ DOMAIN Tail(q) = 1..(n - 1)
      /\ \A i \in 1..(n - 1) : Tail(q)[i] = q[i + 1]
      /\ Head(q) \in EventKinds /\ Tail(q) \in Seq(EventKinds)
  BY TailAt
<1>2. Tail(q) # <<>> => n >= 2
  BY <1>1
<1> HIDE DEF n
<1>3. ASSUME Head(q) # "report", HasReport(q) PROVE HasReport(Tail(q))
  <2>1. PICK i \in 1..n : q[i] = "report"
    BY <1>1, <1>3 DEF HasReport
  <2>2. i - 1 \in 1..(n - 1) /\ q[(i - 1) + 1] = "report"
    BY <1>1, <1>3, <2>1
  <2> QED
    BY <1>1, <2>2 DEF HasReport
<1>4. ASSUME Tail(q) # <<>>, EndsInReport(q) PROVE EndsInReport(Tail(q))
  <2>1. n - 1 \in 1..(n - 1) /\ q[(n - 1) + 1] = "report"
    BY <1>1, <1>2, <1>4 DEF EndsInReport, n
  <2> QED
    BY <1>1, <1>4, <2>1 DEF EndsInReport
<1>5. ASSUME SaysLast(Tail(q)) PROVE SaysLast(q)
  <2>1. PICK i \in 1..(n - 1) : Tail(q)[i] \in {"warning", "worker_stopped"}
    BY <1>1, <1>5 DEF SaysLast
  <2>2. i + 1 \in 1..n /\ q[i + 1] \in {"warning", "worker_stopped"}
    BY <1>1, <2>1
  <2> QED
    BY <1>1, <2>2 DEF SaysLast
<1>6. Head(q) \in {"warning", "worker_stopped"} => SaysLast(q)
  BY <1>1 DEF SaysLast
<1>7. n = (n - 1) + 1
  BY <1>1
<1> QED
  BY <1>1, <1>3, <1>4, <1>5, <1>6, <1>7 DEF n

\* The bursts of warnings of the finally clause.
LEMMA WarningsAre ==
  ASSUME NEW closed \in BOOLEAN, NEW burst \in Warnings(closed)
  PROVE  burst \in {<<>>, <<"warning">>, <<"warning", "warning">>}
BY DEF Warnings

\* What the worker has still to publish keeps its shape.
LEMMA BacklogStep ==
  ASSUME WorkerTypeOK, BacklogInv, [WorkerNext]_workerVars
  PROVE  BacklogInv'
<1> USE DEF BacklogInv, EndsPublished, BacklogShape, FailedEnds, InPublish, Ending
<1>0. /\ ~SaysLast(<<>>) /\ backlog \in Seq(EventKinds)
      /\ backlog # <<>> =>
           /\ Tail(backlog) \in Seq(EventKinds)
           /\ SaysLast(Tail(backlog)) => SaysLast(backlog)
           /\ Head(backlog) \in {"warning", "worker_stopped"} => SaysLast(backlog)
           /\ EndsInReport(backlog) => Tail(backlog) = <<>> \/ EndsInReport(Tail(backlog))
  <2>1. ~SaysLast(<<>>)
    BY DEF SaysLast
  <2>2. backlog \in Seq(EventKinds)
    BY DEF WorkerTypeOK, ValueTypes
  <2> QED
    BY <2>1, <2>2, ReportTail
<1>1. \A burst \in DataBursts :
        /\ ~SaysLast(burst) /\ ~SaysLast(Append(burst, "shutdown_ready"))
        /\ ~SaysLast(Append(burst, "report")) /\ EndsInReport(Append(burst, "report"))
  <2> SUFFICES ASSUME NEW burst \in DataBursts
               PROVE  /\ ~SaysLast(burst) /\ ~SaysLast(Append(burst, "shutdown_ready"))
                      /\ ~SaysLast(Append(burst, "report"))
                      /\ EndsInReport(Append(burst, "report"))
    OBVIOUS
  <2>1. burst \in Seq(EventKinds) /\ ~SaysLast(burst)
    BY BurstTypes DEF SaysLast
  <2>2. "shutdown_ready" \in EventKinds /\ "report" \in EventKinds
    BY DEF EventKinds, TerminalKinds
  <2> QED
    BY <2>1, <2>2, ReportAppended
<1>2. ASSUME UNCHANGED work
      PROVE  BacklogInv'
  BY <1>2 DEF work
<1>3. CASE Ui
  <2>1. UNCHANGED work
    BY <1>3 DEF Ui, Drains, Stops, SendCommand, StoreProjection, QueueProjection, RequestQuit,
      BeginDrain, BeginPoll, DrainEvent, EndDrain, RecheckEvents, ForceExit, Unmount, Join,
      StopRequest, StopEvents, StopCommands, StopProjection
  <2> QED
    BY <1>2, <2>1
<1>4. CASE Open
  <2>1. ~failed
    BY <1>4 DEF Open
  <2>2. PICK burst \in DataBursts : Publishing(burst, "checking") \/ Publishing(burst, "closing")
    BY <1>4 DEF Open
  <2>3. CASE Publishing(burst, "checking")
    BY <1>1, <1>4, <2>1, <2>3 DEF Open, Publishing
  <2>4. CASE Publishing(burst, "closing")
    BY <1>1, <1>4, <2>1, <2>4 DEF Open, Publishing
  <2> QED
    BY <2>2, <2>3, <2>4
<1>15. CASE Fail
  BY <1>1, <1>15 DEF Fail, Publishing
<1>5. CASE CheckStop \/ EndCommands \/ WaitTimeout
  BY <1>5 DEF CheckStop, EndCommands, WaitTimeout
<1>6. CASE TakeCommand
  BY <1>0, <1>6 DEF TakeCommand
<1>7. CASE Execute
  BY <1>1, <1>7 DEF Execute, Publishing
<1>8. CASE PumpClient
  BY <1>1, <1>8 DEF PumpClient, Publishing
<1>9. CASE Publish
  <2>1. /\ backlog' = Tail(backlog) /\ backlog # <<>> /\ UNCHANGED <<then, failed>>
        /\ Head(backlog) \notin {"warning", "worker_stopped"}
    BY <1>9 DEF Publish, TerminalKinds
  <2>2. then # "stopped" /\ then # "emptying"
    BY <2>1
  <2> QED
    BY <1>0, <1>9, <2>1, <2>2 DEF Publish
<1>10. CASE PublishTerminal
  <2>1. CASE UNCHANGED <<backlog, workerAt>>
    BY <1>10, <2>1 DEF PublishTerminal
  <2>2. CASE backlog' = Tail(backlog) /\ workerAt' = "notifying"
    <3>1. backlog # <<>> /\ workerAt = "publishing" /\ UNCHANGED <<then, failed>>
      BY <1>10 DEF PublishTerminal
    <3>2. /\ Tail(<<"worker_stopped">>) = <<>> /\ Tail(<<"warning">>) = <<>>
          /\ Tail(<<"warning", "warning">>) = <<"warning">>
      OBVIOUS
    <3>3. then = "stopped" => Tail(backlog) = <<>>
      BY <3>1, <3>2
    <3>4. then = "emptying" => Tail(backlog) \in {<<>>, <<"warning">>}
      BY <3>1, <3>2
    <3> QED
      BY <1>0, <2>2, <3>1, <3>3, <3>4
  <2> QED
    BY <1>10, <2>1, <2>2 DEF PublishTerminal
<1>11. CASE Notify \/ Post
  BY <1>11 DEF Notify, Post
<1>12. CASE EndPublishing
  BY <1>0, <1>12 DEF EndPublishing
<1>13. CASE Close
  <2>1. /\ backlog' \in {<<>>, <<"warning">>, <<"warning", "warning">>}
        /\ workerAt' = "publishing" /\ then' = "emptying"
    BY <1>13, WarningsAre DEF Close, Publishing
  <2> QED
    BY <2>1
<1>16. CASE EmptyCommands
  BY <1>16 DEF EmptyCommands, Publishing
<1>14. CASE UNCHANGED workerVars
  BY <1>2, <1>14 DEF workerVars
<1> HIDE DEF BacklogInv
<1> QED
  BY <1>3, <1>4, <1>5, <1>6, <1>7, <1>8, <1>9, <1>10, <1>11, <1>12, <1>13, <1>14, <1>15, <1>16
  DEF WorkerNext, Worker, Gone

\* What is still to come is a number, and one at least while the worker has
\* something to publish on its way out.
LEMMA ToComeTypes ==
  ASSUME WorkerTypeOK
  PROVE  /\ ToCome \in Nat
         /\ backlog # <<>> /\ then \in Ending /\ workerAt \in InPublish => ToCome >= 1
<1>1. Len(backlog) \in Nat /\ (backlog # <<>> => Len(backlog) >= 1)
  BY DEF WorkerTypeOK, ValueTypes
<1> QED
  BY <1>1 DEF ToCome, InPublish, Ending

\* What the UI does to a report in the queue: it handles it, or leaves it in.
LEMMA UiKeepsReport ==
  ASSUME WorkerTypeOK, ReportInv, Ui
  PROVE  ReportKept'
<1>0. ToCome \in Nat
  BY ToComeTypes
<1>9. UNCHANGED <<backlog, workerAt, then>> => UNCHANGED ToCome
  BY DEF ToCome
<1> USE DEF ReportInv, ReportKept, queues, projection, notification, work, UiIdle
<1>1. CASE DrainEvent
  <2>1. events \in Seq(EventKinds) /\ events # <<>> /\ events' = Tail(events)
    BY <1>1 DEF DrainEvent, WorkerTypeOK, ValueTypes
  <2>2. Head(events) # "report" /\ Kept(events, ToCome) => Kept(events', ToCome)
    BY <1>0, <2>1, KeptTail
  <2>3. /\ UNCHANGED <<failed, stopRequested, backlog, workerAt, then>>
        /\ reportSeen' = (reportSeen \/ Head(events) = "report")
    BY <1>1 DEF DrainEvent
  <2> QED
    BY <1>9, <2>2, <2>3
<1>2. CASE StopEvents
  BY <1>2 DEF StopEvents, StopFlagged, Stopping
<1>3. CASE StopRequest
  BY <1>3 DEF StopRequest, FlagSet
<1>4. CASE UNCHANGED <<events, stopRequested, reportSeen, backlog, workerAt, then, failed>>
  BY <1>4, <1>9
<1>5. ASSUME ~DrainEvent, ~StopEvents, ~StopRequest
      PROVE  UNCHANGED <<events, stopRequested, reportSeen, backlog, workerAt, then, failed>>
  BY <1>5 DEF Ui, Drains, Stops, SendCommand, StoreProjection, QueueProjection, RequestQuit,
    BeginDrain, BeginPoll, EndDrain, RecheckEvents, ForceExit, Unmount, Join,
    StopCommands, StopProjection
<1> QED
  BY <1>1, <1>2, <1>3, <1>4, <1>5

\* What the worker does: with room for four events, making room for a warning or
\* for the last word takes an older event than the report.
LEMMA WorkerKeepsReport ==
  ASSUME EventCapacity >= 4, WorkerTypeOK, ReportInv, Worker
  PROVE  ReportKept'
<1>0. /\ events \in Seq(EventKinds) /\ backlog \in Seq(EventKinds) /\ "report" \in EventKinds
      /\ ~HasReport(<<>>) /\ Len(<<>>) = 0
      /\ ToCome \in Nat
      /\ UNCHANGED <<stopRequested, reportSeen>>
  BY ToComeTypes DEF WorkerTypeOK, ValueTypes, EventKinds, TerminalKinds, HasReport, ui, Worker,
    Open, Fail, CheckStop, TakeCommand, Execute, EndCommands, PumpClient, WaitTimeout, Publish,
    PublishTerminal, Notify, Post, EndPublishing, Close, EmptyCommands
<1> USE DEF ReportInv, BacklogInv, ReportKept, EndsPublished, BacklogShape, FailedEnds, InPublish,
            Ending, queues, projection, notification, ui
<1>3. CASE Fail
  <2>1. PICK burst \in DataBursts : Publishing(Append(burst, "report"), "closing")
    BY <1>3 DEF Fail
  <2>2. HasReport(Append(burst, "report"))
    <3>1. burst \in Seq(EventKinds) /\ Append(burst, "report") \in Seq(EventKinds)
      BY <1>0, BurstTypes
    <3>2. EndsInReport(Append(burst, "report"))
      BY <1>0, <3>1, ReportAppended
    <3> QED
      BY <1>0, <3>1, <3>2, ReportAppended
  <2> QED
    BY <2>1, <2>2 DEF Publishing
<1>4. CASE Open \/ CheckStop \/ TakeCommand
  <2>1. ~failed'
    BY <1>4 DEF Open, CheckStop, TakeCommand
  <2> QED
    BY <2>1
<1>5. CASE Execute \/ EndCommands \/ PumpClient \/ WaitTimeout
  <2>1. ~failed'
    BY <1>5 DEF Execute, EndCommands, PumpClient, WaitTimeout
  <2> QED
    BY <2>1
<1>6. CASE Publish
  <2>1. /\ backlog # <<>> /\ events' = Append(events, Head(backlog)) /\ backlog' = Tail(backlog)
        /\ workerAt = "publishing" /\ UNCHANGED <<then, failed>>
        /\ Head(backlog) \notin {"report", "warning", "worker_stopped"}
    BY <1>6 DEF Publish, TerminalKinds
  <2>2. failed => HasReport(backlog)
    <3>1. then \notin {"emptying", "stopped"}
      BY <2>1
    <3>2. failed => EndsInReport(backlog)
      BY <2>1, <3>1
    <3> QED
      BY <1>0, <3>2, ReportAppended
  <2>3. failed => HasReport(Tail(backlog))
    BY <1>0, <2>1, <2>2, ReportTail
  <2> QED
    BY <2>1, <2>3
<1>7. CASE PublishTerminal
  <2>1. /\ backlog # <<>> /\ workerAt = "publishing" /\ UNCHANGED <<then, failed>>
        /\ Head(backlog) \in {"report", "warning", "worker_stopped"}
        /\ Head(backlog) \in EventKinds
    BY <1>0, <1>7, ReportTail DEF PublishTerminal, TerminalKinds
  <2> SUFFICES ASSUME failed, ~stopRequested, ~reportSeen,
                      HasReport(backlog) \/ Kept(events, ToCome)
               PROVE  HasReport(backlog') \/ Kept(events', ToCome')
    BY <1>0, <2>1
  <2>0. then \in Ending
    BY <2>1
  <2>2. CASE Len(events) >= EventCapacity
    <3>1. Len(events) >= 4 /\ events # <<>>
      BY <1>0, <2>2, CapacityAssumption
    <3>2. ToCome >= 1
      BY <2>0, <2>1, ToComeTypes
    <3>3. Kept(events, ToCome) => Kept(Tail(events), ToCome)
      BY <1>0, <3>1, <3>2, KeptTail
    <3>4. events' = Tail(events) /\ UNCHANGED <<backlog, workerAt, then>>
      BY <1>0, <1>7, <2>2, CapacityAssumption DEF PublishTerminal, MakeRoom
    <3>5. UNCHANGED ToCome
      BY <3>4 DEF ToCome
    <3> QED
      BY <3>3, <3>4, <3>5
  <2>3. CASE Len(events) < EventCapacity
    <3>1. /\ events' = Append(events, Head(backlog)) /\ backlog' = Tail(backlog)
          /\ workerAt' = "notifying"
      BY <1>0, <1>7, <2>3, CapacityAssumption DEF PublishTerminal
    <3>2. CASE then = "closing"
      <4>1. Head(backlog) = "report"
        BY <1>0, <2>1, <3>2, ReportTail
      <4>2. ToCome' = 3
        BY <2>1, <3>1, <3>2 DEF ToCome
      <4> QED
        BY <1>0, <3>1, <4>1, <4>2, KeptAppended
    <3>3. CASE then # "closing"
      <4>1. backlog \in {<<"warning">>, <<"warning", "warning">>, <<"worker_stopped">>}
        BY <2>0, <2>1, <3>3
      <4>2. ~HasReport(backlog)
        BY <4>1 DEF HasReport
      <4>3. Tail(backlog) \in Seq(EventKinds) /\ Len(Tail(backlog)) \in Nat
            /\ Len(backlog) = Len(Tail(backlog)) + 1
        BY <1>0, <2>1, ReportTail
      <4>4. ToCome' \in Nat /\ ToCome = ToCome' + 1
        BY <2>0, <2>1, <3>1, <3>3, <4>3 DEF ToCome
      <4>5. Kept(events, ToCome' + 1)
        BY <4>2, <4>4
      <4> QED
        BY <1>0, <2>1, <3>1, <4>4, <4>5, KeptAppended
    <3> QED
      BY <3>2, <3>3
  <2> QED
    BY <1>0, <2>2, <2>3, CapacityAssumption
<1>8. CASE Notify \/ Post
  <2>1. UNCHANGED ToCome
    BY <1>8 DEF Notify, Post, ToCome
  <2> QED
    BY <1>8, <2>1 DEF Notify, Post
<1>9. CASE EndPublishing
  <2>1. /\ workerAt = "publishing" /\ backlog = <<>> /\ workerAt' = then /\ then' = "checking"
        /\ UNCHANGED <<backlog, events, failed>>
    BY <1>9 DEF EndPublishing
  <2>2. failed => then \in Ending
    BY <2>1
  <2>3. failed => ToCome' = ToCome
    BY <1>0, <2>1, <2>2 DEF ToCome
  <2> QED
    BY <1>0, <2>1, <2>3
<1>10. CASE Close
  <2>1. /\ backlog' \in {<<>>, <<"warning">>, <<"warning", "warning">>} /\ workerAt = "closing"
        /\ workerAt' = "publishing" /\ then' = "emptying" /\ UNCHANGED <<events, failed>>
    BY <1>10, WarningsAre DEF Close, Publishing
  <2>2. Len(<<"warning">>) = 1 /\ Len(<<"warning", "warning">>) = 2
    OBVIOUS
  <2>3. ToCome = 3 /\ ToCome' = Len(backlog') + 1
    BY <1>0, <2>1 DEF ToCome
  <2>5. Len(backlog') \in 0..2
    BY <1>0, <2>1, <2>2
  <2>6. PICK n \in 0..2 : ToCome = 3 /\ ToCome' = n + 1
    BY <2>3, <2>5
  <2>7. n + 1 \in Nat /\ n + 1 <= 3 /\ 3 \in Nat
    OBVIOUS
  <2>4. Kept(events, ToCome) => Kept(events, ToCome')
    BY <1>0, <2>6, <2>7, KeptLess
  <2> QED
    BY <1>0, <2>1, <2>4
<1>11. CASE EmptyCommands
  <2>1. /\ backlog' = <<"worker_stopped">> /\ workerAt = "emptying"
        /\ workerAt' = "publishing" /\ then' = "stopped" /\ UNCHANGED <<events, failed>>
    BY <1>11 DEF EmptyCommands, Publishing
  <2>2. Len(<<"worker_stopped">>) = 1
    OBVIOUS
  <2>3. ToCome' = ToCome
    BY <2>1, <2>2 DEF ToCome
  <2> QED
    BY <1>0, <2>1, <2>3
<1> QED
  BY <1>3, <1>4, <1>5, <1>6, <1>7, <1>8, <1>9, <1>10, <1>11 DEF Worker

\* From the report of a failure on, the event stays queued until it is drained:
\* _emit_terminal_event drops older events to make room.
LEMMA ReportStep ==
  ASSUME EventCapacity >= 4, WorkerTypeOK, ProjectionInv, ReportInv, [WorkerNext]_workerVars
  PROVE  ReportInv'
<1>1. StopFlagged' /\ BacklogInv'
  BY InHandStep, BacklogStep DEF ProjectionInv, ReportInv
<1>2. UNCHANGED workerVars => ReportKept'
  BY DEF ReportInv, ReportKept, ToCome, workerVars, queues, work, ui
<1>3. ReportKept'
  BY <1>2, UiKeepsReport, WorkerKeepsReport DEF WorkerNext, Gone
<1> QED
  BY <1>1, <1>3 DEF ReportInv

\* A worker that failed has told the UI or has left the report of that failure in
\* the queue, however many events were waiting there, when the queue holds four
\* events or more (it holds 64; in a queue of three the warnings of a close and of
\* a reset that failed and the last word could push the report out) and the app
\* has not told the worker to stop.
THEOREM ReportsFailure ==
  ASSUME EventCapacity >= 4
  PROVE  WorkerSpec => []FailureReported
<1> DEFINE Inv == WorkerTypeOK /\ BatchCounted /\ ProjectionInv /\ ReportInv
<1>1. WorkerInit => Inv
  BY InitTypes, OccurrencesEmpty
  DEF WorkerInit, ProjectionInv, CommandInHand, StopFlagged, EndsPublished, Stopping, Ending,
      ProjectionCoalesced, ReportInv, BacklogInv, BacklogShape, FailedEnds, ReportKept, SaysLast
<1>2. Inv /\ [WorkerNext]_workerVars => Inv'
  BY TypeStep, ProjectionStep, ReportStep
<1>3. Inv => FailureReported
  <2> SUFFICES ASSUME Inv, workerAt = "stopped", failed, ~stopRequested, ~reportSeen
               PROVE  Occurrences("report", events) > 0
    BY DEF FailureReported
  <2>1. events \in Seq(EventKinds) /\ backlog = <<>>
    BY DEF WorkerTypeOK, ValueTypes, ReportInv, BacklogInv, BacklogShape, InPublish
  <2>2. Kept(events, ToCome) /\ ToCome \in Nat
    BY <2>1, ToComeTypes DEF ReportInv, ReportKept, HasReport
  <2>3. HasReport(events)
    BY <2>1, <2>2, KeptLess
  <2> QED
    BY <2>1, <2>3, OccurrencesFinite DEF HasReport
<1> HIDE DEF Inv
<1> QED
  BY <1>1, <1>2, <1>3, PTL DEF WorkerSpec
=============================================================================
