---------------------------- MODULE InputGateProofs ----------------------------
(***************************************************************************)
(* What InputGate shows for a few waits and gestures, for any number of    *)
(* waits, gestures, pauses and remembered inputs: the types, that a        *)
(* gesture is carried over once and only to a wait of its kind, and that   *)
(* the gate stays shut on a wait whose answer the runtime accepted.        *)
(* The last follows the answer of each wait through the queues: it is in   *)
(* one place at a time, from the open gate to the accepted answer.         *)
(***************************************************************************)
EXTENDS InputGate, SequenceTheorems, FiniteSetTheorems, WellFoundedInduction, TLAPS
-----------------------------------------------------------------------------
(* Queues *)

Single(S) == \A x, y \in S : x = y

\* Where in a queue the messages of a set are.
Where(q, M) == {k \in DOMAIN q : q[k] \in M}

\* A queue with a message appended, by index.
LEMMA AppendAt ==
  ASSUME NEW S, NEW q \in Seq(S), NEW x \in S
  PROVE  /\ Append(q, x) \in Seq(S) /\ Len(q) \in Nat
         /\ DOMAIN q = 1..Len(q) /\ DOMAIN Append(q, x) = 1..(Len(q) + 1)
         /\ \A i \in 1..Len(q) : Append(q, x)[i] = q[i]
         /\ Append(q, x)[Len(q) + 1] = x
OBVIOUS

\* A queue without its first message, by index.
LEMMA TailAt ==
  ASSUME NEW S, NEW q \in Seq(S), q # <<>>
  PROVE  /\ Head(q) \in S /\ Head(q) = q[1] /\ Tail(q) \in Seq(S)
         /\ Len(q) \in Nat \ {0} /\ 1 \in DOMAIN q
         /\ DOMAIN q = 1..Len(q) /\ DOMAIN Tail(q) = 1..(Len(q) - 1)
         /\ \A i \in 1..(Len(q) - 1) : Tail(q)[i] = q[i + 1]
<1>1. Len(q) \in Nat \ {0} /\ DOMAIN q = 1..Len(q) /\ Head(q) = q[1]
  OBVIOUS
<1>2. /\ Head(q) \in S /\ Tail(q) \in Seq(S) /\ Len(Tail(q)) = Len(q) - 1
      /\ \A i \in 1..Len(Tail(q)) : Tail(q)[i] = q[i + 1]
  BY HeadTailProperties
<1>3. DOMAIN Tail(q) = 1..(Len(q) - 1)
  BY <1>2
<1> QED
  BY <1>1, <1>2, <1>3

\* A put of another kind does not change where the wanted items are.
LEMMA WhereAppend ==
  ASSUME NEW S, NEW q \in Seq(S), NEW x \in S, NEW M
  PROVE  /\ x \notin M => Where(Append(q, x), M) = Where(q, M)
         /\ Where(q, M) = {} => Single(Where(Append(q, x), M))
<1> DEFINE p == Append(q, x)
<1>1. /\ Len(q) \in Nat /\ DOMAIN q = 1..Len(q) /\ DOMAIN p = 1..(Len(q) + 1)
      /\ \A i \in 1..Len(q) : p[i] = q[i]
      /\ p[Len(q) + 1] = x
  BY AppendAt
<1> HIDE DEF p
<1>2. Where(p, M) \subseteq Where(q, M) \cup {Len(q) + 1} /\ Where(q, M) \subseteq Where(p, M)
  BY <1>1 DEF Where
<1>3. x \notin M => Len(q) + 1 \notin Where(p, M)
  BY <1>1 DEF Where
<1> QED
  BY <1>2, <1>3 DEF p, Single

\* A get removes at most the wanted item it returns.
LEMMA WhereTail ==
  ASSUME NEW S, NEW q \in Seq(S), q # <<>>, NEW M
  PROVE  /\ Where(q, M) = {} => Where(Tail(q), M) = {}
         /\ Single(Where(q, M)) => Single(Where(Tail(q), M))
         /\ Head(q) \in M => Where(q, M) # {}
         /\ Head(q) \in M /\ Single(Where(q, M)) => Where(Tail(q), M) = {}
<1> DEFINE p == Tail(q)
<1>1. /\ Head(q) = q[1] /\ Len(q) \in Nat \ {0} /\ 1 \in DOMAIN q
      /\ DOMAIN q = 1..Len(q) /\ DOMAIN p = 1..(Len(q) - 1)
      /\ \A i \in 1..(Len(q) - 1) : p[i] = q[i + 1]
  BY TailAt
<1> HIDE DEF p
<1>2. \A i \in Where(p, M) : i + 1 \in Where(q, M) /\ i \in Nat \ {0}
  BY <1>1 DEF Where
<1>3. Head(q) \in M => 1 \in Where(q, M)
  BY <1>1 DEF Where
<1>4. Single(Where(q, M)) => Single(Where(p, M))
  BY <1>2 DEF Single
<1>5. Head(q) \in M /\ Single(Where(q, M)) => Where(p, M) = {}
  BY <1>2, <1>3 DEF Single
<1> QED
  BY <1>2, <1>3, <1>4, <1>5 DEF p
\* The messages of a queue are of its type.
LEMMA RangeTyped ==
  ASSUME NEW S, NEW q \in Seq(S)
  PROVE  Range(q) \subseteq S
BY DEF Range

\* The messages of a queue, one appended or the first taken.
LEMMA RangeAppend ==
  ASSUME NEW S, NEW q \in Seq(S), NEW x \in S
  PROVE  Range(Append(q, x)) = Range(q) \cup {x}
<1> DEFINE p == Append(q, x)
<1>1. /\ Len(q) \in Nat /\ DOMAIN q = 1..Len(q) /\ DOMAIN p = 1..(Len(q) + 1)
      /\ \A i \in 1..Len(q) : p[i] = q[i]
      /\ p[Len(q) + 1] = x
  BY AppendAt
<1> HIDE DEF p
<1>2. \A i \in DOMAIN p : i \in DOMAIN q \/ i = Len(q) + 1
  BY <1>1
<1>3. Range(p) \subseteq Range(q) \cup {x}
  BY <1>1, <1>2 DEF Range
<1>4. Len(q) + 1 \in DOMAIN p /\ \A i \in DOMAIN q : i \in DOMAIN p
  BY <1>1
<1>5. Range(q) \cup {x} \subseteq Range(p)
  BY <1>1, <1>4 DEF Range
<1> QED
  BY <1>3, <1>5 DEF p

\* What a get leaves was in the queue before.
LEMMA RangeTail ==
  ASSUME NEW S, NEW q \in Seq(S), q # <<>>
  PROVE  Head(q) \in Range(q) /\ Range(Tail(q)) \subseteq Range(q)
<1> DEFINE p == Tail(q)
<1>1. /\ Head(q) = q[1] /\ Len(q) \in Nat \ {0} /\ 1 \in DOMAIN q
      /\ DOMAIN q = 1..Len(q) /\ DOMAIN p = 1..(Len(q) - 1)
      /\ \A i \in 1..(Len(q) - 1) : p[i] = q[i + 1]
  BY TailAt
<1> HIDE DEF p
<1>2. \A i \in DOMAIN p : i + 1 \in DOMAIN q /\ p[i] = q[i + 1]
  BY <1>1
<1>3. Range(p) \subseteq Range(q)
  BY <1>2 DEF Range
<1> QED
  BY <1>1, <1>3 DEF p, Range
-----------------------------------------------------------------------------
(* What the client remembers *)

\* The oldest of some inputs.
LEMMA OldestInput ==
  ASSUME NEW inputs, inputs \subseteq InputType, inputs # {}
  PROVE  \E i \in inputs : \A j \in inputs : i.id <= j.id
<1> DEFINE T == {i.id : i \in inputs}
<1>1. T \subseteq Nat /\ T # {}
  BY DEF InputType
<1>2. PICK x \in T : \A y \in T : ~(<<y, x>> \in OpToRel(<, Nat))
  BY <1>1, NatLessThanWellFounded, WFMin, Zenon
<1>3. \A y \in T : ~(y < x)
  BY <1>1, <1>2 DEF OpToRel
<1>4. PICK i \in inputs : x = i.id
  OBVIOUS
<1>5. ASSUME NEW j \in inputs PROVE i.id <= j.id
  <2>1. j.id \in T /\ x \in T
    OBVIOUS
  <2>2. j.id \in Nat /\ x \in Nat /\ ~(j.id < x)
    BY <1>1, <1>3, <2>1
  <2> QED
    BY <1>4, <2>2
<1> QED
  BY <1>5

\* Forgetting the oldest input makes room for another.
LEMMA TrackedRoom ==
  ASSUME NEW inputs, inputs \subseteq InputType, IsFiniteSet(inputs), Cardinality(inputs) <= MaxTracked
  PROVE  /\ Tracked(inputs) \subseteq inputs /\ IsFiniteSet(Tracked(inputs))
         /\ Cardinality(Tracked(inputs)) < MaxTracked
<1>1. MaxTracked \in Nat \ {0} /\ Cardinality(inputs) \in Nat
  BY InputAssumption, FS_CardinalityType
<1>2. CASE Cardinality(inputs) < MaxTracked
  BY <1>2 DEF Tracked
<1>3. CASE ~(Cardinality(inputs) < MaxTracked)
  <2> DEFINE oldest == CHOOSE i \in inputs : \A j \in inputs : i.id <= j.id
  <2>1. inputs # {}
    BY <1>1, <1>3, FS_EmptySet
  <2>2. oldest \in inputs
    BY <2>1, OldestInput
  <2>3. Tracked(inputs) = inputs \ {oldest}
    BY <1>3 DEF Tracked
  <2> HIDE DEF oldest
  <2>4. IsFiniteSet(inputs \ {oldest}) /\ Cardinality(inputs \ {oldest}) = Cardinality(inputs) - 1
    BY <2>2, FS_RemoveElement
  <2> QED
    BY <1>1, <2>3, <2>4
<1> QED
  BY <1>2, <1>3
-----------------------------------------------------------------------------
(* Steps *)

CommandType == [kind : Gestures, gesture : 1..MaxGestures, wait : Waits]
EventType ==
  [kind : {"wait", "rejected", "paused", "resumed"}, wait : Waits \cup {NoWait}]
OutputType ==
  [kind : {"wait", "pause", "reject"}, wait : Waits \cup {NoWait}, id : Nat, flag : BOOLEAN]

\* What is known of the types of the queues and of the waits.
LEMMA Typed ==
  ASSUME ValueTypes
  PROVE  /\ commands \in Seq(CommandType) /\ events \in Seq(EventType)
         /\ inbox \in Seq(InputType) /\ outbox \in Seq(OutputType)
         /\ inputMessages \subseteq InputType /\ nextMessageId \in Nat
         /\ Waits \subseteq Nat \ {0}
         /\ activeWait \in Nat /\ uiWait \in Nat /\ activated \in Nat /\ opened \in Nat
         /\ activeWait # NoWait => activeWait \in Waits
         /\ uiWait # NoWait => uiWait \in Waits
<1>1. /\ commands \in Seq(CommandType) /\ events \in Seq(EventType)
      /\ inbox \in Seq(InputType) /\ outbox \in Seq(OutputType)
      /\ inputMessages \subseteq InputType /\ nextMessageId \in Nat
  BY DEF ValueTypes, CommandType, EventType, OutputType
<1>2. /\ Waits \subseteq Nat \ {0} /\ uiWait \in Waits \cup {NoWait}
      /\ activated \in Waits \cup {NoWait} /\ activeWait \in Waits \cup {NoWait}
      /\ opened \in Waits \cup {NoWait}
  BY InputAssumption DEF ValueTypes
<1> QED
  BY <1>1, <1>2 DEF NoWait

\* Waits and the absence of one are numbers.
LEMMA WaitNat ==
  ASSUME NEW w \in Waits \cup {NoWait}
  PROVE  w \in Nat
BY InputAssumption DEF NoWait

\* The input of a gesture, for the wait the client knows.
LEMMA InputTyped ==
  ASSUME ValueTypes, NEW c \in CommandType, activeWait # NoWait
  PROVE  Input(c.gesture, c.wait, activeWait, KindOf[activeWait], 0) \in InputType
BY Typed, InputAssumption DEF Input, InputType, CommandType

\* A rejection is of an input the client forgot, is answered with another
\* submission, or reaches the app.
LEMMA RejectionSteps ==
  ASSUME NEW id, NEW stale, HandleRejection(id, stale)
  PROVE  /\ UNCHANGED <<activeWait, paused, dirty>>
         /\ \/ UNCHANGED <<events, inputMessages, nextMessageId, inbox, handled>>
            \/ \E i \in inputMessages :
                 /\ i.id = id /\ Carries(i)
                 /\ SubmitInput(Input(i.gesture, i.madeFor, activeWait, i.kind, 1),
                                inputMessages \ {i})
                 /\ UNCHANGED events
            \/ \E i \in inputMessages :
                 /\ i.id = id
                 /\ events' = Append(events, Rejected(i.wait))
                 /\ inputMessages' = inputMessages \ {i}
                 /\ UNCHANGED <<nextMessageId, inbox, handled>>
<1>1. UNCHANGED <<activeWait, paused, dirty>>
  BY DEF HandleRejection
<1> DEFINE input == CHOOSE i \in inputMessages : i.id = id
<1>2. CASE \A i \in inputMessages : i.id # id
  BY <1>1, <1>2 DEF HandleRejection
<1>3. CASE ~\A i \in inputMessages : i.id # id
  <2>1. input \in inputMessages /\ input.id = id
    BY <1>3
  <2>2. \/ /\ stale /\ Carries(input)
           /\ SubmitInput(Input(input.gesture, input.madeFor, activeWait, input.kind, 1),
                          inputMessages \ {input})
           /\ UNCHANGED events
        \/ /\ events' = Append(events, Rejected(input.wait))
           /\ inputMessages' = inputMessages \ {input}
           /\ UNCHANGED <<nextMessageId, inbox, handled>>
    BY <1>3 DEF HandleRejection
  <2> HIDE DEF input
  <2> QED
    BY <1>1, <2>1, <2>2
<1> QED
  BY <1>2, <1>3

\* Submitting an input of the right type keeps the types of what it changes.
LEMMA SubmitTyped ==
  ASSUME ValueTypes, TrackedBounded, NEW input \in InputType, NEW remaining,
         remaining \subseteq inputMessages, SubmitInput(input, remaining)
  PROVE  /\ inbox' \in Seq(InputType) /\ inputMessages' \subseteq InputType
         /\ nextMessageId' \in Nat /\ TrackedBounded'
         /\ handled' \subseteq [gesture : 1..MaxGestures, madeFor : Waits, wait : Waits \cup {NoWait}]
<1>1. /\ inbox' = Append(inbox, input) /\ nextMessageId' = nextMessageId + 1
      /\ inputMessages' = Tracked(remaining) \cup {input}
      /\ handled' = handled \cup {Handling(input.gesture, input.madeFor, input.wait)}
  BY DEF SubmitInput
<1>2. /\ remaining \subseteq InputType /\ IsFiniteSet(remaining)
      /\ Cardinality(remaining) <= Cardinality(inputMessages)
  BY Typed, FS_Subset DEF TrackedBounded
<1>3. Cardinality(remaining) \in Nat /\ Cardinality(inputMessages) \in Nat /\ MaxTracked \in Nat
  BY <1>2, FS_CardinalityType, InputAssumption DEF TrackedBounded
<1>4. Cardinality(remaining) <= MaxTracked
  BY <1>2, <1>3 DEF TrackedBounded
<1> DEFINE tracked == Tracked(remaining)
<1>5. tracked \subseteq remaining /\ IsFiniteSet(tracked) /\ Cardinality(tracked) < MaxTracked
  BY <1>2, <1>4, TrackedRoom
<1> HIDE DEF tracked
<1>6. IsFiniteSet(tracked \cup {input}) /\ Cardinality(tracked \cup {input}) <= MaxTracked
  <2>1. Cardinality(tracked) \in Nat
    BY <1>5, FS_CardinalityType
  <2>2. /\ IsFiniteSet(tracked \cup {input})
        /\ Cardinality(tracked \cup {input}) =
             IF input \in tracked THEN Cardinality(tracked) ELSE Cardinality(tracked) + 1
    BY <1>5, FS_AddElement
  <2> QED
    BY <1>3, <1>5, <2>1, <2>2
<1>7. TrackedBounded'
  BY <1>1, <1>6 DEF TrackedBounded, tracked
<1>8. /\ inbox' \in Seq(InputType) /\ nextMessageId' \in Nat
      /\ inputMessages' \subseteq InputType
  BY <1>1, <1>2, <1>5, Typed DEF tracked
<1>9. Handling(input.gesture, input.madeFor, input.wait)
        \in [gesture : 1..MaxGestures, madeFor : Waits, wait : Waits \cup {NoWait}]
  BY DEF Handling, InputType
<1>10. handled' \subseteq [gesture : 1..MaxGestures, madeFor : Waits, wait : Waits \cup {NoWait}]
  BY <1>1, <1>9 DEF ValueTypes
<1> QED
  BY <1>7, <1>8, <1>10

\* The app, the client and the runtime start well typed.
LEMMA InitTypes == Init => TypeOK
<1> SUFFICES ASSUME Init PROVE TypeOK
  OBVIOUS
<1>1. FlagTypes
  BY DEF Init, FlagTypes
<1>2. ValueTypes
  BY InputAssumption DEF Init, ValueTypes, NoWait
<1>3. TrackedBounded
  BY FS_EmptySet, InputAssumption DEF Init, TrackedBounded
<1> QED
  BY <1>1, <1>2, <1>3 DEF TypeOK

\* The flags keep their types: Boolean values, proved apart from the numbers.
LEMMA FlagStep ==
  ASSUME TypeOK, [Next]_vars
  PROVE  FlagTypes'
<1>0. FlagTypes
  BY DEF TypeOK
<1>1. CASE HandleOutput
  <2>1. outbox # <<>> /\ outbox \in Seq(OutputType)
    BY <1>1, Typed DEF HandleOutput, TypeOK
  <2>2. Head(outbox) \in OutputType
    BY <2>1, TailAt
  <2>3. Head(outbox).flag \in BOOLEAN
    BY <2>2 DEF OutputType
  <2>4. UNCHANGED <<uiPaused, rtPaused>>
    BY <1>1 DEF HandleOutput, app, runtime
  <2>5. \/ UNCHANGED <<paused, dirty>>
        \/ paused' = Head(outbox).flag /\ dirty' = dirty
        \/ paused' = paused /\ dirty' = (dirty \/ Head(outbox).wait # activeWait)
    BY <1>1, RejectionSteps DEF HandleOutput, HandleWait, HandlePause
  <2> QED
    BY <1>0, <2>3, <2>4, <2>5 DEF FlagTypes
<1>2. CASE RtPause
  BY <1>0, <1>2 DEF RtPause, FlagTypes, app, client
<1>3. CASE FlushPresentation
  BY <1>0, <1>3 DEF FlushPresentation, FlagTypes, app, runtime
<1>4. CASE HandleEvent
  BY <1>0, <1>4 DEF HandleEvent, FlagTypes, client, runtime
<1>5. CASE Gesture \/ ProcessGesture \/ ProcessUndo \/ FailGesture \/ BeginDrive \/ EndDrive
           \/ RtOpen \/ RtExpire \/ RtTake \/ UNCHANGED vars
  <2>1. UNCHANGED <<uiPaused, paused, rtPaused, dirty>>
    BY <1>5 DEF Gesture, ProcessGesture, ProcessUndo, FailGesture, BeginDrive, EndDrive,
                RtOpen, RtExpire, RtTake, vars, app, client, runtime
  <2> QED
    BY <1>0, <2>1 DEF FlagTypes
<1> QED
  BY <1>1, <1>2, <1>3, <1>4, <1>5 DEF Next, App, Worker, Pump, Runtime

HandledType == [gesture : 1..MaxGestures, madeFor : Waits, wait : Waits \cup {NoWait}]

\* What the app and the worker make of a gesture.
LEMMA GestureTypes ==
  ASSUME TypeOK, Gesture \/ ProcessGesture \/ ProcessUndo \/ FailGesture
  PROVE  ValueTypes' /\ TrackedBounded'
<1>0. ValueTypes /\ TrackedBounded
  BY DEF TypeOK
<1>1. CASE Gesture
  <2>1. PICK kind \in Gestures :
          commands' = Append(commands, [kind |-> kind, gesture |-> gestures + 1, wait |-> uiWait])
          /\ shutBy' = kind
    BY <1>1 DEF Gesture
  <2>2. gestures' = gestures + 1 /\ gestures' \in 0..MaxGestures /\ gestures' \in 1..MaxGestures
    BY <1>0, <1>1, InputAssumption DEF Gesture, ValueTypes
  <2>3. activated' = uiWait /\ uiWait \in Waits
    BY <1>0, <1>1, Typed DEF Gesture, ShutsOn
  <2>4. [kind |-> kind, gesture |-> gestures + 1, wait |-> uiWait]
           \in [kind : Gestures, gesture : 1..MaxGestures, wait : Waits]
    BY <2>2, <2>3
  <2>5. commands' \in Seq([kind : Gestures, gesture : 1..MaxGestures, wait : Waits])
    BY <1>0, <2>1, <2>4 DEF ValueTypes
  <2>6. UNCHANGED <<uiWait, events, workerAt, activeWait, inputMessages, nextMessageId, inbox,
                    outbox, rtWait, opened, answered, pauses, handled>>
    BY <1>1 DEF Gesture, client, runtime
  <2>7. shutBy' \in Gestures \cup {"none"}
    BY <2>1
  <2> QED
    BY <1>0, <2>2, <2>3, <2>5, <2>6, <2>7 DEF ValueTypes, TrackedBounded
<1>2. ASSUME ProcessGesture \/ ProcessUndo \/ FailGesture
      PROVE  /\ Head(commands) \in CommandType /\ commands' \in Seq(CommandType)
             /\ UNCHANGED <<uiWait, activated, gestures, shutBy, workerAt, activeWait,
                            outbox, rtWait, opened, answered, pauses>>
  <2>1. /\ commands # <<>> /\ commands' = Tail(commands)
        /\ UNCHANGED <<uiWait, activated, gestures, shutBy, workerAt, activeWait,
                       outbox, rtWait, opened, answered, pauses>>
    BY <1>2 DEF ProcessGesture, ProcessUndo, FailGesture, app, client, runtime
  <2> QED
    BY <1>0, <2>1, Typed, TailAt
<1>3. CASE ProcessGesture
  <2> DEFINE c == Head(commands)
             input == Input(c.gesture, c.wait, activeWait, KindOf[activeWait], 0)
  <2>1. UNCHANGED events
    BY <1>3 DEF ProcessGesture
  <2>2. CASE UNCHANGED <<inbox, inputMessages, nextMessageId, handled>>
    BY <1>0, <1>2, <1>3, <2>1, <2>2 DEF ValueTypes, TrackedBounded, CommandType
  <2>3. CASE activeWait # NoWait /\ SubmitInput(input, inputMessages)
    <3>1. input \in InputType
      BY <1>0, <1>2, <1>3, <2>3, InputTyped
    <3> HIDE DEF input
    <3>2. /\ inbox' \in Seq(InputType) /\ inputMessages' \subseteq InputType
          /\ nextMessageId' \in Nat /\ TrackedBounded' /\ handled' \subseteq HandledType
      BY <1>0, <2>3, <3>1, SubmitTyped DEF HandledType
    <3> QED
      BY <1>0, <1>2, <1>3, <2>1, <3>2 DEF ValueTypes, CommandType, HandledType
  <2> QED
    BY <1>3, <2>2, <2>3 DEF ProcessGesture, Accepted
<1>4. CASE ProcessUndo
  <2> DEFINE c == Head(commands)
             m == [Input(c.gesture, c.wait, NoWait, "undo", 0) EXCEPT !.id = nextMessageId]
  <2>1. /\ inbox' = Append(inbox, m) /\ nextMessageId' = nextMessageId + 1
        /\ UNCHANGED <<events, inputMessages, handled>>
    BY <1>4 DEF ProcessUndo
  <2>2. m \in InputType
    BY <1>0, <1>2, <1>4, Typed DEF Input, InputType, CommandType
  <2> HIDE DEF m
  <2>3. inbox' \in Seq(InputType) /\ nextMessageId' \in Nat
    BY <1>0, <2>1, <2>2, Typed
  <2> QED
    BY <1>0, <1>2, <1>4, <2>1, <2>3 DEF ValueTypes, TrackedBounded, CommandType
<1>5. CASE FailGesture
  <2>1. /\ events' = IF activeWait = NoWait THEN events ELSE Append(events, Rejected(activeWait))
        /\ handled' = handled \cup {Handling(Head(commands).gesture, Head(commands).wait, activeWait)}
        /\ UNCHANGED <<inbox, inputMessages, nextMessageId>>
    BY <1>5 DEF FailGesture, ReportsRejection, client
  <2>2. Rejected(activeWait) \in EventType
    BY <1>0 DEF ValueTypes, Rejected, EventType
  <2>3. events' \in Seq(EventType)
    BY <1>0, <2>1, <2>2, Typed
  <2>4. handled' \subseteq HandledType
    BY <1>0, <1>2, <1>5, <2>1 DEF ValueTypes, Handling, HandledType, CommandType
  <2> QED
    BY <1>0, <1>2, <1>5, <2>1, <2>3, <2>4 DEF ValueTypes, TrackedBounded, CommandType, EventType, HandledType
<1> QED
  BY <1>1, <1>3, <1>4, <1>5

\* What the app makes of an event.
LEMMA EventTypes ==
  ASSUME TypeOK, HandleEvent
  PROVE  ValueTypes' /\ TrackedBounded'
<1>0. ValueTypes /\ TrackedBounded
  BY DEF TypeOK
<1>1. /\ events # <<>> /\ events' = Tail(events)
      /\ UNCHANGED <<gestures, shutBy, commands, workerAt, activeWait, inputMessages, nextMessageId,
                     inbox, outbox, rtWait, opened, answered, pauses, handled>>
  BY DEF HandleEvent, client, runtime
<1>2. events' \in Seq(EventType) /\ Head(events) \in EventType
  BY <1>0, <1>1, Typed, TailAt
<1>3. uiWait' \in Waits \cup {NoWait} /\ activated' \in Waits \cup {NoWait}
  BY <1>0, <1>2 DEF HandleEvent, ShowWait, ValueTypes, EventType
<1> QED
  BY <1>0, <1>1, <1>2, <1>3 DEF ValueTypes, TrackedBounded, EventType

\* What the worker makes of an output of the runtime.
LEMMA OutputTypes ==
  ASSUME TypeOK, HandleOutput
  PROVE  ValueTypes' /\ TrackedBounded'
<1>0. ValueTypes /\ TrackedBounded
  BY DEF TypeOK
<1>1. /\ outbox # <<>> /\ outbox' = Tail(outbox)
      /\ UNCHANGED <<uiWait, activated, gestures, shutBy, commands, workerAt, rtWait, opened,
                     answered, pauses>>
  BY DEF HandleOutput, app, runtime
<1> DEFINE m == Head(outbox)
<1>2. outbox' \in Seq(OutputType) /\ m \in OutputType
  BY <1>0, <1>1, Typed, TailAt
<1>3. \/ HandleWait(m.wait) \/ HandlePause(m.flag) \/ HandleRejection(m.id, m.flag)
  BY DEF HandleOutput
<1> HIDE DEF m
<1>4. CASE HandleWait(m.wait)
  <2>1. activeWait' \in Waits \cup {NoWait}
    BY <1>2, <1>4 DEF HandleWait, OutputType
  <2>2. UNCHANGED <<events, inputMessages, nextMessageId, inbox, handled>>
    BY <1>4 DEF HandleWait
  <2> QED
    BY <1>0, <1>1, <1>2, <2>1, <2>2 DEF ValueTypes, TrackedBounded, OutputType
<1>5. CASE HandlePause(m.flag)
  <2> DEFINE e == [kind |-> IF m.flag THEN "paused" ELSE "resumed", wait |-> NoWait]
  <2>1. events' = Append(events, e)
    BY <1>5 DEF HandlePause
  <2>2. e \in EventType
    BY DEF EventType
  <2> HIDE DEF e
  <2>3. events' \in Seq(EventType)
    BY <1>0, <2>1, <2>2, Typed
  <2>4. UNCHANGED <<activeWait, inputMessages, nextMessageId, inbox, handled>>
    BY <1>5 DEF HandlePause
  <2> QED
    BY <1>0, <1>1, <1>2, <2>3, <2>4 DEF ValueTypes, TrackedBounded, OutputType, EventType
<1>6. CASE HandleRejection(m.id, m.flag)
  <2>1. activeWait' = activeWait
    BY <1>6, RejectionSteps
  <2>2. CASE UNCHANGED <<events, inputMessages, nextMessageId, inbox, handled>>
    BY <1>0, <1>1, <1>2, <2>1, <2>2 DEF ValueTypes, TrackedBounded, OutputType
  <2>3. CASE \E i \in inputMessages :
               /\ i.id = m.id /\ Carries(i)
               /\ SubmitInput(Input(i.gesture, i.madeFor, activeWait, i.kind, 1),
                              inputMessages \ {i})
               /\ UNCHANGED events
    <3>1. PICK i \in inputMessages :
               /\ i.id = m.id /\ Carries(i)
               /\ SubmitInput(Input(i.gesture, i.madeFor, activeWait, i.kind, 1),
                              inputMessages \ {i})
               /\ UNCHANGED events
      BY <2>3
    <3> DEFINE input == Input(i.gesture, i.madeFor, activeWait, i.kind, 1)
    <3>2. i \in InputType /\ nextMessageId \in Nat /\ activeWait \in Waits
      BY <1>0, <3>1, Typed DEF Carries
    <3>3. input \in InputType
      BY <3>2 DEF Input, InputType
    <3> HIDE DEF input
    <3>4. /\ inbox' \in Seq(InputType) /\ inputMessages' \subseteq InputType
          /\ nextMessageId' \in Nat /\ TrackedBounded' /\ handled' \subseteq HandledType
      BY <1>0, <3>1, <3>3, SubmitTyped DEF HandledType, input
    <3> QED
      BY <1>0, <1>1, <1>2, <2>1, <3>1, <3>4 DEF ValueTypes, OutputType, HandledType
  <2>4. CASE \E i \in inputMessages :
               /\ i.id = m.id
               /\ events' = Append(events, Rejected(i.wait))
               /\ inputMessages' = inputMessages \ {i}
               /\ UNCHANGED <<nextMessageId, inbox, handled>>
    <3>1. PICK i \in inputMessages :
               /\ i.id = m.id
               /\ events' = Append(events, Rejected(i.wait))
               /\ inputMessages' = inputMessages \ {i}
               /\ UNCHANGED <<nextMessageId, inbox, handled>>
      BY <2>4
    <3>2. Rejected(i.wait) \in EventType
      BY <1>0, Typed DEF Rejected, EventType, InputType
    <3>3. events' \in Seq(EventType)
      BY <1>0, <3>1, <3>2, Typed
    <3>4. TrackedBounded'
      <4>1. IsFiniteSet(inputMessages') /\ Cardinality(inputMessages') <= Cardinality(inputMessages)
        BY <1>0, <3>1, FS_Subset DEF TrackedBounded
      <4>2. Cardinality(inputMessages') \in Nat /\ Cardinality(inputMessages) \in Nat /\ MaxTracked \in Nat
        BY <1>0, <4>1, FS_CardinalityType, InputAssumption DEF TrackedBounded
      <4> QED
        BY <1>0, <4>1, <4>2 DEF TrackedBounded
    <3> QED
      BY <1>0, <1>1, <1>2, <2>1, <3>1, <3>3, <3>4 DEF ValueTypes, OutputType, EventType
  <2> QED
    BY <1>6, <2>2, <2>3, <2>4, RejectionSteps
<1> QED
  BY <1>3, <1>4, <1>5, <1>6

\* What else the worker does in a pump, and the runtime.
LEMMA PumpTypes ==
  ASSUME TypeOK, BeginDrive \/ EndDrive \/ FlushPresentation
  PROVE  ValueTypes' /\ TrackedBounded'
<1>0. ValueTypes /\ TrackedBounded
  BY DEF TypeOK
<1>1. /\ UNCHANGED <<uiWait, activated, gestures, shutBy, commands, activeWait, inputMessages,
                     nextMessageId, inbox, outbox, rtWait, opened, answered, pauses, handled>>
      /\ workerAt' \in {"idle", "driving", "polling"}
      /\ events' = events \/ events' = Append(events, WaitEvent(activeWait))
  BY DEF BeginDrive, EndDrive, FlushPresentation, app, client, runtime
<1>2. WaitEvent(activeWait) \in EventType
  BY <1>0 DEF WaitEvent, EventType, ValueTypes
<1> DEFINE e == WaitEvent(activeWait)
<1> HIDE DEF e
<1>3. events' \in Seq(EventType)
  <2>1. e \in EventType /\ events \in Seq(EventType) /\ (events' = events \/ events' = Append(events, e))
    BY <1>0, <1>1, <1>2, Typed DEF e
  <2> QED
    BY <2>1
<1> QED
  BY <1>0, <1>1, <1>3 DEF ValueTypes, TrackedBounded, EventType

\* What the runtime says as it opens a wait, ends one or is paused.
LEMMA OutputShape ==
  ASSUME TypeOK, RtOpen \/ RtExpire \/ RtPause
  PROVE  \E m \in OutputType :
           /\ outbox' = Append(outbox, m) /\ m.kind # "reject"
           /\ m.kind = "wait" /\ m.wait # NoWait => RtOpen /\ m.wait = opened + 1
<1>1. CASE RtOpen
  <2> DEFINE m == Output("wait", opened + 1, 0, FALSE)
  <2>1. m \in OutputType
    BY <1>1 DEF RtOpen, Output, OutputType
  <2>2. outbox' = Append(outbox, m)
    BY <1>1 DEF RtOpen
  <2>3. m.kind = "wait" /\ m.wait = opened + 1
    BY DEF Output
  <2> HIDE DEF m
  <2> QED
    BY <1>1, <2>1, <2>2, <2>3
<1>2. CASE RtExpire
  <2> DEFINE m == Output("wait", NoWait, 0, FALSE)
  <2>1. m \in OutputType
    BY DEF Output, OutputType
  <2>2. outbox' = Append(outbox, m)
    BY <1>2 DEF RtExpire
  <2>3. m.kind = "wait" /\ m.wait = NoWait
    BY DEF Output
  <2> HIDE DEF m
  <2> QED
    BY <2>1, <2>2, <2>3
<1>3. CASE RtPause
  <2> DEFINE flag == ~rtPaused
             m == Output("pause", NoWait, 0, flag)
  <2>1. flag \in BOOLEAN
    OBVIOUS
  <2>2. outbox' = Append(outbox, m)
    BY <1>3 DEF RtPause
  <2> HIDE DEF flag
  <2>3. m \in OutputType
    BY <2>1 DEF Output, OutputType
  <2>4. m.kind = "pause"
    BY DEF Output
  <2> HIDE DEF m
  <2> QED
    BY <2>2, <2>3, <2>4
<1> QED
  BY <1>1, <1>2, <1>3

\* What the runtime says to an input it takes.
LEMMA TakeShape ==
  ASSUME TypeOK, RtTake
  PROVE  \E m \in OutputType :
           /\ outbox' = Append(outbox, m)
           /\ \/ /\ m.kind = "wait" /\ m.wait = NoWait
                 /\ answered' \subseteq answered
                      \cup {w \in {Head(inbox).wait} : Head(inbox).wait = Head(inbox).madeFor}
              \/ m.kind = "reject" /\ m.id = Head(inbox).id /\ answered' = answered
<1>1. CASE /\ outbox' = Append(outbox, Output("wait", NoWait, 0, FALSE))
           /\ answered' = IF Head(inbox).kind # "undo" /\ Head(inbox).wait = Head(inbox).madeFor
                          THEN answered \cup {Head(inbox).wait} ELSE answered
  <2> DEFINE m == Output("wait", NoWait, 0, FALSE)
  <2>1. m \in OutputType
    BY DEF Output, OutputType
  <2>2. m.kind = "wait" /\ m.wait = NoWait
    BY DEF Output
  <2> HIDE DEF m
  <2>3. answered' \subseteq answered
          \cup {w \in {Head(inbox).wait} : Head(inbox).wait = Head(inbox).madeFor}
    BY <1>1
  <2> QED
    BY <1>1, <2>1, <2>2, <2>3 DEF m
<1>2. CASE \E stale \in BOOLEAN :
             outbox' = Append(outbox, Output("reject", NoWait, Head(inbox).id, stale))
             /\ answered' = answered
  <2> PICK stale \in BOOLEAN :
        outbox' = Append(outbox, Output("reject", NoWait, Head(inbox).id, stale))
        /\ answered' = answered
    BY <1>2
  <2> DEFINE m == Output("reject", NoWait, Head(inbox).id, stale)
  <2>1. inbox # <<>> /\ inbox \in Seq(InputType)
    BY Typed DEF RtTake, TypeOK
  <2>2. Head(inbox) \in InputType
    BY <2>1, TailAt
  <2>3. m \in OutputType
    BY <2>2 DEF Output, OutputType, InputType
  <2>4. m.kind = "reject" /\ m.id = Head(inbox).id
    BY DEF Output
  <2> HIDE DEF m
  <2> QED
    BY <2>3, <2>4 DEF m
<1>3. \/ /\ outbox' = Append(outbox, Output("wait", NoWait, 0, FALSE))
         /\ answered' = IF Head(inbox).kind # "undo" /\ Head(inbox).wait = Head(inbox).madeFor
                        THEN answered \cup {Head(inbox).wait} ELSE answered
      \/ \E stale \in BOOLEAN :
           outbox' = Append(outbox, Output("reject", NoWait, Head(inbox).id, stale))
           /\ answered' = answered
  BY DEF RtTake
<1> QED
  BY <1>1, <1>2, <1>3

\* What the runtime does keeps the queues and the counters in their types.
LEMMA RuntimeTypes ==
  ASSUME TypeOK, Runtime
  PROVE  ValueTypes' /\ TrackedBounded'
<1>0. ValueTypes /\ TrackedBounded
  BY DEF TypeOK
<1>1. UNCHANGED <<uiWait, activated, gestures, shutBy, commands, events, workerAt, activeWait,
                  inputMessages, nextMessageId, handled>>
  BY DEF Runtime, RtOpen, RtExpire, RtTake, RtPause, app, client
<1>2. rtWait' \in Waits \cup {NoWait} /\ opened' \in Waits \cup {NoWait} /\ pauses' \in 0..MaxPauses
  <2>1. CASE RtOpen
    BY <1>0, <2>1 DEF RtOpen, ValueTypes
  <2>2. CASE RtExpire \/ RtTake
    BY <1>0, <2>2 DEF RtExpire, RtTake, ValueTypes
  <2>3. CASE RtPause
    BY <1>0, <2>3, InputAssumption DEF RtPause, ValueTypes
  <2> QED
    BY <2>1, <2>2, <2>3 DEF Runtime
<1>3. ASSUME RtTake PROVE inbox # <<>> /\ inbox' = Tail(inbox) /\ Head(inbox) \in InputType
  BY <1>0, <1>3, Typed, TailAt DEF RtTake
<1>4. inbox' \in Seq(InputType)
  <2>1. CASE RtTake
    <3>1. inbox \in Seq(InputType) /\ inbox # <<>> /\ inbox' = Tail(inbox)
      BY <1>0, <1>3, <2>1, Typed
    <3> QED
      BY <3>1, TailAt
  <2>2. CASE RtOpen \/ RtExpire \/ RtPause
    <3>1. inbox' = inbox
      BY <2>2 DEF RtOpen, RtExpire, RtPause
    <3> QED
      BY <1>0, <3>1, Typed
  <2> QED
    BY <2>1, <2>2 DEF Runtime
<1>5. answered' \subseteq Waits
  BY <1>0, <1>3 DEF Runtime, RtOpen, RtExpire, RtTake, RtPause, ValueTypes, InputType
<1>6. \E m \in OutputType : outbox' = Append(outbox, m)
  BY OutputShape, TakeShape DEF Runtime
<1>7. outbox' \in Seq(OutputType)
  BY <1>0, <1>6, Typed
<1> QED
  BY <1>0, <1>1, <1>2, <1>4, <1>5, <1>7 DEF ValueTypes, TrackedBounded, OutputType

\* Every step keeps the types and tracks at most as many inputs as there are ids.
LEMMA TypesStep ==
  ASSUME TypeOK, [Next]_vars
  PROVE  TypeOK'
<1>1. FlagTypes'
  BY FlagStep
<1>2. CASE UNCHANGED vars
  BY <1>2 DEF vars, app, client, runtime, TypeOK, FlagTypes, ValueTypes, TrackedBounded
<1>3. CASE Next
  <2>1. ValueTypes' /\ TrackedBounded'
    BY <1>3, GestureTypes, EventTypes, OutputTypes, PumpTypes, RuntimeTypes DEF Next, App, Worker, Pump
  <2> QED
    BY <1>1, <2>1 DEF TypeOK
<1> QED
  BY <1>2, <1>3

\* The values of the gate's state, of the queues and of the counters; the worker
\* never remembers more inputs than it has room for.
THEOREM TypeCorrect == Spec => []TypeOK
BY InitTypes, TypesStep, PTL DEF Spec
-----------------------------------------------------------------------------
(* Message ids *)

\* Every message has an id of its own: what the client remembers under an id is
\* the input it sent under that id; an input is of the kind of its wait.
Numbered ==
  /\ \A i \in inputMessages : i.id < nextMessageId
  /\ \A i \in Range(inbox) : i.id < nextMessageId
  /\ \A m \in Range(outbox) : m.kind = "reject" => m.id < nextMessageId
  /\ \A i, j \in inputMessages : i.id = j.id => i = j
  /\ \A i \in inputMessages, j \in Range(inbox) : i.id = j.id => i = j
  /\ \A i \in inputMessages : i.wait # NoWait /\ i.kind = KindOf[i.wait]
  /\ \A i \in Range(inbox) :
       \/ i.kind = "undo" /\ i.wait = NoWait
       \/ i.wait # NoWait /\ i.kind = KindOf[i.wait]

\* What a submission adds.
LEMMA Submitted ==
  ASSUME ValueTypes, TrackedBounded, NEW input \in InputType, NEW remaining,
         remaining \subseteq inputMessages, SubmitInput(input, remaining)
  PROVE  /\ Range(inbox') = Range(inbox) \cup {input} /\ nextMessageId' = nextMessageId + 1
         /\ inputMessages' \subseteq remaining \cup {input} /\ inbox' = Append(inbox, input)
         /\ handled' = handled \cup {Handling(input.gesture, input.madeFor, input.wait)}
<1>1. /\ inbox' = Append(inbox, input) /\ nextMessageId' = nextMessageId + 1
      /\ inputMessages' = Tracked(remaining) \cup {input}
      /\ handled' = handled \cup {Handling(input.gesture, input.madeFor, input.wait)}
  BY DEF SubmitInput
<1>2. /\ remaining \subseteq InputType /\ IsFiniteSet(remaining)
      /\ Cardinality(remaining) <= Cardinality(inputMessages)
  BY Typed, FS_Subset DEF TrackedBounded
<1>3. Cardinality(remaining) \in Nat /\ Cardinality(inputMessages) \in Nat /\ MaxTracked \in Nat
  BY <1>2, FS_CardinalityType, InputAssumption DEF TrackedBounded
<1>4. Cardinality(remaining) <= MaxTracked
  BY <1>2, <1>3 DEF TrackedBounded
<1>5. Tracked(remaining) \subseteq remaining
  BY <1>2, <1>4, TrackedRoom
<1>6. Range(inbox') = Range(inbox) \cup {input}
  BY <1>1, RangeAppend, Typed
<1> QED
  BY <1>1, <1>5, <1>6

\* An input formed now is numbered.
LEMMA SubmitNumbered ==
  ASSUME TypeOK, Numbered, NEW input \in InputType, NEW remaining,
         remaining \subseteq inputMessages, SubmitInput(input, remaining),
         input.id = nextMessageId, input.wait # NoWait, input.kind = KindOf[input.wait],
         \A m \in Range(outbox') : m \in Range(outbox)
  PROVE  Numbered'
<1>1. /\ Range(inbox') = Range(inbox) \cup {input} /\ nextMessageId' = nextMessageId + 1
      /\ inputMessages' \subseteq inputMessages \cup {input}
  BY Submitted DEF TypeOK
<1>2. nextMessageId \in Nat
  BY Typed DEF TypeOK
<1> DEFINE next == nextMessageId
           now == nextMessageId'
<1>3. /\ \A i \in inputMessages : i \in InputType /\ i.id < next
      /\ \A i \in Range(inbox) : i \in InputType /\ i.id < next
  BY Typed DEF Numbered, TypeOK, Range
<1>4. /\ \A i \in inputMessages : i.id < now /\ i.id # next
      /\ \A i \in Range(inbox) : i.id < now /\ i.id # next
      /\ input.id < now
  BY <1>1, <1>2, <1>3 DEF InputType
<1>5. \A m \in Range(outbox') : m.kind = "reject" => m.id < now
  <2> TAKE m \in Range(outbox')
  <2> HAVE m.kind = "reject"
  <2>1. m.id < next /\ m \in OutputType
    BY Typed DEF Numbered, Range, TypeOK
  <2> QED
    BY <1>1, <1>2, <2>1 DEF OutputType
<1>6. \A i, j \in inputMessages' : i.id = j.id => i = j
  BY <1>1, <1>4 DEF Numbered
<1>7. \A i \in inputMessages', j \in Range(inbox') : i.id = j.id => i = j
  BY <1>1, <1>4 DEF Numbered
<1>8. /\ \A i \in inputMessages' : i.wait # NoWait /\ i.kind = KindOf[i.wait]
      /\ \A i \in Range(inbox') :
           \/ i.kind = "undo" /\ i.wait = NoWait
           \/ i.wait # NoWait /\ i.kind = KindOf[i.wait]
  BY <1>1 DEF Numbered
<1>9. \A i \in inputMessages' : i.id < now
  BY <1>1, <1>4
<1>10. \A i \in Range(inbox') : i.id < now
  BY <1>1, <1>4
<1> QED
  BY <1>5, <1>6, <1>7, <1>8, <1>9, <1>10 DEF Numbered

\* A step that forms no input keeps the numbers.
LEMMA QuietNumbered ==
  ASSUME TypeOK, Numbered, nextMessageId' = nextMessageId, inputMessages' \subseteq inputMessages,
         Range(inbox') \subseteq Range(inbox),
         \A m \in Range(outbox') :
           m \in Range(outbox) \/ m.kind # "reject" \/ \E i \in Range(inbox) : m.id = i.id
  PROVE  Numbered'
<1>1. \A m \in Range(outbox') : m.kind = "reject" => m.id < nextMessageId'
  BY DEF Numbered
<1> QED
  BY <1>1 DEF Numbered

\* A message id is in use once: ids only grow, and every queue, tracked input
\* and retry names an id given out before.
LEMMA NumberedStep ==
  ASSUME TypeOK, Numbered, [Next]_vars
  PROVE  Numbered'
<1>0. /\ ValueTypes /\ TrackedBounded /\ commands \in Seq(CommandType)
      /\ inbox \in Seq(InputType) /\ outbox \in Seq(OutputType) /\ nextMessageId \in Nat
  BY Typed DEF TypeOK
<1>1. CASE UNCHANGED <<nextMessageId, inputMessages, inbox, outbox>>
  BY <1>1, QuietNumbered
<1>2. CASE ProcessGesture
  <2> DEFINE c == Head(commands)
             input == Input(c.gesture, c.wait, activeWait, KindOf[activeWait], 0)
  <2>1. c \in CommandType /\ outbox' = outbox
    BY <1>0, <1>2, TailAt DEF ProcessGesture
  <2>2. \/ UNCHANGED <<nextMessageId, inputMessages, inbox, outbox>>
        \/ activeWait # NoWait /\ SubmitInput(input, inputMessages)
    BY <1>2, <2>1 DEF ProcessGesture, Accepted
  <2>3. activeWait # NoWait => input \in InputType
    BY <1>0, <2>1, InputTyped
  <2>4. input.id = nextMessageId /\ input.wait = activeWait /\ input.kind = KindOf[activeWait]
    BY DEF Input
  <2> HIDE DEF input
  <2> QED
    BY <1>1, <2>1, <2>2, <2>3, <2>4, SubmitNumbered
<1>3. CASE ProcessUndo
  <2> DEFINE m == [Input(Head(commands).gesture, Head(commands).wait, NoWait, "undo", 0)
                     EXCEPT !.id = nextMessageId]
  <2>1. /\ inbox' = Append(inbox, m) /\ nextMessageId' = nextMessageId + 1
        /\ inputMessages' = inputMessages /\ outbox' = outbox
    BY <1>3 DEF ProcessUndo
  <2>2. commands # <<>>
    BY <1>3 DEF ProcessUndo
  <2>3. Head(commands) \in CommandType
    BY <1>0, <2>2, TailAt
  <2>4. m \in InputType /\ m.id = nextMessageId /\ m.kind = "undo" /\ m.wait = NoWait
    BY <1>0, <2>3 DEF Input, InputType, CommandType
  <2> HIDE DEF m
  <2>5. Range(inbox') = Range(inbox) \cup {m}
    BY <1>0, <2>1, <2>4, RangeAppend
  <2>6. \A i \in inputMessages : i.id \in Nat /\ i.id < nextMessageId
    BY <1>0, Typed DEF Numbered, InputType
  <2>7. \A i \in Range(inbox) : i.id \in Nat /\ i.id < nextMessageId
    <3>1. Range(inbox) \subseteq InputType
      BY <1>0, RangeTyped
    <3> QED
      BY <3>1 DEF Numbered, InputType
  <2>8. \A o \in Range(outbox) : o.id \in Nat
    <3>1. Range(outbox) \subseteq OutputType
      BY <1>0, RangeTyped
    <3> QED
      BY <3>1 DEF OutputType
  <2>9. \A n \in Nat : n < nextMessageId => n < nextMessageId'
    BY <1>0, <2>1
  <2>10. nextMessageId < nextMessageId' /\ ~(nextMessageId < nextMessageId)
    BY <1>0, <2>1
  <2> QED
    BY <2>1, <2>4, <2>5, <2>6, <2>7, <2>8, <2>9, <2>10 DEF Numbered
<1>4. CASE HandleOutput
  <2> DEFINE m == Head(outbox)
  <2>1. outbox # <<>> /\ outbox' = Tail(outbox)
    BY <1>4 DEF HandleOutput
  <2>2. Range(outbox') \subseteq Range(outbox)
    BY <1>0, <2>1, RangeTail
  <2>3. \/ UNCHANGED <<nextMessageId, inbox>> /\ inputMessages' \subseteq inputMessages
        \/ \E i \in inputMessages :
             /\ Carries(i)
             /\ SubmitInput(Input(i.gesture, i.madeFor, activeWait, i.kind, 1), inputMessages \ {i})
    BY <1>4, RejectionSteps DEF HandleOutput, HandleWait, HandlePause
  <2>4. CASE UNCHANGED <<nextMessageId, inbox>> /\ inputMessages' \subseteq inputMessages
    BY <2>2, <2>4, QuietNumbered
  <2>5. ASSUME NEW i \in inputMessages, Carries(i),
               SubmitInput(Input(i.gesture, i.madeFor, activeWait, i.kind, 1), inputMessages \ {i})
        PROVE  Numbered'
    <3> DEFINE input == Input(i.gesture, i.madeFor, activeWait, i.kind, 1)
    <3>1. i \in InputType /\ activeWait \in Waits /\ activeWait # NoWait /\ i.kind = KindOf[activeWait]
      BY <1>0, <2>5, Typed DEF Carries
    <3>2. input \in InputType /\ input.id = nextMessageId /\ input.wait = activeWait /\ input.kind = i.kind
      BY <1>0, <3>1 DEF Input, InputType
    <3>3. SubmitInput(input, inputMessages \ {i}) /\ inputMessages \ {i} \subseteq inputMessages
      BY <2>5
    <3> HIDE DEF input
    <3> QED
      BY <2>2, <3>1, <3>2, <3>3, SubmitNumbered
  <2> QED
    BY <2>3, <2>4, <2>5
<1>5. CASE RtOpen \/ RtExpire \/ RtPause
  <2>1. /\ UNCHANGED <<nextMessageId, inputMessages, inbox>>
        /\ \E m : m.kind # "reject" /\ outbox' = Append(outbox, m) /\ m \in OutputType
    BY <1>5, OutputShape DEF RtOpen, RtExpire, RtPause, client
  <2>2. PICK m \in OutputType : m.kind # "reject" /\ outbox' = Append(outbox, m)
    BY <2>1
  <2>3. Range(outbox') = Range(outbox) \cup {m}
    BY <1>0, <2>2, RangeAppend
  <2> QED
    BY <2>1, <2>2, <2>3, QuietNumbered
<1>6. CASE RtTake
  <2>1. UNCHANGED <<nextMessageId, inputMessages>> /\ inbox' = Tail(inbox) /\ inbox # <<>>
    BY <1>6 DEF RtTake, client
  <2>2. Range(inbox') \subseteq Range(inbox) /\ Head(inbox) \in Range(inbox)
    BY <1>0, <2>1, RangeTail
  <2>3. PICK m \in OutputType :
          (m.kind # "reject" \/ m.id = Head(inbox).id) /\ outbox' = Append(outbox, m)
    BY <1>6, TakeShape
  <2>4. Range(outbox') = Range(outbox) \cup {m}
    BY <1>0, <2>3, RangeAppend
  <2> QED
    BY <2>1, <2>2, <2>3, <2>4, QuietNumbered
<1> QED
  BY <1>1, <1>2, <1>3, <1>4, <1>5, <1>6
  DEF Next, App, Worker, Pump, Runtime, Gesture, HandleEvent, FailGesture, BeginDrive, EndDrive,
      FlushPresentation, vars, client
-----------------------------------------------------------------------------
(* Following a gesture *)

HandledFor(gesture) == {h \in handled : h.gesture = gesture}
Pair(S) == \E x, y : S \subseteq {x, y}

\* A gesture waits to be handled, or is remembered for one input at most; before
\* its retry it was handled once.
Followed ==
  /\ \A k \in DOMAIN commands :
       /\ commands[k].gesture <= gestures
       /\ HandledFor(commands[k].gesture) = {}
       /\ \A i \in inputMessages : i.gesture # commands[k].gesture
       /\ \A j \in DOMAIN commands : commands[j].gesture = commands[k].gesture => j = k
  /\ \A h \in handled : h.gesture <= gestures
  /\ \A i \in inputMessages : i.gesture <= gestures
  /\ \A i, j \in inputMessages : i.gesture = j.gesture => i = j
  /\ \A i \in inputMessages : i.retries = 0 => Single(HandledFor(i.gesture))
  /\ \A g \in 1..MaxGestures : Pair(HandledFor(g))

\* A queue without its first command: the gestures that wait.
LEMMA CommandsTail ==
  ASSUME TypeOK, Followed, commands # <<>>, commands' = Tail(commands)
  PROVE  /\ Head(commands) \in CommandType /\ Head(commands).gesture <= gestures
         /\ HandledFor(Head(commands).gesture) = {}
         /\ \A i \in inputMessages : i.gesture # Head(commands).gesture
         /\ \A k \in DOMAIN commands' :
              /\ commands'[k].gesture <= gestures
              /\ HandledFor(commands'[k].gesture) = {}
              /\ \A i \in inputMessages : i.gesture # commands'[k].gesture
              /\ commands'[k].gesture # Head(commands).gesture
              /\ \A j \in DOMAIN commands' : commands'[j].gesture = commands'[k].gesture => j = k
<1> DEFINE p == Tail(commands)
<1>1. /\ Head(commands) \in CommandType /\ Head(commands) = commands[1]
      /\ Len(commands) \in Nat \ {0} /\ 1 \in DOMAIN commands
      /\ DOMAIN commands = 1..Len(commands) /\ DOMAIN p = 1..(Len(commands) - 1)
      /\ \A i \in 1..(Len(commands) - 1) : p[i] = commands[i + 1]
  <2>1. commands \in Seq(CommandType)
    BY Typed DEF TypeOK
  <2> QED
    BY <2>1, TailAt
<1> HIDE DEF p
<1>2. \A i \in DOMAIN p : i \in Nat \ {0} /\ i + 1 \in DOMAIN commands /\ p[i] = commands[i + 1]
  BY <1>1
<1>3. \A i, j \in DOMAIN p : i + 1 # 1 /\ (i + 1 = j + 1 => i = j)
  BY <1>2
<1>4. \A k \in DOMAIN p :
        /\ p[k].gesture <= gestures /\ HandledFor(p[k].gesture) = {}
        /\ \A i \in inputMessages : i.gesture # p[k].gesture
  BY <1>2 DEF Followed
<1>5. \A k \in DOMAIN p : p[k].gesture # commands[1].gesture
  BY <1>1, <1>2, <1>3 DEF Followed
<1>6. \A k, j \in DOMAIN p : p[j].gesture = p[k].gesture => j = k
  BY <1>2, <1>3 DEF Followed
<1>7. /\ commands[1].gesture <= gestures /\ HandledFor(commands[1].gesture) = {}
      /\ \A i \in inputMessages : i.gesture # commands[1].gesture
  BY <1>1 DEF Followed
<1> QED
  BY <1>1, <1>4, <1>5, <1>6, <1>7 DEF p

\* A gesture handled now, for a command or for the one retry of an input.
LEMMA HandledNow ==
  ASSUME NEW h, handled' = handled \cup {h}
  PROVE  /\ \A g : g # h.gesture => HandledFor(g)' = HandledFor(g)
         /\ HandledFor(h.gesture) = {} => Single(HandledFor(h.gesture)')
         /\ Single(HandledFor(h.gesture)) => Pair(HandledFor(h.gesture)')
<1>1. /\ \A g : g # h.gesture => HandledFor(g)' = HandledFor(g)
      /\ HandledFor(h.gesture)' = HandledFor(h.gesture) \cup {h}
  BY DEF HandledFor
<1>2. HandledFor(h.gesture) = {} => Single(HandledFor(h.gesture)')
  BY <1>1 DEF Single
<1>3. ASSUME Single(HandledFor(h.gesture)) PROVE Pair(HandledFor(h.gesture)')
  <2>1. PICK x : HandledFor(h.gesture) \subseteq {x}
    BY <1>3 DEF Single
  <2>2. HandledFor(h.gesture)' \subseteq {x, h}
    BY <1>1, <2>1
  <2> QED
    BY <2>2 DEF Pair
<1> QED
  BY <1>1, <1>2, <1>3

\* One item is at most a pair of equal ones.
LEMMA SinglePair ==
  ASSUME NEW S, Single(S) PROVE Pair(S)
<1>1. PICK x : S \subseteq {x}
  BY DEF Single
<1> QED
  BY <1>1 DEF Pair

\* Steps that handle nothing.
LEMMA QuietFollowed ==
  ASSUME TypeOK, Followed, UNCHANGED <<gestures, handled>>, inputMessages' \subseteq inputMessages,
         commands' = commands \/ (commands # <<>> /\ commands' = Tail(commands))
  PROVE  Followed'
<1>1. \A g : HandledFor(g)' = HandledFor(g)
  BY DEF HandledFor
<1>2. \A k \in DOMAIN commands' :
        /\ commands'[k].gesture <= gestures
        /\ HandledFor(commands'[k].gesture) = {}
        /\ \A i \in inputMessages : i.gesture # commands'[k].gesture
        /\ \A j \in DOMAIN commands' : commands'[j].gesture = commands'[k].gesture => j = k
  <2>1. CASE commands' = commands
    BY <2>1 DEF Followed
  <2>2. CASE commands # <<>> /\ commands' = Tail(commands)
    BY <2>2, CommandsTail
  <2> QED
    BY <2>1, <2>2
<1> QED
  BY <1>1, <1>2 DEF Followed

\* A gesture is handled: the first command, tracked as an input or not.
LEMMA HandleFollowed ==
  ASSUME TypeOK, Followed, UNCHANGED gestures, commands # <<>>, commands' = Tail(commands),
         NEW h \in HandledType, h.gesture = Head(commands).gesture, handled' = handled \cup {h},
         \A i \in inputMessages' : i \in inputMessages \/ i.gesture = h.gesture,
         \A i, j \in inputMessages' : i.gesture = h.gesture /\ j.gesture = h.gesture => i = j
  PROVE  Followed'
<1>1. /\ h.gesture <= gestures /\ HandledFor(h.gesture) = {}
      /\ \A i \in inputMessages : i.gesture # h.gesture
      /\ \A k \in DOMAIN commands' :
           /\ commands'[k].gesture <= gestures
           /\ HandledFor(commands'[k].gesture) = {}
           /\ \A i \in inputMessages : i.gesture # commands'[k].gesture
           /\ commands'[k].gesture # h.gesture
           /\ \A j \in DOMAIN commands' : commands'[j].gesture = commands'[k].gesture => j = k
  BY CommandsTail
<1>2. /\ \A g : g # h.gesture => HandledFor(g)' = HandledFor(g)
      /\ Single(HandledFor(h.gesture)')
  BY <1>1, HandledNow
<1>3. \A k \in DOMAIN commands' :
        /\ {x \in handled' : x.gesture = commands'[k].gesture} = {}
        /\ \A i \in inputMessages' : i.gesture # commands'[k].gesture
  <2> TAKE k \in DOMAIN commands'
  <2> DEFINE g == commands'[k].gesture
  <2>1. g # h.gesture /\ HandledFor(g) = {} /\ \A i \in inputMessages : i.gesture # g
    BY <1>1
  <2>2. {x \in handled' : x.gesture = g} = {}
    BY <2>1 DEF HandledFor
  <2> QED
    BY <2>1, <2>2 DEF HandledFor
<1>4. \A x \in handled' : x.gesture <= gestures
  BY <1>1 DEF Followed
<1>5. \A i \in inputMessages' : i.gesture <= gestures
  BY <1>1 DEF Followed
<1>6. \A i, j \in inputMessages' : i.gesture = j.gesture => i = j
  BY <1>1 DEF Followed
<1>7. \A i \in inputMessages' : i.retries = 0 => Single(HandledFor(i.gesture)')
  <2> TAKE i \in inputMessages'
  <2> DEFINE g == i.gesture
  <2>1. g = h.gesture \/ (i \in inputMessages /\ HandledFor(g)' = HandledFor(g))
    BY <1>2
  <2> QED
    BY <1>2, <2>1 DEF Followed
<1>8. \A g \in 1..MaxGestures : Pair(HandledFor(g)')
  BY <1>2, SinglePair DEF Followed
<1> QED
  BY <1>1, <1>3, <1>4, <1>5, <1>6, <1>7, <1>8 DEF Followed, HandledFor

\* An input is submitted again, under its next retry.
LEMMA RetryFollowed ==
  ASSUME TypeOK, Followed, UNCHANGED <<gestures, commands>>, NEW i \in inputMessages, i.retries = 0,
         NEW input \in InputType, input.gesture = i.gesture, input.retries = 1,
         inputMessages' \subseteq (inputMessages \ {i}) \cup {input},
         NEW h \in HandledType, h.gesture = i.gesture, handled' = handled \cup {h}
  PROVE  Followed'
<1>1. /\ h.gesture <= gestures /\ Single(HandledFor(h.gesture))
      /\ \A j \in inputMessages : j.gesture = h.gesture => j = i
  BY DEF Followed
<1>2. /\ \A g : g # h.gesture => HandledFor(g)' = HandledFor(g)
      /\ Pair(HandledFor(h.gesture)')
  BY <1>1, HandledNow
<1>3. \A k \in DOMAIN commands' :
        /\ {x \in handled' : x.gesture = commands'[k].gesture} = {}
        /\ \A j \in inputMessages' : j.gesture # commands'[k].gesture
  <2> TAKE k \in DOMAIN commands'
  <2> DEFINE g == commands'[k].gesture
  <2>1. g # h.gesture /\ HandledFor(g) = {} /\ \A j \in inputMessages : j.gesture # g
    BY DEF Followed
  <2>2. {x \in handled' : x.gesture = g} = {}
    BY <2>1 DEF HandledFor
  <2> QED
    BY <2>1, <2>2 DEF HandledFor
<1>4. \A x \in handled' : x.gesture <= gestures
  BY <1>1 DEF Followed
<1>5. \A j \in inputMessages' : j.gesture <= gestures
  BY <1>1 DEF Followed
<1>6. \A j, k \in inputMessages' : j.gesture = k.gesture => j = k
  BY <1>1 DEF Followed
<1>7. \A j \in inputMessages' : j.retries = 0 => Single(HandledFor(j.gesture)')
  <2> TAKE j \in inputMessages'
  <2> DEFINE g == j.gesture
  <2>1. j = input \/ (j \in inputMessages /\ g # h.gesture)
    BY <1>1
  <2>2. j \in inputMessages /\ g # h.gesture => HandledFor(g)' = HandledFor(g)
    BY <1>2
  <2> QED
    BY <2>1, <2>2 DEF Followed
<1>8. \A g \in 1..MaxGestures : Pair(HandledFor(g)')
  BY <1>2 DEF Followed
<1> QED
  BY <1>3, <1>4, <1>5, <1>6, <1>7, <1>8 DEF Followed, HandledFor

\* A new gesture is a new command.
LEMMA GestureFollowed ==
  ASSUME TypeOK, Followed, Gesture
  PROVE  Followed'
<1>1. PICK kind \in Gestures :
        commands' = Append(commands, [kind |-> kind, gesture |-> gestures + 1, wait |-> uiWait])
  BY DEF Gesture
<1> DEFINE c == [kind |-> kind, gesture |-> gestures + 1, wait |-> uiWait]
<1>2. /\ gestures' = gestures + 1 /\ gestures \in Nat /\ gestures' \in 1..MaxGestures
      /\ UNCHANGED <<handled, inputMessages>> /\ uiWait \in Waits
  BY InputAssumption, Typed DEF Gesture, client, TypeOK, ValueTypes
<1>3. c \in CommandType /\ c.gesture = gestures + 1
  BY <1>2 DEF CommandType
<1> HIDE DEF c
<1>4. /\ Len(commands) \in Nat
      /\ DOMAIN commands = 1..Len(commands) /\ DOMAIN commands' = 1..(Len(commands) + 1)
      /\ \A i \in 1..Len(commands) : commands'[i] = commands[i]
      /\ commands'[Len(commands) + 1] = c
  <2>1. commands \in Seq(CommandType) /\ commands' = Append(commands, c)
    BY <1>1, Typed DEF TypeOK, c
  <2> QED
    BY <1>3, <2>1, AppendAt
<1>5. \A k \in DOMAIN commands' :
        \/ k \in DOMAIN commands /\ commands'[k] = commands[k]
        \/ k = Len(commands) + 1 /\ commands'[k] = c
  BY <1>4
<1>6. /\ \A k \in DOMAIN commands : commands[k].gesture \in Nat /\ commands[k].gesture <= gestures
      /\ \A x \in handled : x.gesture \in Nat /\ x.gesture <= gestures
      /\ \A i \in inputMessages : i.gesture \in Nat /\ i.gesture <= gestures
  <2>1. \A k \in DOMAIN commands : commands[k] \in CommandType
    BY Typed DEF TypeOK
  <2>2. handled \subseteq HandledType /\ inputMessages \subseteq InputType
    BY Typed DEF TypeOK, ValueTypes, HandledType
  <2>3. 1..MaxGestures \subseteq Nat
    BY InputAssumption
  <2> QED
    BY <2>1, <2>2, <2>3 DEF Followed, CommandType, HandledType, InputType
<1>7. \A g \in Nat : g <= gestures => g <= gestures + 1 /\ g # gestures + 1
  BY <1>2
<1>8. /\ \A k \in DOMAIN commands : commands[k].gesture # c.gesture
      /\ HandledFor(c.gesture) = {} /\ \A i \in inputMessages : i.gesture # c.gesture
  BY <1>3, <1>6, <1>7 DEF HandledFor
<1>9. \A g : HandledFor(g)' = HandledFor(g)
  BY <1>2 DEF HandledFor
<1>10. \A k \in DOMAIN commands' :
         /\ commands'[k].gesture <= gestures'
         /\ HandledFor(commands'[k].gesture) = {}
         /\ \A i \in inputMessages : i.gesture # commands'[k].gesture
  <2>1. c.gesture <= gestures + 1
    BY <1>2, <1>3
  <2> QED
    BY <1>2, <1>5, <1>6, <1>7, <1>8, <2>1 DEF Followed
<1>11. \A k, j \in DOMAIN commands' : commands'[j].gesture = commands'[k].gesture => j = k
  BY <1>5, <1>8 DEF Followed
<1>12. /\ \A x \in handled' : x.gesture <= gestures'
       /\ \A i \in inputMessages' : i.gesture <= gestures'
  BY <1>2, <1>6, <1>7
<1> QED
  BY <1>2, <1>9, <1>10, <1>11, <1>12 DEF Followed

\* Every tracked input and every retry has its one answer under way, and the
\* retry of a stale rejection follows it.
LEMMA FollowedStep ==
  ASSUME TypeOK, Followed, [Next]_vars
  PROVE  Followed'
<1>0. /\ ValueTypes /\ TrackedBounded /\ commands \in Seq(CommandType)
      /\ inbox \in Seq(InputType) /\ outbox \in Seq(OutputType) /\ nextMessageId \in Nat
  BY Typed DEF TypeOK
<1>1. CASE Gesture
  BY <1>1, GestureFollowed
<1>2. CASE ProcessGesture
  <2> DEFINE c == Head(commands)
             input == Input(c.gesture, c.wait, activeWait, KindOf[activeWait], 0)
             h == Handling(c.gesture, c.wait, activeWait)
  <2>1. commands # <<>> /\ commands' = Tail(commands) /\ UNCHANGED gestures
    BY <1>2 DEF ProcessGesture, app
  <2>2. c \in CommandType
    BY <1>0, <2>1, TailAt
  <2>3. \/ UNCHANGED <<inputMessages, handled>>
        \/ activeWait # NoWait /\ SubmitInput(input, inputMessages)
    BY <1>2 DEF ProcessGesture, Accepted
  <2>4. ASSUME activeWait # NoWait, SubmitInput(input, inputMessages) PROVE Followed'
    <3>1. input \in InputType /\ h \in HandledType
      BY <1>0, <2>2, <2>4, InputTyped, Typed DEF HandledType, Handling, CommandType
    <3>2. input.gesture = c.gesture /\ input.madeFor = c.wait /\ input.wait = activeWait
      BY DEF Input
    <3>3. h.gesture = c.gesture /\ h = Handling(input.gesture, input.madeFor, input.wait)
      BY <3>2 DEF Handling
    <3> HIDE DEF input, h
    <3>4. inputMessages' \subseteq inputMessages \cup {input} /\ handled' = handled \cup {h}
      BY <1>0, <2>4, <3>1, <3>3, Submitted
    <3>5. \A i \in inputMessages : i.gesture # c.gesture
      BY <2>1, CommandsTail
    <3>6. \A i \in inputMessages' : i \in inputMessages \/ i.gesture = h.gesture
      BY <3>2, <3>3, <3>4
    <3>7. \A i, j \in inputMessages' : i.gesture = h.gesture /\ j.gesture = h.gesture => i = j
      BY <3>3, <3>4, <3>5
    <3> QED
      BY <2>1, <3>1, <3>3, <3>4, <3>6, <3>7, HandleFollowed
  <2> QED
    BY <2>1, <2>3, <2>4, QuietFollowed
<1>3. CASE FailGesture
  <2> DEFINE c == Head(commands)
             h == Handling(c.gesture, c.wait, activeWait)
  <2>1. commands # <<>> /\ commands' = Tail(commands) /\ UNCHANGED <<gestures, inputMessages>>
        /\ handled' = handled \cup {h}
    BY <1>3 DEF FailGesture, app, client
  <2>2. c \in CommandType
    BY <1>0, <2>1, TailAt
  <2>3. h \in HandledType /\ h.gesture = c.gesture
    BY <1>0, <2>2 DEF HandledType, Handling, CommandType, ValueTypes
  <2>4. \A i \in inputMessages : i.gesture # c.gesture
    BY <2>1, CommandsTail
  <2> HIDE DEF h
  <2> QED
    BY <2>1, <2>3, <2>4, HandleFollowed
<1>4. CASE HandleOutput
  <2>1. UNCHANGED <<gestures, commands>>
    BY <1>4 DEF HandleOutput, app
  <2>2. \/ UNCHANGED handled /\ inputMessages' \subseteq inputMessages
        \/ \E i \in inputMessages :
             /\ Carries(i)
             /\ SubmitInput(Input(i.gesture, i.madeFor, activeWait, i.kind, 1), inputMessages \ {i})
    BY <1>4, RejectionSteps DEF HandleOutput, HandleWait, HandlePause
  <2>3. ASSUME NEW i \in inputMessages, Carries(i),
               SubmitInput(Input(i.gesture, i.madeFor, activeWait, i.kind, 1), inputMessages \ {i})
        PROVE  Followed'
    <3> DEFINE input == Input(i.gesture, i.madeFor, activeWait, i.kind, 1)
               h == Handling(i.gesture, i.madeFor, activeWait)
    <3>1. i \in InputType /\ activeWait \in Waits /\ i.retries = 0
      BY <1>0, <2>3, Typed DEF Carries
    <3>2. input \in InputType /\ h \in HandledType
      BY <1>0, <3>1 DEF Input, InputType, Handling, HandledType
    <3>3. /\ input.gesture = i.gesture /\ input.madeFor = i.madeFor /\ input.wait = activeWait
          /\ input.retries = 1
      BY DEF Input
    <3>4. h.gesture = i.gesture /\ h = Handling(input.gesture, input.madeFor, input.wait)
      BY <3>3 DEF Handling
    <3>5. SubmitInput(input, inputMessages \ {i})
      BY <2>3
    <3> HIDE DEF input, h
    <3>6. inputMessages' \subseteq (inputMessages \ {i}) \cup {input} /\ handled' = handled \cup {h}
      BY <1>0, <3>2, <3>4, <3>5, Submitted
    <3> QED
      BY <2>1, <3>1, <3>2, <3>3, <3>4, <3>6, RetryFollowed
  <2> QED
    BY <2>1, <2>2, <2>3, QuietFollowed
<1>5. CASE ProcessUndo \/ HandleEvent \/ BeginDrive \/ EndDrive \/ FlushPresentation \/ Runtime
           \/ UNCHANGED vars
  <2>1. /\ UNCHANGED <<gestures, handled, inputMessages>>
        /\ commands' = commands \/ (commands # <<>> /\ commands' = Tail(commands))
    BY <1>5 DEF ProcessUndo, HandleEvent, BeginDrive, EndDrive, FlushPresentation, Runtime, RtOpen,
                RtExpire, RtTake, RtPause, vars, app, client
  <2> QED
    BY <2>1, QuietFollowed
<1> QED
  BY <1>1, <1>2, <1>3, <1>4, <1>5 DEF Next, App, Worker, Pump

\* Nothing is submitted or tracked at the start.
LEMMA InitFollowed == Init => Numbered /\ Followed
<1> SUFFICES ASSUME Init PROVE Numbered /\ Followed
  OBVIOUS
<1>1. /\ commands = <<>> /\ inbox = <<>> /\ outbox = <<>> /\ inputMessages = {} /\ handled = {}
  BY DEF Init
<1>2. DOMAIN commands = {} /\ Range(inbox) = {} /\ Range(outbox) = {}
  BY <1>1 DEF Range
<1>3. Numbered
  BY <1>1, <1>2 DEF Numbered
<1>4. \A g : HandledFor(g) = {}
  BY <1>1 DEF HandledFor
<1>5. Followed
  BY <1>1, <1>2, <1>4 DEF Followed, Pair
<1> QED
  BY <1>3, <1>5

\* At most two waits are handled for a gesture that was handled for a pair.
LEMMA PairCount ==
  ASSUME NEW S, Pair(S)
  PROVE  Cardinality(S) <= 2
<1>1. PICK x, y : S \subseteq {x, y}
  BY DEF Pair
<1>2. IsFiniteSet({x, y}) /\ Cardinality({x, y}) \in Nat /\ Cardinality({x, y}) <= 2
  <2>1. IsFiniteSet({x}) /\ Cardinality({x}) = 1
    BY FS_Singleton
  <2>2. /\ IsFiniteSet({x} \cup {y})
        /\ Cardinality({x} \cup {y}) = IF y \in {x} THEN Cardinality({x}) ELSE Cardinality({x}) + 1
    BY <2>1, FS_AddElement
  <2>3. {x} \cup {y} = {x, y}
    OBVIOUS
  <2> QED
    BY <2>1, <2>2, <2>3
<1>3. IsFiniteSet(S) /\ Cardinality(S) <= Cardinality({x, y})
  BY <1>1, <1>2, FS_Subset
<1>4. Cardinality(S) \in Nat
  BY <1>3, FS_CardinalityType
<1> QED
  BY <1>2, <1>3, <1>4

\* A gesture is submitted to two waits at most, and what the runtime is sent is
\* of the kind of the wait it names (_retry_stale_input): for any number of waits
\* and gestures, whatever the worker forgets.
THEOREM Disciplined == Spec => []RetryDisciplined
<1> DEFINE Inv == TypeOK /\ Numbered /\ Followed
<1>1. Init => Inv
  BY InitTypes, InitFollowed
<1>2. Inv /\ [Next]_vars => Inv'
  BY TypesStep, NumberedStep, FollowedStep
<1>3. Inv => RetryDisciplined
  <2> SUFFICES ASSUME Inv PROVE RetryDisciplined
    OBVIOUS
  <2>1. \A k \in DOMAIN inbox : inbox[k].kind = "undo" \/ inbox[k].kind = KindOf[inbox[k].wait]
    BY DEF Numbered, Range
  <2>2. \A g \in 1..MaxGestures : Cardinality({h \in handled : h.gesture = g}) <= 2
    BY PairCount DEF Followed, HandledFor
  <2> QED
    BY <2>1, <2>2 DEF RetryDisciplined
<1> QED
  BY <1>1, <1>2, <1>3, PTL DEF Spec
-----------------------------------------------------------------------------
(* The order of the waits *)

\* Messages that announce a wait; announcements in the order of their waits.
IsWait(m) == m.kind = "wait" /\ m.wait # NoWait
Increasing(q) ==
  \A j, k \in DOMAIN q : j < k /\ IsWait(q[j]) /\ IsWait(q[k]) => q[j].wait < q[k].wait

\* The client knows of no wait before this one, nor will be told of it again; nor
\* will the app once the client's change was published, and once it was shown.
Behind(wait) ==
  /\ activeWait = NoWait \/ wait <= activeWait
  /\ \A m \in Range(outbox) : IsWait(m) => wait < m.wait
  /\ wait <= opened
Told(wait) == Behind(wait) /\ (dirty => activeWait # wait)
Ahead(wait) == Told(wait) /\ \A m \in Range(events) : IsWait(m) => wait < m.wait

Ordered ==
  /\ activeWait # NoWait => Behind(activeWait)
  /\ uiWait # NoWait => Ahead(uiWait)
  /\ Increasing(events) /\ \A m \in Range(events) : IsWait(m) => Told(m.wait)
  /\ Increasing(outbox) /\ \A m \in Range(outbox) : IsWait(m) => m.wait <= opened
  /\ \A c \in Range(commands) : Ahead(c.wait)
  /\ \A i \in inputMessages : i.madeFor <= i.wait /\ Behind(i.wait)

\* Queues of waits stay in order.
LEMMA IncreasingAppend ==
  ASSUME NEW S, NEW q \in Seq(S), NEW x \in S, Increasing(q),
         IsWait(x) => \A m \in Range(q) : IsWait(m) => m.wait < x.wait
  PROVE  Increasing(Append(q, x))
<1> DEFINE p == Append(q, x)
<1>1. /\ Len(q) \in Nat /\ DOMAIN q = 1..Len(q) /\ DOMAIN p = 1..(Len(q) + 1)
      /\ \A i \in 1..Len(q) : p[i] = q[i]
      /\ p[Len(q) + 1] = x
  BY AppendAt
<1> HIDE DEF p
<1>2. ASSUME NEW j \in DOMAIN p, NEW k \in DOMAIN p, j < k, IsWait(p[j]), IsWait(p[k])
      PROVE  p[j].wait < p[k].wait
  <2>1. j \in DOMAIN q /\ p[j] = q[j]
    BY <1>1, <1>2
  <2>2. CASE k = Len(q) + 1
    <3>1. p[k] = x /\ q[j] \in Range(q)
      BY <1>1, <2>1, <2>2 DEF Range
    <3> QED
      BY <1>2, <2>1, <3>1
  <2>3. CASE k # Len(q) + 1
    <3>1. k \in DOMAIN q /\ p[k] = q[k]
      BY <1>1, <2>3
    <3> QED
      BY <1>2, <2>1, <3>1 DEF Increasing
  <2> QED
    BY <2>2, <2>3
<1> QED
  BY <1>2 DEF Increasing, p

\* A queue of increasing waits stays one, and its head is older than the rest.
LEMMA IncreasingTail ==
  ASSUME NEW S, NEW q \in Seq(S), q # <<>>, Increasing(q)
  PROVE  /\ Increasing(Tail(q))
         /\ IsWait(Head(q)) => \A m \in Range(Tail(q)) : IsWait(m) => Head(q).wait < m.wait
<1> DEFINE p == Tail(q)
<1>1. /\ Head(q) = q[1] /\ Len(q) \in Nat \ {0} /\ 1 \in DOMAIN q
      /\ DOMAIN q = 1..Len(q) /\ DOMAIN p = 1..(Len(q) - 1)
      /\ \A i \in 1..(Len(q) - 1) : p[i] = q[i + 1]
  BY TailAt
<1> HIDE DEF p
<1>2. \A i \in DOMAIN p : i \in Nat \ {0} /\ i + 1 \in DOMAIN q /\ p[i] = q[i + 1]
  BY <1>1
<1>3. \A j, k \in DOMAIN p : j < k => j + 1 < k + 1
  BY <1>2
<1>4. Increasing(p)
  BY <1>2, <1>3 DEF Increasing
<1>5. \A i \in DOMAIN p : 1 < i + 1
  BY <1>2
<1>6. ASSUME IsWait(Head(q)), NEW m \in Range(p), IsWait(m) PROVE Head(q).wait < m.wait
  <2>1. PICK i \in DOMAIN p : m = p[i]
    BY DEF Range
  <2> QED
    BY <1>1, <1>2, <1>5, <1>6, <2>1 DEF Increasing
<1> QED
  BY <1>4, <1>6 DEF p

\* What a step does to the waits the client knows and is told of.
LEMMA OutboxSteps ==
  ASSUME TypeOK, [Next]_vars
  PROVE  \/ UNCHANGED <<outbox, opened, activeWait>>
         \/ /\ outbox # <<>> /\ outbox' = Tail(outbox) /\ opened' = opened
            /\ \/ activeWait' = activeWait
               \/ Head(outbox).kind = "wait" /\ activeWait' = Head(outbox).wait
         \/ \E m \in OutputType :
              /\ outbox' = Append(outbox, m) /\ activeWait' = activeWait
              /\ \/ ~IsWait(m) /\ opened' = opened
                 \/ m.wait = opened + 1 /\ opened' = opened + 1
<1>1. CASE HandleOutput
  <2>1. outbox # <<>> /\ outbox' = Tail(outbox) /\ opened' = opened
    BY <1>1 DEF HandleOutput, runtime
  <2>2. \/ activeWait' = activeWait
        \/ Head(outbox).kind = "wait" /\ activeWait' = Head(outbox).wait
    BY <1>1, RejectionSteps DEF HandleOutput, HandleWait, HandlePause
  <2> QED
    BY <2>1, <2>2
<1>2. CASE RtOpen \/ RtExpire \/ RtPause
  <2>1. /\ activeWait' = activeWait
        /\ opened' = opened \/ opened' = opened + 1
        /\ RtOpen => opened' = opened + 1
        /\ ~RtOpen => opened' = opened
    BY <1>2 DEF RtOpen, RtExpire, RtPause, client
  <2>2. PICK m \in OutputType :
          /\ outbox' = Append(outbox, m)
          /\ m.kind = "wait" /\ m.wait # NoWait => RtOpen /\ m.wait = opened + 1
    BY <1>2, OutputShape
  <2>3. CASE RtOpen
    <3>1. outbox' = Append(outbox, Output("wait", opened + 1, 0, FALSE))
      BY <2>3 DEF RtOpen
    <3>2. Output("wait", opened + 1, 0, FALSE) \in OutputType
      BY <2>3 DEF RtOpen, Output, OutputType
    <3>3. Output("wait", opened + 1, 0, FALSE).wait = opened + 1
      BY DEF Output
    <3> QED
      BY <2>1, <2>3, <3>1, <3>2, <3>3
  <2>4. CASE ~RtOpen
    BY <2>1, <2>2, <2>4 DEF IsWait
  <2> QED
    BY <2>3, <2>4
<1>3. CASE RtTake
  <2>1. UNCHANGED <<activeWait, opened>>
    BY <1>3 DEF RtTake, client
  <2>2. PICK m \in OutputType :
          outbox' = Append(outbox, m) /\ (m.kind = "reject" \/ m.wait = NoWait)
    BY <1>3, TakeShape
  <2>3. ~IsWait(m)
    BY <2>2 DEF IsWait
  <2> QED
    BY <2>1, <2>2, <2>3
<1>4. CASE Gesture \/ HandleEvent \/ ProcessGesture \/ ProcessUndo \/ FailGesture \/ BeginDrive
           \/ EndDrive \/ FlushPresentation \/ UNCHANGED vars
  BY <1>4 DEF Gesture, HandleEvent, ProcessGesture, ProcessUndo, FailGesture, BeginDrive, EndDrive,
              FlushPresentation, vars, client, runtime
<1> QED
  BY <1>1, <1>2, <1>3, <1>4 DEF Next, App, Worker, Pump, Runtime

\* What a step does to the waits the app is told of.
LEMMA EventSteps ==
  ASSUME TypeOK, [Next]_vars
  PROVE  /\ dirty' => dirty \/ activeWait' # activeWait
         /\ \/ events' = events
            \/ events # <<>> /\ events' = Tail(events)
            \/ \E e \in EventType :
                 /\ events' = Append(events, e)
                 /\ IsWait(e) => dirty /\ e.wait = activeWait /\ activeWait' = activeWait /\ ~dirty'
<1>0. ValueTypes
  BY DEF TypeOK
<1>1. CASE HandleOutput
  <2> DEFINE m == Head(outbox)
  <2>1. \/ HandleWait(m.wait) \/ HandlePause(m.flag) \/ HandleRejection(m.id, m.flag)
    BY <1>1 DEF HandleOutput
  <2> HIDE DEF m
  <2>2. CASE HandleWait(m.wait)
    BY <2>2 DEF HandleWait
  <2>3. CASE HandlePause(m.flag)
    <3> DEFINE e == [kind |-> IF m.flag THEN "paused" ELSE "resumed", wait |-> NoWait]
    <3>1. events' = Append(events, e) /\ dirty' = dirty
      BY <2>3 DEF HandlePause
    <3>2. e \in EventType /\ ~IsWait(e)
      BY DEF EventType, IsWait
    <3> HIDE DEF e
    <3> QED
      BY <3>1, <3>2
  <2>4. CASE HandleRejection(m.id, m.flag)
    <3>1. dirty' = dirty /\ (events' = events \/ \E i \in inputMessages : events' = Append(events, Rejected(i.wait)))
      BY <2>4, RejectionSteps
    <3>2. \A i \in inputMessages : Rejected(i.wait) \in EventType /\ ~IsWait(Rejected(i.wait))
      BY <1>0, Typed DEF Rejected, EventType, InputType, IsWait
    <3> QED
      BY <3>1, <3>2
  <2> QED
    BY <2>1, <2>2, <2>3, <2>4
<1>2. CASE FailGesture
  <2>1. dirty' = dirty /\ (events' = events \/ events' = Append(events, Rejected(activeWait)))
    BY <1>2 DEF FailGesture, ReportsRejection, client
  <2>2. Rejected(activeWait) \in EventType /\ ~IsWait(Rejected(activeWait))
    BY <1>0 DEF ValueTypes, Rejected, EventType, IsWait
  <2> QED
    BY <2>1, <2>2
<1>3. CASE FlushPresentation
  <2>1. dirty' = FALSE /\ activeWait' = activeWait
        /\ events' = IF dirty THEN Append(events, WaitEvent(activeWait)) ELSE events
    BY <1>3 DEF FlushPresentation
  <2>2. WaitEvent(activeWait) \in EventType /\ WaitEvent(activeWait).wait = activeWait
    BY <1>0 DEF ValueTypes, WaitEvent, EventType
  <2> QED
    BY <2>1, <2>2
<1>4. CASE HandleEvent
  BY <1>4 DEF HandleEvent, client
<1>5. CASE Gesture \/ ProcessGesture \/ ProcessUndo \/ BeginDrive \/ EndDrive \/ Runtime
           \/ UNCHANGED vars
  <2>1. UNCHANGED <<events, dirty>>
    BY <1>5 DEF Gesture, ProcessGesture, ProcessUndo, BeginDrive, EndDrive, Runtime, RtOpen, RtExpire,
                RtTake, RtPause, vars, client
  <2> QED
    BY <2>1
<1> QED
  BY <1>1, <1>2, <1>3, <1>4, <1>5 DEF Next, App, Worker, Pump

\* A wait the client is past stays so.
LEMMA BehindStays ==
  ASSUME TypeOK, [Next]_vars, NEW wait \in Nat, Behind(wait)
  PROVE  Behind(wait)' /\ (activeWait' # activeWait /\ activeWait' # NoWait => wait < activeWait')
<1>1. /\ outbox \in Seq(OutputType) /\ opened \in Nat /\ activeWait \in Nat
      /\ Range(outbox) \subseteq OutputType /\ Waits \subseteq Nat
  BY Typed, RangeTyped DEF TypeOK
<1>2. CASE UNCHANGED <<outbox, opened, activeWait>>
  BY <1>2 DEF Behind
<1>3. CASE /\ outbox # <<>> /\ outbox' = Tail(outbox) /\ opened' = opened
           /\ \/ activeWait' = activeWait
              \/ Head(outbox).kind = "wait" /\ activeWait' = Head(outbox).wait
  <2>1. Range(outbox') \subseteq Range(outbox) /\ Head(outbox) \in Range(outbox)
    BY <1>1, <1>3, RangeTail
  <2>2. Head(outbox).wait \in Nat
    <3>1. Head(outbox) \in OutputType
      BY <1>1, <2>1
    <3>2. Head(outbox).wait \in Waits \cup {NoWait}
      BY <3>1 DEF OutputType
    <3> QED
      BY <3>2, WaitNat
  <2>3. CASE activeWait' = activeWait
    BY <1>3, <2>1, <2>3 DEF Behind
  <2>4. CASE activeWait' # activeWait /\ Head(outbox).kind = "wait" /\ activeWait' = Head(outbox).wait
    <3>1. activeWait' = NoWait \/ wait < activeWait'
      BY <2>1, <2>4 DEF Behind, IsWait
    <3>2. activeWait' = NoWait \/ wait <= activeWait'
      BY <2>2, <2>4, <3>1
    <3> QED
      BY <1>3, <2>1, <3>1, <3>2 DEF Behind
  <2> QED
    BY <1>3, <2>3, <2>4
<1>4. ASSUME NEW m \in OutputType, outbox' = Append(outbox, m), activeWait' = activeWait,
             \/ ~IsWait(m) /\ opened' = opened
             \/ m.wait = opened + 1 /\ opened' = opened + 1
      PROVE  Behind(wait)'
  <2>1. Range(outbox') = Range(outbox) \cup {m}
    BY <1>1, <1>4, RangeAppend
  <2>2. wait <= opened' /\ (IsWait(m) => wait < m.wait)
    BY <1>1, <1>4 DEF Behind
  <2> QED
    BY <1>4, <2>1, <2>2 DEF Behind
<1> QED
  BY <1>2, <1>3, <1>4, OutboxSteps

\* So does one whose change was published, and one that was shown.
LEMMA AheadStays ==
  ASSUME TypeOK, [Next]_vars, NEW wait \in Waits
  PROVE  (Told(wait) => Told(wait)') /\ (Ahead(wait) => Ahead(wait)')
<1>1. /\ events \in Seq(EventType) /\ activeWait \in Nat /\ wait \in Nat \ {0}
      /\ Range(events) \subseteq EventType
  BY Typed, RangeTyped DEF TypeOK
<1>2. ASSUME Told(wait) PROVE Told(wait)'
  <2>1. Behind(wait)' /\ (activeWait' # activeWait /\ activeWait' # NoWait => wait < activeWait')
    BY <1>1, <1>2, BehindStays DEF Told
  <2>2. activeWait' \in Nat
    <3>1. TypeOK'
      BY TypesStep
    <3>2. activeWait' \in Waits \cup {NoWait}
      BY <3>1 DEF TypeOK, ValueTypes
    <3> QED
      BY <3>2, InputAssumption DEF NoWait
  <2>3. activeWait' # activeWait => activeWait' # wait
    BY <1>1, <2>1, <2>2 DEF NoWait
  <2> QED
    BY <1>2, <2>1, <2>3, EventSteps DEF Told
<1>3. ASSUME Ahead(wait) PROVE Ahead(wait)'
  <2>1. Told(wait)'
    BY <1>2, <1>3 DEF Ahead
  <2>2. CASE events' = events
    BY <1>3, <2>1, <2>2 DEF Ahead
  <2>3. CASE events # <<>> /\ events' = Tail(events)
    <3>1. Range(events') \subseteq Range(events)
      BY <1>1, <2>3, RangeTail
    <3> QED
      BY <1>3, <2>1, <3>1 DEF Ahead
  <2>4. ASSUME NEW e \in EventType, events' = Append(events, e),
               IsWait(e) => dirty /\ e.wait = activeWait
        PROVE  Ahead(wait)'
    <3>1. Range(events') = Range(events) \cup {e}
      BY <1>1, <2>4, RangeAppend
    <3>2. IsWait(e) => wait < e.wait
      <4>1. SUFFICES ASSUME IsWait(e) PROVE wait < e.wait
        OBVIOUS
      <4>2. e.wait = activeWait /\ activeWait # NoWait /\ activeWait # wait
        BY <1>3, <2>4, <4>1 DEF Ahead, Told, IsWait
      <4> QED
        BY <1>1, <1>3, <4>2 DEF Ahead, Told, Behind
    <3> QED
      BY <1>3, <2>1, <3>1, <3>2 DEF Ahead
  <2> QED
    BY <2>2, <2>3, <2>4, EventSteps
<1> QED
  BY <1>2, <1>3

\* The wait the client shows is older than every wait still on its way to it.
LEMMA OrderedClient ==
  ASSUME TypeOK, Ordered, [Next]_vars
  PROVE  activeWait' # NoWait => Behind(activeWait)'
<1> SUFFICES ASSUME activeWait' # NoWait PROVE Behind(activeWait)'
  OBVIOUS
<1>1. /\ outbox \in Seq(OutputType) /\ activeWait \in Nat
      /\ Range(outbox) \subseteq OutputType /\ Waits \subseteq Nat
  BY Typed, RangeTyped DEF TypeOK
<1>2. CASE activeWait' = activeWait
  <2>1. Behind(activeWait) /\ activeWait # NoWait
    BY <1>2 DEF Ordered
  <2> PICK wait : wait = activeWait
    OBVIOUS
  <2>2. wait \in Nat /\ Behind(wait)
    BY <1>1, <2>1
  <2>3. /\ activeWait' = NoWait \/ wait <= activeWait'
        /\ \A m \in Range(outbox') : IsWait(m) => wait < m.wait
        /\ wait <= opened'
    BY <2>2, BehindStays DEF Behind
  <2> QED
    BY <1>2, <2>3 DEF Behind
<1>3. CASE activeWait' # activeWait
  <2>1. /\ outbox # <<>> /\ outbox' = Tail(outbox) /\ opened' = opened
        /\ Head(outbox).kind = "wait" /\ activeWait' = Head(outbox).wait
    BY <1>3, OutboxSteps
  <2>2. IsWait(Head(outbox)) /\ Head(outbox) \in Range(outbox)
    BY <1>1, <2>1, RangeTail DEF IsWait
  <2>3. \A m \in Range(outbox') : IsWait(m) => activeWait' < m.wait
    BY <1>1, <2>1, <2>2, IncreasingTail DEF Ordered
  <2>4. activeWait' <= opened'
    BY <2>1, <2>2 DEF Ordered
  <2>5. activeWait' \in Nat
    <3>1. Head(outbox) \in OutputType
      BY <1>1, <2>2
    <3>2. Head(outbox).wait \in Waits \cup {NoWait}
      BY <3>1 DEF OutputType
    <3> QED
      BY <1>1, <2>1, <3>2 DEF NoWait
  <2> QED
    BY <2>3, <2>4, <2>5 DEF Behind
<1> QED
  BY <1>2, <1>3

\* What the app shows next, the first of the events announced.
LEMMA OrderedApp ==
  ASSUME TypeOK, Ordered, [Next]_vars
  PROVE  uiWait' # NoWait => Ahead(uiWait)'
<1> SUFFICES ASSUME uiWait' # NoWait PROVE Ahead(uiWait)'
  OBVIOUS
<1>1. events \in Seq(EventType) /\ Range(events) \subseteq EventType
  BY Typed, RangeTyped DEF TypeOK
<1> DEFINE wait == uiWait'
<1>2. wait \in Waits
  <2>1. TypeOK'
    BY TypesStep
  <2> QED
    BY <2>1 DEF TypeOK, ValueTypes
<1>3. \/ uiWait' = uiWait
      \/ /\ events # <<>> /\ events' = Tail(events) /\ UNCHANGED <<activeWait, outbox, opened, dirty>>
         /\ Head(events).kind = "wait" /\ uiWait' = Head(events).wait
  BY DEF Next, App, Worker, Pump, Runtime, Gesture, HandleEvent, ShowWait, ProcessGesture, ProcessUndo,
         FailGesture, BeginDrive, EndDrive, HandleOutput, FlushPresentation, RtOpen, RtExpire, RtTake,
         RtPause, vars, app, client, runtime
<1>4. CASE uiWait' = uiWait
  <2>1. Ahead(uiWait)
    BY <1>4 DEF Ordered
  <2> PICK w : w = uiWait
    OBVIOUS
  <2>2. w \in Waits /\ Ahead(w)
    BY <1>2, <1>4, <2>1
  <2>3. Ahead(w)'
    BY <2>2, AheadStays
  <2> QED
    BY <1>4, <2>3 DEF Ahead, Told, Behind
<1>5. CASE /\ events # <<>> /\ events' = Tail(events) /\ UNCHANGED <<activeWait, outbox, opened, dirty>>
           /\ Head(events).kind = "wait" /\ uiWait' = Head(events).wait
  <2>1. IsWait(Head(events)) /\ Head(events) \in Range(events)
    BY <1>1, <1>5, RangeTail DEF IsWait
  <2>2. Told(Head(events).wait)
    BY <2>1 DEF Ordered
  <2>3. \A m \in Range(events') : IsWait(m) => Head(events).wait < m.wait
    BY <1>1, <1>5, <2>1, IncreasingTail DEF Ordered
  <2> QED
    BY <1>5, <2>2, <2>3 DEF Ahead, Told, Behind
<1> QED
  BY <1>3, <1>4, <1>5

\* The app gets the waits in the order the client was told of them.
LEMMA OrderedEvents ==
  ASSUME TypeOK, Ordered, [Next]_vars
  PROVE  Increasing(events') /\ \A m \in Range(events') : IsWait(m) => Told(m.wait)'
<1>1. events \in Seq(EventType) /\ Range(events) \subseteq EventType /\ activeWait \in Nat
  BY Typed, RangeTyped DEF TypeOK
<1>2. \A m \in EventType : IsWait(m) => m.wait \in Waits
  BY DEF EventType, IsWait
<1>3. \A m \in Range(events) : IsWait(m) => Told(m.wait)'
  <2> SUFFICES ASSUME NEW m \in Range(events), IsWait(m) PROVE Told(m.wait)'
    OBVIOUS
  <2> DEFINE w == m.wait
  <2>1. w \in Waits /\ Told(w)
    BY <1>1, <1>2 DEF Ordered
  <2> HIDE DEF w
  <2>2. Told(w)'
    BY <2>1, AheadStays
  <2> QED
    BY <2>2 DEF w
<1>4. CASE events' = events
  BY <1>3, <1>4 DEF Ordered
<1>5. CASE events # <<>> /\ events' = Tail(events)
  <2>1. Range(events') \subseteq Range(events) /\ Increasing(events')
    BY <1>1, <1>5, RangeTail, IncreasingTail DEF Ordered
  <2> QED
    BY <1>3, <2>1
<1>6. ASSUME NEW e \in EventType, events' = Append(events, e),
             IsWait(e) => dirty /\ e.wait = activeWait /\ activeWait' = activeWait /\ ~dirty'
      PROVE  Increasing(events') /\ \A m \in Range(events') : IsWait(m) => Told(m.wait)'
  <2>1. Range(events') = Range(events) \cup {e}
    BY <1>1, <1>6, RangeAppend
  <2>2. ASSUME IsWait(e), NEW m \in Range(events), IsWait(m) PROVE m.wait < e.wait
    <3>1. Told(m.wait) /\ m.wait \in Nat /\ dirty /\ e.wait = activeWait /\ activeWait # NoWait
      BY <1>1, <1>2, <1>6, <2>2, InputAssumption DEF Ordered, IsWait
    <3> QED
      BY <1>1, <3>1 DEF Told, Behind
  <2>3. Increasing(events')
    BY <1>1, <1>6, <2>2, IncreasingAppend DEF Ordered
  <2>4. IsWait(e) => Told(e.wait)'
    <3> SUFFICES ASSUME IsWait(e) PROVE Told(e.wait)'
      OBVIOUS
    <3>1. e.wait = activeWait' /\ activeWait' # NoWait /\ ~dirty'
      BY <1>6 DEF IsWait
    <3>2. Behind(activeWait)'
      BY <3>1, OrderedClient
    <3> QED
      BY <3>1, <3>2 DEF Told, Behind
  <2> QED
    BY <1>3, <2>1, <2>3, <2>4
<1> QED
  BY <1>4, <1>5, <1>6, EventSteps

\* The client gets the waits in the order the runtime opened them.
LEMMA OrderedOutbox ==
  ASSUME TypeOK, Ordered, [Next]_vars
  PROVE  Increasing(outbox') /\ \A m \in Range(outbox') : IsWait(m) => m.wait <= opened'
<1>1. outbox \in Seq(OutputType) /\ Range(outbox) \subseteq OutputType /\ opened \in Nat
  BY Typed, RangeTyped DEF TypeOK
<1>2. CASE UNCHANGED <<outbox, opened>>
  BY <1>2 DEF Ordered
<1>3. CASE outbox # <<>> /\ outbox' = Tail(outbox) /\ opened' = opened
  <2>1. Range(outbox') \subseteq Range(outbox) /\ Increasing(outbox')
    BY <1>1, <1>3, RangeTail, IncreasingTail DEF Ordered
  <2> QED
    BY <1>3, <2>1 DEF Ordered
<1>4. ASSUME NEW m \in OutputType, outbox' = Append(outbox, m),
             \/ ~IsWait(m) /\ opened' = opened
             \/ m.wait = opened + 1 /\ opened' = opened + 1
      PROVE  Increasing(outbox') /\ \A n \in Range(outbox') : IsWait(n) => n.wait <= opened'
  <2>1. Range(outbox') = Range(outbox) \cup {m}
    BY <1>1, <1>4, RangeAppend
  <2>2. \A n \in Range(outbox) : IsWait(n) => n.wait \in Nat /\ n.wait <= opened
    <3>1. \A n \in Range(outbox) : n.wait \in Waits \cup {NoWait}
      BY <1>1 DEF OutputType
    <3>2. \A n \in Range(outbox) : n.wait \in Nat
      BY <3>1, WaitNat
    <3> QED
      BY <3>2 DEF Ordered
  <2>3. \A n \in Range(outbox) : IsWait(m) /\ IsWait(n) => n.wait < m.wait
    BY <1>1, <1>4, <2>2
  <2>4. Increasing(outbox')
    BY <1>1, <1>4, <2>3, IncreasingAppend DEF Ordered
  <2>5. \A n \in Range(outbox) : IsWait(n) => n.wait <= opened'
    BY <1>1, <1>4, <2>2
  <2>6. IsWait(m) => m.wait <= opened'
    BY <1>1, <1>4
  <2> QED
    BY <2>1, <2>4, <2>5, <2>6
<1> QED
  BY <1>2, <1>3, <1>4, OutboxSteps

\* A gesture names a wait the app has already been shown.
LEMMA OrderedCommands ==
  ASSUME TypeOK, Ordered, [Next]_vars
  PROVE  \A c \in Range(commands') : Ahead(c.wait)'
<1>1. /\ commands \in Seq(CommandType) /\ Range(commands) \subseteq CommandType
  BY Typed, RangeTyped DEF TypeOK
<1>2. \A c \in Range(commands) : Ahead(c.wait)'
  <2> SUFFICES ASSUME NEW c \in Range(commands) PROVE Ahead(c.wait)'
    OBVIOUS
  <2> DEFINE w == c.wait
  <2>1. w \in Waits /\ Ahead(w)
    BY <1>1 DEF Ordered, CommandType
  <2> HIDE DEF w
  <2>2. Ahead(w)'
    BY <2>1, AheadStays
  <2> QED
    BY <2>2 DEF w
<1>3. CASE Gesture
  <2>1. PICK kind \in Gestures :
          commands' = Append(commands, [kind |-> kind, gesture |-> gestures + 1, wait |-> uiWait])
    BY <1>3 DEF Gesture
  <2> PICK c : c = [kind |-> kind, gesture |-> gestures + 1, wait |-> uiWait]
    OBVIOUS
  <2>2. /\ gestures + 1 \in 1..MaxGestures /\ uiWait \in Waits
        /\ UNCHANGED <<uiWait, activeWait, outbox, opened, dirty, events>>
    BY <1>3, InputAssumption, Typed DEF Gesture, client, runtime, TypeOK, ValueTypes
  <2>3. c \in CommandType /\ c.wait = uiWait
    BY <2>2 DEF CommandType
  <2>4. Range(commands') = Range(commands) \cup {c}
    BY <1>1, <2>1, <2>3, RangeAppend
  <2>5. Ahead(uiWait)'
    <3>1. uiWait' # NoWait
      BY <2>2, InputAssumption DEF NoWait
    <3> QED
      BY <3>1, OrderedApp
  <2>6. Ahead(c.wait)'
    BY <2>2, <2>3, <2>5 DEF Ahead, Told, Behind
  <2> QED
    BY <1>2, <2>4, <2>6
<1>4. CASE commands' = commands \/ (commands # <<>> /\ commands' = Tail(commands))
  <2>1. Range(commands') \subseteq Range(commands)
    BY <1>1, <1>4, RangeTail
  <2> QED
    BY <1>2, <2>1
<1>5. Gesture \/ commands' = commands \/ (commands # <<>> /\ commands' = Tail(commands))
  BY DEF Next, App, Worker, Pump, Runtime, HandleEvent, ProcessGesture, ProcessUndo,
         FailGesture, BeginDrive, EndDrive, HandleOutput, FlushPresentation, RtOpen, RtExpire, RtTake,
         RtPause, vars
<1> QED
  BY <1>3, <1>4, <1>5

\* What is remembered was sent to the wait the client knew, which no gesture
\* precedes.
LEMMA OrderedTracked ==
  ASSUME TypeOK, Ordered, [Next]_vars
  PROVE  \A i \in inputMessages' : i.madeFor <= i.wait /\ Behind(i.wait)'
<1>1. /\ inputMessages \subseteq InputType /\ ValueTypes /\ TrackedBounded /\ Waits \subseteq Nat \ {0}
      /\ commands \in Seq(CommandType) /\ activeWait \in Nat
  BY Typed DEF TypeOK
<1>2. \A i \in inputMessages :
        i.wait \in Nat /\ i.madeFor \in Nat /\ i.madeFor <= i.wait /\ Behind(i.wait)'
  <2> SUFFICES ASSUME NEW i \in inputMessages
               PROVE  i.wait \in Nat /\ i.madeFor \in Nat /\ i.madeFor <= i.wait /\ Behind(i.wait)'
    OBVIOUS
  <2> DEFINE w == i.wait
  <2>1. i \in InputType
    BY <1>1
  <2>2. w \in Waits \cup {NoWait} /\ i.madeFor \in Waits
    BY <2>1 DEF InputType
  <2>3. w \in Nat /\ i.madeFor \in Nat /\ i.madeFor <= w /\ Behind(w)
    BY <2>2, WaitNat DEF Ordered
  <2> HIDE DEF w
  <2>4. Behind(w)'
    BY <2>3, BehindStays
  <2> QED
    BY <2>3, <2>4 DEF w
<1>3. ASSUME NEW input \in InputType, input.wait = activeWait, activeWait # NoWait,
             activeWait' = activeWait, input.madeFor <= activeWait,
             inputMessages' \subseteq inputMessages \cup {input}
      PROVE  \A i \in inputMessages' : i.madeFor <= i.wait /\ Behind(i.wait)'
  <2>1. Behind(activeWait)'
    BY <1>3, OrderedClient
  <2>2. Behind(input.wait)'
    BY <1>3, <2>1 DEF Behind
  <2> QED
    BY <1>2, <1>3, <2>2
<1>4. CASE inputMessages' \subseteq inputMessages
  BY <1>2, <1>4
<1>5. CASE ProcessGesture
  <2> DEFINE c == Head(commands)
             input == Input(c.gesture, c.wait, activeWait, KindOf[activeWait], 0)
  <2>1. commands # <<>> /\ activeWait' = activeWait
    BY <1>5 DEF ProcessGesture
  <2>2. c \in CommandType /\ c \in Range(commands)
    BY <1>1, <2>1, TailAt, RangeTail
  <2>3. \/ inputMessages' = inputMessages
        \/ activeWait # NoWait /\ SubmitInput(input, inputMessages)
    BY <1>5 DEF ProcessGesture, Accepted
  <2>4. ASSUME activeWait # NoWait, SubmitInput(input, inputMessages)
        PROVE  \A i \in inputMessages' : i.madeFor <= i.wait /\ Behind(i.wait)'
    <3>1. input \in InputType
      BY <1>1, <2>2, <2>4, InputTyped
    <3>2. input.madeFor = c.wait /\ input.wait = activeWait
      BY DEF Input
    <3>3. c.wait <= activeWait
      BY <2>2, <2>4 DEF Ordered, Ahead, Told, Behind
    <3> HIDE DEF input
    <3>4. inputMessages' \subseteq inputMessages \cup {input}
      BY <1>1, <2>4, <3>1, Submitted
    <3> QED
      BY <1>3, <2>1, <2>4, <3>1, <3>2, <3>3, <3>4
  <2> QED
    BY <1>4, <2>3, <2>4
<1>6. CASE HandleOutput
  <2>1. \/ inputMessages' \subseteq inputMessages
        \/ /\ activeWait' = activeWait
           /\ \E i \in inputMessages :
                /\ Carries(i)
                /\ SubmitInput(Input(i.gesture, i.madeFor, activeWait, i.kind, 1), inputMessages \ {i})
    BY <1>6, RejectionSteps DEF HandleOutput, HandleWait, HandlePause
  <2>2. ASSUME activeWait' = activeWait, NEW i \in inputMessages, Carries(i),
               SubmitInput(Input(i.gesture, i.madeFor, activeWait, i.kind, 1), inputMessages \ {i})
        PROVE  \A j \in inputMessages' : j.madeFor <= j.wait /\ Behind(j.wait)'
    <3> DEFINE input == Input(i.gesture, i.madeFor, activeWait, i.kind, 1)
    <3>1. i \in InputType /\ activeWait \in Waits /\ activeWait # NoWait
      BY <1>1, <2>2, Typed DEF Carries
    <3>2. input \in InputType
      BY <1>1, <3>1, Typed DEF Input, InputType
    <3>3. input.madeFor = i.madeFor /\ input.wait = activeWait
      BY DEF Input
    <3>4. SubmitInput(input, inputMessages \ {i})
      BY <2>2
    <3>5. i.madeFor <= i.wait /\ i.wait <= activeWait
      BY <3>1 DEF Ordered, Behind
    <3>6. i.madeFor <= activeWait
      BY <1>1, <1>2, <3>5
    <3> HIDE DEF input
    <3>7. inputMessages' \subseteq (inputMessages \ {i}) \cup {input}
      BY <1>1, <3>2, <3>4, Submitted
    <3> QED
      BY <1>3, <2>2, <3>1, <3>2, <3>3, <3>6, <3>7
  <2> QED
    BY <1>4, <2>1, <2>2
<1>7. CASE Gesture \/ HandleEvent \/ ProcessUndo \/ FailGesture \/ BeginDrive \/ EndDrive
           \/ FlushPresentation \/ Runtime \/ UNCHANGED vars
  <2>1. inputMessages' = inputMessages
    BY <1>7 DEF Gesture, HandleEvent, ProcessUndo, FailGesture, BeginDrive, EndDrive, FlushPresentation,
                Runtime, RtOpen, RtExpire, RtTake, RtPause, vars, client
  <2> QED
    BY <1>4, <2>1
<1> QED
  BY <1>5, <1>6, <1>7 DEF Next, App, Worker, Pump

\* Every step keeps the waits in order in all three queues.
LEMMA OrderedStep ==
  ASSUME TypeOK, Ordered, [Next]_vars
  PROVE  Ordered'
BY OrderedClient, OrderedApp, OrderedEvents, OrderedOutbox, OrderedCommands, OrderedTracked DEF Ordered
-----------------------------------------------------------------------------
(* Where the answer of a wait is *)

\* No gesture made for another wait was handled for this one.
Pure(wait) == \A h \in handled : h.wait = wait => h.madeFor = wait

\* The answer is a command; an input on its way; a refusal of that input; the
\* rejection the app will be told of; accepted; or the user's still, the gate open.
CommandsFor(wait) == Where(commands, {c \in CommandType : c.wait = wait})
InputsFor(wait) == Where(inbox, {i \in InputType : i.wait = wait})
Refused(wait) ==
  {m \in OutputType : m.kind = "reject" /\ \E i \in inputMessages : i.id = m.id /\ i.wait = wait}
RefusalsOf(wait) == Where(outbox, Refused(wait))
RejectionsOf(wait) == Where(events, {e \in EventType : e.kind = "rejected" /\ e.wait = wait})
Answered(wait) == wait \in answered
Open(wait) == uiWait = wait /\ activated # wait

\* It is in one of these places at most, and once; after it left the queue of
\* commands, the app shows the wait or did.
OneAnswer(wait) ==
  /\ Single(CommandsFor(wait)) /\ Single(InputsFor(wait))
  /\ Single(RefusalsOf(wait)) /\ Single(RejectionsOf(wait))
  /\ CommandsFor(wait) # {} =>
       /\ InputsFor(wait) = {} /\ RefusalsOf(wait) = {} /\ RejectionsOf(wait) = {}
       /\ ~Answered(wait) /\ ~Open(wait)
  /\ InputsFor(wait) # {} =>
       RefusalsOf(wait) = {} /\ RejectionsOf(wait) = {} /\ ~Answered(wait) /\ ~Open(wait)
  /\ RefusalsOf(wait) # {} => RejectionsOf(wait) = {} /\ ~Answered(wait) /\ ~Open(wait)
  /\ RejectionsOf(wait) # {} => ~Answered(wait) /\ ~Open(wait)
  /\ Answered(wait) => ~Open(wait)
  /\ (InputsFor(wait) # {} \/ RefusalsOf(wait) # {} \/ RejectionsOf(wait) # {} \/ Answered(wait))
       => Ahead(wait)

OneEach == \A wait \in Waits : Pure(wait) => OneAnswer(wait)

\* A place that gains nothing.
Keeps(X, Y) == (X = {} => Y = {}) /\ (Single(X) => Single(Y))

\* A set that only shrinks keeps having at most one member.
LEMMA SubsetKeeps ==
  ASSUME NEW X, NEW Y, Y \subseteq X
  PROVE  Keeps(X, Y)
BY DEF Keeps, Single

\* A get adds no wanted item, and takes the only one when it returns one.
LEMMA TailKeeps ==
  ASSUME NEW S, NEW q \in Seq(S), q # <<>>, NEW M
  PROVE  /\ Keeps(Where(q, M), Where(Tail(q), M))
         /\ Head(q) \in M => Where(q, M) # {}
         /\ Head(q) \in M /\ Single(Where(q, M)) => Where(Tail(q), M) = {}
BY WhereTail DEF Keeps

\* A put adds a wanted item only when it is one.
LEMMA AppendKeeps ==
  ASSUME NEW S, NEW q \in Seq(S), NEW x \in S, NEW M
  PROVE  /\ x \notin M => Keeps(Where(q, M), Where(Append(q, x), M))
         /\ Where(q, M) = {} => Single(Where(Append(q, x), M))
BY WhereAppend DEF Keeps

\* Places whose queues and values a step leaves alone.
LEMMA PlacesSame ==
  ASSUME NEW wait
  PROVE  /\ commands' = commands => Keeps(CommandsFor(wait), CommandsFor(wait)')
         /\ inbox' = inbox => Keeps(InputsFor(wait), InputsFor(wait)')
         /\ events' = events => Keeps(RejectionsOf(wait), RejectionsOf(wait)')
         /\ answered' = answered => (Answered(wait)' => Answered(wait))
         /\ UNCHANGED <<uiWait, activated>> => (Open(wait)' => Open(wait))
BY DEF Keeps, CommandsFor, InputsFor, RejectionsOf, Answered, Open

\* What is refused can only be what was remembered when it was.
LEMMA RefusedBefore ==
  ASSUME TypeOK, Numbered, NEW wait, \A i \in inputMessages' : i \in inputMessages \/ i.id = nextMessageId
  PROVE  \A m \in Range(outbox) : m \in Refused(wait)' => m \in Refused(wait)
<1>1. Range(outbox) \subseteq OutputType /\ nextMessageId \in Nat
  <2>1. outbox \in Seq(OutputType) /\ nextMessageId \in Nat
    BY Typed DEF TypeOK
  <2> QED
    BY <2>1, RangeTyped
<1> SUFFICES ASSUME NEW m \in Range(outbox), m \in Refused(wait)' PROVE m \in Refused(wait)
  OBVIOUS
<1>2. PICK i \in inputMessages' : m.kind = "reject" /\ i.id = m.id /\ i.wait = wait
  BY DEF Refused
<1>3. m \in OutputType /\ m.id < nextMessageId
  BY <1>1, <1>2 DEF Numbered
<1>4. m.id # nextMessageId
  BY <1>1, <1>3 DEF OutputType
<1> QED
  BY <1>2, <1>3, <1>4 DEF Refused

\* Tracking a new input makes no old output a refusal of a wait.
LEMMA RefusalsSame ==
  ASSUME TypeOK, Numbered, NEW wait, outbox' = outbox,
         \A i \in inputMessages' : i \in inputMessages \/ i.id = nextMessageId
  PROVE  Keeps(RefusalsOf(wait), RefusalsOf(wait)')
<1>1. \A m \in Range(outbox) : m \in Refused(wait)' => m \in Refused(wait)
  BY RefusedBefore
<1>2. RefusalsOf(wait)' \subseteq RefusalsOf(wait)
  BY <1>1 DEF RefusalsOf, Where, Range
<1> QED
  BY <1>2, SubsetKeeps

\* Handling an output removes at most the refusal it is.
LEMMA RefusalsTail ==
  ASSUME TypeOK, Numbered, NEW wait, outbox # <<>>, outbox' = Tail(outbox),
         \A i \in inputMessages' : i \in inputMessages \/ i.id = nextMessageId
  PROVE  /\ Keeps(RefusalsOf(wait), RefusalsOf(wait)')
         /\ Head(outbox) \in Refused(wait) => RefusalsOf(wait) # {}
         /\ Head(outbox) \in Refused(wait) /\ Single(RefusalsOf(wait)) => RefusalsOf(wait)' = {}
<1> DEFINE M == Refused(wait)
           T == Where(Tail(outbox), M)
<1>1. outbox \in Seq(OutputType)
  BY Typed DEF TypeOK
<1>2. /\ Keeps(Where(outbox, M), T)
      /\ Head(outbox) \in M => Where(outbox, M) # {}
      /\ Head(outbox) \in M /\ Single(Where(outbox, M)) => T = {}
  BY <1>1, TailKeeps
<1>3. \A m \in Range(outbox') : m \in Refused(wait)' => m \in Refused(wait)
  BY <1>1, RangeTail, RefusedBefore
<1>4. RefusalsOf(wait)' \subseteq T
  BY <1>3 DEF RefusalsOf, Where, Range
<1>5. Keeps(T, RefusalsOf(wait)')
  BY <1>4, SubsetKeeps
<1>6. Where(outbox, M) = RefusalsOf(wait)
  BY DEF RefusalsOf
<1>7. T = {} => RefusalsOf(wait)' = {}
  BY <1>4
<1> HIDE DEF T
<1> QED
  BY <1>2, <1>5, <1>6, <1>7 DEF Keeps

\* The runtime adds a refusal of a wait only by refusing an input of that wait.
LEMMA RefusalsAppend ==
  ASSUME TypeOK, NEW wait, NEW m \in OutputType, outbox' = Append(outbox, m),
         inputMessages' = inputMessages
  PROVE  /\ m \notin Refused(wait) => Keeps(RefusalsOf(wait), RefusalsOf(wait)')
         /\ RefusalsOf(wait) = {} => Single(RefusalsOf(wait)')
<1>1. outbox \in Seq(OutputType)
  BY Typed DEF TypeOK
<1>2. Refused(wait)' = Refused(wait)
  BY DEF Refused
<1>3. RefusalsOf(wait)' = Where(Append(outbox, m), Refused(wait))
  BY <1>2 DEF RefusalsOf
<1> QED
  BY <1>1, <1>3, AppendKeeps DEF RefusalsOf

\* What is still to be shown for a wait whose answer was given, at any step.
LEMMA AnswerBefore ==
  ASSUME TypeOK, [Next]_vars, OneEach, NEW wait \in Waits, Pure(wait)'
  PROVE  OneAnswer(wait) /\ (Ahead(wait) => Ahead(wait)')
<1>1. handled \subseteq handled'
  <2>1. CASE HandleOutput
    <3>1. \/ handled' = handled
          \/ \E i \in inputMessages :
               SubmitInput(Input(i.gesture, i.madeFor, activeWait, i.kind, 1), inputMessages \ {i})
      BY <2>1, RejectionSteps DEF HandleOutput, HandleWait, HandlePause
    <3> QED
      BY <3>1 DEF SubmitInput
  <2>2. CASE ~HandleOutput
    BY <2>2 DEF Next, App, Worker, Pump, Runtime, Gesture, HandleEvent, ProcessGesture, SubmitInput,
         ProcessUndo, FailGesture, BeginDrive, EndDrive, FlushPresentation, RtOpen, RtExpire, RtTake,
         RtPause, vars
  <2> QED
    BY <2>1, <2>2
<1>2. Pure(wait)
  BY <1>1 DEF Pure
<1> QED
  BY <1>2, AheadStays DEF OneEach

\* The answer leaves no place, or moves on with the action that takes it there.
LEMMA AnswerGesture ==
  ASSUME TypeOK, OneEach, NEW wait \in Waits, Pure(wait)', Gesture
  PROVE  OneAnswer(wait)'
<1>1. OneAnswer(wait) /\ (Ahead(wait) => Ahead(wait)')
  BY AnswerBefore DEF Next, App
<1>2. PICK kind \in Gestures :
        commands' = Append(commands, [kind |-> kind, gesture |-> gestures + 1, wait |-> uiWait])
  BY DEF Gesture
<1> PICK c : c = [kind |-> kind, gesture |-> gestures + 1, wait |-> uiWait]
  OBVIOUS
<1>3. /\ gestures + 1 \in 1..MaxGestures /\ uiWait \in Waits /\ commands \in Seq(CommandType)
      /\ ~Blocked /\ UNCHANGED <<uiWait, inbox, outbox, events, inputMessages, answered>>
      /\ activated' = uiWait
  <2>1. uiWait # NoWait /\ gestures < MaxGestures /\ ~Blocked /\ activated' = uiWait
    BY DEF Gesture, ShutsOn
  <2>2. UNCHANGED <<uiWait, inbox, outbox, events, inputMessages, answered>>
    BY DEF Gesture, client, runtime
  <2>3. uiWait \in Waits /\ commands \in Seq(CommandType) /\ gestures \in 0..MaxGestures
    BY <2>1, Typed DEF TypeOK, ValueTypes
  <2>4. gestures + 1 \in 1..MaxGestures
    BY <2>1, <2>3, InputAssumption
  <2> QED
    BY <2>1, <2>2, <2>3, <2>4
<1>4. c \in CommandType /\ c.wait = uiWait
  BY <1>3 DEF CommandType
<1>5. Open(uiWait)
  BY <1>3, InputAssumption DEF Blocked, Open, NoWait
<1>6. /\ wait # uiWait => Keeps(CommandsFor(wait), CommandsFor(wait)')
      /\ CommandsFor(wait) = {} => Single(CommandsFor(wait)')
  BY <1>2, <1>3, <1>4, AppendKeeps DEF CommandsFor
<1>7. ~Open(wait)'
  BY <1>3 DEF Open
<1>8. /\ Keeps(InputsFor(wait), InputsFor(wait)') /\ Keeps(RejectionsOf(wait), RejectionsOf(wait)')
      /\ Answered(wait)' => Answered(wait)
  BY <1>3, PlacesSame
<1>9. Keeps(RefusalsOf(wait), RefusalsOf(wait)')
  BY <1>3 DEF RefusalsOf, Refused, Keeps
<1>10. wait = uiWait => Open(wait)
  BY <1>5
<1> QED
  BY <1>1, <1>6, <1>7, <1>8, <1>9, <1>10 DEF OneAnswer, Keeps

\* The app opens its gate for a rejection, or shuts it for a gesture, and in
\* either case the answer of the wait is counted as before.
LEMMA AnswerEvent ==
  ASSUME TypeOK, Ordered, OneEach, NEW wait \in Waits, Pure(wait)', HandleEvent
  PROVE  OneAnswer(wait)'
<1> DEFINE e == Head(events)
<1>1. OneAnswer(wait) /\ (Ahead(wait) => Ahead(wait)')
  BY AnswerBefore DEF Next, App
<1>2. /\ events \in Seq(EventType) /\ events # <<>> /\ events' = Tail(events)
      /\ UNCHANGED <<commands, inbox, outbox, inputMessages, answered>>
  BY Typed DEF HandleEvent, client, runtime, TypeOK
<1>3. e \in EventType /\ e \in Range(events)
  BY <1>2, RangeTail, RangeTyped
<1>4. /\ Keeps(CommandsFor(wait), CommandsFor(wait)') /\ Keeps(InputsFor(wait), InputsFor(wait)')
      /\ Answered(wait)' => Answered(wait)
  BY <1>2, PlacesSame
<1>5. Keeps(RefusalsOf(wait), RefusalsOf(wait)')
  BY <1>2 DEF RefusalsOf, Refused, Keeps
<1> DEFINE M == {x \in EventType : x.kind = "rejected" /\ x.wait = wait}
<1>6. /\ Keeps(RejectionsOf(wait), RejectionsOf(wait)')
      /\ e \in M => RejectionsOf(wait) # {}
      /\ e \in M /\ Single(RejectionsOf(wait)) => RejectionsOf(wait)' = {}
  <2>1. /\ Keeps(Where(events, M), Where(Tail(events), M))
        /\ Head(events) \in M => Where(events, M) # {}
        /\ Head(events) \in M /\ Single(Where(events, M)) => Where(Tail(events), M) = {}
    BY <1>2, TailKeeps
  <2> QED
    BY <1>2, <2>1 DEF RejectionsOf
<1>7. CASE Open(wait)' => Open(wait)
  BY <1>1, <1>4, <1>5, <1>6, <1>7 DEF OneAnswer, Keeps
<1>8. CASE e.kind = "wait" /\ Open(wait)' /\ ~Open(wait)
  <2>1. uiWait' = e.wait /\ (e.wait # uiWait \/ activated' = activated)
    BY <1>8 DEF HandleEvent, ShowWait
  <2>2. e.wait = wait /\ uiWait # wait /\ wait # NoWait
    BY <1>8, <2>1, InputAssumption DEF Open, NoWait
  <2>3. IsWait(e) /\ ~(wait < e.wait)
    BY <1>8, <2>2, InputAssumption DEF IsWait
  <2>4. ~Ahead(wait)
    BY <1>3, <2>3 DEF Ahead
  <2>5. CommandsFor(wait) = {}
    <3>1. \A k \in DOMAIN commands : Ahead(commands[k].wait)
      BY DEF Ordered, Range
    <3> QED
      BY <2>4, <3>1 DEF CommandsFor, Where
  <2>6. InputsFor(wait) = {} /\ RefusalsOf(wait) = {} /\ RejectionsOf(wait) = {} /\ ~Answered(wait)
    BY <1>1, <2>4 DEF OneAnswer
  <2> QED
    BY <1>1, <1>4, <1>5, <1>6, <2>5, <2>6 DEF OneAnswer, Keeps
<1>9. CASE e.kind = "rejected" /\ Open(wait)' /\ ~Open(wait)
  <2>1. uiWait' = uiWait /\ (e.wait = activated \/ activated' = activated)
    BY <1>9 DEF HandleEvent, OpensGate
  <2>2. e.wait = wait
    BY <1>9, <2>1 DEF Open
  <2>3. e \in M
    BY <1>3, <1>9, <2>2
  <2>4. RejectionsOf(wait) # {} /\ RejectionsOf(wait)' = {}
    BY <1>1, <1>6, <2>3 DEF OneAnswer
  <2> QED
    BY <1>1, <1>4, <1>5, <2>4 DEF OneAnswer, Keeps
<1>10. e.kind \in {"wait", "rejected"} \/ (Open(wait)' => Open(wait))
  <2>1. e.kind \in {"wait", "rejected"} \/ UNCHANGED <<uiWait, activated>>
    BY DEF HandleEvent
  <2> QED
    BY <2>1, PlacesSame
<1> HIDE DEF e, M
<1> QED
  BY <1>7, <1>8, <1>9, <1>10

\* The first command goes, to no place or to one of the two that name its wait.
LEMMA AnswerTaken ==
  ASSUME TypeOK, OneEach, NEW wait \in Waits, Pure(wait)', [Next]_vars,
         commands # <<>>, commands' = Tail(commands)
  PROVE  /\ OneAnswer(wait) /\ (Ahead(wait) => Ahead(wait)') /\ Head(commands) \in CommandType
         /\ Head(commands) \in Range(commands)
         /\ Keeps(CommandsFor(wait), CommandsFor(wait)')
         /\ Head(commands).wait = wait => CommandsFor(wait) # {} /\ CommandsFor(wait)' = {}
<1>1. OneAnswer(wait) /\ (Ahead(wait) => Ahead(wait)') /\ commands \in Seq(CommandType)
  BY AnswerBefore, Typed DEF TypeOK
<1>2. Head(commands) \in CommandType /\ Head(commands) \in Range(commands)
  BY <1>1, TailAt, RangeTail
<1> DEFINE M == {c \in CommandType : c.wait = wait}
<1>3. /\ Keeps(Where(commands, M), Where(Tail(commands), M))
      /\ Head(commands) \in M => Where(commands, M) # {}
      /\ Head(commands) \in M /\ Single(Where(commands, M)) => Where(Tail(commands), M) = {}
  BY <1>1, TailKeeps
<1>4. Head(commands).wait = wait => Head(commands) \in M
  BY <1>2
<1>5. Where(commands, M) = CommandsFor(wait) /\ Where(Tail(commands), M) = CommandsFor(wait)'
  BY DEF CommandsFor
<1> HIDE DEF M
<1> QED
  BY <1>1, <1>2, <1>3, <1>4, <1>5 DEF OneAnswer

\* The client submits a gesture, or drops it: the answer moves on or ends.
LEMMA AnswerProcessed ==
  ASSUME TypeOK, Numbered, Ordered, OneEach, NEW wait \in Waits, Pure(wait)', ProcessGesture
  PROVE  OneAnswer(wait)'
<1> DEFINE c == Head(commands)
           input == Input(c.gesture, c.wait, activeWait, KindOf[activeWait], 0)
<1>1. /\ commands # <<>> /\ commands' = Tail(commands)
      /\ UNCHANGED <<uiWait, activated, outbox, events, answered, activeWait>>
  BY DEF ProcessGesture, app, runtime
<1>2. /\ OneAnswer(wait) /\ (Ahead(wait) => Ahead(wait)') /\ c \in CommandType
      /\ c \in Range(commands)
      /\ Keeps(CommandsFor(wait), CommandsFor(wait)')
      /\ c.wait = wait => CommandsFor(wait) # {} /\ CommandsFor(wait)' = {}
  BY <1>1, AnswerTaken DEF Next, Worker
<1>3. /\ Keeps(RejectionsOf(wait), RejectionsOf(wait)')
      /\ Answered(wait)' => Answered(wait)
      /\ Open(wait)' => Open(wait)
  BY <1>1, PlacesSame
<1>4. \/ UNCHANGED <<inbox, inputMessages>>
      \/ activeWait # NoWait /\ SubmitInput(input, inputMessages)
  BY DEF ProcessGesture, Accepted
<1>5. CASE UNCHANGED <<inbox, inputMessages>>
  <2>1. Keeps(RefusalsOf(wait), RefusalsOf(wait)')
    BY <1>1, <1>5, RefusalsSame
  <2>2. Keeps(InputsFor(wait), InputsFor(wait)')
    BY <1>5, PlacesSame
  <2> QED
    BY <1>2, <1>3, <2>1, <2>2 DEF OneAnswer, Keeps
<1>6. CASE activeWait # NoWait /\ SubmitInput(input, inputMessages)
  <2>1. input \in InputType /\ inbox \in Seq(InputType) /\ ValueTypes /\ TrackedBounded
    BY <1>2, <1>6, InputTyped, Typed DEF TypeOK
  <2>2. /\ input.gesture = c.gesture /\ input.madeFor = c.wait /\ input.wait = activeWait
        /\ input.id = nextMessageId
    BY DEF Input
  <2> HIDE DEF input
  <2>3. /\ inbox' = Append(inbox, input) /\ inputMessages' \subseteq inputMessages \cup {input}
        /\ handled' = handled \cup {Handling(c.gesture, c.wait, activeWait)}
    BY <1>6, <2>1, <2>2, Submitted
  <2>4. Keeps(RefusalsOf(wait), RefusalsOf(wait)')
    BY <1>1, <2>2, <2>3, RefusalsSame
  <2>5. /\ activeWait # wait => Keeps(InputsFor(wait), InputsFor(wait)')
        /\ InputsFor(wait) = {} => Single(InputsFor(wait)')
    BY <2>1, <2>2, <2>3, AppendKeeps DEF InputsFor
  <2>6. activeWait = wait => c.wait = wait
    <3>1. Handling(c.gesture, c.wait, activeWait) \in handled'
      BY <2>3
    <3> QED
      BY <3>1 DEF Pure, Handling
  <2>7. c.wait = wait => Ahead(wait)
    BY <1>2 DEF Ordered
  <2> QED
    BY <1>2, <1>3, <2>4, <2>5, <2>6, <2>7 DEF OneAnswer, Keeps
<1> QED
  BY <1>4, <1>5, <1>6

\* An undo changes nothing of the answer to a gesture.
LEMMA AnswerUndo ==
  ASSUME TypeOK, Numbered, OneEach, NEW wait \in Waits, Pure(wait)', ProcessUndo
  PROVE  OneAnswer(wait)'
<1> DEFINE c == Head(commands)
           m == [Input(c.gesture, c.wait, NoWait, "undo", 0) EXCEPT !.id = nextMessageId]
<1>1. /\ commands # <<>> /\ commands' = Tail(commands) /\ inbox' = Append(inbox, m)
      /\ UNCHANGED <<uiWait, activated, outbox, events, answered, inputMessages>>
  BY DEF ProcessUndo, app, runtime
<1>2. /\ OneAnswer(wait) /\ (Ahead(wait) => Ahead(wait)') /\ c \in CommandType
      /\ Keeps(CommandsFor(wait), CommandsFor(wait)')
  BY <1>1, AnswerTaken DEF Next, Worker
<1>3. /\ Keeps(RejectionsOf(wait), RejectionsOf(wait)')
      /\ Answered(wait)' => Answered(wait)
      /\ Open(wait)' => Open(wait)
  BY <1>1, PlacesSame
<1>4. m \in InputType /\ m.wait = NoWait /\ inbox \in Seq(InputType)
  BY <1>2, Typed DEF Input, InputType, CommandType, TypeOK
<1>5. wait # NoWait
  BY InputAssumption DEF NoWait
<1> HIDE DEF m
<1>6. Keeps(InputsFor(wait), InputsFor(wait)')
  BY <1>1, <1>4, <1>5, AppendKeeps DEF InputsFor
<1>7. Keeps(RefusalsOf(wait), RefusalsOf(wait)')
  BY <1>1, RefusalsSame
<1> QED
  BY <1>2, <1>3, <1>6, <1>7 DEF OneAnswer, Keeps

\* A gesture that fails in the client becomes a rejection for the app.
LEMMA AnswerFailed ==
  ASSUME TypeOK, Numbered, Ordered, OneEach, NEW wait \in Waits, Pure(wait)', FailGesture
  PROVE  OneAnswer(wait)'
<1> DEFINE c == Head(commands)
<1>1. /\ commands # <<>> /\ commands' = Tail(commands)
      /\ handled' = handled \cup {Handling(c.gesture, c.wait, activeWait)}
      /\ UNCHANGED <<uiWait, activated, outbox, inbox, answered, inputMessages>>
      /\ events' = IF activeWait = NoWait THEN events ELSE Append(events, Rejected(activeWait))
  BY DEF FailGesture, ReportsRejection, app, client, runtime
<1>2. /\ OneAnswer(wait) /\ (Ahead(wait) => Ahead(wait)') /\ c \in CommandType
      /\ c \in Range(commands)
      /\ Keeps(CommandsFor(wait), CommandsFor(wait)')
      /\ c.wait = wait => CommandsFor(wait) # {} /\ CommandsFor(wait)' = {}
  BY <1>1, AnswerTaken DEF Next, Worker
<1>3. /\ Keeps(InputsFor(wait), InputsFor(wait)')
      /\ Answered(wait)' => Answered(wait)
      /\ Open(wait)' => Open(wait)
  BY <1>1, PlacesSame
<1>4. Keeps(RefusalsOf(wait), RefusalsOf(wait)')
  BY <1>1, RefusalsSame
<1>5. /\ Rejected(activeWait) \in EventType /\ Rejected(activeWait).wait = activeWait
      /\ events \in Seq(EventType)
  BY Typed DEF TypeOK, ValueTypes, Rejected, EventType
<1>6. wait # NoWait
  BY InputAssumption DEF NoWait
<1>7. /\ activeWait # wait => Keeps(RejectionsOf(wait), RejectionsOf(wait)')
      /\ RejectionsOf(wait) = {} => Single(RejectionsOf(wait)')
  <2>1. CASE activeWait = NoWait
    BY <1>1, <2>1, PlacesSame DEF Single, RejectionsOf
  <2>2. CASE activeWait # NoWait
    <3>1. events' = Append(events, Rejected(activeWait))
      BY <1>1, <2>2
    <3> QED
      BY <1>5, <3>1, AppendKeeps DEF RejectionsOf
  <2> QED
    BY <2>1, <2>2
<1>8. activeWait = wait => c.wait = wait
  <2>1. Handling(c.gesture, c.wait, activeWait) \in handled'
    BY <1>1
  <2> QED
    BY <2>1 DEF Pure, Handling
<1>9. c.wait = wait => Ahead(wait)
  BY <1>2 DEF Ordered
<1> QED
  BY <1>2, <1>3, <1>4, <1>7, <1>8, <1>9 DEF OneAnswer, Keeps

\* An output: a wait, a pause, or the refusal of an input.
LEMMA AnswerOutput ==
  ASSUME TypeOK, Numbered, Ordered, OneEach, NEW wait \in Waits, Pure(wait)', HandleOutput
  PROVE  OneAnswer(wait)'
<1> DEFINE m == Head(outbox)
<1>1. /\ outbox # <<>> /\ outbox' = Tail(outbox)
      /\ UNCHANGED <<uiWait, activated, commands, answered>>
  BY DEF HandleOutput, app, runtime
<1>2. /\ OneAnswer(wait) /\ (Ahead(wait) => Ahead(wait)')
      /\ outbox \in Seq(OutputType) /\ events \in Seq(EventType) /\ inbox \in Seq(InputType)
      /\ inputMessages \subseteq InputType /\ ValueTypes /\ TrackedBounded
  BY AnswerBefore, Typed DEF Next, Worker, Pump, TypeOK
<1>3. /\ Keeps(CommandsFor(wait), CommandsFor(wait)')
      /\ Answered(wait)' => Answered(wait)
      /\ Open(wait)' => Open(wait)
  BY <1>1, PlacesSame
<1>4. m \in OutputType
  BY <1>1, <1>2, TailAt
<1>5. \/ m.kind = "wait" /\ HandleWait(m.wait)
      \/ m.kind = "pause" /\ HandlePause(m.flag)
      \/ m.kind = "reject" /\ HandleRejection(m.id, m.flag)
  BY DEF HandleOutput
<1> HIDE DEF m
<1>6. CASE UNCHANGED <<events, inbox, inputMessages>>
  <2>1. Keeps(RefusalsOf(wait), RefusalsOf(wait)')
    BY <1>1, <1>6, RefusalsTail
  <2>2. Keeps(InputsFor(wait), InputsFor(wait)') /\ Keeps(RejectionsOf(wait), RejectionsOf(wait)')
    BY <1>6, PlacesSame
  <2> QED
    BY <1>2, <1>3, <2>1, <2>2 DEF OneAnswer, Keeps
<1>7. CASE HandlePause(m.flag)
  <2>1. PICK e : e = [kind |-> IF m.flag THEN "paused" ELSE "resumed", wait |-> NoWait]
    OBVIOUS
  <2>2. events' = Append(events, e) /\ UNCHANGED <<inbox, inputMessages>>
    BY <1>7, <2>1 DEF HandlePause
  <2>3. e \in EventType /\ e.kind # "rejected"
    BY <2>1 DEF EventType
  <2>4. Keeps(RejectionsOf(wait), RejectionsOf(wait)')
    BY <1>2, <2>2, <2>3, AppendKeeps DEF RejectionsOf
  <2>5. Keeps(RefusalsOf(wait), RefusalsOf(wait)')
    BY <1>1, <2>2, RefusalsTail
  <2>6. Keeps(InputsFor(wait), InputsFor(wait)')
    BY <2>2, PlacesSame
  <2> QED
    BY <1>2, <1>3, <2>4, <2>5, <2>6 DEF OneAnswer, Keeps
<1>8. ASSUME NEW i \in inputMessages, i.id = m.id, m.kind = "reject"
      PROVE  i \in InputType /\ (i.wait = wait => m \in Refused(wait))
  BY <1>2, <1>4, <1>8 DEF Refused
\* Carried over to the wait the client knows, which is not the one it was made for.
<1>9. ASSUME NEW i \in inputMessages, i.id = m.id, m.kind = "reject", Carries(i),
             SubmitInput(Input(i.gesture, i.madeFor, activeWait, i.kind, 1), inputMessages \ {i}),
             UNCHANGED events
      PROVE  OneAnswer(wait)'
  <2>1. PICK input : input = Input(i.gesture, i.madeFor, activeWait, i.kind, 1)
    OBVIOUS
  <2>2. i \in InputType /\ activeWait \in Waits /\ activeWait # NoWait /\ activeWait # i.wait
        /\ nextMessageId \in Nat
    BY <1>2, <1>9, Typed DEF Carries
  <2>3. input \in InputType
    BY <2>1, <2>2 DEF Input, InputType
  <2>4. /\ input.gesture = i.gesture /\ input.madeFor = i.madeFor /\ input.wait = activeWait
        /\ input.id = nextMessageId
    BY <2>1 DEF Input
  <2>5. SubmitInput(input, inputMessages \ {i})
    BY <1>9, <2>1
  <2>6. /\ inbox' = Append(inbox, input) /\ inputMessages' \subseteq (inputMessages \ {i}) \cup {input}
        /\ handled' = handled \cup {Handling(i.gesture, i.madeFor, activeWait)}
    BY <1>2, <2>3, <2>4, <2>5, Submitted
  <2>7. activeWait # wait
    <3> SUFFICES ASSUME activeWait = wait PROVE FALSE
      OBVIOUS
    <3>1. Handling(i.gesture, i.madeFor, activeWait) \in handled'
      BY <2>6
    <3>2. i.madeFor = activeWait
      BY <3>1 DEF Pure, Handling
    <3>3. i.madeFor <= i.wait /\ i.wait <= activeWait
      BY <2>2 DEF Ordered, Behind
    <3>4. i.wait \in Nat /\ activeWait \in Nat
      BY <2>2, WaitNat DEF InputType
    <3> QED
      BY <2>2, <3>2, <3>3, <3>4
  <2>8. Keeps(InputsFor(wait), InputsFor(wait)')
    BY <1>2, <2>3, <2>4, <2>6, <2>7, AppendKeeps DEF InputsFor
  <2>9. \A j \in inputMessages' : j \in inputMessages \/ j.id = nextMessageId
    BY <2>4, <2>6
  <2>10. Keeps(RefusalsOf(wait), RefusalsOf(wait)')
    BY <1>1, <2>9, RefusalsTail
  <2>11. Keeps(RejectionsOf(wait), RejectionsOf(wait)')
    BY <1>9, PlacesSame
  <2> QED
    BY <1>2, <1>3, <2>8, <2>10, <2>11 DEF OneAnswer, Keeps
\* Given back to the app.
<1>10. ASSUME NEW i \in inputMessages, i.id = m.id, m.kind = "reject",
              events' = Append(events, Rejected(i.wait)), inputMessages' = inputMessages \ {i},
              UNCHANGED inbox
       PROVE  OneAnswer(wait)'
  <2>1. i \in InputType /\ (i.wait = wait => m \in Refused(wait))
    BY <1>8, <1>10
  <2>2. Rejected(i.wait) \in EventType /\ Rejected(i.wait).wait = i.wait
    BY <2>1 DEF Rejected, EventType, InputType
  <2>3. /\ i.wait # wait => Keeps(RejectionsOf(wait), RejectionsOf(wait)')
        /\ RejectionsOf(wait) = {} => Single(RejectionsOf(wait)')
    BY <1>2, <1>10, <2>2, AppendKeeps DEF RejectionsOf
  <2>4. /\ Keeps(RefusalsOf(wait), RefusalsOf(wait)')
        /\ m \in Refused(wait) => RefusalsOf(wait) # {}
        /\ m \in Refused(wait) /\ Single(RefusalsOf(wait)) => RefusalsOf(wait)' = {}
    BY <1>1, <1>10, RefusalsTail DEF m
  <2>5. Keeps(InputsFor(wait), InputsFor(wait)')
    BY <1>10, PlacesSame
  <2> QED
    BY <1>2, <1>3, <2>1, <2>3, <2>4, <2>5 DEF OneAnswer, Keeps
<1>11. CASE m.kind = "reject" /\ HandleRejection(m.id, m.flag)
  BY <1>6, <1>9, <1>10, <1>11, RejectionSteps
<1>12. CASE HandleWait(m.wait)
  BY <1>6, <1>12 DEF HandleWait
<1> QED
  BY <1>5, <1>7, <1>11, <1>12

\* The rest of a pump publishes waits and takes no place.
LEMMA AnswerPump ==
  ASSUME TypeOK, Numbered, OneEach, NEW wait \in Waits, Pure(wait)',
         BeginDrive \/ EndDrive \/ FlushPresentation
  PROVE  OneAnswer(wait)'
<1>1. /\ UNCHANGED <<uiWait, activated, commands, inbox, outbox, inputMessages, answered>>
      /\ events' = events \/ events' = Append(events, WaitEvent(activeWait))
  BY DEF BeginDrive, EndDrive, FlushPresentation, app, client, runtime
<1>2. /\ OneAnswer(wait) /\ (Ahead(wait) => Ahead(wait)') /\ events \in Seq(EventType)
      /\ WaitEvent(activeWait) \in EventType /\ WaitEvent(activeWait).kind = "wait"
  BY AnswerBefore, Typed DEF Next, Worker, Pump, TypeOK, ValueTypes, WaitEvent, EventType
<1>3. /\ Keeps(CommandsFor(wait), CommandsFor(wait)') /\ Keeps(InputsFor(wait), InputsFor(wait)')
      /\ Answered(wait)' => Answered(wait)
      /\ Open(wait)' => Open(wait)
  BY <1>1, PlacesSame
<1>4. Keeps(RefusalsOf(wait), RefusalsOf(wait)')
  BY <1>1, RefusalsSame
<1>5. Keeps(RejectionsOf(wait), RejectionsOf(wait)')
  <2>1. CASE events' = events
    BY <2>1, PlacesSame
  <2>2. CASE events' = Append(events, WaitEvent(activeWait))
    BY <1>2, <2>2, AppendKeeps DEF RejectionsOf
  <2> QED
    BY <1>1, <2>1, <2>2
<1> QED
  BY <1>2, <1>3, <1>4, <1>5 DEF OneAnswer, Keeps

\* The runtime takes the input, and accepts or refuses it.
LEMMA AnswerTake ==
  ASSUME TypeOK, Numbered, OneEach, NEW wait \in Waits, Pure(wait)', RtTake
  PROVE  OneAnswer(wait)'
<1> DEFINE input == Head(inbox)
           M == {i \in InputType : i.wait = wait}
<1>1. /\ inbox # <<>> /\ inbox' = Tail(inbox)
      /\ UNCHANGED <<uiWait, activated, commands, events, inputMessages>>
  BY DEF RtTake, app, client
<1>2. /\ OneAnswer(wait) /\ (Ahead(wait) => Ahead(wait)') /\ inbox \in Seq(InputType)
  BY AnswerBefore, Typed DEF Next, Runtime, TypeOK
<1>3. /\ Keeps(CommandsFor(wait), CommandsFor(wait)')
      /\ Keeps(RejectionsOf(wait), RejectionsOf(wait)')
      /\ Open(wait)' => Open(wait)
  BY <1>1, PlacesSame
<1>4. input \in InputType /\ input \in Range(inbox)
  BY <1>1, <1>2, TailAt, RangeTail
<1>5. /\ Keeps(InputsFor(wait), InputsFor(wait)')
      /\ input.wait = wait => InputsFor(wait) # {} /\ InputsFor(wait)' = {}
  <2>1. /\ Keeps(Where(inbox, M), Where(Tail(inbox), M))
        /\ Head(inbox) \in M => Where(inbox, M) # {}
        /\ Head(inbox) \in M /\ Single(Where(inbox, M)) => Where(Tail(inbox), M) = {}
    BY <1>1, <1>2, TailKeeps
  <2>2. input.wait = wait => Head(inbox) \in M
    BY <1>4
  <2>3. Where(inbox, M) = InputsFor(wait) /\ Where(Tail(inbox), M) = InputsFor(wait)'
    BY <1>1 DEF InputsFor
  <2> HIDE DEF M
  <2> QED
    BY <1>2, <2>1, <2>2, <2>3 DEF OneAnswer
<1>6. PICK m \in OutputType :
        /\ outbox' = Append(outbox, m)
        /\ \/ /\ m.kind = "wait"
              /\ answered' \subseteq answered \cup {w \in {input.wait} : input.wait = input.madeFor}
           \/ m.kind = "reject" /\ m.id = input.id /\ answered' = answered
  BY TakeShape
<1>7. m \in Refused(wait) => m.kind = "reject" /\ input.wait = wait
  <2> SUFFICES ASSUME m \in Refused(wait) PROVE m.kind = "reject" /\ input.wait = wait
    OBVIOUS
  <2>1. PICK i \in inputMessages : m.kind = "reject" /\ i.id = m.id /\ i.wait = wait
    BY DEF Refused
  <2>2. i = input
    BY <1>4, <1>6, <2>1 DEF Numbered
  <2> QED
    BY <2>1, <2>2
<1>8. /\ m \notin Refused(wait) => Keeps(RefusalsOf(wait), RefusalsOf(wait)')
      /\ RefusalsOf(wait) = {} => Single(RefusalsOf(wait)')
  BY <1>1, <1>6, RefusalsAppend
<1>9. Answered(wait)' => Answered(wait) \/ (m.kind = "wait" /\ input.wait = wait)
  BY <1>6 DEF Answered
<1> HIDE DEF input, M
<1>10. CASE m.kind = "wait"
  <2>1. Keeps(RefusalsOf(wait), RefusalsOf(wait)')
    BY <1>7, <1>8, <1>10
  <2> QED
    BY <1>2, <1>3, <1>5, <1>9, <2>1 DEF OneAnswer, Keeps
<1>11. CASE m.kind = "reject"
  <2>1. Answered(wait)' => Answered(wait)
    BY <1>9, <1>11
  <2> QED
    BY <1>2, <1>3, <1>5, <1>7, <1>8, <2>1 DEF OneAnswer, Keeps
<1> QED
  BY <1>6, <1>10, <1>11

\* Opening or ending a wait, and a pause, make no answer to a gesture.
LEMMA AnswerRuntime ==
  ASSUME TypeOK, Numbered, OneEach, NEW wait \in Waits, Pure(wait)', RtOpen \/ RtExpire \/ RtPause
  PROVE  OneAnswer(wait)'
<1>1. UNCHANGED <<uiWait, activated, commands, events, inbox, inputMessages, answered>>
  BY DEF RtOpen, RtExpire, RtPause, app, client
<1>2. OneAnswer(wait) /\ (Ahead(wait) => Ahead(wait)')
  BY AnswerBefore DEF Next, Runtime
<1>3. /\ Keeps(CommandsFor(wait), CommandsFor(wait)') /\ Keeps(InputsFor(wait), InputsFor(wait)')
      /\ Keeps(RejectionsOf(wait), RejectionsOf(wait)')
      /\ Answered(wait)' => Answered(wait)
      /\ Open(wait)' => Open(wait)
  BY <1>1, PlacesSame
<1>4. PICK m \in OutputType : outbox' = Append(outbox, m) /\ m.kind # "reject"
  BY OutputShape
<1>5. Keeps(RefusalsOf(wait), RefusalsOf(wait)')
  BY <1>1, <1>4, RefusalsAppend DEF Refused
<1> QED
  BY <1>2, <1>3, <1>5 DEF OneAnswer, Keeps

\* Of the gesture, its input, its refusal and its rejection a wait has one at a
\* time, as long as no other wait is involved.
LEMMA AnswerStep ==
  ASSUME TypeOK, Numbered, Ordered, OneEach, [Next]_vars
  PROVE  OneEach'
<1> SUFFICES ASSUME NEW wait \in Waits, Pure(wait)' PROVE OneAnswer(wait)'
  BY DEF OneEach
<1>1. CASE UNCHANGED vars
  <2>1. /\ UNCHANGED <<uiWait, activated, commands, events, inbox, outbox, inputMessages, answered>>
    BY <1>1 DEF vars, app, client, runtime
  <2>2. OneAnswer(wait) /\ (Ahead(wait) => Ahead(wait)')
    BY AnswerBefore
  <2>3. /\ Keeps(CommandsFor(wait), CommandsFor(wait)') /\ Keeps(InputsFor(wait), InputsFor(wait)')
        /\ Keeps(RejectionsOf(wait), RejectionsOf(wait)')
        /\ Answered(wait)' => Answered(wait)
        /\ Open(wait)' => Open(wait)
    BY <2>1, PlacesSame
  <2>4. Keeps(RefusalsOf(wait), RefusalsOf(wait)')
    BY <2>1, RefusalsSame
  <2> QED
    BY <2>2, <2>3, <2>4 DEF OneAnswer, Keeps
<1>2. CASE Next
  BY <1>2, AnswerGesture, AnswerEvent, AnswerProcessed, AnswerUndo, AnswerFailed, AnswerOutput, AnswerPump,
     AnswerTake, AnswerRuntime DEF Next, App, Worker, Pump, Runtime
<1> QED
  BY <1>1, <1>2

\* No wait is shown, told or answered at the start.
LEMMA InitOrdered == Init => Ordered /\ OneEach
<1> SUFFICES ASSUME Init PROVE Ordered /\ OneEach
  OBVIOUS
<1>1. /\ commands = <<>> /\ inbox = <<>> /\ outbox = <<>> /\ events = <<>> /\ inputMessages = {}
      /\ answered = {} /\ uiWait = NoWait /\ activeWait = NoWait
  BY DEF Init
<1>2. \A q : q = <<>> => DOMAIN q = {} /\ Range(q) = {}
  BY DEF Range
<1>3. Ordered
  BY <1>1, <1>2 DEF Ordered, Increasing
<1>4. ASSUME NEW wait \in Waits PROVE OneAnswer(wait)
  <2>1. CommandsFor(wait) = {} /\ InputsFor(wait) = {} /\ RefusalsOf(wait) = {} /\ RejectionsOf(wait) = {}
    BY <1>1, <1>2 DEF CommandsFor, InputsFor, RefusalsOf, RejectionsOf, Where
  <2>2. ~Answered(wait) /\ Single({})
    BY <1>1 DEF Answered, Single
  <2> QED
    BY <2>1, <2>2 DEF OneAnswer
<1> QED
  BY <1>3, <1>4 DEF OneEach

\* The gate stays shut on a wait whose answer the runtime accepted, for any number
\* of waits and gestures, unless a gesture made for another wait was handled for
\* it: however late the app learns of the end of the wait, whatever is refused,
\* forgotten, carried over or failed meanwhile.
THEOREM StaysShut == Spec => []AnsweredStaysShut
<1> DEFINE Inv == TypeOK /\ Numbered /\ Ordered /\ OneEach
<1>1. Init => Inv
  BY InitTypes, InitFollowed, InitOrdered
<1>2. Inv /\ [Next]_vars => Inv'
  BY TypesStep, NumberedStep, OrderedStep, AnswerStep
<1>3. Inv => AnsweredStaysShut
  <2> SUFFICES ASSUME Inv, NEW wait \in answered, uiWait = wait, Pure(wait) PROVE activated = wait
    BY DEF AnsweredStaysShut, Pure
  <2>1. wait \in Waits
    BY DEF TypeOK, ValueTypes
  <2>2. ~Open(wait)
    BY <2>1 DEF OneEach, OneAnswer, Answered
  <2> QED
    BY <2>2 DEF Open
<1> QED
  BY <1>1, <1>2, <1>3, PTL DEF Spec
=============================================================================
