-------------------------- MODULE ProjectStartProofs --------------------------
(***************************************************************************)
(* Whatever fails while a session is created, replaced or destroyed, the   *)
(* client knows what it has: shown for any projects, moves, failures and   *)
(* bounds, and for a user who does not wait.                               *)
(* The operations of ProjectStart map a world to a world.  Most of them    *)
(* leave the session and what the client knows of it alone (Keeps); the    *)
(* replacement goes through a prepared session, which the client owns only *)
(* when it has greeted it.                                                 *)
(* And whatever the user reloads and saves, and whoever edits the project, *)
(* the client's copy of the sources is the runtime's, unless a write of    *)
(* the configuration took others into it: CopiesInv says what every        *)
(* message under way promises (Fits), with a message that a handler has in *)
(* its hand still counted, and what the client keeps of it (Books).        *)
(* Last, who may start the game: TurnsInv says that of the load, the       *)
(* confirmation of a migration and the preferences only one has the turn   *)
(* (Turns), that what it waits for is under way and in order (Owes,        *)
(* First), and that a message speaks of the configuration the session has  *)
(* (Says), which the optimistic lock compares with the disk's.             *)
(***************************************************************************)
EXTENDS ProjectStart, TLAPS, FiniteSetTheorems, WellFoundedInduction
-----------------------------------------------------------------------------
InTags == {"hello", "resolve", "project", "reload", "prepare", "finalize", "preferences", "start"}
OutTags == {"welcome", "resolved", "needs_source", "loaded", "load_failed", "prepared", "committed",
            "applied", "rejected", "unwelcome", "phase"}

\* A queue of messages, of which only the tags matter here.
Queue(q, tags) == \E S : q \in Seq(S) /\ \A m \in S : m.tag \in tags

\* A world is a record of records, with its queues.
Shaped(w) ==
  /\ DOMAIN w = {"c", "d", "s"}
  /\ DOMAIN w.c = DOMAIN NewClient /\ DOMAIN w.s = DOMAIN NewSession
  /\ Queue(w.s.inbox, InTags) /\ Queue(w.s.outbox, OutTags)

\* What the client knows of the handle it has.
Owned(w) ==
  /\ ~w.c.reset => w.s.open
  /\ w.c.reset => (w.s.open <=> w.c.destroy)

\* An operation that leaves the handle, and what is known of it, alone.
Keeps(v, w) ==
  /\ Shaped(v)
  /\ v.c.reset = w.c.reset /\ v.c.destroy = w.c.destroy /\ v.s.open = w.s.open

\* What a step of the worker leaves.
Fine(w) == Shaped(w) /\ Owned(w)

Inv ==
  /\ Shaped(World) /\ commands \in Seq(Moves)
  /\ pc # "closed" => Owned(World)
-----------------------------------------------------------------------------
(* What the operations are made of *)

\* A message at the end of a queue, and the first one taken off.
LEMMA Queues ==
  ASSUME NEW q, NEW tags, Queue(q, tags)
  PROVE  /\ \A m : m.tag \in tags => Queue(Append(q, m), tags)
         /\ q # <<>> => Head(q).tag \in tags /\ Queue(Tail(q), tags)
<1>1. PICK S : q \in Seq(S) /\ \A m \in S : m.tag \in tags
  BY DEF Queue
<1>2. ASSUME NEW m, m.tag \in tags
      PROVE  Queue(Append(q, m), tags)
  <2>1. Append(q, m) \in Seq(S \cup {m})
    BY <1>1
  <2> QED
    BY <1>1, <1>2, <2>1 DEF Queue
<1>3. ASSUME q # <<>>
      PROVE  Head(q) \in S /\ Tail(q) \in Seq(S)
  BY <1>1, <1>3
<1> QED
  BY <1>1, <1>2, <1>3 DEF Queue

\* An empty queue, whatever may be in it.
LEMMA Empty ==
  ASSUME NEW tags
  PROVE  Queue(<<>>, tags)
<1>1. PICK S : S = {}
  OBVIOUS
<1>2. <<>> \in Seq(S) /\ \A m \in S : m.tag \in tags
  BY <1>1
<1> QED
  BY <1>2 DEF Queue

\* One step after the other.
LEMMA Both ==
  ASSUME NEW u, NEW v, NEW w, Keeps(u, v), Keeps(v, w)
  PROVE  Keeps(u, w)
BY DEF Keeps

\* An operation that keeps the handle leaves it owned.
LEMMA Carries ==
  ASSUME NEW v, NEW w, Keeps(v, w), Fine(w)
  PROVE  Fine(v)
<1>1. Shaped(v)
  BY DEF Keeps
<1>2. Owned(v)
  BY Zenon DEF Keeps, Fine, Owned
<1> QED
  BY <1>1, <1>2 DEF Fine

\* What the client stores of anything else than the handle.
LEMMA Stores ==
  ASSUME NEW w, Shaped(w), NEW x
  PROVE  /\ Keeps(w, w)
         /\ Keeps([w EXCEPT !.c.cache = x], w) /\ Keeps([w EXCEPT !.c.events = x], w)
         /\ Keeps([w EXCEPT !.c.failed = x], w) /\ Keeps([w EXCEPT !.c.bundle = x], w)
         /\ Keeps([w EXCEPT !.c.pending = x], w) /\ Keeps([w EXCEPT !.c.candidate = x], w)
         /\ Keeps([w EXCEPT !.c.compatibility = x], w) /\ Keeps([w EXCEPT !.c.reload = x], w)
         /\ Keeps([w EXCEPT !.c.update = x], w) /\ Keeps([w EXCEPT !.c.start = x], w)
         /\ Keeps([w EXCEPT !.c.preferences = x], w) /\ Keeps([w EXCEPT !.c.snapshot = x], w)
         /\ Keeps([w EXCEPT !.c.torn = x], w)
         /\ Keeps([w EXCEPT !.d.conf = x], w) /\ Keeps([w EXCEPT !.d.written = x], w)
BY DEF Shaped, Keeps, NewClient, NewSession

\* An event, an exception, a message.
LEMMA Tells ==
  ASSUME NEW w, Shaped(w)
  PROVE  /\ \A event : Keeps(Emit(w, event), w)
         /\ Keeps(Raise(w), w) /\ Raise(w).c.failed
         /\ \A m : m.tag \in InTags => Keeps(Send(w, m), w)
<1>1. \A event : Keeps(Emit(w, event), w)
  BY DEF Emit, Shaped, Keeps, NewClient, NewSession
<1>2. Keeps(Raise(w), w) /\ Raise(w).c.failed
  BY DEF Raise, Shaped, Keeps, NewClient, NewSession
<1>3. ASSUME NEW m, m.tag \in InTags
      PROVE  Keeps(Send(w, m), w)
  <2>1. Queue(Append(w.s.inbox, m), InTags)
    BY <1>3, Queues DEF Shaped
  <2> QED
    BY <2>1 DEF Send, Shaped, Keeps, NewClient, NewSession
<1> QED
  BY <1>1, <1>2, <1>3

\* _reset_wire_state forgets everything but the handle.
LEMMA Wire ==
  ASSUME NEW w, Shaped(w)
  PROVE  Keeps(ResetWire(w), w)
BY DEF ResetWire, Shaped, Keeps, NewClient, NewSession
-----------------------------------------------------------------------------
(* The handle of the session *)

\* A reset destroys the session, or fails and keeps what is still to be
\* destroyed.
LEMMA Begins ==
  ASSUME NEW w, NEW bad, Shaped(w), Owned(w)
  PROVE  LET v == BeginReset(w, bad) IN
         Shaped(v) /\ Owned(v) /\ (~v.c.failed => v.c.reset)
<1> DEFINE begun == IF w.c.reset THEN w ELSE Emit([w EXCEPT !.c.reset = TRUE, !.c.destroy = TRUE], "reset")
           v == BeginReset(w, bad)
<1>1. Shaped(begun) /\ begun.c.reset /\ begun.s.open = w.s.open /\ (begun.s.open <=> begun.c.destroy)
  <2>1. CASE w.c.reset
    BY <2>1 DEF Owned
  <2>2. CASE ~w.c.reset
    <3> DEFINE x == [w EXCEPT !.c.reset = TRUE, !.c.destroy = TRUE]
    <3>1. Shaped(x) /\ x.c.reset /\ x.c.destroy /\ x.s.open = w.s.open
      BY DEF Shaped, NewClient, NewSession
    <3> HIDE DEF x
    <3>2. Keeps(Emit(x, "reset"), x)
      BY <3>1, Tells
    <3>3. begun = Emit(x, "reset")
      BY <2>2 DEF x
    <3> QED
      BY <2>2, <3>1, <3>2, <3>3 DEF Owned, Keeps
  <2> QED
    BY <2>1, <2>2
<1>2. v = IF ~begun.c.destroy THEN begun
          ELSE IF bad = "destroy" /\ begun.s.open THEN Raise(ResetWire(begun))
          ELSE [ResetWire(begun) EXCEPT !.c.destroy = FALSE, !.s = Closed]
  BY DEF BeginReset
<1> SUFFICES Shaped(v) /\ Owned(v) /\ (~v.c.failed => v.c.reset)
  OBVIOUS
<1> HIDE DEF begun, v
<1>3. CASE ~begun.c.destroy
  <2>1. v = begun
    BY <1>2, <1>3
  <2> QED
    BY <1>1, <1>3, <2>1, Zenon DEF Owned
<1>4. CASE begun.c.destroy /\ bad = "destroy"
  <2>1. v = Raise(ResetWire(begun))
    BY <1>1, <1>2, <1>4
  <2>2. Keeps(ResetWire(begun), begun)
    BY <1>1, Wire
  <2>3. Keeps(v, ResetWire(begun))
    BY <2>1, <2>2, Tells DEF Keeps
  <2>4. Shaped(v) /\ v.c.reset /\ v.c.destroy /\ v.s.open
    BY <1>1, <1>4, <2>2, <2>3, Zenon DEF Keeps
  <2> QED
    BY <2>4, Zenon DEF Owned
<1>5. CASE begun.c.destroy /\ bad # "destroy"
  <2> DEFINE x == ResetWire(begun)
  <2>1. Keeps(x, begun)
    BY <1>1, Wire
  <2> HIDE DEF x
  <2>2. v = [x EXCEPT !.c.destroy = FALSE, !.s = Closed]
    BY <1>2, <1>5 DEF x
  <2>3. DOMAIN Closed = DOMAIN NewSession /\ Closed.open = FALSE /\ Closed.inbox = <<>> /\ Closed.outbox = <<>>
    BY DEF Closed, NewSession
  <2>4. Shaped(v) /\ v.c.reset = x.c.reset /\ v.c.destroy = FALSE /\ v.s.open = FALSE
    BY <2>1, <2>2, <2>3, Empty DEF Keeps, Shaped, NewClient
  <2>5. v.c.reset /\ ~v.c.destroy /\ ~v.s.open
    BY <1>1, <2>1, <2>4, Zenon DEF Keeps
  <2> QED
    BY <2>4, <2>5, Zenon DEF Owned
<1> QED
  BY <1>3, <1>4, <1>5

\* What is left of a replacement that failed: nothing, or a handle that is
\* known to be there still.
LEMMA Aborts ==
  ASSUME NEW w, NEW bad, Shaped(w)
  PROVE  LET v == Abort(w, bad) IN Shaped(v) /\ Owned(v) /\ v.c.failed
<1> DEFINE stuck == w.s.open /\ bad \in {"progress_and_abort", "decode_and_abort", "hello_and_abort"}
           s == IF stuck THEN w.s ELSE Closed
           x == [w EXCEPT !.c.reset = TRUE, !.c.destroy = stuck, !.s = s]
<1>1. DOMAIN Closed = DOMAIN NewSession /\ Closed.open = FALSE /\ Closed.inbox = <<>> /\ Closed.outbox = <<>>
  BY DEF Closed, NewSession
<1>2. /\ DOMAIN s = DOMAIN NewSession /\ (s.open <=> stuck)
      /\ Queue(s.inbox, InTags) /\ Queue(s.outbox, OutTags)
  <2>1. CASE stuck
    BY <2>1 DEF Shaped
  <2>2. CASE ~stuck
    BY <1>1, <2>2, Empty
  <2> QED
    BY <2>1, <2>2
<1>3. Abort(w, bad) = Raise(ResetWire(x))
  BY DEF Abort
<1> HIDE DEF s, stuck
<1>4. Shaped(x) /\ x.c.reset /\ x.c.destroy = stuck /\ x.s = s
  BY <1>2 DEF Shaped, NewClient
<1> HIDE DEF x
<1>5. Keeps(ResetWire(x), x)
  BY <1>4, Wire
<1>6. Keeps(Raise(ResetWire(x)), ResetWire(x)) /\ Raise(ResetWire(x)).c.failed
  BY <1>5, Tells DEF Keeps
<1> QED
  BY <1>2, <1>3, <1>4, <1>5, <1>6 DEF Keeps, Owned

\* The messages of the client.
LEMMA Tagged ==
  ASSUME NEW tag \in InTags \cup OutTags, NEW id, NEW b, NEW x, NEW y
  PROVE  /\ Message(tag, id).tag = tag
         /\ [Message(tag, id) EXCEPT !.bundle = b].tag = tag
         /\ [Message(tag, id) EXCEPT !.conf = x].tag = tag
         /\ [Message(tag, id) EXCEPT !.contents = x].tag = tag
         /\ [Message(tag, id) EXCEPT !.bundle = b, !.contents = x].tag = tag
         /\ [Message(tag, id) EXCEPT !.conf = x, !.contents = y].tag = tag
         /\ [Message(tag, id) EXCEPT !.bundle = b, !.conf = x, !.contents = y].tag = tag
BY DEF Message

\* A session that is prepared is open, and not yet owned by the client.
LEMMA Prepares ==
  ASSUME NEW w, NEW bad, Fine(w)
  PROVE  LET v == Prepare(w, bad) IN
         Shaped(v) /\ (v.c.failed => Owned(v)) /\ (~v.c.failed => v.s.open)
<1> DEFINE empty == BeginReset(w, bad)
           v == Prepare(w, bad)
           made == [empty EXCEPT !.s = NewSession]
<1> SUFFICES Shaped(v) /\ (v.c.failed => Owned(v)) /\ (~v.c.failed => v.s.open)
  OBVIOUS
<1>1. Shaped(empty) /\ Owned(empty)
  BY Begins DEF Fine
<1>2. v = CASE empty.c.failed -> empty
            [] ~empty.c.failed /\ (empty.s.open \/ bad = "create") -> Abort(empty, bad)
            [] ~empty.c.failed /\ ~empty.s.open /\ bad # "create" ->
                 IF bad \in {"progress", "progress_and_abort"} THEN Abort(made, bad) ELSE made
  BY DEF Prepare
<1>3. Shaped(made) /\ made.s.open /\ made.c = empty.c
  <2>1. /\ DOMAIN NewSession = DOMAIN NewSession /\ NewSession.open = TRUE
        /\ NewSession.inbox = <<>> /\ NewSession.outbox = <<>>
    BY DEF NewSession
  <2> QED
    BY <1>1, <2>1, Empty DEF Shaped
<1> HIDE DEF empty, v, made
<1>4. CASE empty.c.failed
  <2>1. v = empty
    BY <1>2, <1>4
  <2> QED
    BY <1>1, <1>4, <2>1
<1>5. CASE ~empty.c.failed /\ (empty.s.open \/ bad = "create")
  <2>1. v = Abort(empty, bad)
    BY <1>2, <1>5
  <2> QED
    BY <1>1, <2>1, Aborts
<1>6. CASE ~empty.c.failed /\ ~(empty.s.open \/ bad = "create")
  <2>1. v = IF bad \in {"progress", "progress_and_abort"} THEN Abort(made, bad) ELSE made
    BY <1>2, <1>6
  <2>2. CASE v = made
    BY <1>3, <1>6, <2>2
  <2>3. CASE v = Abort(made, bad)
    BY <1>3, <2>3, Aborts
  <2> QED
    BY <2>1, <2>2, <2>3
<1> QED
  BY <1>4, <1>5, <1>6

\* The session is greeted, and the client owns it; or it goes again.
LEMMA Greets ==
  ASSUME NEW w, NEW bundle, NEW cache, NEW bad, Shaped(w), w.s.open
  PROVE  Fine(Greet(w, bundle, cache, bad))
<1> DEFINE ready == [w EXCEPT !.c.pending = bundle, !.c.cache = cache]
           hello == Message("hello", NewMessage(ready))
           sent == Send(ready, hello)
           met == [sent EXCEPT !.c.destroy = FALSE, !.c.reset = FALSE]
<1>1. Keeps(ready, w)
  BY DEF Shaped, Keeps, NewClient, NewSession
<1>2. hello.tag \in InTags
  BY Tagged DEF InTags
<1>3. Greet(w, bundle, cache, bad) = IF bad \in {"hello", "hello_and_abort"} THEN Abort(ready, bad) ELSE met
  BY DEF Greet
<1> HIDE DEF ready, hello
<1>4. Keeps(sent, ready)
  BY <1>1, <1>2, Tells DEF Keeps
<1> HIDE DEF sent
<1>5. Shaped(met) /\ met.c.reset = FALSE /\ met.s = sent.s
  BY <1>4 DEF Keeps, Shaped, NewClient
<1>6. met.s.open
  BY <1>1, <1>4, <1>5 DEF Keeps
<1> HIDE DEF met
<1>7. Fine(met)
  BY <1>5, <1>6, Zenon DEF Fine, Owned
<1>8. Fine(Abort(ready, bad))
  BY <1>1, Aborts DEF Keeps, Fine
<1> QED
  BY <1>3, <1>7, <1>8

\* recreate
LEMMA Recreates ==
  ASSUME NEW w, NEW bundle, NEW cache, NEW bad, Fine(w)
  PROVE  Fine(Recreate(w, bundle, cache, bad))
<1> DEFINE told == Emit(w, "cleared")
           prepared == Prepare(told, bad)
<1>1. Fine(told)
  BY Tells, Carries DEF Fine
<1> HIDE DEF told
<1>2. Shaped(prepared) /\ (prepared.c.failed => Owned(prepared)) /\ (~prepared.c.failed => prepared.s.open)
  BY <1>1, Prepares
<1>3. Recreate(w, bundle, cache, bad) = IF prepared.c.failed THEN prepared ELSE Greet(prepared, bundle, cache, bad)
  BY DEF Recreate, told
<1> HIDE DEF prepared
<1> QED
  BY <1>2, <1>3, Greets DEF Fine

\* _load_project and restart_recompile
LEMMA LoadsDirectory ==
  ASSUME NEW w, NEW full, NEW bad, Fine(w)
  PROVE  Fine(LoadDirectory(w, full, bad))
<1> DEFINE empty == BeginReset(w, bad)
           bundle == Scan(w, 1, full)
<1>1. Fine(empty)
  BY Begins DEF Fine
<1>2. Fine(Raise(empty))
  BY <1>1, Tells, Carries DEF Fine
<1> HIDE DEF bundle
<1>3. Fine(Recreate(empty, bundle, ~full, bad))
  BY <1>1, Recreates
<1>4. \/ LoadDirectory(w, full, bad) = empty \/ LoadDirectory(w, full, bad) = Raise(empty)
      \/ LoadDirectory(w, full, bad) = Recreate(empty, bundle, ~full, bad)
  BY DEF LoadDirectory, bundle
<1> QED
  BY <1>1, <1>2, <1>3, <1>4

\* _load_project_file
LEMMA LoadsFile ==
  ASSUME NEW w, NEW bad, Fine(w)
  PROVE  Fine(LoadFile(w, bad))
<1> DEFINE empty == BeginReset(w, bad)
           prepared == Prepare(empty, bad)
           told == Emit(prepared, "cleared")
           file == Scan(w, 1, TRUE)
<1>1. Fine(empty)
  BY Begins DEF Fine
<1>2. Fine(Raise(empty))
  BY <1>1, Tells, Carries DEF Fine
<1>3. LoadFile(w, bad) =
        CASE empty.c.failed -> empty
          [] ~empty.c.failed /\ bad = "scan" -> Raise(empty)
          [] ~empty.c.failed /\ bad # "scan" ->
               IF prepared.c.failed THEN prepared
               ELSE IF bad \in {"decode", "decode_and_abort"} THEN Abort(prepared, bad)
               ELSE Greet(told, file, TRUE, bad)
  BY DEF LoadFile
<1> HIDE DEF empty
<1>4. Shaped(prepared) /\ (prepared.c.failed => Owned(prepared)) /\ (~prepared.c.failed => prepared.s.open)
  BY <1>1, Prepares
<1> HIDE DEF prepared
<1>5. Keeps(told, prepared)
  BY <1>4, Tells
<1> HIDE DEF told, file
<1>6. ~prepared.c.failed => Fine(Greet(told, file, TRUE, bad))
  BY <1>4, <1>5, Greets DEF Keeps
<1>7. Fine(Abort(prepared, bad))
  BY <1>4, Aborts DEF Fine
<1>8. \/ LoadFile(w, bad) = empty \/ LoadFile(w, bad) = Raise(empty)
      \/ prepared.c.failed /\ LoadFile(w, bad) = prepared
      \/ LoadFile(w, bad) = Abort(prepared, bad)
      \/ ~prepared.c.failed /\ LoadFile(w, bad) = Greet(told, file, TRUE, bad)
  BY <1>3
<1> QED
  BY <1>1, <1>2, <1>4, <1>6, <1>7, <1>8 DEF Fine

\* A restart loads what was played.
LEMMA Loads ==
  ASSUME NEW w, NEW bad, Fine(w)
  PROVE  Fine(Load(w, bad))
BY LoadsDirectory, LoadsFile DEF Load
-----------------------------------------------------------------------------
(* Operations that leave the handle alone *)

\* What the client asks for, and stores that it did.
LEMMA Asks ==
  ASSUME NEW w, Shaped(w), NEW m, m.tag \in InTags, NEW x, NEW y
  PROVE  LET sent == Send(w, m) IN
         /\ Keeps(sent, w)
         /\ Keeps([sent EXCEPT !.c.compatibility = x], w) /\ Keeps([sent EXCEPT !.c.update = x], w)
         /\ Keeps([sent EXCEPT !.c.preferences = x], w)
         /\ Keeps([sent EXCEPT !.c.candidate = x, !.c.reload = y], w)
         /\ Keeps([sent EXCEPT !.c.update = x, !.c.torn = y], w)
<1> DEFINE sent == Send(w, m)
<1>1. Keeps(sent, w)
  BY Tells
<1> SUFFICES /\ Keeps([sent EXCEPT !.c.compatibility = x], w) /\ Keeps([sent EXCEPT !.c.update = x], w)
             /\ Keeps([sent EXCEPT !.c.preferences = x], w)
             /\ Keeps([sent EXCEPT !.c.candidate = x, !.c.reload = y], w)
             /\ Keeps([sent EXCEPT !.c.update = x, !.c.torn = y], w)
  BY <1>1
<1> HIDE DEF sent
<1> QED
  BY <1>1 DEF Keeps, Shaped, NewClient

\* _submit_project, materialize and _resolve_project_compatibility
LEMMA Submits ==
  ASSUME NEW w, Shaped(w), NEW cache
  PROVE  Keeps(Submit(w, cache), w) /\ Keeps(Materialize(w), w) /\ Keeps(Resolve(w), w)
<1> DEFINE id == NewMessage(w)
           project == [Message("project", id) EXCEPT !.bundle = w.c.pending, !.contents = cache]
           resolve == Message("resolve", id)
<1>1. project.tag \in InTags /\ resolve.tag \in InTags
  BY Tagged DEF InTags
<1>2. \/ Submit(w, cache) = w \/ Submit(w, cache) = Send(w, project)
  BY DEF Submit
<1>3. \/ Resolve(w) = w \/ Resolve(w) = Raise(w)
      \/ Resolve(w) = [Send(w, resolve) EXCEPT !.c.compatibility = id]
  BY DEF Resolve
<1> HIDE DEF id, project, resolve
<1>4. Keeps(Submit(w, cache), w)
  BY <1>1, <1>2, Asks, Stores
<1>5. Keeps(Resolve(w), w)
  <2>1. Keeps([Send(w, resolve) EXCEPT !.c.compatibility = id], w)
    BY <1>1, Asks
  <2>2. Keeps(w, w) /\ Keeps(Raise(w), w)
    BY Stores, Tells
  <2> QED
    BY <1>3, <2>1, <2>2
<1>6. Keeps(Materialize(w), w)
  BY Stores DEF Materialize
<1> QED
  BY <1>4, <1>5, <1>6

\* _handle_project_compatibility, _handle_project_needs_source
LEMMA Stages ==
  ASSUME NEW w, Shaped(w), NEW m, NEW bad
  PROVE  Keeps(HandleResolved(w, m, bad), w) /\ Keeps(HandleNeedsSource(w), w)
<1> DEFINE resolved == [w EXCEPT !.c.compatibility = 0]
           whole == Materialize(resolved)
           fetched == Materialize(w)
<1>1. Keeps(w, w) /\ Keeps(resolved, w)
  BY Stores
<1>2. /\ HandleResolved(w, m, bad) \in {w, Emit(resolved, "runtime_error"), Submit(resolved, w.d.sources),
                                       Submit(resolved, w.d.cache), Submit(whole, 0)}
      /\ HandleNeedsSource(w) \in {Emit(w, "error"), Submit(fetched, 0)}
  BY DEF HandleResolved, HandleNeedsSource
<1> HIDE DEF resolved
<1>3. Keeps(whole, resolved) /\ Keeps(fetched, w)
  BY <1>1, Submits DEF Keeps
<1> HIDE DEF whole, fetched
<1>4. Keeps(whole, w)
  BY <1>1, <1>3, Both
<1>5. \A cache : /\ Keeps(Submit(resolved, cache), w) /\ Keeps(Submit(whole, cache), w)
                 /\ Keeps(Submit(fetched, cache), w)
  <2> TAKE cache
  <2>1. /\ Keeps(Submit(resolved, cache), resolved) /\ Keeps(Submit(whole, cache), whole)
        /\ Keeps(Submit(fetched, cache), fetched)
    BY <1>1, <1>3, <1>4, Submits DEF Keeps
  <2> QED
    BY <1>1, <1>3, <1>4, <2>1, Both
<1>6. Keeps(Emit(w, "error"), w) /\ Keeps(Emit(resolved, "runtime_error"), resolved)
  BY <1>1, Tells DEF Keeps
<1>7. Keeps(Emit(resolved, "runtime_error"), w)
  BY <1>1, <1>6, Both
<1> QED
  BY <1>1, <1>2, <1>5, <1>6, <1>7

\* write_configuration and the scan that follows it
LEMMA Writes ==
  ASSUME NEW w, Shaped(w), NEW contents
  PROVE  Keeps(Written(w, contents), w)
BY DEF Written, Shaped, Keeps

\* _begin_configuration_update
LEMMA Updates ==
  ASSUME NEW w, Shaped(w), NEW restart, NEW automatic
  PROVE  Keeps(BeginUpdate(w, restart, automatic), w)
<1> DEFINE id == NewMessage(w)
           prepare == [Message("prepare", id) EXCEPT !.conf = w.c.snapshot.conf]
           update == [NoUpdate EXCEPT !.stage = "prepare", !.id = id, !.restart = restart,
                                      !.automatic = automatic, !.digest = w.c.snapshot.conf]
<1>1. prepare.tag \in InTags
  BY Tagged DEF InTags
<1>2. BeginUpdate(w, restart, automatic) = [Send(w, prepare) EXCEPT !.c.update = update]
  BY DEF BeginUpdate
<1> HIDE DEF prepare, update
<1> QED
  BY <1>1, <1>2, Asks

\* _publish_configuration
LEMMA Publishes ==
  ASSUME NEW w, Shaped(w), NEW m, NEW confirm, NEW bad
  PROVE  Keeps(Publish(w, m, confirm, bad), w)
<1> DEFINE told == [w EXCEPT !.c.snapshot = [known |-> TRUE, conf |-> m.conf, generated |-> m.contents]]
           bundle == Rescanned(w, m.contents)
           wrote == Written(told, m.contents)
           taken == wrote.c.taken \/ w.d.sources # w.c.bundle.sources
           saved == [wrote EXCEPT !.c.bundle = bundle, !.c.due = FALSE, !.c.taken = taken]
           begun == BeginUpdate(saved, FALSE, TRUE)
           lost == Written(w, m.contents)
           torn == [lost EXCEPT !.c.torn = TRUE]
           gone == [torn EXCEPT !.c.snapshot = NoSnapshot]
           kept == [w EXCEPT !.c.snapshot = NoSnapshot]
<1>1. Publish(w, m, confirm, bad) \in
        {Emit(told, "configuration"), Emit(begun, "configuration"), Emit(saved, "configuration"),
         Emit(gone, "error"), Emit(kept, "error")}
  BY DEF Publish
<1>2. Keeps(told, w) /\ Keeps(kept, w) /\ Keeps(lost, w)
  BY Stores, Writes
<1> HIDE DEF told, lost, kept, bundle
<1>3. Keeps(wrote, told) /\ Keeps(torn, lost) /\ Keeps(gone, torn)
  <2>1. Shaped(told) /\ Shaped(lost)
    BY <1>2 DEF Keeps
  <2>2. Keeps(torn, lost)
    BY <2>1, Stores
  <2>3. Keeps(gone, torn)
    <3>1. Shaped(torn)
      BY <2>2 DEF Keeps
    <3> HIDE DEF torn
    <3> QED
      BY <3>1, Stores
  <2> QED
    BY <2>1, <2>2, <2>3, Writes
<1> HIDE DEF wrote, torn, gone, taken
<1>4. Keeps(saved, wrote)
  BY <1>3 DEF Keeps, Shaped, NewClient
<1> HIDE DEF saved
<1>5. Keeps(begun, saved)
  <2>1. Shaped(saved)
    BY <1>4 DEF Keeps
  <2> QED
    BY <2>1, Updates
<1> HIDE DEF begun
<1>6. Keeps(saved, w) /\ Keeps(begun, w) /\ Keeps(gone, w)
  BY <1>2, <1>3, <1>4, <1>5, Both
<1>7. ASSUME NEW v \in {told, begun, saved, gone, kept}, NEW event
      PROVE  Keeps(Emit(v, event), w)
  <2>1. Keeps(v, w)
    BY <1>2, <1>6
  <2>2. Keeps(Emit(v, event), v)
    BY <2>1, Tells DEF Keeps
  <2> QED
    BY <2>1, <2>2, Both
<1> QED
  BY <1>1, <1>7

\* _continue_project_start, _begin_client_preferences and save_client_preferences
LEMMA Prefers ==
  ASSUME NEW w, Shaped(w), NEW bad
  PROVE  Keeps(Start(w), w) /\ Keeps(BeginPreferences(w), w) /\ Keeps(SavePreferences(w, bad), w)
<1> DEFINE id == NewMessage(w)
           start == Message("start", id)
           ask == Message("preferences", id)
           first == [Send(w, ask) EXCEPT !.c.preferences = [id |-> id, save |-> FALSE, start |-> TRUE]]
           later == [Send(w, ask) EXCEPT !.c.preferences = [id |-> id, save |-> TRUE, start |-> FALSE]]
<1>1. start.tag \in InTags /\ ask.tag \in InTags
  BY Tagged DEF InTags
<1>2. /\ Start(w) = Send(w, start)
      /\ BeginPreferences(w) \in {Start(w), first}
      /\ SavePreferences(w, bad) \in {Emit(w, "preferences_failed"), Emit(w, "preferences_applied"), later}
  BY DEF Start, BeginPreferences, SavePreferences
<1> HIDE DEF start, ask
<1>3. Keeps(Send(w, start), w) /\ Keeps(first, w) /\ Keeps(later, w)
  BY <1>1, Asks
<1> HIDE DEF first, later
<1> QED
  BY <1>2, <1>3, Tells

\* _handle_client_preferences_applied
LEMMA Applies ==
  ASSUME NEW w, Shaped(w), NEW m
  PROVE  Keeps(HandleApplied(w, m), w)
<1> DEFINE stored == [w EXCEPT !.c.preferences = NoPreferences,
                               !.c.snapshot = [known |-> TRUE, conf |-> m.conf, generated |-> m.contents]]
           applied == Emit(stored, "configuration")
<1>1. HandleApplied(w, m) \in {w, Start(applied), Emit(applied, "preferences_applied"), applied}
  BY DEF HandleApplied
<1>2. Keeps(stored, w)
  BY DEF Keeps, Shaped, NewClient
<1> HIDE DEF stored
<1>3. Keeps(applied, stored)
  BY <1>2, Tells DEF Keeps
<1>4. Keeps(applied, w)
  BY <1>2, <1>3, Both
<1> HIDE DEF applied
<1>5. Keeps(Start(applied), applied) /\ Keeps(Emit(applied, "preferences_applied"), applied)
  BY <1>4, Prefers, Tells DEF Keeps
<1>6. Keeps(Start(applied), w) /\ Keeps(Emit(applied, "preferences_applied"), w) /\ Keeps(w, w)
  BY <1>4, <1>5, Both, Stores
<1> QED
  BY <1>1, <1>4, <1>6

\* _handle_configuration_prepared
LEMMA Saves ==
  ASSUME NEW w, Shaped(w), NEW m, NEW bad
  PROVE  Keeps(HandlePrepared(w, m, bad), w)
<1> DEFINE u == w.c.update
           id == NewMessage(w)
           allowed == w.c.bundle # NoBundle /\ m.conf = u.digest
                        /\ (ReadOnly(w) \/ MayWrite(w, u.digest, m.contents, bad))
           wrote == allowed /\ (ReadOnly(w) \/ bad # "rescan")
           candidate == IF ReadOnly(w) THEN NoBundle ELSE Rescanned(w, m.contents)
           after == IF allowed /\ ~ReadOnly(w) THEN Written(w, m.contents) ELSE w
           finalize == [u EXCEPT !.stage = "finalize", !.id = id, !.commit = wrote,
                                 !.candidate = IF wrote THEN candidate ELSE NoBundle]
           message == [Message("finalize", id) EXCEPT !.contents = IF wrote THEN 1 ELSE 0]
           torn == Send(after, message).c.torn \/ (~wrote /\ (allowed \/ u.automatic))
           asked == [Send(after, message) EXCEPT !.c.update = finalize, !.c.torn = torn]
<1>1. HandlePrepared(w, m, bad) \in {w, asked, Emit(asked, "save_failed")}
  BY DEF HandlePrepared
<1>2. message.tag \in InTags
  BY Tagged DEF InTags
<1>3. Keeps(w, w) /\ Keeps(after, w)
  BY Stores, Writes
<1> HIDE DEF after, message, finalize, torn
<1>4. Keeps(asked, after)
  <2>1. Shaped(after)
    BY <1>3 DEF Keeps
  <2> QED
    BY <1>2, <2>1, Asks
<1>5. Keeps(asked, w)
  BY <1>3, <1>4, Both
<1> HIDE DEF asked
<1>6. Keeps(Emit(asked, "save_failed"), asked)
  BY <1>5, Tells DEF Keeps
<1>7. Keeps(Emit(asked, "save_failed"), w)
  BY <1>5, <1>6, Both
<1> QED
  BY <1>1, <1>3, <1>5, <1>7

\* reload_all, prepare_configuration_update
LEMMA Commands ==
  ASSUME NEW w, Shaped(w), NEW restart, NEW bad
  PROVE  Keeps(Reload(w, bad), w) /\ Keeps(Save(w, restart), w)
<1> DEFINE b == w.c.bundle
           id == NewMessage(w)
           candidate == Scan(w, b.rev + 1, TRUE)
           same == [candidate EXCEPT !.rev = b.rev]
           message == [Message("reload", id) EXCEPT !.bundle = candidate]
           asked == [Send(w, message) EXCEPT !.c.candidate = candidate, !.c.reload = id]
           kept == [w EXCEPT !.c.bundle = same]
<1>1. Reload(w, bad) \in {Raise(w), kept, asked} /\ Save(w, restart) \in {Raise(w), BeginUpdate(w, restart, FALSE)}
  BY DEF Reload, Save
<1>2. message.tag \in InTags
  BY Tagged DEF InTags
<1> HIDE DEF candidate, message, same
<1>3. Keeps(asked, w)
  BY <1>2, Asks
<1>4. Keeps(kept, w)
  BY Stores
<1> HIDE DEF asked, kept
<1> QED
  BY <1>1, <1>3, <1>4, Tells, Updates

\* _handle_project_report
LEMMA Reports ==
  ASSUME NEW w, Shaped(w), NEW m, NEW bad
  PROVE  Keeps(HandleLoaded(w, m, bad), w) /\ Keeps(HandleLoadFailed(w), w)
<1> DEFINE reloaded == [w EXCEPT !.c.bundle = w.c.candidate, !.c.candidate = NoBundle, !.c.reload = 0,
                                 !.c.due = FALSE, !.c.taken = FALSE]
           loaded == IF w.c.pending = NoBundle THEN w
                     ELSE [w EXCEPT !.c.bundle = w.c.pending, !.c.pending = NoBundle,
                                    !.c.due = ~w.c.pending.full, !.c.taken = FALSE]
           failed == [w EXCEPT !.c.candidate = NoBundle, !.c.reload = 0]
           published == Publish(loaded, m, TRUE, bad)
           waiting == [published EXCEPT !.c.start = TRUE]
<1>1. /\ HandleLoaded(w, m, bad) \in {Publish(reloaded, m, TRUE, bad), waiting, BeginPreferences(published)}
      /\ HandleLoadFailed(w) = Emit(failed, "runtime_error")
  BY DEF HandleLoaded, HandleLoadFailed
<1>2. Keeps(reloaded, w) /\ Keeps(loaded, w) /\ Keeps(failed, w)
  BY DEF Keeps, Shaped, NewClient
<1> HIDE DEF reloaded, loaded, failed
<1>3. Keeps(published, loaded) /\ Keeps(Publish(reloaded, m, TRUE, bad), reloaded)
  <2>1. Shaped(loaded) /\ Shaped(reloaded)
    BY <1>2 DEF Keeps
  <2> QED
    BY <2>1, Publishes
<1> HIDE DEF published
<1>4. Keeps(waiting, published) /\ Keeps(BeginPreferences(published), published)
  <2>1. Shaped(published)
    BY <1>3 DEF Keeps
  <2> QED
    BY <2>1, Stores, Prefers
<1> HIDE DEF waiting
<1>5. /\ Keeps(Publish(reloaded, m, TRUE, bad), w) /\ Keeps(waiting, w)
      /\ Keeps(BeginPreferences(published), w)
  <2>1. Keeps(published, w)
    BY <1>2, <1>3, Both
  <2> QED
    BY <1>2, <1>3, <1>4, <2>1, Both
<1>6. Keeps(Emit(failed, "runtime_error"), w)
  <2>1. Keeps(Emit(failed, "runtime_error"), failed)
    BY <1>2, Tells DEF Keeps
  <2> QED
    BY <1>2, <2>1, Both
<1> QED
  BY <1>1, <1>5, <1>6

\* _handle_command_rejection
LEMMA Rejects ==
  ASSUME NEW w, Shaped(w), NEW m
  PROVE  Keeps(HandleRejected(w, m), w)
<1> DEFINE u == w.c.update
           dropped == [w EXCEPT !.c.update = NoUpdate, !.c.torn = @ \/ u.automatic \/ u.commit]
           blank == [dropped EXCEPT !.c.start = FALSE, !.c.snapshot = NoSnapshot]
           withdrawn == IF u.automatic THEN Emit(blank, "error") ELSE dropped
           unchanged == [w EXCEPT !.c.preferences = NoPreferences]
           resolved == [w EXCEPT !.c.compatibility = 0]
           kept == [w EXCEPT !.c.candidate = NoBundle, !.c.reload = 0]
<1>1. HandleRejected(w, m) \in
        {Emit(resolved, "runtime_error"), kept, Emit(withdrawn, "save_failed"), Start(unchanged),
         Emit(unchanged, "preferences_failed"), unchanged, Emit(w, "runtime_error")}
  BY DEF HandleRejected
<1>2. /\ Keeps(w, w) /\ Keeps(dropped, w) /\ Keeps(blank, w) /\ Keeps(unchanged, w)
      /\ Keeps(resolved, w) /\ Keeps(kept, w)
  BY ZenonT(40) DEF Keeps, Shaped, NewClient
<1> HIDE DEF blank, dropped, unchanged, resolved, kept
<1>3. ASSUME NEW v, NEW event, Keeps(v, w)
      PROVE  Keeps(Emit(v, event), w)
  <2>1. Keeps(Emit(v, event), v)
    BY <1>3, Tells DEF Keeps
  <2> QED
    BY <1>3, <2>1, Both
<1>4. Keeps(withdrawn, w)
  BY <1>2, <1>3
<1> HIDE DEF withdrawn
<1>5. Keeps(Start(unchanged), w)
  <2>1. Keeps(Start(unchanged), unchanged)
    BY <1>2, Prefers DEF Keeps
  <2> QED
    BY <1>2, <2>1, Both
<1> QED
  BY <1>1, <1>2, <1>3, <1>4, <1>5

\* _handle_configuration_committed, whose restart replaces the session.
LEMMA Commits ==
  ASSUME NEW w, Fine(w), NEW m, NEW bad
  PROVE  Fine(HandleCommitted(w, m, bad))
<1> DEFINE u == w.c.update
           dropped == [w EXCEPT !.c.update = NoUpdate]
           published == Publish(dropped, m, ~(u.automatic /\ ~u.commit), bad)
           stored == [published EXCEPT !.c.bundle = u.candidate, !.c.due = FALSE,
                        !.c.taken = @ \/ u.candidate.sources # published.c.bundle.sources]
           saved == Emit(stored, IF u.restart THEN "saved_restarting" ELSE "saved")
           restarted == Recreate(saved, u.candidate, TRUE, bad)
           calm == [restarted EXCEPT !.c.failed = FALSE]
           blank == [published EXCEPT !.c.start = FALSE, !.c.snapshot = NoSnapshot]
           ready == [published EXCEPT !.c.start = FALSE]
<1>1. HandleCommitted(w, m, bad) \in
        {w, Emit(published, "save_failed"), Emit(blank, "error"), published, BeginPreferences(ready),
         Emit(published, "session_applied"), saved, Emit(calm, "error"), restarted}
  BY DEF HandleCommitted
<1>2. Fine(dropped)
  BY Stores, Carries DEF Fine
<1> HIDE DEF u, dropped
<1>3. Fine(published)
  BY <1>2, Publishes, Carries DEF Fine
<1> HIDE DEF published
<1>4. Fine(stored) /\ Fine(blank) /\ Fine(ready)
  <2>1. Keeps(ready, published)
    BY <1>3, Stores DEF Fine
  <2>2. Keeps(blank, published) /\ Keeps(stored, published)
    BY <1>3 DEF Fine, Keeps, Shaped, NewClient
  <2> QED
    BY <1>3, <2>1, <2>2, Carries
<1> HIDE DEF stored, blank, ready
<1>5. ASSUME NEW v, NEW event, Fine(v)
      PROVE  Fine(Emit(v, event))
  BY <1>5, Tells, Carries DEF Fine
<1>6. Fine(saved)
  BY <1>4, <1>5
<1> HIDE DEF saved
<1>7. Fine(restarted)
  BY <1>6, Recreates
<1> HIDE DEF restarted
<1>8. Fine(calm)
  BY <1>7, Stores, Carries DEF Fine
<1> HIDE DEF calm
<1>9. Fine(BeginPreferences(ready))
  BY <1>4, Prefers, Carries DEF Fine
<1> QED
  BY <1>1, <1>3, <1>4, <1>5, <1>6, <1>7, <1>8, <1>9
-----------------------------------------------------------------------------
(* The steps *)

\* A command of the app, and the boundary around it.
LEMMA Processes ==
  ASSUME NEW w, Fine(w), NEW command \in Moves, NEW bad
  PROVE  Fine(Bounded(Process(w, command, bad)))
<1> DEFINE v == Process(w, command, bad)
<1>1. Fine(v)
  <2>1. v \in {Raise(w), Load(w, bad), LoadDirectory(w, TRUE, bad), Reload(w, bad), Save(w, FALSE), Save(w, TRUE),
                SavePreferences(w, bad)}
    BY StartAssumption DEF Process
  <2>2. Shaped(w)
    BY DEF Fine
  <2>3. /\ Keeps(Raise(w), w) /\ Keeps(Reload(w, bad), w) /\ Keeps(Save(w, FALSE), w) /\ Keeps(Save(w, TRUE), w)
        /\ Keeps(SavePreferences(w, bad), w)
    BY <2>2, Tells, Commands, Prefers
  <2>4. Fine(Load(w, bad)) /\ Fine(LoadDirectory(w, TRUE, bad))
    BY Loads, LoadsDirectory
  <2> HIDE DEF v
  <2> QED
    BY <2>1, <2>3, <2>4, Carries
<1> SUFFICES Fine(Bounded(v))
  OBVIOUS
<1> HIDE DEF v
<1>2. Fine([v EXCEPT !.c.failed = FALSE])
  BY <1>1, Stores, Carries DEF Fine
<1>3. Fine(Emit([v EXCEPT !.c.failed = FALSE], "error"))
  BY <1>2, Tells, Carries DEF Fine
<1> QED
  BY <1>1, <1>3 DEF Bounded

\* A message of the runtime.
LEMMA Handles ==
  ASSUME NEW w, Fine(w), NEW m, m.tag \in OutTags, NEW bad
  PROVE  Fine(Handle(w, m, bad))
<1> DEFINE v == Handle(w, m, bad)
<1>1. v \in {Raise(w), Resolve(w), HandleResolved(w, m, bad), HandleNeedsSource(w), HandleLoaded(w, m, bad),
              HandleLoadFailed(w), HandlePrepared(w, m, bad), HandleCommitted(w, m, bad), HandleApplied(w, m),
              HandleRejected(w, m), Emit(w, "runtime_error"), Emit(w, "phase")}
  BY DEF Handle, OutTags
<1>2. Shaped(w)
  BY DEF Fine
<1>3. /\ Keeps(Raise(w), w) /\ Keeps(Resolve(w), w) /\ Keeps(HandleResolved(w, m, bad), w)
      /\ Keeps(HandleNeedsSource(w), w) /\ Keeps(HandleLoaded(w, m, bad), w) /\ Keeps(HandleLoadFailed(w), w)
      /\ Keeps(HandlePrepared(w, m, bad), w) /\ Keeps(HandleApplied(w, m), w) /\ Keeps(HandleRejected(w, m), w)
      /\ Keeps(Emit(w, "runtime_error"), w) /\ Keeps(Emit(w, "phase"), w)
  BY <1>2, Tells, Submits, Stages, Reports, Saves, Applies, Rejects
<1>4. Fine(HandleCommitted(w, m, bad))
  BY Commits
<1> HIDE DEF v
<1> QED
  BY <1>1, <1>3, <1>4, Carries DEF v

\* What a step of the worker leaves, and what an exception leaves of it.
LEMMA Continues ==
  ASSUME NEW w, Fine(w), NEW next, next # "closed", Continue(w, next),
         commands \in Seq(Moves), pc = "commands" => commands # <<>> \/ w.c.failed
  PROVE  Inv'
<1> DEFINE wound == WindUp(w)
           after == IF w.c.failed THEN wound ELSE w
<1>1. Shaped(wound)
  <2> DEFINE x == ResetWire(w)
  <2>1. Keeps(x, w)
    BY Wire DEF Fine
  <2>2. wound = [x EXCEPT !.c.events = Append(@, "error"), !.c.failed = FALSE, !.c.reset = TRUE,
                          !.c.destroy = FALSE, !.s = Closed]
    BY DEF WindUp
  <2>3. DOMAIN Closed = DOMAIN NewSession /\ Closed.inbox = <<>> /\ Closed.outbox = <<>>
    BY DEF Closed, NewSession
  <2> HIDE DEF x, wound
  <2> QED
    BY <2>1, <2>2, <2>3, Empty DEF Keeps, Shaped, NewClient
<1>2. /\ client' = after.c /\ disk' = after.d /\ session' = after.s
      /\ pc' = IF w.c.failed THEN "closed" ELSE next
      /\ commands' = IF w.c.failed THEN <<>> ELSE IF pc = "commands" THEN Tail(commands) ELSE commands
  BY DEF Continue
<1> HIDE DEF wound
<1>3. Shaped(after)
  BY <1>1 DEF Fine
<1>4. World'.c = after.c /\ World'.s = after.s /\ DOMAIN World' = {"c", "d", "s"}
  BY <1>2 DEF World
<1>5. Shaped(World')
  BY <1>3, <1>4 DEF Shaped
<1>6. commands' \in Seq(Moves)
  BY <1>2
<1>7. ASSUME pc' # "closed"
      PROVE  Owned(World')
  <2>1. after = w
    BY <1>2, <1>7
  <2>2. Owned(w)
    BY DEF Fine
  <2> QED
    BY <1>4, <2>1, <2>2 DEF Owned
<1> QED
  BY <1>5, <1>6, <1>7 DEF Inv

\* An answer of the runtime moves a message from one queue to the other.
LEMMA Answered ==
  ASSUME Inv, session.inbox # <<>>, NEW s, NEW m, m.tag \in OutTags, Answer(s, m),
         DOMAIN s = DOMAIN NewSession, s.open = session.open,
         s.inbox = session.inbox, s.outbox = session.outbox, UNCHANGED <<client, disk, commands, pc>>
  PROVE  Inv'
<1>1. Shaped(World) /\ World.s = session /\ World.c = client
  BY DEF Inv, World
<1>2. Queue(Tail(session.inbox), InTags) /\ Queue(Append(session.outbox, m), OutTags)
  BY <1>1, Queues DEF Shaped
<1>3. session' = [s EXCEPT !.inbox = Tail(@), !.outbox = Append(@, m)]
  BY DEF Answer
<1>4. /\ DOMAIN session' = DOMAIN NewSession /\ session'.open = session.open
      /\ session'.inbox = Tail(session.inbox) /\ session'.outbox = Append(session.outbox, m)
  BY <1>3 DEF NewSession
<1>5. World'.c = client /\ World'.s = session' /\ DOMAIN World' = {"c", "d", "s"}
  BY DEF World
<1>6. Shaped(World')
  BY <1>1, <1>2, <1>4, <1>5 DEF Shaped
<1>7. pc' # "closed" => Owned(World')
  BY <1>1, <1>4, <1>5 DEF Inv, Owned
<1> QED
  BY <1>6, <1>7 DEF Inv

\* The runtime consumes an input: the session stays what it is.
LEMMA Consumes ==
  ASSUME Inv, RtConsume
  PROVE  Inv'
<1> DEFINE m == Head(session.inbox)
           compiled == [session EXCEPT !.compiled = m.bundle.sources, !.conf = m.bundle.conf]
<1>1. Shaped(World) /\ World.s = session /\ session.inbox # <<>> /\ UNCHANGED <<client, disk, commands, pc>>
  BY DEF Inv, World, RtConsume
<1>2. m.tag \in InTags
  BY <1>1, Queues DEF Shaped
<1>3. \A tag \in OutTags : \A id, conf : Message(tag, id).tag = tag /\ Profile(tag, m, conf).tag = tag
  BY DEF Message, Profile
<1>4. DOMAIN session = DOMAIN NewSession
  BY <1>1 DEF Shaped
<1> DEFINE Alike(s) == /\ DOMAIN s = DOMAIN NewSession /\ s.open = session.open
                       /\ s.inbox = session.inbox /\ s.outbox = session.outbox
<1>5. /\ Alike(session) /\ Alike(compiled)
      /\ \A x : /\ Alike([session EXCEPT !.next = x]) /\ Alike([session EXCEPT !.starts = x])
               /\ Alike([session EXCEPT !.conf = x, !.next = 0])
  BY <1>4 DEF NewSession
<1>6. ASSUME NEW s, NEW out, Answer(s, out), out.tag \in OutTags, Alike(s)
      PROVE  Inv'
  BY <1>1, <1>6, Answered
<1> HIDE DEF Alike, compiled
<1>7. CASE RtCompile(m)
  <2>1. \/ Answer(compiled, Profile("loaded", m, m.bundle.conf)) \/ Answer(session, Message("needs_source", m.id))
    BY <1>7 DEF RtCompile, compiled
  <2>2. Profile("loaded", m, m.bundle.conf).tag \in OutTags /\ Message("needs_source", m.id).tag \in OutTags
    BY <1>3 DEF OutTags
  <2> QED
    BY <1>5, <1>6, <2>1, <2>2
<1>8. CASE RtPrepare(m)
  <2> DEFINE contents == IF session.conf = 0 THEN 1 ELSE 1 + Cardinality(disk.written \cup {session.conf, 0})
             prepared == [Message("prepared", m.id) EXCEPT !.conf = m.conf, !.contents = contents]
             next == [session EXCEPT !.next = contents]
  <2>1. prepared.tag \in OutTags /\ Message("rejected", m.id).tag \in OutTags
    BY Tagged DEF OutTags
  <2>2. Answer(session, Message("rejected", m.id)) \/ Answer(next, prepared)
    BY <1>8 DEF RtPrepare
  <2>3. Alike(next)
    BY <1>5
  <2> HIDE DEF prepared, next
  <2> QED
    BY <1>5, <1>6, <2>1, <2>2, <2>3
<1>9. CASE RtFinalize(m)
  <2> DEFINE conf == IF m.contents = 1 THEN session.next ELSE session.conf
             next == [session EXCEPT !.conf = conf, !.next = 0]
  <2>1. Answer(next, Profile("committed", m, conf))
    BY <1>9 DEF RtFinalize
  <2> HIDE DEF conf
  <2>2. Alike(next)
    BY <1>5
  <2>3. Profile("committed", m, conf).tag \in OutTags
    BY <1>3 DEF OutTags
  <2> HIDE DEF next
  <2> QED
    BY <1>6, <2>1, <2>2, <2>3
<1>10. CASE \E tag \in OutTags : Answer(session, Message(tag, m.id)) \/ Refuse(Message(tag, m.id))
  <2>1. PICK tag \in OutTags : Answer(session, Message(tag, m.id))
    BY <1>10 DEF Refuse
  <2>2. Message(tag, m.id).tag \in OutTags
    BY <1>3
  <2> QED
    BY <1>5, <1>6, <2>1, <2>2
<1>11. CASE Answer(session, Profile("applied", m, session.conf))
  <2>1. Profile("applied", m, session.conf).tag \in OutTags
    BY <1>3 DEF OutTags
  <2> QED
    BY <1>5, <1>6, <1>11, <2>1
<1>12. CASE Answer([session EXCEPT !.starts = @ + 1], Message("phase", m.id))
  <2> DEFINE next == [session EXCEPT !.starts = session.starts + 1]
  <2>1. Message("phase", m.id).tag \in OutTags /\ Alike(next)
    BY <1>3, <1>5 DEF OutTags
  <2>2. Answer(next, Message("phase", m.id))
    BY <1>12
  <2> HIDE DEF next
  <2> QED
    BY <1>6, <2>1, <2>2
<1>13. CASE Refuse([Message("load_failed", m.id) EXCEPT !.bundle = m.bundle])
  <2> DEFINE failed == [Message("load_failed", m.id) EXCEPT !.bundle = m.bundle]
  <2>1. failed.tag \in OutTags
    BY Tagged DEF OutTags
  <2>2. Answer(session, failed)
    BY <1>13 DEF Refuse
  <2> HIDE DEF failed
  <2> QED
    BY <1>5, <1>6, <2>1, <2>2
<1> QED
  BY <1>2, <1>7, <1>8, <1>9, <1>10, <1>11, <1>12, <1>13 DEF RtConsume, InTags, OutTags

\* Every step.
LEMMA Steps ==
  ASSUME Inv, [Next]_vars
  PROVE  Inv'
<1> USE DEF Inv
<1>1. Shaped(World) /\ World.c = client /\ World.s = session /\ (pc # "closed" => Fine(World))
  BY DEF World, Fine
<1>2. CASE StartUp
  <2>1. PICK bad \in Operations : \E w \in {Load(World, bad)} : Continue(w, "commands")
    BY <1>2 DEF StartUp, Attempt
  <2>2. pc = "start" /\ Continue(Load(World, bad), "commands")
    BY <1>2, <2>1 DEF StartUp
  <2>3. Fine(Load(World, bad))
    BY <1>1, <2>2, Loads
  <2> QED
    BY <2>2, <2>3, Continues
<1>3. CASE ProcessCommand
  <2> DEFINE v(bad) == Bounded(Process(World, Head(commands), bad))
  <2>1. PICK bad \in Operations : \E w \in {v(bad)} : Continue(w, "commands")
    BY <1>3 DEF ProcessCommand, Attempt
  <2>2. pc = "commands" /\ commands # <<>> /\ Continue(v(bad), "commands") /\ Head(commands) \in Moves
    BY <1>3, <2>1 DEF ProcessCommand
  <2>3. Fine(v(bad))
    BY <1>1, <2>2, Processes
  <2> HIDE DEF v
  <2> QED
    BY <2>2, <2>3, Continues
<1>4. CASE HandleOutput
  <2> DEFINE x == [World EXCEPT !.s.outbox = Tail(@)]
             m == Head(session.outbox)
  <2>1. PICK bad \in Operations : \E w \in {Handle(x, m, bad)} : Continue(w, "polling")
    BY <1>4 DEF HandleOutput, Attempt
  <2>2. pc = "handling" /\ session.outbox # <<>> /\ Continue(Handle(x, m, bad), "polling")
    BY <1>4, <2>1 DEF HandleOutput
  <2>3. m.tag \in OutTags /\ Queue(Tail(session.outbox), OutTags)
    BY <1>1, <2>2, Queues DEF Shaped
  <2>4. Keeps(x, World)
    BY <1>1, <2>3 DEF Keeps, Shaped, NewSession
  <2>5. Fine(x)
    BY <1>1, <2>2, <2>4, Carries
  <2> HIDE DEF x, m
  <2>6. Fine(Handle(x, m, bad))
    BY <2>3, <2>5, Handles
  <2> QED
    BY <2>2, <2>6, Continues
<1>5. CASE EndPoll
  <2>1. pc = "polling" /\ (Continue(World, "commands") \/ Continue(Raise(World), "commands"))
    BY <1>5 DEF EndPoll
  <2>2. Fine(World) /\ Fine(Raise(World))
    BY <1>1, <2>1, Tells, Carries
  <2> QED
    BY <2>1, <2>2, Continues
<1>6. CASE BeginPump \/ EndDrive
  BY <1>6 DEF BeginPump, EndDrive, World
<1>7. CASE RtConsume
  BY <1>7, Consumes
<1>8. CASE Choose
  <2>1. UNCHANGED <<client, disk, session, pc>> /\ commands' \in Seq(Moves)
    BY <1>8 DEF Choose
  <2> QED
    BY <2>1 DEF World
<1>9. CASE HandleEvents
  <2>1. UNCHANGED <<disk, session, commands, pc>> /\ client' = [client EXCEPT !.events = <<>>]
    BY <1>9 DEF HandleEvents
  <2>2. /\ DOMAIN World' = {"c", "d", "s"} /\ DOMAIN World'.c = DOMAIN NewClient /\ World'.s = session
        /\ World'.c.reset = client.reset /\ World'.c.destroy = client.destroy
    BY <1>1, <2>1 DEF World, Shaped, NewClient
  <2>3. Keeps(World', World)
    BY <1>1, <2>2 DEF Keeps, Shaped
  <2>4. pc' # "closed" => Fine(World')
    BY <1>1, <2>1, <2>3, Carries
  <2> QED
    BY <2>1, <2>3, <2>4 DEF Keeps, Fine
<1>10. CASE TakeOutput \/ Edit
  <2>1. UNCHANGED <<client, session, commands>> /\ (pc' = "closed" => pc = "closed") /\ (pc = "closed" => pc' = "closed")
    BY <1>10 DEF TakeOutput, Edit
  <2>2. World'.c = World.c /\ World'.s = World.s /\ DOMAIN World' = {"c", "d", "s"}
    BY <2>1 DEF World
  <2> QED
    BY <2>1, <2>2 DEF Shaped, Owned
<1>11. CASE UNCHANGED vars
  BY <1>11 DEF vars, World
<1> QED
  BY <1>2, <1>3, <1>4, <1>5, <1>6, <1>7, <1>8, <1>9, <1>10, <1>11 DEF Next, Worker, Stopped

\* The inductive invariant.
LEMMA Invariant == Spec => []Inv
<1>1. Init => Inv
  <2> SUFFICES ASSUME Init
               PROVE  Inv
    OBVIOUS
  <2>1. /\ World.c = NewClient /\ World.s = NewSession /\ DOMAIN World = {"c", "d", "s"}
        /\ commands = <<>>
    BY DEF Init, World
  <2>2. /\ NewSession.inbox = <<>> /\ NewSession.outbox = <<>> /\ NewSession.open = TRUE
        /\ NewClient.reset = FALSE
    BY DEF NewSession, NewClient
  <2> QED
    BY <2>1, <2>2, Empty DEF Inv, Shaped, Owned
<1> QED
  BY <1>1, Steps, PTL DEF Spec

\* Whatever step of a replacement fails, and whatever the user does meanwhile,
\* the client has a live session to pump, a handle still to be destroyed, or
\* nothing (begin_session_reset, abort_session_replacement, recreate).
THEOREM HandleKnown == Spec => []HandleOwned
<1>1. Inv => HandleOwned
  BY DEF Inv, HandleOwned, Owned, World
<1> QED
  BY <1>1, Invariant, PTL
-----------------------------------------------------------------------------
(* What the client, the session and the disk agree on *)

LoadTags == {"hello", "welcome", "resolve", "resolved", "project", "needs_source"}
ReportTags == {"loaded", "load_failed"}
UpdateTags == {"prepare", "prepared", "finalize", "committed"}

\* What is under way, with what a handler has in its hand.
Flight(w, hand) == In(w.s.inbox) \cup In(w.s.outbox) \cup hand

\* A bundle is none or has a revision.
Sound(b) == b = NoBundle \/ b.rev \in Nat \ {0}

\* Every message under way has a number of its own.
Distinct(q) == \A i, j \in DOMAIN q : q[i].id = q[j].id => i = j
Numbered(w, hand) ==
  /\ Distinct(w.s.inbox) /\ Distinct(w.s.outbox)
  /\ \A m \in In(w.s.inbox) : \A n \in In(w.s.outbox) : m.id # n.id
  /\ \A m \in hand : \A n \in In(w.s.inbox) \cup In(w.s.outbox) : m.id # n.id
  /\ \A m \in Flight(w, hand) : m.id \in Nat \ {0}

\* What the client waits for is told apart by numbers.
Unlike(x, y) == x = y => x = 0
Apart(c) ==
  /\ Unlike(c.compatibility, c.reload) /\ Unlike(c.compatibility, c.update.id)
  /\ Unlike(c.compatibility, c.preferences.id) /\ Unlike(c.reload, c.update.id)
  /\ Unlike(c.reload, c.preferences.id) /\ Unlike(c.update.id, c.preferences.id)

\* A project is loaded by one message at a time.
Loading(w, m) == m.tag \in LoadTags \/ (m.tag \in ReportTags /\ w.c.pending # NoBundle)
OneLoad(w, hand) ==
  \A m, n \in Flight(w, hand) : Loading(w, m) /\ Loading(w, n) => m.id = n.id

\* A message belongs to what the client waits for.
Fits(w, m) ==
  /\ Loading(w, m) => w.c.pending # NoBundle
  /\ m.tag = "project" \/ (Loading(w, m) /\ m.tag = "loaded") => m.bundle = w.c.pending
  /\ m.tag = "reload" \/ (m.tag \in ReportTags /\ ~Loading(w, m)) =>
       w.c.candidate # NoBundle /\ m.bundle = w.c.candidate /\ m.id = w.c.reload
  /\ m.tag \in {"prepare", "prepared"} => w.c.update.stage = "prepare"
  /\ m.tag \in {"finalize", "committed"} => w.c.update.stage = "finalize"
  /\ m.tag \in UpdateTags => m.id = w.c.update.id
  /\ m.id = w.c.update.id => m.tag \in UpdateTags \cup {"rejected"}
  /\ m.id = w.c.reload => m.tag \in ReportTags \cup {"reload", "rejected"}
  /\ m.tag = "loaded" => w.s.compiled = m.bundle.sources

\* What the client keeps of its copies.
Books(w, hand) ==
  /\ DOMAIN w.c.update = DOMAIN NoUpdate /\ (w.c.update.stage = "none" => w.c.update = NoUpdate)
  /\ Sound(w.c.bundle) /\ Sound(w.c.pending) /\ Sound(w.c.candidate)
  /\ Sound(w.c.update.candidate)
  /\ w.c.pending # NoBundle => w.c.bundle = NoBundle
  /\ w.c.bundle = NoBundle => w.c.candidate = NoBundle /\ w.c.update = NoUpdate
  /\ w.c.candidate # NoBundle =>
       /\ w.c.candidate.full
       /\ \E m \in Flight(w, hand) : m.id = w.c.reload
  /\ w.c.update # NoUpdate => \E m \in Flight(w, hand) : m.id = w.c.update.id
  /\ w.c.bundle # NoBundle =>
       \/ w.c.taken \/ w.s.compiled = w.c.bundle.sources
       \/ \E m \in In(w.s.outbox) \cup hand : m.tag = "loaded"

Linked(w, hand) ==
  /\ Numbered(w, hand) /\ Apart(w.c) /\ OneLoad(w, hand) /\ Books(w, hand)
  /\ \A m \in Flight(w, hand) : Fits(w, m)

\* A client that was reset waits for nothing.
Blank(c) ==
  /\ c.bundle = NoBundle /\ c.pending = NoBundle /\ c.candidate = NoBundle
  /\ c.update = NoUpdate /\ c.compatibility = 0 /\ c.reload = 0

Whole(w) ==
  /\ Shaped(w) /\ DOMAIN w.d = {"project", "sources", "conf", "cache", "written", "seen"}
  /\ w.c.reset \in BOOLEAN

Agreed(w, hand) ==
  /\ Whole(w) /\ (w.c.reset = TRUE => Blank(w.c)) /\ (w.c.reset # TRUE => Linked(w, hand))

Orders ==
  /\ pc # "commands" => commands = <<>>
  /\ pc \in {"commands", "start"} => session.outbox = <<>>
  /\ pc = "driving" => client.reset # TRUE
  /\ \A i \in DOMAIN commands : commands[i] = "reload" => i = 1 /\ session.inbox = <<>>

CopiesInv ==
  /\ pc # "closed" => Agreed(World, {}) /\ Orders
  /\ pc = "closed" => session.compiled = 0

\* Nothing the copies depend on is other than it was, but what is under way and
\* what the client waits for.
Steady(v, w) ==
  /\ Shaped(v) /\ v.d = w.d /\ v.c.reset = w.c.reset
  /\ v.c.bundle = w.c.bundle /\ v.c.pending = w.c.pending /\ v.c.taken = w.c.taken
  /\ v.s.outbox = w.s.outbox /\ v.s.compiled = w.s.compiled
Alike(v, w) ==
  /\ Steady(v, w) /\ v.s.inbox = w.s.inbox
  /\ v.c.candidate = w.c.candidate /\ v.c.reload = w.c.reload /\ v.c.update = w.c.update
  /\ v.c.compatibility = w.c.compatibility /\ v.c.preferences.id = w.c.preferences.id

\* A number no message has and nobody waits for.
New(w, id) ==
  /\ id \in Nat \ {0} /\ \A m \in In(w.s.inbox) \cup In(w.s.outbox) : m.id # id
  /\ id # w.c.compatibility /\ id # w.c.reload /\ id # w.c.update.id /\ id # w.c.preferences.id

\* A session is there, and what is known of it.
Live(w, hand) == Agreed(w, hand) /\ w.c.reset # TRUE

\* No project is being loaded.
NoLoad(w) == \A m \in Flight(w, {}) : ~Loading(w, m)
-----------------------------------------------------------------------------
(* Numbers and queues *)

\* The number Fresh chooses exists: it is not taken, and not 0, which is None.
LEMMA FreshNumber ==
  ASSUME NEW used, IsFiniteSet(used)
  PROVE  Fresh(used) \in Nat \ {0} /\ Fresh(used) \notin used
<1> DEFINE n == Cardinality(used)
           Less == {pair \in Nat \X Nat : pair[1] < pair[2]}
           Free == {k \in 1..(n + 1) : k \notin used}
<1>1. n \in Nat
  BY FS_CardinalityType
<1>2. Free # {}
  <2>1. SUFFICES ASSUME 1..(n + 1) \subseteq used PROVE FALSE
    OBVIOUS
  <2>2. Cardinality(1..(n + 1)) <= n
    BY <2>1, FS_Subset
  <2>3. Cardinality(1..(n + 1)) = n + 1
    BY <1>1, FS_Interval
  <2> QED
    BY <1>1, <2>2, <2>3
<1>3. IsWellFoundedOn(Less, Nat)
  BY NatLessThanWellFounded DEF OpToRel
<1>4. PICK k \in Free : \A other \in Free : <<other, k>> \notin Less
  <2>1. Free \subseteq Nat
    BY <1>1
  <2> HIDE DEF Free, Less
  <2> QED
    BY <1>2, <1>3, <2>1, WFMin
<1>5. k \in 1..(n + 1) /\ k \notin used
  BY <1>4
<1>6. 1..(k - 1) \subseteq used
  <2>1. SUFFICES ASSUME NEW other \in 1..(k - 1), other \notin used PROVE FALSE
    OBVIOUS
  <2>2. other \in Free /\ <<other, k>> \in Less
    BY <1>1, <1>5, <2>1
  <2> QED
    BY <1>4, <2>2
<1>7. /\ Fresh(used) \in 1..(n + 1) /\ Fresh(used) \notin used
  BY <1>5, <1>6 DEF Fresh
<1> QED
  BY <1>1, <1>7

\* The number of a new message is nobody else's.
LEMMA NewNumber ==
  ASSUME NEW w, Shaped(w)
  PROVE  New(w, NewMessage(w))
<1> DEFINE messages == In(w.s.inbox) \cup In(w.s.outbox)
           ids == {m.id : m \in messages}
           kept == {w.c.compatibility, w.c.reload, w.c.update.id, w.c.preferences.id}
<1>1. ASSUME NEW q, NEW tags, Queue(q, tags)
      PROVE  IsFiniteSet(In(q))
  <2>1. PICK S : q \in Seq(S)
    BY <1>1 DEF Queue
  <2>2. DOMAIN q = 1..Len(q) /\ Len(q) \in Nat
    BY <2>1
  <2>3. IsFiniteSet(DOMAIN q)
    BY <2>2, FS_Interval
  <2>4. q \in Surjection(DOMAIN q, In(q))
    BY <2>1 DEF Surjection, In
  <2> QED
    BY <2>3, <2>4, FS_Surjection
<1>2. IsFiniteSet(messages)
  BY <1>1, FS_Union DEF Shaped
<1>3. IsFiniteSet(ids)
  <2> DEFINE number == [m \in messages |-> m.id]
  <2>1. number \in Surjection(messages, ids)
    BY DEF Surjection
  <2> HIDE DEF ids, number, messages
  <2> QED
    BY <1>2, <2>1, FS_Surjection
<1>4. IsFiniteSet(kept)
  <2>1. \A x : IsFiniteSet({x})
    BY FS_Singleton
  <2>2. IsFiniteSet({w.c.compatibility} \cup {w.c.reload}) /\ IsFiniteSet({w.c.update.id} \cup {w.c.preferences.id})
    BY <2>1, FS_Union
  <2>3. kept = ({w.c.compatibility} \cup {w.c.reload}) \cup ({w.c.update.id} \cup {w.c.preferences.id})
    OBVIOUS
  <2> HIDE DEF kept
  <2> QED
    BY <2>2, <2>3, FS_Union
<1>5. IsFiniteSet((ids \cup kept) \ {0})
  <2> HIDE DEF ids, kept
  <2> QED
    BY <1>3, <1>4, FS_Union, FS_Difference
<1>6. NewMessage(w) = Fresh((ids \cup kept) \ {0})
  BY DEF NewMessage
<1>7. NewMessage(w) \in Nat \ {0} /\ NewMessage(w) \notin ids \cup kept
  <2> HIDE DEF ids, kept
  <2> QED
    BY <1>5, <1>6, FreshNumber
<1> QED
  BY <1>7 DEF New

\* A message at the end of any sequence.
LEMMA AppendTo ==
  ASSUME NEW S, NEW q \in Seq(S), NEW m
  PROVE  /\ DOMAIN Append(q, m) = 1..(Len(q) + 1) /\ DOMAIN q = 1..Len(q) /\ Len(q) \in Nat
         /\ Append(q, m)[Len(q) + 1] = m
         /\ \A i \in 1..Len(q) : Append(q, m)[i] = q[i]
<1>1. q \in Seq(S \cup {m}) /\ m \in S \cup {m}
  OBVIOUS
<1> QED
  BY <1>1

\* A message at the end of a queue, and the first one taken off.
LEMMA Lines ==
  ASSUME NEW q, NEW tags, Queue(q, tags), Distinct(q)
  PROVE  /\ \A m : /\ In(Append(q, m)) = In(q) \cup {m}
                   /\ (\A n \in In(q) : n.id # m.id) => Distinct(Append(q, m))
         /\ q # <<>> => /\ In(q) = In(Tail(q)) \cup {Head(q)} /\ Distinct(Tail(q))
                        /\ \A n \in In(Tail(q)) : n.id # Head(q).id
<1>1. PICK S : q \in Seq(S)
  BY DEF Queue
<1>2. ASSUME NEW m
      PROVE  /\ In(Append(q, m)) = In(q) \cup {m}
             /\ (\A n \in In(q) : n.id # m.id) => Distinct(Append(q, m))
  <2>1. /\ DOMAIN Append(q, m) = 1..(Len(q) + 1) /\ DOMAIN q = 1..Len(q) /\ Len(q) \in Nat
        /\ Append(q, m)[Len(q) + 1] = m
        /\ \A i \in 1..Len(q) : Append(q, m)[i] = q[i]
    BY <1>1, AppendTo
  <2>2. In(Append(q, m)) = In(q) \cup {m}
    BY <2>1 DEF In
  <2>3. ASSUME \A n \in In(q) : n.id # m.id
        PROVE  Distinct(Append(q, m))
    <3>1. \A i \in 1..Len(q) : q[i].id # m.id
      BY <2>1, <2>3 DEF In
    <3> QED
      BY <2>1, <3>1 DEF Distinct
  <2> QED
    BY <2>2, <2>3
<1>3. ASSUME q # <<>>
      PROVE  /\ In(q) = In(Tail(q)) \cup {Head(q)} /\ Distinct(Tail(q))
             /\ \A n \in In(Tail(q)) : n.id # Head(q).id
  <2>1. /\ DOMAIN q = 1..Len(q) /\ Len(q) \in Nat \ {0} /\ Head(q) = q[1]
        /\ DOMAIN Tail(q) = 1..(Len(q) - 1)
        /\ \A i \in 1..(Len(q) - 1) : Tail(q)[i] = q[i + 1]
    BY <1>1, <1>3
  <2>2. In(q) \subseteq In(Tail(q)) \cup {Head(q)}
    <3>1. SUFFICES ASSUME NEW i \in 1..Len(q)
                   PROVE  q[i] \in In(Tail(q)) \cup {Head(q)}
      BY <2>1 DEF In
    <3>2. ASSUME i # 1
          PROVE  i - 1 \in DOMAIN Tail(q) /\ q[i] = Tail(q)[i - 1]
      BY <2>1, <3>2
    <3> QED
      BY <2>1, <3>2 DEF In
  <2>3. In(Tail(q)) \cup {Head(q)} \subseteq In(q)
    BY <2>1 DEF In
  <2>4. Distinct(Tail(q))
    BY <2>1 DEF Distinct
  <2>5. \A n \in In(Tail(q)) : n.id # Head(q).id
    BY <2>1 DEF In, Distinct
  <2> QED
    BY <2>2, <2>3, <2>4, <2>5
<1> QED
  BY <1>2, <1>3

\* What is sent is under way with all the rest, by a number of its own.
LEMMA Sent ==
  ASSUME NEW w, Shaped(w), Numbered(w, {}), NEW m, New(w, m.id), NEW v,
         v.s.inbox = Append(w.s.inbox, m), v.s.outbox = w.s.outbox
  PROVE  Numbered(v, {}) /\ Flight(v, {}) = Flight(w, {}) \cup {m}
<1>1. /\ m.id \in Nat \ {0} /\ \A n \in In(w.s.inbox) \cup In(w.s.outbox) : n.id # m.id
  BY DEF New
<1>2. In(v.s.inbox) = In(w.s.inbox) \cup {m} /\ Distinct(v.s.inbox) /\ In(v.s.outbox) = In(w.s.outbox)
  BY <1>1, Lines DEF Shaped, Numbered
<1> QED
  BY <1>1, <1>2 DEF Numbered, Flight
-----------------------------------------------------------------------------
(* What leaves the copies agreed *)

\* Events, exceptions and what only the app sees.
LEMMA StaysAgreed ==
  ASSUME NEW v, NEW w, NEW hand, Alike(v, w), Agreed(w, hand)
  PROVE  Agreed(v, hand)
<1>1. /\ Steady(v, w) /\ Flight(v, hand) = Flight(w, hand)
  BY DEF Alike, Steady, Flight
<1>2. Whole(v)
  BY <1>1 DEF Agreed, Whole, Steady
<1>3. v.c.reset = TRUE => Blank(v.c)
  BY DEF Agreed, Blank, Alike, Steady
<1>4. ASSUME v.c.reset # TRUE
      PROVE  Linked(v, hand)
  <2>1. Linked(w, hand)
    BY <1>4 DEF Agreed, Alike, Steady
  <2>2. Numbered(v, hand) /\ Apart(v.c)
    BY <1>1, <2>1 DEF Linked, Numbered, Apart, Alike, Steady
  <2>3. \A m : Loading(v, m) = Loading(w, m)
    BY DEF Loading, Alike, Steady
  <2>4. OneLoad(v, hand)
    BY <1>1, <2>1, <2>3 DEF Linked, OneLoad
  <2>5. Books(v, hand)
    BY <1>1, <2>1 DEF Linked, Books, Alike, Steady
  <2>6. \A m \in Flight(v, hand) : Fits(v, m)
    BY <1>1, <2>1, <2>3 DEF Linked, Fits, Alike, Steady
  <2> QED
    BY <2>2, <2>4, <2>5, <2>6 DEF Linked
<1> QED
  BY <1>2, <1>3, <1>4 DEF Agreed

\* A message that was handled is gone, and so is what the client waited for.
Settles(v, w, h) ==
  /\ Steady(v, w) /\ v.s.inbox = w.s.inbox
  /\ v.c.compatibility \in {w.c.compatibility, 0}
  /\ v.c.preferences.id \in {w.c.preferences.id, 0}
  /\ \/ /\ v.c.candidate = w.c.candidate /\ v.c.reload = w.c.reload
        /\ w.c.candidate # NoBundle => h.id # w.c.reload
     \/ /\ v.c.candidate = NoBundle /\ v.c.reload = 0
        /\ h.id = w.c.reload \/ w.c.candidate = NoBundle
  /\ \/ v.c.update = w.c.update /\ (w.c.update # NoUpdate => h.id # w.c.update.id)
     \/ v.c.update = NoUpdate /\ (h.id = w.c.update.id \/ w.c.update = NoUpdate)
  /\ h.tag = "loaded" /\ w.c.bundle # NoBundle => w.s.compiled = w.c.bundle.sources

\* What was known still holds when a message was handled, and a project that
\* was loaded by it is loaded by nothing else.
LEMMA SettledDown ==
  ASSUME NEW v, NEW w, NEW h, Settles(v, w, h), Live(w, {h})
  PROVE  Live(v, {}) /\ (Loading(w, h) => NoLoad(v))
<1> USE DEF Live
<1>1. /\ Linked(w, {h}) /\ v.c.reset # TRUE /\ Steady(v, w) /\ v.s.inbox = w.s.inbox
  BY DEF Agreed, Settles, Steady
<1>2. /\ Flight(w, {h}) = Flight(v, {}) \cup {h}
      /\ \A n \in Flight(v, {}) : n \in Flight(w, {h}) /\ n.id # h.id /\ n.id \in Nat \ {0}
  BY <1>1 DEF Flight, Steady, Linked, Numbered
<1>3. \A m : Loading(v, m) = Loading(w, m)
  BY <1>1 DEF Steady, Loading
<1>4. Whole(v)
  BY <1>1, <1>3 DEF Agreed, Whole, Steady
<1>5. Numbered(v, {})
  BY <1>1, <1>2 DEF Linked, Numbered, Steady, Flight
<1>6. NoUpdate.id = 0 /\ NoUpdate.stage = "none" /\ NoUpdate.candidate = NoBundle
  BY DEF NoUpdate
<1>7. Apart(v.c)
  <2>1. /\ v.c.update.id \in {w.c.update.id, 0} /\ v.c.reload \in {w.c.reload, 0}
    BY <1>6 DEF Settles
  <2> QED
    BY <1>1, <2>1 DEF Settles, Linked, Apart, Unlike
<1>8. OneLoad(v, {}) /\ (Loading(w, h) => NoLoad(v))
  BY <1>1, <1>2, <1>3 DEF Linked, OneLoad, NoLoad
<1>9. Books(v, {})
  <2>1. Books(w, {h})
    BY <1>1 DEF Linked
  <2>2. DOMAIN v.c.update = DOMAIN NoUpdate /\ (v.c.update.stage = "none" => v.c.update = NoUpdate)
    BY <2>1 DEF Settles, Books
  <2>3. /\ Sound(v.c.bundle) /\ Sound(v.c.pending) /\ Sound(v.c.candidate)
        /\ Sound(v.c.update.candidate)
    BY <1>1, <1>3, <1>6, <2>1 DEF Settles, Steady, Books, Sound
  <2>4. /\ v.c.pending # NoBundle => v.c.bundle = NoBundle
        /\ v.c.bundle = NoBundle => v.c.candidate = NoBundle /\ v.c.update = NoUpdate
    BY <1>1, <2>1 DEF Settles, Steady, Books
  <2>5. v.c.candidate # NoBundle =>
          /\ v.c.candidate.full /\ \E m \in Flight(v, {}) : m.id = v.c.reload
    BY <1>1, <1>2, <2>1 DEF Settles, Steady, Books
  <2>6. v.c.update # NoUpdate => \E m \in Flight(v, {}) : m.id = v.c.update.id
    BY <1>1, <1>2, <2>1 DEF Settles, Steady, Books
  <2>7. v.c.bundle # NoBundle =>
          \/ v.c.taken \/ v.s.compiled = v.c.bundle.sources
          \/ \E m \in In(v.s.outbox) \cup {} : m.tag = "loaded"
    BY <1>1, <2>1 DEF Settles, Steady, Books
  <2> QED
    BY <2>2, <2>3, <2>4, <2>5, <2>6, <2>7 DEF Books
<1>10. ASSUME NEW m \in Flight(v, {})
       PROVE  Fits(v, m)
  <2>1. Fits(w, m) /\ m.id # h.id /\ m.id # 0 /\ Loading(v, m) = Loading(w, m)
    BY <1>1, <1>2, <1>3 DEF Linked
  <2>2. /\ Loading(v, m) => v.c.pending # NoBundle
        /\ m.tag = "project" \/ (Loading(v, m) /\ m.tag = "loaded") => m.bundle = v.c.pending
        /\ m.tag = "loaded" => v.s.compiled = m.bundle.sources
    BY <1>1, <1>3, <2>1 DEF Fits, Steady
  <2>3. m.tag = "reload" \/ (m.tag \in ReportTags /\ ~Loading(v, m)) =>
          v.c.candidate # NoBundle /\ m.bundle = v.c.candidate /\ m.id = v.c.reload
    BY <1>1, <2>1 DEF Fits, Settles
  <2>4. /\ m.tag \in {"prepare", "prepared"} => v.c.update.stage = "prepare"
        /\ m.tag \in {"finalize", "committed"} => v.c.update.stage = "finalize"
        /\ m.tag \in UpdateTags => m.id = v.c.update.id
        /\ m.id = v.c.update.id => m.tag \in UpdateTags \cup {"rejected"}
    BY <1>1, <1>6, <2>1 DEF Fits, Settles, UpdateTags
  <2>5. m.id = v.c.reload => m.tag \in ReportTags \cup {"reload", "rejected"}
    BY <1>1, <2>1 DEF Fits, Settles
  <2> QED
    BY <2>2, <2>3, <2>4, <2>5 DEF Fits
<1> QED
  BY <1>1, <1>4, <1>5, <1>7, <1>8, <1>9, <1>10 DEF Agreed, Linked

\* What the client asks for, and what it waits for from then on.
Asking(v, w, m) ==
  /\ Steady(v, w) /\ v.s.inbox = Append(w.s.inbox, m) /\ New(w, m.id)
  /\ v.c.compatibility = IF m.tag = "resolve" THEN m.id ELSE w.c.compatibility
  /\ v.c.preferences.id = IF m.tag = "preferences" THEN m.id ELSE w.c.preferences.id
  /\ m.tag \in {"resolve", "project"} =>
       /\ NoLoad(w) /\ w.c.pending # NoBundle
       /\ m.tag = "project" => m.bundle = w.c.pending
  /\ m.tag \in {"prepare", "finalize"} =>
       /\ w.c.update = NoUpdate /\ w.c.bundle # NoBundle
       /\ DOMAIN v.c.update = DOMAIN NoUpdate /\ v.c.update.id = m.id /\ v.c.update.stage = m.tag
       /\ Sound(v.c.update.candidate)
  /\ m.tag \notin {"prepare", "finalize"} => v.c.update = w.c.update
  /\ m.tag = "reload" =>
       /\ w.c.candidate = NoBundle /\ w.c.bundle # NoBundle /\ v.c.reload = m.id
       /\ v.c.candidate = m.bundle /\ m.bundle # NoBundle /\ Sound(m.bundle)
       /\ m.bundle.full
  /\ m.tag # "reload" => v.c.reload = w.c.reload /\ v.c.candidate = w.c.candidate

\* What was known still holds when the client asked (_post).
LEMMA Asked ==
  ASSUME NEW v, NEW w, NEW m, Asking(v, w, m), Live(w, {}),
         m.tag \in {"start", "preferences", "resolve", "project", "prepare", "finalize", "reload"}
  PROVE  Live(v, {})
<1> USE DEF Live
<1>1. /\ Linked(w, {}) /\ v.c.reset # TRUE /\ Steady(v, w) /\ v.s.inbox = Append(w.s.inbox, m) /\ Shaped(w)
      /\ New(w, m.id)
  BY DEF Agreed, Asking, Steady, Whole
<1>2. Numbered(v, {}) /\ Flight(v, {}) = Flight(w, {}) \cup {m}
  <2>1. v.s.outbox = w.s.outbox
    BY <1>1 DEF Steady
  <2> QED
    BY <1>1, <2>1, Sent DEF Linked
<1>3. \A n : Loading(v, n) = Loading(w, n)
  BY <1>1 DEF Steady, Loading
<1>4. Whole(v)
  BY <1>1, <1>3 DEF Agreed, Whole, Steady
<1>5. /\ m.id \in Nat \ {0} /\ m.id # w.c.compatibility /\ m.id # w.c.reload /\ m.id # w.c.update.id
      /\ m.id # w.c.preferences.id
      /\ \A n \in Flight(w, {}) : n.id # m.id /\ n.id \in Nat \ {0}
  BY <1>1 DEF New, Flight, Linked, Numbered
<1>6. NoUpdate.id = 0 /\ NoUpdate.stage = "none" /\ NoUpdate.candidate = NoBundle
  BY DEF NoUpdate
<1>7. Apart(v.c)
  <2>1. Apart(w.c)
    BY <1>1 DEF Linked
  <2> QED
    BY <1>5, <2>1 DEF Asking, Apart, Unlike
<1>8. OneLoad(v, {})
  <2>1. Loading(w, m) => NoLoad(w)
    BY DEF Loading, LoadTags, ReportTags, Asking
  <2> QED
    BY <1>1, <1>2, <1>3, <2>1 DEF Linked, OneLoad, NoLoad
<1>9. Books(v, {})
  <2>1. Books(w, {})
    BY <1>1 DEF Linked
  <2>2. DOMAIN v.c.update = DOMAIN NoUpdate /\ (v.c.update.stage = "none" => v.c.update = NoUpdate)
    BY <2>1 DEF Asking, Books
  <2>3. /\ Sound(v.c.bundle) /\ Sound(v.c.pending) /\ Sound(v.c.candidate)
        /\ Sound(v.c.update.candidate)
    BY <1>1, <1>3, <2>1 DEF Asking, Steady, Books
  <2>4. /\ v.c.pending # NoBundle => v.c.bundle = NoBundle
        /\ v.c.bundle = NoBundle => v.c.candidate = NoBundle /\ v.c.update = NoUpdate
    BY <1>1, <2>1 DEF Asking, Steady, Books
  <2>5. v.c.candidate # NoBundle =>
          /\ v.c.candidate.full /\ \E n \in Flight(v, {}) : n.id = v.c.reload
    BY <1>1, <1>2, <2>1 DEF Asking, Steady, Books
  <2>6. v.c.update # NoUpdate => \E n \in Flight(v, {}) : n.id = v.c.update.id
    BY <1>1, <1>2, <2>1 DEF Asking, Steady, Books
  <2>7. v.c.bundle # NoBundle =>
          \/ v.c.taken \/ v.s.compiled = v.c.bundle.sources
          \/ \E n \in In(v.s.outbox) \cup {} : n.tag = "loaded"
    BY <1>1, <2>1 DEF Steady, Books
  <2> QED
    BY <2>2, <2>3, <2>4, <2>5, <2>6, <2>7 DEF Books
<1>10. ASSUME NEW n \in Flight(w, {})
       PROVE  Fits(v, n)
  <2>1. Fits(w, n) /\ n.id # m.id /\ n.id # 0 /\ Loading(v, n) = Loading(w, n)
    BY <1>1, <1>3, <1>5 DEF Linked
  <2>2. /\ Loading(v, n) => v.c.pending # NoBundle
        /\ n.tag = "project" \/ (Loading(v, n) /\ n.tag = "loaded") => n.bundle = v.c.pending
        /\ n.tag = "loaded" => v.s.compiled = n.bundle.sources
    BY <1>1, <1>3, <2>1 DEF Fits, Steady
  <2>3. n.tag = "reload" \/ (n.tag \in ReportTags /\ ~Loading(v, n)) =>
          v.c.candidate # NoBundle /\ n.bundle = v.c.candidate /\ n.id = v.c.reload
    BY <1>1, <2>1 DEF Fits, Asking
  <2>4. /\ n.tag \in {"prepare", "prepared"} => v.c.update.stage = "prepare"
        /\ n.tag \in {"finalize", "committed"} => v.c.update.stage = "finalize"
        /\ n.tag \in UpdateTags => n.id = v.c.update.id
        /\ n.id = v.c.update.id => n.tag \in UpdateTags \cup {"rejected"}
    BY <1>1, <1>6, <2>1 DEF Fits, Asking, UpdateTags
  <2>5. n.id = v.c.reload => n.tag \in ReportTags \cup {"reload", "rejected"}
    BY <1>1, <2>1 DEF Fits, Asking
  <2> QED
    BY <2>2, <2>3, <2>4, <2>5 DEF Fits
<1>11. Fits(v, m)
  <2>1. /\ m.tag \notin ReportTags /\ m.tag # "prepared" /\ m.tag # "committed"
        /\ Loading(v, m) = (m.tag \in {"resolve", "project"})
    BY DEF ReportTags, LoadTags, Loading
  <2>2. /\ Loading(v, m) => v.c.pending # NoBundle
        /\ m.tag = "project" => m.bundle = v.c.pending
    BY <1>1, <1>3, <2>1 DEF Asking, Steady
  <2>3. m.tag = "reload" => v.c.candidate # NoBundle /\ m.bundle = v.c.candidate /\ m.id = v.c.reload
    BY DEF Asking
  <2>4. m.id = v.c.reload => m.tag = "reload"
    BY <1>5 DEF Asking
  <2>5. /\ m.tag \in {"prepare", "finalize"} => m.id = v.c.update.id /\ v.c.update.stage = m.tag
        /\ m.id = v.c.update.id => m.tag \in {"prepare", "finalize"}
    BY <1>5 DEF Asking
  <2> QED
    BY <2>1, <2>2, <2>3, <2>4, <2>5 DEF Fits, UpdateTags
<1> QED
  BY <1>1, <1>2, <1>4, <1>7, <1>8, <1>9, <1>10, <1>11 DEF Agreed, Linked

\* The client replaces a bundle: by another of the same sources, by the sources the
\* runtime compiled, by others that it takes with the configuration, or the project
\* that is pending by the same with its sources, or by nothing when it is loaded.
Storing(v, w, hand) ==
  /\ Shaped(v) /\ v.c.reset = w.c.reset /\ DOMAIN v.d = DOMAIN w.d
  /\ v.s.inbox = w.s.inbox /\ v.s.outbox = w.s.outbox /\ v.s.compiled = w.s.compiled
  /\ v.c.candidate = w.c.candidate /\ v.c.reload = w.c.reload /\ v.c.update = w.c.update
  /\ v.c.compatibility = w.c.compatibility /\ v.c.preferences.id = w.c.preferences.id
  /\ Sound(v.c.bundle) /\ Sound(v.c.pending)
  /\ \/ v.c.pending = w.c.pending /\ v.c.bundle = w.c.bundle /\ (w.c.taken => v.c.taken)
     \/ /\ v.c.pending = w.c.pending /\ w.c.bundle # NoBundle /\ v.c.bundle # NoBundle
        /\ \/ v.c.bundle.sources = w.c.bundle.sources /\ (w.c.taken => v.c.taken)
           \/ v.c.bundle.sources = w.s.compiled
           \/ v.c.taken
     \/ /\ v.c.bundle = w.c.bundle /\ v.c.taken = w.c.taken /\ w.c.pending # NoBundle /\ v.c.pending # NoBundle
        /\ \A m \in Flight(w, hand) : ~Loading(w, m)
     \/ /\ w.c.pending # NoBundle /\ v.c.bundle = w.c.pending /\ v.c.pending = NoBundle
        /\ v.c.bundle.sources = w.s.compiled
        /\ \A m \in Flight(w, hand) : ~Loading(w, m)

\* What was known still holds when a bundle was replaced or a file written.
LEMMA Stored ==
  ASSUME NEW v, NEW w, NEW hand, Storing(v, w, hand), Live(w, hand)
  PROVE  Live(v, hand)
<1> USE DEF Live
<1>1. Linked(w, hand) /\ v.c.reset # TRUE /\ Flight(v, hand) = Flight(w, hand)
  BY DEF Agreed, Storing, Flight
<1>3. Whole(v)
  <2>1. Whole(w)
    BY DEF Agreed
  <2> QED
    BY <2>1 DEF Whole, Storing
<1>4. Numbered(v, hand)
  BY <1>1 DEF Linked, Numbered, Storing
<1>5. Apart(v.c)
  BY <1>1 DEF Linked, Apart, Storing
<1>6. ASSUME NEW m \in Flight(v, hand)
      PROVE  /\ Loading(v, m) => Loading(w, m) /\ v.c.pending # NoBundle
             /\ ~Loading(v, m) => ~Loading(w, m)
  <2>1. CASE v.c.pending = NoBundle <=> w.c.pending = NoBundle
    <3>1. Loading(v, m) = Loading(w, m)
      BY <2>1 DEF Loading
    <3>2. Loading(w, m) => w.c.pending # NoBundle
      BY <1>1 DEF Linked, Fits
    <3> QED
      BY <2>1, <3>1, <3>2
  <2>2. CASE ~(v.c.pending = NoBundle <=> w.c.pending = NoBundle)
    <3>1. ~Loading(w, m) /\ w.c.pending # NoBundle /\ v.c.pending = NoBundle
      BY <1>1, <2>2 DEF Storing
    <3> QED
      BY <3>1 DEF Loading
  <2> QED
    BY <2>1, <2>2
<1>7. OneLoad(v, hand)
  BY <1>1, <1>6 DEF Linked, OneLoad
<1>8. Books(v, hand)
  <2>1. Books(w, hand)
    BY <1>1 DEF Linked
  <2>2. DOMAIN v.c.update = DOMAIN NoUpdate /\ (v.c.update.stage = "none" => v.c.update = NoUpdate)
    BY <2>1 DEF Storing, Books
  <2>3. /\ Sound(v.c.bundle) /\ Sound(v.c.pending) /\ Sound(v.c.candidate)
        /\ Sound(v.c.update.candidate)
    BY <2>1 DEF Storing, Books
  <2>4. /\ v.c.pending # NoBundle => v.c.bundle = NoBundle
        /\ v.c.bundle = NoBundle => v.c.candidate = NoBundle /\ v.c.update = NoUpdate
    BY <2>1 DEF Storing, Books
  <2>5. v.c.candidate # NoBundle =>
          /\ v.c.candidate.full /\ \E m \in Flight(v, hand) : m.id = v.c.reload
    BY <1>1, <2>1 DEF Storing, Books
  <2>6. v.c.update # NoUpdate => \E m \in Flight(v, hand) : m.id = v.c.update.id
    BY <1>1, <2>1 DEF Storing, Books
  <2>7. v.c.bundle # NoBundle =>
          \/ v.c.taken \/ v.s.compiled = v.c.bundle.sources
          \/ \E m \in In(v.s.outbox) \cup hand : m.tag = "loaded"
    BY <2>1 DEF Storing, Books
  <2> QED
    BY <2>2, <2>3, <2>4, <2>5, <2>6, <2>7 DEF Books
<1>9. ASSUME NEW m \in Flight(v, hand)
      PROVE  Fits(v, m)
  <2>1. Fits(w, m)
    BY <1>1, <1>9 DEF Linked
  <2>2. /\ Loading(v, m) => v.c.pending # NoBundle
        /\ m.tag = "project" \/ (Loading(v, m) /\ m.tag = "loaded") => m.bundle = v.c.pending
    <3>1. m.tag = "project" => Loading(v, m)
      BY DEF Loading, LoadTags
    <3>2. Loading(v, m) => Loading(w, m) /\ v.c.pending = w.c.pending
      BY <1>1, <1>6, <1>9 DEF Storing
    <3> QED
      BY <1>6, <1>9, <2>1, <3>1, <3>2 DEF Fits, Storing
  <2>3. /\ m.tag = "reload" \/ (m.tag \in ReportTags /\ ~Loading(v, m)) =>
             v.c.candidate # NoBundle /\ m.bundle = v.c.candidate /\ m.id = v.c.reload
        /\ m.id = v.c.reload => m.tag \in ReportTags \cup {"reload", "rejected"}
    BY <1>6, <1>9, <2>1 DEF Fits, Storing
  <2>4. /\ m.tag \in {"prepare", "prepared"} => v.c.update.stage = "prepare"
        /\ m.tag \in {"finalize", "committed"} => v.c.update.stage = "finalize"
        /\ m.tag \in UpdateTags => m.id = v.c.update.id
        /\ m.id = v.c.update.id => m.tag \in UpdateTags \cup {"rejected"}
        /\ m.tag = "loaded" => v.s.compiled = m.bundle.sources
    BY <2>1 DEF Fits, Storing
  <2> QED
    BY <2>2, <2>3, <2>4 DEF Fits
<1> QED
  BY <1>1, <1>3, <1>4, <1>5, <1>7, <1>8, <1>9 DEF Agreed, Linked
-----------------------------------------------------------------------------
(* A session is replaced *)

\* A client between two sessions.
Gone(v, w) ==
  /\ Whole(v) /\ v.c.reset = TRUE /\ Blank(v.c) /\ v.d = w.d
  /\ w.s.outbox = <<>> => v.s.outbox = <<>>

\* What a replacement leaves: the project that is loaded again, or nothing.
Replaced(v, w) ==
  /\ Agreed(v, {}) /\ v.d = w.d /\ v.c.bundle = NoBundle
  /\ w.s.outbox = <<>> => v.s.outbox = <<>>

\* A session that has compiled nothing.
LEMMA Fresher ==
  ASSUME NEW s \in {NewSession, Closed}
  PROVE  /\ DOMAIN s = DOMAIN NewSession /\ s.inbox = <<>> /\ s.outbox = <<>> /\ s.compiled = 0
         /\ Queue(s.inbox, InTags) /\ Queue(s.outbox, OutTags)
<1>1. DOMAIN s = DOMAIN NewSession /\ s.inbox = <<>> /\ s.outbox = <<>> /\ s.compiled = 0
  BY DEF NewSession, Closed
<1> QED
  BY <1>1, Empty

\* _reset_wire_state
LEMMA Wiped ==
  ASSUME NEW w, Whole(w)
  PROVE  LET v == ResetWire(w) IN
         /\ Whole(v) /\ Blank(v.c) /\ v.c.reset = w.c.reset /\ v.c.failed = w.c.failed
         /\ v.c.destroy = w.c.destroy /\ v.d = w.d /\ v.s = w.s
<1> DEFINE v == ResetWire(w)
<1>1. /\ Blank(v.c) /\ v.c.reset = w.c.reset /\ v.c.failed = w.c.failed /\ v.c.destroy = w.c.destroy
      /\ v.d = w.d /\ v.s = w.s
  BY DEF Whole, Shaped, ResetWire, NewClient, Blank
<1>2. Shaped(v)
  BY Wire DEF Whole, Keeps
<1> HIDE DEF v
<1>3. Whole(v)
  BY <1>1, <1>2 DEF Whole
<1> QED
  BY <1>1, <1>3 DEF v

\* An exception, an event.
LEMMA Cries ==
  ASSUME NEW w, Shaped(w)
  PROVE  /\ Alike(Raise(w), w) /\ Raise(w).c.failed = TRUE
         /\ \A event : Alike(Emit(w, event), w) /\ Emit(w, event).c.failed = w.c.failed
<1>1. /\ Steady(Raise(w), w) /\ \A event : Steady(Emit(w, event), w)
  <2>1. Shaped(Raise(w)) /\ \A event : Shaped(Emit(w, event))
    BY Tells DEF Keeps
  <2> QED
    BY <2>1 DEF Shaped, Steady, Raise, Emit, NewClient
<1>2. Alike(Raise(w), w) /\ Raise(w).c.failed = TRUE
  BY <1>1 DEF Shaped, Alike, Raise, NewClient
<1>3. \A event : Alike(Emit(w, event), w) /\ Emit(w, event).c.failed = w.c.failed
  BY <1>1 DEF Shaped, Alike, Emit, NewClient
<1> QED
  BY <1>2, <1>3

\* What looks the same is as much gone.
LEMMA StaysGone ==
  ASSUME NEW u, NEW v, NEW w, Gone(v, w), Alike(u, v)
  PROVE  Gone(u, w)
<1>1. Agreed(v, {})
  BY DEF Gone, Agreed
<1>2. Agreed(u, {}) /\ u.c.reset = TRUE
  BY <1>1, StaysAgreed DEF Gone, Alike, Steady
<1> QED
  BY <1>2 DEF Agreed, Gone, Alike, Steady

\* begin_session_reset
LEMMA Begun ==
  ASSUME NEW w, NEW bad, Whole(w), w.c.reset = TRUE => Blank(w.c)
  PROVE  Gone(BeginReset(w, bad), w)
<1> DEFINE reset == [w EXCEPT !.c.reset = TRUE, !.c.destroy = TRUE]
           begun == IF w.c.reset THEN w ELSE Emit(reset, "reset")
           x == ResetWire(begun)
           closed == [x EXCEPT !.c.destroy = FALSE, !.s = Closed]
<1>1. BeginReset(w, bad) = IF ~begun.c.destroy THEN begun
                           ELSE IF bad = "destroy" /\ begun.s.open THEN Raise(x) ELSE closed
  BY DEF BeginReset
<1>2. /\ Whole(begun) /\ begun.c.reset = TRUE /\ begun.d = w.d /\ begun.s.outbox = w.s.outbox
      /\ ~begun.c.destroy => Blank(begun.c)
  <2>1. CASE w.c.reset = TRUE
    <3>1. begun = w
      BY <2>1
    <3> QED
      BY <2>1, <3>1
  <2>2. CASE w.c.reset # TRUE
    <3>1. begun = Emit(reset, "reset") /\ DOMAIN w.c = DOMAIN NewClient
      BY <2>2 DEF Whole, Shaped
    <3>2. Whole(reset) /\ reset.c.reset = TRUE /\ reset.c.destroy = TRUE /\ reset.d = w.d /\ reset.s = w.s
      BY DEF Whole, Shaped, NewClient
    <3> HIDE DEF reset
    <3>3. Alike(begun, reset)
      BY <3>1, <3>2, Cries DEF Whole
    <3>4. Whole(begun)
      BY <3>2, <3>3 DEF Whole, Alike, Steady
    <3>5. begun.c.destroy = TRUE
      BY <3>1, <3>2 DEF Emit, Whole, Shaped, NewClient
    <3> QED
      BY <3>2, <3>3, <3>4, <3>5 DEF Alike, Steady
  <2> QED
    BY <2>1, <2>2
<1> HIDE DEF begun
<1>3. Gone(x, w)
  BY <1>2, Wiped DEF Gone
<1>4. Gone(Raise(x), w)
  BY <1>3, Cries, StaysGone DEF Gone, Whole
<1>5. Gone(closed, w)
  <2> HIDE DEF x
  <2>1. /\ closed.d = x.d /\ closed.s = Closed /\ closed.c.reset = TRUE /\ Blank(closed.c)
        /\ DOMAIN closed = {"c", "d", "s"} /\ DOMAIN closed.c = DOMAIN NewClient
    BY <1>3 DEF Gone, Whole, Shaped, Blank, NewClient
  <2> HIDE DEF closed
  <2> QED
    BY <1>3, <2>1, Fresher DEF Gone, Whole, Shaped
<1>6. ~begun.c.destroy => Gone(begun, w)
  BY <1>2 DEF Gone
<1> QED
  BY <1>1, <1>4, <1>5, <1>6

\* abort_session_replacement
LEMMA Aborted ==
  ASSUME NEW w, NEW bad, Whole(w)
  PROVE  Gone(Abort(w, bad), w) /\ Abort(w, bad).c.failed = TRUE
<1> DEFINE stuck == w.s.open /\ bad \in {"progress_and_abort", "decode_and_abort", "hello_and_abort"}
           s == IF stuck THEN w.s ELSE Closed
           x == [w EXCEPT !.c.reset = TRUE, !.c.destroy = stuck, !.s = s]
           y == ResetWire(x)
<1>1. Abort(w, bad) = Raise(y)
  BY DEF Abort
<1>2. Whole(x) /\ x.c.reset = TRUE /\ x.d = w.d /\ (w.s.outbox = <<>> => x.s.outbox = <<>>)
  <2>1. /\ x.c.reset = TRUE /\ x.d = w.d /\ x.s = s /\ DOMAIN x = {"c", "d", "s"}
        /\ DOMAIN x.c = DOMAIN NewClient
    BY DEF Whole, Shaped, NewClient
  <2>2. CASE s = w.s
    BY <2>1, <2>2 DEF Whole, Shaped
  <2>3. CASE s = Closed
    <3> HIDE DEF x, s
    <3> QED
      BY <2>1, <2>3, Fresher DEF Whole, Shaped
  <2> QED
    BY <2>2, <2>3
<1> HIDE DEF x
<1>3. Gone(y, w)
  BY <1>2, Wiped DEF Gone
<1> HIDE DEF y
<1>4. Alike(Raise(y), y) /\ Raise(y).c.failed = TRUE
  BY <1>3, Cries DEF Gone, Whole
<1>5. Gone(Raise(y), w)
  BY <1>3, <1>4, StaysGone
<1> QED
  BY <1>1, <1>4, <1>5

\* prepare_replacement_session
LEMMA Prepared ==
  ASSUME NEW w, NEW bad, Whole(w), w.c.reset = TRUE => Blank(w.c)
  PROVE  LET v == Prepare(w, bad) IN Gone(v, w) /\ (~v.c.failed => v.s = NewSession)
<1> DEFINE empty == BeginReset(w, bad)
           v == Prepare(w, bad)
           made == [empty EXCEPT !.s = NewSession]
<1> SUFFICES Gone(v, w) /\ (~v.c.failed => v.s = NewSession)
  OBVIOUS
<1>1. Gone(empty, w)
  BY Begun
<1>2. \/ empty.c.failed /\ v = empty
      \/ v = Abort(empty, bad) \/ v = Abort(made, bad) \/ v = made
  BY DEF Prepare
<1> HIDE DEF empty, v
<1>3. Gone(made, w) /\ made.s = NewSession
  <2>1. made.c = empty.c /\ made.d = empty.d /\ made.s = NewSession /\ DOMAIN made = {"c", "d", "s"}
    BY <1>1 DEF Gone, Whole, Shaped
  <2> HIDE DEF made
  <2> QED
    BY <1>1, <2>1, Fresher DEF Gone, Whole, Shaped
<1> HIDE DEF made
<1>4. ASSUME NEW x, Gone(x, w)
      PROVE  Gone(Abort(x, bad), w) /\ Abort(x, bad).c.failed = TRUE
  <2>1. Gone(Abort(x, bad), x) /\ Abort(x, bad).c.failed = TRUE
    BY <1>4, Aborted DEF Gone
  <2> QED
    BY <1>4, <2>1 DEF Gone
<1> QED
  BY <1>1, <1>2, <1>3, <1>4

\* A replacement that was given up.
LEMMA Forgone ==
  ASSUME NEW v, NEW w, Gone(v, w)
  PROVE  Replaced(v, w)
BY DEF Gone, Replaced, Agreed, Blank

\* hello, the first message of a session.
LEMMA Greeted ==
  ASSUME NEW w, NEW bundle, NEW cache, NEW bad, Whole(w), w.c.reset = TRUE, Blank(w.c), w.s = NewSession,
         bundle # NoBundle, Sound(bundle)
  PROVE  Replaced(Greet(w, bundle, cache, bad), w)
<1> DEFINE ready == [w EXCEPT !.c.pending = bundle, !.c.cache = cache]
           id == NewMessage(ready)
           m == Message("hello", id)
           sent == Send(ready, m)
           v == [sent EXCEPT !.c.destroy = FALSE, !.c.reset = FALSE]
<1>1. Greet(w, bundle, cache, bad) = IF bad \in {"hello", "hello_and_abort"} THEN Abort(ready, bad) ELSE v
  BY DEF Greet
<1>2. /\ DOMAIN ready = {"c", "d", "s"} /\ DOMAIN ready.c = DOMAIN NewClient /\ ready.s = NewSession
      /\ ready.c.pending = bundle /\ ready.c.bundle = NoBundle /\ ready.c.candidate = NoBundle
      /\ ready.c.update = NoUpdate /\ ready.c.compatibility = 0 /\ ready.c.reload = 0
      /\ ready.c.preferences = w.c.preferences /\ ready.c.taken = w.c.taken /\ ready.c.reset = TRUE /\ ready.d = w.d
  BY DEF Whole, Shaped, NewClient, Blank
<1> HIDE DEF ready
<1>3. Whole(ready)
  BY <1>2, Fresher DEF Whole, Shaped
<1>4. Replaced(Abort(ready, bad), w)
  <2>1. Gone(Abort(ready, bad), ready)
    BY <1>3, Aborted
  <2>2. Gone(Abort(ready, bad), w)
    BY <1>2, <2>1 DEF Gone
  <2> QED
    BY <2>2, Forgone
<1>5. m.tag = "hello" /\ m.id = id /\ id \in Nat \ {0}
  <2>1. id \in Nat \ {0}
    BY <1>3, NewNumber DEF Whole, New
  <2> QED
    BY <2>1 DEF Message
<1> HIDE DEF m
<1>6. /\ v.d = w.d /\ v.c.pending = bundle /\ v.c.bundle = NoBundle /\ v.c.candidate = NoBundle
      /\ v.c.update = NoUpdate /\ v.c.compatibility = 0 /\ v.c.reload = 0 /\ v.c.reset = FALSE
      /\ v.s.inbox = Append(<<>>, m) /\ v.s.outbox = <<>> /\ v.s.compiled = 0
      /\ DOMAIN v = {"c", "d", "s"} /\ DOMAIN v.c = DOMAIN NewClient /\ DOMAIN v.s = DOMAIN NewSession
  <2>1. /\ sent.d = w.d /\ sent.c = ready.c /\ sent.s.inbox = Append(<<>>, m) /\ sent.s.outbox = <<>>
        /\ sent.s.compiled = 0 /\ DOMAIN sent = {"c", "d", "s"} /\ DOMAIN sent.s = DOMAIN NewSession
    BY <1>2 DEF Send, NewSession
  <2> HIDE DEF sent
  <2> QED
    BY <1>2, <2>1 DEF NewClient
<1> HIDE DEF v
<1>7. v.s.inbox = <<m>> /\ In(v.s.inbox) = {m} /\ In(v.s.outbox) = {} /\ Distinct(v.s.inbox) /\ Distinct(v.s.outbox)
  BY <1>6 DEF In, Distinct
<1>8. Queue(v.s.inbox, InTags) /\ Queue(v.s.outbox, OutTags)
  <2>1. Queue(<<>>, InTags) /\ Queue(<<>>, OutTags) /\ m.tag \in InTags
    BY <1>5, Empty DEF InTags
  <2>2. Queue(Append(<<>>, m), InTags)
    BY <2>1, Queues
  <2> QED
    BY <1>6, <2>1, <2>2
<1>9. Whole(v)
  BY <1>3, <1>6, <1>8, Zenon DEF Whole, Shaped
<1>10. Sound(NoBundle) /\ Sound(bundle) /\ Flight(v, {}) = {m}
  BY <1>6, <1>7 DEF Sound, Flight
<1>11. DOMAIN NoUpdate = DOMAIN NoUpdate /\ NoUpdate.id = 0 /\ NoUpdate.candidate = NoBundle
  BY DEF NoUpdate
<1>12. Numbered(v, {})
  BY <1>5, <1>7, <1>10 DEF Numbered
<1>13. Apart(v.c)
  BY <1>6, <1>11 DEF Apart, Unlike
<1>14. OneLoad(v, {})
  BY <1>10 DEF OneLoad
<1>15. Books(v, {})
  BY <1>6, <1>10, <1>11 DEF Books
<1>16. Fits(v, m)
  BY <1>5, <1>6, <1>11 DEF Fits, Loading, LoadTags, ReportTags, UpdateTags
<1>17. Agreed(v, {})
  BY <1>6, <1>9, <1>10, <1>12, <1>13, <1>14, <1>15, <1>16 DEF Agreed, Linked
<1>18. Replaced(v, w)
  BY <1>6, <1>17 DEF Replaced
<1> QED
  BY <1>1, <1>4, <1>18

\* What is scanned is what is on disk.
LEMMA Scanned ==
  ASSUME NEW w, Whole(w), NEW rev \in Nat \ {0}, NEW full
  PROVE  /\ Scan(w, rev, full) # NoBundle /\ Sound(Scan(w, rev, full))
         /\ Scan(w, rev, full).sources = w.d.sources /\ Scan(w, rev, full).full = full
         /\ Scan(w, rev, full).rev = rev /\ Scan(w, rev, full).conf = w.d.conf
<1>1. /\ Scan(w, rev, full).rev = rev /\ Scan(w, rev, full).sources = w.d.sources
      /\ Scan(w, rev, full).conf = w.d.conf /\ Scan(w, rev, full).full = full
  BY DEF Scan
<1>2. NoBundle.rev = 0
  BY DEF NoBundle
<1> QED
  BY <1>1, <1>2 DEF Sound, Whole

\* recreate
LEMMA Recreated ==
  ASSUME NEW w, NEW bundle, NEW cache, NEW bad, Whole(w), w.c.reset = TRUE => Blank(w.c),
         bundle # NoBundle, Sound(bundle)
  PROVE  Replaced(Recreate(w, bundle, cache, bad), w)
<1> DEFINE told == Emit(w, "cleared")
           prepared == Prepare(told, bad)
<1>1. Recreate(w, bundle, cache, bad) = IF prepared.c.failed THEN prepared ELSE Greet(prepared, bundle, cache, bad)
  BY DEF Recreate
<1>2. Alike(told, w)
  BY Cries DEF Whole
<1>3. Whole(told) /\ (told.c.reset = TRUE => Blank(told.c)) /\ told.d = w.d /\ told.s.outbox = w.s.outbox
  BY <1>2 DEF Alike, Steady, Whole, Blank
<1> HIDE DEF told
<1>4. Gone(prepared, told) /\ (~prepared.c.failed => prepared.s = NewSession)
  BY <1>3, Prepared
<1> HIDE DEF prepared
<1>5. Gone(prepared, w)
  BY <1>3, <1>4 DEF Gone
<1>6. ASSUME ~prepared.c.failed
      PROVE  Replaced(Greet(prepared, bundle, cache, bad), w)
  <2>1. Sound(bundle)
    BY <1>5 DEF Gone, Sound
  <2>2. Replaced(Greet(prepared, bundle, cache, bad), prepared)
    BY <1>4, <1>5, <1>6, <2>1, Greeted DEF Gone
  <2> QED
    BY <1>5, <2>2 DEF Gone, Replaced
<1> QED
  BY <1>1, <1>5, <1>6, Forgone

\* _load_project, _load_project_file and restart_recompile
LEMMA Loaded ==
  ASSUME NEW w, NEW bad, Whole(w), w.c.reset = TRUE => Blank(w.c)
  PROVE  /\ \A full : Replaced(LoadDirectory(w, full, bad), w)
         /\ Replaced(LoadFile(w, bad), w) /\ Replaced(Load(w, bad), w)
<1> DEFINE empty == BeginReset(w, bad)
           prepared == Prepare(empty, bad)
           told == Emit(prepared, "cleared")
           file == Scan(w, 1, TRUE)
<1>1. Gone(empty, w)
  BY Begun
<1> HIDE DEF empty
<1>2. Gone(Raise(empty), w)
  <2>1. Alike(Raise(empty), empty)
    BY <1>1, Cries DEF Gone, Whole
  <2> QED
    BY <1>1, <2>1, StaysGone
<1>3. ASSUME NEW full
      PROVE  Replaced(LoadDirectory(w, full, bad), w)
  <2> DEFINE bundle == Scan(w, 1, full)
  <2>1. bundle # NoBundle /\ Sound(bundle)
    BY <1>1, Scanned DEF Gone, Sound
  <2> HIDE DEF bundle
  <2>2. Replaced(Recreate(empty, bundle, ~full, bad), empty)
    BY <1>1, <2>1, Recreated DEF Gone
  <2>3. Replaced(Recreate(empty, bundle, ~full, bad), w)
    BY <1>1, <2>2 DEF Gone, Replaced
  <2>4. \/ LoadDirectory(w, full, bad) = empty \/ LoadDirectory(w, full, bad) = Raise(empty)
        \/ LoadDirectory(w, full, bad) = Recreate(empty, bundle, ~full, bad)
    BY DEF LoadDirectory, bundle, empty
  <2> QED
    BY <1>1, <1>2, <2>3, <2>4, Forgone
<1>4. Gone(prepared, empty) /\ (~prepared.c.failed => prepared.s = NewSession)
  BY <1>1, Prepared DEF Gone
<1>5. \/ LoadFile(w, bad) \in {empty, Raise(empty), prepared, Abort(prepared, bad)}
      \/ ~prepared.c.failed /\ LoadFile(w, bad) = Greet(told, file, TRUE, bad)
  BY DEF LoadFile, empty
<1> HIDE DEF prepared
<1>6. Gone(prepared, w)
  BY <1>1, <1>4 DEF Gone
<1>7. Gone(Abort(prepared, bad), w)
  <2>1. Gone(Abort(prepared, bad), prepared)
    BY <1>6, Aborted DEF Gone
  <2> QED
    BY <1>6, <2>1 DEF Gone
<1>8. ASSUME ~prepared.c.failed
      PROVE  Replaced(Greet(told, file, TRUE, bad), w)
  <2>1. Alike(told, prepared)
    BY <1>6, Cries DEF Gone, Whole
  <2>2. Gone(told, w)
    BY <1>6, <2>1, StaysGone
  <2>3. told.s = NewSession
    BY <1>4, <1>6, <1>8 DEF Emit, Gone, Whole, Shaped
  <2> HIDE DEF told
  <2>4. file # NoBundle /\ Sound(file)
    <3>1. \A full : Scan(w, 1, full) # NoBundle /\ Sound(Scan(w, 1, full))
      BY Scanned
    <3>2. file # NoBundle /\ Sound(file)
      BY <3>1
    <3> HIDE DEF file
    <3> QED
      BY <2>2, <3>2 DEF Gone, Sound
  <2> HIDE DEF file
  <2>5. Replaced(Greet(told, file, TRUE, bad), told)
    BY <2>2, <2>3, <2>4, Greeted DEF Gone
  <2> QED
    BY <2>2, <2>5 DEF Gone, Replaced
<1>9. Replaced(LoadFile(w, bad), w)
  BY <1>1, <1>2, <1>5, <1>6, <1>7, <1>8, Forgone
<1> QED
  BY <1>3, <1>9 DEF Load
-----------------------------------------------------------------------------
(* The project is submitted *)

\* What looks the same is as much alive.
LEMMA StaysLive ==
  ASSUME NEW v, NEW w, NEW hand, Alike(v, w), Live(w, hand)
  PROVE  Live(v, hand)
BY StaysAgreed DEF Live, Alike, Steady

\* An event, an exception.
LEMMA Heard ==
  ASSUME NEW w, NEW hand, Live(w, hand)
  PROVE  Live(Raise(w), hand) /\ \A event : Live(Emit(w, event), hand)
BY Cries, StaysLive DEF Live, Agreed, Whole

\* A message of the load is in the hand: nothing else is under way for it.
LEMMA Taken ==
  ASSUME NEW w, NEW h, Live(w, {h}), h.tag \in LoadTags
  PROVE  /\ Live(w, {}) /\ NoLoad(w) /\ Live([w EXCEPT !.c.compatibility = 0], {})
         /\ NoLoad([w EXCEPT !.c.compatibility = 0])
         /\ w.c.pending # NoBundle /\ w.c.bundle = NoBundle
<1> DEFINE x == [w EXCEPT !.c.compatibility = 0]
<1>1. Linked(w, {h}) /\ Fits(w, h) /\ Loading(w, h) /\ Shaped(w) /\ Books(w, {h})
  BY DEF Live, Agreed, Linked, Flight, Loading, Whole
<1>2. /\ w.c.pending # NoBundle /\ w.c.bundle = NoBundle
      /\ w.c.candidate = NoBundle /\ w.c.update = NoUpdate
  BY <1>1 DEF Fits, Books
<1>3. h.tag # "loaded"
  BY DEF LoadTags
<1>4. Steady(w, w) /\ Steady(x, w) /\ x.s = w.s /\ x.c.compatibility = 0 /\ x.c.preferences = w.c.preferences /\ x.c.taken = w.c.taken
      /\ x.c.candidate = w.c.candidate /\ x.c.reload = w.c.reload /\ x.c.update = w.c.update
  <2>1. Shaped(x)
    BY <1>1, Stores DEF Keeps
  <2> QED
    BY <1>1, <2>1 DEF Steady, Shaped, NewClient
<1> HIDE DEF x
<1>5. Settles(w, w, h) /\ Settles(x, w, h)
  BY <1>2, <1>3, <1>4 DEF Settles
<1> QED
  BY <1>1, <1>2, <1>5, SettledDown DEF x

\* A message is sent: send_runtime.
LEMMA Posted ==
  ASSUME NEW w, NEW m, Whole(w), m.tag \in InTags, m.id = NewMessage(w)
  PROVE  LET v == Send(w, m) IN
         /\ New(w, m.id) /\ Steady(v, w) /\ v.s.inbox = Append(w.s.inbox, m) /\ v.c = w.c
<1>1. New(w, m.id) /\ Shaped(Send(w, m))
  BY NewNumber, Tells DEF Keeps, Whole
<1> QED
  BY <1>1 DEF Steady, Send, Shaped, NewSession, Whole

\* _submit_project
LEMMA Submitted ==
  ASSUME NEW w, NEW cache, Live(w, {}), NoLoad(w), w.c.pending # NoBundle
  PROVE  Live(Submit(w, cache), {})
<1> DEFINE m == [Message("project", NewMessage(w)) EXCEPT !.bundle = w.c.pending, !.contents = cache]
           v == Send(w, m)
<1>1. m.tag = "project" /\ m.id = NewMessage(w) /\ m.bundle = w.c.pending /\ Submit(w, cache) = v
  BY DEF Message, Submit
<1> HIDE DEF m
<1>2. New(w, m.id) /\ Steady(v, w) /\ v.s.inbox = Append(w.s.inbox, m) /\ v.c = w.c
  BY <1>1, Posted DEF Live, Agreed, InTags
<1> HIDE DEF v
<1>3. Asking(v, w, m)
  BY <1>1, <1>2 DEF Asking
<1> QED
  BY <1>1, <1>3, Asked

\* materialize
LEMMA Fetched ==
  ASSUME NEW w, Live(w, {}), NoLoad(w), w.c.pending # NoBundle
  PROVE  /\ Live(Materialize(w), {}) /\ NoLoad(Materialize(w))
         /\ Materialize(w).c.pending # NoBundle
<1> DEFINE v == Materialize(w)
           b == Scan(w, w.c.pending.rev, TRUE)
<1>1. Whole(w) /\ Sound(w.c.pending) /\ Sound(w.c.bundle)
  BY DEF Live, Agreed, Linked, Books
<1>2. b # NoBundle /\ Sound(b)
  <2>1. w.c.pending.rev \in Nat \ {0}
    BY <1>1 DEF Sound
  <2>2. \A full : Scan(w, w.c.pending.rev, full) # NoBundle /\ Sound(Scan(w, w.c.pending.rev, full))
    BY <1>1, <2>1, Scanned
  <2> QED
    BY <2>2
<1> HIDE DEF b
<1>3. /\ v.c.pending = b /\ v.d = w.d /\ v.s = w.s /\ v.c.bundle = w.c.bundle /\ v.c.candidate = w.c.candidate
      /\ v.c.reload = w.c.reload /\ v.c.update = w.c.update /\ v.c.compatibility = w.c.compatibility
      /\ v.c.preferences = w.c.preferences /\ v.c.reset = w.c.reset /\ v.c.taken = w.c.taken
  BY <1>1 DEF Materialize, b, Whole, Shaped, NewClient
<1>4. Shaped(v)
  BY <1>1, Submits DEF Whole, Keeps
<1> HIDE DEF v
<1>5. Sound(v.c.pending) /\ Sound(v.c.bundle)
  BY <1>1, <1>2, <1>3 DEF Sound
<1>6. Storing(v, w, {})
  BY <1>1, <1>2, <1>3, <1>4, <1>5 DEF Storing, Whole, NoLoad
<1>7. Live(v, {})
  BY <1>6, Stored
<1>8. NoLoad(v)
  BY <1>2, <1>3 DEF NoLoad, Flight, Loading
<1> QED
  BY <1>2, <1>3, <1>7, <1>8 DEF v

\* _resolve_project_compatibility
LEMMA Resolving ==
  ASSUME NEW w, NEW h, Live(w, {h}), h.tag = "welcome"
  PROVE  Live(Resolve(w), {})
<1> DEFINE m == Message("resolve", NewMessage(w))
           sent == Send(w, m)
           v == [sent EXCEPT !.c.compatibility = NewMessage(w)]
<1>1. /\ Live(w, {}) /\ NoLoad(w) /\ w.c.pending # NoBundle
  BY Taken DEF LoadTags
<1>2. m.tag = "resolve" /\ m.id = NewMessage(w) /\ Resolve(w) \in {Raise(w), v}
  BY <1>1 DEF Message, Resolve
<1> HIDE DEF m
<1>3. New(w, m.id) /\ Steady(sent, w) /\ sent.s.inbox = Append(w.s.inbox, m) /\ sent.c = w.c
  BY <1>1, <1>2, Posted DEF Live, Agreed, InTags
<1> HIDE DEF sent
<1>4. /\ Steady(v, w) /\ v.s.inbox = Append(w.s.inbox, m) /\ v.c.compatibility = m.id
      /\ v.c.candidate = w.c.candidate /\ v.c.reload = w.c.reload /\ v.c.update = w.c.update
      /\ v.c.preferences = w.c.preferences /\ v.c.taken = w.c.taken
  <2>1. Shaped(sent) /\ Shaped(v)
    BY <1>3, Stores DEF Keeps, Steady
  <2> QED
    BY <1>2, <1>3, <2>1 DEF Steady, Shaped, NewClient
<1> HIDE DEF v
<1>5. Asking(v, w, m)
  BY <1>1, <1>2, <1>3, <1>4 DEF Asking
<1> QED
  BY <1>1, <1>2, <1>5, Asked, Heard

\* _handle_project_compatibility and _handle_project_needs_source
LEMMA Staged ==
  ASSUME NEW w, NEW h, NEW bad, Live(w, {h})
  PROVE  /\ h.tag = "resolved" => Live(HandleResolved(w, h, bad), {})
         /\ h.tag = "needs_source" => Live(HandleNeedsSource(w), {})
<1> DEFINE x == [w EXCEPT !.c.compatibility = 0]
<1>1. ASSUME NEW y, NEW cache, Live(y, {}), NoLoad(y), y.c.pending # NoBundle
      PROVE  Live(Submit(y, cache), {}) /\ Live(Submit(Materialize(y), cache), {})
  BY <1>1, Fetched, Submitted
<1>2. ASSUME h.tag = "resolved"
      PROVE  Live(HandleResolved(w, h, bad), {})
  <2>1. /\ Live(w, {}) /\ Live(x, {}) /\ NoLoad(x)
        /\ w.c.pending # NoBundle
    BY <1>2, Taken DEF LoadTags
  <2>2. x.c.pending = w.c.pending /\ x.d = w.d
    BY <2>1 DEF Live, Agreed, Whole, Shaped, NewClient
  <2>3. HandleResolved(w, h, bad) \in {w, Emit(x, "runtime_error"), Submit(x, w.d.sources), Submit(x, w.d.cache),
                                       Submit(Materialize(x), 0)}
    BY DEF HandleResolved
  <2> HIDE DEF x
  <2>4. \A cache : Live(Submit(x, cache), {}) /\ Live(Submit(Materialize(x), cache), {})
    BY <1>1, <2>1, <2>2
  <2> QED
    BY <2>1, <2>3, <2>4, Heard
<1>3. ASSUME h.tag = "needs_source"
      PROVE  Live(HandleNeedsSource(w), {})
  <2>1. Live(w, {}) /\ NoLoad(w) /\ w.c.pending # NoBundle
    BY <1>3, Taken DEF LoadTags
  <2>2. HandleNeedsSource(w) = Submit(Materialize(w), 0)
    BY <2>1 DEF HandleNeedsSource
  <2> QED
    BY <1>1, <2>1, <2>2
<1> QED
  BY <1>2, <1>3
-----------------------------------------------------------------------------
(* Configuration and preferences *)

\* _begin_configuration_update
LEMMA Updating ==
  ASSUME NEW w, NEW restart, NEW automatic, Live(w, {}), w.c.update = NoUpdate, w.c.bundle # NoBundle
  PROVE  LET v == BeginUpdate(w, restart, automatic) IN
         Live(v, {}) /\ v.d = w.d /\ v.c.bundle = w.c.bundle /\ v.s.outbox = w.s.outbox /\ v.s.compiled = w.s.compiled
<1> DEFINE id == NewMessage(w)
           m == [Message("prepare", id) EXCEPT !.conf = w.c.snapshot.conf]
           update == [NoUpdate EXCEPT !.stage = "prepare", !.id = id, !.restart = restart,
                                      !.automatic = automatic, !.digest = w.c.snapshot.conf]
           sent == Send(w, m)
           v == [sent EXCEPT !.c.update = update]
<1>1. /\ m.tag = "prepare" /\ m.id = id /\ BeginUpdate(w, restart, automatic) = v
      /\ DOMAIN update = DOMAIN NoUpdate /\ update.id = id /\ update.stage = "prepare" /\ update.candidate = NoBundle
  BY DEF Message, BeginUpdate, NoUpdate
<1> HIDE DEF m, update
<1>2. New(w, m.id) /\ Steady(sent, w) /\ sent.s.inbox = Append(w.s.inbox, m) /\ sent.c = w.c
  BY <1>1, Posted DEF Live, Agreed, InTags
<1> HIDE DEF sent
<1>3. /\ Steady(v, w) /\ v.s.inbox = Append(w.s.inbox, m) /\ v.c.update = update
      /\ v.c.candidate = w.c.candidate /\ v.c.reload = w.c.reload /\ v.c.compatibility = w.c.compatibility
      /\ v.c.preferences = w.c.preferences /\ v.c.taken = w.c.taken
  <2>1. Shaped(sent) /\ Shaped(v)
    BY <1>2, Stores DEF Keeps, Steady
  <2> QED
    BY <1>2, <2>1 DEF Steady, Shaped, NewClient
<1> HIDE DEF v
<1>4. Asking(v, w, m)
  BY <1>1, <1>2, <1>3 DEF Asking, Sound
<1>5. Live(v, {})
  BY <1>1, <1>4, Asked
<1> QED
  BY <1>1, <1>3, <1>5 DEF Steady

\* _continue_project_start, _begin_client_preferences and save_client_preferences
LEMMA Preferring ==
  ASSUME NEW w, NEW bad, Live(w, {})
  PROVE  /\ Live(Start(w), {}) /\ Live(BeginPreferences(w), {})
         /\ LET v == SavePreferences(w, bad) IN
            Live(v, {}) /\ v.d = w.d /\ v.c.bundle = w.c.bundle /\ v.s.outbox = w.s.outbox
<1> DEFINE id == NewMessage(w)
           start == Message("start", id)
           ask == Message("preferences", id)
           begun == Send(w, start)
           sent == Send(w, ask)
           v(save) == [sent EXCEPT !.c.preferences = [id |-> id, save |-> save, start |-> ~save]]
<1>1. /\ start.tag = "start" /\ start.id = id /\ ask.tag = "preferences" /\ ask.id = id /\ Start(w) = begun
      /\ BeginPreferences(w) \in {begun, v(FALSE)}
      /\ SavePreferences(w, bad) \in {Emit(w, "preferences_failed"), Emit(w, "preferences_applied"), v(TRUE)}
  BY DEF Message, Start, BeginPreferences, SavePreferences
<1> HIDE DEF start, ask
<1>2. /\ New(w, start.id) /\ Steady(begun, w) /\ begun.s.inbox = Append(w.s.inbox, start) /\ begun.c = w.c
      /\ Steady(sent, w) /\ sent.s.inbox = Append(w.s.inbox, ask) /\ sent.c = w.c
  BY <1>1, Posted DEF Live, Agreed, InTags
<1> HIDE DEF begun, sent
<1>3. Live(begun, {})
  <2>1. Asking(begun, w, start)
    BY <1>1, <1>2 DEF Asking
  <2> QED
    BY <1>1, <2>1, Asked
<1>4. ASSUME NEW save \in BOOLEAN
      PROVE  Live(v(save), {}) /\ Steady(v(save), w)
  <2> DEFINE x == v(save)
  <2>1. /\ Steady(x, w) /\ x.s.inbox = Append(w.s.inbox, ask) /\ x.c.preferences.id = id
        /\ x.c.candidate = w.c.candidate /\ x.c.reload = w.c.reload /\ x.c.compatibility = w.c.compatibility
        /\ x.c.update = w.c.update
    <3>1. Shaped(sent) /\ Shaped(x)
      BY <1>2, Stores DEF Keeps, Steady
    <3> QED
      BY <1>2, <3>1 DEF Steady, Shaped, NewClient
  <2> HIDE DEF x, id
  <2>2. Asking(x, w, ask)
    BY <1>1, <1>2, <2>1 DEF Asking
  <2>3. Live(x, {})
    BY <1>1, <2>2, Asked
  <2> QED
    BY <2>1, <2>3 DEF x
<1>5. ASSUME NEW event
      PROVE  Live(Emit(w, event), {}) /\ Steady(Emit(w, event), w)
  BY Heard, Cries DEF Live, Agreed, Whole, Alike
<1> HIDE DEF v
<1>6. /\ Live(SavePreferences(w, bad), {}) /\ Steady(SavePreferences(w, bad), w)
      /\ Live(BeginPreferences(w), {})
  BY <1>1, <1>3, <1>4, <1>5
<1> QED
  BY <1>1, <1>3, <1>6 DEF Steady

\* The configuration is written, and the project scanned again.
LEMMA Rewritten ==
  ASSUME NEW w, Whole(w), NEW contents
  PROVE  /\ LET v == Written(w, contents) IN
            v.c = w.c /\ v.s = w.s /\ Shaped(v) /\ DOMAIN v.d = DOMAIN w.d
         /\ Rescanned(w, contents) # NoBundle /\ Sound(Rescanned(w, contents))
         /\ Rescanned(w, contents).sources = w.d.sources
<1>1. Shaped(w) /\ Shaped(Written(w, contents))
  BY Writes DEF Whole, Keeps
<1>2. NoBundle.rev = 0 /\ Rescanned(w, contents).rev = 1
  BY DEF NoBundle, Rescanned, Scan
<1>3. Rescanned(w, contents).sources = w.d.sources
  BY DEF Rescanned, Scan
<1>4. LET v == Written(w, contents) IN v.c = w.c /\ v.s = w.s /\ DOMAIN v.d = DOMAIN w.d
  BY <1>1 DEF Written, Shaped, Whole
<1> QED
  BY <1>1, <1>2, <1>3, <1>4 DEF Sound

\* What a publication leaves.
Publishing(v, w) == Live(v, {}) /\ (v.c.bundle = NoBundle) = (w.c.bundle = NoBundle)

\* _publish_configuration
LEMMA Published ==
  ASSUME NEW w, NEW m, NEW confirm, NEW bad, Live(w, {})
  PROVE  Publishing(Publish(w, m, confirm, bad), w)
<1> DEFINE told == [w EXCEPT !.c.snapshot = [known |-> TRUE, conf |-> m.conf, generated |-> m.contents]]
           bundle == Rescanned(w, m.contents)
           taken == w.c.taken \/ w.d.sources # w.c.bundle.sources
           wrote == Written(told, m.contents)
           saved == [wrote EXCEPT !.c.bundle = bundle, !.c.due = FALSE,
                                  !.c.taken = @ \/ w.d.sources # w.c.bundle.sources]
           begun == BeginUpdate(saved, FALSE, TRUE)
           lost == Written(w, m.contents)
           torn == [lost EXCEPT !.c.torn = TRUE]
           gone == [torn EXCEPT !.c.snapshot = NoSnapshot]
           kept == [w EXCEPT !.c.snapshot = NoSnapshot]
<1>1. \/ Publish(w, m, confirm, bad) \in {Emit(told, "configuration"), Emit(gone, "error"), Emit(kept, "error")}
      \/ w.c.bundle # NoBundle /\ Publish(w, m, confirm, bad) = Emit(saved, "configuration")
      \/ /\ w.c.bundle # NoBundle /\ w.c.update = NoUpdate
         /\ Publish(w, m, confirm, bad) = Emit(begun, "configuration")
  BY DEF Publish
<1>2. Whole(w) /\ Shaped(w) /\ Sound(w.c.bundle) /\ Sound(w.c.pending)
  BY DEF Live, Agreed, Whole, Linked, Books
<1>3. ASSUME NEW v, Alike(v, w)
      PROVE  Publishing(v, w)
  BY <1>3, StaysLive DEF Publishing, Alike, Steady
<1>4. ASSUME NEW v, Publishing(v, w), NEW event
      PROVE  Publishing(Emit(v, event), w)
  <2>1. Live(v, {}) /\ Shaped(v)
    BY <1>4 DEF Publishing, Live, Agreed, Whole
  <2>2. Live(Emit(v, event), {}) /\ Alike(Emit(v, event), v)
    BY <2>1, Heard, Cries
  <2> QED
    BY <1>4, <2>2 DEF Publishing, Alike, Steady
<1>5. Alike(told, w) /\ Alike(kept, w)
  <2>1. Shaped(told) /\ Shaped(kept)
    BY <1>2, Stores DEF Keeps
  <2> QED
    BY <1>2, <2>1 DEF Alike, Steady, Shaped, NewClient
<1>6. Live(told, {}) /\ Whole(told) /\ told.d = w.d /\ told.s = w.s /\ DOMAIN told.c = DOMAIN NewClient
      /\ told.c.update = w.c.update /\ told.c.bundle = w.c.bundle /\ told.c.taken = w.c.taken
  BY <1>2, <1>5, StaysLive DEF Live, Agreed, Alike, Steady, Whole, Shaped, NewClient
<1> HIDE DEF told, kept
<1>7. ASSUME w.c.bundle # NoBundle
      PROVE  Publishing(saved, w) /\ saved.c.update = w.c.update /\ saved.c.bundle # NoBundle
  <2>1. bundle # NoBundle /\ Sound(bundle) /\ bundle.sources = w.d.sources
    BY <1>2, Rewritten
  <2>2. wrote.c = told.c /\ wrote.s = told.s /\ Shaped(wrote) /\ DOMAIN wrote.d = DOMAIN w.d
    BY <1>6, Rewritten
  <2> HIDE DEF bundle, wrote
  <2>3. /\ saved.d = wrote.d /\ saved.s = told.s /\ saved.c.bundle = bundle /\ saved.c.reset = told.c.reset
        /\ saved.c.pending = told.c.pending /\ saved.c.candidate = told.c.candidate
        /\ saved.c.reload = told.c.reload /\ saved.c.update = told.c.update
        /\ saved.c.compatibility = told.c.compatibility /\ saved.c.preferences = told.c.preferences
        /\ saved.c.taken = taken /\ Shaped(saved)
    <3>1. Shaped(wrote) /\ DOMAIN wrote.c = DOMAIN NewClient
      BY <1>6, <2>2
    <3>2. Shaped(saved)
      BY <3>1 DEF Shaped, NewClient
    <3> QED
      BY <1>6, <2>2, <3>1, <3>2 DEF Shaped, NewClient
  <2>4. \/ bundle.sources = w.c.bundle.sources /\ (w.c.taken => taken)
        \/ taken
    BY <2>1
  <2> HIDE DEF saved, taken
  <2>5. Sound(told.c.pending)
    BY <1>6 DEF Live, Agreed, Linked, Books
  <2>6. Storing(saved, told, {})
    BY <1>6, <1>7, <2>1, <2>2, <2>3, <2>4, <2>5 DEF Storing
  <2>7. Live(saved, {})
    BY <1>6, <2>6, Stored
  <2> QED
    BY <1>6, <1>7, <2>1, <2>3, <2>7 DEF Publishing
<1>8. Publishing(gone, w)
  <2>1. lost.c = w.c /\ lost.s = w.s /\ Shaped(lost) /\ DOMAIN lost.d = DOMAIN w.d
    BY <1>2, Rewritten
  <2> HIDE DEF lost
  <2>2. /\ gone.d = lost.d /\ gone.s = w.s /\ gone.c.bundle = w.c.bundle /\ gone.c.reset = w.c.reset
        /\ gone.c.pending = w.c.pending /\ gone.c.candidate = w.c.candidate
        /\ gone.c.reload = w.c.reload /\ gone.c.update = w.c.update /\ gone.c.taken = w.c.taken
        /\ gone.c.compatibility = w.c.compatibility /\ gone.c.preferences = w.c.preferences
        /\ Shaped(gone)
    <3>1. Shaped(torn)
      BY <2>1, Stores DEF Keeps
    <3>2. Shaped(gone)
      BY <3>1, Stores DEF Keeps
    <3> QED
      BY <1>2, <2>1, <3>2 DEF Shaped, NewClient
  <2> HIDE DEF gone
  <2>3. Storing(gone, w, {})
    BY <1>2, <2>1, <2>2 DEF Storing
  <2>4. Live(gone, {})
    BY <2>3, Stored
  <2> QED
    BY <2>2, <2>4 DEF Publishing
<1> HIDE DEF saved, gone
<1>9. ASSUME w.c.bundle # NoBundle, w.c.update = NoUpdate
      PROVE  Publishing(begun, w)
  <2>1. Live(saved, {}) /\ saved.c.update = NoUpdate /\ saved.c.bundle # NoBundle
    BY <1>7, <1>9 DEF Publishing
  <2>2. \A restart, automatic : LET v == BeginUpdate(saved, restart, automatic) IN
          Live(v, {}) /\ v.d = saved.d /\ v.c.bundle = saved.c.bundle
    BY <2>1, Updating
  <2>3. Live(begun, {}) /\ begun.d = saved.d /\ begun.c.bundle = saved.c.bundle
    BY <2>2
  <2> QED
    BY <1>9, <2>1, <2>3 DEF Publishing
<1> HIDE DEF begun
<1> QED
  BY <1>1, <1>3, <1>4, <1>5, <1>7, <1>8, <1>9
-----------------------------------------------------------------------------
(* What the runtime answers *)

\* The message in the hand, told apart from what the client waits for.
LEMMA Held ==
  ASSUME NEW w, NEW h, Live(w, {h})
  PROVE  /\ Shaped(w) /\ Whole(w) /\ Fits(w, h) /\ Books(w, {h}) /\ h.id \in Nat \ {0}
         /\ h.id = w.c.update.id => h.id # w.c.reload /\ h.id # w.c.compatibility /\ h.id # w.c.preferences.id
         /\ h.id = w.c.reload => h.id # w.c.compatibility /\ h.id # w.c.preferences.id
         /\ h.id = w.c.compatibility => h.id # w.c.preferences.id
         /\ NoUpdate.id = 0 /\ NoUpdate.stage = "none" /\ Steady(w, w)
<1>1. Whole(w) /\ Linked(w, {h}) /\ h \in Flight(w, {h})
  BY DEF Live, Agreed, Flight
<1>2. Shaped(w) /\ Fits(w, h) /\ Books(w, {h}) /\ h.id \in Nat \ {0} /\ Apart(w.c)
  BY <1>1 DEF Whole, Linked, Numbered
<1>3. NoUpdate.id = 0 /\ NoUpdate.stage = "none" /\ Steady(w, w)
  BY <1>2 DEF NoUpdate, Steady
<1> QED
  BY <1>1, <1>2, <1>3 DEF Apart, Unlike

\* _handle_client_preferences_applied, and the messages that are only told
LEMMA Applied ==
  ASSUME NEW w, NEW h, Live(w, {h}), h.tag \in {"applied", "unwelcome", "phase"}
  PROVE  Live(HandleApplied(w, h), {}) /\ \A event : Live(Emit(w, event), {})
<1> DEFINE stored == [w EXCEPT !.c.preferences = NoPreferences,
                               !.c.snapshot = [known |-> TRUE, conf |-> h.conf, generated |-> h.contents]]
           applied == Emit(stored, "configuration")
<1>1. HandleApplied(w, h) \in {w, Start(applied), Emit(applied, "preferences_applied"), applied}
  BY DEF HandleApplied
<1>2. h.id # w.c.reload /\ h.id # w.c.update.id /\ h.tag # "loaded" /\ Shaped(w) /\ Steady(w, w)
  <2>1. /\ h.tag \notin UpdateTags \cup {"rejected"} /\ h.tag \notin ReportTags \cup {"reload", "rejected"}
        /\ h.tag # "loaded"
    BY DEF UpdateTags, ReportTags
  <2> QED
    BY <2>1, Held DEF Fits
<1>3. Settles(w, w, h)
  BY <1>2 DEF Settles
<1>4. Settles(stored, w, h)
  <2>1. NoPreferences.id = 0
    BY DEF NoPreferences
  <2>2. Shaped(stored)
    BY <1>2 DEF Shaped, NewClient
  <2> QED
    BY <1>2, <2>1, <2>2 DEF Settles, Steady, Shaped, NewClient
<1> HIDE DEF stored
<1>5. Live(w, {}) /\ Live(applied, {})
  BY <1>3, <1>4, SettledDown, Heard
<1> HIDE DEF applied
<1>6. Live(Start(applied), {}) /\ \A event : Live(Emit(applied, event), {}) /\ Live(Emit(w, event), {})
  BY <1>5, Preferring, Heard
<1> QED
  BY <1>1, <1>5, <1>6

\* _handle_configuration_prepared
LEMMA Finalized ==
  ASSUME NEW w, NEW h, NEW bad, Live(w, {h}), h.tag = "prepared"
  PROVE  Live(HandlePrepared(w, h, bad), {})
<1> DEFINE u == w.c.update
           id == NewMessage(w)
           allowed == w.c.bundle # NoBundle /\ h.conf = u.digest
                        /\ (ReadOnly(w) \/ MayWrite(w, u.digest, h.contents, bad))
           wrote == allowed /\ (ReadOnly(w) \/ bad # "rescan")
           candidate == IF ReadOnly(w) THEN NoBundle ELSE Rescanned(w, h.contents)
           after == IF allowed /\ ~ReadOnly(w) THEN Written(w, h.contents) ELSE w
           finalize == [u EXCEPT !.stage = "finalize", !.id = id, !.commit = wrote,
                                 !.candidate = IF wrote THEN candidate ELSE NoBundle]
           m == [Message("finalize", id) EXCEPT !.contents = IF wrote THEN 1 ELSE 0]
           sent == Send(after, m)
           asked == [sent EXCEPT !.c.update = finalize, !.c.torn = @ \/ (~wrote /\ (allowed \/ u.automatic))]
           x == [w EXCEPT !.c.update = NoUpdate]
           y == [after EXCEPT !.c.update = NoUpdate]
<1>1. HandlePrepared(w, h, bad) \in {w, asked, Emit(asked, "save_failed")}
  BY DEF HandlePrepared
<1>2. /\ u.stage = "prepare" /\ h.id = u.id /\ u # NoUpdate
      /\ w.c.bundle # NoBundle
      /\ HandlePrepared(w, h, bad) \in {asked, Emit(asked, "save_failed")}
  <2>1. u.stage = "prepare" /\ h.id = u.id /\ u # NoUpdate
    BY Held DEF Fits, UpdateTags
  <2>2. w.c.bundle # NoBundle
    BY <2>1, Held DEF Books
  <2>3. HandlePrepared(w, h, bad) \in {asked, Emit(asked, "save_failed")}
    BY <2>1 DEF HandlePrepared
  <2> QED
    BY <2>1, <2>2, <2>3
<1>3. after.c = w.c /\ after.s = w.s /\ Shaped(after) /\ DOMAIN after.d = DOMAIN w.d
  <2>1. Whole(w) /\ Shaped(w)
    BY Held
  <2>2. CASE allowed /\ ~ReadOnly(w)
    <3>1. after = Written(w, h.contents)
      BY <2>2
    <3> HIDE DEF after
    <3> QED
      BY <2>1, <3>1, Rewritten
  <2>3. CASE ~(allowed /\ ~ReadOnly(w))
    <3>1. after = w
      BY <2>3
    <3> QED
      BY <2>1, <3>1 DEF Whole
  <2> QED
    BY <2>2, <2>3
<1>4. Sound(candidate) /\ Sound(NoBundle)
  BY Held, Rewritten DEF Sound
<1>5. m.tag = "finalize" /\ m.id = id
  BY DEF Message
<1>6. /\ DOMAIN finalize = DOMAIN NoUpdate /\ finalize.stage = "finalize" /\ finalize.id = id
      /\ finalize.candidate = IF wrote THEN candidate ELSE NoBundle
  <2>1. DOMAIN u = DOMAIN NoUpdate
    BY Held DEF Books
  <2> HIDE DEF id, wrote, candidate, u
  <2> QED
    BY <2>1 DEF NoUpdate
<1> HIDE DEF after, finalize, m, candidate, wrote, allowed
<1>7. Live(x, {})
  <2>1. /\ x.d = w.d /\ x.s = w.s /\ x.c.update = NoUpdate /\ x.c.reset = w.c.reset /\ x.c.bundle = w.c.bundle
        /\ x.c.pending = w.c.pending /\ x.c.candidate = w.c.candidate /\ x.c.reload = w.c.reload
        /\ x.c.compatibility = w.c.compatibility /\ x.c.preferences = w.c.preferences /\ x.c.taken = w.c.taken /\ Shaped(x)
    <3>1. Shaped(w) /\ Shaped(x)
      BY Held, Stores DEF Keeps
    <3> QED
      BY <3>1 DEF Shaped, NewClient
  <2> HIDE DEF x
  <2>2. Settles(x, w, h)
    BY <1>2, <2>1, Held DEF Settles, Steady
  <2> QED
    BY <2>2, SettledDown
<1>8. /\ x.d = w.d /\ x.s = w.s /\ x.c.update = NoUpdate /\ x.c.reset = w.c.reset /\ x.c.bundle = w.c.bundle
      /\ x.c.pending = w.c.pending /\ x.c.candidate = w.c.candidate /\ x.c.reload = w.c.reload
      /\ x.c.compatibility = w.c.compatibility /\ x.c.preferences = w.c.preferences /\ x.c.taken = w.c.taken
      /\ y.d = after.d /\ y.c = x.c /\ y.s = x.s /\ Shaped(y)
  <2>1. Shaped(w) /\ Shaped(y)
    BY <1>3, Held, Stores DEF Keeps
  <2> QED
    BY <1>3, <2>1 DEF Shaped, NewClient
<1> HIDE DEF x, y
<1>9. Live(y, {})
  <2>1. Sound(y.c.bundle) /\ Sound(y.c.pending)
    <3>1. Sound(w.c.bundle) /\ Sound(w.c.pending)
      BY Held DEF Books
    <3> QED
      BY <1>3, <1>8, <3>1 DEF Sound
  <2>2. Storing(y, x, {})
    BY <1>3, <1>8, <2>1 DEF Storing
  <2> QED
    BY <1>7, <2>2, Stored
<1>10. New(y, id)
  <2>1. New(w, id)
    BY Held, NewNumber
  <2> QED
    BY <1>8, <2>1, Held DEF New
<1>11. /\ Steady(asked, y) /\ asked.s.inbox = Append(y.s.inbox, m) /\ asked.c.update = finalize
       /\ asked.c.candidate = y.c.candidate /\ asked.c.reload = y.c.reload
       /\ asked.c.compatibility = y.c.compatibility /\ asked.c.preferences = y.c.preferences /\ asked.c.taken = y.c.taken
  <2>1. /\ Shaped(sent) /\ sent.d = after.d /\ sent.c = w.c /\ sent.s.inbox = Append(w.s.inbox, m)
        /\ sent.s.outbox = w.s.outbox /\ sent.s.compiled = w.s.compiled
    <3>1. Shaped(sent)
      BY <1>3, <1>5, Tells DEF Keeps, InTags
    <3> QED
      BY <1>3, <3>1 DEF Send, Shaped, NewSession
  <2> HIDE DEF sent
  <2>2. Shaped(asked)
    BY <2>1 DEF Shaped, NewClient
  <2> QED
    BY <1>8, <2>1, <2>2 DEF Steady, Shaped, NewClient
<1> HIDE DEF asked, id
<1>12. Sound(finalize.candidate)
  BY <1>4, <1>6
<1>13. Asking(asked, y, m)
  BY <1>2, <1>3, <1>4, <1>5, <1>6, <1>8, <1>10, <1>11, <1>12 DEF Asking
<1>14. Live(asked, {})
  BY <1>5, <1>9, <1>13, Asked
<1> QED
  BY <1>2, <1>14, Heard

\* _handle_configuration_committed: what was saved is told, or played again.
LEMMA Committed ==
  ASSUME NEW w, NEW h, NEW bad, Live(w, {h}), h.tag = "committed"
  PROVE  Agreed(HandleCommitted(w, h, bad), {})
<1> DEFINE u == w.c.update
           dropped == [w EXCEPT !.c.update = NoUpdate]
           published == Publish(dropped, h, ~(u.automatic /\ ~u.commit), bad)
           stored == [published EXCEPT !.c.bundle = u.candidate, !.c.due = FALSE,
                        !.c.taken = @ \/ u.candidate.sources # published.c.bundle.sources]
           taken == published.c.taken \/ u.candidate.sources # published.c.bundle.sources
           saved == Emit(stored, IF u.restart THEN "saved_restarting" ELSE "saved")
           restarted == Recreate(saved, u.candidate, TRUE, bad)
           calm == [restarted EXCEPT !.c.failed = FALSE]
           blank == [published EXCEPT !.c.start = FALSE, !.c.snapshot = NoSnapshot]
           ready == [published EXCEPT !.c.start = FALSE]
<1>1. /\ u.stage = "finalize" /\ h.id = u.id /\ u # NoUpdate /\ Sound(u.candidate)
      /\ w.c.bundle # NoBundle
  <2>1. u.stage = "finalize" /\ h.id = u.id /\ u # NoUpdate
    BY Held DEF Fits, UpdateTags
  <2> QED
    BY <2>1, Held DEF Books
<1>2. \/ HandleCommitted(w, h, bad) \in
           {Emit(published, "save_failed"), Emit(blank, "error"), published, BeginPreferences(ready),
            Emit(published, "session_applied")}
      \/ u.candidate # NoBundle /\ HandleCommitted(w, h, bad) \in {saved, Emit(calm, "error"), restarted}
  BY <1>1 DEF HandleCommitted
<1>3. Live(dropped, {}) /\ dropped.d = w.d /\ dropped.c.bundle = w.c.bundle
  <2>1. /\ dropped.d = w.d /\ dropped.s = w.s /\ dropped.c.update = NoUpdate /\ dropped.c.reset = w.c.reset
        /\ dropped.c.bundle = w.c.bundle /\ dropped.c.pending = w.c.pending
        /\ dropped.c.candidate = w.c.candidate /\ dropped.c.reload = w.c.reload
        /\ dropped.c.compatibility = w.c.compatibility /\ dropped.c.preferences = w.c.preferences /\ dropped.c.taken = w.c.taken
        /\ Shaped(dropped)
    <3>1. Shaped(w) /\ Shaped(dropped)
      BY Held, Stores DEF Keeps
    <3> QED
      BY <3>1 DEF Shaped, NewClient
  <2> HIDE DEF dropped
  <2>2. Settles(dropped, w, h)
    BY <1>1, <2>1, Held DEF Settles, Steady
  <2> QED
    BY <2>1, <2>2, SettledDown
<1> HIDE DEF dropped
<1>4. Publishing(published, dropped)
  <2>1. \A confirm : Publishing(Publish(dropped, h, confirm, bad), dropped)
    BY <1>3, Published
  <2> QED
    BY <2>1
<1> HIDE DEF published
<1>5. Live(published, {}) /\ Whole(published) /\ Shaped(published)
  BY <1>4 DEF Publishing, Live, Agreed, Whole
<1>6. Live(blank, {}) /\ Live(ready, {})
  <2>1. Shaped(ready)
    BY <1>5, Stores DEF Keeps
  <2>2. Shaped(blank)
    BY <1>5 DEF Shaped, NewClient
  <2>3. Alike(blank, published) /\ Alike(ready, published)
    BY <1>5, <2>1, <2>2 DEF Alike, Steady, Shaped, NewClient
  <2> QED
    BY <1>5, <2>3, StaysLive
<1> HIDE DEF blank, ready
<1>7. Live(BeginPreferences(ready), {})
  BY <1>6, Preferring
<1>8. ASSUME u.candidate # NoBundle
      PROVE  Live(saved, {}) /\ Agreed(restarted, {}) /\ Agreed(calm, {})
  <2>1. /\ stored.d = published.d /\ stored.s = published.s /\ stored.c.bundle = u.candidate
        /\ stored.c.update = published.c.update /\ stored.c.reset = published.c.reset
        /\ stored.c.pending = published.c.pending
        /\ stored.c.candidate = published.c.candidate /\ stored.c.reload = published.c.reload
        /\ stored.c.compatibility = published.c.compatibility
        /\ stored.c.preferences = published.c.preferences /\ stored.c.taken = taken /\ Shaped(stored)
    <3>1. Shaped(stored)
      BY <1>5 DEF Shaped, NewClient
    <3> QED
      BY <1>5, <3>1 DEF Shaped, NewClient
  <2> HIDE DEF stored, u
  <2>2. Sound(u.candidate) /\ Sound(stored.c.pending)
    <3>1. Sound(published.c.pending)
      BY <1>5 DEF Live, Agreed, Linked, Books
    <3>2. Sound(stored.c.pending)
      BY <2>1, <3>1 DEF Sound
    <3> QED
      BY <1>1, <3>2
  <2>3. Storing(stored, published, {})
    <3>1. published.c.bundle # NoBundle
      BY <1>1, <1>3, <1>4 DEF Publishing
    <3>2. \/ u.candidate.sources = published.c.bundle.sources /\ (published.c.taken => taken)
          \/ taken
      OBVIOUS
    <3> HIDE DEF taken
    <3> QED
      BY <1>5, <1>8, <2>1, <2>2, <3>1, <3>2 DEF Storing
  <2>4. Live(stored, {})
    BY <1>5, <2>3, Stored
  <2>5. Alike(saved, stored) /\ Live(saved, {})
    BY <2>1, <2>4, Cries, Heard
  <2> HIDE DEF saved
  <2>7. Replaced(restarted, saved)
    <3>1. Whole(saved) /\ saved.c.reset # TRUE
      BY <2>5 DEF Live, Agreed
    <3>2. \A cache : Replaced(Recreate(saved, u.candidate, cache, bad), saved)
      BY <1>1, <1>8, <3>1, Recreated
    <3> QED
      BY <3>2
  <2> HIDE DEF restarted
  <2>8. Agreed(restarted, {}) /\ Shaped(restarted)
    BY <2>7 DEF Replaced, Agreed, Whole
  <2>9. Alike(calm, restarted)
    <3>1. Shaped(calm)
      BY <2>8, Stores DEF Keeps
    <3> QED
      BY <2>8, <3>1 DEF Alike, Steady, Shaped, NewClient
  <2> QED
    BY <2>5, <2>8, <2>9, StaysAgreed
<1> HIDE DEF saved, restarted, calm, u
<1>9. ASSUME u.candidate # NoBundle
      PROVE  Agreed(Emit(calm, "error"), {})
  <2>1. Agreed(calm, {})
    BY <1>8, <1>9
  <2>2. Alike(Emit(calm, "error"), calm)
    BY <2>1, Cries DEF Agreed, Whole
  <2> QED
    BY <2>1, <2>2, StaysAgreed
<1>10. ASSUME NEW v, Live(v, {})
       PROVE  Agreed(v, {}) /\ \A event : Agreed(Emit(v, event), {})
  BY <1>10, Heard DEF Live
<1> QED
  BY <1>2, <1>5, <1>6, <1>7, <1>8, <1>9, <1>10

\* _handle_project_report: of the project that was submitted, or of a reload.
LEMMA Reported ==
  ASSUME NEW w, NEW h, NEW bad, Live(w, {h}), h.tag = "loaded"
  PROVE  Live(HandleLoaded(w, h, bad), {})
<1> DEFINE loaded == [w EXCEPT !.c.bundle = w.c.pending, !.c.pending = NoBundle,
                               !.c.due = ~w.c.pending.full, !.c.taken = FALSE]
           published == Publish(loaded, h, TRUE, bad)
           waiting == [published EXCEPT !.c.start = TRUE]
           fetched == [w EXCEPT !.c.bundle = w.c.candidate, !.c.taken = FALSE]
           reloaded == [w EXCEPT !.c.bundle = w.c.candidate, !.c.candidate = NoBundle, !.c.reload = 0,
                                 !.c.due = FALSE, !.c.taken = FALSE]
<1>1. w.s.compiled = h.bundle.sources /\ Shaped(w) /\ Books(w, {h}) /\ Whole(w)
  BY Held DEF Fits
<1>2. CASE w.c.pending # NoBundle
  <2>1. Loading(w, h)
    BY <1>2 DEF Loading, ReportTags
  <2>2. /\ w.c.bundle = NoBundle /\ w.c.candidate = NoBundle /\ w.c.update = NoUpdate
        /\ h.bundle = w.c.pending /\ Sound(w.c.pending)
    BY <1>2, <2>1, Held DEF Fits, Books
  <2>3. HandleLoaded(w, h, bad) \in {waiting, BeginPreferences(published)}
    BY <1>2, <2>2 DEF HandleLoaded
  <2>4. Live(w, {}) /\ NoLoad(w)
    <3>1. Settles(w, w, h)
      BY <2>2, Held DEF Settles
    <3> QED
      BY <2>1, <3>1, SettledDown
  <2>5. /\ loaded.d = w.d /\ loaded.s = w.s /\ loaded.c.bundle = w.c.pending /\ loaded.c.pending = NoBundle
        /\ loaded.c.reset = w.c.reset /\ loaded.c.update = w.c.update
        /\ loaded.c.candidate = w.c.candidate /\ loaded.c.reload = w.c.reload
        /\ loaded.c.compatibility = w.c.compatibility /\ loaded.c.preferences = w.c.preferences
        /\ Shaped(loaded)
    BY <1>1 DEF Shaped, NewClient
  <2> HIDE DEF loaded
  <2>6. Live(loaded, {})
    <3>1. Sound(loaded.c.bundle) /\ Sound(loaded.c.pending)
      BY <2>2, <2>5 DEF Sound
    <3>2. Storing(loaded, w, {})
      BY <1>1, <1>2, <2>2, <2>4, <2>5, <3>1 DEF Storing, NoLoad, Whole
    <3> QED
      BY <2>4, <3>2, Stored
  <2>7. Live(published, {})
    <3>1. \A confirm : Publishing(Publish(loaded, h, confirm, bad), loaded)
      BY <2>6, Published
    <3> QED
      BY <3>1 DEF Publishing
  <2> HIDE DEF published
  <2>8. Live(waiting, {})
    <3>1. Shaped(published) /\ Shaped(waiting)
      BY <2>7, Stores DEF Keeps, Live, Agreed, Whole
    <3>2. Alike(waiting, published)
      BY <3>1 DEF Alike, Steady, Shaped, NewClient
    <3> QED
      BY <2>7, <3>2, StaysLive
  <2>9. Live(BeginPreferences(published), {})
    BY <2>7, Preferring
  <2> QED
    BY <2>3, <2>8, <2>9
<1>3. CASE w.c.pending = NoBundle
  <2>1. w.c.candidate # NoBundle /\ h.bundle = w.c.candidate /\ h.id = w.c.reload
    BY <1>3, Held DEF Fits, Loading, LoadTags, ReportTags
  <2>2. w.c.bundle # NoBundle /\ Sound(w.c.candidate)
    BY <1>1, <2>1 DEF Books
  <2>3. HandleLoaded(w, h, bad) = Publish(reloaded, h, TRUE, bad)
    BY <2>1 DEF HandleLoaded
  <2>4. /\ fetched.d = w.d /\ fetched.s = w.s /\ fetched.c.bundle = w.c.candidate
        /\ fetched.c.pending = w.c.pending
        /\ fetched.c.reset = w.c.reset /\ fetched.c.update = w.c.update
        /\ fetched.c.candidate = w.c.candidate /\ fetched.c.reload = w.c.reload
        /\ fetched.c.compatibility = w.c.compatibility /\ fetched.c.preferences = w.c.preferences
        /\ fetched.c.taken = FALSE /\ Shaped(fetched)
    BY <1>1 DEF Shaped, NewClient
  <2> HIDE DEF fetched
  <2>5. Live(fetched, {h})
    <3>1. Sound(fetched.c.bundle) /\ Sound(fetched.c.pending)
      BY <1>1, <1>3, <2>2, <2>4 DEF Sound
    <3>2. Storing(fetched, w, {h})
      BY <1>1, <2>1, <2>2, <2>4, <3>1 DEF Storing, Whole
    <3> QED
      BY <3>2, Stored
  <2>6. /\ reloaded.d = w.d /\ reloaded.s = w.s /\ reloaded.c.bundle = w.c.candidate
        /\ reloaded.c.pending = w.c.pending
        /\ reloaded.c.reset = w.c.reset /\ reloaded.c.update = w.c.update
        /\ reloaded.c.candidate = NoBundle /\ reloaded.c.reload = 0
        /\ reloaded.c.compatibility = w.c.compatibility /\ reloaded.c.preferences = w.c.preferences
        /\ reloaded.c.taken = FALSE /\ Shaped(reloaded)
    BY <1>1 DEF Shaped, NewClient
  <2> HIDE DEF reloaded
  <2>7. Live(reloaded, {})
    <3>1. w.c.update # NoUpdate => h.id # w.c.update.id
      BY <2>1, Held
    <3>2. Settles(reloaded, fetched, h)
      BY <1>1, <2>1, <2>4, <2>6, <3>1 DEF Settles, Steady
    <3> QED
      BY <2>5, <3>2, SettledDown
  <2>8. \A confirm : Publishing(Publish(reloaded, h, confirm, bad), reloaded)
    BY <2>7, Published
  <2> QED
    BY <2>3, <2>8 DEF Publishing
<1> QED
  BY <1>2, <1>3

\* A load or a reload that failed.
LEMMA Failed ==
  ASSUME NEW w, NEW h, Live(w, {h}), h.tag = "load_failed"
  PROVE  Live(HandleLoadFailed(w), {})
<1> DEFINE v == [w EXCEPT !.c.candidate = NoBundle, !.c.reload = 0]
<1>1. HandleLoadFailed(w) = Emit(v, "runtime_error")
  BY DEF HandleLoadFailed
<1>2. h.id = w.c.reload \/ w.c.candidate = NoBundle
  BY Held DEF Fits, Loading, LoadTags, ReportTags, Books
<1>3. w.c.update # NoUpdate => h.id # w.c.update.id
  BY Held DEF Fits, UpdateTags
<1>4. /\ Shaped(v) /\ v.d = w.d /\ v.s = w.s /\ v.c.bundle = w.c.bundle /\ v.c.pending = w.c.pending
      /\ v.c.reset = w.c.reset /\ v.c.update = w.c.update /\ v.c.candidate = NoBundle /\ v.c.reload = 0
      /\ v.c.compatibility = w.c.compatibility /\ v.c.preferences = w.c.preferences /\ v.c.taken = w.c.taken
  BY ZenonT(40), Held DEF Shaped, NewClient
<1> HIDE DEF v
<1>5. Settles(v, w, h)
  BY <1>2, <1>3, <1>4 DEF Settles, Steady
<1> QED
  BY <1>1, <1>5, SettledDown, Heard

\* _handle_command_rejection
LEMMA Rejected ==
  ASSUME NEW w, NEW h, Live(w, {h}), h.tag = "rejected"
  PROVE  Live(HandleRejected(w, h), {})
<1> DEFINE u == w.c.update
           dropped == [w EXCEPT !.c.update = NoUpdate, !.c.torn = @ \/ u.automatic \/ u.commit]
           blank == [dropped EXCEPT !.c.start = FALSE, !.c.snapshot = NoSnapshot]
           unchanged == [w EXCEPT !.c.preferences = NoPreferences]
           resolved == [w EXCEPT !.c.compatibility = 0]
           kept == [w EXCEPT !.c.candidate = NoBundle, !.c.reload = 0]
<1>1. \/ h.id = w.c.compatibility /\ HandleRejected(w, h) = Emit(resolved, "runtime_error")
      \/ h.id = w.c.reload /\ HandleRejected(w, h) = kept
      \/ h.id = u.id /\ HandleRejected(w, h) \in {Emit(Emit(blank, "error"), "save_failed"),
                                                  Emit(dropped, "save_failed")}
      \/ /\ h.id = w.c.preferences.id
         /\ HandleRejected(w, h) \in {Start(unchanged), Emit(unchanged, "preferences_failed"), unchanged}
      \/ /\ h.id # w.c.compatibility /\ h.id # w.c.reload /\ h.id # u.id /\ h.id # w.c.preferences.id
         /\ HandleRejected(w, h) = Emit(w, "runtime_error")
  BY DEF HandleRejected
<1>2. NoPreferences.id = 0
  BY DEF NoPreferences
<1>3. ASSUME NEW v, Settles(v, w, h)
      PROVE  Live(v, {}) /\ Live(Start(v), {}) /\ \A event : Live(Emit(v, event), {})
  BY <1>3, SettledDown, Heard, Preferring
<1>4. Shaped(w) /\ h.id \in Nat \ {0} /\ Steady(w, w)
  BY Held
<1> DEFINE Same(v) == /\ Shaped(v) /\ v.d = w.d /\ v.s = w.s /\ v.c.bundle = w.c.bundle
                      /\ v.c.pending = w.c.pending /\ v.c.reset = w.c.reset /\ v.c.taken = w.c.taken
<1>5. h.id = w.c.compatibility => Settles(resolved, w, h)
  <2>1. /\ Same(resolved) /\ resolved.c.update = u /\ resolved.c.candidate = w.c.candidate
        /\ resolved.c.reload = w.c.reload /\ resolved.c.compatibility = 0
        /\ resolved.c.preferences = w.c.preferences /\ resolved.c.taken = w.c.taken
    BY <1>4 DEF Shaped, NewClient
  <2> HIDE DEF resolved
  <2> QED
    BY <2>1, Held DEF Settles, Steady
<1>6. h.id = w.c.reload => Settles(kept, w, h)
  <2>1. /\ Same(kept) /\ kept.c.update = u /\ kept.c.candidate = NoBundle
        /\ kept.c.reload = 0 /\ kept.c.compatibility = w.c.compatibility
        /\ kept.c.preferences = w.c.preferences /\ kept.c.taken = w.c.taken
    BY <1>4 DEF Shaped, NewClient
  <2> HIDE DEF kept
  <2> QED
    BY <2>1, Held DEF Settles, Steady
<1>7. h.id = u.id => Settles(dropped, w, h) /\ Settles(blank, w, h)
  <2>1. /\ Same(dropped) /\ dropped.c.update = NoUpdate /\ dropped.c.candidate = w.c.candidate
        /\ dropped.c.reload = w.c.reload /\ dropped.c.compatibility = w.c.compatibility
        /\ dropped.c.preferences = w.c.preferences /\ dropped.c.taken = w.c.taken
    BY <1>4 DEF Shaped, NewClient
  <2> HIDE DEF dropped
  <2>2. /\ Same(blank) /\ blank.c.update = NoUpdate /\ blank.c.candidate = w.c.candidate
        /\ blank.c.reload = w.c.reload /\ blank.c.compatibility = w.c.compatibility
        /\ blank.c.preferences = w.c.preferences /\ blank.c.taken = w.c.taken
    BY <2>1 DEF Shaped, NewClient
  <2> HIDE DEF blank
  <2> QED
    BY <2>1, <2>2, Held DEF Settles, Steady
<1>8. h.id = w.c.preferences.id => Settles(unchanged, w, h)
  <2>1. /\ Same(unchanged) /\ unchanged.c.update = u /\ unchanged.c.candidate = w.c.candidate
        /\ unchanged.c.reload = w.c.reload /\ unchanged.c.compatibility = w.c.compatibility
        /\ unchanged.c.preferences.id = 0
    BY <1>2, <1>4 DEF Shaped, NewClient
  <2> HIDE DEF unchanged
  <2> QED
    BY <2>1, Held DEF Settles, Steady
<1>9. h.id # w.c.reload /\ h.id # u.id => Settles(w, w, h)
  BY <1>4 DEF Settles
<1> HIDE DEF dropped, blank, unchanged, resolved, kept
<1>10. ASSUME Settles(blank, w, h)
       PROVE  Live(Emit(Emit(blank, "error"), "save_failed"), {})
  <2>1. Live(Emit(blank, "error"), {})
    BY <1>3, <1>10
  <2> QED
    BY <2>1, Heard
<1> QED
  BY <1>1, <1>3, <1>5, <1>6, <1>7, <1>8, <1>9, <1>10
-----------------------------------------------------------------------------
(* The steps *)

\* _handle_runtime
LEMMA Handled ==
  ASSUME NEW w, NEW h, NEW bad, Agreed(w, {h}), h.tag \in OutTags
  PROVE  Agreed(Handle(w, h, bad), {})
<1>1. CASE w.c.reset = TRUE
  <2>1. Handle(w, h, bad) = Raise(w)
    BY <1>1 DEF Handle
  <2>2. Agreed(w, {}) /\ Alike(Raise(w), w)
    BY <1>1, Cries DEF Agreed, Whole
  <2> QED
    BY <2>1, <2>2, StaysAgreed
<1>2. CASE w.c.reset # TRUE
  <2>1. Live(w, {h}) /\ ~w.c.reset
    BY <1>2 DEF Live, Agreed, Whole
  <2>2. \/ h.tag = "welcome" /\ Handle(w, h, bad) = Resolve(w)
        \/ h.tag = "resolved" /\ Handle(w, h, bad) = HandleResolved(w, h, bad)
        \/ h.tag = "needs_source" /\ Handle(w, h, bad) = HandleNeedsSource(w)
        \/ h.tag = "loaded" /\ Handle(w, h, bad) = HandleLoaded(w, h, bad)
        \/ h.tag = "load_failed" /\ Handle(w, h, bad) = HandleLoadFailed(w)
        \/ h.tag = "prepared" /\ Handle(w, h, bad) = HandlePrepared(w, h, bad)
        \/ h.tag = "committed" /\ Handle(w, h, bad) = HandleCommitted(w, h, bad)
        \/ h.tag = "applied" /\ Handle(w, h, bad) = HandleApplied(w, h)
        \/ h.tag = "rejected" /\ Handle(w, h, bad) = HandleRejected(w, h)
        \/ h.tag \in {"unwelcome", "phase"} /\ \E event : Handle(w, h, bad) = Emit(w, event)
    BY SMTT(40), <2>1 DEF Handle, OutTags
  <2> QED
    BY <2>1, <2>2, Resolving, Staged, Reported, Failed, Finalized, Committed, Applied, Rejected DEF Live
<1> QED
  BY <1>1, <1>2

\* What a command leaves of the game that was there.
After(v, w) == Agreed(v, {}) /\ v.d = w.d /\ (w.s.outbox = <<>> => v.s.outbox = <<>>)

\* reload_all: the client asks for what is on disk, and nothing else is under way.
LEMMA Reloads ==
  ASSUME NEW w, NEW bad, Agreed(w, {}), w.s.inbox = <<>>, w.s.outbox = <<>>,
         w.c.reset # TRUE
  PROVE  After(Reload(w, bad), w)
<1> DEFINE b == w.c.bundle
           id == NewMessage(w)
           candidate == Scan(w, b.rev + 1, TRUE)
           same == [candidate EXCEPT !.rev = b.rev]
           m == [Message("reload", id) EXCEPT !.bundle = candidate]
           sent == Send(w, m)
           asked == [sent EXCEPT !.c.candidate = candidate, !.c.reload = id]
           kept == [w EXCEPT !.c.bundle = same]
<1>1. \/ Reload(w, bad) = Raise(w)
      \/ b # NoBundle /\ candidate.sources = b.sources /\ Reload(w, bad) = kept
      \/ b # NoBundle /\ Reload(w, bad) = asked
  BY DEF Reload
<1>2. Live(w, {}) /\ Whole(w) /\ Shaped(w) /\ Books(w, {}) /\ Flight(w, {}) = {}
  <2>1. In(<<>>) = {}
    BY DEF In
  <2> QED
    BY <2>1 DEF Live, Agreed, Whole, Linked, Flight
<1>3. w.c.candidate = NoBundle
  BY <1>2 DEF Books
<1>4. After(Raise(w), w)
  <2>1. Alike(Raise(w), w)
    BY <1>2, Cries
  <2> QED
    BY <1>2, <2>1, StaysAgreed DEF After, Alike, Steady
<1>5. ASSUME b # NoBundle
      PROVE  /\ candidate # NoBundle /\ Sound(candidate) /\ candidate.sources = w.d.sources /\ candidate.full
             /\ same # NoBundle /\ Sound(same) /\ same.sources = w.d.sources
  <2>1. b.rev \in Nat \ {0} /\ NoBundle.rev = 0
    BY <1>2, <1>5 DEF Books, Sound, NoBundle
  <2>2. candidate # NoBundle /\ Sound(candidate) /\ candidate.sources = w.d.sources /\ candidate.full
    <3>1. b.rev + 1 \in Nat \ {0}
      BY <2>1
    <3> DEFINE rev == b.rev + 1
    <3>2. \A full : /\ Scan(w, rev, full) # NoBundle /\ Sound(Scan(w, rev, full))
                    /\ Scan(w, rev, full).sources = w.d.sources /\ Scan(w, rev, full).full = full
      <4> HIDE DEF rev
      <4> QED
        BY <1>2, <3>1, Scanned DEF rev
    <3> QED
      BY <3>2
  <2>3. same.rev = b.rev /\ same.sources = w.d.sources /\ same.conf = w.d.conf
    BY DEF Scan
  <2> HIDE DEF same, candidate
  <2> QED
    BY <1>2, <2>1, <2>2, <2>3 DEF Sound, Whole
<1>6. ASSUME b # NoBundle, candidate.sources = b.sources
      PROVE  After(kept, w)
  <2>1. /\ same # NoBundle /\ Sound(same) /\ same.sources = w.d.sources /\ w.d.sources = b.sources
    BY <1>5, <1>6
  <2> HIDE DEF same, candidate
  <2>2. /\ kept.d = w.d /\ kept.s = w.s /\ kept.c.bundle = same /\ kept.c.pending = w.c.pending
        /\ kept.c.reset = w.c.reset /\ kept.c.update = w.c.update
        /\ kept.c.candidate = w.c.candidate /\ kept.c.reload = w.c.reload
        /\ kept.c.compatibility = w.c.compatibility /\ kept.c.preferences = w.c.preferences /\ kept.c.taken = w.c.taken /\ Shaped(kept)
    BY <1>2 DEF Shaped, NewClient
  <2> HIDE DEF kept
  <2>3. Sound(kept.c.bundle) /\ Sound(kept.c.pending)
    BY <1>2, <2>1, <2>2 DEF Books, Sound
  <2>4. Storing(kept, w, {})
    BY <1>2, <1>6, <2>1, <2>2, <2>3 DEF Storing, Whole
  <2>5. Live(kept, {})
    BY <1>2, <2>4, Stored
  <2> QED
    BY <1>6, <2>1, <2>2, <2>5 DEF After, Live
<1>7. ASSUME b # NoBundle
      PROVE  After(asked, w)
  <2>1. candidate # NoBundle /\ Sound(candidate) /\ candidate.sources = w.d.sources /\ candidate.full
    BY <1>5, <1>7
  <2>2. m.tag = "reload" /\ m.id = id /\ m.bundle = candidate
    BY DEF Message
  <2> HIDE DEF m, candidate
  <2>3. New(w, m.id) /\ Steady(sent, w) /\ sent.s.inbox = Append(w.s.inbox, m) /\ sent.c = w.c
    BY <1>2, <2>2, Posted DEF InTags
  <2> HIDE DEF sent
  <2>4. /\ Steady(asked, w) /\ asked.s.inbox = Append(w.s.inbox, m) /\ asked.c.candidate = candidate
        /\ asked.c.reload = id /\ asked.c.update = w.c.update /\ asked.c.compatibility = w.c.compatibility
        /\ asked.c.preferences = w.c.preferences /\ asked.c.taken = w.c.taken
    <3>1. Shaped(sent)
      BY <2>3 DEF Steady
    <3>2. Shaped(asked)
      BY <3>1 DEF Shaped, NewClient
    <3> QED
      BY <2>3, <3>1, <3>2 DEF Steady, Shaped, NewClient
  <2> HIDE DEF asked, id
  <2>5. Asking(asked, w, m)
    BY <1>3, <1>7, <2>1, <2>2, <2>3, <2>4 DEF Asking
  <2>6. Live(asked, {})
    BY <1>2, <2>2, <2>5, Asked
  <2> QED
    BY <1>7, <2>4, <2>6 DEF After, Live, Steady
<1> QED
  BY <1>1, <1>4, <1>6, <1>7

\* What looks the same is left by a command as well.
LEMMA StaysAfter ==
  ASSUME NEW u, NEW v, NEW w, After(v, w), Alike(u, v)
  PROVE  After(u, w)
BY StaysAgreed DEF After, Alike, Steady

\* A command of a client that has no session.
LEMMA Unanswered ==
  ASSUME NEW w, NEW bad, NEW restart, Agreed(w, {}), w.c.reset = TRUE
  PROVE  /\ Reload(w, bad) = Raise(w) /\ Save(w, restart) = Raise(w) /\ w.c.bundle = NoBundle
         /\ After(SavePreferences(w, bad), w)
<1> DEFINE id == NewMessage(w)
           ask == Message("preferences", id)
           sent == Send(w, ask)
           v == [sent EXCEPT !.c.preferences = [id |-> id, save |-> TRUE, start |-> FALSE]]
<1>1. Whole(w) /\ Shaped(w) /\ Blank(w.c) /\ w.c.bundle = NoBundle
  BY DEF Agreed, Whole, Blank
<1>2. Reload(w, bad) = Raise(w) /\ Save(w, restart) = Raise(w)
  BY <1>1 DEF Reload, Save
<1>3. ask.tag = "preferences" /\ ask.id = id
      /\ SavePreferences(w, bad) \in {Emit(w, "preferences_failed"), Emit(w, "preferences_applied"), v}
  BY DEF Message, SavePreferences
<1> HIDE DEF ask
<1>4. Steady(sent, w) /\ sent.c = w.c
  BY <1>1, <1>3, Posted DEF InTags
<1> HIDE DEF sent
<1>5. Steady(v, w) /\ Blank(v.c)
  <2>1. Shaped(sent) /\ Shaped(v)
    BY <1>4, Stores DEF Keeps, Steady
  <2> QED
    BY <1>1, <1>4, <2>1 DEF Steady, Shaped, NewClient, Blank
<1> HIDE DEF v
<1>6. After(v, w)
  <2>1. Whole(v)
    BY <1>1, <1>5 DEF Whole, Steady
  <2> QED
    BY <1>1, <1>5, <2>1 DEF After, Agreed, Steady
<1>7. After(w, w)
  BY <1>1 DEF After
<1>8. \A event : After(Emit(w, event), w)
  BY <1>1, <1>7, Cries, StaysAfter
<1> QED
  BY <1>1, <1>2, <1>3, <1>6, <1>8

\* A command of the app, and the boundary around it.
LEMMA Processed ==
  ASSUME NEW w, NEW command \in Moves, NEW bad, Agreed(w, {}), w.s.outbox = <<>>,
         command = "reload" => w.s.inbox = <<>>
  PROVE  After(Bounded(Process(w, command, bad)), w)
<1> DEFINE v == Process(w, command, bad)
           calm == [v EXCEPT !.c.failed = FALSE]
<1>1. Whole(w) /\ Shaped(w) /\ (w.c.reset = TRUE => Blank(w.c))
  BY DEF Agreed, Whole
<1>2. After(Raise(w), w)
  <2>1. Alike(Raise(w), w)
    BY <1>1, Cries
  <2> QED
    BY <1>1, <2>1, StaysAgreed DEF After, Alike, Steady
<1>3. ASSUME NEW x, Replaced(x, w)
      PROVE  After(x, w)
  BY <1>3 DEF Replaced, After
<1>4. /\ After(Load(w, bad), w) /\ \A full : After(LoadDirectory(w, full, bad), w)
  BY <1>1, <1>3, Loaded
<1>5. command = "reload" => After(Reload(w, bad), w)
  BY <1>2, Reloads, Unanswered
<1>6. command \in {"save", "save_and_restart"} => \A restart : After(Save(w, restart), w)
  <2>1. SUFFICES ASSUME command \in {"save", "save_and_restart"}, NEW restart
                 PROVE  After(Save(w, restart), w)
    OBVIOUS
  <2>2. CASE w.c.reset = TRUE
    BY <1>2, <2>2, Unanswered
  <2>3. CASE w.c.reset # TRUE
    <3> DEFINE begun == BeginUpdate(w, restart, FALSE)
    <3>1. \/ Save(w, restart) = Raise(w)
          \/ w.c.bundle # NoBundle /\ w.c.update = NoUpdate /\ Save(w, restart) = begun
      BY DEF Save
    <3>2. ASSUME w.c.bundle # NoBundle, w.c.update = NoUpdate
          PROVE  After(begun, w)
      <4>1. Live(w, {})
        BY <2>3 DEF Live
      <4>2. \A automatic : LET x == BeginUpdate(w, restart, automatic) IN
              Live(x, {}) /\ x.d = w.d /\ x.c.bundle = w.c.bundle /\ x.s.outbox = w.s.outbox
        BY <3>2, <4>1, Updating
      <4>3. Live(begun, {}) /\ begun.d = w.d /\ begun.c.bundle = w.c.bundle /\ begun.s.outbox = w.s.outbox
        BY <4>2
      <4> HIDE DEF begun
      <4> QED
        BY <3>2, <4>3 DEF After, Live
    <3> QED
      BY <1>2, <3>1, <3>2
  <2> QED
    BY <2>2, <2>3
<1>7. After(SavePreferences(w, bad), w)
  <2>1. CASE w.c.reset = TRUE
    BY <2>1, Unanswered
  <2>2. CASE w.c.reset # TRUE
    BY <2>2, Preferring DEF After, Live
  <2> QED
    BY <2>1, <2>2
<1>8. After(v, w)
  <2>1. \/ v = Raise(w) \/ v = Load(w, bad) \/ v = LoadDirectory(w, TRUE, bad)
        \/ command = "reload" /\ v = Reload(w, bad)
        \/ command \in {"save", "save_and_restart"} /\ \E restart : v = Save(w, restart)
        \/ v = SavePreferences(w, bad)
    BY StartAssumption DEF Process
  <2>2. After(LoadDirectory(w, TRUE, bad), w)
    BY <1>4
  <2> HIDE DEF v
  <2> QED
    BY <1>2, <1>4, <1>5, <1>6, <1>7, <2>1, <2>2
<1>9. Bounded(Process(w, command, bad)) \in {v, Emit(calm, "error")}
  BY DEF Bounded
<1> HIDE DEF v
<1>10. After(calm, w)
  <2>1. Shaped(v)
    BY <1>8 DEF After, Agreed, Whole
  <2>2. Shaped(calm)
    BY <2>1, Stores DEF Keeps
  <2>3. Alike(calm, v)
    BY <2>1, <2>2 DEF Alike, Steady, Shaped, NewClient
  <2> QED
    BY <1>8, <2>3, StaysAfter
<1> HIDE DEF calm
<1>11. After(Emit(calm, "error"), w)
  <2>1. Alike(Emit(calm, "error"), calm)
    BY <1>10, Cries DEF After, Agreed, Whole
  <2> QED
    BY <1>10, <2>1, StaysAfter
<1> QED
  BY <1>8, <1>9, <1>11

\* The runtime takes a message and answers it, by the number it had.
Exchange(v, w, o) ==
  LET h == Head(w.s.inbox) IN
  /\ Shaped(v) /\ v.c = w.c /\ v.d = w.d /\ w.s.inbox # <<>>
  /\ v.s.inbox = Tail(w.s.inbox) /\ v.s.outbox = Append(w.s.outbox, o) /\ o.id = h.id
  /\ Loading(w, o) => Loading(w, h)
  /\ Fits(v, o)
  /\ v.s.compiled = w.s.compiled \/ (o.tag = "loaded" /\ h.tag \in {"project", "reload"})

\* What was known still holds when the runtime answered.
LEMMA Exchanged ==
  ASSUME NEW v, NEW w, NEW o, Exchange(v, w, o), Live(w, {})
  PROVE  Live(v, {})
<1> DEFINE h == Head(w.s.inbox)
           rest == In(Tail(w.s.inbox)) \cup In(w.s.outbox)
<1>1. Linked(w, {}) /\ Whole(w) /\ Shaped(w) /\ v.c.reset = w.c.reset /\ w.s.inbox # <<>> /\ o.id = h.id
  BY DEF Live, Agreed, Whole, Exchange
<1>2. /\ In(w.s.inbox) = In(Tail(w.s.inbox)) \cup {h} /\ Distinct(Tail(w.s.inbox))
      /\ \A n \in In(Tail(w.s.inbox)) : n.id # h.id
  BY <1>1, Lines DEF Shaped, Linked, Numbered
<1>3. \A n \in In(w.s.outbox) : n.id # h.id
  BY <1>1, <1>2 DEF Linked, Numbered
<1>4. In(v.s.outbox) = In(w.s.outbox) \cup {o} /\ Distinct(v.s.outbox) /\ v.s.inbox = Tail(w.s.inbox)
  <2>1. v.s.outbox = Append(w.s.outbox, o) /\ v.s.inbox = Tail(w.s.inbox)
    BY DEF Exchange
  <2> HIDE DEF h
  <2> QED
    BY <1>1, <1>3, <2>1, Lines DEF Shaped, Linked, Numbered
<1> HIDE DEF h
<1>5. Flight(w, {}) = rest \cup {h} /\ Flight(v, {}) = rest \cup {o} /\ \A n \in rest : n.id # h.id
  BY <1>2, <1>3, <1>4 DEF Flight
<1>6. Numbered(v, {})
  BY <1>1, <1>2, <1>3, <1>4, <1>5 DEF Linked, Numbered, Flight
<1>7. \A m : Loading(v, m) = Loading(w, m)
  BY DEF Exchange, Loading
<1>8. Whole(v)
  BY <1>1, <1>7 DEF Whole, Exchange
<1>9. Apart(v.c)
  BY <1>1 DEF Linked, Exchange
<1>10. OneLoad(v, {})
  <2>1. Loading(w, o) => Loading(w, h)
    BY DEF Exchange, h
  <2> HIDE DEF rest
  <2> QED
    BY <1>1, <1>5, <1>7, <2>1 DEF Linked, OneLoad
<1>11. Books(v, {})
  <2>1. Books(w, {})
    BY <1>1 DEF Linked
  <2>2. \A id : (\E m \in Flight(w, {}) : m.id = id) => \E m \in Flight(v, {}) : m.id = id
    <3> HIDE DEF rest
    <3> QED
      BY <1>1, <1>5
  <2>3. v.c.bundle # NoBundle =>
          \/ v.c.taken \/ v.s.compiled = v.c.bundle.sources
          \/ \E m \in In(v.s.outbox) \cup {} : m.tag = "loaded"
    BY <1>4, <2>1 DEF Books, Exchange
  <2>4. v.c = w.c
    BY DEF Exchange
  <2> HIDE DEF rest
  <2> QED
    BY <1>7, <2>1, <2>2, <2>3, <2>4 DEF Books
<1>12. ASSUME NEW n \in rest
       PROVE  Fits(v, n)
  <2>1. Fits(w, n) /\ Fits(w, h) /\ n.id # h.id /\ Loading(v, n) = Loading(w, n)
    BY <1>1, <1>5, <1>7, <1>12 DEF Linked
  <2>2. n.tag = "loaded" => v.s.compiled = n.bundle.sources
    <3>1. SUFFICES ASSUME n.tag = "loaded", h.tag \in {"project", "reload"}
                   PROVE  FALSE
      BY <2>1 DEF Fits, Exchange, h
    <3>2. CASE Loading(w, n)
      <4>1. w.c.pending # NoBundle /\ w.c.candidate = NoBundle
        BY <1>1, <2>1, <3>2 DEF Fits, Linked, Books
      <4>2. Loading(w, h)
        BY <2>1, <3>1, <4>1 DEF Fits, Loading, LoadTags
      <4> QED
        BY <1>1, <1>5, <1>12, <2>1, <3>2, <4>2 DEF Linked, OneLoad
    <3>3. CASE ~Loading(w, n)
      <4>1. w.c.candidate # NoBundle /\ n.id = w.c.reload
        BY <2>1, <3>1, <3>3 DEF Fits, ReportTags
      <4>2. h.tag = "project" => w.c.pending # NoBundle
        BY <2>1 DEF Fits, Loading, LoadTags
      <4> QED
        BY <1>1, <2>1, <3>1, <4>1, <4>2 DEF Fits, Linked, Books
    <3> QED
      BY <3>2, <3>3
  <2> QED
    BY <2>1, <2>2 DEF Fits, Exchange
<1>13. Fits(v, o)
  BY DEF Exchange
<1> HIDE DEF rest
<1> QED
  BY <1>1, <1>5, <1>6, <1>8, <1>9, <1>10, <1>11, <1>12, <1>13 DEF Live, Agreed, Linked

\* The runtime consumes an input.
LEMMA Consumed ==
  ASSUME Inv, CopiesInv, RtConsume
  PROVE  CopiesInv'
<1> DEFINE h == Head(session.inbox)
           compiled == [session EXCEPT !.compiled = h.bundle.sources, !.conf = h.bundle.conf]
<1>1. /\ pc = "driving" /\ session.inbox # <<>> /\ UNCHANGED <<client, disk, commands, pc>>
      /\ World.s = session /\ World.c = client /\ World.d = disk /\ World'.c = client /\ World'.d = disk
      /\ World'.s = session'
  BY DEF RtConsume, World
<1>2. Live(World, {}) /\ Whole(World) /\ Orders /\ Shaped(World')
  BY <1>1, Consumes DEF CopiesInv, Orders, Live, Agreed, Inv
<1>3. DOMAIN session = DOMAIN NewSession
  BY <1>1, <1>2 DEF Whole, Shaped
<1>4. h.tag \in InTags /\ Fits(World, h) /\ Books(World, {})
  <2>1. Queue(session.inbox, InTags) /\ Distinct(session.inbox) /\ Linked(World, {})
    BY <1>1, <1>2 DEF Live, Agreed, Whole, Shaped, Linked, Numbered
  <2>2. h.tag \in InTags
    BY <1>1, <2>1, Queues
  <2>3. In(session.inbox) = In(Tail(session.inbox)) \cup {h}
    BY <1>1, <2>1, Lines
  <2> HIDE DEF h
  <2> QED
    BY <1>1, <2>1, <2>2, <2>3 DEF Linked, Flight
<1> DEFINE Matched(s, o) == /\ DOMAIN s = DOMAIN NewSession
                            /\ s.inbox = session.inbox /\ s.outbox = session.outbox
                            /\ o.id = h.id
           Stands(s, o) == /\ Loading(World, o) => Loading(World, h)
                           /\ \A y : y.c = client /\ y.s.compiled = s.compiled => Fits(y, o)
                           /\ s.compiled = session.compiled \/ (o.tag = "loaded" /\ h.tag \in {"project", "reload"})
<1>5. ASSUME NEW s, NEW o, Answer(s, o), Matched(s, o), Stands(s, o)
      PROVE  CopiesInv'
  <2>1. session' = [s EXCEPT !.inbox = Tail(@), !.outbox = Append(@, o)]
    BY <1>5 DEF Answer
  <2>2. /\ session'.inbox = Tail(session.inbox) /\ session'.outbox = Append(session.outbox, o)
        /\ session'.compiled = s.compiled
    BY <1>5, <2>1 DEF NewSession
  <2>3. Fits(World', o)
    BY <1>1, <1>5, <2>2
  <2>4. Exchange(World', World, o)
    BY <1>1, <1>2, <1>5, <2>2, <2>3 DEF Exchange
  <2>5. Live(World', {})
    BY <1>2, <2>4, Exchanged
  <2>6. Orders'
    BY <1>1, <1>2 DEF Orders
  <2> QED
    BY <1>1, <2>5, <2>6 DEF CopiesInv, Live
<1>7. /\ Loading(World, h) <=> h.tag \in {"hello", "resolve", "project"}
      /\ h.id = client.update.id => h.tag \in {"prepare", "finalize"}
      /\ h.id = client.reload => h.tag = "reload"
      /\ h.tag \in {"hello", "resolve", "project"} =>
           client.pending # NoBundle
      /\ h.tag = "project" => h.bundle = client.pending /\ client.candidate = NoBundle
      /\ h.tag = "reload" => /\ client.candidate # NoBundle /\ h.bundle = client.candidate
                             /\ h.id = client.reload /\ client.pending = NoBundle /\ h.bundle.full
      /\ h.tag = "prepare" => client.update.stage = "prepare" /\ h.id = client.update.id
      /\ h.tag = "finalize" => client.update.stage = "finalize" /\ h.id = client.update.id
  <2>1. Loading(World, h) <=> h.tag \in {"hello", "resolve", "project"}
    BY <1>4 DEF Loading, InTags, LoadTags, ReportTags
  <2>2. /\ h.id = client.update.id => h.tag \in {"prepare", "finalize"}
        /\ h.id = client.reload => h.tag = "reload"
    BY <1>1, <1>4 DEF Fits, InTags, UpdateTags, ReportTags
  <2>3. /\ h.tag = "project" => h.bundle = client.pending /\ client.candidate = NoBundle
        /\ h.tag = "reload" => /\ client.candidate # NoBundle /\ h.bundle = client.candidate
                               /\ h.id = client.reload /\ client.pending = NoBundle /\ h.bundle.full
        /\ h.tag \in {"hello", "resolve", "project"} =>
             client.pending # NoBundle
    BY <1>1, <1>4, <2>1 DEF Fits, Books
  <2>4. /\ h.tag = "prepare" => client.update.stage = "prepare" /\ h.id = client.update.id
        /\ h.tag = "finalize" => client.update.stage = "finalize" /\ h.id = client.update.id
    BY <1>1, <1>4 DEF Fits, UpdateTags
  <2> QED
    BY <2>1, <2>2, <2>3, <2>4
<1> HIDE DEF h
<1>8. ASSUME NEW tag, \/ tag = "welcome" /\ h.tag = "hello"
                      \/ tag = "resolved" /\ h.tag = "resolve"
                      \/ tag = "needs_source" /\ h.tag = "project"
                      \/ tag = "unwelcome" /\ h.tag = "hello"
                      \/ tag = "phase" /\ h.tag = "start"
                      \/ tag = "rejected",
             NEW s, DOMAIN s = DOMAIN NewSession, s.inbox = session.inbox, s.outbox = session.outbox,
             s.compiled = session.compiled,
             Answer(s, Message(tag, h.id))
      PROVE  CopiesInv'
  <2> DEFINE o == Message(tag, h.id)
  <2>1. o.tag = tag /\ o.id = h.id
    BY DEF Message
  <2> HIDE DEF o
  <2>2. Loading(World, o) => Loading(World, h)
    BY <1>7, <1>8, <2>1 DEF Loading, LoadTags, ReportTags
  <2>3. ASSUME NEW y, y.c = client
        PROVE  Fits(y, o)
    BY <1>1, <1>7, <1>8, <2>1, <2>3 DEF Fits, Loading, LoadTags, ReportTags, UpdateTags
  <2>4. Matched(s, o) /\ Stands(s, o)
    BY <1>8, <2>1, <2>2, <2>3
  <2> HIDE DEF Matched, Stands
  <2> QED
    BY <1>5, <1>8, <2>4 DEF o
<1>9. \A tag, conf : /\ Profile(tag, h, conf).tag = tag /\ Profile(tag, h, conf).id = h.id
                     /\ Profile(tag, h, conf).bundle = h.bundle
  BY DEF Message, Profile
<1>10. ASSUME h.tag \in {"project", "reload"}, RtCompile(h)
       PROVE  CopiesInv'
  <2> DEFINE o == Profile("loaded", h, h.bundle.conf)
  <2>1. CASE Answer(compiled, o)
    <3>1. o.tag = "loaded" /\ o.id = h.id /\ o.bundle = h.bundle
      BY <1>9
    <3>2. /\ DOMAIN compiled = DOMAIN NewSession /\ compiled.inbox = session.inbox
          /\ compiled.outbox = session.outbox /\ compiled.compiled = h.bundle.sources
      BY <1>3 DEF NewSession
    <3> HIDE DEF o, compiled
    <3>3. Loading(World, o) => Loading(World, h)
      BY <1>1, <1>7, <1>10, <3>1 DEF Loading, LoadTags, ReportTags
    <3>4. ASSUME NEW y, y.c = client, y.s.compiled = h.bundle.sources
          PROVE  Fits(y, o)
      BY <1>7, <1>10, <3>1, <3>4 DEF Fits, Loading, LoadTags, ReportTags, UpdateTags
    <3>5. Matched(compiled, o) /\ Stands(compiled, o)
      BY <1>7, <1>10, <3>1, <3>2, <3>3, <3>4
    <3> HIDE DEF Matched, Stands
    <3> QED
      BY <1>5, <2>1, <3>5
  <2>2. CASE ~h.bundle.full /\ Answer(session, Message("needs_source", h.id))
    BY <1>3, <1>7, <1>8, <1>10, <2>2
  <2> QED
    BY <1>10, <2>1, <2>2 DEF RtCompile
<1>11. ASSUME h.tag = "prepare", RtPrepare(h)
       PROVE  CopiesInv'
  <2> DEFINE contents == IF session.conf = 0 THEN 1 ELSE 1 + Cardinality(disk.written \cup {session.conf, 0})
             o == [Message("prepared", h.id) EXCEPT !.conf = h.conf, !.contents = contents]
             s == [session EXCEPT !.next = contents]
  <2>1. Answer(session, Message("rejected", h.id)) \/ Answer(s, o)
    BY <1>11 DEF RtPrepare
  <2>2. o.tag = "prepared" /\ o.id = h.id /\ o.contents = contents
    BY DEF Message
  <2> HIDE DEF contents
  <2>3. /\ DOMAIN s = DOMAIN NewSession /\ s.inbox = session.inbox
        /\ s.outbox = session.outbox /\ s.compiled = session.compiled
    BY <1>3 DEF NewSession
  <2> HIDE DEF o, s
  <2>4. ~Loading(World, o)
    BY <2>2 DEF Loading, LoadTags, ReportTags
  <2>5. ASSUME NEW y, y.c = client
        PROVE  Fits(y, o)
    BY <1>7, <1>11, <2>2, <2>5 DEF Fits, Loading, LoadTags, ReportTags, UpdateTags
  <2>6. Matched(s, o) /\ Stands(s, o)
    BY <1>11, <2>2, <2>3, <2>4, <2>5
  <2> HIDE DEF Matched, Stands
  <2> QED
    BY <1>3, <1>5, <1>8, <2>1, <2>6
<1>12. ASSUME h.tag = "finalize", RtFinalize(h)
       PROVE  CopiesInv'
  <2> DEFINE conf == IF h.contents = 1 THEN session.next ELSE session.conf
             o == Profile("committed", h, conf)
             s == [session EXCEPT !.conf = conf, !.next = 0]
  <2>1. Answer(s, o)
    BY <1>12 DEF RtFinalize
  <2> HIDE DEF conf
  <2>3. o.tag = "committed" /\ o.id = h.id
    BY <1>9
  <2>4. /\ DOMAIN s = DOMAIN NewSession /\ s.inbox = session.inbox
        /\ s.outbox = session.outbox /\ s.compiled = session.compiled
    BY <1>3 DEF NewSession
  <2> HIDE DEF o, s
  <2>5. ~Loading(World, o)
    BY <2>3 DEF Loading, LoadTags, ReportTags
  <2>6. ASSUME NEW y, y.c = client
        PROVE  Fits(y, o)
    BY <1>7, <1>12, <2>3, <2>6 DEF Fits, Loading, LoadTags, ReportTags, UpdateTags
  <2>7. Matched(s, o) /\ Stands(s, o)
    BY <1>12, <2>3, <2>4, <2>5, <2>6
  <2> HIDE DEF Matched, Stands
  <2> QED
    BY <1>5, <2>1, <2>7
<1>13. ASSUME h.tag = "preferences", Answer(session, Profile("applied", h, session.conf))
       PROVE  CopiesInv'
  <2> DEFINE o == Profile("applied", h, session.conf)
  <2>1. o.tag = "applied" /\ o.id = h.id
    BY <1>9
  <2> HIDE DEF o
  <2>2. ~Loading(World, o)
    BY <2>1 DEF Loading, LoadTags, ReportTags
  <2>3. ASSUME NEW y, y.c = client
        PROVE  Fits(y, o)
    BY <1>7, <1>13, <2>1, <2>3 DEF Fits, Loading, LoadTags, ReportTags, UpdateTags
  <2>4. Matched(session, o) /\ Stands(session, o)
    BY <1>3, <2>1, <2>2, <2>3
  <2> HIDE DEF Matched, Stands
  <2> QED
    BY <1>5, <1>13, <2>4 DEF o
<1>14. ASSUME h.tag \in {"project", "reload"}, Answer(session, [Message("load_failed", h.id) EXCEPT !.bundle = h.bundle])
       PROVE  CopiesInv'
  <2> DEFINE o == [Message("load_failed", h.id) EXCEPT !.bundle = h.bundle]
  <2>1. o.tag = "load_failed" /\ o.id = h.id /\ o.bundle = h.bundle
    BY DEF Message
  <2> HIDE DEF o
  <2>2. Loading(World, o) => Loading(World, h)
    BY <1>1, <1>7, <1>14, <2>1 DEF Loading, LoadTags, ReportTags
  <2>3. ASSUME NEW y, y.c = client
        PROVE  Fits(y, o)
    BY <1>7, <1>14, <2>1, <2>3 DEF Fits, Loading, LoadTags, ReportTags, UpdateTags
  <2>4. Matched(session, o) /\ Stands(session, o)
    BY <1>3, <2>1, <2>2, <2>3
  <2> HIDE DEF Matched, Stands
  <2> QED
    BY <1>5, <1>14, <2>4 DEF o
<1>15. ASSUME h.tag = "start", Answer([session EXCEPT !.starts = @ + 1], Message("phase", h.id))
       PROVE  CopiesInv'
  <2> DEFINE s == [session EXCEPT !.starts = session.starts + 1]
  <2>1. /\ DOMAIN s = DOMAIN NewSession /\ s.inbox = session.inbox /\ s.outbox = session.outbox
        /\ s.compiled = session.compiled
    BY <1>3 DEF NewSession
  <2>2. Answer(s, Message("phase", h.id))
    BY <1>15
  <2> HIDE DEF s
  <2> QED
    BY <1>8, <1>15, <2>1, <2>2
<1>16. ASSUME NEW tag, Answer(session, Message(tag, h.id)),
              \/ tag = "welcome" /\ h.tag = "hello"
              \/ tag = "resolved" /\ h.tag = "resolve"
              \/ tag = "unwelcome" /\ h.tag = "hello"
              \/ tag = "rejected"
       PROVE  CopiesInv'
  BY <1>3, <1>8, <1>16
<1> HIDE DEF compiled
<1>17. \/ h.tag = "hello" /\ Answer(session, Message("welcome", h.id))
       \/ h.tag = "resolve" /\ Answer(session, Message("resolved", h.id))
       \/ h.tag \in {"project", "reload"} /\ RtCompile(h)
       \/ Answer(session, Message("rejected", h.id))
       \/ h.tag = "prepare" /\ RtPrepare(h)
       \/ h.tag = "finalize" /\ RtFinalize(h)
       \/ h.tag = "preferences" /\ Answer(session, Profile("applied", h, session.conf))
       \/ h.tag = "start" /\ Answer([session EXCEPT !.starts = @ + 1], Message("phase", h.id))
       \/ h.tag = "hello" /\ Answer(session, Message("unwelcome", h.id))
       \/ /\ h.tag \in {"project", "reload"}
          /\ Answer(session, [Message("load_failed", h.id) EXCEPT !.bundle = h.bundle])
  BY <1>4 DEF RtConsume, Refuse, InTags, h
<1> QED
  BY <1>10, <1>11, <1>12, <1>13, <1>14, <1>15, <1>16, <1>17

\* The message that is handled is in the hand until it is.
LEMMA InHand ==
  ASSUME NEW w, Agreed(w, {}), w.s.outbox # <<>>
  PROVE  LET x == [w EXCEPT !.s.outbox = Tail(@)]
             h == Head(w.s.outbox)
         IN Agreed(x, {h}) /\ h.tag \in OutTags
<1> DEFINE x == [w EXCEPT !.s.outbox = Tail(@)]
           h == Head(w.s.outbox)
<1>1. Whole(w) /\ Shaped(w)
  BY DEF Agreed, Whole
<1>2. h.tag \in OutTags /\ Queue(Tail(w.s.outbox), OutTags)
  BY <1>1, Queues DEF Shaped
<1>3. /\ x.c = w.c /\ x.d = w.d /\ x.s.inbox = w.s.inbox /\ x.s.outbox = Tail(w.s.outbox)
      /\ x.s.compiled = w.s.compiled
      /\ DOMAIN x = {"c", "d", "s"} /\ DOMAIN x.s = DOMAIN NewSession
  BY <1>1 DEF Shaped, NewSession
<1> HIDE DEF x
<1>4. Whole(x)
  BY <1>1, <1>2, <1>3 DEF Whole, Shaped
<1>5. ASSUME x.c.reset # TRUE
      PROVE  Linked(x, {h})
  <2>1. Linked(w, {})
    BY <1>3, <1>5 DEF Agreed
  <2>2. /\ In(w.s.outbox) = In(x.s.outbox) \cup {h} /\ Distinct(x.s.outbox)
        /\ \A n \in In(x.s.outbox) : n.id # h.id
    BY <1>1, <1>3, <2>1, Lines DEF Shaped, Linked, Numbered
  <2> HIDE DEF h
  <2>3. Flight(x, {h}) = Flight(w, {})
    BY <1>3, <2>2 DEF Flight
  <2>4. Numbered(x, {h})
    <3>1. Numbered(w, {}) /\ In(x.s.inbox) = In(w.s.inbox)
      BY <1>3, <2>1 DEF Linked
    <3> QED
      BY <1>3, <2>2, <2>3, <3>1 DEF Numbered
  <2>5. \A m : Loading(x, m) = Loading(w, m)
    BY <1>3 DEF Loading
  <2>6. Apart(x.c) /\ OneLoad(x, {h})
    BY <1>3, <2>1, <2>3, <2>5 DEF Linked, OneLoad
  <2>7. Books(x, {h})
    <3>1. Books(w, {}) /\ In(w.s.outbox) \cup {} = In(x.s.outbox) \cup {h}
      BY <2>1, <2>2 DEF Linked
    <3>2. x.c.bundle # NoBundle =>
            \/ x.c.taken \/ x.s.compiled = x.c.bundle.sources
            \/ \E m \in In(x.s.outbox) \cup {h} : m.tag = "loaded"
      BY <1>3, <3>1 DEF Books
    <3>3. /\ x.c.candidate # NoBundle =>
               /\ x.c.candidate.full
               /\ \E m \in Flight(x, {h}) : m.id = x.c.reload
          /\ x.c.update # NoUpdate => \E m \in Flight(x, {h}) : m.id = x.c.update.id
      BY <1>3, <2>3, <3>1 DEF Books
    <3>4. /\ DOMAIN x.c.update = DOMAIN NoUpdate /\ (x.c.update.stage = "none" => x.c.update = NoUpdate)
          /\ Sound(x.c.bundle) /\ Sound(x.c.pending) /\ Sound(x.c.candidate)
          /\ Sound(x.c.update.candidate)
          /\ x.c.pending # NoBundle => x.c.bundle = NoBundle
          /\ x.c.bundle = NoBundle => x.c.candidate = NoBundle /\ x.c.update = NoUpdate
      BY <1>3, <3>1 DEF Books
    <3> QED
      BY <3>2, <3>3, <3>4 DEF Books
  <2>8. \A m \in Flight(x, {h}) : Fits(x, m)
    BY <1>3, <2>1, <2>3, <2>5 DEF Linked, Fits
  <2> QED
    BY <2>4, <2>6, <2>7, <2>8 DEF Linked
<1>6. x.c.reset = TRUE => Blank(x.c)
  BY <1>3 DEF Agreed
<1> QED
  BY <1>2, <1>4, <1>5, <1>6 DEF Agreed, x

\* What a step of the worker leaves is the world, unless an exception ends it.
LEMMA Continued ==
  ASSUME NEW w, Agreed(w, {}), NEW next, Continue(w, next)
  PROVE  \/ pc' = "closed" /\ session'.compiled = 0
         \/ /\ pc' = next /\ Agreed(World', {}) /\ client' = w.c /\ disk' = w.d /\ session' = w.s
            /\ commands' = IF pc = "commands" THEN Tail(commands) ELSE commands
<1> DEFINE wound == WindUp(w)
           after == IF w.c.failed THEN wound ELSE w
<1>1. /\ client' = after.c /\ disk' = after.d /\ session' = after.s
      /\ pc' = IF w.c.failed THEN "closed" ELSE next
      /\ commands' = IF w.c.failed THEN <<>> ELSE IF pc = "commands" THEN Tail(commands) ELSE commands
  BY DEF Continue
<1>2. Whole(w) /\ Shaped(w)
  BY DEF Agreed, Whole
<1>3. wound.s.compiled = 0
  <2> DEFINE x == ResetWire(w)
  <2>1. DOMAIN x = {"c", "d", "s"}
    BY <1>2, Wiped DEF Whole, Shaped
  <2>2. wound = [x EXCEPT !.c.events = Append(@, "error"), !.c.failed = FALSE, !.c.reset = TRUE,
                          !.c.destroy = FALSE, !.s = Closed]
    BY DEF WindUp
  <2> HIDE DEF x, wound
  <2>3. wound.s = Closed
    BY <2>1, <2>2
  <2> QED
    BY <2>3, Fresher
<1> HIDE DEF wound
<1>4. CASE w.c.failed
  BY <1>1, <1>3, <1>4
<1>5. CASE ~w.c.failed
  <2>1. World'.c = w.c /\ World'.d = w.d /\ World'.s = w.s /\ DOMAIN World' = {"c", "d", "s"}
    BY <1>1, <1>5 DEF World
  <2>2. Alike(World', w)
    BY <1>2, <2>1 DEF Alike, Steady, Shaped
  <2>3. Agreed(World', {})
    BY <2>2, StaysAgreed
  <2> QED
    BY <1>1, <1>5, <2>3
<1> QED
  BY <1>4, <1>5

\* The project was loaded when there was none, and a command was processed.
LEMMA Commanded ==
  ASSUME Inv, CopiesInv, StartUp \/ ProcessCommand
  PROVE  CopiesInv'
<1>1. /\ World.c = client /\ World.d = disk /\ World.s = session
      /\ World'.c = client' /\ World'.d = disk' /\ World'.s = session'
  BY DEF World
<1>2. Agreed(World, {}) /\ Orders /\ Whole(World) /\ (client.reset = TRUE => Blank(client)) /\ commands \in Seq(Moves)
  BY <1>1 DEF CopiesInv, StartUp, ProcessCommand, Agreed, Inv
<1>3. CASE StartUp
  <2>1. PICK bad \in Operations : \E w \in {Load(World, bad)} : Continue(w, "commands")
    BY <1>3 DEF StartUp, Attempt
  <2>2. pc = "start" /\ Continue(Load(World, bad), "commands") /\ commands = <<>> /\ session.outbox = <<>>
    BY <1>2, <1>3, <2>1 DEF StartUp, Orders
  <2>3. Replaced(Load(World, bad), World)
    BY <1>1, <1>2, Loaded
  <2>4. \/ pc' = "closed" /\ session'.compiled = 0
        \/ /\ pc' = "commands" /\ Agreed(World', {}) /\ session' = Load(World, bad).s /\ commands' = <<>>
    BY <2>2, <2>3, Continued DEF Replaced
  <2>5. pc' = "commands" /\ commands' = <<>> /\ session'.outbox = <<>> => Orders'
    BY DEF Orders
  <2> QED
    BY <1>1, <2>2, <2>3, <2>4, <2>5 DEF CopiesInv, Replaced
<1>4. CASE ProcessCommand
  <2> DEFINE command == Head(commands)
             v(bad) == Bounded(Process(World, command, bad))
  <2>1. PICK bad \in Operations : \E w \in {v(bad)} : Continue(w, "commands")
    BY <1>4 DEF ProcessCommand, Attempt
  <2>2. /\ pc = "commands" /\ commands # <<>> /\ Continue(v(bad), "commands") /\ command \in Moves
        /\ session.outbox = <<>> /\ command = commands[1] /\ 1 \in DOMAIN commands
    BY <1>2, <1>4, <2>1 DEF ProcessCommand, Orders
  <2>3. command = "reload" => session.inbox = <<>>
    BY <1>2, <2>2 DEF Orders
  <2>4. After(v(bad), World)
    <3> HIDE DEF command
    <3> QED
      BY <1>1, <1>2, <2>2, <2>3, Processed
  <2> HIDE DEF v, command
  <2>5. \/ pc' = "closed" /\ session'.compiled = 0
        \/ /\ pc' = "commands" /\ Agreed(World', {}) /\ client' = v(bad).c /\ disk' = v(bad).d
           /\ session' = v(bad).s /\ commands' = Tail(commands)
    BY <2>2, <2>4, Continued DEF After
  <2>6. ASSUME pc' = "commands", client' = v(bad).c, disk' = v(bad).d, session' = v(bad).s,
               commands' = Tail(commands)
        PROVE  Orders'
    <3>1. \A i \in DOMAIN commands' : i + 1 \in DOMAIN commands /\ i + 1 # 1 /\ commands'[i] = commands[i + 1]
      <4>1. DOMAIN commands = 1..Len(commands) /\ Len(commands) \in Nat \ {0}
        BY <1>2, <2>2
      <4>2. /\ DOMAIN Tail(commands) = 1..(Len(commands) - 1)
            /\ \A i \in 1..(Len(commands) - 1) : Tail(commands)[i] = commands[i + 1]
        BY <1>2, <2>2
      <4> QED
        BY <2>6, <4>1, <4>2
    <3>2. session'.outbox = <<>> /\ disk' = disk
      BY <1>1, <2>2, <2>4, <2>6 DEF After
    <3>3. \A i \in DOMAIN commands' : commands'[i] # "reload"
      BY <1>2, <3>1 DEF Orders
    <3> QED
      BY <2>6, <3>2, <3>3 DEF Orders
  <2> QED
    BY <2>5, <2>6 DEF CopiesInv
<1> QED
  BY <1>3, <1>4

\* A message was handled, or the last one had been.
LEMMA Polled ==
  ASSUME Inv, CopiesInv, HandleOutput \/ EndPoll
  PROVE  CopiesInv'
<1>1. /\ World.c = client /\ World.d = disk /\ World.s = session
      /\ pc \in {"polling", "handling"} /\ Agreed(World, {}) /\ commands = <<>>
  BY DEF World, CopiesInv, HandleOutput, EndPoll, Orders
<1>2. CASE HandleOutput
  <2> DEFINE x == [World EXCEPT !.s.outbox = Tail(@)]
             h == Head(session.outbox)
  <2>1. PICK bad \in Operations : \E w \in {Handle(x, h, bad)} : Continue(w, "polling")
    BY <1>2 DEF HandleOutput, Attempt
  <2>2. Continue(Handle(x, h, bad), "polling") /\ session.outbox # <<>>
    BY <1>2, <2>1 DEF HandleOutput
  <2>3. Agreed(x, {h}) /\ h.tag \in OutTags
    BY <1>1, <2>2, InHand
  <2> HIDE DEF x, h
  <2>4. Agreed(Handle(x, h, bad), {})
    BY <2>3, Handled
  <2>5. \/ pc' = "closed" /\ session'.compiled = 0
        \/ pc' = "polling" /\ Agreed(World', {}) /\ commands' = <<>>
    BY <1>1, <2>2, <2>4, Continued
  <2>6. pc' = "polling" /\ commands' = <<>> => Orders'
    BY DEF Orders
  <2> QED
    BY <2>5, <2>6 DEF CopiesInv
<1>3. CASE EndPoll
  <2>1. session.outbox = <<>> /\ (Continue(World, "commands") \/ Continue(Raise(World), "commands"))
    BY <1>3 DEF EndPoll
  <2>2. Alike(Raise(World), World)
    BY <1>1, Cries DEF Agreed, Whole
  <2>3. Agreed(Raise(World), {}) /\ Raise(World).s.outbox = <<>>
    BY <1>1, <2>1, <2>2, StaysAgreed DEF Alike, Steady
  <2>4. \/ pc' = "closed" /\ session'.compiled = 0
        \/ pc' = "commands" /\ Agreed(World', {}) /\ commands' = <<>> /\ session'.outbox = <<>>
    BY <1>1, <2>1, <2>3, Continued
  <2>5. pc' = "commands" /\ commands' = <<>> /\ session'.outbox = <<>> => Orders'
    BY DEF Orders
  <2> QED
    BY <2>4, <2>5 DEF CopiesInv
<1> QED
  BY <1>2, <1>3

\* What changes the disk alone: another program that edits the project, and the
\* file that is read before it is replaced.
LEMMA Elsewhere ==
  ASSUME Inv, CopiesInv, [Next]_vars, pc # "closed", UNCHANGED <<client, session, commands>>,
         DOMAIN disk' = DOMAIN disk
  PROVE  Agreed(World', {})
<1>1. /\ World.c = client /\ World.d = disk /\ World.s = session
      /\ World'.c = client /\ World'.d = disk' /\ World'.s = session
      /\ Shaped(World') /\ Agreed(World, {}) /\ Whole(World)
  BY Steps DEF World, CopiesInv, Inv, Agreed
<1>2. CASE client.reset = TRUE
  BY <1>1, <1>2 DEF Agreed, Whole
<1>3. CASE client.reset # TRUE
  <2>1. Live(World, {}) /\ Sound(client.bundle) /\ Sound(client.pending)
    BY <1>1, <1>3 DEF Live, Agreed, Linked, Books
  <2>2. Storing(World', World, {})
    BY <1>1, <2>1 DEF Storing
  <2> QED
    BY <2>1, <2>2, Stored DEF Live
<1> QED
  BY <1>2, <1>3

\* Every step.
LEMMA CopiesSteps ==
  ASSUME Careful, Inv, CopiesInv, [Next]_vars
  PROVE  CopiesInv'
<1>0. pc # "closed" => DOMAIN disk = {"project", "sources", "conf", "cache", "written", "seen"}
  BY DEF CopiesInv, Agreed, Whole, World
<1>1. ASSUME UNCHANGED <<client, disk, session, commands>>, pc' # "closed" => pc # "closed",
             pc' = "closed" => pc = "closed", pc' # "commands" => commands = <<>>,
             pc' \in {"commands", "start"} => session.outbox = <<>>, pc' = "driving" => client.reset # TRUE
      PROVE  CopiesInv'
  <2>1. World' = World
    BY <1>1 DEF World
  <2> QED
    BY <1>1, <2>1 DEF CopiesInv, Orders
<1>2. CASE BeginPump
  <2>1. UNCHANGED <<client, disk, session, commands>> /\ pc' = "driving" /\ pc = "commands" /\ commands = <<>>
        /\ client.reset # TRUE
    BY <1>2 DEF BeginPump
  <2> QED
    BY <1>1, <2>1
<1>3. CASE EndDrive
  <2>1. UNCHANGED <<client, disk, session, commands>> /\ pc' = "polling" /\ pc = "driving"
    BY <1>3 DEF EndDrive
  <2> QED
    BY <1>1, <2>1 DEF CopiesInv, Orders
<1>4. CASE UNCHANGED vars
  <2>1. UNCHANGED <<client, disk, session, commands, pc>>
    BY <1>4 DEF vars
  <2> QED
    BY <1>1, <2>1 DEF CopiesInv, Orders
<1>5. CASE Choose
  <2>1. PICK move \in Moves : /\ pc = "commands" /\ Offered(move) /\ commands' = Append(commands, move)
                              /\ UNCHANGED <<client, disk, session, pc>>
    BY <1>5 DEF Choose
  <2>2. World' = World /\ commands \in Seq(Moves)
    BY <2>1 DEF World, Inv
  <2>3. /\ DOMAIN commands = 1..Len(commands) /\ Len(commands) \in Nat
        /\ DOMAIN commands' = 1..(Len(commands) + 1) /\ commands'[Len(commands) + 1] = move
        /\ \A i \in 1..Len(commands) : commands'[i] = commands[i]
    BY <2>1, <2>2
  <2>4. move = "reload" => commands = <<>> /\ session.inbox = <<>>
    BY <2>1 DEF Offered, Quiet
  <2>5. Orders'
    <3>1. \A i \in DOMAIN commands' : commands'[i] = "reload" => i = 1 /\ session.inbox = <<>>
      <4>1. commands = <<>> => Len(commands) = 0
        OBVIOUS
      <4> QED
        BY <2>1, <2>3, <2>4, <4>1 DEF CopiesInv, Orders
    <3>2. session.outbox = <<>>
      BY <2>1 DEF CopiesInv, Orders
    <3> QED
      BY <2>1, <3>1, <3>2 DEF Orders
  <2> QED
    BY <2>1, <2>2, <2>5 DEF CopiesInv
<1>6. CASE HandleEvents
  <2>1. UNCHANGED <<disk, session, commands, pc>> /\ client' = [client EXCEPT !.events = <<>>]
    BY <1>6 DEF HandleEvents
  <2>2. Shaped(World) /\ Shaped(World') /\ World.c = client /\ World.d = disk /\ World.s = session
        /\ World'.c = client' /\ World'.d = disk /\ World'.s = session /\ DOMAIN client = DOMAIN NewClient
    BY <2>1, Steps DEF World, Inv, Shaped
  <2>3. Alike(World', World) /\ client'.reset = client.reset /\ client'.bundle = client.bundle
    BY <2>1, <2>2 DEF Alike, Steady, NewClient
  <2>4. pc # "closed" => Agreed(World', {})
    BY <2>3, StaysAgreed DEF CopiesInv
  <2> QED
    BY <2>1, <2>3, <2>4 DEF CopiesInv, Orders
<1>7. CASE TakeOutput
  <2>1. /\ UNCHANGED <<client, session, commands>> /\ pc = "polling" /\ pc' = "handling"
        /\ disk' = [disk EXCEPT !.seen = disk.conf]
    BY <1>7 DEF TakeOutput
  <2>2. Agreed(World', {})
    BY <1>0, <2>1, Elsewhere
  <2> QED
    BY <2>1, <2>2 DEF CopiesInv, Orders
<1>8. CASE Edit
  <2>1. /\ UNCHANGED <<client, session, commands, pc>> /\ pc # "closed"
        /\ disk' \in {[disk EXCEPT !.sources = @ + 1], [disk EXCEPT !.conf = 9]}
    BY <1>8 DEF Edit
  <2>2. Agreed(World', {})
    BY <1>0, <2>1, Elsewhere
  <2> QED
    BY <2>1, <2>2 DEF CopiesInv, Orders
<1> QED
  BY <1>2, <1>3, <1>4, <1>5, <1>6, <1>7, <1>8, Commanded, Polled, Consumed DEF Next, Worker, Stopped

\* What the client starts with.
LEMMA CopiesStart ==
  ASSUME Init
  PROVE  CopiesInv
<1>1. /\ World.c = NewClient /\ World.s = NewSession /\ World.d = disk /\ pc = "start" /\ commands = <<>>
  BY DEF Init, World
<1>2. PICK project \in Projects, conf \in {0, 1}, cache \in {0, 1} :
        disk = [project |-> project, sources |-> 1, conf |-> conf, cache |-> cache, written |-> {conf},
                seen |-> conf]
  BY DEF Init
<1>3. /\ NewClient.reset = FALSE /\ Blank(NewClient) /\ NoUpdate.id = 0 /\ NoUpdate.candidate = NoBundle
      /\ NoUpdate.stage = "none"
  BY DEF NewClient, Blank, NoUpdate
<1>4. Shaped(World)
  <2>1. DOMAIN World = {"c", "d", "s"}
    BY DEF World
  <2> QED
    BY <1>1, <2>1, Fresher DEF Shaped
<1>5. Whole(World)
  <2>1. DOMAIN disk = {"project", "sources", "conf", "cache", "written", "seen"}
    BY <1>2
  <2>2. NewSession.compiled = 0
    BY Fresher
  <2> QED
    BY <1>1, <1>3, <1>4, <2>1, <2>2 DEF Whole
<1>6. Flight(World, {}) = {} /\ In(World.s.outbox) = {} /\ In(World.s.inbox) = {}
  BY <1>1, Fresher DEF Flight, In
<1>7. Numbered(World, {}) /\ OneLoad(World, {}) /\ Apart(World.c)
  BY <1>1, <1>3, <1>6, Fresher DEF Numbered, Distinct, OneLoad, Apart, Unlike, Blank
<1>8. Books(World, {})
  BY <1>1, <1>3, <1>6 DEF Books, Blank, Sound
<1>9. Agreed(World, {})
  BY <1>1, <1>3, <1>5, <1>6, <1>7, <1>8 DEF Agreed, Linked
<1>10. Orders
  BY <1>1, Fresher DEF Orders, World
<1> QED
  BY <1>1, <1>9, <1>10 DEF CopiesInv

\* When the user reloads and saves preferences while nothing else is under way, a
\* reload compares the disk with what the runtime runs, whatever fails, whatever is
\* refused and whoever edits the project meanwhile, unless a write of the
\* configuration took edited sources into the bundle (reload_candidate,
\* _write_configuration).
THEOREM CopiesHold ==
  ASSUME Careful
  PROVE  Spec => []BaselineMatches
<1>1. Init => CopiesInv
  BY CopiesStart
<1>2. Inv /\ CopiesInv /\ [Next]_vars => CopiesInv'
  BY CopiesSteps
<1>3. CopiesInv => BaselineMatches
  <2> SUFFICES ASSUME CopiesInv
               PROVE  BaselineMatches
    OBVIOUS
  <2>1. CASE pc = "closed"
    BY <2>1 DEF CopiesInv, BaselineMatches, BaselineKept, Settled
  <2>2. CASE pc # "closed"
    <3>1. /\ Agreed(World, {}) /\ Whole(World)
          /\ World.c = client /\ World.d = disk /\ World.s = session
      BY <2>2 DEF CopiesInv, Agreed, World
    <3>2. client.reset = TRUE => client.bundle = NoBundle
      BY <3>1 DEF Agreed, Blank
    <3>3. client.reset # TRUE => Books(World, {})
      BY <3>1 DEF Agreed, Linked
    <3>4. In(<<>>) = {}
      BY DEF In
    <3> QED
      BY <3>1, <3>2, <3>3, <3>4 DEF Books, BaselineMatches, BaselineKept, Settled
  <2> QED
    BY <2>1, <2>2
<1> QED
  BY <1>1, <1>2, <1>3, Invariant, PTL DEF Spec
-----------------------------------------------------------------------------
(* Whose turn it is to start the game, and whose the configuration is *)

\* A game is started by one message, once.
Starting(w) == \E m \in In(w.s.inbox) : m.tag = "start"
Started(w) == w.s.starts # 0 \/ Starting(w)
Once(s) ==
  /\ s.starts \in {0, 1}
  /\ \A i \in DOMAIN s.inbox : s.inbox[i].tag = "start" =>
       s.starts = 0 /\ \A j \in DOMAIN s.inbox : s.inbox[j].tag = "start" => i = j

\* The configuration the game has, or will have, is confirmed.
Confirmed(w) == ReadOnly(w) \/ w.s.conf # 0

\* Whose turn it is to start the game: the load's, the confirmation's, the
\* preferences', or nobody's any more.
Turns(w) ==
  /\ w.c.start => ~w.c.preferences.start /\ ~Started(w)
  /\ w.c.preferences.start => w.c.preferences.id # 0 /\ ~Started(w)
  /\ w.c.pending # NoBundle =>
       /\ ~w.c.start /\ ~w.c.preferences.start /\ ~Started(w)
       /\ ~w.c.snapshot.known /\ w.c.preferences.id = 0
  /\ w.c.candidate # NoBundle =>
       /\ ~w.c.preferences.start /\ ~Starting(w)
       /\ ~w.c.update.automatic /\ w.c.update.stage # "finalize"
  /\ w.c.update.automatic => ~w.c.preferences.start /\ ~Starting(w)
  /\ Starting(w) \/ w.c.preferences.start =>
       \/ Confirmed(w)
       \/ ~w.c.snapshot.known /\ w.c.update = NoUpdate /\ w.c.preferences.id = 0

\* The preferences the client waits for are under way.
Owes(w, hand) ==
  /\ w.c.preferences.id # 0 => \E m \in Flight(w, hand) : m.id = w.c.preferences.id
  /\ \A m \in Flight(w, hand) :
       m.id = w.c.preferences.id => m.tag \in {"preferences", "applied", "rejected"}

\* The configuration a message speaks of is the session's.
Says(w, m) ==
  /\ m.tag \in {"loaded", "prepared", "committed"} => m.conf = w.s.conf
  /\ m.tag \in {"loaded", "committed"} => (m.contents = 0 <=> m.conf # 0)
  /\ m.tag = "prepared" \/ (m.tag = "finalize" /\ m.contents = 1) => w.s.next # 0
  /\ m.tag \in {"finalize", "committed"} => w.c.update.stage = "finalize"
  /\ m.tag = "finalize" /\ w.c.update.commit => m.contents = 1
  /\ m.tag = "committed" /\ w.c.update.commit => m.conf # 0

\* A reload comes first: it is answered before what was asked behind it.
First(w, hand) ==
  /\ \A i \in DOMAIN w.s.inbox : w.s.inbox[i].tag = "reload" => i = 1 /\ w.s.outbox = <<>> /\ hand = {}
  /\ w.c.candidate # NoBundle =>
       /\ \A j \in DOMAIN w.s.outbox : w.s.outbox[j].tag = "prepared" =>
            \/ \E i \in 1..(j - 1) : w.s.outbox[i].id = w.c.reload
            \/ \E m \in hand : m.id = w.c.reload
       /\ \A m \in hand : m.tag # "prepared"

\* What the messages under way say, and in which order.
Told(w, hand) == Owes(w, hand) /\ First(w, hand) /\ \A m \in Flight(w, hand) : Says(w, m)

Ready(w, hand) == Turns(w) /\ Told(w, hand)

\* A client without a session starts nothing.
Idle(c) == c.start = FALSE /\ c.preferences = NoPreferences /\ c.snapshot = NoSnapshot

Ordered(w, hand) ==
  /\ Once(w.s) /\ (w.c.reset = TRUE => Idle(w.c)) /\ (w.c.reset # TRUE => Ready(w, hand))

\* Nothing is reloaded.
Polls(w) == \A m \in In(w.s.inbox) : m.tag # "reload"

\* What another program wrote before the file was read is replaced by who knows it.
Respects(v, w) ==
  /\ w.d.conf = 9 /\ v.d.conf # 9 => w.s.conf = 9 \/ w.d.seen # 9
  /\ IsFiniteSet(w.d.written) => IsFiniteSet(v.d.written)

TurnsInv ==
  /\ IsFiniteSet(disk.written)
  /\ pc # "closed" => Ordered(World, {})
  /\ pc \in {"polling", "handling"} => Polls(World)
  /\ pc = "closed" => session.starts = 0 /\ session.inbox = <<>>

\* A world between two messages.
Calm(w) == Shaped(w) /\ Ready(w, {}) /\ Once(w.s) /\ Polls(w)

\* What the game and the configuration depend on is as it was.
Like(v, w) ==
  /\ v.s = w.s /\ v.d.project = w.d.project
  /\ v.c.start = w.c.start /\ v.c.preferences = w.c.preferences /\ v.c.update = w.c.update
  /\ v.c.candidate = w.c.candidate /\ v.c.reload = w.c.reload
  /\ v.c.snapshot = w.c.snapshot /\ (v.c.pending # NoBundle => w.c.pending # NoBundle)

\* A message in the hand was handled: what waited for it waits no more.
Letting(v, w, h) ==
  /\ v.s = w.s
  /\ \/ v.c.preferences = w.c.preferences /\ (w.c.preferences.id # 0 => h.id # w.c.preferences.id)
     \/ v.c.preferences = NoPreferences
  /\ \/ /\ v.c.candidate = w.c.candidate /\ v.c.reload = w.c.reload
        /\ w.c.candidate # NoBundle => h.id # w.c.reload
     \/ v.c.candidate = NoBundle
  /\ \/ v.c.update = w.c.update
     \/ v.c.update = NoUpdate /\ h.id = w.c.update.id

\* A message is sent that is no reload.
Posting(v, w, m) ==
  /\ v.s.inbox = Append(w.s.inbox, m) /\ v.s.outbox = w.s.outbox
  /\ v.s.starts = w.s.starts /\ v.s.conf = w.s.conf /\ v.s.next = w.s.next
  /\ v.c.candidate = w.c.candidate /\ v.c.reload = w.c.reload
  /\ New(w, m.id) /\ m.tag \in InTags \ {"reload"}
  /\ \/ v.c.preferences = w.c.preferences
     \/ v.c.preferences.id = m.id /\ m.tag = "preferences"
  /\ \/ v.c.update = w.c.update /\ m.tag # "finalize"
     \/ /\ w.c.update = NoUpdate
        /\ m.tag = "finalize" => v.c.update.stage = "finalize" /\ (v.c.update.commit => m.contents = 1)
  /\ m.tag = "finalize" /\ m.contents = 1 => w.s.next # 0
-----------------------------------------------------------------------------
(* What leaves the turns as they are *)

\* A queue, one message longer or one shorter.
LEMMA Stretches ==
  ASSUME NEW q, NEW tags, Queue(q, tags)
  PROVE  /\ Len(q) \in Nat /\ DOMAIN q = 1..Len(q)
         /\ \A m : /\ DOMAIN Append(q, m) = 1..(Len(q) + 1) /\ Append(q, m)[Len(q) + 1] = m
                   /\ \A i \in 1..Len(q) : Append(q, m)[i] = q[i]
                   /\ In(Append(q, m)) = In(q) \cup {m}
         /\ q # <<>> => /\ Head(q) = q[1] /\ 1 \in DOMAIN q /\ DOMAIN Tail(q) = 1..(Len(q) - 1)
                        /\ \A i \in DOMAIN Tail(q) : Tail(q)[i] = q[i + 1] /\ i + 1 \in DOMAIN q
                        /\ In(q) = In(Tail(q)) \cup {Head(q)}
<1>1. PICK S : q \in Seq(S)
  BY DEF Queue
<1>2. Len(q) \in Nat /\ DOMAIN q = 1..Len(q)
  BY <1>1
<1>3. ASSUME NEW m
      PROVE  /\ DOMAIN Append(q, m) = 1..(Len(q) + 1) /\ Append(q, m)[Len(q) + 1] = m
             /\ \A i \in 1..Len(q) : Append(q, m)[i] = q[i]
             /\ In(Append(q, m)) = In(q) \cup {m}
  <2>1. /\ DOMAIN Append(q, m) = 1..(Len(q) + 1) /\ Append(q, m)[Len(q) + 1] = m
        /\ \A i \in 1..Len(q) : Append(q, m)[i] = q[i]
    BY <1>1, AppendTo
  <2> QED
    BY <1>2, <2>1 DEF In
<1>4. ASSUME q # <<>>
      PROVE  /\ Head(q) = q[1] /\ 1 \in DOMAIN q /\ DOMAIN Tail(q) = 1..(Len(q) - 1)
             /\ \A i \in DOMAIN Tail(q) : Tail(q)[i] = q[i + 1] /\ i + 1 \in DOMAIN q
             /\ In(q) = In(Tail(q)) \cup {Head(q)}
  <2>1. /\ Head(q) = q[1] /\ 1 \in DOMAIN q /\ DOMAIN Tail(q) = 1..(Len(q) - 1)
        /\ \A i \in 1..(Len(q) - 1) : Tail(q)[i] = q[i + 1]
    BY <1>1, <1>2, <1>4
  <2>2. \A i \in DOMAIN Tail(q) : Tail(q)[i] = q[i + 1] /\ i + 1 \in DOMAIN q
    BY <1>2, <2>1
  <2>3. In(q) \subseteq In(Tail(q)) \cup {Head(q)}
    <3>1. SUFFICES ASSUME NEW i \in DOMAIN q PROVE q[i] \in In(Tail(q)) \cup {Head(q)}
      BY DEF In
    <3>2. CASE i = 1
      BY <2>1, <3>2
    <3>3. CASE i # 1
      <4>1. i - 1 \in DOMAIN Tail(q) /\ q[i] = Tail(q)[i - 1]
        BY <1>2, <2>1, <3>3
      <4> QED
        BY <4>1 DEF In
    <3> QED
      BY <3>2, <3>3
  <2>4. In(Tail(q)) \cup {Head(q)} \subseteq In(q)
    BY <2>1, <2>2 DEF In
  <2> QED
    BY <2>1, <2>2, <2>3, <2>4
<1> QED
  BY <1>2, <1>3, <1>4

\* What looks the same is as much in order.
LEMMA StaysReady ==
  ASSUME NEW v, NEW w, NEW hand, Like(v, w), Ready(w, hand)
  PROVE  Ready(v, hand)
<1>1. /\ v.s = w.s /\ ReadOnly(v) = ReadOnly(w) /\ Flight(v, hand) = Flight(w, hand)
      /\ Starting(v) = Starting(w) /\ Started(v) = Started(w) /\ Confirmed(v) = Confirmed(w)
  BY DEF Like, ReadOnly, Flight, Starting, Started, Confirmed
<1>2. Turns(v)
  BY <1>1 DEF Like, Ready, Turns
<1>3. Told(v, hand)
  BY <1>1 DEF Like, Ready, Told, Owes, First, Says
<1> QED
  BY <1>2, <1>3 DEF Ready

\* What is calm stays calm.
LEMMA StaysCalm ==
  ASSUME NEW v, NEW w, Shaped(v), Like(v, w), Calm(w)
  PROVE  Calm(v)
<1>1. v.s = w.s /\ Ready(v, {})
  BY StaysReady DEF Calm, Like
<1> QED
  BY <1>1 DEF Calm, Polls

\* A message was taken out of the hand.
LEMMA LetGo ==
  ASSUME NEW v, NEW w, NEW h, Letting(v, w, h), Live(w, {h}), Told(w, {h})
  PROVE  Told(v, {}) /\ Polls(w) /\ Polls(v)
<1>1. /\ Numbered(w, {h}) /\ \A m \in Flight(w, {h}) : Fits(w, m)
      /\ NoUpdate.commit = FALSE /\ NoPreferences.id = 0
  BY DEF Live, Agreed, Linked, NoUpdate, NoPreferences
<1>2. Flight(w, {h}) = Flight(v, {}) \cup {h} /\ v.s = w.s
  BY DEF Flight, Letting
<1>3. \A m \in Flight(v, {}) : m.id # h.id /\ m.id \in Nat \ {0} /\ m \in Flight(w, {h})
  BY <1>1, <1>2 DEF Numbered, Flight
<1>4. Owes(v, {})
  <2>1. CASE v.c.preferences = NoPreferences
    BY <1>1, <1>3, <2>1 DEF Owes
  <2>2. CASE v.c.preferences = w.c.preferences /\ (w.c.preferences.id # 0 => h.id # w.c.preferences.id)
    BY <1>2, <1>3, <2>2 DEF Owes, Told
  <2> QED
    BY <2>1, <2>2 DEF Letting
<1>5. First(v, {}) /\ Polls(w)
  <2>1. \A i \in DOMAIN w.s.inbox : w.s.inbox[i].tag # "reload"
    BY DEF Told, First
  <2>2. v.c.candidate # NoBundle => /\ v.c.candidate = w.c.candidate /\ v.c.reload = w.c.reload
                                    /\ h.id # w.c.reload
    BY DEF Letting
  <2> QED
    BY <1>2, <2>1, <2>2 DEF Told, First, Polls, In
<1>6. ASSUME NEW m \in Flight(v, {})
      PROVE  Says(v, m)
  <2>1. Says(w, m) /\ Fits(w, m) /\ m.id # h.id
    BY <1>1, <1>3, <1>6 DEF Told
  <2>2. CASE v.c.update = w.c.update
    BY <1>2, <2>1, <2>2 DEF Says
  <2>3. CASE v.c.update = NoUpdate /\ h.id = w.c.update.id
    BY <1>1, <1>2, <2>1, <2>3 DEF Says, Fits, UpdateTags
  <2> QED
    BY <2>2, <2>3 DEF Letting
<1> QED
  BY <1>2, <1>4, <1>5, <1>6 DEF Told, Polls

\* A message was sent.
LEMMA Posts ==
  ASSUME NEW v, NEW w, NEW m, Posting(v, w, m), Shaped(w), Told(w, {}), Once(w.s),
         m.tag = "start" => ~Started(w)
  PROVE  /\ Told(v, {}) /\ Once(v.s) /\ (Polls(w) => Polls(v))
         /\ Starting(v) <=> Starting(w) \/ m.tag = "start"
         /\ Started(v) <=> Started(w) \/ m.tag = "start"
<1>1. /\ Queue(w.s.inbox, InTags) /\ m.tag \in InTags /\ m.tag # "reload" /\ NoUpdate.stage = "none"
      /\ \A n \in Flight(w, {}) : n.id # m.id
      /\ m.id # 0 /\ m.id # w.c.preferences.id
  BY DEF Shaped, Posting, New, Flight, NoUpdate
<1>2. /\ Len(w.s.inbox) \in Nat /\ DOMAIN w.s.inbox = 1..Len(w.s.inbox)
      /\ DOMAIN v.s.inbox = 1..(Len(w.s.inbox) + 1) /\ v.s.inbox[Len(w.s.inbox) + 1] = m
      /\ \A i \in 1..Len(w.s.inbox) : v.s.inbox[i] = w.s.inbox[i]
      /\ In(v.s.inbox) = In(w.s.inbox) \cup {m}
  BY <1>1, Stretches DEF Posting
<1>3. Flight(v, {}) = Flight(w, {}) \cup {m}
  BY <1>2 DEF Posting, Flight
<1>4. /\ Starting(v) <=> Starting(w) \/ m.tag = "start"
      /\ Started(v) <=> Started(w) \/ m.tag = "start"
      /\ Polls(w) => Polls(v)
  BY <1>1, <1>2 DEF Starting, Started, Posting, Polls
<1>5. Once(v.s)
  <2>1. v.s.starts = w.s.starts
    BY DEF Posting
  <2> DEFINE n == Len(w.s.inbox)
  <2>2. ASSUME NEW i \in DOMAIN v.s.inbox
        PROVE  \/ i = n + 1 /\ v.s.inbox[i] = m
               \/ i \in DOMAIN w.s.inbox /\ v.s.inbox[i] = w.s.inbox[i]
    <3>1. i \in 1..(n + 1) /\ n \in Nat
      BY <1>2, <2>2
    <3>2. i = n + 1 \/ i \in 1..n
      <4> HIDE DEF n
      <4> QED
        BY <3>1
    <3> QED
      BY <1>2, <3>2
  <2> HIDE DEF n
  <2>3. CASE m.tag # "start"
    <3>1. \A i \in DOMAIN v.s.inbox : v.s.inbox[i].tag = "start" => i \in DOMAIN w.s.inbox /\ w.s.inbox[i].tag = "start"
      BY <2>2, <2>3
    <3> QED
      BY <2>1, <3>1 DEF Once
  <2>4. CASE m.tag = "start"
    <3>1. w.s.starts = 0 /\ \A i \in DOMAIN w.s.inbox : w.s.inbox[i].tag # "start"
      BY <2>4 DEF Started, Starting, In
    <3>2. \A i \in DOMAIN v.s.inbox : v.s.inbox[i].tag = "start" => i = n + 1
      BY <2>2, <3>1
    <3> QED
      BY <2>1, <3>1, <3>2 DEF Once
  <2> QED
    BY <2>3, <2>4
<1>6. Owes(v, {})
  <2>1. CASE v.c.preferences = w.c.preferences
    BY <1>1, <1>3, <2>1 DEF Owes, Told
  <2>2. CASE v.c.preferences.id = m.id /\ m.tag = "preferences"
    BY <1>1, <1>3, <2>2 DEF Owes
  <2> QED
    BY <2>1, <2>2 DEF Posting
<1>7. First(v, {})
  BY <1>1, <1>2 DEF First, Told, Posting
<1>8. ASSUME NEW n \in Flight(v, {})
      PROVE  Says(v, n)
  <2>1. v.s.conf = w.s.conf /\ v.s.next = w.s.next
    BY DEF Posting
  <2>2. CASE n = m
    <3>1. m.tag \notin {"loaded", "prepared", "committed"}
      BY <1>1 DEF InTags
    <3> QED
      BY <2>1, <2>2, <3>1 DEF Says, Posting
  <2>3. CASE n \in Flight(w, {})
    <3>1. Says(w, n)
      BY <2>3 DEF Told
    <3>2. v.c.update = w.c.update \/ w.c.update = NoUpdate
      BY DEF Posting
    <3> QED
      BY <1>1, <2>1, <3>1, <3>2 DEF Says
  <2> QED
    BY <1>3, <2>2, <2>3
<1> QED
  BY <1>4, <1>5, <1>6, <1>7, <1>8 DEF Told
-----------------------------------------------------------------------------
(* The turns while the project is submitted *)

\* What a message leaves: the turns, and what another program wrote.
Obeys(v, w) == Ordered(v, {}) /\ Polls(v) /\ Respects(v, w)

\* What the turns depend on of the client is as it was.
Waits(v, w) ==
  /\ v.c.start = w.c.start /\ v.c.preferences = w.c.preferences /\ v.c.update = w.c.update
  /\ v.c.candidate = w.c.candidate /\ v.c.reload = w.c.reload /\ v.c.snapshot = w.c.snapshot
  /\ v.c.pending = w.c.pending

\* A message that is sent changes nothing else.
LEMMA Mails ==
  ASSUME NEW w, NEW m, Shaped(w), m.tag \in InTags, m.id = NewMessage(w)
  PROVE  LET v == Send(w, m) IN
         /\ v.c = w.c /\ v.d = w.d /\ Shaped(v) /\ New(w, m.id)
         /\ v.s.inbox = Append(w.s.inbox, m) /\ v.s.outbox = w.s.outbox
         /\ v.s.starts = w.s.starts /\ v.s.conf = w.s.conf /\ v.s.next = w.s.next
<1> DEFINE v == Send(w, m)
<1>1. Shaped(v)
  BY Tells DEF Keeps
<1>2. New(w, m.id)
  BY NewNumber
<1>3. /\ v.c = w.c /\ v.d = w.d /\ v.s.inbox = Append(w.s.inbox, m) /\ v.s.outbox = w.s.outbox
      /\ v.s.starts = w.s.starts /\ v.s.conf = w.s.conf /\ v.s.next = w.s.next
  BY DEF Send, Shaped, NewSession
<1> QED
  BY <1>1, <1>2, <1>3

\* A message of the load, which is nobody's turn.
LEMMA Forwards ==
  ASSUME NEW w, NEW v, NEW m, Calm(w), Shaped(v), Waits(v, w), v.d.project = w.d.project, New(w, m.id),
         m.tag \in {"resolve", "project"},
         v.s.inbox = Append(w.s.inbox, m), v.s.outbox = w.s.outbox,
         v.s.starts = w.s.starts, v.s.conf = w.s.conf, v.s.next = w.s.next
  PROVE  Calm(v)
<1>1. Posting(v, w, m)
  BY DEF Posting, Waits, InTags
<1>2. /\ Told(v, {}) /\ Once(v.s) /\ Polls(v)
      /\ Starting(v) <=> Starting(w)
      /\ Started(v) <=> Started(w)
  BY <1>1, Posts DEF Calm, Ready
<1>3. Confirmed(v) = Confirmed(w)
  BY DEF Confirmed, ReadOnly
<1>4. Turns(v)
  BY <1>2, <1>3 DEF Calm, Ready, Turns, Waits
<1> QED
  BY <1>2, <1>4 DEF Calm, Ready

\* Events, exceptions, and what the turns do not depend on.
LEMMA Murmurs ==
  ASSUME NEW w, Shaped(w)
  PROVE  /\ Shaped(Raise(w)) /\ Like(Raise(w), w) /\ Raise(w).d = w.d /\ Raise(w).c.reset = w.c.reset
         /\ \A event : LET v == Emit(w, event) IN
              Shaped(v) /\ Like(v, w) /\ v.d = w.d /\ v.c.reset = w.c.reset
         /\ \A x : LET v == [w EXCEPT !.c.compatibility = x] IN
              Shaped(v) /\ Like(v, w) /\ v.d = w.d /\ v.c.reset = w.c.reset
         /\ \A x : LET v == [w EXCEPT !.c.bundle = x] IN
              Shaped(v) /\ Like(v, w) /\ v.d = w.d /\ v.c.reset = w.c.reset
<1>1. Shaped(Raise(w)) /\ \A event : Shaped(Emit(w, event))
  BY Tells DEF Keeps
<1>2. \A x : Shaped([w EXCEPT !.c.compatibility = x]) /\ Shaped([w EXCEPT !.c.bundle = x])
  BY Stores DEF Keeps
<1>3. Like(Raise(w), w) /\ Raise(w).d = w.d /\ Raise(w).c.reset = w.c.reset
  BY DEF Raise, Like, Shaped, NewClient
<1>4. ASSUME NEW event
      PROVE  Like(Emit(w, event), w) /\ Emit(w, event).d = w.d /\ Emit(w, event).c.reset = w.c.reset
  BY DEF Emit, Like, Shaped, NewClient
<1>5. ASSUME NEW x
      PROVE  LET v == [w EXCEPT !.c.compatibility = x] IN Like(v, w) /\ v.d = w.d /\ v.c.reset = w.c.reset
  BY DEF Like, Shaped, NewClient
<1>6. ASSUME NEW x
      PROVE  LET v == [w EXCEPT !.c.bundle = x] IN Like(v, w) /\ v.d = w.d /\ v.c.reset = w.c.reset
  BY DEF Like, Shaped, NewClient
<1> QED
  BY <1>1, <1>2, <1>3, <1>4, <1>5, <1>6

\* What is calm stays so when something is told.
LEMMA Settling ==
  ASSUME NEW w, Calm(w)
  PROVE  Calm(Raise(w)) /\ \A event : Calm(Emit(w, event))
BY Murmurs, StaysCalm DEF Calm

\* A calm world with a session obeys.
LEMMA Complies ==
  ASSUME NEW v, NEW w, Calm(v), v.c.reset # TRUE, v.d = w.d
  PROVE  Obeys(v, w)
BY DEF Calm, Obeys, Ordered, Respects

\* A message nobody waits for by its number.
LEMMA Passes ==
  ASSUME NEW w, NEW h, Live(w, {h}), Ready(w, {h}), Once(w.s),
         h.tag \in OutTags \ {"applied", "rejected", "loaded", "load_failed"}
  PROVE  Calm(w)
<1>1. h.tag \notin {"preferences", "applied", "rejected"} /\ h.tag \notin ReportTags \cup {"reload", "rejected"}
  BY DEF OutTags, ReportTags
<1>2. h.id # w.c.preferences.id /\ h.id # w.c.reload /\ Shaped(w)
  BY <1>1, Held DEF Fits, Ready, Told, Owes, Flight
<1>3. Letting(w, w, h)
  BY <1>2 DEF Letting
<1>4. Told(w, {}) /\ Polls(w)
  BY <1>3, LetGo DEF Ready
<1> QED
  BY <1>2, <1>4 DEF Calm, Ready

\* materialize and _submit_project
LEMMA Delivers ==
  ASSUME NEW w, NEW cache, Calm(w)
  PROVE  /\ Calm(Submit(w, cache)) /\ Submit(w, cache).d = w.d /\ Submit(w, cache).c.reset = w.c.reset
         /\ w.c.pending # NoBundle =>
              Calm(Materialize(w)) /\ Materialize(w).d = w.d /\ Materialize(w).c.reset = w.c.reset
<1> DEFINE m == [Message("project", NewMessage(w)) EXCEPT !.bundle = w.c.pending, !.contents = cache]
           v == Send(w, m)
           x == Materialize(w)
<1>1. Submit(w, cache) \in {w, v}
  BY DEF Submit
<1>2. m.tag = "project" /\ m.id = NewMessage(w) /\ Shaped(w)
  BY DEF Message, Calm
<1> HIDE DEF m
<1>3. /\ v.c = w.c /\ v.d = w.d /\ Shaped(v) /\ New(w, m.id)
      /\ v.s.inbox = Append(w.s.inbox, m) /\ v.s.outbox = w.s.outbox
      /\ v.s.starts = w.s.starts /\ v.s.conf = w.s.conf /\ v.s.next = w.s.next
  BY <1>2, Mails DEF InTags
<1> HIDE DEF v
<1>4. Calm(v)
  BY <1>2, <1>3, Forwards DEF Waits
<1>5. Shaped(x) /\ x.d = w.d /\ x.s = w.s /\ x.c.reset = w.c.reset
  BY <1>2, Submits DEF Keeps, Materialize, Shaped
<1>6. w.c.pending # NoBundle => Like(x, w)
  BY <1>2, <1>5 DEF Like, Materialize, Shaped, NewClient
<1> HIDE DEF x
<1>7. Calm(Submit(w, cache)) /\ Submit(w, cache).d = w.d /\ Submit(w, cache).c.reset = w.c.reset
  BY <1>1, <1>3, <1>4
<1>8. w.c.pending # NoBundle => Calm(x)
  BY <1>5, <1>6, StaysCalm
<1> QED
  BY <1>5, <1>7, <1>8 DEF x

\* _resolve_project_compatibility
LEMMA Resolves ==
  ASSUME NEW w, Calm(w)
  PROVE  Calm(Resolve(w)) /\ Resolve(w).d = w.d /\ Resolve(w).c.reset = w.c.reset
<1> DEFINE id == NewMessage(w)
           m == Message("resolve", id)
           sent == Send(w, m)
           v == [sent EXCEPT !.c.compatibility = id]
<1>1. Resolve(w) \in {w, Raise(w), v}
  BY DEF Resolve
<1>2. m.tag = "resolve" /\ m.id = id /\ Shaped(w)
  BY DEF Message, Calm
<1> HIDE DEF m, id
<1>3. /\ sent.c = w.c /\ sent.d = w.d /\ Shaped(sent) /\ New(w, m.id)
      /\ sent.s.inbox = Append(w.s.inbox, m) /\ sent.s.outbox = w.s.outbox
      /\ sent.s.starts = w.s.starts /\ sent.s.conf = w.s.conf /\ sent.s.next = w.s.next
  BY <1>2, Mails DEF InTags, id
<1> HIDE DEF sent
<1>4. Shaped(v) /\ v.d = w.d /\ v.s = sent.s /\ Waits(v, w) /\ v.c.reset = w.c.reset
  <2>1. Shaped(v)
    BY <1>3, Stores DEF Keeps
  <2> QED
    BY <1>3, <2>1 DEF Waits, Shaped, NewClient
<1> HIDE DEF v
<1>5. Calm(v)
  BY <1>2, <1>3, <1>4, Forwards
<1> QED
  BY <1>1, <1>2, <1>4, <1>5, Settling, Murmurs

\* The messages of a load, and what is only told.
LEMMA Serves ==
  ASSUME NEW w, NEW h, NEW bad, Live(w, {h}), Ready(w, {h}), Once(w.s)
  PROVE  /\ h.tag = "welcome" => Obeys(Resolve(w), w)
         /\ h.tag = "resolved" => Obeys(HandleResolved(w, h, bad), w)
         /\ h.tag = "needs_source" => Obeys(HandleNeedsSource(w), w)
         /\ h.tag \in {"unwelcome", "phase"} => \A event : Obeys(Emit(w, event), w)
<1> SUFFICES ASSUME h.tag \in {"welcome", "resolved", "needs_source", "unwelcome", "phase"}
             PROVE  /\ Obeys(Resolve(w), w) /\ Obeys(HandleResolved(w, h, bad), w)
                    /\ Obeys(HandleNeedsSource(w), w) /\ \A event : Obeys(Emit(w, event), w)
  OBVIOUS
<1>1. Calm(w) /\ w.c.reset # TRUE /\ Shaped(w)
  BY Passes DEF OutTags, Live, Calm
<1>2. Obeys(Resolve(w), w) /\ \A event : Obeys(Emit(w, event), w)
  <2>1. Calm(Resolve(w)) /\ Resolve(w).d = w.d /\ Resolve(w).c.reset # TRUE
    BY <1>1, Resolves
  <2>2. ASSUME NEW event
        PROVE  Calm(Emit(w, event)) /\ Emit(w, event).d = w.d /\ Emit(w, event).c.reset # TRUE
    BY <1>1, Settling, Murmurs
  <2> QED
    BY <2>1, <2>2, Complies
<1> DEFINE resolved == [w EXCEPT !.c.compatibility = 0]
<1>3. Calm(resolved) /\ resolved.d = w.d /\ resolved.c.reset # TRUE /\ resolved.c.pending = w.c.pending
  <2>1. resolved.c.pending = w.c.pending
    BY <1>1 DEF Shaped, NewClient
  <2> QED
    BY <1>1, <2>1, Murmurs, StaysCalm
<1>4. \/ HandleResolved(w, h, bad) = w
      \/ HandleResolved(w, h, bad) = Emit(resolved, "runtime_error")
      \/ \E cache : HandleResolved(w, h, bad) = Submit(resolved, cache)
      \/ w.c.pending # NoBundle /\ HandleResolved(w, h, bad) = Submit(Materialize(resolved), 0)
  BY DEF HandleResolved
<1> HIDE DEF resolved
<1>5. ASSUME NEW x, Calm(x), x.d = w.d, x.c.reset # TRUE
      PROVE  /\ Obeys(x, w) /\ \A cache : Obeys(Submit(x, cache), w)
             /\ \A event : Obeys(Emit(x, event), w)
             /\ x.c.pending # NoBundle => Obeys(Submit(Materialize(x), 0), w)
  <2>1. /\ \A cache : /\ Calm(Submit(x, cache)) /\ Submit(x, cache).d = w.d
                      /\ Submit(x, cache).c.reset # TRUE
        /\ \A event : /\ Calm(Emit(x, event)) /\ Emit(x, event).d = w.d /\ Emit(x, event).c.reset # TRUE
        /\ x.c.pending # NoBundle => /\ Calm(Materialize(x)) /\ Materialize(x).d = w.d
                                     /\ Materialize(x).c.reset # TRUE
    BY ZenonT(40), <1>5, Delivers, Settling, Murmurs DEF Calm
  <2>2. ASSUME x.c.pending # NoBundle
        PROVE  /\ Calm(Submit(Materialize(x), 0)) /\ Submit(Materialize(x), 0).d = w.d
               /\ Submit(Materialize(x), 0).c.reset # TRUE
    BY <2>1, <2>2, Delivers
  <2> QED
    BY <1>5, <2>1, <2>2, Complies
<1>6. Obeys(HandleResolved(w, h, bad), w)
  BY <1>1, <1>3, <1>4, <1>5
<1>7. Obeys(HandleNeedsSource(w), w)
  BY <1>1, <1>5 DEF HandleNeedsSource
<1> QED
  BY <1>2, <1>6, <1>7
-----------------------------------------------------------------------------
(* The turns of the configuration and of the preferences *)

\* A world that may be polled or not.
Even(w) == Shaped(w) /\ Ready(w, {}) /\ Once(w.s)

\* The game may be started.
Due(w) ==
  /\ ~Started(w) /\ ~w.c.start /\ ~w.c.preferences.start /\ w.c.pending = NoBundle
  /\ w.c.candidate = NoBundle /\ ~w.c.update.automatic
  /\ Confirmed(w) \/ (~w.c.snapshot.known /\ w.c.update = NoUpdate /\ w.c.preferences.id = 0)

\* The game is as much started as before.
Paused(v, w) ==
  /\ Starting(v) <=> Starting(w)
  /\ Started(v) <=> Started(w)
  /\ v.s.conf = w.s.conf /\ v.d.project = w.d.project /\ v.c.reset = w.c.reset

\* _begin_configuration_update
LEMMA Proposes ==
  ASSUME NEW w, NEW restart, NEW automatic, Even(w), w.c.update = NoUpdate, w.c.snapshot.known,
         automatic => ~Starting(w) /\ ~w.c.preferences.start /\ w.c.candidate = NoBundle
  PROVE  LET v == BeginUpdate(w, restart, automatic) IN
         /\ Even(v) /\ (Polls(w) => Polls(v)) /\ Paused(v, w) /\ v.d = w.d
         /\ v.c.start = w.c.start /\ v.c.preferences = w.c.preferences /\ v.c.snapshot = w.c.snapshot
         /\ v.c.candidate = w.c.candidate /\ v.c.reload = w.c.reload /\ v.c.pending = w.c.pending
         /\ v.c.update.stage = "prepare" /\ (automatic => v.c.update.automatic)
<1> DEFINE id == NewMessage(w)
           m == [Message("prepare", id) EXCEPT !.conf = w.c.snapshot.conf]
           u == [NoUpdate EXCEPT !.stage = "prepare", !.id = id, !.restart = restart,
                 !.automatic = automatic, !.digest = w.c.snapshot.conf]
           sent == Send(w, m)
           v == [sent EXCEPT !.c.update = u]
<1>1. BeginUpdate(w, restart, automatic) = v
  BY DEF BeginUpdate
<1>2. m.tag = "prepare" /\ m.id = id /\ Shaped(w)
  BY DEF Message, Even
<1>3. u.stage = "prepare" /\ u.automatic = automatic
  BY DEF NoUpdate
<1> HIDE DEF m, id, u
<1>4. /\ sent.c = w.c /\ sent.d = w.d /\ Shaped(sent) /\ New(w, m.id)
      /\ sent.s.inbox = Append(w.s.inbox, m) /\ sent.s.outbox = w.s.outbox
      /\ sent.s.starts = w.s.starts /\ sent.s.conf = w.s.conf /\ sent.s.next = w.s.next
  BY <1>2, Mails DEF InTags, id
<1> HIDE DEF sent
<1>5. /\ Shaped(v) /\ v.d = w.d /\ v.s = sent.s /\ v.c.update = u /\ v.c.reset = w.c.reset
      /\ v.c.start = w.c.start /\ v.c.preferences = w.c.preferences /\ v.c.snapshot = w.c.snapshot
      /\ v.c.candidate = w.c.candidate /\ v.c.reload = w.c.reload /\ v.c.pending = w.c.pending
  <2>1. Shaped(v)
    BY <1>4, Stores DEF Keeps
  <2> QED
    BY <1>4, <2>1 DEF Shaped, NewClient
<1> HIDE DEF v
<1>6. Posting(v, w, m)
  BY <1>2, <1>4, <1>5 DEF Posting, InTags
<1>7. /\ Told(v, {}) /\ Once(v.s) /\ (Polls(w) => Polls(v))
      /\ Starting(v) <=> Starting(w)
      /\ Started(v) <=> Started(w)
  BY <1>2, <1>6, Posts DEF Even, Ready
<1>8. Paused(v, w) /\ Confirmed(v) = Confirmed(w)
  BY <1>4, <1>5, <1>7 DEF Paused, Confirmed, ReadOnly
<1>9. Turns(v)
  BY <1>3, <1>5, <1>7, <1>8 DEF Even, Ready, Turns
<1> QED
  BY <1>1, <1>3, <1>5, <1>7, <1>8, <1>9 DEF Even, Ready

\* _continue_project_start
LEMMA Launches ==
  ASSUME NEW w, Calm(w), Due(w)
  PROVE  Calm(Start(w)) /\ Start(w).d = w.d /\ Start(w).c.reset = w.c.reset
<1> DEFINE m == Message("start", NewMessage(w))
           v == Send(w, m)
<1>1. Start(w) = v
  BY DEF Start
<1>2. m.tag = "start" /\ m.id = NewMessage(w) /\ Shaped(w)
  BY DEF Message, Calm
<1> HIDE DEF m
<1>3. /\ v.c = w.c /\ v.d = w.d /\ Shaped(v) /\ New(w, m.id)
      /\ v.s.inbox = Append(w.s.inbox, m) /\ v.s.outbox = w.s.outbox
      /\ v.s.starts = w.s.starts /\ v.s.conf = w.s.conf /\ v.s.next = w.s.next
  BY <1>2, Mails DEF InTags
<1> HIDE DEF v
<1>4. Posting(v, w, m)
  BY <1>2, <1>3 DEF Posting, InTags
<1>5. Told(v, {}) /\ Once(v.s) /\ Polls(v)
  BY <1>2, <1>4, Posts DEF Calm, Ready, Due
<1>6. Turns(v)
  BY <1>3 DEF Due, Turns, Confirmed, ReadOnly
<1> QED
  BY <1>1, <1>3, <1>5, <1>6 DEF Calm, Ready

\* What the client asks of the preferences.
Preferred(w, save, start) ==
  [Send(w, Message("preferences", NewMessage(w)))
     EXCEPT !.c.preferences = [id |-> NewMessage(w), save |-> save, start |-> start]]

\* _begin_client_preferences and save_client_preferences
LEMMA Inquires ==
  ASSUME NEW w, NEW save, NEW start \in BOOLEAN, Even(w), w.c.snapshot.known, w.c.pending = NoBundle,
         start = FALSE => w.c.preferences.id = 0 /\ ~w.c.preferences.start,
         start = TRUE => Due(w)
  PROVE  LET v == Preferred(w, save, start) IN
         Even(v) /\ (Polls(w) => Polls(v)) /\ v.d = w.d /\ v.c.reset = w.c.reset
<1> DEFINE id == NewMessage(w)
           m == Message("preferences", id)
           sent == Send(w, m)
           p == [id |-> id, save |-> save, start |-> start]
           v == [sent EXCEPT !.c.preferences = p]
<1>1. m.tag = "preferences" /\ m.id = id /\ Shaped(w) /\ p.id = id /\ p.start = start
  BY DEF Message, Even
<1> HIDE DEF m, id, p
<1>2. /\ sent.c = w.c /\ sent.d = w.d /\ Shaped(sent) /\ New(w, m.id)
      /\ sent.s.inbox = Append(w.s.inbox, m) /\ sent.s.outbox = w.s.outbox
      /\ sent.s.starts = w.s.starts /\ sent.s.conf = w.s.conf /\ sent.s.next = w.s.next
  BY <1>1, Mails DEF InTags, id
<1> HIDE DEF sent
<1>3. /\ Shaped(v) /\ v.d = w.d /\ v.s = sent.s /\ v.c.preferences = p /\ v.c.reset = w.c.reset
      /\ v.c.start = w.c.start /\ v.c.update = w.c.update /\ v.c.snapshot = w.c.snapshot
      /\ v.c.candidate = w.c.candidate /\ v.c.reload = w.c.reload /\ v.c.pending = w.c.pending
  <2>1. Shaped(v)
    BY <1>2, Stores DEF Keeps
  <2> QED
    BY <1>2, <2>1 DEF Shaped, NewClient
<1> HIDE DEF v
<1>4. Posting(v, w, m)
  BY <1>1, <1>2, <1>3 DEF Posting, InTags
<1>5. /\ Told(v, {}) /\ Once(v.s) /\ (Polls(w) => Polls(v))
      /\ Starting(v) <=> Starting(w)
      /\ Started(v) <=> Started(w)
  BY <1>1, <1>4, Posts DEF Even, Ready
<1>6. Confirmed(v) = Confirmed(w) /\ id # 0
  BY <1>1, <1>2, <1>3 DEF Confirmed, ReadOnly, New
<1>7. Turns(v)
  <2>1. CASE start = TRUE
    <3>1. ~Starting(w)
      BY <2>1 DEF Due, Started
    <3> QED
      BY <1>1, <1>3, <1>5, <1>6, <2>1, <3>1 DEF Due, Turns
  <2>2. CASE start = FALSE
    BY <1>1, <1>3, <1>5, <1>6, <2>2 DEF Even, Ready, Turns
  <2> QED
    BY <2>1, <2>2
<1>8. Preferred(w, save, start) = v
  BY DEF Preferred, v, sent, m, p, id
<1> QED
  BY <1>3, <1>5, <1>7, <1>8 DEF Even, Ready

\* _begin_client_preferences
LEMMA Configures ==
  ASSUME NEW w, Calm(w), Due(w)
  PROVE  LET v == BeginPreferences(w) IN Calm(v) /\ v.d = w.d /\ v.c.reset = w.c.reset
<1>1. \/ BeginPreferences(w) = Start(w)
      \/ w.c.snapshot.known /\ BeginPreferences(w) = Preferred(w, FALSE, TRUE)
  BY DEF BeginPreferences, Preferred
<1>2. ASSUME w.c.snapshot.known
      PROVE  \A save, start : start = TRUE => LET v == Preferred(w, save, start) IN
               Even(v) /\ (Polls(w) => Polls(v)) /\ v.d = w.d /\ v.c.reset = w.c.reset
  <2>1. Even(w) /\ w.c.pending = NoBundle
    BY DEF Calm, Even, Due
  <2> QED
    BY <1>2, <2>1, Inquires
<1>3. w.c.snapshot.known => LET v == Preferred(w, FALSE, TRUE) IN
                            Calm(v) /\ v.d = w.d /\ v.c.reset = w.c.reset
  BY <1>2 DEF Calm, Even
<1> QED
  BY <1>1, <1>3, Launches

\* The configuration a report speaks of.
Truthful(w, m) == m.conf = w.s.conf /\ (m.contents = 0 <=> m.conf # 0)

\* What the file holds when it was written.
Put(w, contents) == IF w.d.seen = contents THEN w.d.conf ELSE contents

\* The file is written by who knows what was read.
LEMMA Locks ==
  ASSUME NEW w, NEW expected, NEW contents, NEW bad, MayWrite(w, expected, contents, bad), w.s.conf = expected
  PROVE  w.d.conf = 9 /\ Put(w, contents) # 9 => w.s.conf = 9 \/ w.d.seen # 9
BY DEF MayWrite, Put

\* What is written, and known of it.
LEMMA Records ==
  ASSUME NEW w, Shaped(w), DOMAIN w.d = {"project", "sources", "conf", "cache", "written", "seen"}, NEW contents
  PROVE  LET v == Written(w, contents) IN
         /\ Shaped(v) /\ v.c = w.c /\ v.s = w.s /\ v.d.project = w.d.project /\ v.d.conf = Put(w, contents)
         /\ v.d.written = w.d.written \cup {contents} /\ DOMAIN v.d = DOMAIN w.d
         /\ IsFiniteSet(w.d.written) => IsFiniteSet(v.d.written)
<1> DEFINE v == Written(w, contents)
<1>1. Shaped(v)
  BY Writes DEF Keeps
<1>2. /\ v.c = w.c /\ v.s = w.s /\ v.d.project = w.d.project /\ v.d.conf = Put(w, contents)
      /\ v.d.written = w.d.written \cup {contents} /\ DOMAIN v.d = DOMAIN w.d
  BY DEF Written, Shaped, Put
<1> HIDE DEF v
<1>3. IsFiniteSet(w.d.written) => IsFiniteSet(v.d.written)
  BY <1>2, FS_AddElement
<1> QED
  BY <1>1, <1>2, <1>3 DEF v

\* What a publication leaves of the turns.
Announcing(v, w, m, confirm) ==
  /\ Calm(v) /\ Respects(v, w) /\ Paused(v, w)
  /\ v.c.start = w.c.start /\ v.c.preferences = w.c.preferences
  /\ v.c.candidate = w.c.candidate /\ v.c.pending = w.c.pending
  /\ v.c.update = w.c.update \/ (v.c.update.stage = "prepare" /\ v.c.update.automatic)
  /\ m.contents = 0 => v.c.update = w.c.update
  /\ confirm /\ v.c.snapshot.known /\ v.c.update = NoUpdate => Confirmed(v)

\* _publish_configuration
LEMMA Announces ==
  ASSUME NEW w, NEW m, NEW confirm, NEW bad, Calm(w), DOMAIN w.d = {"project", "sources", "conf", "cache", "written", "seen"},
         w.c.candidate = NoBundle, w.c.pending = NoBundle, w.c.bundle # NoBundle, Truthful(w, m),
         Starting(w) \/ w.c.preferences.start => Confirmed(w)
  PROVE  Announcing(Publish(w, m, confirm, bad), w, m, confirm)
<1> DEFINE told == [w EXCEPT !.c.snapshot = [known |-> TRUE, conf |-> m.conf, generated |-> m.contents]]
           generated == m.contents # 0 /\ w.c.bundle # NoBundle /\ ~ReadOnly(w)
           allowed == MayWrite(w, m.conf, m.contents, bad)
           written == Written(told, m.contents)
           saved == [written EXCEPT !.c.bundle = Rescanned(w, m.contents), !.c.due = FALSE,
                                    !.c.taken = @ \/ w.d.sources # w.c.bundle.sources]
           begun == BeginUpdate(saved, FALSE, TRUE)
           unsaved == Written(w, m.contents)
           lost == [w EXCEPT !.c.snapshot = NoSnapshot]
           torn == [unsaved EXCEPT !.c.torn = TRUE]
           spoilt == [torn EXCEPT !.c.snapshot = NoSnapshot]
           r == Publish(w, m, confirm, bad)
<1> DEFINE Slate(v) == /\ Shaped(v) /\ v.s = w.s /\ v.d.project = w.d.project /\ v.c.reset = w.c.reset
                       /\ v.c.start = w.c.start /\ v.c.preferences = w.c.preferences /\ v.c.update = w.c.update
                       /\ v.c.candidate = w.c.candidate /\ v.c.reload = w.c.reload /\ v.c.pending = w.c.pending
<1>1. \/ (m.contents = 0 \/ ReadOnly(w)) /\ r = Emit(told, "configuration")
      \/ /\ m.contents # 0 /\ ~ReadOnly(w) /\ allowed /\ ~(confirm /\ w.c.update = NoUpdate)
         /\ r = Emit(saved, "configuration")
      \/ /\ m.contents # 0 /\ ~ReadOnly(w) /\ allowed /\ confirm /\ w.c.update = NoUpdate
         /\ r = Emit(begun, "configuration")
      \/ m.contents # 0 /\ allowed /\ r = Emit(spoilt, "error")
      \/ r = Emit(lost, "error")
  BY DEF Publish
<1>2. Shaped(w)
  BY DEF Calm
<1>3. Slate(told) /\ told.d = w.d /\ told.c.snapshot.known = TRUE
  BY <1>2 DEF Shaped, NewClient
<1>4. Slate(lost) /\ lost.d = w.d /\ lost.c.snapshot = NoSnapshot
  BY <1>2 DEF Shaped, NewClient
<1>5. /\ Shaped(unsaved) /\ unsaved.c = w.c /\ unsaved.s = w.s /\ unsaved.d.project = w.d.project
      /\ unsaved.d.conf = Put(w, m.contents) /\ (IsFiniteSet(w.d.written) => IsFiniteSet(unsaved.d.written))
  BY <1>2, Records
<1> HIDE DEF told, lost, unsaved
<1>6. /\ Shaped(written) /\ written.c = told.c /\ written.s = w.s /\ written.d.project = w.d.project
      /\ written.d.conf = Put(w, m.contents) /\ (IsFiniteSet(w.d.written) => IsFiniteSet(written.d.written))
  <2>1. Put(told, m.contents) = Put(w, m.contents)
    BY <1>3 DEF Put
  <2> QED
    BY <1>3, <2>1, Records
<1> HIDE DEF written
<1>7. Slate(spoilt) /\ spoilt.d = unsaved.d /\ spoilt.c.snapshot = NoSnapshot
  <2>1. Slate(torn) /\ torn.d = unsaved.d
    BY <1>5 DEF Shaped, NewClient
  <2> HIDE DEF torn
  <2> QED
    BY <2>1 DEF Shaped, NewClient
<1>8. Slate(saved) /\ saved.d = written.d /\ saved.c.snapshot.known = TRUE
  BY ZenonT(40), <1>3, <1>6 DEF Shaped, NewClient
<1> HIDE DEF torn, spoilt, saved, r
<1>9. ASSUME NEW v, Slate(v)
      PROVE  /\ Flight(v, {}) = Flight(w, {}) /\ Starting(v) = Starting(w) /\ Started(v) = Started(w)
             /\ Confirmed(v) = Confirmed(w) /\ Paused(v, w) /\ Polls(v) /\ Once(v.s) /\ Told(v, {})
  <2>1. /\ v.s = w.s /\ Flight(v, {}) = Flight(w, {}) /\ Starting(v) = Starting(w) /\ Started(v) = Started(w)
        /\ ReadOnly(v) = ReadOnly(w)
    BY <1>9 DEF Flight, Starting, Started, ReadOnly
  <2>2. Told(v, {})
    BY <1>9, <2>1 DEF Calm, Ready, Told, Owes, First, Says
  <2> QED
    BY <1>9, <2>1, <2>2 DEF Confirmed, Paused, Polls, Calm
<1>10. ASSUME NEW v, Slate(v)
       PROVE  Calm(v)
  <2>1. Turns(v)
    BY <1>9, <1>10 DEF Calm, Ready, Turns
  <2> QED
    BY <1>9, <1>10, <2>1 DEF Calm, Ready
<1>11. m.contents # 0 /\ ~ReadOnly(w) => ~Confirmed(w)
  BY DEF Truthful, Confirmed
<1>12. ASSUME NEW v, Slate(v), Respects(v, w), NEW event,
              confirm /\ v.c.snapshot.known /\ w.c.update = NoUpdate => Confirmed(w)
       PROVE  Announcing(Emit(v, event), w, m, confirm)
  <2> DEFINE x == Emit(v, event)
  <2>1. Shaped(x) /\ Like(x, v) /\ x.d = v.d /\ x.c.reset = v.c.reset /\ x.c.pending = v.c.pending
    <3>1. x.c.pending = v.c.pending
      BY <1>12 DEF Emit, Shaped, NewClient
    <3> QED
      BY <1>12, <3>1, Murmurs
  <2> HIDE DEF x
  <2>2. Slate(x)
    BY <1>12, <2>1 DEF Like
  <2> HIDE DEF Slate
  <2>3. Calm(x) /\ Paused(x, w) /\ (Confirmed(w) => Confirmed(x)) /\ Respects(x, w)
    BY <1>9, <1>10, <1>12, <2>1, <2>2 DEF Respects
  <2>4. /\ x.c.start = w.c.start /\ x.c.preferences = w.c.preferences /\ x.c.update = w.c.update
        /\ x.c.candidate = w.c.candidate /\ x.c.pending = w.c.pending
    BY <2>2 DEF Slate
  <2>5. confirm /\ x.c.snapshot.known /\ x.c.update = NoUpdate => Confirmed(x)
    <3>1. x.c.snapshot = v.c.snapshot
      BY <2>1 DEF Like
    <3> QED
      BY <1>12, <2>3, <2>4, <3>1
  <2> QED
    BY <2>3, <2>4, <2>5 DEF Announcing, x
<1>13. allowed => Respects(saved, w) /\ Respects(spoilt, w)
  <2>1. allowed => (w.d.conf = 9 /\ Put(w, m.contents) # 9 => w.s.conf = 9 \/ w.d.seen # 9)
    BY Locks DEF Truthful
  <2> QED
    BY <1>5, <1>6, <1>7, <1>8, <2>1 DEF Respects
<1>14. Respects(told, w) /\ Respects(lost, w)
  BY <1>3, <1>4 DEF Respects
<1>15. ASSUME m.contents # 0, ~ReadOnly(w), allowed, confirm, w.c.update = NoUpdate
       PROVE  Announcing(Emit(begun, "configuration"), w, m, confirm)
  <2>1. Calm(saved) /\ saved.c.update = NoUpdate /\ saved.c.snapshot.known /\ ~Starting(saved)
        /\ ~saved.c.preferences.start /\ saved.c.candidate = NoBundle
    BY <1>8, <1>9, <1>10, <1>11, <1>15
  <2>2. \A restart, automatic : LET v == BeginUpdate(saved, restart, automatic) IN
          /\ Even(v) /\ (Polls(saved) => Polls(v)) /\ Paused(v, saved) /\ v.d = saved.d
          /\ v.c.start = saved.c.start /\ v.c.preferences = saved.c.preferences /\ v.c.snapshot = saved.c.snapshot
          /\ v.c.candidate = saved.c.candidate /\ v.c.reload = saved.c.reload /\ v.c.pending = saved.c.pending
          /\ v.c.update.stage = "prepare" /\ (automatic => v.c.update.automatic)
    BY <2>1, Proposes DEF Calm, Even
  <2>3. /\ Even(begun) /\ (Polls(saved) => Polls(begun)) /\ Paused(begun, saved) /\ begun.d = saved.d
        /\ begun.c.start = saved.c.start /\ begun.c.preferences = saved.c.preferences
        /\ begun.c.candidate = saved.c.candidate /\ begun.c.pending = saved.c.pending
        /\ begun.c.update.stage = "prepare" /\ begun.c.update.automatic
    BY ZenonT(40), <2>2
  <2> HIDE DEF begun
  <2> DEFINE x == Emit(begun, "configuration")
  <2>4. Shaped(x) /\ Like(x, begun) /\ x.d = begun.d /\ x.c.reset = begun.c.reset /\ x.c.pending = begun.c.pending
    <3>1. x.c.pending = begun.c.pending
      BY <2>3 DEF Emit, Shaped, NewClient, Even
    <3> QED
      BY <2>3, <3>1, Murmurs DEF Even
  <2> HIDE DEF x
  <2>5. Calm(x)
    BY <2>1, <2>3, <2>4, StaysCalm DEF Even, Calm
  <2>6. Respects(x, w)
    BY <1>13, <1>15, <2>3, <2>4 DEF Respects
  <2>7. Paused(x, w) /\ NoUpdate.stage # x.c.update.stage
    BY <1>8, <1>9, <2>3, <2>4 DEF Paused, Like, Starting, Started, NoUpdate
  <2> QED
    BY <1>8, <1>15, <2>3, <2>4, <2>5, <2>6, <2>7 DEF Announcing, Like, x
<1> HIDE DEF begun, Slate, allowed
<1>16. /\ m.contents = 0 \/ ReadOnly(w) => Announcing(Emit(told, "configuration"), w, m, confirm)
       /\ allowed /\ ~(confirm /\ w.c.update = NoUpdate) => Announcing(Emit(saved, "configuration"), w, m, confirm)
       /\ allowed => Announcing(Emit(spoilt, "error"), w, m, confirm)
       /\ Announcing(Emit(lost, "error"), w, m, confirm)
  <2>1. m.contents = 0 \/ ReadOnly(w) => Confirmed(w)
    BY DEF Truthful, Confirmed
  <2>2. NoSnapshot.known = FALSE
    BY DEF NoSnapshot
  <2> QED
    BY <1>3, <1>4, <1>7, <1>8, <1>12, <1>13, <1>14, <2>1, <2>2
<1> QED
  BY <1>1, <1>15, <1>16 DEF r
-----------------------------------------------------------------------------
(* The turns when a session is replaced *)

\* A client between two sessions, which starts nothing.
Away(v, w) == Gone(v, w) /\ Idle(v.c) /\ Once(v.s) /\ (Polls(w) => Polls(v))

\* What a replacement leaves of the turns.
Tidy(v, w) == Shaped(v) /\ Ordered(v, {}) /\ v.d = w.d /\ (Polls(w) => Polls(v))

\* A session in which nothing was started.
LEMMA Unstarted ==
  ASSUME NEW s \in {NewSession, Closed}
  PROVE  s.starts = 0 /\ s.inbox = <<>> /\ s.outbox = <<>> /\ Once(s) /\ In(s.inbox) = {} /\ In(s.outbox) = {}
<1>1. s.starts = 0 /\ s.inbox = <<>> /\ s.outbox = <<>>
  BY DEF NewSession, Closed
<1> QED
  BY <1>1 DEF Once, In

\* A replacement that was given up.
LEMMA Leaves ==
  ASSUME NEW v, NEW w, Away(v, w)
  PROVE  Tidy(v, w)
BY DEF Away, Tidy, Gone, Whole, Ordered

\* What looks the same starts as little.
LEMMA StaysAway ==
  ASSUME NEW u, NEW v, NEW w, Away(v, w), Alike(u, v), Like(u, v)
  PROVE  Away(u, w)
<1>1. Gone(u, w)
  BY StaysGone DEF Away
<1> QED
  BY <1>1 DEF Away, Like, Idle, Polls

\* _reset_wire_state
LEMMA Hushes ==
  ASSUME NEW w, Shaped(w)
  PROVE  Idle(ResetWire(w).c) /\ ResetWire(w).s = w.s
BY DEF Shaped, ResetWire, NewClient, Idle

\* begin_session_reset
LEMMA Quits ==
  ASSUME NEW w, NEW bad, Whole(w), w.c.reset = TRUE => Blank(w.c) /\ Idle(w.c), Once(w.s)
  PROVE  Away(BeginReset(w, bad), w)
<1> DEFINE reset == [w EXCEPT !.c.reset = TRUE, !.c.destroy = TRUE]
           begun == IF w.c.reset THEN w ELSE Emit(reset, "reset")
           x == ResetWire(begun)
           closed == [x EXCEPT !.c.destroy = FALSE, !.s = Closed]
           v == BeginReset(w, bad)
<1>1. Gone(v, w)
  BY Begun
<1>2. v = IF ~begun.c.destroy THEN begun ELSE IF bad = "destroy" /\ begun.s.open THEN Raise(x) ELSE closed
  BY DEF BeginReset
<1>3. Shaped(begun) /\ begun.s = w.s /\ (~begun.c.destroy => Idle(begun.c))
  <2>1. CASE w.c.reset = TRUE
    <3>1. begun = w
      BY <2>1
    <3> QED
      BY <2>1, <3>1 DEF Whole
  <2>2. CASE w.c.reset # TRUE
    <3>1. begun = Emit(reset, "reset")
      BY <2>2 DEF Whole
    <3>2. Shaped(reset) /\ reset.c.destroy = TRUE /\ reset.s = w.s
      BY DEF Whole, Shaped, NewClient
    <3> HIDE DEF reset
    <3>3. Shaped(begun) /\ begun.s = w.s /\ begun.c.destroy = TRUE
      BY <3>1, <3>2, Tells DEF Keeps, Emit, Shaped, NewClient
    <3> QED
      BY <3>3
  <2> QED
    BY <2>1, <2>2
<1> HIDE DEF begun, v
<1>4. Shaped(x) /\ Idle(x.c) /\ x.s = w.s
  BY <1>3, Hushes, Wire DEF Keeps
<1> HIDE DEF x
<1>5. Idle(Raise(x).c) /\ Raise(x).s = w.s
  BY <1>4, Murmurs DEF Like, Idle
<1>6. Idle(closed.c) /\ closed.s = Closed
  BY <1>4 DEF Shaped, NewClient, Idle
<1>7. Idle(v.c) /\ v.s \in {w.s, Closed}
  BY <1>2, <1>3, <1>5, <1>6
<1>8. Once(v.s) /\ (Polls(w) => Polls(v))
  <2>1. Once(Closed) /\ In(Closed.inbox) = {}
    BY Unstarted
  <2> QED
    BY <1>7, <2>1 DEF Polls
<1> QED
  BY <1>1, <1>7, <1>8 DEF Away, v

\* abort_session_replacement
LEMMA Yields ==
  ASSUME NEW w, NEW bad, Whole(w), Once(w.s)
  PROVE  Away(Abort(w, bad), w)
<1> DEFINE stuck == w.s.open /\ bad \in {"progress_and_abort", "decode_and_abort", "hello_and_abort"}
           s == IF stuck THEN w.s ELSE Closed
           x == [w EXCEPT !.c.reset = TRUE, !.c.destroy = stuck, !.s = s]
           y == ResetWire(x)
           v == Abort(w, bad)
<1>1. Gone(v, w) /\ v = Raise(y)
  BY Aborted DEF Abort
<1>2. Shaped(x) /\ x.s = s /\ s \in {w.s, Closed}
  <2>1. /\ DOMAIN x = {"c", "d", "s"} /\ DOMAIN x.c = DOMAIN NewClient /\ x.s = s /\ s \in {w.s, Closed}
    BY DEF Whole, Shaped, NewClient
  <2> HIDE DEF x, s
  <2> QED
    BY <2>1, Fresher DEF Whole, Shaped
<1> HIDE DEF x, s
<1>3. Shaped(y) /\ Idle(y.c) /\ y.s = s
  BY <1>2, Hushes, Wire DEF Keeps
<1> HIDE DEF y, v
<1>4. Idle(v.c) /\ v.s \in {w.s, Closed}
  BY <1>1, <1>2, <1>3, Murmurs DEF Like, Idle
<1>5. Once(v.s) /\ (Polls(w) => Polls(v))
  <2>1. Once(Closed) /\ In(Closed.inbox) = {}
    BY Unstarted
  <2> QED
    BY <1>4, <2>1 DEF Polls
<1> QED
  BY <1>1, <1>4, <1>5 DEF Away, v

\* prepare_replacement_session
LEMMA Vacates ==
  ASSUME NEW w, NEW bad, Whole(w), w.c.reset = TRUE => Blank(w.c) /\ Idle(w.c), Once(w.s)
  PROVE  Away(Prepare(w, bad), w) /\ (~Prepare(w, bad).c.failed => Prepare(w, bad).s = NewSession)
<1> DEFINE empty == BeginReset(w, bad)
           v == Prepare(w, bad)
           made == [empty EXCEPT !.s = NewSession]
<1>1. Away(empty, w) /\ (~v.c.failed => v.s = NewSession)
  BY Quits, Prepared
<1>2. v = empty \/ v = Abort(empty, bad) \/ v = Abort(made, bad) \/ v = made
  BY DEF Prepare
<1> HIDE DEF empty, v
<1>3. Away(made, w)
  <2>1. made.c = empty.c /\ made.d = empty.d /\ made.s = NewSession /\ DOMAIN made = {"c", "d", "s"}
    BY <1>1 DEF Away, Gone, Whole, Shaped
  <2> HIDE DEF made
  <2>2. Gone(made, w)
    BY <1>1, <2>1, Fresher DEF Away, Gone, Whole, Shaped
  <2> QED
    BY <1>1, <2>1, <2>2, Unstarted DEF Away, Polls
<1> HIDE DEF made
<1>4. ASSUME NEW x, Away(x, w)
      PROVE  Away(Abort(x, bad), w)
  <2>1. Away(Abort(x, bad), x)
    BY <1>4, Yields DEF Away, Gone
  <2> QED
    BY <1>4, <2>1 DEF Away, Gone
<1> QED
  BY <1>1, <1>2, <1>3, <1>4 DEF v

\* hello, the first message of a session.
LEMMA Opens ==
  ASSUME NEW w, NEW bundle, NEW cache, NEW bad, Whole(w), w.c.reset = TRUE, Blank(w.c), Idle(w.c), w.s = NewSession
  PROVE  Tidy(Greet(w, bundle, cache, bad), w)
<1> DEFINE ready == [w EXCEPT !.c.pending = bundle, !.c.cache = cache]
           id == NewMessage(ready)
           m == Message("hello", id)
           sent == Send(ready, m)
           v == [sent EXCEPT !.c.destroy = FALSE, !.c.reset = FALSE]
<1>1. Greet(w, bundle, cache, bad) = IF bad \in {"hello", "hello_and_abort"} THEN Abort(ready, bad) ELSE v
  BY DEF Greet
<1>2. /\ DOMAIN ready = {"c", "d", "s"} /\ DOMAIN ready.c = DOMAIN NewClient /\ ready.s = NewSession
      /\ ready.c.candidate = NoBundle /\ ready.c.update = NoUpdate /\ ready.c.reset = TRUE /\ ready.d = w.d
      /\ Idle(ready.c)
  BY DEF Whole, Shaped, NewClient, Blank, Idle
<1> HIDE DEF ready
<1>3. Whole(ready)
  BY <1>2, Fresher DEF Whole, Shaped
<1>4. Tidy(Abort(ready, bad), w)
  <2>1. Once(ready.s) /\ Polls(ready)
    BY <1>2, Unstarted DEF Polls
  <2>2. Tidy(Abort(ready, bad), ready)
    BY <1>3, <2>1, Yields, Leaves
  <2> QED
    BY <1>2, <2>1, <2>2 DEF Tidy
<1>5. m.tag = "hello" /\ m.id # 0
  <2>1. id \in Nat \ {0}
    BY <1>3, NewNumber DEF Whole, New
  <2> QED
    BY <2>1 DEF Message
<1> HIDE DEF m
<1>6. /\ sent.c = ready.c /\ sent.d = w.d /\ Shaped(sent) /\ sent.s.inbox = Append(<<>>, m)
      /\ sent.s.outbox = <<>> /\ sent.s.starts = 0
  <2>1. Shaped(sent)
    <3>1. Shaped(ready) /\ m.tag \in InTags
      BY <1>3, <1>5 DEF Whole, InTags
    <3> QED
      BY <3>1, Tells DEF Keeps
  <2> QED
    BY <1>2, <2>1 DEF Send, NewSession
<1> HIDE DEF sent
<1>7. /\ Shaped(v) /\ v.d = w.d /\ v.s = sent.s /\ v.c.reset = FALSE /\ Idle(v.c)
      /\ v.c.candidate = NoBundle /\ v.c.update = NoUpdate
  <2>1. DOMAIN v = {"c", "d", "s"} /\ DOMAIN v.c = DOMAIN NewClient /\ v.s = sent.s /\ v.d = w.d
    BY <1>6 DEF Shaped
  <2>2. Shaped(v)
    BY <1>6, <2>1 DEF Shaped
  <2> QED
    BY <1>2, <1>6, <2>1, <2>2 DEF NewClient, Idle
<1> HIDE DEF v
<1>8. /\ v.s.inbox = <<m>> /\ In(v.s.inbox) = {m} /\ v.s.outbox = <<>> /\ In(v.s.outbox) = {} /\ v.s.starts = 0
  BY <1>6, <1>7 DEF In
<1>9. ~Started(v) /\ ~Starting(v) /\ Once(v.s) /\ Polls(v)
  BY <1>5, <1>8 DEF Started, Starting, Once, Polls
<1>10. /\ v.c.start = FALSE /\ v.c.preferences.start = FALSE /\ v.c.preferences.id = 0 /\ v.c.snapshot.known = FALSE
       /\ v.c.update.automatic = FALSE
  BY <1>7 DEF Idle, NoPreferences, NoSnapshot, NoUpdate
<1>11. Turns(v)
  BY <1>7, <1>9, <1>10 DEF Turns
<1>12. Told(v, {})
  <2>1. Flight(v, {}) = {m}
    BY <1>8 DEF Flight
  <2>2. Says(v, m) /\ Owes(v, {})
    BY <1>5, <1>10, <2>1 DEF Says, Owes
  <2>3. First(v, {})
    BY <1>5, <1>7, <1>8 DEF First
  <2> QED
    BY <2>1, <2>2, <2>3 DEF Told
<1>13. Tidy(v, w)
  BY <1>7, <1>9, <1>11, <1>12 DEF Tidy, Ordered, Ready
<1> QED
  BY <1>1, <1>4, <1>13

\* recreate
LEMMA Replays ==
  ASSUME NEW w, NEW bundle, NEW cache, NEW bad, Whole(w), w.c.reset = TRUE => Blank(w.c) /\ Idle(w.c), Once(w.s)
  PROVE  Tidy(Recreate(w, bundle, cache, bad), w)
<1> DEFINE told == Emit(w, "cleared")
           prepared == Prepare(told, bad)
<1>1. Recreate(w, bundle, cache, bad) = IF prepared.c.failed THEN prepared ELSE Greet(prepared, bundle, cache, bad)
  BY DEF Recreate
<1>2. Alike(told, w) /\ Like(told, w)
  BY Cries, Murmurs DEF Whole
<1>3. Whole(told) /\ (told.c.reset = TRUE => Blank(told.c) /\ Idle(told.c)) /\ told.d = w.d /\ told.s = w.s
  BY <1>2 DEF Alike, Like, Steady, Whole, Blank, Idle, ReadOnly
<1> HIDE DEF told
<1>4. Away(prepared, told) /\ (~prepared.c.failed => prepared.s = NewSession)
  BY <1>3, Vacates
<1> HIDE DEF prepared
<1>5. Tidy(prepared, w)
  BY <1>3, <1>4, Leaves DEF Tidy, Polls
<1>6. ASSUME ~prepared.c.failed
      PROVE  Tidy(Greet(prepared, bundle, cache, bad), w)
  <2>1. Tidy(Greet(prepared, bundle, cache, bad), prepared)
    BY <1>4, <1>6, Opens DEF Away, Gone
  <2> QED
    BY <1>5, <2>1 DEF Tidy
<1> QED
  BY <1>1, <1>5, <1>6

\* _load_project, _load_project_file and restart_recompile
LEMMA Boots ==
  ASSUME NEW w, NEW bad, Whole(w), w.c.reset = TRUE => Blank(w.c) /\ Idle(w.c), Once(w.s)
  PROVE  /\ \A full : Tidy(LoadDirectory(w, full, bad), w)
         /\ Tidy(LoadFile(w, bad), w) /\ Tidy(Load(w, bad), w)
<1> DEFINE empty == BeginReset(w, bad)
           prepared == Prepare(empty, bad)
           told == Emit(prepared, "cleared")
           file == Scan(w, 1, TRUE)
<1>1. Away(empty, w)
  BY Quits
<1> HIDE DEF empty
<1>2. Away(Raise(empty), w)
  BY <1>1, Cries, Murmurs, StaysAway DEF Away, Gone, Whole
<1>3. ASSUME NEW full
      PROVE  Tidy(LoadDirectory(w, full, bad), w)
  <2>1. \/ LoadDirectory(w, full, bad) = empty \/ LoadDirectory(w, full, bad) = Raise(empty)
        \/ LoadDirectory(w, full, bad) = Recreate(empty, Scan(w, 1, full), ~full, bad)
    BY DEF LoadDirectory, empty
  <2>2. Tidy(Recreate(empty, Scan(w, 1, full), ~full, bad), empty)
    BY <1>1, Replays DEF Away, Gone
  <2>3. Tidy(Recreate(empty, Scan(w, 1, full), ~full, bad), w)
    BY <1>1, <2>2 DEF Away, Gone, Tidy
  <2> QED
    BY <1>1, <1>2, <2>1, <2>3, Leaves
<1>4. Away(prepared, empty) /\ (~prepared.c.failed => prepared.s = NewSession)
  BY <1>1, Vacates DEF Away, Gone
<1>5. \/ LoadFile(w, bad) \in {empty, Raise(empty), prepared, Abort(prepared, bad)}
      \/ ~prepared.c.failed /\ LoadFile(w, bad) = Greet(told, file, TRUE, bad)
  BY DEF LoadFile, empty
<1> HIDE DEF prepared
<1>6. Away(prepared, w)
  BY <1>1, <1>4 DEF Away, Gone
<1>7. Away(Abort(prepared, bad), w)
  <2>1. Away(Abort(prepared, bad), prepared)
    BY <1>6, Yields DEF Away, Gone
  <2> QED
    BY <1>6, <2>1 DEF Away, Gone
<1>8. ASSUME ~prepared.c.failed
      PROVE  Tidy(Greet(told, file, TRUE, bad), w)
  <2>1. Away(told, w) /\ told.s = prepared.s
    <3>1. Shaped(prepared)
      BY <1>6 DEF Away, Gone, Whole
    <3>2. Alike(told, prepared) /\ Like(told, prepared)
      BY <3>1, Cries, Murmurs
    <3> QED
      BY <1>6, <3>2, StaysAway DEF Like
  <2>2. told.s = NewSession
    BY <1>4, <1>8, <2>1
  <2> HIDE DEF told, file
  <2>3. \A c : Tidy(Greet(told, file, c, bad), told)
    BY <2>1, <2>2, Opens DEF Away, Gone
  <2> QED
    BY <2>1, <2>3 DEF Tidy, Away, Gone
<1>9. Tidy(LoadFile(w, bad), w)
  BY <1>1, <1>2, <1>5, <1>6, <1>7, <1>8, Leaves
<1> QED
  BY <1>3, <1>9 DEF Load
-----------------------------------------------------------------------------
(* The turns when the runtime answers *)

\* A message that was handled leaves the others in order.
LEMMA Frees ==
  ASSUME NEW v, NEW w, NEW h, Live(w, {h}), Ready(w, {h}), Once(w.s), Shaped(v), Letting(v, w, h), Turns(v)
  PROVE  Calm(v)
<1>1. Told(v, {}) /\ Polls(v) /\ v.s = w.s
  BY LetGo DEF Ready, Letting
<1> QED
  BY <1>1 DEF Calm, Ready

\* A calm world with a session, whose file was written by who knew it.
LEMMA Heeds ==
  ASSUME NEW v, NEW w, Calm(v), v.c.reset # TRUE, Respects(v, w)
  PROVE  Obeys(v, w)
BY DEF Calm, Obeys, Ordered

\* What is told of a calm world.
LEMMA Speaks ==
  ASSUME NEW v, NEW w, Calm(v), v.c.reset # TRUE, v.d = w.d
  PROVE  Obeys(v, w) /\ \A event : Obeys(Emit(v, event), w)
<1>1. ASSUME NEW event
      PROVE  Calm(Emit(v, event)) /\ Emit(v, event).c.reset # TRUE /\ Emit(v, event).d = w.d
  BY Settling, Murmurs DEF Calm
<1> QED
  BY <1>1, Complies

\* Who waits for the preferences waits for a message of his own.
LEMMA Aside ==
  ASSUME NEW w, NEW h, Live(w, {h}), Ready(w, {h}), h.tag \notin {"preferences", "applied", "rejected"}
  PROVE  h.id # w.c.preferences.id
BY DEF Ready, Told, Owes, Flight

\* A load or a reload that failed.
LEMMA Fails ==
  ASSUME NEW w, NEW h, Live(w, {h}), Ready(w, {h}), Once(w.s), h.tag = "load_failed"
  PROVE  Obeys(HandleLoadFailed(w), w)
<1> DEFINE v == [w EXCEPT !.c.candidate = NoBundle, !.c.reload = 0]
<1>1. HandleLoadFailed(w) = Emit(v, "runtime_error")
  BY DEF HandleLoadFailed
<1>2. /\ Shaped(v) /\ v.d = w.d /\ v.s = w.s /\ v.c.start = w.c.start /\ v.c.preferences = w.c.preferences
      /\ v.c.pending = w.c.pending /\ v.c.snapshot = w.c.snapshot
      /\ v.c.reset = w.c.reset /\ v.c.update = w.c.update /\ v.c.candidate = NoBundle /\ v.c.reload = 0
  BY ZenonT(40), Held DEF Shaped, NewClient
<1> HIDE DEF v
<1>3. Letting(v, w, h)
  BY <1>2, Aside DEF Letting
<1>4. Turns(v)
  <2>1. Starting(v) = Starting(w) /\ Started(v) = Started(w) /\ Confirmed(v) = Confirmed(w)
    BY <1>2 DEF Starting, Started, Confirmed, ReadOnly
  <2> QED
    BY <1>2, <2>1 DEF Turns, Ready
<1> QED
  BY <1>1, <1>2, <1>3, <1>4, Frees, Speaks DEF Live

\* _handle_client_preferences_applied
LEMMA Adopts ==
  ASSUME NEW w, NEW h, Live(w, {h}), Ready(w, {h}), Once(w.s), h.tag = "applied"
  PROVE  Obeys(HandleApplied(w, h), w)
<1> DEFINE v == [w EXCEPT !.c.preferences = NoPreferences,
                          !.c.snapshot = [known |-> TRUE, conf |-> h.conf, generated |-> h.contents]]
           applied == Emit(v, "configuration")
<1>1. \/ h.id # w.c.preferences.id /\ HandleApplied(w, h) = w
      \/ h.id = w.c.preferences.id /\ w.c.preferences.start /\ HandleApplied(w, h) = Start(applied)
      \/ h.id = w.c.preferences.id /\ HandleApplied(w, h) \in {Emit(applied, "preferences_applied"), applied}
  BY DEF HandleApplied
<1>2. Shaped(w) /\ h.id # 0 /\ h.id # w.c.reload /\ w.c.reset # TRUE
  BY Held DEF Fits, ReportTags, Live
<1>3. ASSUME h.id # w.c.preferences.id
      PROVE  Obeys(w, w)
  <2>1. Letting(w, w, h)
    BY <1>2, <1>3 DEF Letting
  <2> QED
    BY <1>2, <2>1, Frees, Speaks DEF Ready
<1>4. /\ Shaped(v) /\ v.d = w.d /\ v.s = w.s /\ v.c.start = w.c.start /\ v.c.preferences = NoPreferences
      /\ v.c.pending = w.c.pending /\ v.c.candidate = w.c.candidate /\ v.c.reload = w.c.reload
      /\ v.c.reset = w.c.reset /\ v.c.update = w.c.update
  BY <1>2 DEF Shaped, NewClient
<1> HIDE DEF v
<1>5. /\ Starting(v) = Starting(w) /\ Started(v) = Started(w) /\ Confirmed(v) = Confirmed(w)
      /\ NoPreferences.start = FALSE /\ NoPreferences.id = 0
  BY <1>4 DEF Starting, Started, Confirmed, ReadOnly, NoPreferences
<1>6. ASSUME h.id = w.c.preferences.id
      PROVE  /\ Calm(v)
             /\ w.c.preferences.start => Due(v)
  <2>1. w.c.preferences.id # 0 /\ w.c.pending = NoBundle
    BY <1>2, <1>6 DEF Ready, Turns
  <2>2. Turns(v)
    BY <1>4, <1>5, <2>1 DEF Ready, Turns
  <2>3. Letting(v, w, h)
    BY <1>2, <1>4 DEF Letting
  <2>4. w.c.preferences.start => Due(v)
    BY <1>4, <1>5, <2>1 DEF Ready, Turns, Due
  <2> QED
    BY <1>4, <2>2, <2>3, <2>4, Frees
<1>7. /\ Shaped(applied) /\ Like(applied, v) /\ applied.d = w.d /\ applied.c.reset # TRUE
      /\ applied.c.pending = v.c.pending
  <2>1. applied.c.pending = v.c.pending
    BY <1>4 DEF Emit, Shaped, NewClient
  <2>2. Shaped(applied) /\ Like(applied, v) /\ applied.d = v.d /\ applied.c.reset = v.c.reset
    BY <1>4, Murmurs
  <2> QED
    BY <1>2, <1>4, <2>1, <2>2
<1> HIDE DEF applied
<1>8. ASSUME h.id = w.c.preferences.id
      PROVE  Calm(applied) /\ (w.c.preferences.start => Due(applied))
  <2>1. Calm(applied)
    BY <1>6, <1>7, <1>8, StaysCalm
  <2>2. Due(v) => Due(applied)
    BY <1>7 DEF Due, Like, Started, Starting, Confirmed, ReadOnly
  <2> QED
    BY <1>6, <1>8, <2>1, <2>2
<1>9. ASSUME h.id = w.c.preferences.id, w.c.preferences.start
      PROVE  Obeys(Start(applied), w)
  BY ZenonT(40), <1>7, <1>8, <1>9, Launches, Complies
<1> QED
  BY <1>1, <1>3, <1>7, <1>8, <1>9, Speaks

\* _handle_command_rejection
LEMMA Withdraws ==
  ASSUME NEW w, NEW h, Live(w, {h}), Ready(w, {h}), Once(w.s), h.tag = "rejected"
  PROVE  Obeys(HandleRejected(w, h), w)
<1> DEFINE u == w.c.update
           dropped == [w EXCEPT !.c.update = NoUpdate, !.c.torn = @ \/ u.automatic \/ u.commit]
           blank == [dropped EXCEPT !.c.start = FALSE, !.c.snapshot = NoSnapshot]
           unchanged == [w EXCEPT !.c.preferences = NoPreferences]
           resolved == [w EXCEPT !.c.compatibility = 0]
           kept == [w EXCEPT !.c.candidate = NoBundle, !.c.reload = 0]
<1>1. \/ h.id = w.c.compatibility /\ HandleRejected(w, h) = Emit(resolved, "runtime_error")
      \/ h.id = w.c.reload /\ HandleRejected(w, h) = kept
      \/ h.id = u.id /\ HandleRejected(w, h) \in {Emit(Emit(blank, "error"), "save_failed"),
                                                  Emit(dropped, "save_failed")}
      \/ h.id = w.c.preferences.id /\ w.c.preferences.start /\ HandleRejected(w, h) = Start(unchanged)
      \/ /\ h.id = w.c.preferences.id
         /\ HandleRejected(w, h) \in {Emit(unchanged, "preferences_failed"), unchanged}
      \/ /\ h.id # w.c.compatibility /\ h.id # w.c.reload /\ h.id # u.id /\ h.id # w.c.preferences.id
         /\ HandleRejected(w, h) = Emit(w, "runtime_error")
  BY SMTT(40) DEF HandleRejected
<1>2. Shaped(w) /\ h.id # 0 /\ w.c.reset # TRUE
  BY Held DEF Live
<1> DEFINE Same(v) == /\ Shaped(v) /\ v.d = w.d /\ v.s = w.s /\ v.c.pending = w.c.pending
                      /\ v.c.reset = w.c.reset
<1>3. ASSUME NEW v, Same(v), Letting(v, w, h), Turns(v)
      PROVE  Calm(v) /\ Obeys(v, w) /\ \A event : Obeys(Emit(v, event), w)
  BY <1>2, <1>3, Frees, Speaks
<1>4. ASSUME NEW v, Same(v)
      PROVE  /\ Starting(v) = Starting(w) /\ Started(v) = Started(w) /\ Confirmed(v) = Confirmed(w)
  BY <1>4 DEF Starting, Started, Confirmed, ReadOnly
<1>5. /\ NoUpdate.automatic = FALSE /\ NoUpdate.stage # "finalize" /\ NoSnapshot.known = FALSE
      /\ NoPreferences.start = FALSE /\ NoPreferences.id = 0
  BY DEF NoUpdate, NoSnapshot, NoPreferences
<1>6. ASSUME h.id = w.c.compatibility
      PROVE  Obeys(Emit(resolved, "runtime_error"), w)
  <2>1. Same(resolved) /\ Like(resolved, w)
    BY <1>2 DEF Shaped, NewClient, Like
  <2> HIDE DEF resolved
  <2>2. Turns(resolved)
    BY <2>1, <1>4 DEF Like, Turns, Ready
  <2>3. Letting(resolved, w, h)
    BY <1>6, <2>1, Held DEF Letting, Like
  <2> QED
    BY <1>3, <2>1, <2>2, <2>3
<1>7. ASSUME h.id = w.c.reload
      PROVE  Obeys(kept, w)
  <2>1. /\ Same(kept) /\ kept.c.update = u /\ kept.c.candidate = NoBundle /\ kept.c.start = w.c.start
        /\ kept.c.preferences = w.c.preferences /\ kept.c.snapshot = w.c.snapshot
    BY <1>2 DEF Shaped, NewClient
  <2> HIDE DEF kept
  <2>2. Turns(kept)
    BY <2>1, <1>4 DEF Turns, Ready
  <2>3. Letting(kept, w, h)
    BY <1>7, <2>1, Held DEF Letting
  <2> QED
    BY <1>3, <2>1, <2>2, <2>3
<1>8. /\ Same(dropped) /\ dropped.c.update = NoUpdate /\ dropped.c.candidate = w.c.candidate
      /\ dropped.c.reload = w.c.reload /\ dropped.c.start = w.c.start
      /\ dropped.c.preferences = w.c.preferences /\ dropped.c.snapshot = w.c.snapshot
  BY <1>2 DEF Shaped, NewClient
<1> HIDE DEF dropped
<1>9. /\ Same(blank) /\ blank.c.update = NoUpdate /\ blank.c.candidate = w.c.candidate
      /\ blank.c.reload = w.c.reload /\ blank.c.start = FALSE
      /\ blank.c.preferences = w.c.preferences /\ blank.c.snapshot = NoSnapshot
  BY <1>8 DEF Shaped, NewClient
<1> HIDE DEF blank
<1>10. ASSUME h.id = u.id
       PROVE  /\ Obeys(Emit(Emit(blank, "error"), "save_failed"), w)
              /\ Obeys(Emit(dropped, "save_failed"), w)
  <2>1. Turns(dropped)
    BY <1>4, <1>5, <1>8 DEF Turns, Ready
  <2>2. Turns(blank)
    BY <1>4, <1>5, <1>9 DEF Turns, Ready
  <2>3. Letting(dropped, w, h) /\ Letting(blank, w, h)
    BY <1>8, <1>9, <1>10, Held DEF Letting
  <2>4. Calm(Emit(blank, "error")) /\ Emit(blank, "error").d = w.d /\ Emit(blank, "error").c.reset # TRUE
    <3>1. Calm(blank) /\ blank.d = w.d /\ blank.c.reset # TRUE /\ Shaped(blank)
      BY <1>2, <1>3, <1>9, <2>2, <2>3
    <3> HIDE DEF Same
    <3> QED
      BY <3>1, Settling, Murmurs
  <2> QED
    BY <1>3, <1>8, <2>1, <2>3, <2>4, Speaks
<1>11. /\ Same(unchanged) /\ unchanged.c.update = u /\ unchanged.c.candidate = w.c.candidate
       /\ unchanged.c.reload = w.c.reload /\ unchanged.c.start = w.c.start
       /\ unchanged.c.preferences = NoPreferences /\ unchanged.c.snapshot = w.c.snapshot
  BY <1>2 DEF Shaped, NewClient
<1> HIDE DEF unchanged
<1>12. ASSUME h.id = w.c.preferences.id
       PROVE  /\ Obeys(Emit(unchanged, "preferences_failed"), w) /\ Obeys(unchanged, w)
              /\ w.c.preferences.start => Obeys(Start(unchanged), w)
  <2>1. w.c.preferences.id # 0 /\ w.c.pending = NoBundle
    BY <1>2, <1>12 DEF Ready, Turns
  <2>2. Turns(unchanged)
    BY <1>4, <1>5, <1>11, <2>1 DEF Ready, Turns
  <2>3. Letting(unchanged, w, h)
    BY <1>11, <1>12, Held DEF Letting
  <2>4. w.c.preferences.start => Due(unchanged)
    BY <1>4, <1>5, <1>11, <2>1 DEF Ready, Turns, Due
  <2>5. w.c.preferences.start => Obeys(Start(unchanged), w)
    <3>1. Calm(unchanged) /\ unchanged.d = w.d /\ unchanged.c.reset # TRUE
      BY <1>2, <1>3, <1>11, <2>2, <2>3
    <3> HIDE DEF Same
    <3> QED
      BY <2>4, <3>1, Launches, Complies
  <2> QED
    BY <1>3, <1>11, <2>2, <2>3, <2>5
<1>13. ASSUME h.id # w.c.reload, h.id # w.c.preferences.id
       PROVE  Obeys(Emit(w, "runtime_error"), w)
  <2>1. Letting(w, w, h)
    BY <1>13 DEF Letting
  <2> QED
    BY <1>2, <1>3, <2>1 DEF Ready
<1> QED
  BY <1>1, <1>6, <1>7, <1>10, <1>12, <1>13

\* _handle_configuration_prepared: who writes the file knows what it holds.
LEMMA Finalizes ==
  ASSUME NEW w, NEW h, NEW bad, Live(w, {h}), Ready(w, {h}), Once(w.s), h.tag = "prepared"
  PROVE  Obeys(HandlePrepared(w, h, bad), w)
<1> DEFINE u == w.c.update
           id == NewMessage(w)
           allowed == w.c.bundle # NoBundle /\ h.conf = u.digest
                        /\ (ReadOnly(w) \/ MayWrite(w, u.digest, h.contents, bad))
           wrote == allowed /\ (ReadOnly(w) \/ bad # "rescan")
           candidate == IF ReadOnly(w) THEN NoBundle ELSE Rescanned(w, h.contents)
           after == IF allowed /\ ~ReadOnly(w) THEN Written(w, h.contents) ELSE w
           finalize == [u EXCEPT !.stage = "finalize", !.id = id, !.commit = wrote,
                                 !.candidate = IF wrote THEN candidate ELSE NoBundle]
           m == [Message("finalize", id) EXCEPT !.contents = IF wrote THEN 1 ELSE 0]
           sent == Send(after, m)
           torn == sent.c.torn \/ (~wrote /\ (allowed \/ u.automatic))
           asked == [sent EXCEPT !.c.update = finalize, !.c.torn = torn]
           x == [w EXCEPT !.c.update = NoUpdate]
           y == [after EXCEPT !.c.update = NoUpdate]
<1>1. u.stage = "prepare" /\ h.id = u.id /\ u # NoUpdate
  BY Held DEF Fits, UpdateTags
<1>2. HandlePrepared(w, h, bad) \in {asked, Emit(asked, "save_failed")}
  BY <1>1 DEF HandlePrepared
<1>3. w.c.candidate = NoBundle /\ h.conf = w.s.conf /\ w.s.next # 0 /\ w.c.reset # TRUE
  BY DEF Live, Ready, Told, First, Says, Flight
<1>4. /\ after.c = w.c /\ after.s = w.s /\ Shaped(after) /\ after.d.project = w.d.project
      /\ w.d.conf = 9 /\ after.d.conf # 9 => w.s.conf = 9 \/ w.d.seen # 9
      /\ IsFiniteSet(w.d.written) => IsFiniteSet(after.d.written)
  <2>1. Whole(w) /\ Shaped(w) /\ DOMAIN w.d = {"project", "sources", "conf", "cache", "written", "seen"}
    BY Held DEF Whole
  <2>2. CASE allowed /\ ~ReadOnly(w)
    <3>1. after = Written(w, h.contents)
      BY <2>2
    <3>2. w.d.conf = 9 /\ Put(w, h.contents) # 9 => w.s.conf = 9 \/ w.d.seen # 9
      BY <1>3, <2>2, Locks
    <3> HIDE DEF after
    <3> QED
      BY <2>1, <3>1, <3>2, Records
  <2>3. CASE ~(allowed /\ ~ReadOnly(w))
    <3>1. after = w
      BY <2>3
    <3> QED
      BY <2>1, <3>1
  <2> QED
    BY <2>2, <2>3
<1>5. m.tag = "finalize" /\ m.id = id /\ (wrote => m.contents = 1)
  BY DEF Message
<1>6. finalize.stage = "finalize" /\ finalize.commit = wrote /\ finalize.automatic = u.automatic
  <2>1. DOMAIN u = DOMAIN NoUpdate
    BY Held DEF Books
  <2> HIDE DEF id, wrote, candidate, u
  <2> QED
    BY <2>1 DEF NoUpdate
<1> HIDE DEF after, finalize, m, candidate, wrote, allowed, torn
<1>7. /\ x.d = w.d /\ x.s = w.s /\ x.c.update = NoUpdate /\ x.c.reset = w.c.reset
      /\ x.c.candidate = w.c.candidate /\ x.c.reload = w.c.reload
      /\ x.c.preferences = w.c.preferences /\ Shaped(x)
  <2>1. Shaped(w) /\ Shaped(x)
    BY Held, Stores DEF Keeps
  <2> QED
    BY <2>1 DEF Shaped, NewClient
<1>8. y.d = after.d /\ y.c = x.c /\ y.s = x.s /\ Shaped(y)
  <2>1. Shaped(w) /\ Shaped(y)
    BY <1>4, Held, Stores DEF Keeps
  <2> QED
    BY <1>4, <2>1 DEF Shaped, NewClient
<1> HIDE DEF x, y
<1>9. Told(x, {}) /\ Polls(x)
  <2>1. Letting(x, w, h)
    BY <1>1, <1>3, <1>7, Aside DEF Letting
  <2> QED
    BY <2>1, LetGo DEF Ready
<1>10. Told(y, {}) /\ Polls(y) /\ Once(y.s)
  <2>1. Flight(y, {}) = Flight(x, {})
    BY <1>8 DEF Flight
  <2>2. Told(y, {})
    BY <1>8, <1>9, <2>1 DEF Told, Owes, First, Says
  <2> QED
    BY <1>7, <1>8, <1>9, <2>2 DEF Polls
<1>11. New(y, id)
  <2>1. New(w, id)
    BY Held, NewNumber
  <2>2. NoUpdate.id = 0 /\ y.c.compatibility = w.c.compatibility
    <3>1. x.c.compatibility = w.c.compatibility
      BY Held DEF Shaped, NewClient, x
    <3> QED
      BY <1>8, <3>1 DEF NoUpdate
  <2> QED
    BY <1>7, <1>8, <2>1, <2>2 DEF New
<1>12. /\ Shaped(asked) /\ asked.d = after.d /\ asked.c.update = finalize /\ asked.c.start = w.c.start
       /\ asked.c.preferences = w.c.preferences /\ asked.c.candidate = w.c.candidate
       /\ asked.c.reload = w.c.reload /\ asked.c.pending = w.c.pending /\ asked.c.snapshot = w.c.snapshot
       /\ asked.c.reset = w.c.reset
       /\ asked.s.inbox = Append(w.s.inbox, m) /\ asked.s.outbox = w.s.outbox
       /\ asked.s.starts = w.s.starts /\ asked.s.conf = w.s.conf /\ asked.s.next = w.s.next
  <2>1. /\ Shaped(sent) /\ sent.d = after.d /\ sent.c = w.c /\ sent.s.inbox = Append(w.s.inbox, m)
        /\ sent.s.outbox = w.s.outbox /\ sent.s.starts = w.s.starts /\ sent.s.conf = w.s.conf
        /\ sent.s.next = w.s.next
    <3>1. Shaped(sent)
      BY <1>4, <1>5, Tells DEF Keeps, InTags
    <3> QED
      BY <1>4, <3>1 DEF Send, Shaped, NewSession
  <2> HIDE DEF sent
  <2> QED
    BY <2>1 DEF Shaped, NewClient
<1> HIDE DEF asked, id
<1>13. Posting(asked, y, m)
  BY <1>3, <1>5, <1>6, <1>7, <1>8, <1>11, <1>12 DEF Posting, InTags
<1>14. /\ Told(asked, {}) /\ Once(asked.s) /\ Polls(asked)
       /\ Starting(asked) <=> Starting(w)
       /\ Started(asked) <=> Started(w)
  <2>1. Starting(y) = Starting(w) /\ Started(y) = Started(w)
    BY <1>7, <1>8 DEF Starting, Started
  <2> QED
    BY <1>5, <1>8, <1>10, <1>13, <2>1, Posts
<1>15. Turns(asked)
  <2>1. Confirmed(asked) = Confirmed(w)
    BY <1>4, <1>12 DEF Confirmed, ReadOnly
  <2> QED
    BY <1>1, <1>3, <1>6, <1>12, <1>14, <2>1 DEF Ready, Turns
<1>16. Calm(asked) /\ Respects(asked, w) /\ asked.c.reset # TRUE
  BY <1>3, <1>4, <1>12, <1>14, <1>15 DEF Calm, Ready, Respects
<1>17. Calm(Emit(asked, "save_failed")) /\ Emit(asked, "save_failed").d = asked.d
       /\ Emit(asked, "save_failed").c.reset = asked.c.reset
  BY <1>12, <1>16, Settling, Murmurs
<1>18. Respects(Emit(asked, "save_failed"), w)
  BY <1>16, <1>17 DEF Respects
<1> QED
  BY <1>2, <1>16, <1>17, <1>18, Heeds

\* _handle_project_report: of the project that was submitted, or of a reload.
LEMMA Welcomes ==
  ASSUME NEW w, NEW h, NEW bad, Live(w, {h}), Ready(w, {h}), Once(w.s), h.tag = "loaded"
  PROVE  Obeys(HandleLoaded(w, h, bad), w)
<1> DEFINE loaded == [w EXCEPT !.c.bundle = w.c.pending, !.c.pending = NoBundle,
                               !.c.due = ~w.c.pending.full, !.c.taken = FALSE]
           published == Publish(loaded, h, TRUE, bad)
           waiting == [published EXCEPT !.c.start = TRUE]
           reloaded == [w EXCEPT !.c.bundle = w.c.candidate, !.c.candidate = NoBundle, !.c.reload = 0,
                                 !.c.due = FALSE, !.c.taken = FALSE]
<1>1. /\ Shaped(w) /\ Books(w, {h}) /\ Truthful(w, h) /\ w.c.reset # TRUE
      /\ DOMAIN w.d = {"project", "sources", "conf", "cache", "written", "seen"}
  BY Held DEF Live, Whole, Ready, Told, Says, Truthful, Flight
<1>2. h.id # w.c.preferences.id
  BY Aside
<1>3. CASE w.c.pending # NoBundle
  <2>1. /\ w.c.bundle = NoBundle /\ w.c.candidate = NoBundle /\ w.c.update = NoUpdate
    BY <1>1, <1>3 DEF Books
  <2>2. \/ published.c.update.stage = "prepare" /\ published.c.update.automatic /\ HandleLoaded(w, h, bad) = waiting
        \/ /\ ~(published.c.update.stage = "prepare" /\ published.c.update.automatic)
           /\ HandleLoaded(w, h, bad) = BeginPreferences(published)
    BY <1>3, <2>1 DEF HandleLoaded
  <2>3. Calm(w) /\ ~w.c.start /\ ~w.c.preferences.start /\ ~Started(w)
    <3>1. Letting(w, w, h)
      BY <1>2, <2>1 DEF Letting
    <3> QED
      BY <1>1, <1>3, <3>1, Frees DEF Ready, Turns
  <2>4. /\ loaded.d = w.d /\ loaded.s = w.s /\ loaded.c.bundle = w.c.pending /\ loaded.c.pending = NoBundle
        /\ loaded.c.reset = w.c.reset /\ loaded.c.update = NoUpdate /\ loaded.c.candidate = NoBundle
        /\ loaded.c.start = w.c.start /\ loaded.c.preferences = w.c.preferences
        /\ Shaped(loaded) /\ Like(loaded, w)
    BY <1>1, <2>1 DEF Shaped, NewClient, Like
  <2> HIDE DEF loaded
  <2>5. /\ Calm(loaded) /\ ~Started(loaded) /\ ~Starting(loaded) /\ Truthful(loaded, h)
    BY <1>1, <2>3, <2>4, StaysCalm DEF Started, Starting, Truthful
  <2>6. Announcing(published, loaded, h, TRUE)
    <3>1. \A confirm : Announcing(Publish(loaded, h, confirm, bad), loaded, h, confirm)
      BY <1>1, <1>3, <2>3, <2>4, <2>5, Announces
    <3> QED
      BY <3>1
  <2> HIDE DEF published
  <2>7. /\ Calm(published) /\ Shaped(published) /\ Respects(published, w) /\ published.c.reset # TRUE
        /\ ~Started(published) /\ ~published.c.start /\ ~published.c.preferences.start
        /\ published.c.candidate = NoBundle /\ published.c.pending = NoBundle
        /\ published.c.update = NoUpdate \/ (published.c.update.stage = "prepare" /\ published.c.update.automatic)
        /\ published.c.snapshot.known /\ published.c.update = NoUpdate => Confirmed(published)
        /\ published.c.preferences.id = 0
    <3>1. w.c.preferences.id = 0
      BY <1>3 DEF Ready, Turns
    <3> QED
      BY <1>1, <2>3, <2>4, <2>5, <2>6, <3>1 DEF Announcing, Paused, Respects, Calm
  <2>8. ASSUME published.c.update.stage = "prepare"
        PROVE  Obeys(waiting, w)
    <3>1. /\ Shaped(waiting) /\ waiting.d = published.d /\ waiting.s = published.s /\ waiting.c.start = TRUE
          /\ waiting.c.preferences = published.c.preferences /\ waiting.c.update = published.c.update
          /\ waiting.c.candidate = published.c.candidate /\ waiting.c.pending = published.c.pending
          /\ waiting.c.reload = published.c.reload
          /\ waiting.c.snapshot = published.c.snapshot /\ waiting.c.reset = published.c.reset
      BY <2>7 DEF Shaped, NewClient
    <3> HIDE DEF waiting
    <3>2. /\ Flight(waiting, {}) = Flight(published, {}) /\ Starting(waiting) = Starting(published)
          /\ Started(waiting) = Started(published) /\ Confirmed(waiting) = Confirmed(published)
      BY <3>1 DEF Flight, Starting, Started, Confirmed, ReadOnly
    <3>3. Turns(waiting)
      BY <2>7, <3>1, <3>2 DEF Calm, Ready, Turns
    <3>4. Told(waiting, {})
      BY <2>7, <3>1, <3>2 DEF Calm, Ready, Told, Owes, First, Says
    <3>5. Calm(waiting)
      BY <2>7, <3>1, <3>3, <3>4 DEF Calm, Ready, Polls
    <3> QED
      BY <2>7, <3>1, <3>5, Heeds DEF Respects
  <2>9. ASSUME ~(published.c.update.stage = "prepare" /\ published.c.update.automatic)
        PROVE  Obeys(BeginPreferences(published), w)
    <3>1. published.c.update = NoUpdate /\ NoUpdate.automatic = FALSE
      BY <2>7, <2>9 DEF NoUpdate
    <3>2. Due(published)
      BY <2>7, <3>1 DEF Due
    <3>3. Calm(BeginPreferences(published)) /\ BeginPreferences(published).d = published.d
          /\ BeginPreferences(published).c.reset = published.c.reset
      BY <2>7, <3>2, Configures
    <3> QED
      BY <2>7, <3>3, Heeds DEF Respects
  <2> QED
    BY <2>2, <2>8, <2>9
<1>4. CASE w.c.pending = NoBundle
  <2>1. w.c.candidate # NoBundle /\ h.bundle = w.c.candidate /\ h.id = w.c.reload
    BY <1>4, Held DEF Fits, Loading, LoadTags, ReportTags
  <2>2. HandleLoaded(w, h, bad) = Publish(reloaded, h, TRUE, bad)
    BY <2>1 DEF HandleLoaded
  <2>3. /\ reloaded.d = w.d /\ reloaded.s = w.s /\ reloaded.c.bundle = w.c.candidate
        /\ reloaded.c.pending = NoBundle
        /\ reloaded.c.reset = w.c.reset /\ reloaded.c.update = w.c.update
        /\ reloaded.c.candidate = NoBundle /\ reloaded.c.start = w.c.start
        /\ reloaded.c.preferences = w.c.preferences /\ reloaded.c.snapshot = w.c.snapshot
        /\ Shaped(reloaded)
    BY ZenonT(40), <1>1, <1>4 DEF Shaped, NewClient
  <2> HIDE DEF reloaded
  <2>4. Starting(reloaded) = Starting(w) /\ Started(reloaded) = Started(w) /\ Confirmed(reloaded) = Confirmed(w)
    BY <2>3 DEF Starting, Started, Confirmed, ReadOnly
  <2>5. Turns(reloaded) /\ ~Starting(reloaded) /\ ~reloaded.c.preferences.start
    BY <2>1, <2>3, <2>4 DEF Ready, Turns
  <2>6. Letting(reloaded, w, h)
    BY <1>2, <2>3 DEF Letting
  <2>7. Calm(reloaded) /\ Truthful(reloaded, h)
    BY <1>1, <2>3, <2>5, <2>6, Frees DEF Truthful
  <2>8. \A confirm : Announcing(Publish(reloaded, h, confirm, bad), reloaded, h, confirm)
    BY <1>1, <2>1, <2>3, <2>5, <2>7, Announces
  <2>9. ASSUME NEW v, NEW confirm, Announcing(v, reloaded, h, confirm)
        PROVE  Obeys(v, w)
    <3>1. Calm(v) /\ v.c.reset # TRUE /\ Respects(v, reloaded)
      BY <1>1, <2>3, <2>9 DEF Announcing, Paused
    <3>2. Respects(v, w)
      BY <2>3, <3>1 DEF Respects
    <3> QED
      BY <3>1, <3>2, Heeds
  <2>10. \A confirm : Obeys(Publish(reloaded, h, confirm, bad), w)
    BY <2>8, <2>9
  <2> QED
    BY <2>2, <2>10
<1> QED
  BY <1>3, <1>4

\* _handle_configuration_committed: what was saved is told, or played again.
LEMMA Concludes ==
  ASSUME NEW w, NEW h, NEW bad, Live(w, {h}), Ready(w, {h}), Once(w.s), h.tag = "committed"
  PROVE  Obeys(HandleCommitted(w, h, bad), w)
<1> DEFINE u == w.c.update
           dropped == [w EXCEPT !.c.update = NoUpdate]
           published == Publish(dropped, h, ~(u.automatic /\ ~u.commit), bad)
           stored == [published EXCEPT !.c.bundle = u.candidate, !.c.due = FALSE,
                                       !.c.taken = @ \/ u.candidate.sources # published.c.bundle.sources]
           saved == Emit(stored, IF u.restart THEN "saved_restarting" ELSE "saved")
           restarted == Recreate(saved, u.candidate, TRUE, bad)
           calm == [restarted EXCEPT !.c.failed = FALSE]
           blank == [published EXCEPT !.c.start = FALSE, !.c.snapshot = NoSnapshot]
           ready == [published EXCEPT !.c.start = FALSE]
<1>1. /\ u.stage = "finalize" /\ h.id = u.id /\ u # NoUpdate /\ w.c.bundle # NoBundle
      /\ w.c.pending = NoBundle /\ w.c.candidate = NoBundle /\ Shaped(w) /\ w.c.reset # TRUE
      /\ Starting(w) \/ w.c.preferences.start => Confirmed(w)
      /\ DOMAIN w.d = {"project", "sources", "conf", "cache", "written", "seen"}
  <2>1. u.stage = "finalize" /\ h.id = u.id /\ u # NoUpdate
    BY Held DEF Fits, UpdateTags
  <2> QED
    BY <2>1, Held DEF Books, Whole, Ready, Turns, Live
<1>2. Truthful(w, h) /\ (u.commit => w.s.conf # 0 /\ h.contents = 0)
  BY DEF Ready, Told, Says, Truthful, Flight
<1>3. \/ HandleCommitted(w, h, bad) \in
           {Emit(published, "save_failed"), Emit(blank, "error"), published, Emit(published, "session_applied")}
      \/ /\ u.commit /\ u.automatic /\ w.c.start
         /\ HandleCommitted(w, h, bad) = BeginPreferences(ready)
      \/ HandleCommitted(w, h, bad) \in {saved, Emit(calm, "error")}
      \/ HandleCommitted(w, h, bad) = restarted
  BY <1>1 DEF HandleCommitted
<1>4. /\ Shaped(dropped) /\ dropped.d = w.d /\ dropped.s = w.s /\ dropped.c.update = NoUpdate
      /\ dropped.c.reset = w.c.reset /\ dropped.c.bundle = w.c.bundle /\ dropped.c.pending = NoBundle
      /\ dropped.c.candidate = NoBundle /\ dropped.c.start = w.c.start
      /\ dropped.c.preferences = w.c.preferences /\ dropped.c.snapshot = w.c.snapshot
  <2>1. Shaped(dropped)
    BY <1>1, Stores DEF Keeps
  <2> QED
    BY <1>1, <2>1 DEF Shaped, NewClient
<1> HIDE DEF dropped
<1>5. Calm(dropped) /\ Truthful(dropped, h) /\ (Starting(dropped) \/ dropped.c.preferences.start => Confirmed(dropped))
      /\ Started(dropped) = Started(w)
  <2>1. Starting(dropped) = Starting(w) /\ Started(dropped) = Started(w) /\ Confirmed(dropped) = Confirmed(w)
    BY <1>4 DEF Starting, Started, Confirmed, ReadOnly
  <2>2. Letting(dropped, w, h)
    BY <1>1, <1>4, Aside DEF Letting
  <2>3. Turns(dropped)
    <3>1. NoUpdate.automatic = FALSE
      BY DEF NoUpdate
    <3> QED
      BY <1>1, <1>4, <2>1, <3>1 DEF Ready, Turns
  <2> QED
    BY <1>1, <1>2, <1>4, <2>1, <2>2, <2>3, Frees DEF Truthful
<1>6. /\ Calm(published) /\ Respects(published, dropped) /\ Paused(published, dropped)
      /\ published.c.start = w.c.start /\ published.c.preferences = w.c.preferences
      /\ published.c.candidate = NoBundle /\ published.c.pending = NoBundle
      /\ h.contents = 0 => published.c.update = NoUpdate
  <2>1. \A confirm : Announcing(Publish(dropped, h, confirm, bad), dropped, h, confirm)
    BY <1>1, <1>4, <1>5, Announces
  <2>2. ASSUME NEW confirm, NEW v, Announcing(v, dropped, h, confirm)
        PROVE  /\ Calm(v) /\ Respects(v, dropped) /\ Paused(v, dropped)
               /\ v.c.start = w.c.start /\ v.c.preferences = w.c.preferences
               /\ v.c.candidate = NoBundle /\ v.c.pending = NoBundle
               /\ h.contents = 0 => v.c.update = NoUpdate
    BY <1>4, <2>2 DEF Announcing
  <2> DEFINE Fit(v) == /\ Calm(v) /\ Respects(v, dropped) /\ Paused(v, dropped)
                       /\ v.c.start = w.c.start /\ v.c.preferences = w.c.preferences
                       /\ v.c.candidate = NoBundle /\ v.c.pending = NoBundle
                       /\ h.contents = 0 => v.c.update = NoUpdate
  <2>3. \A confirm : Fit(Publish(dropped, h, confirm, bad))
    BY <2>1, <2>2
  <2> HIDE DEF Fit
  <2>4. Fit(published)
    BY <2>3
  <2> HIDE DEF published
  <2> QED
    BY <2>4 DEF Fit
<1>7. Whole(published)
  <2>1. Live(published, {})
    <3>1. Live(dropped, {})
      <4>1. /\ dropped.c.compatibility = w.c.compatibility /\ dropped.c.reload = w.c.reload
            /\ dropped.c.taken = w.c.taken
        BY <1>1 DEF Shaped, NewClient, dropped
      <4>2. Settles(dropped, w, h)
        BY <1>1, <1>4, <4>1, Held DEF Settles, Steady
      <4> QED
        BY <4>2, SettledDown
    <3>2. \A confirm : Publishing(Publish(dropped, h, confirm, bad), dropped)
      BY <3>1, Published
    <3>3. Publishing(published, dropped)
      BY <3>2
    <3> HIDE DEF published
    <3> QED
      BY <3>3 DEF Publishing
  <2> HIDE DEF published
  <2> QED
    BY <2>1 DEF Live, Agreed
<1> HIDE DEF published
<1>8. Respects(published, w) /\ published.c.reset # TRUE /\ Shaped(published) /\ Once(published.s)
  BY <1>1, <1>4, <1>6 DEF Respects, Paused, Calm
<1>9. ASSUME NEW v, Calm(v), v.d = published.d, v.c.reset # TRUE
      PROVE  Obeys(v, w) /\ \A event : Obeys(Emit(v, event), w)
  <2>1. Respects(v, w)
    BY <1>8, <1>9 DEF Respects
  <2>2. ASSUME NEW event
        PROVE  Calm(Emit(v, event)) /\ Emit(v, event).c.reset # TRUE /\ Respects(Emit(v, event), w)
    BY ZenonT(40), <1>9, <2>1, Settling, Murmurs DEF Calm, Respects
  <2> QED
    BY <1>9, <2>1, <2>2, Heeds
<1>10. /\ Shaped(blank) /\ blank.d = published.d /\ blank.s = published.s /\ blank.c.start = FALSE
       /\ blank.c.snapshot = NoSnapshot /\ blank.c.preferences = published.c.preferences
       /\ blank.c.update = published.c.update /\ blank.c.candidate = NoBundle /\ blank.c.pending = NoBundle
       /\ blank.c.reset = published.c.reset
  BY <1>6, <1>8 DEF Shaped, NewClient
<1>11. /\ Shaped(ready) /\ ready.d = published.d /\ ready.s = published.s /\ ready.c.start = FALSE
       /\ ready.c.snapshot = published.c.snapshot /\ ready.c.preferences = published.c.preferences
       /\ ready.c.update = published.c.update /\ ready.c.candidate = NoBundle /\ ready.c.pending = NoBundle
       /\ ready.c.reset = published.c.reset
  BY <1>6, <1>8 DEF Shaped, NewClient
<1> HIDE DEF blank, ready
<1>12. ASSUME NEW v, Shaped(v), v.d = published.d, v.s = published.s, v.c.start = FALSE,
              v.c.snapshot = NoSnapshot \/ v.c.snapshot = published.c.snapshot,
              v.c.preferences = published.c.preferences, v.c.update = published.c.update,
              v.c.candidate = NoBundle, v.c.pending = NoBundle
       PROVE  Calm(v)
  <2>1. /\ Flight(v, {}) = Flight(published, {}) /\ Starting(v) = Starting(published)
        /\ Started(v) = Started(published) /\ Confirmed(v) = Confirmed(published) /\ NoSnapshot.known = FALSE
    BY <1>12 DEF Flight, Starting, Started, Confirmed, ReadOnly, NoSnapshot
  <2>2. Turns(v)
    BY <1>6, <1>12, <2>1 DEF Calm, Ready, Turns
  <2>3. Told(v, {})
    BY <1>6, <1>12, <2>1 DEF Calm, Ready, Told, Owes, First, Says
  <2> QED
    BY <1>6, <1>12, <2>2, <2>3 DEF Calm, Ready, Polls
<1>13. Calm(blank) /\ Calm(ready)
  BY <1>10, <1>11, <1>12
<1>14. ASSUME u.commit, u.automatic, w.c.start
       PROVE  Obeys(BeginPreferences(ready), w)
  <2>1. ~Started(w) /\ ~w.c.preferences.start
    BY <1>14 DEF Ready, Turns
  <2>2. ~Started(ready)
    BY <1>5, <1>6, <1>11, <2>1 DEF Paused, Started, Starting
  <2>3. Confirmed(ready)
    BY <1>2, <1>4, <1>6, <1>11, <1>14 DEF Paused, Confirmed
  <2>4. ~ready.c.preferences.start /\ ready.c.update = NoUpdate /\ NoUpdate.automatic = FALSE
    BY <1>2, <1>6, <1>11, <1>14, <2>1 DEF NoUpdate
  <2>5. Due(ready)
    BY <1>11, <2>2, <2>3, <2>4 DEF Due
  <2>6. Calm(BeginPreferences(ready)) /\ BeginPreferences(ready).d = published.d
        /\ BeginPreferences(ready).c.reset # TRUE
    BY <1>8, <1>11, <1>13, <2>5, Configures
  <2> QED
    BY <1>9, <2>6
<1>15. /\ Shaped(saved) /\ Calm(saved) /\ saved.d = published.d /\ saved.s = published.s
       /\ saved.c.reset = published.c.reset
  <2>1. Shaped(stored) /\ Like(stored, published) /\ stored.d = published.d /\ stored.c.reset = published.c.reset
    BY <1>8 DEF Shaped, NewClient, Like
  <2>2. Calm(stored)
    BY <1>6, <2>1, StaysCalm
  <2> HIDE DEF stored
  <2>3. ASSUME NEW event
        PROVE  /\ Calm(Emit(stored, event)) /\ Shaped(Emit(stored, event)) /\ Emit(stored, event).d = published.d
               /\ Emit(stored, event).c.reset = published.c.reset /\ Emit(stored, event).s = published.s
    <3>1. Calm(Emit(stored, event))
      BY <2>2, Settling
    <3>2. Shaped(Emit(stored, event)) /\ Like(Emit(stored, event), stored) /\ Emit(stored, event).d = stored.d
          /\ Emit(stored, event).c.reset = stored.c.reset
      BY <2>1, Murmurs
    <3> QED
      BY <2>1, <3>1, <3>2 DEF Like
  <2> QED
    BY <2>3
<1> HIDE DEF saved
<1>16. Tidy(restarted, saved)
  <2>1. Whole(saved)
    BY <1>7, <1>15 DEF Whole, ReadOnly
  <2>2. \A cache : Tidy(Recreate(saved, u.candidate, cache, bad), saved)
    BY <1>8, <1>15, <2>1, Replays DEF Calm
  <2> QED
    BY <2>2
<1> HIDE DEF restarted
<1>17. ASSUME NEW v, Tidy(v, saved)
       PROVE  Obeys(v, w)
  <2>1. v.d = published.d /\ Ordered(v, {}) /\ Polls(v)
    BY <1>15, <1>17 DEF Tidy, Calm
  <2> QED
    BY <1>8, <2>1 DEF Obeys, Respects
<1>18. ASSUME NEW v, Shaped(v), Like(v, restarted), v.d = restarted.d, v.c.reset = restarted.c.reset
       PROVE  Tidy(v, saved)
  <2>1. Idle(restarted.c) => Idle(v.c)
    BY <1>18 DEF Idle, Like
  <2>2. Ready(restarted, {}) => Ready(v, {})
    BY <1>18, StaysReady
  <2> QED
    BY <1>16, <1>18, <2>1, <2>2 DEF Tidy, Ordered, Like, Polls
<1>19. Shaped(calm) /\ Like(calm, restarted) /\ calm.d = restarted.d /\ calm.c.reset = restarted.c.reset
  <2>1. Shaped(restarted)
    BY <1>16 DEF Tidy
  <2>2. Shaped(calm)
    BY <2>1, Stores DEF Keeps
  <2> QED
    BY <2>1, <2>2 DEF Like, Shaped, NewClient
<1> HIDE DEF calm
<1>20. /\ Shaped(Emit(calm, "error")) /\ Like(Emit(calm, "error"), restarted)
       /\ Emit(calm, "error").d = restarted.d /\ Emit(calm, "error").c.reset = restarted.c.reset
  BY <1>19, Murmurs DEF Like
<1>21. Obeys(restarted, w) /\ Obeys(Emit(calm, "error"), w)
  BY <1>16, <1>17, <1>18, <1>20
<1> QED
  BY <1>3, <1>6, <1>8, <1>9, <1>10, <1>13, <1>14, <1>15, <1>21

\* _handle_runtime
LEMMA Hears ==
  ASSUME NEW w, NEW h, NEW bad, Agreed(w, {h}), Shaped(w), Ordered(w, {h}), h.tag \in OutTags,
         Polls(w)
  PROVE  Obeys(Handle(w, h, bad), w)
<1>1. CASE w.c.reset = TRUE
  <2>1. Handle(w, h, bad) = Raise(w)
    BY <1>1 DEF Handle
  <2>2. Like(Raise(w), w) /\ Raise(w).d = w.d /\ Raise(w).c.reset = TRUE
    BY <1>1, Murmurs
  <2> QED
    BY <1>1, <2>1, <2>2 DEF Obeys, Ordered, Polls, Respects, Like, Idle
<1>2. CASE w.c.reset # TRUE
  <2>1. Live(w, {h}) /\ Ready(w, {h}) /\ Once(w.s) /\ ~w.c.reset
    BY <1>2 DEF Live, Agreed, Whole, Ordered
  <2>2. \/ h.tag = "welcome" /\ Handle(w, h, bad) = Resolve(w)
        \/ h.tag = "resolved" /\ Handle(w, h, bad) = HandleResolved(w, h, bad)
        \/ h.tag = "needs_source" /\ Handle(w, h, bad) = HandleNeedsSource(w)
        \/ h.tag = "loaded" /\ Handle(w, h, bad) = HandleLoaded(w, h, bad)
        \/ h.tag = "load_failed" /\ Handle(w, h, bad) = HandleLoadFailed(w)
        \/ h.tag = "prepared" /\ Handle(w, h, bad) = HandlePrepared(w, h, bad)
        \/ h.tag = "committed" /\ Handle(w, h, bad) = HandleCommitted(w, h, bad)
        \/ h.tag = "applied" /\ Handle(w, h, bad) = HandleApplied(w, h)
        \/ h.tag = "rejected" /\ Handle(w, h, bad) = HandleRejected(w, h)
        \/ h.tag \in {"unwelcome", "phase"} /\ \E event : Handle(w, h, bad) = Emit(w, event)
    BY SMTT(40), <2>1 DEF Handle, OutTags
  <2> QED
    BY <2>1, <2>2, Serves, Welcomes, Fails, Finalizes, Concludes, Adopts, Withdraws
<1> QED
  BY <1>1, <1>2
-----------------------------------------------------------------------------
(* The turns when the user commands *)

\* What a command leaves of the turns.
Obliges(v, w) == Shaped(v) /\ Ordered(v, {}) /\ v.d = w.d

\* What looks the same obliges as much.
LEMMA StaysObliging ==
  ASSUME NEW u, NEW v, NEW w, Obliges(v, w), Shaped(u), Like(u, v), u.d = v.d, u.c.reset = v.c.reset
  PROVE  Obliges(u, w)
<1>1. Idle(v.c) => Idle(u.c)
  BY DEF Idle, Like
<1>2. Ready(v, {}) => Ready(u, {})
  BY StaysReady
<1> QED
  BY <1>1, <1>2 DEF Obliges, Ordered, Like

\* An event, an exception.
LEMMA Remarks ==
  ASSUME NEW v, NEW w, Obliges(v, w)
  PROVE  Obliges(Raise(v), w) /\ \A event : Obliges(Emit(v, event), w)
BY Murmurs, StaysObliging DEF Obliges

\* reload_all, _submit_reload: nothing else is under way.
LEMMA Refreshes ==
  ASSUME NEW w, NEW bad, Agreed(w, {}), Ordered(w, {}), w.s.inbox = <<>>, w.s.outbox = <<>>
  PROVE  Obliges(Reload(w, bad), w)
<1> DEFINE b == w.c.bundle
           id == NewMessage(w)
           candidate == Scan(w, b.rev + 1, TRUE)
           same == [candidate EXCEPT !.rev = b.rev]
           m == [Message("reload", id) EXCEPT !.bundle = candidate]
           sent == Send(w, m)
           asked == [sent EXCEPT !.c.candidate = candidate, !.c.reload = id]
           kept == [w EXCEPT !.c.bundle = same]
<1>1. \/ Reload(w, bad) = Raise(w)
      \/ b # NoBundle /\ Reload(w, bad) \in {kept, asked}
  BY DEF Reload
<1>2. Shaped(w) /\ Obliges(w, w)
  BY DEF Agreed, Whole, Obliges
<1>3. Obliges(Raise(w), w) /\ Obliges(kept, w)
  <2>1. Shaped(kept) /\ Like(kept, w) /\ kept.d = w.d /\ kept.c.reset = w.c.reset
    BY <1>2, Murmurs
  <2> HIDE DEF kept
  <2> QED
    BY <1>2, <2>1, Remarks, StaysObliging
<1>4. ASSUME b # NoBundle
      PROVE  Obliges(asked, w)
  <2>1. w.c.reset # TRUE /\ Live(w, {}) /\ Ready(w, {}) /\ Once(w.s)
    BY <1>4 DEF Agreed, Blank, Live, Ordered
  <2>2. Flight(w, {}) = {} /\ Books(w, {})
    <3>1. In(<<>>) = {}
      BY DEF In
    <3> QED
      BY <2>1, <3>1 DEF Live, Agreed, Linked, Flight
  <2>3. /\ w.c.candidate = NoBundle /\ w.c.update = NoUpdate /\ w.c.pending = NoBundle
        /\ w.c.preferences.id = 0 /\ ~w.c.preferences.start
    BY <1>4, <2>1, <2>2 DEF Books, Ready, Told, Owes, Turns
  <2>4. m.tag = "reload" /\ m.id = id
    BY DEF Message
  <2> HIDE DEF m, candidate, id
  <2>5. /\ sent.c = w.c /\ sent.d = w.d /\ Shaped(sent) /\ New(w, m.id)
        /\ sent.s.inbox = Append(w.s.inbox, m) /\ sent.s.outbox = w.s.outbox
        /\ sent.s.starts = w.s.starts /\ sent.s.conf = w.s.conf /\ sent.s.next = w.s.next
    BY <1>2, <2>4, Mails DEF InTags, id
  <2> HIDE DEF sent
  <2>6. /\ Shaped(asked) /\ asked.d = w.d /\ asked.s = sent.s /\ asked.c.reset = w.c.reset
        /\ asked.c.start = w.c.start /\ asked.c.preferences = w.c.preferences /\ asked.c.update = NoUpdate
        /\ asked.c.pending = NoBundle
    BY <2>3, <2>5 DEF Shaped, NewClient
  <2> HIDE DEF asked
  <2>7. /\ asked.s.inbox = <<m>> /\ asked.s.outbox = <<>> /\ In(asked.s.inbox) = {m} /\ In(asked.s.outbox) = {}
        /\ In(w.s.inbox) = {}
    <3>1. asked.s.inbox = <<m>> /\ asked.s.outbox = <<>>
      BY <2>5, <2>6
    <3> QED
      BY <3>1 DEF In
  <2>8. ~Starting(asked) /\ (Started(asked) => Started(w)) /\ Once(asked.s)
    BY <2>1, <2>4, <2>5, <2>6, <2>7 DEF Starting, Started, Once
  <2>9. Turns(asked)
    <3>1. NoUpdate.automatic = FALSE /\ NoUpdate.stage = "none"
      BY DEF NoUpdate
    <3> QED
      BY <2>1, <2>3, <2>6, <2>8, <3>1 DEF Ready, Turns
  <2>10. Told(asked, {})
    <3>1. Flight(asked, {}) = {m} /\ m.id # 0
      BY <2>5, <2>7 DEF Flight, New
    <3>2. Owes(asked, {})
      BY <2>3, <2>6, <3>1 DEF Owes
    <3>3. First(asked, {})
      BY <2>7 DEF First
    <3>4. Says(asked, m)
      BY <2>4 DEF Says
    <3> QED
      BY <3>1, <3>2, <3>3, <3>4 DEF Told
  <2> QED
    BY <2>1, <2>6, <2>8, <2>9, <2>10 DEF Obliges, Ordered, Ready
<1> HIDE DEF kept, asked
<1> QED
  BY <1>1, <1>3, <1>4

\* prepare_configuration_update, save_client_preferences
LEMMA Asserts ==
  ASSUME NEW w, NEW bad, NEW restart, Agreed(w, {}), Ordered(w, {})
  PROVE  Obliges(Save(w, restart), w) /\ Obliges(SavePreferences(w, bad), w)
<1>1. Shaped(w) /\ Obliges(w, w)
  BY DEF Agreed, Whole, Obliges
<1>2. CASE w.c.reset = TRUE
  <2>1. w.c.bundle = NoBundle /\ w.c.preferences.id = 0 /\ w.c.snapshot.known = FALSE
    BY <1>2 DEF Agreed, Blank, Ordered, Idle, NoPreferences, NoSnapshot
  <2>2. Save(w, restart) = Raise(w)
    BY <2>1 DEF Save
  <2>3. \E event : SavePreferences(w, bad) = Emit(w, event)
    BY <2>1 DEF SavePreferences
  <2> QED
    BY <1>1, <2>2, <2>3, Remarks
<1>3. CASE w.c.reset # TRUE
  <2>1. Even(w)
    BY <1>1, <1>3 DEF Even, Ordered
  <2>2. ASSUME NEW v, Even(v), v.d = w.d, v.c.reset = w.c.reset
        PROVE  Obliges(v, w)
    BY <1>3, <2>2 DEF Even, Obliges, Ordered
  <2>3. Obliges(Save(w, restart), w)
    <3> DEFINE begun == BeginUpdate(w, restart, FALSE)
    <3>1. \/ Save(w, restart) = Raise(w)
          \/ w.c.update = NoUpdate /\ w.c.snapshot.known /\ Save(w, restart) = begun
      BY DEF Save
    <3>2. ASSUME w.c.update = NoUpdate, w.c.snapshot.known
          PROVE  Obliges(begun, w)
      <4>1. \A automatic : automatic = FALSE => LET v == BeginUpdate(w, restart, automatic) IN
              Even(v) /\ v.d = w.d /\ v.c.reset = w.c.reset
        BY <2>1, <3>2, Proposes DEF Paused
      <4>2. Even(begun) /\ begun.d = w.d /\ begun.c.reset = w.c.reset
        BY <4>1
      <4> HIDE DEF begun
      <4> QED
        BY <2>2, <4>2
    <3> QED
      BY <1>1, <3>1, <3>2, Remarks
  <2>4. Obliges(SavePreferences(w, bad), w)
    <3>1. \/ \E event : SavePreferences(w, bad) = Emit(w, event)
          \/ /\ w.c.preferences.id = 0 /\ w.c.snapshot.known
             /\ SavePreferences(w, bad) = Preferred(w, TRUE, FALSE)
      BY DEF SavePreferences, Preferred
    <3>2. ASSUME w.c.preferences.id = 0, w.c.snapshot.known
          PROVE  Obliges(Preferred(w, TRUE, FALSE), w)
      <4>1. w.c.pending = NoBundle /\ ~w.c.preferences.start
        BY <2>1, <3>2 DEF Even, Ready, Turns
      <4>2. \A save, start : start = FALSE => LET v == Preferred(w, save, start) IN
              Even(v) /\ v.d = w.d /\ v.c.reset = w.c.reset
        BY <2>1, <3>2, <4>1, Inquires
      <4> QED
        BY <2>2, <4>2
    <3> QED
      BY <1>1, <3>1, <3>2, Remarks
  <2> QED
    BY <2>3, <2>4
<1> QED
  BY <1>2, <1>3

\* A command of the app, and the boundary around it.
LEMMA Executes ==
  ASSUME NEW w, NEW command \in Moves, NEW bad, Agreed(w, {}), Ordered(w, {}), w.s.outbox = <<>>,
         command = "reload" => w.s.inbox = <<>>
  PROVE  Obliges(Bounded(Process(w, command, bad)), w)
<1> DEFINE v == Process(w, command, bad)
           calm == [v EXCEPT !.c.failed = FALSE]
<1>1. Whole(w) /\ Shaped(w) /\ Obliges(w, w) /\ Once(w.s) /\ (w.c.reset = TRUE => Blank(w.c) /\ Idle(w.c))
  BY DEF Agreed, Whole, Obliges, Ordered
<1>2. /\ Obliges(Load(w, bad), w) /\ \A full : Obliges(LoadDirectory(w, full, bad), w)
  BY <1>1, Boots DEF Tidy, Obliges
<1>3. Obliges(LoadDirectory(w, TRUE, bad), w)
  BY <1>2
<1>4. \/ v = Raise(w) \/ v = Load(w, bad) \/ v = LoadDirectory(w, TRUE, bad)
      \/ command = "reload" /\ v = Reload(w, bad)
      \/ \E restart : v = Save(w, restart)
      \/ v = SavePreferences(w, bad)
  BY StartAssumption DEF Process
<1>5. Bounded(Process(w, command, bad)) \in {v, Emit(calm, "error")}
  BY DEF Bounded
<1> HIDE DEF v
<1>6. Obliges(v, w)
  BY <1>1, <1>2, <1>3, <1>4, Refreshes, Asserts, Remarks
<1>7. Obliges(calm, w)
  <2>1. Shaped(v)
    BY <1>6 DEF Obliges
  <2>2. Shaped(calm)
    BY <2>1, Stores DEF Keeps
  <2>3. Like(calm, v) /\ calm.d = v.d /\ calm.c.reset = v.c.reset
    BY <2>1, <2>2 DEF Like, Shaped, NewClient
  <2> QED
    BY <1>6, <2>2, <2>3, StaysObliging
<1> HIDE DEF calm
<1> QED
  BY <1>5, <1>6, <1>7, Remarks
-----------------------------------------------------------------------------
(* The turns while the runtime is driven *)

\* The runtime answers the first message: what it may change, and say.
Trade(v, w, o) ==
  LET h == Head(w.s.inbox)
      rest == In(Tail(w.s.inbox)) \cup In(w.s.outbox)
  IN /\ v.c = w.c /\ v.d.project = w.d.project /\ w.s.inbox # <<>>
     /\ v.s.inbox = Tail(w.s.inbox) /\ v.s.outbox = Append(w.s.outbox, o) /\ o.id = h.id
     /\ v.s.starts = w.s.starts \/ (h.tag = "start" /\ v.s.starts = w.s.starts + 1)
     /\ h.tag = "preferences" => o.tag \in {"applied", "rejected"}
     /\ o.tag = "prepared" => h.tag # "reload"
     /\ v.s.conf = w.s.conf \/ \A m \in rest : m.tag \notin {"loaded", "prepared", "committed"}
     /\ \/ v.s.conf = w.s.conf \/ v.s.conf # 0
        \/ ~Starting(w) /\ ~w.c.preferences.start
     /\ \/ v.s.next = w.s.next \/ v.s.next # 0
        \/ \A m \in rest : m.tag \notin {"prepared", "finalize"}
     /\ Says(v, o)

\* The turns stay as they were when the runtime answered.
LEMMA Trades ==
  ASSUME NEW v, NEW w, NEW o, Trade(v, w, o), Live(w, {}), Ready(w, {}), Once(w.s)
  PROVE  Ready(v, {}) /\ Once(v.s)
<1> DEFINE h == Head(w.s.inbox)
           rest == In(Tail(w.s.inbox)) \cup In(w.s.outbox)
           n == Len(w.s.outbox)
<1>1. /\ Queue(w.s.inbox, InTags) /\ Queue(w.s.outbox, OutTags) /\ w.s.inbox # <<>> /\ Linked(w, {})
  BY DEF Live, Agreed, Whole, Shaped, Trade
<1>2. /\ h = w.s.inbox[1] /\ 1 \in DOMAIN w.s.inbox
      /\ \A i \in DOMAIN v.s.inbox : v.s.inbox[i] = w.s.inbox[i + 1] /\ i + 1 \in DOMAIN w.s.inbox
      /\ DOMAIN v.s.inbox = 1..(Len(w.s.inbox) - 1) /\ Len(w.s.inbox) \in Nat
      /\ In(w.s.inbox) = In(v.s.inbox) \cup {h}
  BY <1>1, Stretches DEF Trade
<1>3. /\ n \in Nat /\ DOMAIN w.s.outbox = 1..n /\ DOMAIN v.s.outbox = 1..(n + 1) /\ v.s.outbox[n + 1] = o
      /\ \A i \in 1..n : v.s.outbox[i] = w.s.outbox[i]
      /\ In(v.s.outbox) = In(w.s.outbox) \cup {o}
  BY <1>1, Stretches DEF Trade
<1>4. /\ o.id = h.id /\ v.c = w.c /\ h.tag \in InTags /\ rest = In(v.s.inbox) \cup In(w.s.outbox)
      /\ Flight(v, {}) = rest \cup {o} /\ Flight(w, {}) = rest \cup {h}
  <2>1. h.tag \in InTags
    BY <1>1, Queues
  <2> QED
    BY <1>2, <1>3, <2>1 DEF Trade, Flight
<1> HIDE DEF h, rest, n
<1>5. /\ Starting(v) => Starting(w)
      /\ Started(v) => Started(w)
      /\ Once(v.s)
  <2>1. Starting(v) => Starting(w)
    BY <1>2 DEF Starting
  <2>2. h.tag = "start" => Starting(w)
    BY <1>2 DEF Starting
  <2>3. v.s.starts = w.s.starts \/ (h.tag = "start" /\ v.s.starts = w.s.starts + 1)
    BY DEF Trade, h
  <2>4. Started(v) => Started(w)
    BY <2>1, <2>2, <2>3 DEF Started
  <2>5. CASE h.tag = "start"
    <3>1. w.s.starts = 0 /\ \A j \in DOMAIN w.s.inbox : w.s.inbox[j].tag = "start" => j = 1
      BY <1>2, <2>5 DEF Once
    <3>2. \A i \in DOMAIN v.s.inbox : v.s.inbox[i].tag # "start"
      BY <1>2, <3>1
    <3> QED
      BY <2>1, <2>3, <2>4, <3>1, <3>2 DEF Once
  <2>6. CASE h.tag # "start"
    <3>1. v.s.starts = w.s.starts
      BY <2>3, <2>6
    <3>2. ASSUME NEW i \in DOMAIN v.s.inbox, v.s.inbox[i].tag = "start",
                 NEW j \in DOMAIN v.s.inbox, v.s.inbox[j].tag = "start"
          PROVE  w.s.starts = 0 /\ i = j
      <4>1. i + 1 \in DOMAIN w.s.inbox /\ j + 1 \in DOMAIN w.s.inbox
            /\ w.s.inbox[i + 1].tag = "start" /\ w.s.inbox[j + 1].tag = "start"
        BY <1>2, <3>2
      <4>2. w.s.starts = 0 /\ i + 1 = j + 1
        BY <4>1 DEF Once
      <4>3. i \in 1..(Len(w.s.inbox) - 1) /\ j \in 1..(Len(w.s.inbox) - 1)
        BY <1>2, <3>2
      <4> QED
        BY <1>2, <4>2, <4>3
    <3> QED
      BY <2>1, <2>4, <3>1, <3>2 DEF Once
  <2> QED
    BY <2>1, <2>4, <2>5, <2>6
<1>6. Turns(v)
  <2>1. \/ Confirmed(w) => Confirmed(v)
        \/ ~Starting(w) /\ ~w.c.preferences.start
    BY DEF Trade, Confirmed, ReadOnly
  <2> QED
    BY <1>4, <1>5, <2>1 DEF Ready, Turns
<1>7. Owes(v, {})
  <2>1. h.tag \in {"preferences", "applied", "rejected"} => o.tag \in {"applied", "rejected"}
    BY <1>4 DEF Trade, InTags, h
  <2> QED
    BY <1>4, <2>1 DEF Ready, Told, Owes
<1>8. First(v, {})
  <2>1. ASSUME NEW i \in DOMAIN v.s.inbox
        PROVE  v.s.inbox[i].tag # "reload"
    <3>1. i + 1 \in DOMAIN w.s.inbox /\ v.s.inbox[i] = w.s.inbox[i + 1] /\ i + 1 # 1
      BY <1>2, <2>1
    <3> QED
      BY <3>1 DEF Ready, Told, First
  <2>2. ASSUME v.c.candidate # NoBundle, NEW j \in DOMAIN v.s.outbox, v.s.outbox[j].tag = "prepared"
        PROVE  \E i \in 1..(j - 1) : v.s.outbox[i].id = v.c.reload
    <3>1. CASE j \in 1..n
      <4>1. PICK i \in 1..(j - 1) : w.s.outbox[i].id = w.c.reload
        BY <1>3, <1>4, <2>2, <3>1 DEF Ready, Told, First
      <4>2. i \in 1..n
        BY <1>3, <3>1, <4>1
      <4> QED
        BY <1>3, <1>4, <4>1, <4>2
    <3>2. CASE j = n + 1
      <4>1. o.tag = "prepared" /\ h.tag # "reload"
        BY <1>3, <2>2, <3>2 DEF Trade, h
      <4>2. PICK m \in Flight(w, {}) : m.id = w.c.reload
        BY <1>1, <1>4, <2>2 DEF Linked, Books
      <4>3. m.tag \in ReportTags \cup {"reload", "rejected"}
        BY <1>1, <4>2 DEF Linked, Fits
      <4>4. m \notin In(w.s.inbox)
        <5>1. SUFFICES ASSUME NEW i \in DOMAIN w.s.inbox, w.s.inbox[i] = m PROVE FALSE
          BY DEF In
        <5>2. m.tag \in InTags
          <6>1. PICK S : w.s.inbox \in Seq(S) /\ \A x \in S : x.tag \in InTags
            BY <1>1 DEF Queue
          <6> QED
            BY <5>1, <6>1
        <5>3. m.tag = "reload"
          BY <4>3, <5>2 DEF InTags, ReportTags
        <5>4. i = 1
          BY <5>1, <5>3 DEF Ready, Told, First
        <5> QED
          BY <1>2, <4>1, <5>1, <5>3, <5>4
      <4>5. PICK i \in DOMAIN w.s.outbox : w.s.outbox[i] = m
        BY <4>2, <4>4 DEF Flight, In
      <4>6. i \in 1..n /\ i \in 1..(j - 1)
        BY <1>3, <3>2, <4>5
      <4> QED
        BY <1>3, <1>4, <4>2, <4>5, <4>6
    <3> QED
      BY <1>3, <2>2, <3>1, <3>2
  <2> QED
    BY <2>1, <2>2 DEF First
<1>9. ASSUME NEW m \in Flight(v, {})
      PROVE  Says(v, m)
  <2>1. CASE m = o
    BY <2>1 DEF Trade
  <2>2. CASE m \in rest
    <3>1. Says(w, m)
      BY <1>4, <2>2 DEF Ready, Told
    <3>2. v.s.conf = w.s.conf \/ m.tag \notin {"loaded", "prepared", "committed"}
      BY <2>2 DEF Trade, rest
    <3>3. v.s.next = w.s.next \/ v.s.next # 0 \/ m.tag \notin {"prepared", "finalize"}
      BY <2>2 DEF Trade, rest
    <3> QED
      BY <1>4, <3>1, <3>2, <3>3 DEF Says
  <2> QED
    BY <1>4, <1>9, <2>1, <2>2
<1> QED
  BY <1>5, <1>6, <1>7, <1>8, <1>9 DEF Ready, Told

\* The runtime consumes an input.
LEMMA Replies ==
  ASSUME Inv, CopiesInv, TurnsInv, RtConsume
  PROVE  TurnsInv'
<1> DEFINE h == Head(session.inbox)
           rest == In(Tail(session.inbox)) \cup In(session.outbox)
           compiled == [session EXCEPT !.compiled = h.bundle.sources, !.conf = h.bundle.conf]
<1>1. /\ pc = "driving" /\ session.inbox # <<>> /\ UNCHANGED <<client, disk, commands, pc>>
      /\ World.s = session /\ World.c = client /\ World.d = disk /\ World'.c = client /\ World'.d = disk
      /\ World'.s = session'
  BY DEF RtConsume, World
<1>2. /\ Live(World, {}) /\ Linked(World, {}) /\ DOMAIN session = DOMAIN NewSession /\ client.reset # TRUE
      /\ Queue(session.inbox, InTags) /\ Queue(session.outbox, OutTags)
  BY <1>1 DEF CopiesInv, Orders, Live, Agreed, Whole, Shaped
<1>3. Ready(World, {}) /\ Once(session) /\ IsFiniteSet(disk.written)
  BY <1>1, <1>2 DEF TurnsInv, Ordered
<1>4. /\ h.tag \in InTags /\ Flight(World, {}) = rest \cup {h} /\ \A m \in rest : m.id # h.id
      /\ Fits(World, h) /\ Says(World, h) /\ Books(World, {})
  <2>1. Distinct(session.inbox) /\ h.tag \in InTags
    BY <1>1, <1>2, Queues DEF Linked, Numbered
  <2>2. In(session.inbox) = In(Tail(session.inbox)) \cup {h} /\ \A m \in In(Tail(session.inbox)) : m.id # h.id
    BY <1>1, <1>2, <2>1, Lines
  <2> HIDE DEF h
  <2>3. Flight(World, {}) = rest \cup {h} /\ h \in In(session.inbox)
    BY <1>1, <2>2 DEF Flight
  <2>4. \A m \in rest : m.id # h.id
    BY <1>1, <1>2, <2>2, <2>3 DEF Linked, Numbered
  <2> HIDE DEF rest
  <2> QED
    BY <1>2, <1>3, <2>1, <2>3, <2>4 DEF Linked, Ready, Told
<1>5. \A m \in rest : Fits(World, m)
  BY <1>2, <1>4 DEF Linked
<1>6. ASSUME NEW m \in In(session.inbox)
      PROVE  m.tag \in InTags
  <2>1. PICK S : session.inbox \in Seq(S) /\ \A x \in S : x.tag \in InTags
    BY <1>2 DEF Queue
  <2> QED
    BY <1>6, <2>1 DEF In
<1>7. h.tag = "project" => /\ \A m \in rest : m.tag \notin {"loaded", "prepared", "committed"}
                           /\ ~Starting(World) /\ ~client.preferences.start
  <2> SUFFICES ASSUME h.tag = "project"
               PROVE  /\ \A m \in rest : m.tag \notin {"loaded", "prepared", "committed"}
                      /\ ~Starting(World) /\ ~client.preferences.start
    OBVIOUS
  <2>1. Loading(World, h) /\ client.pending # NoBundle
    BY <1>1, <1>4 DEF Fits, Loading, LoadTags
  <2>2. client.update = NoUpdate /\ NoUpdate.stage = "none"
    BY <1>1, <1>4, <2>1 DEF Books, NoUpdate
  <2>3. ASSUME NEW m \in rest
        PROVE  m.tag \notin {"loaded", "prepared", "committed"}
    <3>1. ~Loading(World, m)
      BY <1>2, <1>4, <2>1 DEF Linked, OneLoad
    <3>2. m.tag # "loaded"
      BY <1>1, <2>1, <3>1 DEF Loading, ReportTags
    <3> QED
      BY <1>1, <1>5, <2>2, <3>2 DEF Fits
  <2> QED
    BY <1>1, <1>3, <2>1, <2>3 DEF Ready, Turns, Started
<1>8. h.tag = "reload" => /\ \A m \in rest : m.tag \notin {"loaded", "prepared", "committed"}
                          /\ ~Starting(World) /\ ~client.preferences.start
  <2> SUFFICES ASSUME h.tag = "reload"
               PROVE  /\ \A m \in rest : m.tag \notin {"loaded", "prepared", "committed"}
                      /\ ~Starting(World) /\ ~client.preferences.start
    OBVIOUS
  <2>1. client.candidate # NoBundle
    BY <1>1, <1>4 DEF Fits
  <2>2. session.outbox = <<>> /\ In(session.outbox) = {} /\ In(Tail(session.inbox)) \subseteq In(session.inbox)
    <3>1. 1 \in DOMAIN session.inbox /\ session.inbox[1] = h
          /\ In(session.inbox) = In(Tail(session.inbox)) \cup {Head(session.inbox)}
      BY <1>1, <1>2, Stretches
    <3>2. session.outbox = <<>>
      BY <1>1, <1>3, <3>1 DEF Ready, Told, First
    <3>3. In(<<>>) = {}
      BY DEF In
    <3> QED
      BY <3>1, <3>2, <3>3
  <2> QED
    BY <1>1, <1>3, <1>6, <2>1, <2>2 DEF Ready, Turns, InTags
<1>9. h.tag = "finalize" => /\ \A m \in rest : m.tag \notin {"loaded", "prepared", "committed", "finalize"}
                            /\ client.update.stage = "finalize"
  <2> SUFFICES ASSUME h.tag = "finalize"
               PROVE  /\ \A m \in rest : m.tag \notin {"loaded", "prepared", "committed", "finalize"}
                      /\ client.update.stage = "finalize"
    OBVIOUS
  <2>1. client.update.stage = "finalize" /\ h.id = client.update.id
    BY <1>1, <1>4 DEF Fits, UpdateTags
  <2>2. client.candidate = NoBundle /\ client.pending = NoBundle
    <3>1. client.candidate = NoBundle
      BY <1>1, <1>3, <2>1 DEF Ready, Turns
    <3>2. client.update # NoUpdate
      BY <2>1 DEF NoUpdate
    <3> QED
      BY <1>1, <1>4, <3>1, <3>2 DEF Books
  <2>3. ASSUME NEW m \in rest
        PROVE  m.tag \notin {"loaded", "prepared", "committed", "finalize"}
    <3>1. m.tag \notin UpdateTags
      BY <1>1, <1>4, <1>5, <2>1 DEF Fits
    <3>2. m.tag # "loaded"
      BY <1>1, <1>5, <2>2 DEF Fits, Loading, LoadTags, ReportTags
    <3> QED
      BY <3>1, <3>2 DEF UpdateTags
  <2> QED
    BY <2>1, <2>3
<1> HIDE DEF h, rest
<1> DEFINE Matched(s, o) == /\ DOMAIN s = DOMAIN NewSession
                            /\ s.inbox = session.inbox /\ s.outbox = session.outbox
                            /\ o.id = h.id
           Kept(s, o) ==
             /\ s.starts = session.starts \/ (h.tag = "start" /\ s.starts = session.starts + 1)
             /\ h.tag = "preferences" => o.tag \in {"applied", "rejected"}
             /\ o.tag = "prepared" => h.tag # "reload"
             /\ s.conf = session.conf \/ \A m \in rest : m.tag \notin {"loaded", "prepared", "committed"}
             /\ \/ s.conf = session.conf \/ s.conf # 0
                \/ ~Starting(World) /\ ~client.preferences.start
             /\ \/ s.next = session.next \/ s.next # 0
                \/ \A m \in rest : m.tag \notin {"prepared", "finalize"}
             /\ \A y : y.c = client /\ y.s.conf = s.conf /\ y.s.next = s.next => Says(y, o)
<1>10. ASSUME NEW s, NEW o, Answer(s, o), Matched(s, o), Kept(s, o)
       PROVE  TurnsInv'
  <2>1. session' = [s EXCEPT !.inbox = Tail(@), !.outbox = Append(@, o)]
    BY <1>10 DEF Answer
  <2>2. /\ session'.inbox = Tail(session.inbox) /\ session'.outbox = Append(session.outbox, o)
        /\ session'.starts = s.starts /\ session'.conf = s.conf /\ session'.next = s.next
    BY <1>10, <2>1 DEF NewSession
  <2>3. Says(World', o)
    BY <1>1, <1>10, <2>2
  <2>4. Trade(World', World, o)
    BY <1>1, <1>10, <2>2, <2>3 DEF Trade, h, rest
  <2>5. Ready(World', {}) /\ Once(World'.s)
    BY <1>1, <1>2, <1>3, <2>4, Trades
  <2> QED
    BY <1>1, <1>2, <1>3, <2>5 DEF TurnsInv, Ordered
<1>11. ASSUME NEW tag, tag \in {"welcome", "resolved", "needs_source", "unwelcome", "phase", "rejected", "load_failed"},
              h.tag = "preferences" => tag = "rejected",
              NEW o, o.tag = tag, o.id = h.id,
              NEW s, DOMAIN s = DOMAIN NewSession, s.inbox = session.inbox, s.outbox = session.outbox,
              s.starts = session.starts \/ (h.tag = "start" /\ s.starts = session.starts + 1),
              s.conf = session.conf, s.next = session.next, Answer(s, o)
       PROVE  TurnsInv'
  <2>1. \A y : Says(y, o)
    BY <1>11 DEF Says
  <2>2. Matched(s, o) /\ Kept(s, o)
    BY <1>11, <2>1
  <2> HIDE DEF Matched, Kept
  <2> QED
    BY <1>10, <1>11, <2>2
<1>12. \A tag, conf : /\ Profile(tag, h, conf).tag = tag /\ Profile(tag, h, conf).id = h.id
                      /\ Profile(tag, h, conf).conf = conf
                      /\ Profile(tag, h, conf).contents = 0 <=> conf # 0
  BY DEF Message, Profile
<1>13. /\ \A tag : Message(tag, h.id).tag = tag /\ Message(tag, h.id).id = h.id
       /\ [Message("load_failed", h.id) EXCEPT !.bundle = h.bundle].tag = "load_failed"
       /\ [Message("load_failed", h.id) EXCEPT !.bundle = h.bundle].id = h.id
  BY DEF Message
<1>14. ASSUME h.tag \in {"project", "reload"}, RtCompile(h)
       PROVE  TurnsInv'
  <2> DEFINE o == Profile("loaded", h, h.bundle.conf)
  <2>1. CASE Answer(compiled, o)
    <3>1. o.tag = "loaded" /\ o.id = h.id /\ o.conf = h.bundle.conf /\ (o.contents = 0 <=> h.bundle.conf # 0)
      BY <1>12
    <3>2. /\ DOMAIN compiled = DOMAIN NewSession /\ compiled.inbox = session.inbox
          /\ compiled.outbox = session.outbox /\ compiled.starts = session.starts
          /\ compiled.conf = h.bundle.conf /\ compiled.next = session.next
      BY <1>2 DEF NewSession
    <3> HIDE DEF o, compiled
    <3>3. \A y : y.s.conf = compiled.conf => Says(y, o)
      BY <3>1, <3>2 DEF Says
    <3>4. Matched(compiled, o) /\ Kept(compiled, o)
      BY <1>7, <1>8, <1>14, <3>1, <3>2, <3>3
    <3> HIDE DEF Matched, Kept
    <3> QED
      BY <1>10, <2>1, <3>4
  <2>2. CASE Answer(session, Message("needs_source", h.id))
    BY <1>2, <1>11, <1>13, <1>14, <2>2
  <2> QED
    BY <1>14, <2>1, <2>2 DEF RtCompile
<1>15. ASSUME h.tag = "prepare", RtPrepare(h)
       PROVE  TurnsInv'
  <2> DEFINE contents == IF session.conf = 0 THEN 1 ELSE 1 + Cardinality(disk.written \cup {session.conf, 0})
             o == [Message("prepared", h.id) EXCEPT !.conf = h.conf, !.contents = contents]
             s == [session EXCEPT !.next = contents]
  <2>1. \/ Answer(session, Message("rejected", h.id))
        \/ h.conf = session.conf /\ Answer(s, o)
    BY <1>15 DEF RtPrepare
  <2>2. o.tag = "prepared" /\ o.id = h.id /\ o.conf = h.conf
    BY DEF Message
  <2>3. contents # 0
    <3>1. IsFiniteSet(disk.written \cup {session.conf, 0})
      <4>1. IsFiniteSet((disk.written \cup {session.conf}) \cup {0})
        BY <1>3, FS_AddElement
      <4>2. (disk.written \cup {session.conf}) \cup {0} = disk.written \cup {session.conf, 0}
        OBVIOUS
      <4> QED
        BY <4>1, <4>2
    <3>2. Cardinality(disk.written \cup {session.conf, 0}) \in Nat
      BY <3>1, FS_CardinalityType
    <3> QED
      BY <3>2
  <2> HIDE DEF contents
  <2>4. /\ DOMAIN s = DOMAIN NewSession /\ s.inbox = session.inbox
        /\ s.outbox = session.outbox /\ s.starts = session.starts
        /\ s.conf = session.conf /\ s.next = contents
    BY <1>2 DEF NewSession
  <2> HIDE DEF o, s
  <2>5. h.conf = session.conf => \A y : y.s.conf = session.conf /\ y.s.next = contents => Says(y, o)
    BY <2>2, <2>3 DEF Says
  <2>6. h.conf = session.conf => Matched(s, o) /\ Kept(s, o)
    BY <1>15, <2>2, <2>3, <2>4, <2>5
  <2> HIDE DEF Matched, Kept
  <2> QED
    BY <1>2, <1>10, <1>11, <1>13, <1>15, <2>1, <2>6
<1>16. ASSUME h.tag = "finalize", RtFinalize(h)
       PROVE  TurnsInv'
  <2> DEFINE conf == IF h.contents = 1 THEN session.next ELSE session.conf
             o == Profile("committed", h, conf)
             s == [session EXCEPT !.conf = conf, !.next = 0]
  <2>1. Answer(s, o)
    BY <1>16 DEF RtFinalize
  <2>2. /\ conf = session.conf \/ conf # 0
        /\ client.update.commit => conf # 0
    BY <1>1, <1>4, <1>16 DEF Says
  <2> HIDE DEF conf
  <2>3. o.tag = "committed" /\ o.id = h.id /\ o.conf = conf /\ (o.contents = 0 <=> conf # 0)
    BY <1>12
  <2>4. /\ DOMAIN s = DOMAIN NewSession /\ s.inbox = session.inbox
        /\ s.outbox = session.outbox /\ s.starts = session.starts /\ s.conf = conf /\ s.next = 0
    BY <1>2 DEF NewSession
  <2> HIDE DEF o, s
  <2>5. \A y : y.c = client /\ y.s.conf = conf => Says(y, o)
    BY <1>9, <1>16, <2>2, <2>3 DEF Says
  <2>6. Matched(s, o) /\ Kept(s, o)
    BY <1>9, <1>16, <2>2, <2>3, <2>4, <2>5
  <2> HIDE DEF Matched, Kept
  <2> QED
    BY <1>10, <2>1, <2>6
<1>17. ASSUME h.tag = "preferences", Answer(session, Profile("applied", h, session.conf))
       PROVE  TurnsInv'
  <2> DEFINE o == Profile("applied", h, session.conf)
  <2>1. o.tag = "applied" /\ o.id = h.id
    BY <1>12
  <2> HIDE DEF o
  <2>2. \A y : Says(y, o)
    BY <2>1 DEF Says
  <2>3. Matched(session, o) /\ Kept(session, o)
    BY <1>2, <1>17, <2>1, <2>2
  <2> HIDE DEF Matched, Kept
  <2> QED
    BY <1>10, <1>17, <2>3 DEF o
<1>18. ASSUME h.tag = "start", Answer([session EXCEPT !.starts = @ + 1], Message("phase", h.id))
       PROVE  TurnsInv'
  <2> DEFINE s == [session EXCEPT !.starts = session.starts + 1]
  <2>1. /\ DOMAIN s = DOMAIN NewSession /\ s.inbox = session.inbox /\ s.outbox = session.outbox
        /\ s.starts = session.starts + 1 /\ s.conf = session.conf /\ s.next = session.next
    BY <1>2 DEF NewSession
  <2>2. Answer(s, Message("phase", h.id))
    BY <1>18
  <2> HIDE DEF s
  <2> QED
    BY <1>11, <1>13, <1>18, <2>1, <2>2
<1>19. ASSUME NEW tag, tag \in {"welcome", "resolved", "unwelcome", "rejected"},
              h.tag = "preferences" => tag = "rejected", Answer(session, Message(tag, h.id))
       PROVE  TurnsInv'
  BY <1>2, <1>11, <1>13, <1>19
<1>20. ASSUME h.tag \in {"project", "reload"}, Answer(session, [Message("load_failed", h.id) EXCEPT !.bundle = h.bundle])
       PROVE  TurnsInv'
  BY <1>2, <1>11, <1>13, <1>20
<1> HIDE DEF compiled
<1>21. \/ h.tag = "hello" /\ Answer(session, Message("welcome", h.id))
       \/ h.tag = "resolve" /\ Answer(session, Message("resolved", h.id))
       \/ h.tag \in {"project", "reload"} /\ RtCompile(h)
       \/ Answer(session, Message("rejected", h.id))
       \/ h.tag = "prepare" /\ RtPrepare(h)
       \/ h.tag = "finalize" /\ RtFinalize(h)
       \/ h.tag = "preferences" /\ Answer(session, Profile("applied", h, session.conf))
       \/ h.tag = "start" /\ Answer([session EXCEPT !.starts = @ + 1], Message("phase", h.id))
       \/ h.tag = "hello" /\ Answer(session, Message("unwelcome", h.id))
       \/ /\ h.tag \in {"project", "reload"}
          /\ Answer(session, [Message("load_failed", h.id) EXCEPT !.bundle = h.bundle])
  BY <1>4 DEF RtConsume, Refuse, InTags, h
<1> QED
  BY <1>14, <1>15, <1>16, <1>17, <1>18, <1>19, <1>20, <1>21
-----------------------------------------------------------------------------
(* The turns after every step *)

\* The message that is handled is in the hand until it is.
LEMMA Grasped ==
  ASSUME NEW w, Agreed(w, {}), Ordered(w, {}), Polls(w), w.s.outbox # <<>>
  PROVE  LET x == [w EXCEPT !.s.outbox = Tail(@)]
             h == Head(w.s.outbox)
         IN Ordered(x, {h}) /\ Polls(x) /\ x.d = w.d /\ x.s.conf = w.s.conf
<1> DEFINE x == [w EXCEPT !.s.outbox = Tail(@)]
           h == Head(w.s.outbox)
           q == w.s.outbox
<1>1. Shaped(w)
  BY DEF Agreed, Whole
<1>2. /\ Len(q) \in Nat /\ DOMAIN q = 1..Len(q) /\ h = q[1] /\ 1 \in DOMAIN q
      /\ DOMAIN Tail(q) = 1..(Len(q) - 1)
      /\ \A i \in DOMAIN Tail(q) : Tail(q)[i] = q[i + 1] /\ i + 1 \in DOMAIN q
      /\ In(q) = In(Tail(q)) \cup {h}
  BY <1>1, Stretches DEF Shaped
<1>3. /\ x.c = w.c /\ x.d = w.d /\ x.s.inbox = w.s.inbox /\ x.s.outbox = Tail(q)
      /\ x.s.starts = w.s.starts /\ x.s.conf = w.s.conf /\ x.s.next = w.s.next
  BY <1>1 DEF Shaped, NewSession
<1> HIDE DEF x
<1>4. Polls(x) /\ Once(x.s)
  BY <1>3 DEF Ordered, Polls, Once
<1>5. ASSUME w.c.reset # TRUE
      PROVE  Ready(x, {h})
  <2>1. Turns(w) /\ Told(w, {})
    BY <1>5 DEF Ordered, Ready
  <2>2. /\ Starting(x) = Starting(w) /\ Started(x) = Started(w) /\ Confirmed(x) = Confirmed(w)
        /\ Flight(x, {h}) = Flight(w, {})
    BY <1>2, <1>3 DEF Starting, Started, Confirmed, ReadOnly, Flight
  <2>3. Turns(x)
    BY <1>3, <2>1, <2>2 DEF Turns
  <2>4. Owes(x, {h})
    BY <1>3, <2>1, <2>2 DEF Told, Owes
  <2>5. \A m \in Flight(x, {h}) : Says(x, m)
    BY <1>3, <2>1, <2>2 DEF Told, Says
  <2>6. First(w, {})
    BY <2>1 DEF Told
  <2>7. \A i \in DOMAIN x.s.inbox : x.s.inbox[i].tag # "reload"
    BY <1>3 DEF Polls, In
  <2>8. ASSUME w.c.candidate # NoBundle
        PROVE  /\ h.tag # "prepared"
               /\ \A j \in DOMAIN Tail(q) : Tail(q)[j].tag = "prepared" =>
                    (\E i \in 1..(j - 1) : Tail(q)[i].id = w.c.reload) \/ h.id = w.c.reload
    <3>1. \A j \in DOMAIN q : q[j].tag = "prepared" => \E i \in 1..(j - 1) : q[i].id = w.c.reload
      BY <2>6, <2>8 DEF First
    <3>2. h.tag # "prepared"
      BY <1>2, <3>1
    <3>3. ASSUME NEW j \in DOMAIN Tail(q), Tail(q)[j].tag = "prepared", h.id # w.c.reload
          PROVE  \E i \in 1..(j - 1) : Tail(q)[i].id = w.c.reload
      <4>1. j \in 1..(Len(q) - 1) /\ q[j + 1].tag = "prepared" /\ j + 1 \in DOMAIN q
        BY <1>2, <3>3
      <4>2. PICK i \in 1..((j + 1) - 1) : q[i].id = w.c.reload
        BY <3>1, <4>1
      <4>3. i # 1
        BY <1>2, <3>3, <4>2
      <4>4. i - 1 \in 1..(j - 1) /\ i - 1 \in DOMAIN Tail(q) /\ (i - 1) + 1 = i
        BY <1>2, <4>1, <4>2, <4>3
      <4>5. Tail(q)[i - 1] = q[i]
        BY <1>2, <4>4
      <4> QED
        BY <4>2, <4>4, <4>5
    <3> QED
      BY <3>2, <3>3
  <2>9. First(x, {h})
    <3> HIDE DEF h, q
    <3> QED
      BY <1>3, <2>7, <2>8 DEF First
  <2> QED
    BY <2>3, <2>4, <2>5, <2>9 DEF Ready, Told
<1> QED
  BY <1>3, <1>4, <1>5 DEF Ordered, x

\* A step of the worker leaves the world, unless an exception ends it.
LEMMA Proceeds ==
  ASSUME NEW w, Whole(w), Ordered(w, {}), IsFiniteSet(w.d.written), NEW next, next # "closed", Continue(w, next),
         next \in {"polling", "handling"} => Polls(w)
  PROVE  TurnsInv' /\ disk' = w.d
<1> DEFINE wound == WindUp(w)
           after == IF w.c.failed THEN wound ELSE w
<1>1. /\ client' = after.c /\ disk' = after.d /\ session' = after.s
      /\ pc' = IF w.c.failed THEN "closed" ELSE next
  BY DEF Continue
<1>2. wound.s = Closed /\ wound.d = w.d
  <2> DEFINE x == ResetWire(w)
  <2>1. DOMAIN x = {"c", "d", "s"} /\ x.d = w.d
    BY Wiped DEF Whole, Shaped
  <2>2. wound = [x EXCEPT !.c.events = Append(@, "error"), !.c.failed = FALSE, !.c.reset = TRUE,
                          !.c.destroy = FALSE, !.s = Closed]
    BY DEF WindUp
  <2> HIDE DEF x, wound
  <2> QED
    BY <2>1, <2>2
<1> HIDE DEF wound
<1>3. CASE w.c.failed
  <2>1. pc' = "closed" /\ session' = Closed /\ disk' = w.d
    BY <1>1, <1>2, <1>3
  <2>2. Closed.starts = 0 /\ Closed.inbox = <<>>
    BY Unstarted
  <2>3. session'.starts = 0 /\ session'.inbox = <<>> /\ IsFiniteSet(disk'.written)
    BY <2>1, <2>2
  <2> QED
    BY <2>1, <2>3 DEF TurnsInv
<1>4. CASE ~w.c.failed
  <2>1. World'.c = w.c /\ World'.d = w.d /\ World'.s = w.s /\ disk' = w.d /\ pc' = next
    BY <1>1, <1>4 DEF World
  <2>2. Like(World', w)
    BY <2>1 DEF Like
  <2>3. Ready(w, {}) => Ready(World', {})
    BY <2>2, StaysReady
  <2>4. Ordered(World', {}) /\ (next \in {"polling", "handling"} => Polls(World'))
    BY <2>1, <2>3 DEF Ordered, Polls
  <2>5. IsFiniteSet(disk'.written)
    BY <2>1
  <2> QED
    BY <2>1, <2>4, <2>5 DEF TurnsInv
<1> QED
  BY <1>3, <1>4

\* What the worker does with another program's edit of the configuration.
EditKept == disk.conf = 9 /\ disk'.conf # 9 => session.conf = 9 \/ disk.seen # 9

\* The project was loaded when there was none, and a command was processed.
LEMMA Ventures ==
  ASSUME Inv, CopiesInv, TurnsInv, StartUp \/ ProcessCommand
  PROVE  TurnsInv' /\ disk' = disk
<1>1. /\ World.c = client /\ World.d = disk /\ World.s = session /\ pc # "closed"
      /\ Agreed(World, {}) /\ Ordered(World, {}) /\ Orders /\ Whole(World) /\ Once(World.s)
      /\ commands \in Seq(Moves) /\ IsFiniteSet(disk.written)
      /\ client.reset = TRUE => Blank(client) /\ Idle(client)
  BY DEF World, CopiesInv, TurnsInv, StartUp, ProcessCommand, Agreed, Ordered, Inv
<1>2. CASE StartUp
  <2>1. PICK bad \in Operations : \E w \in {Load(World, bad)} : Continue(w, "commands")
    BY <1>2 DEF StartUp, Attempt
  <2>2. Continue(Load(World, bad), "commands")
    BY <2>1
  <2>3. Replaced(Load(World, bad), World) /\ Tidy(Load(World, bad), World)
    BY <1>1, Loaded, Boots
  <2>4. Whole(Load(World, bad)) /\ Ordered(Load(World, bad), {}) /\ Load(World, bad).d = disk
    BY <1>1, <2>3 DEF Replaced, Agreed, Tidy
  <2> QED
    BY <1>1, <2>2, <2>4, Proceeds
<1>3. CASE ProcessCommand
  <2> DEFINE command == Head(commands)
             v(bad) == Bounded(Process(World, command, bad))
  <2>1. PICK bad \in Operations : \E w \in {v(bad)} : Continue(w, "commands")
    BY <1>3 DEF ProcessCommand, Attempt
  <2>2. /\ pc = "commands" /\ commands # <<>> /\ Continue(v(bad), "commands") /\ command \in Moves
        /\ session.outbox = <<>> /\ command = commands[1] /\ 1 \in DOMAIN commands
    BY <1>1, <1>3, <2>1 DEF ProcessCommand, Orders
  <2>3. command = "reload" => session.inbox = <<>>
    BY <1>1, <2>2 DEF Orders
  <2>4. After(v(bad), World) /\ Obliges(v(bad), World)
    <3> HIDE DEF command
    <3>1. After(v(bad), World)
      BY <1>1, <2>2, <2>3, Processed
    <3>2. Obliges(v(bad), World)
      BY <1>1, <2>2, <2>3, Executes
    <3> QED
      BY <3>1, <3>2
  <2> HIDE DEF v, command
  <2>5. Whole(v(bad)) /\ Ordered(v(bad), {}) /\ v(bad).d = disk
    BY <1>1, <2>4 DEF After, Agreed, Obliges
  <2> QED
    BY <1>1, <2>2, <2>5, Proceeds
<1> QED
  BY <1>2, <1>3

\* A message was handled, or the last one had been.
LEMMA Attends ==
  ASSUME Inv, CopiesInv, TurnsInv, HandleOutput \/ EndPoll
  PROVE  TurnsInv' /\ EditKept
<1>1. /\ World.c = client /\ World.d = disk /\ World.s = session /\ pc \in {"polling", "handling"}
      /\ Agreed(World, {}) /\ Ordered(World, {}) /\ Polls(World) /\ Whole(World) /\ Shaped(World)
      /\ IsFiniteSet(disk.written)
  BY DEF World, CopiesInv, TurnsInv, HandleOutput, EndPoll, Agreed, Whole
<1>2. CASE HandleOutput
  <2> DEFINE x == [World EXCEPT !.s.outbox = Tail(@)]
             h == Head(session.outbox)
  <2>1. PICK bad \in Operations : \E w \in {Handle(x, h, bad)} : Continue(w, "polling")
    BY <1>2 DEF HandleOutput, Attempt
  <2>2. Continue(Handle(x, h, bad), "polling") /\ session.outbox # <<>>
    BY <1>2, <2>1 DEF HandleOutput
  <2>3. Agreed(x, {h}) /\ h.tag \in OutTags
    BY <1>1, <2>2, InHand
  <2>4. Ordered(x, {h}) /\ Polls(x) /\ x.d = disk /\ x.s.conf = session.conf
    BY <1>1, <2>2, Grasped
  <2> HIDE DEF x, h
  <2>5. Shaped(x)
    BY <2>3 DEF Agreed, Whole
  <2>6. Agreed(Handle(x, h, bad), {}) /\ Obeys(Handle(x, h, bad), x)
    BY <2>3, <2>4, <2>5, Handled, Hears
  <2> DEFINE v == Handle(x, h, bad)
  <2>7. Whole(v) /\ Ordered(v, {}) /\ Polls(v) /\ Respects(v, x)
    BY <2>6 DEF Agreed, Obeys
  <2>8. IsFiniteSet(v.d.written) /\ (disk.conf = 9 /\ v.d.conf # 9 => session.conf = 9 \/ disk.seen # 9)
    BY <1>1, <2>4, <2>7 DEF Respects
  <2>9. Continue(v, "polling")
    BY <2>2
  <2> HIDE DEF v
  <2>10. TurnsInv' /\ disk' = v.d
    BY <2>7, <2>8, <2>9, Proceeds
  <2> QED
    BY <2>8, <2>10 DEF EditKept
<1>3. CASE EndPoll
  <2>1. Continue(World, "commands") \/ Continue(Raise(World), "commands")
    BY <1>3 DEF EndPoll
  <2>2. Alike(Raise(World), World) /\ Like(Raise(World), World)
    BY <1>1, Cries, Murmurs
  <2>3. Agreed(Raise(World), {})
    BY <1>1, <2>2, StaysAgreed
  <2>4. Ordered(Raise(World), {}) /\ Raise(World).d = disk
    <3>1. Ready(World, {}) => Ready(Raise(World), {})
      BY <2>2, StaysReady
    <3>2. Raise(World).c.reset = client.reset /\ Raise(World).d = disk
      BY <1>1, Murmurs
    <3>3. Idle(client) => Idle(Raise(World).c)
      BY <1>1, <2>2 DEF Idle, Like
    <3> QED
      BY <1>1, <2>2, <3>1, <3>2, <3>3 DEF Ordered, Like
  <2>5. Whole(Raise(World))
    BY <2>3 DEF Agreed
  <2>6. TurnsInv' /\ disk' = disk
    BY <1>1, <2>1, <2>4, <2>5, Proceeds
  <2> QED
    BY <2>6 DEF EditKept
<1> QED
  BY <1>2, <1>3

\* Another program edits the project.
LEMMA Intrudes ==
  ASSUME Inv, CopiesInv, TurnsInv, Edit
  PROVE  TurnsInv' /\ EditKept
<1>1. /\ World.c = client /\ World.d = disk /\ World.s = session
      /\ World'.c = client /\ World'.d = disk' /\ World'.s = session
      /\ UNCHANGED <<client, session, pc>> /\ pc # "closed" /\ Ordered(World, {})
      /\ DOMAIN disk = {"project", "sources", "conf", "cache", "written", "seen"}
  BY DEF World, TurnsInv, CopiesInv, Edit, Agreed, Whole
<1>2. /\ disk'.project = disk.project /\ disk'.written = disk.written
      /\ disk'.conf \in {disk.conf, 9}
  <2>1. CASE disk' = [disk EXCEPT !.conf = 9]
    BY <1>1, <2>1
  <2>2. CASE disk' = [disk EXCEPT !.sources = @ + 1]
    BY <1>1, <2>2
  <2> QED
    BY <2>1, <2>2 DEF Edit
<1>3. Like(World', World)
  BY <1>1, <1>2 DEF Like
<1>4. Ready(World, {}) => Ready(World', {})
  BY <1>3, StaysReady
<1>5. Ordered(World', {}) /\ (pc \in {"polling", "handling"} => Polls(World'))
  BY <1>1, <1>4 DEF Ordered, Polls, TurnsInv
<1> QED
  BY <1>1, <1>2, <1>5 DEF TurnsInv, EditKept

\* The events were drained.
LEMMA Drains ==
  ASSUME Inv, TurnsInv, HandleEvents
  PROVE  TurnsInv'
<1>1. /\ UNCHANGED <<disk, session, commands, pc>> /\ client' = [client EXCEPT !.events = <<>>]
      /\ pc \in {"commands", "closed"}
  BY DEF HandleEvents
<1>2. /\ World.c = client /\ World.d = disk /\ World.s = session
      /\ World'.c = client' /\ World'.d = disk /\ World'.s = session /\ DOMAIN client = DOMAIN NewClient
  BY <1>1 DEF World, Inv, Shaped
<1>3. Like(World', World) /\ client'.reset = client.reset
  BY <1>1, <1>2 DEF Like, NewClient
<1>4. Ready(World, {}) => Ready(World', {})
  BY <1>3, StaysReady
<1>5. Idle(client) => Idle(client')
  BY <1>2, <1>3 DEF Like, Idle
<1>6. Ordered(World, {}) => Ordered(World', {})
  BY <1>2, <1>3, <1>4, <1>5 DEF Ordered
<1> QED
  BY <1>1, <1>6 DEF TurnsInv

\* Every step.
LEMMA TurnsSteps ==
  ASSUME Inv, CopiesInv, TurnsInv, [Next]_vars
  PROVE  TurnsInv' /\ EditKept
<1>1. ASSUME UNCHANGED <<client, disk, session>>, pc' = "closed" <=> pc = "closed",
             pc' \in {"polling", "handling"} => Polls(World)
      PROVE  TurnsInv' /\ EditKept
  <2>1. World' = World
    BY <1>1 DEF World
  <2> QED
    BY <1>1, <2>1 DEF TurnsInv, EditKept
<1>2. CASE BeginPump
  BY <1>1, <1>2 DEF BeginPump
<1>3. CASE EndDrive
  <2>1. UNCHANGED <<client, disk, session>> /\ pc' = "polling" /\ pc = "driving" /\ session.inbox = <<>>
    BY <1>3 DEF EndDrive
  <2>2. In(<<>>) = {}
    BY DEF In
  <2>3. Polls(World)
    BY <2>1, <2>2 DEF Polls, World
  <2> QED
    BY <1>1, <2>1, <2>3
<1>4. CASE UNCHANGED vars
  <2>1. UNCHANGED <<client, disk, session, pc>>
    BY <1>4 DEF vars
  <2> QED
    BY <1>1, <2>1 DEF TurnsInv
<1>5. CASE Choose
  <2>1. UNCHANGED <<client, disk, session, pc>>
    BY <1>5 DEF Choose
  <2> QED
    BY <1>1, <2>1 DEF TurnsInv
<1>6. CASE HandleEvents
  <2>1. disk' = disk
    BY <1>6 DEF HandleEvents
  <2> QED
    BY <1>6, <2>1, Drains DEF EditKept
<1>7. CASE RtConsume
  <2>1. disk' = disk
    BY <1>7 DEF RtConsume
  <2> QED
    BY <1>7, <2>1, Replies DEF EditKept
<1>8. CASE StartUp \/ ProcessCommand
  <2>1. TurnsInv' /\ disk' = disk
    BY <1>8, Ventures
  <2> QED
    BY <2>1 DEF EditKept
<1>9. CASE TakeOutput
  <2>1. /\ UNCHANGED <<client, session>> /\ disk' = [disk EXCEPT !.seen = disk.conf]
        /\ pc = "polling" /\ pc' = "handling"
    BY <1>9 DEF TakeOutput
  <2>2. /\ World.c = client /\ World.d = disk /\ World.s = session
        /\ World'.c = client /\ World'.d = disk' /\ World'.s = session
    BY <2>1 DEF World
  <2>3. disk'.project = disk.project /\ disk'.conf = disk.conf /\ disk'.written = disk.written
    <3>1. disk' = [disk EXCEPT !.seen = disk.conf]
      BY <2>1
    <3>2. DOMAIN disk = {"project", "sources", "conf", "cache", "written", "seen"}
      BY <2>1, <2>2 DEF CopiesInv, Agreed, Whole
    <3> QED
      BY <3>1, <3>2
  <2>4. Like(World', World)
    BY <2>2, <2>3 DEF Like
  <2>5. Ready(World, {}) => Ready(World', {})
    BY <2>4, StaysReady
  <2>6. Ordered(World', {}) /\ Polls(World')
    BY <2>1, <2>2, <2>5 DEF Ordered, Polls, TurnsInv
  <2> QED
    BY <2>1, <2>3, <2>6 DEF TurnsInv, EditKept
<1> QED
  BY <1>2, <1>3, <1>4, <1>5, <1>6, <1>7, <1>8, <1>9, Attends, Intrudes DEF Next, Worker, Stopped

\* What the client starts with.
LEMMA TurnsStart ==
  ASSUME Init
  PROVE  TurnsInv
<1>1. /\ World.c = NewClient /\ World.s = NewSession /\ World.d = disk /\ pc = "start"
  BY DEF Init, World
<1>2. PICK project \in Projects, conf \in {0, 1}, cache \in {0, 1} :
        disk = [project |-> project, sources |-> 1, conf |-> conf, cache |-> cache, written |-> {conf},
                seen |-> conf]
  BY DEF Init
<1>3. IsFiniteSet(disk.written)
  <2>1. disk.written = {conf}
    BY <1>2
  <2> QED
    BY <2>1, FS_Singleton
<1>4. /\ NewClient.reset = FALSE /\ NewClient.start = FALSE /\ NewClient.preferences = NoPreferences
      /\ NewClient.pending = NoBundle /\ NewClient.candidate = NoBundle /\ NewClient.update = NoUpdate
      /\ NewClient.snapshot = NoSnapshot
      /\ NoPreferences.id = 0 /\ NoPreferences.start = FALSE /\ NoUpdate.automatic = FALSE
      /\ NoSnapshot.known = FALSE
  BY DEF NewClient, NoPreferences, NoUpdate, NoSnapshot
<1>5. /\ NewSession.inbox = <<>> /\ NewSession.outbox = <<>> /\ In(NewSession.inbox) = {}
      /\ In(NewSession.outbox) = {} /\ Once(NewSession) /\ NewSession.starts = 0
  BY Unstarted
<1>6. Flight(World, {}) = {} /\ ~Starting(World) /\ ~Started(World)
  BY <1>1, <1>5 DEF Flight, Starting, Started
<1>7. Turns(World)
  BY <1>1, <1>4, <1>6 DEF Turns
<1>8. Told(World, {})
  <2>1. Owes(World, {}) /\ \A m \in Flight(World, {}) : Says(World, m)
    BY <1>1, <1>4, <1>6 DEF Owes
  <2>2. First(World, {})
    BY <1>1, <1>4, <1>5 DEF First
  <2> QED
    BY <2>1, <2>2 DEF Told
<1>9. Ordered(World, {})
  BY <1>1, <1>4, <1>5, <1>7, <1>8 DEF Ordered, Ready
<1> QED
  BY <1>1, <1>3, <1>9 DEF TurnsInv

\* The three invariants, and what every step keeps of a foreign configuration.
LEMMA TurnsInvariant ==
  ASSUME Careful
  PROVE  Spec => [](Inv /\ CopiesInv /\ TurnsInv) /\ [][EditKept]_vars
<1>1. Init => CopiesInv /\ TurnsInv
  BY CopiesStart, TurnsStart
<1>2. Inv /\ (CopiesInv /\ TurnsInv) /\ [Next]_vars => (CopiesInv /\ TurnsInv)' /\ EditKept
  BY CopiesSteps, TurnsSteps
<1> QED
  BY <1>1, <1>2, Invariant, PTL DEF Spec

\* When the user reloads and saves preferences while nothing else is under way, and
\* saves settings and edits the project at any time, a session starts its game once, by the load, the confirmation or the
\* preferences, and not while the migration of its configuration is unconfirmed
\* (_begin_client_preferences, pending_start_after_configuration).
THEOREM StartSettles ==
  ASSUME Careful
  PROVE  Spec => []StartSettled
<1>1. CopiesInv /\ TurnsInv => StartSettled
  <2> SUFFICES ASSUME CopiesInv, TurnsInv
               PROVE  StartSettled
    OBVIOUS
  <2> DEFINE starting == {i \in DOMAIN session.inbox : session.inbox[i].tag = "start"}
  <2>1. World.c = client /\ World.s = session
    BY DEF World
  <2>2. Once(session)
    <3>1. CASE pc = "closed"
      <4>1. session.starts = 0 /\ session.inbox = <<>>
        BY <3>1 DEF TurnsInv
      <4> QED
        BY <4>1 DEF Once
    <3>2. CASE pc # "closed"
      BY <2>1, <3>2 DEF TurnsInv, Ordered
    <3> QED
      BY <3>1, <3>2
  <2>3. session.starts + Cardinality(starting) <= 1
    <3>1. CASE starting = {}
      <4>1. Cardinality(starting) = 0
        BY <3>1, FS_EmptySet
      <4> QED
        BY <2>2, <4>1 DEF Once
    <3>2. CASE starting # {}
      <4>1. PICK i : i \in starting
        BY <3>2
      <4>2. session.starts = 0 /\ starting = {i}
        BY <2>2, <4>1 DEF Once
      <4>3. Cardinality(starting) = 1
        BY <4>2, FS_Singleton
      <4> QED
        BY <4>2, <4>3
    <3> QED
      BY <3>1, <3>2
  <2>4. ASSUME starting # {}
        PROVE  ~(client.update.automatic /\ client.update.stage = "prepare")
    <3>1. session.inbox # <<>> /\ Starting(World)
      BY <2>1, <2>4 DEF Starting, In
    <3>2. pc # "closed"
      BY <3>1 DEF TurnsInv
    <3>3. CASE client.reset = TRUE
      <4>1. client.update = NoUpdate /\ NoUpdate.stage = "none"
        BY <2>1, <3>2, <3>3 DEF CopiesInv, Agreed, Blank, NoUpdate
      <4> QED
        BY <4>1
    <3>4. CASE client.reset # TRUE
      BY <2>1, <3>1, <3>2, <3>4 DEF TurnsInv, Ordered, Ready, Turns
    <3> QED
      BY <3>3, <3>4
  <2> QED
    BY <2>3, <2>4 DEF StartSettled
<1> QED
  BY <1>1, TurnsInvariant, PTL

\* When the user reloads and saves preferences while nothing else is under way, a
\* configuration another program wrote is replaced only by one made from it, even
\* when it is written in the middle of a migration or a save, unless it is written
\* between the reading of the file and os.replace (write_configuration).
THEOREM ForeignEditStays ==
  ASSUME Careful
  PROVE  Spec => ForeignEditKept
<1>1. [EditKept]_vars => [disk.conf = 9 /\ disk'.conf # 9 => session.conf = 9 \/ disk.seen # 9]_vars
  BY DEF EditKept
<1> QED
  BY <1>1, TurnsInvariant, PTL DEF ForeignEditKept
=============================================================================
