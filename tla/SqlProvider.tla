------------------------------ MODULE SqlProvider ------------------------------
(***************************************************************************)
(* The SQL service of the worker (sql_provider.py): connections to a copy  *)
(* in memory of a stored database, transactions and readers on them, and   *)
(* the publication of what SQL changed, before the change is acknowledged. *)
(* The copy is SQLite's, external: a statement that writes is committed    *)
(* when it ends outside a transaction and no other write is in progress;   *)
(* an interrupt rolls a transaction back.  The store answers a publication *)
(* with success or an error (SqlRevisions models it).                      *)
(* A database is the set of the writes in it.  Databases without a store,  *)
(* values, parameters and the limits of sizes are left out; one handle in  *)
(* each epoch stands for those of the runtime.                             *)
(***************************************************************************)
EXTENDS Integers, FiniteSets

CONSTANTS
  MaxEpoch, MaxRequests, MaxReaders  \* bounds; the last is MAXIMUM_READERS

ASSUME ProviderAssumption ==
  {MaxEpoch, MaxRequests, MaxReaders} \subseteq Nat /\ MaxEpoch > 0

VARIABLES
  epoch,        \* of the runtime
  connections,  \* of each epoch: [durable, saved, dirty, txn, seen] or Closed
  readers,      \* {[id, epoch, cursor, writing, made, detected, status]}
  stored,       \* the revisions the store has
  promised, refused,  \* writes that were acknowledged; that were answered with an error
  blamed,       \* {[write, cause]}: what kept an answer from being true, if it is not
  left          \* requests; the next write and reader

vars == <<epoch, connections, readers, stored, promised, refused, blamed, left>>

Epochs == 1..MaxEpoch
Closed == [open |-> FALSE]
Nothing == {}
Opened(durable) ==
  [open |-> TRUE, durable |-> durable, saved |-> durable, dirty |-> {}, txn |-> FALSE, seen |-> {}]
-----------------------------------------------------------------------------
(* SQLite *)

Writers(rs, e) == {r \in rs : r.epoch = e /\ r.writing}

\* A write is committed at the end of the last statement that writes.
Settled(c, rs, e) ==
  IF c.txn \/ Writers(rs, e) # {} THEN c
  ELSE [c EXCEPT !.saved = @ \cup c.dirty, !.dirty = {}]

RolledBack(c) == [c EXCEPT !.dirty = {}, !.txn = FALSE]
Aborted(rs, e) == {IF r.epoch = e THEN [r EXCEPT !.writing = FALSE, !.made = Nothing] ELSE r : r \in rs}

\* The writes of a transaction that is gone.
Lost(before, after) == IF before.txn /\ ~after.txn THEN before.dirty ELSE {}

\* An error undoes the statement, an interrupt the transaction as well.
Undone(c, rs, e) ==
  {[c |-> c, rs |-> rs]} \cup
  (IF c.txn THEN {[c |-> RolledBack(c), rs |-> Aborted(rs, e)]} ELSE {})
-----------------------------------------------------------------------------
(* What the operations share *)

\* _close_reader, for the readers of connections
ReadersKept(rs, epochs) == rs
ReadersLeft(rs, epochs) == {r \in rs : r.epoch \notin epochs}

\* _restore_durable: the copy is a new one.
Unrestored(c, rs, e) == [c |-> c, rs |-> rs]
Restored(c, rs, e) == [c |-> Opened(c.durable), rs |-> ReadersLeft(rs, {e})]

\* An operation ends with the connection and the readers, whether it
\* succeeded, the writes it is about, and what may make its answer untrue.
Ended(s, ok, made) == [c |-> s.c, rs |-> s.rs, ok |-> ok, made |-> made, why |-> {}]
Because(cause, o) == [o EXCEPT !.why = {cause}]

\* _publish_if_autocommit: a deadline that has passed by then restores nothing.
Publish(s, e, made) ==
  IF s.c.txn THEN {Ended(s, TRUE, made)}
  ELSE {Because("late", Ended(s, FALSE, made))}
         \cup (IF s.c.saved = s.c.durable THEN {Ended(s, TRUE, made)}
               ELSE {Ended([s EXCEPT !.c = [@ EXCEPT !.durable = s.c.saved]], TRUE, made),
                     Ended(Restored(s.c, s.rs, e), FALSE, made)})

\* The authorizer is asked when a statement is compiled; a text that was seen may
\* come compiled out of the cache of apsw.
Probed(c, statement) == {TRUE} \cup (IF statement \in c.seen THEN {FALSE} ELSE {})

\* A write that is acknowledged while a cursor writes waits for that cursor.
Causes(o, e) == o.why \cup (IF o.ok /\ Writers(o.rs, e) # {} THEN {"beside"} ELSE {})

\* The response, and what the runtime may conclude from it: a success outside
\* a transaction is durable, an error outside one happened to nothing.
Respond(e, o) ==
  /\ connections' = [connections EXCEPT ![e] = o.c]
  /\ readers' = o.rs
  /\ stored' = stored \cup {o.c.durable}
  /\ promised' = [promised EXCEPT ![e] = IF o.ok /\ ~o.c.txn THEN @ \cup o.made ELSE @]
  /\ refused' = [refused EXCEPT ![e] = IF o.ok \/ o.c.txn THEN @ ELSE @ \cup o.made]
  /\ blamed' = [blamed EXCEPT ![e] =
                  IF o.c.txn THEN @ ELSE @ \cup [write : o.made, cause : Causes(o, e)]]
  /\ left' = left - 1
  /\ UNCHANGED epoch

Busy(e) == left > 0 /\ connections[e].open
-----------------------------------------------------------------------------
(* _execute_sql *)

\* What a statement does to the copy.
Effect(c, rs, e, statement) ==
  CASE statement = "write" -> [c |-> Settled([c EXCEPT !.dirty = @ \cup {left}], rs, e), rs |-> rs]
    [] statement = "begin" -> [c |-> [c EXCEPT !.txn = TRUE], rs |-> rs]
    [] statement = "commit" -> [c |-> Settled([c EXCEPT !.txn = FALSE], rs, e), rs |-> rs]
    [] statement = "rollback" -> [c |-> RolledBack(c), rs |-> Aborted(rs, e)]

Allowed(c, e, statement) ==
  CASE statement = "write" -> TRUE
    [] statement = "begin" -> ~c.txn
    [] statement = "commit" -> c.txn /\ Writers(readers, e) = {}
    [] statement = "rollback" -> c.txn

Made(c, statement) ==
  CASE statement = "write" -> {left}
    [] statement = "commit" -> c.dirty
    [] OTHER -> Nothing

\* An error, of SQLite or of the provider after the statement (a cell that is
\* too large, a scalar of the wrong type): what it did is taken back, unless
\* a transaction is open or the authorizer was not asked.
Failed(s, e, probe, made) ==
  IF ~probe THEN Because("cached", Ended(s, FALSE, made))
  ELSE IF s.c.txn THEN Ended(s, FALSE, made)
  ELSE Ended(Restored(s.c, s.rs, e), FALSE, made)

Execute(e) ==
  \E statement \in {"write", "begin", "commit", "rollback"} :
    LET c == connections[e]
        s == Effect([c EXCEPT !.seen = @ \cup {statement}], readers, e, statement)
        made == Made(c, statement)
    IN  /\ Busy(e)
        /\ \E probe \in Probed(c, statement) :
             \/ /\ Allowed(c, e, statement)
                /\ \E o \in IF probe THEN Publish(s, e, made)
                            ELSE {Because("cached", Ended(s, TRUE, made))} : Respond(e, o)
             \/ /\ Allowed(c, e, statement) /\ statement = "write"
                /\ Respond(e, Failed(s, e, probe, made))
             \* an error of SQLite, before it is compiled or after
             \/ \E u \in Undone(c, readers, e), asked \in {FALSE, probe} :
                  LET r == IF asked /\ ~u.c.txn THEN Restored(u.c, u.rs, e) ELSE u IN
                  Respond(e, Ended(r, FALSE, {left} \cup Lost(c, u.c)))

\* Mode 3: a reader, of a query or of a write that returns rows.
NewReader(e, made, probe) ==
  [id |-> left, epoch |-> e, cursor |-> TRUE, writing |-> made # Nothing, made |-> made,
   detected |-> probe, status |-> 0]

Read(e) ==
  LET c == connections[e]
      dirty == [c EXCEPT !.dirty = @ \cup {left}, !.seen = @ \cup {"returning"}]
      room == Cardinality(readers) < MaxReaders
  IN  /\ Busy(e)
      /\ \/ room /\ Respond(e, Ended([c |-> c, rs |-> readers \cup {NewReader(e, Nothing, FALSE)}],
                                     TRUE, Nothing))
         \/ \E probe \in Probed(c, "returning") :
              IF room
              THEN Respond(e, Ended([c |-> dirty, rs |-> readers \cup {NewReader(e, {left}, probe)}],
                                    TRUE, Nothing))
              ELSE Respond(e, Failed([c |-> Settled(dirty, readers, e), rs |-> readers], e, probe,
                                     {left}))
-----------------------------------------------------------------------------
(* Readers *)

Updated(r, new) == (readers \ {r}) \cup {new}
\* Its statement has ended, and the answer is about what it made.
Done(r) == [r EXCEPT !.writing = FALSE, !.made = Nothing]

\* _finalize_reader_write: a reader whose publication failed is of no more use.
Finalized(r, status) ==
  LET e == r.epoch
      new == [Done(r) EXCEPT !.cursor = FALSE, !.status = status]
      rs == Updated(r, new)
  IN  {IF o.ok THEN o
       ELSE [o EXCEPT !.rs = {IF x = new THEN [x EXCEPT !.status = 3] ELSE x : x \in @}] :
         o \in Publish([c |-> Settled(connections[e], rs, e), rs |-> rs], e, r.made)}

Forgotten(r, status) ==
  LET rs == Updated(r, [Done(r) EXCEPT !.status = status])
      s == [c |-> Settled(connections[r.epoch], rs, r.epoch), rs |-> rs]
  IN  {Because("cached", Ended(s, TRUE, r.made))}

\* At the end of its rows.
JustForgotten(r) == Forgotten(r, 2)
AtEnd(r) == IF r.detected THEN Finalized(r, 2) ELSE Forgotten(r, 2)

\* _reader_read
ReaderRead(r) ==
  LET e == r.epoch
      c == connections[e]
      gone == readers \ {r}
  IN  /\ left > 0 /\ r.cursor /\ r.status # 2
      /\ \/ Respond(e, Ended([c |-> c, rs |-> Updated(r, [r EXCEPT !.status = 1])], TRUE, Nothing))
         \/ \E o \in AtEnd(r) : Respond(e, o)
         \/ \* its statement fails
            \E u \in Undone([c EXCEPT !.dirty = @ \ r.made], Updated(r, Done(r)), e) :
              Respond(e, Ended([u EXCEPT !.c = Settled(@, u.rs, e)], FALSE, r.made))
         \/ \* too many rows: the cursor is closed, and what it wrote is committed
            Respond(e, Because("limit", Ended([c |-> Settled(c, gone, e), rs |-> gone], FALSE, r.made)))

\* _reader_close
ReaderClose(r) ==
  /\ left > 0
  /\ \E o \in IF r.detected THEN Finalized(r, 3) ELSE Forgotten(r, 3) :
       Respond(r.epoch, IF o.ok THEN [o EXCEPT !.rs = readers \ {r}] ELSE o)
-----------------------------------------------------------------------------
(* The other operations *)

\* _import_map: a savepoint, and a publication whether it changed anything or not.
ImportMap(e) ==
  LET c == connections[e]
      s == [c |-> Settled([c EXCEPT !.dirty = @ \cup {left}], readers, e), rs |-> readers] IN
  /\ Busy(e)
  /\ \/ Writers(readers, e) = {} /\ \E o \in Publish(s, e, {left}) : Respond(e, o)
     \/ \E u \in Undone(c, readers, e) : Respond(e, Ended(u, FALSE, {left}))

\* _open: in the epoch of the game, or in that of the game a restore prepares.
Open(e) ==
  /\ left > 0 /\ ~connections[e].open /\ e \in {epoch, epoch + 1}
  /\ \E revision \in stored : connections' = [connections EXCEPT ![e] = Opened(revision)]
  /\ left' = left - 1
  /\ UNCHANGED <<epoch, readers, stored, promised, refused, blamed>>

\* _close_connection, for all of these epochs
Close(epochs) ==
  /\ connections' = [e \in Epochs |-> IF e \in epochs THEN Closed ELSE connections[e]]
  /\ readers' = ReadersLeft(readers, epochs)
  /\ promised' = [e \in Epochs |-> IF e \in epochs THEN {} ELSE promised[e]]
  /\ refused' = [e \in Epochs |-> IF e \in epochs THEN {} ELSE refused[e]]
  /\ blamed' = [e \in Epochs |-> IF e \in epochs THEN {} ELSE blamed[e]]

Disconnect(e) ==
  /\ Busy(e) /\ Close({e})
  /\ left' = left - 1
  /\ UNCHANGED <<epoch, stored>>

\* begin_epoch: what the new game opened before it began stays.
StaleHandles(new) == Epochs \ {new}
BeginEpoch ==
  /\ epoch < MaxEpoch /\ epoch' = epoch + 1
  /\ Close(StaleHandles(epoch'))
  /\ UNCHANGED <<stored, left>>

Init ==
  /\ epoch = 1
  /\ connections = [e \in Epochs |-> Closed] /\ readers = {}
  /\ stored = {{}}
  /\ promised = [e \in Epochs |-> {}] /\ refused = [e \in Epochs |-> {}]
  /\ blamed = [e \in Epochs |-> {}]
  /\ left = MaxRequests

Next ==
  \/ \E e \in Epochs : Execute(e) \/ Read(e) \/ ImportMap(e) \/ Open(e) \/ Disconnect(e)
  \/ \E r \in readers : ReaderRead(r) \/ ReaderClose(r)
  \/ BeginEpoch

Spec == Init /\ [][Next]_vars
-----------------------------------------------------------------------------
(* Properties *)

BlamedOn(e, causes) == {b.write : b \in {d \in blamed[e] : d.cause \in causes}}

\* What was acknowledged outside a transaction is in the revision the store has:
\* a write, a commit, the end of a reader that wrote, an import.  But for what a
\* cached statement wrote, of which the provider does not know, and for what is
\* acknowledged while the cursor of an INSERT ... RETURNING is open.
AcknowledgedStored ==
  \A e \in Epochs : connections[e].open =>
    promised[e] \subseteq connections[e].durable \cup BlamedOn(e, {"cached", "beside"})

\* What was answered with an error outside a transaction is neither stored nor
\* visible to the next statement, and no later publication takes it along.  But for
\* a deadline that passes before the publication, a reader over its limit of rows,
\* and a cached statement that fails behind its effect.
RefusedGone ==
  \A e \in Epochs : connections[e].open =>
    refused[e] \cap (connections[e].durable \cup connections[e].saved)
      \subseteq BlamedOn(e, {"late", "limit", "cached"})

\* A reader ends with its connection: no restoration, disconnection or new
\* epoch leaves one that reads a copy which is gone.
ReadersOwned ==
  \A r \in readers :
    /\ connections[r.epoch].open /\ r.epoch >= epoch
    /\ r.writing => r.cursor /\ r.made \subseteq connections[r.epoch].dirty

\* An answer outside a transaction is true of the store, either way.
AnswersTrue == AcknowledgedStored /\ RefusedGone
=============================================================================
