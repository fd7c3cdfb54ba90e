------------------------------- MODULE SqlProofs -------------------------------
(***************************************************************************)
(* The two sides of a stored database.                                     *)
(*                                                                         *)
(* What SqlRevisions shows on two sessions and three revisions, for every  *)
(* number of both: the files stay recoverable and the pointer implements   *)
(* RevisionRegister.                                                       *)
(*                                                                         *)
(* What SqlProvider shows on two epochs and seven requests, for any number *)
(* of epochs, requests and readers: readers end with their copy, and an    *)
(* answer is true of the store, unless what made it untrue is named.  An   *)
(* operation computes an outcome and responds with it; the proofs follow   *)
(* that shape: operators that change the copy or the readers keep a Draft, *)
(* every outcome is Fine, and a Fine response keeps the invariant.         *)
(***************************************************************************)
EXTENDS SqlProvider, SqlRevisions, TLAPS
-----------------------------------------------------------------------------
(* The chain of revisions *)
\* A session inside a write holds the lock, so there is only one of them.
LockHeld == \A s \in Sessions : at[s] = "replace" => lock = s

\* The pointer a session is about to replace is still the one it saw.
PointerSeen ==
  \A s \in Sessions : at[s] = "replace" /\ target[s] = "current" => base[s] = current

\* A session that writes the pointer has its revision on disk.
RevisionFirst ==
  \A s \in Sessions :
    at[s] \in {"write", "replace", "readback"} /\ target[s] = "current"
      => candidate[s] \in revisions

\* The inductive invariant: Recoverable alone forgets why the pointer's
\* revision exists, and the register why nobody moved the pointer meanwhile.
ChainIInv == ChainTypeOK /\ LockHeld /\ PointerSeen /\ RevisionFirst /\ Recoverable

\* The steps are typed, one action at a time.
LEMMA TypeStep ==
  ASSUME ChainTypeOK, NEW s \in Sessions, Session(s)
  PROVE  ChainTypeOK'
<1> USE ChainAssumption DEF ChainTypeOK, Pointers, Resting
<1>1. CASE OpenResource(s)
  BY <1>1 DEF OpenResource, Selected, Go, files
<1>2. CASE PublishCopy(s)
  BY <1>2 DEF PublishCopy, Go, files
<1>3. CASE CheckQuota(s)
  BY <1>3 DEF CheckQuota, FirstTarget, Fail, Go, files
<1>4. CASE BeginWrite(s)
  BY <1>4 DEF BeginWrite, Go
<1>5. CASE RefuseWrite(s)
  BY <1>5 DEF RefuseWrite, AfterWrite, Succeed, Fail, Go, files
<1>6. CASE CommitWrite(s)
  BY <1>6 DEF CommitWrite, Replace, AfterWrite, Succeed, Go
<1>7. CASE BreakWrite(s)
  <2>1. /\ current' \in Pointers /\ revisions' \subseteq Revisions
        /\ moved' \in [Sessions -> BOOLEAN]
    <3>1. CASE Replace(s)
      BY <3>1 DEF Replace
    <3>2. CASE UNCHANGED <<revisions, current, moved>>
      BY <3>2
    <3> QED
      BY <1>7, <3>1, <3>2 DEF BreakWrite
  <2>2. lock' = NoSession /\ at' = [at EXCEPT ![s] = "readback"]
    BY <1>7 DEF BreakWrite, ReleasedLock, Go
  <2>3. UNCHANGED <<leftover, target, goal, candidate, base, durable, reported>>
    BY <1>7 DEF BreakWrite, Go
  <2> QED
    BY <2>1, <2>2, <2>3
<1>8. CASE ReadBack(s)
  BY <1>8 DEF ReadBack, AfterWrite, Succeed, Fail, Go, files
<1>9. CASE Reread(s)
  BY <1>9 DEF Reread, Fail, Go, files
<1>10. CASE Load(s)
  BY <1>10 DEF Load, Succeed, Fail, files
<1>11. CASE Timeout(s)
  BY <1>11 DEF Timeout, Fail, files
<1>12. CASE DisconnectSession(s)
  BY <1>12 DEF DisconnectSession, End
<1>13. CASE Crash(s)
  BY <1>13 DEF Crash, End
<1> QED
  BY <1>1, <1>2, <1>3, <1>4, <1>5, <1>6, <1>7, <1>8, <1>9, <1>10, <1>11, <1>12, <1>13
     DEF Session, Request, Write

\* The other conjuncts of ChainIInv, one action at a time.
LEMMA InvStep ==
  ASSUME ChainIInv, NEW s \in Sessions, Session(s)
  PROVE  LockHeld' /\ PointerSeen' /\ RevisionFirst' /\ Recoverable'
<1> USE ChainAssumption DEF ChainIInv, ChainTypeOK, LockHeld, PointerSeen, RevisionFirst,
                            Recoverable, Pointers, Resting
<1>1. CASE OpenResource(s)
  BY <1>1 DEF OpenResource, Selected, Go, files
<1>2. CASE PublishCopy(s)
  BY <1>2 DEF PublishCopy, Go, files
<1>3. CASE CheckQuota(s)
  BY <1>3 DEF CheckQuota, FirstTarget, Fail, Go, files
<1>4. CASE BeginWrite(s)
  BY <1>4 DEF BeginWrite, LockFree, Conflict, Go
<1>5. CASE RefuseWrite(s)
  BY <1>5 DEF RefuseWrite, LockFree, Conflict, AfterWrite, Succeed, Fail, Go, files
<1>6. CASE CommitWrite(s)
  BY <1>6 DEF CommitWrite, Replace, AfterWrite, Succeed, Go
<1>7. CASE BreakWrite(s)
  BY <1>7 DEF BreakWrite, ReleasedLock, Replace, Go
<1>8. CASE ReadBack(s)
  BY <1>8 DEF ReadBack, FoundWritten, Written, AfterWrite, Succeed, Fail, Go, files
<1>9. CASE Reread(s)
  BY <1>9 DEF Reread, Fail, Go, files
<1>10. CASE Load(s)
  BY <1>10 DEF Load, Succeed, Fail, files
<1>11. CASE Timeout(s)
  BY <1>11 DEF Timeout, Fail, files
<1>12. CASE DisconnectSession(s)
  BY <1>12 DEF DisconnectSession, End
<1>13. CASE Crash(s)
  BY <1>13 DEF Crash, End
<1> QED
  BY <1>1, <1>2, <1>3, <1>4, <1>5, <1>6, <1>7, <1>8, <1>9, <1>10, <1>11, <1>12, <1>13
     DEF Session, Request, Write

\* ChainIInv is inductive.
LEMMA Inductive == ChainSpec => []ChainIInv
<1>1. ChainInit => ChainIInv
  BY ChainAssumption, ZenonT(60) DEF ChainInit, ChainIInv, ChainTypeOK, LockHeld, PointerSeen, RevisionFirst,
                         Recoverable, Pointers, Resting
<1>2. ChainIInv /\ [ChainNext]_chainVars => ChainIInv'
  <2> SUFFICES ASSUME ChainIInv, [ChainNext]_chainVars PROVE ChainIInv'
    OBVIOUS
  <2>1. CASE ChainNext
    BY <2>1, TypeStep, InvStep DEF ChainNext, ChainIInv
  <2>2. CASE UNCHANGED chainVars
    BY <2>2 DEF chainVars, files, chain, ChainIInv, ChainTypeOK, LockHeld, PointerSeen, RevisionFirst,
                Recoverable
  <2> QED
    BY <2>1, <2>2
<1> QED
  BY <1>1, <1>2, PTL DEF ChainSpec

\* Every reachable state is well typed.
THEOREM TypeCorrect == ChainSpec => []ChainTypeOK
BY Inductive, PTL DEF ChainIInv

\* The pointer and every revision a runtime was told is durable can be read,
\* whatever sessions crash, fail, time out or race.
THEOREM Recovers == ChainSpec => []Recoverable
BY Inductive, PTL DEF ChainIInv

\* Every step of a session sees, moves or forgets the pointer, or leaves the
\* register alone.
LEMMA RegisterStep ==
  ASSUME ChainIInv, NEW s \in Sessions, Session(s)
  PROVE  \/ Register!See(s) \/ Register!Move(s) \/ Register!Forget(s)
         \/ UNCHANGED <<current, base>>
<1> USE ChainAssumption DEF ChainIInv, ChainTypeOK, LockHeld, PointerSeen, Pointers, Resting
<1>1. CASE OpenResource(s)
  BY <1>1 DEF OpenResource, files, Register!See
<1>2. CASE PublishCopy(s)
  BY <1>2 DEF PublishCopy, files
<1>3. CASE CheckQuota(s)
  BY <1>3 DEF CheckQuota, Fail, files, Register!Forget
<1>4. CASE BeginWrite(s)
  BY <1>4 DEF BeginWrite
<1>5. CASE RefuseWrite(s)
  BY <1>5 DEF RefuseWrite, AfterWrite, Fail, files, Register!Forget
<1>6. CASE CommitWrite(s)
  BY <1>6 DEF CommitWrite, Replace, AfterWrite, Register!Move
<1>7. CASE BreakWrite(s)
  BY <1>7 DEF BreakWrite, Replace, Register!Move
<1>8. CASE ReadBack(s)
  BY <1>8 DEF ReadBack, FoundWritten, Written, AfterWrite, Fail, files,
              Register!See, Register!Forget
<1>9. CASE Reread(s)
  BY <1>9 DEF Reread, Fail, files, Register!See, Register!Forget
<1>10. CASE Load(s)
  BY <1>10 DEF Load, Fail, files, Register!Forget
<1>11. CASE Timeout(s)
  BY <1>11 DEF Timeout, Fail, files, Register!Forget
<1>12. CASE DisconnectSession(s)
  BY <1>12 DEF DisconnectSession, End, Register!Forget
<1>13. CASE Crash(s)
  BY <1>13 DEF Crash, End, Register!Forget
<1> QED
  BY <1>1, <1>2, <1>3, <1>4, <1>5, <1>6, <1>7, <1>8, <1>9, <1>10, <1>11, <1>12, <1>13
     DEF Session, Request, Write

\* The sessions, their files, their lock and their crashes implement the
\* compare-and-set register: no publication overwrites one it did not see.
THEOREM Implements == ChainSpec => CompareAndSet
<1>1. ChainInit => Register!Init
  BY DEF ChainInit, Register!Init
<1>2. ChainIInv /\ [ChainNext]_chainVars => [Register!Next]_<<current, base>>
  <2> SUFFICES ASSUME ChainIInv, [ChainNext]_chainVars PROVE [Register!Next]_<<current, base>>
    OBVIOUS
  <2>1. CASE ChainNext
    <3>1. PICK s \in Sessions : Session(s)
      BY <2>1 DEF ChainNext
    <3> QED
      BY <3>1, RegisterStep DEF Register!Next
  <2>2. CASE UNCHANGED chainVars
    BY <2>2 DEF chainVars, files, chain
  <2> QED
    BY <2>1, <2>2
<1> QED
  BY <1>1, <1>2, Inductive, PTL DEF ChainSpec, CompareAndSet, Register!Spec
-----------------------------------------------------------------------------
(* A copy and its readers *)

Copies ==
  [open : {TRUE}, durable : SUBSET Int, saved : SUBSET Int, dirty : SUBSET Int,
   txn : BOOLEAN, seen : SUBSET {"write", "begin", "commit", "rollback", "returning"}]
Readers ==
  [id : Int, epoch : Epochs, cursor : BOOLEAN, writing : BOOLEAN, made : SUBSET Int,
   detected : BOOLEAN, status : Int]

\* What is stored was saved before; what is not saved yet is apart from both.  A
\* reader that writes has a cursor and what it made is not saved yet, nor made by
\* another; one that does not write has made nothing an answer could be about.
Good(c, rs, e) ==
  /\ c \in Copies /\ rs \subseteq Readers
  /\ c.durable \subseteq c.saved /\ c.saved \cap c.dirty = {}
  /\ \A r \in rs : r.epoch = e =>
       /\ r.writing => r.cursor
       /\ r.made \subseteq c.dirty /\ (~r.writing => r.made = {})
  /\ \A r, x \in rs : r.epoch = e /\ x.epoch = e /\ r # x => r.made \cap x.made = {}

\* The readers of the other epochs are the ones there were.
Apart(rs, e) ==
  /\ \A r \in rs : r.epoch # e => r \in readers
  /\ \A r \in readers : r.epoch # e => r \in rs

\* What becomes of readers when some are closed or have no more part in a write.
Quieter(new, old, e) ==
  /\ \A x \in new : \/ x \in old
                    \/ x \in Readers /\ x.epoch = e /\ x.made = {} /\ ~x.writing
  /\ \A r \in old : r.epoch # e => r \in new

\* The writes a connection may hold after an operation.
Old(e) == connections[e].saved \cup connections[e].dirty \cup {left}

\* What an operation on connection e works on.
Draft(e, c, rs) ==
  /\ Good(c, rs, e) /\ Apart(rs, e)
  /\ connections[e].durable \subseteq c.durable
  /\ c.saved \cup c.dirty \subseteq Old(e)

\* An answer outside a transaction is true, or something is to blame.
Honest(e, o) ==
  /\ o.ok => o.made \subseteq o.c.durable \/ Causes(o, e) \cap {"cached", "beside"} # {}
  /\ ~o.ok => \/ o.made \cap (o.c.saved \cup o.c.dirty) = {}
              \/ o.why \cap {"late", "limit", "cached"} # {}

\* What an operation on connection e has to end with.
Fine(e, o) ==
  /\ o = [c |-> o.c, rs |-> o.rs, ok |-> o.ok, made |-> o.made, why |-> o.why]
  /\ Draft(e, o.c, o.rs) /\ o.made \subseteq Old(e)
  /\ ~o.c.txn => Honest(e, o)

\* Quieter readers disturb neither the copy nor the readers of other epochs.
LEMMA QuietDraft ==
  ASSUME NEW e, NEW c, NEW old, NEW new, Draft(e, c, old), Quieter(new, old, e)
  PROVE  Draft(e, c, new)
<1>1. new \subseteq Readers
  BY DEF Draft, Good, Quieter
<1>2. ASSUME NEW r \in new, r.epoch = e
      PROVE  (r.writing => r.cursor) /\ r.made \subseteq c.dirty /\ (~r.writing => r.made = {})
  BY <1>2 DEF Draft, Good, Quieter
<1>3. ASSUME NEW r \in new, NEW x \in new, r.epoch = e, x.epoch = e, r # x
      PROVE  r.made \cap x.made = {}
  BY <1>3 DEF Draft, Good, Quieter
<1>4. Good(c, new, e)
  BY <1>1, <1>2, <1>3 DEF Draft, Good
<1>5. Apart(new, e)
  BY DEF Draft, Apart, Quieter
<1> QED
  BY <1>4, <1>5 DEF Draft
-----------------------------------------------------------------------------
(* SQLite *)

\* A copy that is opened holds what is stored and nothing else.
LEMMA OpenedCopy ==
  ASSUME NEW kept \in SUBSET Int
  PROVE  /\ Opened(kept) \in Copies
         /\ Opened(kept).open /\ Opened(kept).txn = FALSE
         /\ Opened(kept).durable = kept /\ Opened(kept).saved = kept
         /\ Opened(kept).dirty = {}
BY DEF Opened, Copies

\* A copy is saved only outside a transaction and with no writing reader, and
\* then all of it is.
LEMMA SettledCopy ==
  ASSUME NEW c \in Copies, NEW rs, NEW e
  PROVE  /\ Settled(c, rs, e) \in Copies
         /\ Settled(c, rs, e).txn = c.txn /\ Settled(c, rs, e).durable = c.durable
         /\ Settled(c, rs, e).saved \cup Settled(c, rs, e).dirty = c.saved \cup c.dirty
         /\ c.saved \subseteq Settled(c, rs, e).saved
         /\ c.txn \/ Writers(rs, e) # {} => Settled(c, rs, e) = c
         /\ ~(c.txn \/ Writers(rs, e) # {}) =>
              Settled(c, rs, e).saved = c.saved \cup c.dirty /\ Settled(c, rs, e).dirty = {}
<1>1. CASE c.txn \/ Writers(rs, e) # {}
  BY <1>1 DEF Settled
<1>2. CASE ~(c.txn \/ Writers(rs, e) # {})
  BY <1>2 DEF Settled, Copies
<1> QED
  BY <1>1, <1>2

\* Settling keeps a draft.
LEMMA SettledDraft ==
  ASSUME NEW e, NEW c, NEW rs, Draft(e, c, rs)
  PROVE  Draft(e, Settled(c, rs, e), rs)
<1> DEFINE d == Settled(c, rs, e)
<1>1. c \in Copies
  BY DEF Draft, Good
<1>2. CASE c.txn \/ Writers(rs, e) # {}
  BY <1>1, <1>2, SettledCopy
<1>3. CASE ~(c.txn \/ Writers(rs, e) # {})
  <2>1. /\ d \in Copies /\ d.durable = c.durable
        /\ d.saved = c.saved \cup c.dirty /\ d.dirty = {}
    BY <1>1, <1>3, SettledCopy
  <2> HIDE DEF d
  <2>2. \A r \in rs : r.epoch = e => ~r.writing
    BY <1>3 DEF Writers
  <2>3. Good(d, rs, e)
    BY <2>1, <2>2 DEF Draft, Good
  <2> QED
    BY <2>1, <2>3 DEF Draft, d
<1> QED
  BY <1>2, <1>3

\* A rollback drops what is not saved and keeps what is.
LEMMA RolledBackCopy ==
  ASSUME NEW c \in Copies
  PROVE  /\ RolledBack(c) \in Copies
         /\ RolledBack(c).txn = FALSE /\ RolledBack(c).dirty = {}
         /\ RolledBack(c).durable = c.durable /\ RolledBack(c).saved = c.saved
BY DEF RolledBack, Copies

\* A reader of an aborted transaction has written nothing.
LEMMA AbortedReaders ==
  ASSUME NEW rs, NEW e, rs \subseteq Readers
  PROVE  /\ Quieter(Aborted(rs, e), rs, e)
         /\ \A x \in Aborted(rs, e) : x.epoch = e => ~x.writing /\ x.made = {}
<1> DEFINE A(r) == IF r.epoch = e THEN [r EXCEPT !.writing = FALSE, !.made = Nothing] ELSE r
<1>1. \A r \in rs : r.epoch # e => A(r) = r
  OBVIOUS
<1>2. \A r \in rs : r.epoch = e =>
        A(r) \in Readers /\ A(r).epoch = e /\ A(r).made = {} /\ ~A(r).writing
  BY DEF Readers, Nothing
<1> HIDE DEF A
<1>3. (\A x \in Aborted(rs, e) : \E r \in rs : x = A(r)) /\ \A r \in rs : A(r) \in Aborted(rs, e)
  BY DEF Aborted, A
<1>4. \A x \in Aborted(rs, e) : \/ x \in rs /\ x.epoch # e
                                \/ x \in Readers /\ x.epoch = e /\ x.made = {} /\ ~x.writing
  <2> SUFFICES ASSUME NEW x \in Aborted(rs, e)
               PROVE  \/ x \in rs /\ x.epoch # e
                      \/ x \in Readers /\ x.epoch = e /\ x.made = {} /\ ~x.writing
    OBVIOUS
  <2>1. PICK r \in rs : x = A(r)
    BY <1>3
  <2> QED
    BY <1>1, <1>2, <2>1
<1>5. \A r \in rs : r.epoch # e => r \in Aborted(rs, e)
  BY <1>1, <1>3
<1> QED
  BY <1>4, <1>5 DEF Quieter

\* A rollback keeps a draft too.
LEMMA RolledBackDraft ==
  ASSUME NEW e, NEW c, NEW rs, Draft(e, c, rs)
  PROVE  Draft(e, RolledBack(c), Aborted(rs, e))
<1> DEFINE ab == Aborted(rs, e)
           d == RolledBack(c)
<1>1. Quieter(ab, rs, e) /\ \A x \in ab : x.epoch = e => ~x.writing /\ x.made = {}
  BY AbortedReaders DEF Draft, Good
<1>2. Draft(e, c, ab)
  BY <1>1, QuietDraft
<1>3. /\ d \in Copies /\ d.durable = c.durable /\ d.saved = c.saved /\ d.dirty = {}
  BY RolledBackCopy DEF Draft, Good
<1> HIDE DEF ab, d
<1>4. Good(d, ab, e)
  BY <1>1, <1>2, <1>3 DEF Draft, Good
<1> QED
  BY <1>2, <1>3, <1>4 DEF Draft, ab, d

\* So does either outcome of a failed statement, and it makes nothing.
LEMMA UndoneDraft ==
  ASSUME NEW e, NEW c, NEW rs, Draft(e, c, rs), NEW u \in Undone(c, rs, e)
  PROVE  /\ u = [c |-> u.c, rs |-> u.rs] /\ Draft(e, u.c, u.rs)
         /\ u.c.saved = c.saved /\ u.c.durable = c.durable /\ u.c.dirty \subseteq c.dirty
         /\ u.c.dirty = {} \/ Lost(c, u.c) = {}
         /\ Lost(c, u.c) \subseteq c.dirty
<1>0. c \in Copies
  BY DEF Draft, Good
<1>1. \/ u = [c |-> c, rs |-> rs]
      \/ u = [c |-> RolledBack(c), rs |-> Aborted(rs, e)]
  BY DEF Undone
<1>2. Lost(c, u.c) \subseteq c.dirty
  BY DEF Lost
<1>3. CASE u = [c |-> c, rs |-> rs]
  <2>1. u.c = c /\ u.rs = rs
    BY <1>3
  <2>2. Lost(c, u.c) = {}
    BY <2>1 DEF Lost
  <2> QED
    BY <1>2, <1>3, <2>1, <2>2
<1>4. CASE u = [c |-> RolledBack(c), rs |-> Aborted(rs, e)]
  <2>1. u.c = RolledBack(c) /\ u.rs = Aborted(rs, e) /\ u = [c |-> u.c, rs |-> u.rs]
    BY <1>4
  <2>2. Draft(e, u.c, u.rs)
    BY <2>1, RolledBackDraft
  <2>3. u.c.durable = c.durable /\ u.c.saved = c.saved /\ u.c.dirty = {}
    BY <1>0, <2>1, RolledBackCopy
  <2> QED
    BY <1>2, <2>1, <2>2, <2>3
<1> QED
  BY <1>1, <1>3, <1>4
-----------------------------------------------------------------------------
(* What the operations share *)

\* An operation that ends on a draft is fine when its answer is true.
LEMMA EndedFine ==
  ASSUME NEW e, NEW c, NEW rs, NEW ok \in BOOLEAN, NEW made, Draft(e, c, rs), made \subseteq Old(e),
         ok /\ ~c.txn /\ Writers(rs, e) = {} => made \subseteq c.durable,
         ~ok /\ ~c.txn => made \cap (c.saved \cup c.dirty) = {}
  PROVE  Fine(e, Ended([c |-> c, rs |-> rs], ok, made))
<1> DEFINE o == Ended([c |-> c, rs |-> rs], ok, made)
<1>1. /\ o = [c |-> o.c, rs |-> o.rs, ok |-> o.ok, made |-> o.made, why |-> o.why]
      /\ o.c = c /\ o.rs = rs /\ o.ok = ok /\ o.made = made /\ o.why = {}
  BY DEF Ended
<1> HIDE DEF o
<1>2. o.ok /\ Writers(rs, e) # {} => "beside" \in Causes(o, e)
  BY <1>1 DEF Causes
<1>3. ~c.txn => Honest(e, o)
  BY <1>1, <1>2 DEF Honest
<1>4. Fine(e, o)
  BY <1>1, <1>3 DEF Fine
<1> QED
  BY <1>4 DEF o

\* An answer with a cause that its kind allows for is fine whatever it is about.
LEMMA BecauseFine ==
  ASSUME NEW e, NEW c, NEW rs, NEW ok \in BOOLEAN, NEW made, Draft(e, c, rs), made \subseteq Old(e),
         NEW cause \in {"late", "limit", "cached"}, ok => cause = "cached"
  PROVE  Fine(e, Because(cause, Ended([c |-> c, rs |-> rs], ok, made)))
<1> DEFINE o == Because(cause, Ended([c |-> c, rs |-> rs], ok, made))
<1>1. /\ o = [c |-> o.c, rs |-> o.rs, ok |-> o.ok, made |-> o.made, why |-> o.why]
      /\ o.c = c /\ o.rs = rs /\ o.ok = ok /\ o.made = made /\ o.why = {cause}
  BY DEF Ended, Because
<1> HIDE DEF o
<1>2. cause \in o.why /\ cause \in Causes(o, e)
  BY <1>1 DEF Causes
<1>3. Honest(e, o)
  BY <1>1, <1>2 DEF Honest
<1>4. Fine(e, o)
  BY <1>1, <1>3 DEF Fine
<1> QED
  BY <1>4 DEF o

\* _restore_durable closes every reader of the copy and opens what is stored.
LEMMA RestoredDraft ==
  ASSUME NEW e, NEW c, NEW rs, Draft(e, c, rs)
  PROVE  LET s == Restored(c, rs, e) IN
         /\ s = [c |-> s.c, rs |-> s.rs] /\ Draft(e, s.c, s.rs)
         /\ s.c.saved = c.durable /\ s.c.dirty = {} /\ s.c.durable = c.durable
<1> DEFINE d == Opened(c.durable)
           new == ReadersLeft(rs, {e})
<1>1. new \subseteq rs /\ (\A x \in new : x.epoch # e) /\ (\A r \in rs : r.epoch # e => r \in new)
  BY DEF ReadersLeft
<1>2. Quieter(new, rs, e)
  BY <1>1 DEF Quieter
<1>3. c.durable \in SUBSET Int
  BY DEF Draft, Good, Copies
<1>4. d \in Copies /\ d.durable = c.durable /\ d.saved = c.durable /\ d.dirty = {}
  BY <1>3, OpenedCopy
<1> HIDE DEF d, new
<1>5. Draft(e, c, new)
  BY <1>2, QuietDraft
<1>6. Good(d, new, e)
  BY <1>1, <1>4, <1>5 DEF Draft, Good
<1>7. Draft(e, d, new)
  BY <1>4, <1>5, <1>6 DEF Draft, Good
<1> QED
  BY <1>4, <1>7 DEF Restored, d, new

\* An operation that fails and restores the copy is fine: what it did was not
\* stored before.
LEMMA RestoredFine ==
  ASSUME NEW e, NEW c, NEW rs, Draft(e, c, rs), NEW made, made \subseteq Old(e),
         made \cap c.durable = {}
  PROVE  Fine(e, Ended(Restored(c, rs, e), FALSE, made))
<1> DEFINE s == Restored(c, rs, e)
<1>1. /\ s = [c |-> s.c, rs |-> s.rs] /\ Draft(e, s.c, s.rs)
      /\ s.c.saved = c.durable /\ s.c.dirty = {}
  BY RestoredDraft
<1> HIDE DEF s
<1>2. Fine(e, Ended([c |-> s.c, rs |-> s.rs], FALSE, made))
  BY <1>1, EndedFine
<1>3. Fine(e, Ended(s, FALSE, made))
  BY <1>1, <1>2
<1> QED
  BY <1>3 DEF s

\* An error leaves behind what it should.
LEMMA FailedFine ==
  ASSUME NEW e, NEW c, NEW rs, NEW probe \in BOOLEAN, NEW made, Draft(e, c, rs),
         made \subseteq Old(e), made \cap c.durable = {}
  PROVE  Fine(e, Failed([c |-> c, rs |-> rs], e, probe, made))
<1> DEFINE s == [c |-> c, rs |-> rs]
<1>1. s.c = c /\ s.rs = rs
  OBVIOUS
<1>2. CASE ~probe
  <2>1. Failed(s, e, probe, made) = Because("cached", Ended(s, FALSE, made))
    BY <1>2 DEF Failed
  <2> QED
    BY <2>1, BecauseFine
<1>3. CASE probe /\ c.txn
  <2>1. Failed(s, e, probe, made) = Ended(s, FALSE, made)
    BY <1>1, <1>3 DEF Failed
  <2> QED
    BY <1>3, <2>1, EndedFine
<1>4. CASE probe /\ ~c.txn
  <2>1. Failed(s, e, probe, made) = Ended(Restored(c, rs, e), FALSE, made)
    BY <1>1, <1>4 DEF Failed
  <2> QED
    BY <2>1, RestoredFine
<1> QED
  BY <1>2, <1>3, <1>4

\* Publishing is fine either way, if what it is about is saved by then; a
\* success keeps the readers.
LEMMA PublishFine ==
  ASSUME NEW e, NEW c, NEW rs, NEW made, Draft(e, c, rs), made \subseteq Old(e),
         made \cap c.durable = {}, ~c.txn /\ Writers(rs, e) = {} => made \subseteq c.saved,
         NEW o \in Publish([c |-> c, rs |-> rs], e, made)
  PROVE  Fine(e, o) /\ (o.ok => o.rs = rs)
<1> DEFINE s == [c |-> c, rs |-> rs]
           d == [c EXCEPT !.durable = c.saved]
<1>1. s.c = c /\ s.rs = rs
  OBVIOUS
<1>2. [s EXCEPT !.c = [@ EXCEPT !.durable = s.c.saved]] = [c |-> d, rs |-> rs]
  OBVIOUS
<1>3. /\ d \in Copies /\ d.durable = c.saved /\ d.saved = c.saved
      /\ d.dirty = c.dirty /\ d.txn = c.txn
  BY DEF Draft, Good, Copies
<1> HIDE DEF d
<1>4. Draft(e, d, rs)
  <2>1. Good(d, rs, e)
    BY <1>3 DEF Draft, Good
  <2> QED
    BY <1>3, <2>1 DEF Draft, Good
<1>5. \/ c.txn /\ o = Ended(s, TRUE, made)
      \/ o = Because("late", Ended(s, FALSE, made))
      \/ c.saved = c.durable /\ o = Ended(s, TRUE, made)
      \/ o = Ended([c |-> d, rs |-> rs], TRUE, made)
      \/ o = Ended(Restored(c, rs, e), FALSE, made)
  <2> HIDE DEF s
  <2>1. o \in Publish(s, e, made)
    BY DEF s
  <2>2. \/ s.c.txn /\ o = Ended(s, TRUE, made)
        \/ o = Because("late", Ended(s, FALSE, made))
        \/ s.c.saved = s.c.durable /\ o = Ended(s, TRUE, made)
        \/ o = Ended([s EXCEPT !.c = [@ EXCEPT !.durable = s.c.saved]], TRUE, made)
        \/ o = Ended(Restored(s.c, s.rs, e), FALSE, made)
    BY <2>1 DEF Publish
  <2> QED
    BY <1>1, <1>2, <2>2 DEF s
<1>6. CASE c.txn /\ o = Ended(s, TRUE, made)
  <2>1. Fine(e, o)
    BY <1>6, EndedFine
  <2> QED
    BY <1>6, <2>1 DEF Ended
<1>7. CASE o = Because("late", Ended(s, FALSE, made))
  <2>1. Fine(e, o)
    BY <1>7, BecauseFine
  <2>2. o.ok = FALSE
    BY <1>7 DEF Ended, Because
  <2> QED
    BY <2>1, <2>2
<1>8. CASE c.saved = c.durable /\ o = Ended(s, TRUE, made)
  <2>1. Fine(e, o)
    BY <1>8, EndedFine
  <2> QED
    BY <1>8, <2>1 DEF Ended
<1>9. CASE o = Ended([c |-> d, rs |-> rs], TRUE, made)
  <2>1. ~d.txn /\ Writers(rs, e) = {} => made \subseteq d.durable
    BY <1>3
  <2>2. Fine(e, Ended([c |-> d, rs |-> rs], TRUE, made))
    BY <1>4, <2>1, EndedFine
  <2> QED
    BY <1>9, <2>2 DEF Ended
<1>10. CASE o = Ended(Restored(c, rs, e), FALSE, made)
  <2>1. Fine(e, o)
    BY <1>10, RestoredFine
  <2>2. o.ok = FALSE
    BY <1>10 DEF Ended
  <2> QED
    BY <2>1, <2>2
<1> QED
  BY <1>5, <1>6, <1>7, <1>8, <1>9, <1>10
-----------------------------------------------------------------------------
(* The state *)

TypeOK ==
  /\ left \in Int /\ epoch \in Epochs
  /\ connections \in [Epochs -> Copies \cup {Closed}]
  /\ readers \subseteq Readers
  /\ stored \subseteq SUBSET Int
  /\ promised \in [Epochs -> SUBSET Int] /\ refused \in [Epochs -> SUBSET Int]
  /\ blamed = [e \in Epochs |-> blamed[e]]

\* A connection that is closed has answered nothing, an open one belongs to this
\* game or to a later one, and has its readers.
OpenInv ==
  \A e \in Epochs :
    /\ ~connections[e].open => promised[e] = {} /\ refused[e] = {}
    /\ connections[e].open => e >= epoch /\ Good(connections[e], readers, e)

ReaderInv == \A r \in readers : connections[r.epoch].open

\* The number of the next write is a new one.
Above(ws) == \A w \in ws : w > left
FreshInv ==
  /\ \A revision \in stored : Above(revision)
  /\ \A e \in Epochs : connections[e].open =>
       /\ Above(connections[e].saved) /\ Above(connections[e].dirty) /\ Above(refused[e])

\* What was refused is not even waiting for the end of a transaction or of a cursor.
AnswerInv ==
  \A e \in Epochs : connections[e].open =>
    /\ promised[e] \subseteq connections[e].durable \cup BlamedOn(e, {"cached", "beside"})
    /\ refused[e] \cap (connections[e].saved \cup connections[e].dirty)
         \subseteq BlamedOn(e, {"late", "limit", "cached"})

IInv == TypeOK /\ OpenInv /\ ReaderInv /\ FreshInv /\ AnswerInv

\* An open connection of a reachable state is where an operation starts.
LEMMA OpenDraft ==
  ASSUME IInv, NEW e \in Epochs, connections[e].open
  PROVE  /\ Draft(e, connections[e], readers) /\ left \in Int
         /\ left \notin connections[e].saved /\ left \notin connections[e].dirty
         /\ connections[e] \in Copies
         /\ connections[e].durable \subseteq connections[e].saved
         /\ connections[e].saved \cap connections[e].dirty = {}
<1>1. Good(connections[e], readers, e)
  BY DEF IInv, OpenInv
<1>2. left \notin connections[e].saved /\ left \notin connections[e].dirty /\ left \in Int
  BY DEF IInv, TypeOK, FreshInv, Above
<1> QED
  BY <1>1, <1>2 DEF Draft, Good, Apart, Old

\* What is blamed stays blamed, and an answer that is not true is.
LEMMA Blames ==
  ASSUME IInv, NEW e \in Epochs, NEW o, Respond(e, o), NEW causes
  PROVE  /\ BlamedOn(e, causes) \subseteq BlamedOn(e, causes)'
         /\ ~o.c.txn /\ Causes(o, e) \cap causes # {} => o.made \subseteq BlamedOn(e, causes)'
         /\ \A f \in Epochs \ {e} : BlamedOn(f, causes) = BlamedOn(f, causes)'
<1> DEFINE new == [write : o.made, cause : Causes(o, e)]
<1>1. blamed' = [blamed EXCEPT ![e] = IF o.c.txn THEN @ ELSE @ \cup new]
  BY DEF Respond
<1>2. /\ blamed'[e] = IF o.c.txn THEN blamed[e] ELSE blamed[e] \cup new
      /\ \A f \in Epochs \ {e} : blamed'[f] = blamed[f]
  BY <1>1 DEF IInv, TypeOK
<1>3. BlamedOn(e, causes) \subseteq BlamedOn(e, causes)'
  BY <1>2 DEF BlamedOn
<1>4. ASSUME ~o.c.txn, NEW cause \in Causes(o, e) \cap causes, NEW w \in o.made
      PROVE  w \in BlamedOn(e, causes)'
  <2>1. [write |-> w, cause |-> cause] \in new
    BY <1>4
  <2>2. [write |-> w, cause |-> cause] \in blamed'[e]
    BY <1>2, <1>4, <2>1
  <2> QED
    BY <1>4, <2>2 DEF BlamedOn
<1>5. \A f \in Epochs \ {e} : BlamedOn(f, causes) = BlamedOn(f, causes)'
  BY <1>2 DEF BlamedOn
<1> QED
  BY <1>3, <1>4, <1>5

\* A response leaves the answers true that a connection has given.
LEMMA AnswersStay ==
  ASSUME IInv, NEW e \in Epochs, connections[e].open, NEW o, Fine(e, o), Respond(e, o)
  PROVE  /\ promised'[e] \subseteq o.c.durable \cup BlamedOn(e, {"cached", "beside"})'
         /\ refused'[e] \cap (o.c.saved \cup o.c.dirty)
              \subseteq BlamedOn(e, {"late", "limit", "cached"})'
<1> DEFINE B1 == BlamedOn(e, {"cached", "beside"})
           B2 == BlamedOn(e, {"late", "limit", "cached"})
<1>1. /\ promised'[e] = IF o.ok /\ ~o.c.txn THEN promised[e] \cup o.made ELSE promised[e]
      /\ refused'[e] = IF o.ok \/ o.c.txn THEN refused[e] ELSE refused[e] \cup o.made
  BY DEF Respond, IInv, TypeOK
<1>2. /\ promised[e] \subseteq connections[e].durable \cup B1
      /\ refused[e] \cap (connections[e].saved \cup connections[e].dirty) \subseteq B2
  BY DEF IInv, AnswerInv
<1>3. B1 \subseteq B1' /\ B2 \subseteq B2'
  BY Blames
<1>4. o.ok /\ ~o.c.txn => o.made \subseteq o.c.durable \cup B1'
  <2> SUFFICES ASSUME o.ok, ~o.c.txn, ~(o.made \subseteq o.c.durable)
               PROVE  o.made \subseteq B1'
    OBVIOUS
  <2>1. Causes(o, e) \cap {"cached", "beside"} # {}
    BY DEF Fine, Honest
  <2> QED
    BY <2>1, Blames
<1>5. ~o.ok /\ ~o.c.txn => o.made \cap (o.c.saved \cup o.c.dirty) \subseteq B2'
  <2> SUFFICES ASSUME ~o.ok, ~o.c.txn, o.made \cap (o.c.saved \cup o.c.dirty) # {}
               PROVE  o.made \subseteq B2'
    OBVIOUS
  <2>1. o.why \cap {"late", "limit", "cached"} # {}
    BY DEF Fine, Honest
  <2>2. Causes(o, e) \cap {"late", "limit", "cached"} # {}
    BY <2>1 DEF Causes
  <2> QED
    BY <2>2, Blames
<1>6. connections[e].durable \subseteq o.c.durable
  BY DEF Fine, Draft
<1>7. \A w \in refused[e] : w # left
  BY DEF IInv, TypeOK, FreshInv, Above
<1>8. o.c.saved \cup o.c.dirty \subseteq connections[e].saved \cup connections[e].dirty \cup {left}
  BY DEF Fine, Draft, Old
<1> HIDE DEF B1, B2
<1>9. promised'[e] \subseteq o.c.durable \cup B1'
  BY <1>1, <1>2, <1>3, <1>4, <1>6
<1>10. refused'[e] \cap (o.c.saved \cup o.c.dirty) \subseteq B2'
  BY <1>1, <1>2, <1>3, <1>5, <1>7, <1>8
<1> QED
  BY <1>9, <1>10 DEF B1, B2

\* Responding with what an operation has to end with keeps the invariant.
LEMMA RespondStep ==
  ASSUME IInv, NEW e \in Epochs, connections[e].open, NEW o, Fine(e, o), Respond(e, o)
  PROVE  IInv'
<1>1. /\ o.c \in Copies /\ o.c.open /\ o.rs \subseteq Readers /\ Good(o.c, o.rs, e)
      /\ o.c.durable \in SUBSET Int /\ o.c.durable \subseteq o.c.saved
  BY DEF Fine, Draft, Good, Copies
<1>2. /\ connections' = [connections EXCEPT ![e] = o.c] /\ readers' = o.rs
      /\ stored' = stored \cup {o.c.durable}
      /\ left' = left - 1 /\ epoch' = epoch
  BY DEF Respond
<1>3. /\ promised' = [promised EXCEPT ![e] = IF o.ok /\ ~o.c.txn THEN @ \cup o.made ELSE @]
      /\ refused' = [refused EXCEPT ![e] = IF o.ok \/ o.c.txn THEN @ ELSE @ \cup o.made]
      /\ blamed' = [blamed EXCEPT ![e] =
                      IF o.c.txn THEN @ ELSE @ \cup [write : o.made, cause : Causes(o, e)]]
  BY DEF Respond
<1>4. left \in Int
  BY DEF IInv, TypeOK
<1>5. /\ connections'[e] = o.c
      /\ \A f \in Epochs \ {e} : /\ connections'[f] = connections[f]
                                 /\ promised'[f] = promised[f] /\ refused'[f] = refused[f]
  BY <1>2, <1>3 DEF IInv, TypeOK
<1>6. /\ connections[e].saved \subseteq Int /\ connections[e].dirty \subseteq Int
      /\ Above(connections[e].saved) /\ Above(connections[e].dirty) /\ Above(refused[e])
  BY DEF IInv, OpenInv, Good, Copies, FreshInv
<1>7. o.made \subseteq Int /\ \A w \in o.made \cup o.c.saved \cup o.c.dirty : w > left - 1
  BY <1>4, <1>6 DEF Fine, Draft, Old, Above
<1>8. TypeOK'
  <2>1. promised' \in [Epochs -> SUBSET Int] /\ refused' \in [Epochs -> SUBSET Int]
    BY <1>3, <1>7 DEF IInv, TypeOK
  <2>2. connections' \in [Epochs -> Copies \cup {Closed}]
    BY <1>1, <1>2 DEF IInv, TypeOK
  <2>3. blamed' = [f \in Epochs |-> blamed'[f]]
    BY <1>3 DEF IInv, TypeOK
  <2>4. left' \in Int /\ epoch' \in Epochs /\ readers' \subseteq Readers
    BY <1>1, <1>2 DEF IInv, TypeOK
  <2>5. stored' \subseteq SUBSET Int
    <3>1. stored \subseteq SUBSET Int
      BY DEF IInv, TypeOK
    <3> QED
      BY <1>1, <1>2, <3>1
  <2> QED
    BY <2>1, <2>2, <2>3, <2>4, <2>5 DEF TypeOK
<1>9. ReaderInv'
  <2> SUFFICES ASSUME NEW r \in o.rs PROVE connections'[r.epoch].open
    BY <1>2 DEF ReaderInv
  <2>1. (r.epoch # e => r \in readers) /\ r.epoch \in Epochs
    BY <1>1 DEF Fine, Draft, Apart, Readers
  <2> QED
    BY <1>1, <1>5, <2>1 DEF IInv, ReaderInv
<1>10. ASSUME NEW f \in Epochs, f # e, connections[f].open
       PROVE  Good(connections[f], o.rs, f)
  <2>1. Good(connections[f], readers, f)
    BY <1>10 DEF IInv, OpenInv
  <2>2. \A r \in o.rs : r.epoch = f => r \in readers
    BY <1>10 DEF Fine, Draft, Apart
  <2> QED
    BY <1>1, <2>1, <2>2 DEF Good
<1>11. OpenInv'
  BY <1>1, <1>2, <1>5, <1>10 DEF IInv, OpenInv
<1>12. FreshInv'
  <2>1. ASSUME NEW revision \in stored' PROVE Above(revision)'
    <3>1. CASE revision \in stored
      <4>1. revision \subseteq Int /\ Above(revision)
        BY <3>1 DEF IInv, TypeOK, FreshInv
      <4> QED
        BY <1>2, <1>4, <4>1 DEF Above
    <3>2. CASE revision = o.c.durable
      BY <1>1, <1>2, <1>7, <3>2 DEF Above
    <3> QED
      BY <1>2, <2>1, <3>1, <3>2
  <2>2. Above(connections[e].saved)' /\ Above(connections[e].dirty)'
    BY <1>2, <1>5, <1>7 DEF Above
  <2>3. Above(refused[e])'
    <3>1. refused[e] \subseteq Int
      BY DEF IInv, TypeOK
    <3>2. refused'[e] \subseteq refused[e] \cup o.made
      BY <1>3 DEF IInv, TypeOK
    <3> QED
      BY <1>2, <1>4, <1>6, <1>7, <3>1, <3>2 DEF Above
  <2>4. ASSUME NEW f \in Epochs, f # e, connections[f].open
        PROVE  /\ Above(connections[f].saved)' /\ Above(connections[f].dirty)'
               /\ Above(refused[f])'
    <3>1. /\ connections[f].saved \subseteq Int /\ connections[f].dirty \subseteq Int
          /\ refused[f] \subseteq Int
      BY <2>4 DEF IInv, TypeOK, OpenInv, Good, Copies
    <3>2. Above(connections[f].saved) /\ Above(connections[f].dirty) /\ Above(refused[f])
      BY <2>4 DEF IInv, FreshInv
    <3> QED
      BY <1>2, <1>4, <1>5, <2>4, <3>1, <3>2 DEF Above
  <2> QED
    <3>1. \A f \in Epochs : connections'[f].open => f = e \/ connections[f].open
      BY <1>5
    <3> QED
      BY <2>1, <2>2, <2>3, <2>4, <3>1 DEF FreshInv
<1>13. AnswerInv'
  <2> SUFFICES ASSUME NEW f \in Epochs, connections'[f].open
               PROVE  /\ promised'[f] \subseteq
                           connections'[f].durable \cup BlamedOn(f, {"cached", "beside"})'
                      /\ refused'[f] \cap (connections'[f].saved \cup connections'[f].dirty)
                           \subseteq BlamedOn(f, {"late", "limit", "cached"})'
    BY DEF AnswerInv
  <2>1. CASE f = e
    BY <1>5, <2>1, AnswersStay
  <2>2. CASE f # e
    <3>1. /\ BlamedOn(f, {"cached", "beside"}) = BlamedOn(f, {"cached", "beside"})'
          /\ BlamedOn(f, {"late", "limit", "cached"}) = BlamedOn(f, {"late", "limit", "cached"})'
      BY <2>2, Blames
    <3> QED
      BY <1>5, <2>2, <3>1 DEF IInv, AnswerInv
  <2> QED
    BY <2>1, <2>2
<1> QED
  BY <1>8, <1>9, <1>11, <1>12, <1>13 DEF IInv
-----------------------------------------------------------------------------
(* Statements *)

\* A copy that differs in what no answer is about is as good a draft.
LEMMA SameDraft ==
  ASSUME NEW e, NEW c, NEW d \in Copies, NEW rs, Draft(e, c, rs),
         d.durable = c.durable, d.saved = c.saved, d.dirty = c.dirty
  PROVE  Draft(e, d, rs)
<1>1. Good(d, rs, e)
  BY DEF Draft, Good
<1> QED
  BY <1>1 DEF Draft

\* The next write, settled, is saved as soon as nothing writes.
LEMMA WrittenDraft ==
  ASSUME NEW e, NEW c, NEW rs, Draft(e, c, rs), left \in Int, left \notin c.saved
  PROVE  LET d == [c EXCEPT !.dirty = @ \cup {left}]
             z == Settled(d, rs, e)
         IN  /\ Draft(e, d, rs) /\ Draft(e, z, rs)
             /\ d \in Copies /\ d.dirty = c.dirty \cup {left} /\ z.durable = c.durable
             /\ ~z.txn /\ Writers(rs, e) = {} => {left} \subseteq z.saved
<1> DEFINE d == [c EXCEPT !.dirty = @ \cup {left}]
<1>1. /\ d \in Copies /\ d.txn = c.txn /\ d.durable = c.durable
      /\ d.saved = c.saved /\ d.dirty = c.dirty \cup {left}
  BY DEF Draft, Good, Copies
<1> HIDE DEF d
<1>2. Good(d, rs, e)
  BY <1>1 DEF Draft, Good
<1>3. Draft(e, d, rs)
  BY <1>1, <1>2 DEF Draft, Old
<1>4. Draft(e, Settled(d, rs, e), rs)
  BY <1>3, SettledDraft
<1>5. /\ Settled(d, rs, e).durable = c.durable
      /\ ~Settled(d, rs, e).txn /\ Writers(rs, e) = {} => {left} \subseteq Settled(d, rs, e).saved
  BY <1>1, SettledCopy
<1> QED
  BY <1>1, <1>3, <1>4, <1>5 DEF d

\* A statement that the copy allows leaves a draft; what it made was not stored
\* before, and is saved once nothing writes.
LEMMA EffectDraft ==
  ASSUME NEW e, NEW c, Draft(e, c, readers), left \in Int, left \notin c.saved,
         NEW statement \in {"write", "begin", "commit", "rollback"}, Allowed(c, e, statement)
  PROVE  LET s == Effect(c, readers, e, statement)
             made == Made(c, statement)
         IN  /\ s = [c |-> s.c, rs |-> s.rs] /\ Draft(e, s.c, s.rs)
             /\ made \subseteq Old(e) /\ made \cap s.c.durable = {}
             /\ ~s.c.txn /\ Writers(s.rs, e) = {} => made \subseteq s.c.saved
<1>0. /\ c \in Copies /\ c.durable \subseteq c.saved /\ c.saved \cap c.dirty = {}
      /\ c.saved \cup c.dirty \subseteq Old(e) /\ left \in Old(e)
  BY DEF Draft, Good, Old
<1>1. CASE statement = "write"
  <2> DEFINE z == Settled([c EXCEPT !.dirty = @ \cup {left}], readers, e)
  <2>1. Effect(c, readers, e, statement) = [c |-> z, rs |-> readers] /\ Made(c, statement) = {left}
    BY <1>1 DEF Effect, Made
  <2>2. /\ Draft(e, z, readers) /\ z.durable = c.durable
        /\ ~z.txn /\ Writers(readers, e) = {} => {left} \subseteq z.saved
    BY WrittenDraft
  <2> HIDE DEF z
  <2> QED
    BY <1>0, <2>1, <2>2
<1>2. CASE statement = "begin"
  <2> DEFINE d == [c EXCEPT !.txn = TRUE]
  <2>1. Effect(c, readers, e, statement) = [c |-> d, rs |-> readers] /\ Made(c, statement) = {}
    BY <1>2 DEF Effect, Made, Nothing
  <2>2. d \in Copies /\ d.durable = c.durable /\ d.saved = c.saved /\ d.dirty = c.dirty
    BY <1>0 DEF Copies
  <2> HIDE DEF d
  <2>3. Draft(e, d, readers)
    BY <2>2, SameDraft
  <2> QED
    BY <2>1, <2>3
<1>3. CASE statement = "commit"
  <2> DEFINE d == [c EXCEPT !.txn = FALSE]
             z == Settled(d, readers, e)
  <2>1. Effect(c, readers, e, statement) = [c |-> z, rs |-> readers] /\ Made(c, statement) = c.dirty
    BY <1>3 DEF Effect, Made
  <2>2. /\ d \in Copies /\ d.durable = c.durable /\ d.saved = c.saved /\ d.dirty = c.dirty
        /\ d.txn = FALSE
    BY <1>0 DEF Copies
  <2> HIDE DEF d
  <2>3. Draft(e, d, readers)
    BY <2>2, SameDraft
  <2>4. /\ Draft(e, z, readers) /\ z.durable = c.durable
        /\ ~z.txn /\ Writers(readers, e) = {} => c.dirty \subseteq z.saved
    BY <2>2, <2>3, SettledDraft, SettledCopy
  <2> HIDE DEF z
  <2> QED
    BY <1>0, <2>1, <2>4
<1>4. CASE statement = "rollback"
  <2>1. /\ Effect(c, readers, e, statement) = [c |-> RolledBack(c), rs |-> Aborted(readers, e)]
        /\ Made(c, statement) = {}
    BY <1>4 DEF Effect, Made, Nothing
  <2>2. Draft(e, RolledBack(c), Aborted(readers, e))
    BY RolledBackDraft
  <2> QED
    BY <2>1, <2>2
<1> QED
  BY <1>1, <1>2, <1>3, <1>4

\* _execute_sql, in its first three modes.
LEMMA ExecuteFine ==
  ASSUME IInv, NEW e \in Epochs, Execute(e)
  PROVE  connections[e].open /\ \E o : Fine(e, o) /\ Respond(e, o)
<1> DEFINE c == connections[e]
<1>1. c.open
  BY DEF Execute, Busy
<1>2. /\ Draft(e, c, readers) /\ left \in Int /\ left \notin c.saved /\ left \notin c.dirty
      /\ c \in Copies /\ c.durable \subseteq c.saved /\ c.saved \cap c.dirty = {}
  BY <1>1, OpenDraft
<1>3. PICK statement \in {"write", "begin", "commit", "rollback"} :
        LET d == [c EXCEPT !.seen = @ \cup {statement}]
            s == Effect(d, readers, e, statement)
            made == Made(c, statement)
        IN  \E probe \in Probed(c, statement) :
              \/ /\ Allowed(c, e, statement)
                 /\ \E o \in IF probe THEN Publish(s, e, made)
                             ELSE {Because("cached", Ended(s, TRUE, made))} : Respond(e, o)
              \/ /\ Allowed(c, e, statement) /\ statement = "write"
                 /\ Respond(e, Failed(s, e, probe, made))
              \/ \E u \in Undone(c, readers, e), asked \in {FALSE, probe} :
                   LET r == IF asked /\ ~u.c.txn THEN Restored(u.c, u.rs, e) ELSE u IN
                   Respond(e, Ended(r, FALSE, {left} \cup Lost(c, u.c)))
  BY DEF Execute
<1> DEFINE d == [c EXCEPT !.seen = @ \cup {statement}]
           s == Effect(d, readers, e, statement)
           made == Made(c, statement)
<1>4. PICK probe \in Probed(c, statement) :
        \/ /\ Allowed(c, e, statement)
           /\ \E o \in IF probe THEN Publish(s, e, made)
                       ELSE {Because("cached", Ended(s, TRUE, made))} : Respond(e, o)
        \/ /\ Allowed(c, e, statement) /\ statement = "write"
           /\ Respond(e, Failed(s, e, probe, made))
        \/ \E u \in Undone(c, readers, e), asked \in {FALSE, probe} :
             LET r == IF asked /\ ~u.c.txn THEN Restored(u.c, u.rs, e) ELSE u IN
             Respond(e, Ended(r, FALSE, {left} \cup Lost(c, u.c)))
  BY <1>3
<1>5. probe \in BOOLEAN
  BY DEF Probed
<1>6. /\ d \in Copies /\ d.durable = c.durable /\ d.saved = c.saved /\ d.dirty = c.dirty
      /\ d.txn = c.txn
  BY <1>2 DEF Copies
<1> HIDE DEF d
<1>7. Draft(e, d, readers)
  BY <1>2, <1>6, SameDraft
<1>8. Made(d, statement) = made /\ (Allowed(c, e, statement) => Allowed(d, e, statement))
  BY <1>6 DEF Made, Allowed
<1>9. Allowed(c, e, statement) =>
        /\ s = [c |-> s.c, rs |-> s.rs] /\ Draft(e, s.c, s.rs)
        /\ made \subseteq Old(e) /\ made \cap s.c.durable = {}
        /\ ~s.c.txn /\ Writers(s.rs, e) = {} => made \subseteq s.c.saved
  BY <1>2, <1>6, <1>7, <1>8, EffectDraft
<1> HIDE DEF c, s, made
<1>10. ASSUME Allowed(c, e, statement), probe, NEW o \in Publish(s, e, made), Respond(e, o)
       PROVE  Fine(e, o)
  BY <1>9, <1>10, PublishFine
<1>11. ASSUME Allowed(c, e, statement), ~probe
       PROVE  Fine(e, Because("cached", Ended(s, TRUE, made)))
  BY <1>9, <1>11, BecauseFine
<1>12. ASSUME Allowed(c, e, statement)
       PROVE  Fine(e, Failed(s, e, probe, made))
  BY <1>5, <1>9, <1>12, FailedFine
<1>13. ASSUME NEW u \in Undone(c, readers, e), NEW asked \in BOOLEAN
       PROVE  LET r == IF asked /\ ~u.c.txn THEN Restored(u.c, u.rs, e) ELSE u IN
              Fine(e, Ended(r, FALSE, {left} \cup Lost(c, u.c)))
  <2> DEFINE lost == {left} \cup Lost(c, u.c)
  <2>1. /\ u = [c |-> u.c, rs |-> u.rs] /\ Draft(e, u.c, u.rs)
        /\ u.c.saved = c.saved /\ u.c.durable = c.durable /\ u.c.dirty \subseteq c.dirty
        /\ u.c.dirty = {} \/ Lost(c, u.c) = {}
        /\ Lost(c, u.c) \subseteq c.dirty
    BY <1>2, UndoneDraft
  <2>2. lost \subseteq Old(e) /\ lost \cap u.c.durable = {}
    BY <1>2, <2>1 DEF Draft, Old
  <2>3. lost \cap (u.c.saved \cup u.c.dirty) = {}
    BY <1>2, <2>1
  <2> HIDE DEF lost
  <2>4. Fine(e, Ended(u, FALSE, lost))
    BY <2>1, <2>2, <2>3, EndedFine
  <2>5. Fine(e, Ended(Restored(u.c, u.rs, e), FALSE, lost))
    BY <2>1, <2>2, RestoredFine
  <2> QED
    BY <2>4, <2>5 DEF lost
<1>14. \E o : Fine(e, o) /\ Respond(e, o)
  <2>1. CASE /\ Allowed(c, e, statement)
             /\ \E o \in IF probe THEN Publish(s, e, made)
                         ELSE {Because("cached", Ended(s, TRUE, made))} : Respond(e, o)
    BY <1>10, <1>11, <2>1
  <2>2. CASE Allowed(c, e, statement) /\ Respond(e, Failed(s, e, probe, made))
    BY <1>12, <2>2
  <2>3. CASE \E u \in Undone(c, readers, e), asked \in {FALSE, probe} :
               LET r == IF asked /\ ~u.c.txn THEN Restored(u.c, u.rs, e) ELSE u IN
               Respond(e, Ended(r, FALSE, {left} \cup Lost(c, u.c)))
    BY <1>5, <1>13, <2>3
  <2> QED
    BY <1>4, <2>1, <2>2, <2>3 DEF s, d, made
<1> QED
  BY <1>1, <1>14 DEF c

\* _execute_sql in mode 3: a reader that was added writes apart from the others.
LEMMA ReadFine ==
  ASSUME IInv, NEW e \in Epochs, Read(e)
  PROVE  connections[e].open /\ \E o : Fine(e, o) /\ Respond(e, o)
<1> DEFINE c == connections[e]
           dirty == [c EXCEPT !.dirty = @ \cup {left}, !.seen = @ \cup {"returning"}]
           room == Cardinality(readers) < MaxReaders
           asked == readers \cup {NewReader(e, Nothing, FALSE)}
           wrote(probe) == readers \cup {NewReader(e, {left}, probe)}
<1>1. c.open
  BY DEF Read, Busy
<1>2. /\ Draft(e, c, readers) /\ left \in Int /\ left \notin c.saved /\ left \notin c.dirty
      /\ c \in Copies /\ c.durable \subseteq c.saved
  BY <1>1, OpenDraft
<1>3. Draft(e, c, asked)
  <2> DEFINE n == NewReader(e, Nothing, FALSE)
  <2>1. n \in Readers /\ n.epoch = e /\ n.made = {} /\ ~n.writing
    <3>1. n = [id |-> left, epoch |-> e, cursor |-> TRUE, writing |-> FALSE, made |-> {},
               detected |-> FALSE, status |-> 0]
      BY DEF NewReader, Nothing
    <3> HIDE DEF n
    <3> QED
      BY <1>2, <3>1 DEF Readers
  <2> HIDE DEF n
  <2>2. Quieter(readers \cup {n}, readers, e)
    BY <2>1 DEF Quieter
  <2> QED
    BY <1>2, <2>2, QuietDraft DEF n
<1>4. /\ dirty \in Copies /\ dirty.durable = c.durable /\ dirty.saved = c.saved
      /\ dirty.dirty = c.dirty \cup {left} /\ dirty.txn = c.txn
  BY <1>2 DEF Copies
<1>5. Draft(e, dirty, readers)
  <2> DEFINE d == [c EXCEPT !.dirty = @ \cup {left}]
  <2>1. Draft(e, d, readers)
    BY <1>2, WrittenDraft
  <2>2. d.durable = c.durable /\ d.saved = c.saved /\ d.dirty = c.dirty \cup {left}
    BY <1>2 DEF Copies
  <2> HIDE DEF c, d, dirty
  <2> QED
    BY <1>4, <2>1, <2>2, SameDraft
<1>6. ASSUME NEW probe \in BOOLEAN PROVE Draft(e, dirty, wrote(probe))
  <2> DEFINE n == NewReader(e, {left}, probe)
             rs == readers \cup {n}
  <2>1. n \in Readers /\ n.epoch = e /\ n.made = {left} /\ n.writing /\ n.cursor
    <3>1. {left} # Nothing
      BY DEF Nothing
    <3>2. n = [id |-> left, epoch |-> e, cursor |-> TRUE, writing |-> TRUE, made |-> {left},
               detected |-> probe, status |-> 0]
      BY <3>1 DEF NewReader
    <3> HIDE DEF n
    <3> QED
      BY <1>2, <1>6, <3>2 DEF Readers
  <2> HIDE DEF n, dirty, c
  <2>2. \A r \in readers : r.epoch = e => left \notin r.made
    BY <1>2 DEF Draft, Good
  <2>3. \A r \in rs : r.epoch = e =>
          /\ r.writing => r.cursor
          /\ r.made \subseteq dirty.dirty /\ (~r.writing => r.made = {})
    BY <1>4, <1>5, <2>1 DEF Draft, Good
  <2>4. \A r, x \in rs : r.epoch = e /\ x.epoch = e /\ r # x => r.made \cap x.made = {}
    BY <1>2, <2>1, <2>2 DEF Draft, Good
  <2>5. Good(dirty, rs, e)
    BY <1>5, <2>1, <2>3, <2>4 DEF Draft, Good
  <2>6. Apart(rs, e)
    BY <1>5, <2>1 DEF Draft, Apart
  <2> QED
    BY <1>5, <2>5, <2>6 DEF Draft, n
<1>7. ASSUME NEW probe \in BOOLEAN
      PROVE  Fine(e, Failed([c |-> Settled(dirty, readers, e), rs |-> readers], e, probe, {left}))
  <2>1. Draft(e, Settled(dirty, readers, e), readers)
    BY <1>5, SettledDraft
  <2> HIDE DEF dirty, c
  <2>2. Settled(dirty, readers, e).durable = c.durable
    BY <1>4, SettledCopy
  <2>3. {left} \subseteq Old(e)
    BY DEF Old
  <2> QED
    BY <1>2, <1>7, <2>1, <2>2, <2>3, FailedFine
<1>8. \/ Respond(e, Ended([c |-> c, rs |-> asked], TRUE, Nothing))
      \/ \E probe \in BOOLEAN :
           IF room THEN Respond(e, Ended([c |-> dirty, rs |-> wrote(probe)], TRUE, Nothing))
           ELSE Respond(e, Failed([c |-> Settled(dirty, readers, e), rs |-> readers], e, probe, {left}))
  BY DEF Read, Probed
<1> HIDE DEF c, dirty, room, asked, wrote
<1>9. Fine(e, Ended([c |-> c, rs |-> asked], TRUE, Nothing))
  BY <1>3, EndedFine DEF Nothing
<1>10. \A probe \in BOOLEAN : Fine(e, Ended([c |-> dirty, rs |-> wrote(probe)], TRUE, Nothing))
  BY <1>6, EndedFine DEF Nothing
<1>11. \E o : Fine(e, o) /\ Respond(e, o)
  BY <1>7, <1>8, <1>9, <1>10
<1> QED
  BY <1>1, <1>11 DEF c

\* _import_map
LEMMA ImportFine ==
  ASSUME IInv, NEW e \in Epochs, ImportMap(e)
  PROVE  connections[e].open /\ \E o : Fine(e, o) /\ Respond(e, o)
<1> DEFINE c == connections[e]
           z == Settled([c EXCEPT !.dirty = @ \cup {left}], readers, e)
<1>1. c.open
  BY DEF ImportMap, Busy
<1>2. /\ Draft(e, c, readers) /\ left \in Int /\ left \notin c.saved /\ left \notin c.dirty
      /\ c \in Copies /\ c.durable \subseteq c.saved
  BY <1>1, OpenDraft
<1>3. /\ Draft(e, z, readers) /\ z.durable = c.durable
      /\ ~z.txn /\ Writers(readers, e) = {} => {left} \subseteq z.saved
  BY <1>2, WrittenDraft
<1>4. \/ \E o \in Publish([c |-> z, rs |-> readers], e, {left}) : Respond(e, o)
      \/ \E u \in Undone(c, readers, e) : Respond(e, Ended(u, FALSE, {left}))
  BY DEF ImportMap
<1>5. {left} \subseteq Old(e)
  BY DEF Old
<1> HIDE DEF c, z
<1>6. \A o \in Publish([c |-> z, rs |-> readers], e, {left}) : Fine(e, o)
  BY <1>2, <1>3, <1>5, PublishFine
<1>7. ASSUME NEW u \in Undone(c, readers, e)
      PROVE  Fine(e, Ended(u, FALSE, {left}))
  <2>1. /\ u = [c |-> u.c, rs |-> u.rs] /\ Draft(e, u.c, u.rs)
        /\ u.c.saved = c.saved /\ u.c.dirty \subseteq c.dirty
    BY <1>2, UndoneDraft
  <2>2. {left} \cap (u.c.saved \cup u.c.dirty) = {}
    BY <1>2, <2>1
  <2> QED
    BY <1>5, <2>1, <2>2, EndedFine
<1> QED
  BY <1>1, <1>4, <1>6, <1>7 DEF c
-----------------------------------------------------------------------------
(* Readers *)

\* A reader of a reachable state: its copy is open, and what it made is in the
\* copy but not saved.
LEMMA ReaderKnown ==
  ASSUME IInv, NEW r \in readers
  PROVE  /\ r.epoch \in Epochs /\ connections[r.epoch].open /\ r \in Readers
         /\ r.made \subseteq connections[r.epoch].dirty /\ r.made \subseteq Old(r.epoch)
         /\ r.made \cap connections[r.epoch].saved = {}
<1>1. r \in Readers /\ r.epoch \in Epochs /\ connections[r.epoch].open
  BY DEF IInv, TypeOK, ReaderInv, Readers
<1>2. Good(connections[r.epoch], readers, r.epoch)
  BY <1>1 DEF IInv, OpenInv
<1> QED
  BY <1>1, <1>2 DEF Good, Old

\* A reader that is done makes no more, whatever its status and cursor become.
LEMMA DoneQuieter ==
  ASSUME NEW r \in Readers, r \in readers, NEW new \in Readers,
         new.epoch = r.epoch, new.made = {}, ~new.writing
  PROVE  Quieter(Updated(r, new), readers, r.epoch)
BY DEF Quieter, Updated

\* The three ways for a reader to be done.
LEMMA DoneReader ==
  ASSUME NEW r \in Readers, NEW status \in Int
  PROVE  \A x \in {Done(r), [Done(r) EXCEPT !.status = status],
                   [Done(r) EXCEPT !.cursor = FALSE, !.status = status]} :
           x \in Readers /\ x.epoch = r.epoch /\ x.made = {} /\ ~x.writing
<1>1. /\ Done(r) \in Readers /\ Done(r).epoch = r.epoch
      /\ Done(r).made = {} /\ ~Done(r).writing
  BY DEF Done, Nothing, Readers
<1>2. ASSUME NEW d \in Readers, d.made = {}, ~d.writing
      PROVE  \A x \in {[d EXCEPT !.status = status], [d EXCEPT !.cursor = FALSE, !.status = status]} :
               x \in Readers /\ x.epoch = d.epoch /\ x.made = {} /\ ~x.writing
  BY <1>2 DEF Readers
<1> QED
  BY <1>1, <1>2

\* A reader that is done leaves a draft, and what it made was not stored before.
LEMMA EndedReader ==
  ASSUME IInv, NEW r \in readers, NEW rs, Quieter(rs, readers, r.epoch)
  PROVE  LET e == r.epoch
             z == Settled(connections[e], rs, e)
         IN  /\ Draft(e, z, rs) /\ r.made \cap z.durable = {}
             /\ ~z.txn /\ Writers(rs, e) = {} => r.made \subseteq z.saved
<1> DEFINE e == r.epoch
           c == connections[e]
           z == Settled(c, rs, e)
<1>1. /\ e \in Epochs /\ c.open /\ r.made \subseteq c.dirty /\ r.made \cap c.saved = {}
  BY ReaderKnown
<1>2. Draft(e, c, readers) /\ c \in Copies /\ c.durable \subseteq c.saved
  BY <1>1, OpenDraft
<1>3. Draft(e, c, rs)
  BY <1>2, QuietDraft
<1> HIDE DEF c
<1>4. Draft(e, z, rs)
  BY <1>3, SettledDraft
<1>5. z.durable = c.durable /\ (~z.txn /\ Writers(rs, e) = {} => r.made \subseteq z.saved)
  BY <1>1, <1>2, SettledCopy
<1> QED
  BY <1>1, <1>2, <1>4, <1>5 DEF c

\* Quieter readers in an outcome leave it fine.
LEMMA QuietFine ==
  ASSUME NEW e, NEW o, Fine(e, o), NEW rs, Quieter(rs, o.rs, e),
         o.ok => (Writers(o.rs, e) # {} => Writers(rs, e) # {})
  PROVE  Fine(e, [o EXCEPT !.rs = rs])
<1> DEFINE p == [o EXCEPT !.rs = rs]
<1>1. o = [c |-> o.c, rs |-> o.rs, ok |-> o.ok, made |-> o.made, why |-> o.why]
  BY DEF Fine
<1>2. /\ p = [c |-> o.c, rs |-> rs, ok |-> o.ok, made |-> o.made, why |-> o.why]
  BY <1>1
<1> HIDE DEF p
<1>3. /\ p = [c |-> p.c, rs |-> p.rs, ok |-> p.ok, made |-> p.made, why |-> p.why]
      /\ p.c = o.c /\ p.rs = rs /\ p.ok = o.ok /\ p.made = o.made /\ p.why = o.why
  BY <1>2
<1>4. Draft(e, p.c, p.rs)
  BY <1>3, QuietDraft DEF Fine
<1>5. o.ok => Causes(o, e) \subseteq Causes(p, e)
  BY <1>3 DEF Causes
<1>6. ~p.c.txn => Honest(e, p)
  BY <1>3, <1>5 DEF Fine, Honest
<1>7. Fine(e, p)
  BY <1>3, <1>4, <1>6 DEF Fine
<1> QED
  BY <1>7 DEF p

\* _finalize_reader_write; a success changes no reader but this one.
LEMMA FinalizedFine ==
  ASSUME IInv, NEW r \in readers, NEW status \in Int, NEW o \in Finalized(r, status)
  PROVE  /\ Fine(r.epoch, o)
         /\ o.ok => \E new \in Readers : new.made = {} /\ ~new.writing /\ o.rs = Updated(r, new)
<1> DEFINE e == r.epoch
           new == [Done(r) EXCEPT !.cursor = FALSE, !.status = status]
           rs == Updated(r, new)
           z == Settled(connections[e], rs, e)
           failed(x) == IF x = new THEN [x EXCEPT !.status = 3] ELSE x
<1>1. r \in Readers /\ r.made \subseteq Old(e)
  BY ReaderKnown
<1>2. new \in Readers /\ new.epoch = e /\ new.made = {} /\ ~new.writing
  BY <1>1, DoneReader
<1>3. PICK p \in Publish([c |-> z, rs |-> rs], e, r.made) :
        o = IF p.ok THEN p ELSE [p EXCEPT !.rs = {failed(x) : x \in p.rs}]
  BY DEF Finalized
<1> HIDE DEF new
<1>4. Quieter(rs, readers, e)
  BY <1>1, <1>2, DoneQuieter
<1> HIDE DEF rs
<1>5. Draft(e, z, rs) /\ r.made \cap z.durable = {}
      /\ (~z.txn /\ Writers(rs, e) = {} => r.made \subseteq z.saved)
  BY <1>4, EndedReader
<1> HIDE DEF z
<1>6. Fine(e, p) /\ (p.ok => p.rs = rs)
  BY <1>1, <1>3, <1>5, PublishFine
<1>7. CASE p.ok
  BY <1>2, <1>3, <1>6, <1>7 DEF rs
<1>8. CASE ~p.ok
  <2> DEFINE fs == {failed(x) : x \in p.rs}
  <2>1. [new EXCEPT !.status = 3] \in Readers /\ [new EXCEPT !.status = 3].epoch = e
        /\ [new EXCEPT !.status = 3].made = {} /\ ~[new EXCEPT !.status = 3].writing
    BY <1>2 DEF Readers
  <2>2. \A x \in fs : x \in p.rs \/ x = [new EXCEPT !.status = 3]
    OBVIOUS
  <2>3. \A x \in p.rs : x.epoch # e => x \in fs
    BY <1>2
  <2>4. Quieter(fs, p.rs, e)
    BY <2>1, <2>2, <2>3 DEF Quieter
  <2> HIDE DEF fs
  <2>5. Fine(e, [p EXCEPT !.rs = fs])
    BY <1>6, <1>8, <2>4, QuietFine
  <2>6. o = [p EXCEPT !.rs = fs]
    BY <1>3, <1>8 DEF fs
  <2>7. o.ok = p.ok
    <3>1. p = [c |-> p.c, rs |-> p.rs, ok |-> p.ok, made |-> p.made, why |-> p.why]
      BY <1>6 DEF Fine
    <3> QED
      BY <2>6, <3>1
  <2> QED
    BY <1>8, <2>5, <2>6, <2>7
<1> QED
  BY <1>7, <1>8

\* The end of a reader of whose write the provider does not know.
LEMMA ForgottenFine ==
  ASSUME IInv, NEW r \in readers, NEW status \in Int, NEW o \in Forgotten(r, status)
  PROVE  /\ Fine(r.epoch, o)
         /\ \E new \in Readers : new.made = {} /\ ~new.writing /\ o.rs = Updated(r, new)
<1> DEFINE e == r.epoch
           new == [Done(r) EXCEPT !.status = status]
           rs == Updated(r, new)
           z == Settled(connections[e], rs, e)
<1>1. r \in Readers /\ r.made \subseteq Old(e)
  BY ReaderKnown
<1>2. new \in Readers /\ new.epoch = e /\ new.made = {} /\ ~new.writing
  BY <1>1, DoneReader
<1>3. o = Because("cached", Ended([c |-> z, rs |-> rs], TRUE, r.made))
  BY DEF Forgotten
<1> HIDE DEF new
<1>4. Quieter(rs, readers, e)
  BY <1>1, <1>2, DoneQuieter
<1> HIDE DEF rs
<1>5. Draft(e, z, rs)
  BY <1>4, EndedReader
<1> HIDE DEF z
<1>6. Fine(e, o)
  BY <1>1, <1>3, <1>5, BecauseFine
<1>7. o.rs = rs
  BY <1>3 DEF Because, Ended
<1> QED
  BY <1>2, <1>6, <1>7 DEF rs

\* _reader_read
LEMMA ReaderReadFine ==
  ASSUME IInv, NEW r \in readers, ReaderRead(r)
  PROVE  \E o : Fine(r.epoch, o) /\ Respond(r.epoch, o)
<1> DEFINE e == r.epoch
           c == connections[e]
           gone == readers \ {r}
           row == Updated(r, [r EXCEPT !.status = 1])
           less == [c EXCEPT !.dirty = @ \ r.made]
           done == Updated(r, Done(r))
<1>1. /\ r \in Readers /\ e \in Epochs /\ c.open /\ r.made \subseteq Old(e)
      /\ r.made \subseteq c.dirty /\ r.made \cap c.saved = {}
  BY ReaderKnown
<1>2. Draft(e, c, readers) /\ c \in Copies
  BY <1>1, OpenDraft
<1>3. \/ Respond(e, Ended([c |-> c, rs |-> row], TRUE, Nothing))
      \/ \E o \in AtEnd(r) : Respond(e, o)
      \/ \E u \in Undone(less, done, e) :
           Respond(e, Ended([u EXCEPT !.c = Settled(@, u.rs, e)], FALSE, r.made))
      \/ Respond(e, Because("limit", Ended([c |-> Settled(c, gone, e), rs |-> gone], FALSE, r.made)))
  BY DEF ReaderRead
<1> HIDE DEF c
<1>4. Draft(e, c, row)
  <2> DEFINE n == [r EXCEPT !.status = 1]
  <2>1. /\ n \in Readers /\ n.epoch = e /\ n.made = r.made /\ n.writing = r.writing
        /\ n.cursor = r.cursor
    BY <1>1 DEF Readers
  <2> HIDE DEF n
  <2>2. row = (readers \ {r}) \cup {n}
    BY DEF Updated, n
  <2> HIDE DEF row, e
  <2>3. \A x \in row : x.epoch = e =>
          /\ x.writing => x.cursor
          /\ x.made \subseteq c.dirty /\ (~x.writing => x.made = {})
    BY <1>2, <2>1, <2>2 DEF Draft, Good, e
  <2>4. \A x, y \in row : x.epoch = e /\ y.epoch = e /\ x # y => x.made \cap y.made = {}
    <3>1. \A x \in readers \ {r} : x.epoch = e => x.made \cap r.made = {}
      BY <1>2 DEF Draft, Good, e
    <3>2. \A x, y \in readers \ {r} : x.epoch = e /\ y.epoch = e /\ x # y => x.made \cap y.made = {}
      BY <1>2 DEF Draft, Good
    <3> QED
      BY <2>1, <2>2, <3>1, <3>2
  <2>5. row \subseteq Readers
    BY <1>2, <2>1, <2>2 DEF Draft, Good
  <2>6. Good(c, row, e)
    BY <1>2, <2>3, <2>4, <2>5 DEF Draft, Good
  <2>7. Apart(row, e)
    BY <1>2, <2>1, <2>2 DEF Draft, Apart, e
  <2> QED
    BY <1>2, <2>6, <2>7 DEF Draft
<1>5. Fine(e, Ended([c |-> c, rs |-> row], TRUE, Nothing))
  BY <1>4, EndedFine DEF Nothing
<1>6. \A o \in AtEnd(r) : Fine(e, o)
  BY FinalizedFine, ForgottenFine DEF AtEnd
<1>7. Draft(e, less, done) /\ r.made \cap (less.saved \cup less.dirty) = {}
  <2>1. less \in Copies /\ less.durable = c.durable /\ less.saved = c.saved
        /\ less.dirty = c.dirty \ r.made
    BY <1>2 DEF Copies
  <2>0. Done(r) \in Readers /\ Done(r).epoch = e /\ Done(r).made = {} /\ ~Done(r).writing
    BY <1>1 DEF Done, Nothing, Readers
  <2>2. Quieter(done, readers, e)
    BY <1>1, <2>0, DoneQuieter
  <2>3. Draft(e, c, done)
    BY <1>2, <2>2, QuietDraft
  <2>4. \A x \in done : x.epoch = e => x.made \cap r.made = {}
    <3>1. \A x \in readers \ {r} : x.epoch = e => x.made \cap r.made = {}
      BY <1>2 DEF Draft, Good
    <3> QED
      BY <2>0, <3>1 DEF Updated
  <2> HIDE DEF less, done
  <2>5. Good(less, done, e)
    BY <2>1, <2>3, <2>4 DEF Draft, Good
  <2> QED
    BY <1>1, <2>1, <2>3, <2>5 DEF Draft
<1> HIDE DEF less, done
<1>8. ASSUME NEW u \in Undone(less, done, e)
      PROVE  Fine(e, Ended([u EXCEPT !.c = Settled(@, u.rs, e)], FALSE, r.made))
  <2> DEFINE z == Settled(u.c, u.rs, e)
  <2>1. /\ u = [c |-> u.c, rs |-> u.rs] /\ Draft(e, u.c, u.rs)
        /\ u.c.saved = less.saved /\ u.c.dirty \subseteq less.dirty
    BY <1>7, UndoneDraft
  <2>2. [u EXCEPT !.c = Settled(@, u.rs, e)] = [c |-> z, rs |-> u.rs]
    BY <2>1
  <2>3. Draft(e, z, u.rs)
    BY <2>1, SettledDraft
  <2>4. z.saved \cup z.dirty = u.c.saved \cup u.c.dirty
    BY <2>1, SettledCopy DEF Draft, Good
  <2> HIDE DEF z
  <2>5. r.made \cap (z.saved \cup z.dirty) = {}
    BY <1>7, <2>1, <2>4
  <2>6. Fine(e, Ended([c |-> z, rs |-> u.rs], FALSE, r.made))
    BY <1>1, <2>3, <2>5, EndedFine
  <2> QED
    BY <2>2, <2>6
<1>9. Fine(e, Because("limit", Ended([c |-> Settled(c, gone, e), rs |-> gone], FALSE, r.made)))
  <2>1. Quieter(gone, readers, e)
    BY DEF Quieter
  <2>2. Draft(e, Settled(c, gone, e), gone)
    BY <2>1, EndedReader DEF c
  <2> QED
    BY <1>1, <2>2, BecauseFine
<1> QED
  BY <1>3, <1>5, <1>6, <1>8, <1>9

\* _reader_close
LEMMA ReaderCloseFine ==
  ASSUME IInv, NEW r \in readers, ReaderClose(r)
  PROVE  \E o : Fine(r.epoch, o) /\ Respond(r.epoch, o)
<1> DEFINE e == r.epoch
           rs == readers \ {r}
<1>1. PICK o \in IF r.detected THEN Finalized(r, 3) ELSE Forgotten(r, 3) :
        Respond(e, IF o.ok THEN [o EXCEPT !.rs = rs] ELSE o)
  BY DEF ReaderClose
<1>2. /\ Fine(e, o)
      /\ o.ok => \E new \in Readers : new.made = {} /\ ~new.writing /\ o.rs = Updated(r, new)
  BY <1>1, FinalizedFine, ForgottenFine
<1>3. ASSUME o.ok PROVE Fine(e, [o EXCEPT !.rs = rs])
  <2>1. PICK new \in Readers : new.made = {} /\ ~new.writing /\ o.rs = Updated(r, new)
    BY <1>2, <1>3
  <2>2. rs \subseteq o.rs /\ \A x \in o.rs : x \in rs \/ x = new
    BY <2>1 DEF Updated
  <2>3. Apart(o.rs, e)
    BY <1>2 DEF Fine, Draft
  <2>4. Quieter(rs, o.rs, e)
    BY <2>2, <2>3 DEF Quieter, Apart
  <2>5. Writers(o.rs, e) # {} => Writers(rs, e) # {}
    BY <2>1, <2>2 DEF Writers
  <2> HIDE DEF rs
  <2> QED
    BY <1>2, <2>4, <2>5, QuietFine
<1> QED
  BY <1>1, <1>2, <1>3
-----------------------------------------------------------------------------
(* Opening and closing *)

\* What is above the number of the next write stays so.
LEMMA AboveStays ==
  ASSUME IInv, left' \in {left, left - 1}
  PROVE  /\ \A revision \in stored : \A w \in revision : w > left'
         /\ \A e \in Epochs : connections[e].open =>
              \A w \in connections[e].saved \cup connections[e].dirty \cup refused[e] : w > left'
<1>1. \A revision \in stored : revision \subseteq Int /\ Above(revision)
  BY DEF IInv, TypeOK, FreshInv
<1>2. ASSUME NEW e \in Epochs, connections[e].open
      PROVE  \A w \in connections[e].saved \cup connections[e].dirty \cup refused[e] :
               w \in Int /\ w > left
  <2>1. Good(connections[e], readers, e)
    BY <1>2 DEF IInv, OpenInv
  <2>2. connections[e].saved \subseteq Int /\ connections[e].dirty \subseteq Int
    BY <2>1 DEF Good, Copies
  <2>3. refused[e] \subseteq Int
    BY DEF IInv, TypeOK
  <2>4. Above(connections[e].saved) /\ Above(connections[e].dirty) /\ Above(refused[e])
    BY <1>2 DEF IInv, FreshInv
  <2> QED
    BY <2>2, <2>3, <2>4 DEF Above
<1>3. left \in Int
  BY DEF IInv, TypeOK
<1>4. \A revision \in stored : \A w \in revision : w > left'
  BY <1>1, <1>3 DEF Above
<1>5. ASSUME NEW e \in Epochs, connections[e].open
      PROVE  \A w \in connections[e].saved \cup connections[e].dirty \cup refused[e] : w > left'
  BY <1>2, <1>3, <1>5
<1> QED
  BY <1>4, <1>5

\* An open connection starts with what the store has, and no reader.
LEMMA OpenStep ==
  ASSUME IInv, NEW e \in Epochs, Open(e)
  PROVE  IInv'
<1>1. PICK revision \in stored : connections' = [connections EXCEPT ![e] = Opened(revision)]
  BY DEF Open
<1>2. /\ ~connections[e].open /\ e \in {epoch, epoch + 1} /\ left' = left - 1
      /\ epoch' = epoch /\ readers' = readers /\ stored' = stored
      /\ promised' = promised /\ refused' = refused /\ blamed' = blamed
  BY DEF Open
<1>3. revision \in SUBSET Int /\ Above(revision) /\ left \in Int
  BY DEF IInv, TypeOK, FreshInv
<1> DEFINE c == Opened(revision)
<1>4. /\ c \in Copies /\ c.open /\ c.durable = revision /\ c.saved = revision
      /\ c.dirty = {} /\ c.txn = FALSE
  BY <1>3, OpenedCopy
<1> HIDE DEF c
<1>5. /\ connections'[e] = c
      /\ \A f \in Epochs \ {e} : connections'[f] = connections[f]
  BY <1>1 DEF IInv, TypeOK, c
<1>6. \A r \in readers : r.epoch # e
  BY <1>2 DEF IInv, ReaderInv
<1>7. Good(c, readers, e)
  BY <1>4, <1>6 DEF IInv, TypeOK, Good
<1>8. TypeOK'
  <2>1. connections' \in [Epochs -> Copies \cup {Closed}]
    BY <1>1, <1>4 DEF IInv, TypeOK, c
  <2> QED
    BY <1>2, <2>1 DEF IInv, TypeOK
<1>9. e >= epoch
  BY <1>2 DEF IInv, TypeOK, Epochs
<1>10. OpenInv'
  BY <1>2, <1>4, <1>5, <1>7, <1>9 DEF IInv, OpenInv
<1>11. ReaderInv'
  <2> SUFFICES ASSUME NEW r \in readers PROVE connections'[r.epoch].open
    BY <1>2 DEF ReaderInv
  <2>1. r.epoch \in Epochs
    BY DEF IInv, TypeOK, Readers
  <2> QED
    BY <1>5, <1>6, <2>1 DEF IInv, ReaderInv
<1>12. promised[e] = {} /\ refused[e] = {}
  BY <1>2 DEF IInv, OpenInv
<1>13. FreshInv'
  <2>1. \A w \in revision : w > left'
    BY <1>2, <1>3 DEF Above
  <2>2. Above(connections[e].saved)' /\ Above(connections[e].dirty)' /\ Above(refused[e])'
    BY <1>2, <1>4, <1>5, <1>12, <2>1 DEF Above
  <2>3. ASSUME NEW f \in Epochs, f # e, connections[f].open
        PROVE  /\ Above(connections[f].saved)' /\ Above(connections[f].dirty)'
               /\ Above(refused[f])'
    BY <1>2, <1>5, <2>3, AboveStays DEF Above
  <2>4. \A old \in stored' : Above(old)'
    BY <1>2, AboveStays DEF Above
  <2> QED
    BY <1>5, <2>2, <2>3, <2>4 DEF FreshInv
<1>14. AnswerInv'
  <2>1. \A causes : \A f \in Epochs : BlamedOn(f, causes)' = BlamedOn(f, causes)
    BY <1>2 DEF BlamedOn
  <2> SUFFICES ASSUME NEW f \in Epochs, connections'[f].open
               PROVE  /\ promised[f] \subseteq
                           connections'[f].durable \cup BlamedOn(f, {"cached", "beside"})
                      /\ refused[f] \cap (connections'[f].saved \cup connections'[f].dirty)
                           \subseteq BlamedOn(f, {"late", "limit", "cached"})
    BY <1>2, <2>1 DEF AnswerInv
  <2>2. CASE f = e
    BY <1>12, <2>2
  <2>3. CASE f # e
    BY <1>5, <2>3 DEF IInv, AnswerInv
  <2> QED
    BY <2>2, <2>3
<1> QED
  BY <1>8, <1>10, <1>11, <1>13, <1>14 DEF IInv

\* Connections that close take their readers and their answers with them.
LEMMA CloseStep ==
  ASSUME IInv, NEW epochs, Close(epochs), epoch' \in Epochs, left' \in {left, left - 1},
         stored' = stored,
         \A e \in Epochs : e \notin epochs /\ connections[e].open => e >= epoch'
  PROVE  IInv'
<1>1. \A e \in Epochs :
        /\ e \in epochs => ~connections'[e].open /\ promised'[e] = {} /\ refused'[e] = {}
        /\ e \notin epochs =>
             /\ connections'[e] = connections[e] /\ promised'[e] = promised[e]
             /\ refused'[e] = refused[e] /\ blamed'[e] = blamed[e]
  BY DEF Close, Closed
<1>2. /\ readers' \subseteq readers
      /\ \A r \in readers' : r.epoch \notin epochs
  BY DEF Close, ReadersLeft
<1>3. TypeOK'
  <2>1. connections' \in [Epochs -> Copies \cup {Closed}]
    BY DEF Close, IInv, TypeOK
  <2>2. promised' \in [Epochs -> SUBSET Int] /\ refused' \in [Epochs -> SUBSET Int]
    BY DEF Close, IInv, TypeOK
  <2>3. blamed' = [e \in Epochs |-> blamed'[e]]
    BY DEF Close
  <2> QED
    BY <1>2, <2>1, <2>2, <2>3 DEF IInv, TypeOK
<1>4. OpenInv'
  <2> SUFFICES ASSUME NEW e \in Epochs
               PROVE  /\ ~connections'[e].open => promised'[e] = {} /\ refused'[e] = {}
                      /\ connections'[e].open => e >= epoch' /\ Good(connections'[e], readers', e)
    BY DEF OpenInv
  <2>1. CASE e \in epochs
    BY <1>1, <2>1
  <2>2. CASE e \notin epochs
    <3>1. connections[e].open => Good(connections[e], readers', e)
      BY <1>2 DEF IInv, OpenInv, Good
    <3> QED
      BY <1>1, <2>2, <3>1 DEF IInv, OpenInv
  <2> QED
    BY <2>1, <2>2
<1>5. ReaderInv'
  <2> SUFFICES ASSUME NEW r \in readers' PROVE connections'[r.epoch].open
    BY DEF ReaderInv
  <2>1. r.epoch \in Epochs /\ r \in readers /\ r.epoch \notin epochs
    BY <1>2 DEF IInv, TypeOK, Readers
  <2> QED
    BY <1>1, <2>1 DEF IInv, ReaderInv
<1>6. FreshInv'
  <2>1. ASSUME NEW e \in Epochs, connections'[e].open
        PROVE  /\ Above(connections[e].saved)' /\ Above(connections[e].dirty)'
               /\ Above(refused[e])'
    BY <1>1, <2>1, AboveStays DEF Above
  <2>2. \A revision \in stored' : Above(revision)'
    BY AboveStays DEF Above
  <2> QED
    BY <2>1, <2>2 DEF FreshInv
<1>7. AnswerInv'
  <2> SUFFICES ASSUME NEW e \in Epochs, connections'[e].open
               PROVE  /\ promised'[e] \subseteq
                           connections'[e].durable \cup BlamedOn(e, {"cached", "beside"})'
                      /\ refused'[e] \cap (connections'[e].saved \cup connections'[e].dirty)
                           \subseteq BlamedOn(e, {"late", "limit", "cached"})'
    BY DEF AnswerInv
  <2>1. /\ connections'[e] = connections[e] /\ promised'[e] = promised[e]
        /\ refused'[e] = refused[e] /\ blamed'[e] = blamed[e]
    BY <1>1
  <2>2. \A causes : BlamedOn(e, causes)' = BlamedOn(e, causes)
    BY <2>1 DEF BlamedOn
  <2> QED
    BY <2>1, <2>2 DEF IInv, AnswerInv
<1> QED
  BY <1>3, <1>4, <1>5, <1>6, <1>7 DEF IInv

\* Closing a connection closes its readers with the copy.
LEMMA DisconnectStep ==
  ASSUME IInv, NEW e \in Epochs, Disconnect(e)
  PROVE  IInv'
<1>1. /\ Close({e}) /\ epoch' = epoch /\ left' = left - 1 /\ stored' = stored
  BY DEF Disconnect
<1>2. epoch' \in Epochs /\ \A f \in Epochs : connections[f].open => f >= epoch'
  BY <1>1 DEF IInv, TypeOK, OpenInv
<1> QED
  BY <1>1, <1>2, CloseStep

\* A new epoch closes the connections of every other.
LEMMA BeginStep ==
  ASSUME IInv, BeginEpoch
  PROVE  IInv'
<1>1. /\ Close(Epochs \ {epoch'}) /\ epoch' = epoch + 1 /\ left' = left /\ stored' = stored
      /\ epoch < MaxEpoch
  BY DEF BeginEpoch, StaleHandles
<1>2. epoch' \in Epochs
  BY <1>1, ProviderAssumption DEF IInv, TypeOK, Epochs
<1>3. \A f \in Epochs : f \notin Epochs \ {epoch'} => f >= epoch'
  BY <1>2 DEF Epochs
<1> QED
  BY <1>1, <1>2, <1>3, CloseStep
-----------------------------------------------------------------------------
(* The theorems *)

\* The provider starts with the stored revision and no connection.
LEMMA Initially == Init => IInv
<1> SUFFICES ASSUME Init PROVE IInv
  OBVIOUS
<1>1. TypeOK
  <2>1. epoch \in Epochs /\ left \in Int
    BY ProviderAssumption DEF Init, Epochs
  <2>2. stored \subseteq SUBSET Int
    BY DEF Init
  <2> QED
    BY <2>1, <2>2 DEF Init, TypeOK
<1>2. OpenInv /\ ReaderInv /\ FreshInv /\ AnswerInv
  BY DEF Init, OpenInv, ReaderInv, FreshInv, AnswerInv, Above, Closed
<1> QED
  BY <1>1, <1>2 DEF IInv

\* A step that is no response, or one with what its operation has to end with.
LEMMA Steps ==
  ASSUME IInv, Next
  PROVE  \/ \E e \in Epochs : connections[e].open /\ \E o : Fine(e, o) /\ Respond(e, o)
         \/ \E e \in Epochs : Open(e) \/ Disconnect(e)
         \/ BeginEpoch
<1>1. ASSUME NEW e \in Epochs, Execute(e) \/ Read(e) \/ ImportMap(e)
      PROVE  connections[e].open /\ \E o : Fine(e, o) /\ Respond(e, o)
  BY <1>1, ExecuteFine, ReadFine, ImportFine
<1>2. ASSUME NEW r \in readers, ReaderRead(r) \/ ReaderClose(r)
      PROVE  /\ r.epoch \in Epochs /\ connections[r.epoch].open
             /\ \E o : Fine(r.epoch, o) /\ Respond(r.epoch, o)
  BY <1>2, ReaderKnown, ReaderReadFine, ReaderCloseFine
<1> QED
  BY <1>1, <1>2 DEF Next

\* The invariant holds in every reachable state.
LEMMA Invariant == Spec => []IInv
<1>1. Init => IInv
  BY Initially
<1>2. IInv /\ [Next]_vars => IInv'
  <2> SUFFICES ASSUME IInv, [Next]_vars PROVE IInv'
    OBVIOUS
  <2>1. CASE Next
    BY <2>1, Steps, RespondStep, OpenStep, DisconnectStep, BeginStep
  <2>2. CASE UNCHANGED vars
    BY <2>2 DEF vars, IInv, TypeOK, OpenInv, ReaderInv, FreshInv, AnswerInv, Above, BlamedOn, Good
  <2> QED
    BY <2>1, <2>2
<1> QED
  BY <1>1, <1>2, PTL DEF Spec

\* A reader ends with its connection: whatever statements fail, are interrupted
\* or restored, and whatever connections and epochs end, a reader that is left
\* reads an open copy of this game or a later one, and one that writes has a
\* cursor and its write is in the copy (_close_reader, _restore_durable).
THEOREM ReadersStay == Spec => []ReadersOwned
<1>1. IInv => ReadersOwned
  BY DEF IInv, TypeOK, OpenInv, ReaderInv, Good, ReadersOwned, Readers
<1> QED
  BY <1>1, Invariant, PTL

\* An answer outside a transaction is true of the store, either way: what it
\* acknowledges is in the stored revision, what it refuses is in no revision and
\* not visible.  Deadlines, limits of rows, statements from the cache and writes
\* beside an open cursor happen at any time; an answer may be untrue only where it
\* was given for one of these reasons itself (_execute_sql, _publish_if_autocommit).
THEOREM AnswersHold == Spec => []AnswersTrue
<1>1. IInv => AcknowledgedStored
  BY DEF IInv, AnswerInv, AcknowledgedStored
<1>2. IInv => RefusedGone
  BY DEF IInv, OpenInv, Good, AnswerInv, RefusedGone
<1> QED
  BY <1>1, <1>2, Invariant, PTL DEF AnswersTrue
=============================================================================
