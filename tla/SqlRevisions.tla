----------------------------- MODULE SqlRevisions -----------------------------
(***************************************************************************)
(* The revision chain of one SQL database (sql_revision_store.py) in the   *)
(* Data namespace of a project (storage.py), shared by several frontend    *)
(* processes.  A revision is an immutable file named by the digest of its  *)
(* contents; one pointer file names the current revision.                  *)
(* A session is the connection of one process to the database.  It opens   *)
(* the chain, lets SQL change its copy, and publishes the result: it lists *)
(* the revisions for the quota, writes the revision, moves the pointer.    *)
(* Each is a separate request; a write checks its precondition and         *)
(* replaces the file under a lock of the file system.  A publication that  *)
(* fails puts the session's copy back to its durable revision.             *)
(* Left out: contents that differ from their digest, and files touched by  *)
(* anyone but the store.                                                   *)
(***************************************************************************)
EXTENDS Naturals, FiniteSets

CONSTANTS
  Sessions, Revisions,
  NoRevision,   \* no pointer file, no revision
  NoSession,    \* nobody holds the lock
  Seed,         \* the revision a new chain starts from
  Limit,        \* revisions that fit MAXIMUM_DATABASE_BYTES, all of one size
  Unclear,      \* TRUE: a write may fail, before or after it replaced the file
  Timeouts      \* TRUE: the deadline of an operation may pass

ASSUME ChainAssumption ==
  /\ Seed \in Revisions /\ NoRevision \notin Revisions
  /\ NoSession \notin Sessions
  /\ Limit \in Nat /\ Unclear \in BOOLEAN /\ Timeouts \in BOOLEAN

VARIABLES
  current,     \* the revision the pointer file names
  revisions,   \* revision files
  leftover,    \* a temporary file of a dead process is among them
  lock,        \* who holds data-storage.lock
  at,          \* the next request of each session
  target,      \* the file it writes: "revision" or "current"
  goal,        \* what it is doing: "open" or "publish"
  candidate,   \* the revision it opens or publishes
  base,        \* current_storage_revision: the pointer it saw
  durable,     \* durable_revision: what its copy is put back to
  reported,    \* revisions the runtime was told are durable; a save names one
  moved        \* this publication has moved the pointer

files == <<current, revisions, leftover, lock>>
chain == <<candidate, base, durable>>
chainVars == <<files, at, target, goal, chain, reported, moved>>

Pointers == Revisions \cup {NoRevision}
Resting == {"closed", "open"}
-----------------------------------------------------------------------------
(* How an operation ends *)

\* The open connection, or its publication, succeeds with the revision r.
Succeed(s) ==
  /\ at' = [at EXCEPT ![s] = "open"]
  /\ durable' = [durable EXCEPT ![s] = candidate[s]]
  /\ reported' = reported \cup {candidate[s]}

\* A session that could not open is gone; one that could not publish keeps its
\* chain and its durable revision (_restore_durable).
Fail(s) ==
  /\ at' = [at EXCEPT ![s] = IF goal[s] = "open" THEN "closed" ELSE "open"]
  /\ base' = [base EXCEPT ![s] = IF goal[s] = "open" THEN NoRevision ELSE @]
  /\ UNCHANGED <<durable, reported>>

Go(s, step) ==
  /\ at' = [at EXCEPT ![s] = step]
  /\ UNCHANGED <<durable, reported>>
-----------------------------------------------------------------------------
(* Opening and publishing *)

\* Mutant: nothing is selected for a new chain.
SelectsNothing(exact) == IF exact # NoRevision THEN exact ELSE current

\* open_resource reads the pointer and selects the revision a save asks for,
\* else the current one, else the seed.
Selected(exact) ==
  IF exact # NoRevision THEN exact
  ELSE IF current # NoRevision THEN current ELSE Seed

OpenResource(s) ==
  /\ at[s] = "closed"
  /\ \E exact \in reported \cup {NoRevision} :
       /\ candidate' = [candidate EXCEPT ![s] = Selected(exact)]
       /\ Go(s, IF exact = NoRevision /\ current = NoRevision THEN "quota" ELSE "load")
  /\ base' = [base EXCEPT ![s] = current]
  /\ goal' = [goal EXCEPT ![s] = "open"]
  /\ UNCHANGED <<files, target, moved>>

\* _publish_if_autocommit: SQL changed the copy.
PublishCopy(s) ==
  /\ at[s] = "open"
  /\ \E revision \in Revisions \ {durable[s]} :
       candidate' = [candidate EXCEPT ![s] = revision]
  /\ Go(s, "quota")
  /\ goal' = [goal EXCEPT ![s] = "publish"]
  /\ moved' = [moved EXCEPT ![s] = FALSE]
  /\ UNCHANGED <<files, target, base>>

\* The temporary file of an atomic replacement stands beside its target.
Malformed(s) ==
  leftover \/ \E other \in Sessions \ {s} :
                at[other] = "replace" /\ target[other] = "revision"

\* Mutants: the candidate is not counted; the pointer is written first.
OverQuotaBefore(s) == Cardinality(revisions) > Limit
PointerFirst == "current"

OverQuota(s) == Cardinality(revisions \cup {candidate[s]}) > Limit
FirstTarget == "revision"

\* _enforce_chain_quota
CheckQuota(s) ==
  /\ at[s] = "quota"
  /\ \/ /\ Malformed(s) \/ OverQuota(s)
        /\ Fail(s) /\ UNCHANGED target
     \/ /\ ~Malformed(s) /\ ~OverQuota(s)
        /\ target' = [target EXCEPT ![s] = FirstTarget]
        /\ Go(s, "write") /\ UNCHANGED base
  /\ UNCHANGED <<files, goal, candidate, moved>>
-----------------------------------------------------------------------------
(* StorageBackend: a write of the Data namespace *)

\* _precondition_conflict: a revision, or a first pointer, must be missing; an
\* existing pointer must be the one the session saw.
Conflict(s) == IF target[s] = "revision" THEN candidate[s] \in revisions
                                         ELSE current # base[s]

\* The file the session writes holds what it wanted to write.
Written(s) == IF target[s] = "revision" THEN candidate[s] \in revisions
                                        ELSE current = candidate[s]

\* What follows a write that succeeded, or was found to have.
AfterWrite(s) ==
  \/ /\ target[s] = "revision"
     /\ target' = [target EXCEPT ![s] = "current"]
     /\ Go(s, "write") /\ UNCHANGED base
  \/ /\ target[s] = "current" /\ UNCHANGED target
     /\ base' = [base EXCEPT ![s] = candidate[s]]
     /\ IF goal[s] = "open" THEN Go(s, "load") ELSE Succeed(s)

\* Mutant: the lock is not taken.
IgnoresLock == TRUE
LockFree == lock = NoSession

\* Under the lock: the precondition holds and the temporary file is written ...
BeginWrite(s) ==
  /\ at[s] = "write" /\ LockFree /\ ~Conflict(s)
  /\ lock' = s
  /\ Go(s, "replace")
  /\ UNCHANGED <<current, revisions, leftover, target, goal, candidate, base, moved>>

\* ... or does not hold.  A revision that exists is the one to write, by its
\* digest; a pointer that exists is read again by an opening session.
RefuseWrite(s) ==
  /\ at[s] = "write" /\ LockFree /\ Conflict(s)
  /\ \/ target[s] = "revision" /\ AfterWrite(s)
     \/ /\ target[s] = "current" /\ UNCHANGED target
        /\ IF goal[s] = "open" THEN Go(s, "reread") /\ UNCHANGED base ELSE Fail(s)
  /\ UNCHANGED <<files, goal, candidate, moved>>

\* os.replace, still under the lock.
Replace(s) ==
  /\ revisions' = IF target[s] = "revision" THEN revisions \cup {candidate[s]}
                                            ELSE revisions
  /\ current' = IF target[s] = "current" THEN candidate[s] ELSE current
  /\ moved' = IF target[s] = "current" THEN [moved EXCEPT ![s] = TRUE] ELSE moved

\* Mutant: an error leaves the lock behind.
KeepsLock(s) == s
ReleasedLock(s) == NoSession

CommitWrite(s) ==
  /\ at[s] = "replace" /\ lock' = NoSession
  /\ Replace(s) /\ AfterWrite(s)
  /\ UNCHANGED <<leftover, goal, candidate>>

\* The write fails before or after the replacement and says so.
BreakWrite(s) ==
  /\ Unclear /\ at[s] = "replace" /\ lock' = ReleasedLock(s)
  /\ Replace(s) \/ UNCHANGED <<revisions, current, moved>>
  /\ Go(s, "readback")
  /\ UNCHANGED <<leftover, target, goal, candidate, base>>
-----------------------------------------------------------------------------
(* SqlRevisionStore, what it reads after a write *)

\* Mutant: an unclear write is taken for a failed one.
NeverWritten(s) == FALSE
FoundWritten(s) == Written(s)

\* _write reads an unclear write back.
ReadBack(s) ==
  /\ at[s] = "readback"
  /\ \/ FoundWritten(s) /\ AfterWrite(s)
     \/ ~FoundWritten(s) /\ Fail(s) /\ UNCHANGED target
  /\ UNCHANGED <<files, goal, candidate, moved>>

\* open_resource after a conflict: another process started the chain, from the
\* same seed unless it has already moved on.
Reread(s) ==
  /\ at[s] = "reread"
  /\ \/ /\ current = candidate[s]
        /\ base' = [base EXCEPT ![s] = current]
        /\ Go(s, "load")
     \/ current # candidate[s] /\ Fail(s)
  /\ UNCHANGED <<files, target, goal, candidate, moved>>

\* open_resource reads the selected revision at last.
Load(s) ==
  /\ at[s] = "load"
  /\ \/ candidate[s] \in revisions /\ Succeed(s) /\ UNCHANGED base
     \/ candidate[s] \notin revisions /\ Fail(s)
  /\ UNCHANGED <<files, target, goal, candidate, moved>>

\* deadline.checkpoint, before every request.
Timeout(s) ==
  /\ Timeouts /\ at[s] \in {"quota", "write", "readback", "reread", "load"}
  /\ Fail(s)
  /\ UNCHANGED <<files, target, goal, candidate, moved>>
-----------------------------------------------------------------------------
(* A session ends: _disconnect, or its process dies at any point *)

End(s) ==
  /\ at' = [at EXCEPT ![s] = "closed"]
  /\ base' = [base EXCEPT ![s] = NoRevision]
  /\ durable' = [durable EXCEPT ![s] = NoRevision]
  /\ UNCHANGED <<current, revisions, target, goal, candidate, reported, moved>>

DisconnectSession(s) ==
  /\ at[s] = "open" /\ End(s)
  /\ UNCHANGED <<leftover, lock>>

\* The file system releases the lock; nobody removes the temporary file.
Crash(s) ==
  /\ at[s] # "closed" /\ End(s)
  /\ leftover' = (leftover \/ (at[s] = "replace" /\ target[s] = "revision"))
  /\ lock' = IF lock = s THEN NoSession ELSE lock
-----------------------------------------------------------------------------
ChainInit ==
  /\ current = NoRevision /\ revisions = {} /\ leftover = FALSE
  /\ lock = NoSession
  /\ at = [s \in Sessions |-> "closed"]
  /\ target = [s \in Sessions |-> "revision"]
  /\ goal = [s \in Sessions |-> "open"]
  /\ candidate = [s \in Sessions |-> Seed]
  /\ base = [s \in Sessions |-> NoRevision]
  /\ durable = [s \in Sessions |-> NoRevision]
  /\ reported = {}
  /\ moved = [s \in Sessions |-> FALSE]

Write(s) == BeginWrite(s) \/ RefuseWrite(s) \/ CommitWrite(s) \/ BreakWrite(s)

Request(s) == CheckQuota(s) \/ Write(s) \/ ReadBack(s) \/ Reread(s) \/ Load(s)

Session(s) ==
  OpenResource(s) \/ PublishCopy(s) \/ Request(s) \/ Timeout(s) \/ DisconnectSession(s) \/ Crash(s)

ChainNext == \E s \in Sessions : Session(s)
ChainSpec == ChainInit /\ [][ChainNext]_chainVars

\* A session that does not crash goes on with its operation and is given the
\* lock in the end.
Fairness == \A s \in Sessions : SF_chainVars(Request(s))
FairSpec == ChainSpec /\ Fairness
-----------------------------------------------------------------------------
(* Properties *)

ChainTypeOK ==
  /\ current \in Pointers /\ revisions \subseteq Revisions /\ leftover \in BOOLEAN
  /\ lock \in Sessions \cup {NoSession}
  /\ at \in [Sessions -> Resting \cup {"quota", "write", "replace", "readback",
                                    "reread", "load"}]
  /\ target \in [Sessions -> {"revision", "current"}]
  /\ goal \in [Sessions -> {"open", "publish"}]
  /\ candidate \in [Sessions -> Revisions]
  /\ base \in [Sessions -> Pointers] /\ durable \in [Sessions -> Pointers]
  /\ reported \subseteq Revisions
  /\ moved \in [Sessions -> BOOLEAN]

\* Whatever crashes, times out or loses a race, the pointer and every revision
\* a runtime was told is durable, which a save may name, can be read.
Recoverable ==
  /\ current # NoRevision => current \in revisions
  /\ reported \subseteq revisions

\* The pointer is a compare-and-set register for the sessions: no publication
\* overwrites one that its session did not see.
Register == INSTANCE RevisionRegister WITH seen <- base
CompareAndSet == Register!Spec

\* "callers never roll back live SQLite state after current has durably
\* advanced" (sql_revision_store.py, _write).
RollsBack(s) ==
  /\ goal[s] = "publish" /\ at[s] \notin Resting
  /\ at'[s] = "open" /\ durable'[s] = durable[s]

NeverRolledBack == [][\A s \in Sessions : RollsBack(s) => ~moved[s]]_chainVars

\* The revisions of a chain stay within the limit every reader enforces.
WithinQuota == Cardinality(revisions) <= Limit

\* What _enforce_chain_quota requires of the listing holds whenever it looks.
ListingWellFormed == \A s \in Sessions : at[s] = "quota" => ~Malformed(s)

\* No operation waits for ever: the lock is always given back.
OperationSettles == \A s \in Sessions : at[s] \notin Resting ~> at[s] \in Resting
=============================================================================
