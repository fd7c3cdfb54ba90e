--------------------------- MODULE RevisionRegister ---------------------------
(***************************************************************************)
(* What SqlRevisionStore promises the processes that share one chain of    *)
(* database revisions: the current pointer is a compare-and-set register.  *)
(* A session remembers the pointer it last saw; it moves the pointer only  *)
(* while the pointer is still that.  Seeing, moving and forgetting are     *)
(* atomic, whatever files, locks and crashes stand behind them.            *)
(***************************************************************************)
CONSTANTS Sessions, Revisions, NoRevision

VARIABLES
  current,   \* the revision the pointer names, or NoRevision
  seen       \* what each session last saw there

Pointers == Revisions \cup {NoRevision}

Init ==
  /\ current = NoRevision
  /\ seen = [s \in Sessions |-> NoRevision]

\* A session reads the pointer.
See(s) ==
  /\ seen' = [seen EXCEPT ![s] = current]
  /\ UNCHANGED current

\* A session moves the pointer, and may fail to learn that it did.
Move(s) ==
  /\ seen[s] = current
  /\ current' \in Revisions
  /\ seen' \in {seen, [seen EXCEPT ![s] = current']}

\* A session ends.
Forget(s) ==
  /\ seen' = [seen EXCEPT ![s] = NoRevision]
  /\ UNCHANGED current

Next == \E s \in Sessions : See(s) \/ Move(s) \/ Forget(s)

Spec == Init /\ [][Next]_<<current, seen>>
=============================================================================
