--------------------------- MODULE PresentationModel ---------------------------
(***************************************************************************)
(* What one operation of a presentation delta does to a copy of the        *)
(* surface, of which there are two: the worker's, which keeps the whole    *)
(* history for the runtime's services (presentation_service.py), and the   *)
(* app's, which keeps the tail the terminal shows and counts the lines     *)
(* hidden above it (presentation.py).  And how the worker merges the       *)
(* deltas of a running game into one.                                      *)
(* A copy is [rev, lines, hidden, wait, scene, active, failed]; the        *)
(* worker's copy hides nothing.  A line is whatever its user makes of it,  *)
(* with an id; the scene is its revision.  Titles, colours, resources and  *)
(* settings are left out, and with them the operations that only store.    *)
(***************************************************************************)
EXTENDS Integers, Sequences, SequencesExt

CONSTANT Limit  \* lines the app keeps (maximum_physical_lines and the budgets)

NoWait == 0

EmptyCopy(rev, scene, active) ==
  [rev |-> rev, lines |-> <<>>, hidden |-> 0, wait |-> NoWait, scene |-> scene,
   active |-> active, failed |-> FALSE]

Least(a, b) == IF a < b THEN a ELSE b
FirstLines(lines, n) == SubSeq(lines, 1, n)
DropLines(lines, n) == SubSeq(lines, n + 1, Len(lines))

\* The operations that may belong to a game that was retired are not applied
\* until its history is cleared (ReplacementBoundary.accepts_operation).
RetiredOperations == {"append", "delete", "wait", "replace", "trim"}
Everything(copy, op) == TRUE
Accepts(copy, op) == ~copy.active \/ op.tag \notin RetiredOperations

-----------------------------------------------------------------------------
(* The operations *)

AppendLine(copy, op) == [copy EXCEPT !.lines = Append(@, op.line)]

\* More lines may be deleted than are kept: the others were hidden.
DeleteTail(copy, op) ==
  LET count == Least(op.count, Len(copy.lines)) IN
  [copy EXCEPT !.lines = FirstLines(@, Len(@) - count),
               !.hidden = IF @ < op.count - count THEN 0 ELSE @ - (op.count - count)]

ClearHistory(copy, op) == [copy EXCEPT !.lines = <<>>, !.hidden = 0, !.active = FALSE]

ReplaceLine(copy, op) ==
  [copy EXCEPT !.lines = [i \in DOMAIN @ |-> IF @[i].id = op.line.id THEN op.line ELSE @[i]]]

\* The oldest lines go, the hidden ones first.
TrimLines(copy, op) ==
  LET hidden == Least(op.count, copy.hidden)
  IN  [copy EXCEPT !.hidden = @ - hidden,
                   !.lines = DropLines(@, Least(op.count - hidden, Len(@)))]

SetInputWait(copy, op) == [copy EXCEPT !.wait = op.wait]

\* A scene delta is bound to the revision it starts at, and may be malformed.
SceneDelta(copy, op) ==
  IF op.base = copy.scene THEN [copy EXCEPT !.scene = op.next] ELSE [copy EXCEPT !.failed = TRUE]

Apply(copy, op) ==
  CASE op.tag = "append" -> AppendLine(copy, op)
    [] op.tag = "delete" -> DeleteTail(copy, op)
    [] op.tag = "clear" -> ClearHistory(copy, op)
    [] op.tag = "wait" -> SetInputWait(copy, op)
    [] op.tag = "replace" -> ReplaceLine(copy, op)
    [] op.tag = "trim" -> TrimLines(copy, op)
    [] op.tag = "scene" -> SceneDelta(copy, op)
    [] op.tag = "generation" -> copy

ApplyOperation(copy, op) ==
  IF copy.failed \/ ~Accepts(copy, op) THEN copy ELSE Apply(copy, op)

ApplyAll(copy, ops) == FoldLeft(ApplyOperation, copy, ops)

\* _trim_viewport_lines: the terminal keeps so many lines.
Fit(copy) ==
  LET count == IF Len(copy.lines) > Limit THEN Len(copy.lines) - Limit ELSE 0
  IN  [copy EXCEPT !.lines = DropLines(@, count), !.hidden = @ + count]
-----------------------------------------------------------------------------
(* PresentationDeltaAccumulator: the operations of the deltas, merged *)

Destructive == {"delete", "clear", "trim", "generation"}

\* Where an operation may still be merged with an earlier one.
RegionOf(ops) ==
  {i \in DOMAIN ops : \A j \in DOMAIN ops : j >= i => ops[j].tag \notin Destructive}

\* The operation a later one replaces: of its line, or of the same state.
Superseded(ops, op) ==
  CASE op.tag = "replace" ->
         {i \in RegionOf(ops) : ops[i].tag \in {"append", "replace"} /\ ops[i].line.id = op.line.id}
    [] op.tag = "wait" -> {i \in DOMAIN ops : ops[i].tag = "wait"}
    [] OTHER -> {}

KeepsFirst(ops, op) == IF Superseded(ops, op) = {} THEN Append(ops, op) ELSE ops
MergeOperation(ops, op) ==
  LET same == Superseded(ops, op)
      \* an appended line stays appended, with the content that replaces its own
      first == {i \in same : ops[i].tag = "append"}
      at == CHOOSE i \in IF first # {} THEN first ELSE same : TRUE
  IN  IF same = {} THEN Append(ops, op)
      ELSE [ops EXCEPT ![at] = IF first # {} THEN [op EXCEPT !.tag = "append"] ELSE op]

Merge(ops, more) == FoldLeft(MergeOperation, ops, more)
=============================================================================
