------------------------------- MODULE Viewport -------------------------------
(***************************************************************************)
(* What the terminal shows of the app's copy of the surface, and what the  *)
(* player can click: the copy (presentation.py) notes from where it        *)
(* changed, and the viewport (widgets.py) changes only the rows, and looks *)
(* only at the buttons, this may concern.  A button is enabled while its   *)
(* generation is the current one and its sequence is past those retired    *)
(* with the last submission; a submission that is rejected, or whose       *)
(* surface the next wait keeps, gives them back (app_shell.py,             *)
(* app_worker.py).                                                         *)
(* A row is a line with the delete buttons that hang on its right edge.    *)
(* Layout, colours, scrolling and the alignment of box rows are left out.  *)
(***************************************************************************)
EXTENDS PresentationModel

CONSTANTS
  Kinds,        \* of lines: "plain", "button", "edge"
  Generations,  \* of buttons
  Waits,        \* NoWait and others
  MaxOperations, MaxSubmissions, MaxLocks,  \* bounds
  Careful       \* TRUE: a delete button only changes with the line it hangs on

ASSUME ViewportAssumption ==
  /\ {Limit, MaxOperations, MaxSubmissions, MaxLocks} \subseteq Nat /\ Limit > 0
  /\ Kinds \subseteq {"plain", "button", "edge"} /\ Generations \subseteq Nat
  /\ NoWait \in Waits /\ Careful \in BOOLEAN

VARIABLES
  copy,    \* PresentationModel: its lines, and those hidden above them
  note,    \* changed_from and trimmed_prefix, which a commit takes
  policy,  \* button generation, next and retired interaction sequence
  input,   \* active_wait, _activated_wait, _pending_retired_interaction_boundary
  view,    \* GameViewport: its children, prefix lengths, policy and switch
  past,    \* the buttons that were retired for good
  budget   \* what is left of the bounds

viewportVars == <<copy, note, policy, input, view, past, budget>>

None == -1
NoGeneration == 0
Clean == [from |-> None, trimmed |-> 0]
Everywhere == [from |-> 0, trimmed |-> 0]
Members(s) == {s[i] : i \in DOMAIN s}

\* segment_interaction_enabled
Enabled(line, generation, retired) ==
  /\ line.token # 0 /\ line.seq > retired
  /\ generation = NoGeneration \/ line.generation \in {NoGeneration, generation}
-----------------------------------------------------------------------------
(* The copy: from which line on an operation changes it *)

Earliest(from, index) == IF from = None \/ index < from THEN index ELSE from
Marked(n, index) == [n EXCEPT !.from = Earliest(@, index)]

\* The first lines went, and the change moved up with the others.
Trimmed(n, count) ==
  [from |-> IF n.from = None THEN None ELSE IF n.from < count THEN 0 ELSE n.from - count,
   trimmed |-> n.trimmed + count]

Noted(op, after) ==
  LET size == Len(copy.lines)
      gone == size - Len(after.lines)
  IN CASE op.tag \in {"append", "generation"} -> Marked(note, size)
       [] op.tag = "delete" -> IF gone > 0 THEN Marked(note, Len(after.lines)) ELSE note
       [] op.tag = "replace" ->
            Marked(note, CHOOSE i \in 0..(size - 1) : copy.lines[i + 1].id = op.line.id)
       [] op.tag = "clear" -> Marked(note, 0)
       [] op.tag = "trim" ->
            IF gone = 0 THEN note
            ELSE Trimmed(IF note.from = None THEN [note EXCEPT !.from = size] ELSE note, gone)

\* _assign_interaction_sequences: only a button that was not there gets a new one.
SequenceAnew(line, old) == IF line.token = 0 THEN 0 ELSE policy.next
SequenceOf(line, old) ==
  IF line.token = 0 THEN 0
  ELSE IF \E l \in old : l.token = line.token
       THEN (CHOOSE l \in old : l.token = line.token).seq ELSE policy.next

FreshLine(kind, generation) ==
  [id |-> budget.operations, token |-> IF kind = "plain" THEN 0 ELSE budget.operations,
   generation |-> generation, edge |-> kind = "edge", text |-> 0, seq |-> 0]
NewLines ==
  {FreshLine(kind, g) : kind \in Kinds \ {"plain"}, g \in Generations}
    \cup {FreshLine(kind, NoGeneration) : kind \in Kinds \cap {"plain"}}

\* Lines change from here on, and a delete button with the line it hangs on.
MayStart(index) == Careful => ~copy.lines[index].edge

Changes ==
  LET size == Len(copy.lines)
      starts == {i \in 1..size : MayStart(i)}
  IN  {[tag |-> "append", line |-> l] : l \in NewLines}
        \cup {[tag |-> "delete", count |-> size - i + 1] : i \in starts}
        \cup {[tag |-> "replace", line |-> [l EXCEPT !.id = copy.lines[i].id]] :
               i \in starts, l \in NewLines}
        \cup {[tag |-> "replace", line |-> [copy.lines[i] EXCEPT !.text = 1]] : i \in starts}
        \cup {[tag |-> "trim", count |-> n] : n \in 1..(size + copy.hidden)}
        \cup {[tag |-> "generation", generation |-> g] : g \in Generations}
        \cup {[tag |-> "clear"]}

\* With its sequence, which an operation that brings a line assigns.
Assigned(op) ==
  IF op.tag \notin {"append", "replace"} THEN op
  ELSE LET old == {l \in Members(copy.lines) : op.tag = "replace" /\ l.id = op.line.id}
       IN  [op EXCEPT !.line.seq = SequenceOf(op.line, old)]

NextAfter(lines) ==
  IF \E l \in Members(lines) : l.seq = policy.next THEN policy.next + 1 ELSE policy.next
-----------------------------------------------------------------------------
(* The viewport *)

Interactive(child) == \E l \in Members(child.row) : l.token # 0
HasEnabled(row, generation, retired) ==
  \E l \in Members(row) : Enabled(l, generation, retired)

\* _line_widget, and _replace_child_line
Widget(v, row) ==
  [row |-> row, on |-> v.on, generation |-> v.generation, retired |-> v.retired,
   listed |-> HasEnabled(row, v.generation, v.retired)]

\* The children a new policy may concern: the listed, those whose generation
\* becomes the current one, and those whose submission is taken back.
OnlyListed(v, child, generation, retired) == child.listed
Concerned(v, child, generation, retired) ==
  \/ child.listed
  \/ /\ generation # v.generation \/ retired < v.retired
     /\ \E l \in Members(child.row) :
          /\ l.token # 0
          /\ \/ generation = NoGeneration
             \/ l.generation = generation
             \/ l.generation = NoGeneration /\ retired < v.retired

ApplyPolicy(v, generation, retired) ==
  LET told(child) ==
        [child EXCEPT !.on = v.on, !.generation = generation, !.retired = retired,
                      !.listed = HasEnabled(child.row, generation, retired)]
  IN  IF v.generation = generation /\ v.retired = retired THEN v
      ELSE [v EXCEPT !.generation = generation, !.retired = retired,
              !.children = [i \in DOMAIN @ |->
                              IF Concerned(v, @[i], generation, retired) THEN told(@[i]) ELSE @[i]]]

\* _merge_save_delete_lines_with_prefixes: how many rows the first lines make.
MergeLine(merged, line) ==
  LET rows == IF line.edge /\ merged.rows # <<>>
              THEN [merged.rows EXCEPT ![Len(merged.rows)] = Append(@, line)]
              ELSE Append(merged.rows, <<line>>)
  IN  [rows |-> rows, prefix |-> Append(merged.prefix, Len(rows))]
Merged(lines) == FoldLeft(MergeLine, [rows |-> <<>>, prefix |-> <<0>>], lines)

\* The rows from the changed line on are enough, unless a delete button is
\* among them or the first lines went.
AlwaysSuffix(v, lines, n) == n.from # None /\ n.from < Len(v.prefix)
Suffix(v, lines, n) ==
  /\ n.from # None /\ n.from < Len(v.prefix) /\ n.trimmed = 0
  /\ \A i \in (n.from + 1)..Len(lines) : ~lines[i].edge

CommonRows(rows, children) ==
  CHOOSE n \in 0..Least(Len(rows), Len(children)) :
    /\ \A i \in 1..n : rows[i] = children[i].row
    /\ n < Least(Len(rows), Len(children)) => rows[n + 1] # children[n + 1].row

\* The children that show the rows, of which so many are as they were.
Reconciled(v, children, rows, common) ==
  LET size == Len(children)
      shared == Least(size, Len(rows))
  IN  IF common = shared
      THEN FirstLines(children, shared)
             \o [i \in 1..(Len(rows) - shared) |-> Widget(v, rows[shared + i])]
      ELSE [i \in DOMAIN rows |->
              IF size = Len(rows) /\ (i <= common \/ children[i].row = rows[i])
              THEN children[i] ELSE Widget(v, rows[i])]

SetLines(old, lines, n, generation, retired) ==
  LET v == ApplyPolicy(old, generation, retired)
      trim == Least(n.trimmed, Len(v.prefix) - 1)
      children == DropLines(v.children, v.prefix[trim + 1])
      merged == Merged(lines)
  IN  IF Suffix(v, lines, n)
      THEN LET common == Least(v.prefix[n.from + 1], Len(children))
               rows == [i \in 1..common |-> children[i].row]
                         \o [i \in 1..(Len(lines) - n.from) |-> <<lines[n.from + i]>>]
           IN  [v EXCEPT !.children = Reconciled(v, children, rows, common),
                         !.prefix = FirstLines(@, n.from + 1)
                           \o [i \in 1..(Len(lines) - n.from) |-> common + i]]
      ELSE [v EXCEPT !.children =
                         Reconciled(v, children, merged.rows, CommonRows(merged.rows, children)),
                     !.prefix = merged.prefix]

\* enable_interactions, disable_interactions
Switched(v, on) ==
  IF v.on = on THEN v
  ELSE [v EXCEPT !.on = on,
          !.children = [i \in DOMAIN @ |-> IF @[i].listed THEN [@[i] EXCEPT !.on = on] ELSE @[i]]]
-----------------------------------------------------------------------------
ViewportInit ==
  /\ copy = EmptyCopy(0, 0, FALSE) /\ note = Everywhere
  /\ policy = [generation |-> NoGeneration, next |-> 1, retired |-> 0]
  /\ input = [wait |-> NoWait, activated |-> NoWait, boundary |-> None]
  /\ view = [children |-> <<>>, prefix |-> <<0>>, generation |-> NoGeneration, retired |-> 0,
             on |-> TRUE]
  /\ past = {}
  /\ budget = [operations |-> MaxOperations, submissions |-> MaxSubmissions, locks |-> MaxLocks]

\* Several operations may come in a delta, which ends when the copy fits.
Whole == Len(copy.lines) <= Limit

Operate ==
  \E op \in Changes :
    LET given == Assigned(op)
        after == Apply(copy, given)
    IN  /\ budget.operations > 0
        /\ copy' = after /\ note' = Noted(op, after)
        /\ policy' = [policy EXCEPT !.next = NextAfter(after.lines),
                        !.generation = IF op.tag = "generation" THEN op.generation ELSE @]
        /\ budget' = [budget EXCEPT !.operations = @ - 1]
        /\ UNCHANGED <<input, view, past>>

EndDelta ==
  /\ ~Whole
  /\ copy' = Fit(copy) /\ note' = Trimmed(note, Len(copy.lines) - Limit)
  /\ UNCHANGED <<policy, input, view, past, budget>>

\* A resynchronization shows what was there, and perhaps something new.
Snapshot ==
  \E keep \in 0..Len(copy.lines), new \in {<<>>} \cup {<<l>> : l \in NewLines} :
    LET old == Members(copy.lines)
        shown == FirstLines(copy.lines, keep) \o new
        lines == [i \in DOMAIN shown |-> [shown[i] EXCEPT !.seq = SequenceOf(shown[i], old)]]
    IN  /\ Whole /\ budget.operations > 0
        /\ copy' = Fit([copy EXCEPT !.lines = lines]) /\ note' = Everywhere
        /\ policy' = [policy EXCEPT !.next = NextAfter(lines), !.generation = NoGeneration]
        /\ budget' = [budget EXCEPT !.operations = @ - 1]
        /\ UNCHANGED <<input, view, past>>

\* _reset_game_state_projection: another game begins.
Reset ==
  /\ Whole /\ budget.operations > 0
  /\ copy' = EmptyCopy(0, 0, FALSE) /\ note' = Everywhere
  /\ policy' = [policy EXCEPT !.generation = NoGeneration]
  /\ input' = [wait |-> NoWait, activated |-> NoWait, boundary |-> None]
  /\ budget' = [budget EXCEPT !.operations = @ - 1]
  /\ UNCHANGED <<view, past>>

\* _submit_active_wait, _activate_button: what is shown is retired at once.
Submit ==
  /\ Whole /\ budget.submissions > 0
  /\ input.wait \notin {NoWait, input.activated}
  /\ input' = [input EXCEPT !.activated = input.wait, !.boundary = policy.retired]
  /\ policy' = [policy EXCEPT !.retired = policy.next - 1]
  /\ note' = Marked(note, Len(copy.lines))
  /\ view' = Switched(view, FALSE)
  /\ budget' = [budget EXCEPT !.submissions = @ - 1]
  /\ UNCHANGED <<copy, past>>

\* restore_submitted_interaction_boundary: nothing newer replaced the surface.
Keeps == policy.retired = policy.next - 1

\* _set_active_wait
NewWait ==
  \E wait \in Waits \ {input.wait} :
    LET pending == wait # NoWait /\ input.boundary # None
    IN  /\ Whole
        /\ input' = [wait |-> wait, activated |-> NoWait,
                     boundary |-> IF pending THEN None ELSE input.boundary]
        /\ policy' = [policy EXCEPT !.retired = IF pending /\ Keeps THEN input.boundary ELSE @]
        /\ note' = IF pending /\ Keeps THEN Marked(note, Len(copy.lines)) ELSE note
        /\ past' = IF pending /\ ~Keeps
                   THEN past \cup {l.token : l \in {m \in Members(copy.lines) :
                                                      m.token # 0 /\ m.seq <= policy.retired}}
                   ELSE past
        /\ UNCHANGED <<copy, view, budget>>

\* "interaction_rejected" for the wait that was answered
Rejected ==
  /\ Whole /\ input.activated # NoWait
  /\ input' = [input EXCEPT !.activated = NoWait, !.boundary = None]
  /\ policy' = [policy EXCEPT !.retired = IF input.boundary = None THEN @ ELSE input.boundary]
  /\ note' = IF input.boundary = None THEN note ELSE Marked(note, Len(copy.lines))
  /\ UNCHANGED <<copy, view, past, budget>>

\* _refresh_interaction_lock, for whatever blocks or no longer blocks the game
Switch ==
  /\ Whole /\ budget.locks > 0
  /\ view' = Switched(view, ~view.on)
  /\ budget' = [budget EXCEPT !.locks = @ - 1]
  /\ UNCHANGED <<copy, note, policy, input, past>>

\* _commit_presentation, take_render_change, set_lines
CommitLines ==
  /\ Whole
  /\ view' = SetLines(view, copy.lines, note, policy.generation, policy.retired)
  /\ note' = Clean
  /\ UNCHANGED <<copy, policy, input, past, budget>>

ViewportNext ==
  \/ Operate \/ EndDelta \/ Snapshot \/ Reset
  \/ Submit \/ NewWait \/ Rejected
  \/ Switch \/ CommitLines

ViewportSpec == ViewportInit /\ [][ViewportNext]_viewportVars
-----------------------------------------------------------------------------
(* Properties *)

UpToDate == note = Clean

\* The rows on the screen are the lines of the copy, whichever of them a
\* commit touched (set_lines reconciles only what the copy noted as changed).
RowsMatch ==
  UpToDate => /\ [i \in DOMAIN view.children |-> view.children[i].row] = Merged(copy.lines).rows
           /\ view.prefix = Merged(copy.lines).prefix

\* A button can be clicked when the copy would take the click and the game is
\* not locked, although a commit and a lock only tell some of the rows.
ButtonsMatch ==
  UpToDate => \A child \in Members(view.children) : \A l \in Members(child.row) :
             (child.on /\ Enabled(l, child.generation, child.retired))
               = (view.on /\ Enabled(l, policy.generation, policy.retired))

\* A button whose prompt was answered, and replaced by a newer one, is never
\* offered again: not by a rejection, a snapshot, or new content of its line.
RetiredForGood ==
  \A l \in Members(copy.lines) :
    l.token \in past => ~Enabled(l, policy.generation, policy.retired)

\* What is on the screen is what the copy and the policy say.
ScreenTrue == RowsMatch /\ ButtonsMatch
=============================================================================
