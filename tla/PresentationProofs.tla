---------------------------- MODULE PresentationProofs ----------------------------
(***************************************************************************)
(* What Viewport shows for a few operations and three kinds of lines, for  *)
(* any number of them: a button that was retired for good is not offered   *)
(* again, and the screen shows the lines and the buttons of the copy,      *)
(* whichever rows a commit touched.                                        *)
(* Of Presentation, that the copies of the worker and of the app agree and *)
(* that a game that was left shows nothing, for any number of outputs,     *)
(* returns, faults and batches, where a scene is edited only before a game *)
(* is left.                                                                *)
(* What a fold over a sequence makes is reasoned about from the elements   *)
(* before the last: two folds that differ would first do so somewhere, and *)
(* a set of numbers has a least one.                                       *)
(***************************************************************************)
EXTENDS Presentation, Viewport, SequenceTheorems, FiniteSetTheorems, WellFoundedInduction, TLAPS
-----------------------------------------------------------------------------
(* Induction, and folds *)

\* What a fold does with one element.
Step(kind, x, e) ==
  CASE kind = "line" -> MergeLine(x, e)
    [] kind = "apply" -> ApplyOperation(x, e)
    [] kind = "merge" -> MergeOperation(x, e)
    [] kind = "event" -> CopyAfter(x, e)
    [] kind = "filter" ->
         IF Accepts([active |-> worker.active /\ \A i \in DOMAIN x : x[i].tag # "clear"], e)
         THEN Append(x, e) ELSE x

\* The function that a fold over the first elements of a sequence is defined by.
Folds(kind, base, s, n, f) ==
  f = [t \in SUBSET (1..n) |->
         IF t = {} THEN base ELSE Step(kind, f[t \ {Max(t)}], s[Max(t)])]
Run(kind, base, s) == (CHOOSE f : Folds(kind, base, s, Len(s), f))[1..Len(s)]

\* The sequences begin alike.
Alike(s, r, n) == \A i \in 1..n : s[i] = r[i]

\* A set of numbers has a least one.
LEMMA LeastOf ==
  ASSUME NEW T \in SUBSET Nat, T # {}
  PROVE  \E n \in T : \A m \in T : n <= m
<1>1. PICK n \in T : \A m \in T : ~(<<m, n>> \in OpToRel(<, Nat))
  BY NatLessThanWellFounded, WFMin, Zenon
<1>2. \A m \in T : ~(m < n)
  BY <1>1, Zenon DEF OpToRel
<1>3. \A m \in T : m \in Nat /\ n \in Nat
  BY <1>1
<1> QED
  BY <1>2, <1>3

\* Induction up to a number.
LEMMA UpTo ==
  ASSUME NEW n \in Nat, NEW T, 0 \in T, \A i \in 0..(n - 1) : i \in T => i + 1 \in T
  PROVE  0..n \subseteq T
<1> DEFINE bad == {i \in 0..n : i \notin T}
<1>1. bad \in SUBSET Nat
  OBVIOUS
<1> SUFFICES ASSUME bad # {} PROVE FALSE
  OBVIOUS
<1>2. PICK m \in bad : \A i \in bad : m <= i
  BY <1>1, LeastOf
<1>3. m \in 0..n /\ m \notin T /\ m # 0
  BY <1>2
<1>4. m - 1 \in 0..(n - 1) /\ m - 1 \in 0..n /\ ~(m <= m - 1) /\ (m - 1) + 1 = m
  BY <1>3
<1>5. m - 1 \notin bad
  BY <1>2, <1>4
<1> QED
  BY <1>3, <1>4, <1>5

\* The greatest of some numbers, and those below it.
LEMMA MaxOf ==
  ASSUME NEW n \in Nat, NEW t \in SUBSET (1..n), t # {}
  PROVE  /\ Max(t) \in t /\ \A m \in t : m <= Max(t)
         /\ t \ {Max(t)} \in SUBSET (1..(Max(t) - 1))
<1> DEFINE above == {m \in Nat : \A x \in t : x <= m}
<1>1. n \in above
  OBVIOUS
<1>2. PICK m \in above : \A o \in above : m <= o
  BY <1>1, LeastOf
<1>3. m \in t
  <2> SUFFICES ASSUME m \notin t PROVE FALSE
    OBVIOUS
  <2>1. \A x \in t : x \in Nat /\ x # 0 /\ x <= m /\ x # m
    BY <1>2
  <2>2. m \in Nat /\ m # 0
    <3>1. PICK x \in t : TRUE
      OBVIOUS
    <3>2. x \in Nat /\ x # 0 /\ x <= m /\ m \in Nat
      BY <2>1, <3>1, <1>2
    <3> QED
      BY <3>2
  <2>3. \A x \in t : x <= m - 1
    BY <2>1, <2>2
  <2>4. m - 1 \in above
    BY <2>2, <2>3
  <2> QED
    BY <2>2, <2>4, <1>2
<1>4. Max(t) \in t /\ \A x \in t : Max(t) >= x
  <2>1. \A x \in t : m >= x
    BY <1>2
  <2> QED
    BY <1>3, <2>1 DEF Max
<1>5. \A x \in t : x \in Nat /\ x >= 1
  OBVIOUS
<1>6. ASSUME NEW x \in t \ {Max(t)} PROVE x \in 1..(Max(t) - 1)
  <2>1. x \in Nat /\ x >= 1 /\ Max(t) \in Nat /\ x <= Max(t) /\ x # Max(t)
    BY <1>4, <1>5
  <2> QED
    BY <2>1
<1> QED
  BY <1>4, <1>5, <1>6

\* There is such a function.
LEMMA FoldExists ==
  ASSUME NEW kind, NEW base, NEW s, NEW n \in Nat
  PROVE  \E f : Folds(kind, base, s, n, f)
<1> DEFINE T == {m \in Nat : \E f : Folds(kind, base, s, m, f)}
<1>1. 0 \in T
  <2>1. SUBSET (1..0) = {{}}
    OBVIOUS
  <2>2. Folds(kind, base, s, 0, [t \in SUBSET (1..0) |-> base])
    BY <2>1 DEF Folds
  <2> QED
    BY <2>2
<1>2. ASSUME NEW i \in 0..(n - 1), i \in T PROVE i + 1 \in T
  <2> DEFINE m == i + 1
  <2>1. m \in Nat /\ i \in Nat /\ m - 1 = i
    OBVIOUS
  <2>2. PICK f : Folds(kind, base, s, i, f)
    BY <1>2
  <2> HIDE DEF m
  <2> DEFINE g == [t \in SUBSET (1..m) |->
                     IF m \in t THEN Step(kind, f[t \ {m}], s[m]) ELSE f[t]]
  <2>3. ASSUME NEW t \in SUBSET (1..m)
        PROVE  g[t] = IF t = {} THEN base ELSE Step(kind, g[t \ {Max(t)}], s[Max(t)])
    <3>1. CASE t = {}
      BY <2>1, <2>2, <3>1 DEF Folds
    <3>2. CASE t # {}
      <4>1. Max(t) \in t /\ (\A x \in t : x <= Max(t)) /\ t \ {Max(t)} \in SUBSET (1..(Max(t) - 1))
        BY <3>2, <2>1, MaxOf
      <4>2. CASE m \in t
        <5>1. Max(t) = m
          <6>1. m <= Max(t) /\ Max(t) \in 1..m
            BY <4>1, <4>2
          <6> QED
            BY <6>1, <2>1
        <5>2. t \ {m} \in SUBSET (1..m) /\ m \notin t \ {m}
          BY <4>1, <5>1
        <5>3. g[t \ {m}] = f[t \ {m}]
          BY <5>2
        <5>4. g[t] = Step(kind, f[t \ {m}], s[m])
          BY <4>2
        <5> HIDE DEF g
        <5> QED
          BY <5>1, <5>3, <5>4, <3>2
      <4>3. CASE m \notin t
        <5>1. t \in SUBSET (1..i)
          BY <4>3, <2>1
        <5>2. f[t] = Step(kind, f[t \ {Max(t)}], s[Max(t)])
          BY <5>1, <2>2, <3>2 DEF Folds
        <5>3. t \ {Max(t)} \in SUBSET (1..m) /\ m \notin t \ {Max(t)}
          BY <4>3
        <5>4. g[t] = f[t] /\ g[t \ {Max(t)}] = f[t \ {Max(t)}]
          BY <4>3, <5>3
        <5> HIDE DEF g
        <5> QED
          BY <5>2, <5>4, <3>2
      <4> QED
        BY <4>2, <4>3
    <3> QED
      BY <3>1, <3>2
  <2>4. g = [t \in SUBSET (1..m) |-> g[t]]
    OBVIOUS
  <2>5. Folds(kind, base, s, m, g)
    <3> HIDE DEF g
    <3> QED
      BY <2>3, <2>4 DEF Folds
  <2> QED
    BY <2>1, <2>5 DEF m
<1>3. 0..n \subseteq T
  <2> HIDE DEF T
  <2> QED
    BY <1>1, <1>2, UpTo
<1> QED
  BY <1>3

\* Folds over sequences that begin alike agree there.
LEMMA FoldsAgree ==
  ASSUME NEW kind, NEW base, NEW s, NEW r, NEW f, NEW g, NEW n \in Nat, NEW p \in Nat, n <= p,
         Alike(s, r, n),
         Folds(kind, base, s, n, f), Folds(kind, base, r, p, g)
  PROVE  f[1..n] = g[1..n]
<1> DEFINE T == {m \in Nat : \A t \in SUBSET (1..n) : t \in SUBSET (1..m) => f[t] = g[t]}
<1>1. 0 \in T
  <2>1. \A t \in SUBSET (1..0) : t = {}
    OBVIOUS
  <2>2. f[{}] = base /\ g[{}] = base
    <3>1. {} \in SUBSET (1..n) /\ {} \in SUBSET (1..p)
      OBVIOUS
    <3> QED
      BY <3>1 DEF Folds
  <2> QED
    BY <2>1, <2>2
<1>2. ASSUME NEW i \in 0..(n - 1), i \in T PROVE i + 1 \in T
  <2> SUFFICES ASSUME NEW t \in SUBSET (1..n), t \in SUBSET (1..(i + 1)) PROVE f[t] = g[t]
    OBVIOUS
  <2>1. CASE t = {}
    BY <2>1, <1>1
  <2>2. CASE t # {}
    <3>1. Max(t) \in t /\ t \ {Max(t)} \in SUBSET (1..(Max(t) - 1))
      BY <2>2, MaxOf
    <3>2. Max(t) \in 1..(i + 1) /\ Max(t) \in 1..n
      BY <3>1
    <3>3. t \ {Max(t)} \in SUBSET (1..i) /\ t \ {Max(t)} \in SUBSET (1..n)
      BY <3>1, <3>2
    <3>4. f[t \ {Max(t)}] = g[t \ {Max(t)}]
      BY <3>3, <1>2
    <3>5. s[Max(t)] = r[Max(t)]
      BY <3>2 DEF Alike
    <3>6. f[t] = Step(kind, f[t \ {Max(t)}], s[Max(t)])
      BY <2>2 DEF Folds
    <3>7. t \in SUBSET (1..p)
      OBVIOUS
    <3>8. g[t] = Step(kind, g[t \ {Max(t)}], r[Max(t)])
      BY <2>2, <3>7 DEF Folds
    <3> QED
      BY <3>4, <3>5, <3>6, <3>8
  <2> QED
    BY <2>1, <2>2
<1>3. 0..n \subseteq T
  <2> HIDE DEF T
  <2> QED
    BY <1>1, <1>2, UpTo
<1>4. n \in T
  BY <1>3
<1> QED
  BY <1>4

\* A fold over nothing.
LEMMA RunNone ==
  ASSUME NEW kind, NEW base
  PROVE  Run(kind, base, <<>>) = base
<1>1. \E f : Folds(kind, base, <<>>, 0, f)
  BY FoldExists
<1>2. Folds(kind, base, <<>>, 0, CHOOSE f : Folds(kind, base, <<>>, 0, f))
  BY <1>1
<1>3. Len(<<>>) = 0 /\ 1..0 = {}
  OBVIOUS
<1> QED
  BY <1>2, <1>3 DEF Folds, Run

\* A fold over one element more.
LEMMA RunMore ==
  ASSUME NEW kind, NEW base, NEW S, NEW s \in Seq(S), NEW e
  PROVE  Run(kind, base, Append(s, e)) = Step(kind, Run(kind, base, s), e)
<1> DEFINE more == Append(s, e)
<1>n. PICK n \in Nat : n = Len(s)
  OBVIOUS
<1>p. PICK p \in Nat : p = n + 1
  OBVIOUS
<1>1. /\ n \in Nat /\ p \in Nat /\ n <= p /\ p \in 1..p /\ p - 1 = n
      /\ Len(more) = p /\ more[p] = e /\ Alike(s, more, n)
  BY <1>n, <1>p DEF Alike
<1> HIDE DEF more
<1>2. PICK f : Folds(kind, base, s, n, f) /\ Run(kind, base, s) = f[1..n]
  <2>1. \E f : Folds(kind, base, s, n, f)
    BY <1>1, FoldExists
  <2> QED
    BY <2>1, <1>n DEF Run
<1>3. PICK g : Folds(kind, base, more, p, g) /\ Run(kind, base, more) = g[1..p]
  <2>1. \E g : Folds(kind, base, more, p, g)
    BY <1>1, FoldExists
  <2> QED
    BY <1>1, <2>1 DEF Run
<1>4. f[1..n] = g[1..n]
  <2>1. /\ n \in Nat /\ p \in Nat /\ n <= p /\ Alike(s, more, n)
        /\ Folds(kind, base, s, n, f) /\ Folds(kind, base, more, p, g)
    BY <1>1, <1>2, <1>3
  <2> HIDE DEF Folds
  <2> QED
    BY <2>1, FoldsAgree
<1>5. Max(1..p) = p /\ (1..p) \ {p} = 1..n
  <2>1. 1..p \in SUBSET (1..p) /\ 1..p # {}
    BY <1>1
  <2>2. Max(1..p) \in 1..p /\ p <= Max(1..p)
    BY <1>1, <2>1, MaxOf
  <2> QED
    BY <1>1, <2>2
<1>6. g[1..p] = Step(kind, g[1..n], e)
  <2>1. 1..p \in SUBSET (1..p) /\ 1..p # {}
    BY <1>1
  <2>2. g[1..p] = Step(kind, g[(1..p) \ {Max(1..p)}], more[Max(1..p)])
    BY <1>3, <2>1 DEF Folds
  <2> QED
    BY <2>2, <1>1, <1>5
<1> QED
  BY <1>2, <1>3, <1>4, <1>6 DEF more

\* The folds of the modules.
LEMMA MergedRuns ==
  ASSUME NEW S, NEW lines \in Seq(S)
  PROVE  Merged(lines) = Run("line", [rows |-> <<>>, prefix |-> <<0>>], lines)
<1>1. DOMAIN lines = 1..Len(lines)
  OBVIOUS
<1> QED
  BY <1>1 DEF Merged, FoldLeft, MapThenFoldSet, Run, Folds, Step

\* What a batch of operations makes of a copy.
LEMMA AllRuns ==
  ASSUME NEW S, NEW ops \in Seq(S), NEW c
  PROVE  ApplyAll(c, ops) = Run("apply", c, ops)
<1>1. DOMAIN ops = 1..Len(ops)
  OBVIOUS
<1> QED
  BY <1>1 DEF ApplyAll, FoldLeft, MapThenFoldSet, Run, Folds, Step

\* What operations become that are merged with what waits.
LEMMA MergeRuns ==
  ASSUME NEW S, NEW more \in Seq(S), NEW ops
  PROVE  Merge(ops, more) = Run("merge", ops, more)
<1>1. DOMAIN more = 1..Len(more)
  OBVIOUS
<1> QED
  BY <1>1 DEF Merge, FoldLeft, MapThenFoldSet, Run, Folds, Step

\* What the events on their way make of a copy.
LEMMA EventsRun ==
  ASSUME NEW S, NEW es \in Seq(S), NEW c
  PROVE  FoldLeft(CopyAfter, c, es) = Run("event", c, es)
<1>1. DOMAIN es = 1..Len(es)
  OBVIOUS
<1> QED
  BY <1>1 DEF FoldLeft, MapThenFoldSet, Run, Folds, Step

\* What a delta leaves of its operations.
LEMMA FilteredRuns ==
  ASSUME NEW S, NEW d, d.ops \in Seq(S)
  PROVE  Filtered(d) = Run("filter", <<>>, d.ops)
<1>1. DOMAIN d.ops = 1..Len(d.ops)
  OBVIOUS
<1> QED
  BY <1>1 DEF Filtered, FoldLeft, MapThenFoldSet, Run, Folds, Step
-----------------------------------------------------------------------------
(* A copy *)

\* A copy of the surface, the worker's or the app's, and an operation on it.
Copy(c, L) ==
  /\ {"rev", "lines", "hidden", "wait", "scene", "active", "failed"} \subseteq DOMAIN c
  /\ c.lines \in Seq(L) /\ c.rev \in Nat /\ c.hidden \in Nat /\ c.wait \in Nat /\ c.scene \in Nat
  /\ c.active \in BOOLEAN /\ c.failed \in BOOLEAN
Change(op, L) ==
  /\ op.tag \in {"append", "delete", "clear", "wait", "replace", "trim", "scene", "generation"}
  /\ op.tag \in {"append", "replace"} => op.line \in L
  /\ op.tag \in {"delete", "trim"} => op.count \in Nat
  /\ op.tag = "wait" => op.wait \in Nat
  /\ op.tag = "scene" => op.next \in Nat

\* The first of some lines.
LEMMA Firsts ==
  ASSUME NEW S, NEW s \in Seq(S), NEW n \in Nat, n <= Len(s)
  PROVE  /\ FirstLines(s, n) \in Seq(S) /\ Len(FirstLines(s, n)) = n
         /\ \A i \in 1..n : FirstLines(s, n)[i] = s[i]
<1>1. \A i \in 1..n : s[i] \in S
  OBVIOUS
<1> QED
  BY <1>1, SubSeqProperties DEF FirstLines

\* What is left without them.
LEMMA Drops ==
  ASSUME NEW S, NEW s \in Seq(S), NEW n \in Nat, n <= Len(s)
  PROVE  /\ DropLines(s, n) \in Seq(S) /\ Len(DropLines(s, n)) = Len(s) - n
         /\ \A i \in 1..(Len(s) - n) : DropLines(s, n)[i] = s[n + i]
<1>1. \A i \in (n + 1)..Len(s) : s[i] \in S
  OBVIOUS
<1>2. n + 1 \in Int /\ Len(s) \in Int
  OBVIOUS
<1> DEFINE d == SubSeq(s, n + 1, Len(s))
<1>3. /\ d \in Seq(S) /\ Len(d) = IF n + 1 <= Len(s) THEN Len(s) - (n + 1) + 1 ELSE 0
      /\ \A i \in 1..(Len(s) - (n + 1) + 1) : d[i] = s[n + 1 + i - 1]
  BY <1>1, <1>2, SubSeqProperties
<1> HIDE DEF d
<1>4. Len(s) - (n + 1) + 1 = Len(s) - n /\ \A i \in 1..(Len(s) - n) : n + 1 + i - 1 = n + i
  OBVIOUS
<1>5. Len(d) = Len(s) - n
  BY <1>3
<1>6. \A i \in 1..(Len(s) - n) : d[i] = s[n + i]
  BY <1>3, <1>4
<1> QED
  BY <1>3, <1>5, <1>6 DEF DropLines, d

\* Applying an operation.
LEMMA Applied ==
  ASSUME NEW L, NEW c, Copy(c, L), NEW op, Change(op, L)
  PROVE  /\ Copy(Apply(c, op), L) /\ DOMAIN Apply(c, op) = DOMAIN c
         /\ \A f \in DOMAIN c \ {"lines", "hidden", "wait", "scene", "active", "failed"} :
              Apply(c, op)[f] = c[f]
<1> USE DEF Copy, Change, Apply
<1>1. CASE op.tag = "append"
  BY <1>1, SMTT(40) DEF AppendLine
<1>2. CASE op.tag = "delete"
  <2> DEFINE k == Least(op.count, Len(c.lines))
  <2>1. k \in Nat /\ k <= Len(c.lines) /\ Len(c.lines) - k \in Nat /\ Len(c.lines) - k <= Len(c.lines)
        /\ k <= op.count
    BY <1>2 DEF Least
  <2>2. FirstLines(c.lines, Len(c.lines) - k) \in Seq(L)
    BY <2>1, Firsts
  <2>3. op.count - k \in Nat
    BY <1>2, <2>1
  <2> HIDE DEF k
  <2>4. DeleteTail(c, op) = [c EXCEPT !.lines = FirstLines(c.lines, Len(c.lines) - k),
               !.hidden = IF c.hidden < op.count - k THEN 0 ELSE c.hidden - (op.count - k)]
    BY DEF DeleteTail, k
  <2>5. (IF c.hidden < op.count - k THEN 0 ELSE c.hidden - (op.count - k)) \in Nat
    BY <2>3
  <2> QED
    BY <1>2, <2>2, <2>4, <2>5
<1>3. CASE op.tag = "clear"
  <2>1. <<>> \in Seq(L) /\ 0 \in Nat /\ FALSE \in BOOLEAN
    OBVIOUS
  <2>2. Apply(c, op) = [c EXCEPT !.lines = <<>>, !.hidden = 0, !.active = FALSE]
    BY <1>3 DEF ClearHistory
  <2> QED
    BY <2>1, <2>2, ZenonT(40)
<1>4. CASE op.tag = "wait"
  BY <1>4 DEF SetInputWait
<1>5. CASE op.tag = "replace"
  <2>1. [i \in DOMAIN c.lines |-> IF c.lines[i].id = op.line.id THEN op.line ELSE c.lines[i]] \in Seq(L)
    BY <1>5
  <2> QED
    BY <1>5, <2>1 DEF ReplaceLine
<1>6. CASE op.tag = "trim"
  <2> DEFINE h == Least(op.count, c.hidden)  k == Least(op.count - h, Len(c.lines))
  <2>1. h \in Nat /\ h <= c.hidden /\ h <= op.count
    BY <1>6 DEF Least
  <2>2. k \in Nat /\ k <= Len(c.lines)
    BY <1>6, <2>1 DEF Least
  <2>3. DropLines(c.lines, k) \in Seq(L)
    BY <2>2, Drops
  <2>4. c.hidden - h \in Nat
    BY <2>1
  <2> HIDE DEF h, k
  <2>5. TrimLines(c, op) = [c EXCEPT !.hidden = c.hidden - h, !.lines = DropLines(c.lines, k)]
    BY DEF TrimLines, h, k
  <2> QED
    BY <1>6, <2>3, <2>4, <2>5
<1>7. CASE op.tag = "scene"
  BY <1>7 DEF SceneDelta
<1>8. CASE op.tag = "generation"
  BY <1>8
<1> QED
  BY <1>1, <1>2, <1>3, <1>4, <1>5, <1>6, <1>7, <1>8
-----------------------------------------------------------------------------
(* What is on offer *)

Lines == [id : Nat, token : Nat, generation : Nat, edge : BOOLEAN, text : {0, 1}, seq : Nat]

\* The bounds, the policy and the wait are what they are taken for.
Booked ==
  /\ Copy(copy, Lines)
  /\ policy \in [generation : Nat, next : Nat, retired : Nat] /\ policy.retired < policy.next
  /\ DOMAIN input = {"wait", "activated", "boundary"}
  /\ input.boundary = None \/ (input.boundary \in Nat /\ input.boundary <= policy.retired)
  /\ budget \in [operations : Nat, submissions : Nat, locks : Nat]
  /\ past \subseteq Nat /\ 0 \notin past

\* Lines and buttons have numbers of their own, which are not given again.
Labelled(lines, next, least) ==
  /\ \A i, j \in DOMAIN lines : lines[i].id = lines[j].id => i = j
  /\ \A l \in Members(lines) :
       /\ l.id > least /\ (l.token # 0 => l.token > least)
       /\ l.seq < next /\ (l.token = 0 => l.seq = 0)
  /\ \A l, m \in Members(lines) : l.token = m.token => l.seq = m.seq

\* A button that was retired for good stays behind what is retired, and behind
\* what a rejection would restore.
Behind(lines, seen, retired, boundary) ==
  \A l \in Members(lines) :
    l.token \in seen => l.seq <= retired /\ (boundary # None => l.seq <= boundary)

OfferInv ==
  /\ Booked
  /\ Labelled(copy.lines, policy.next, budget.operations)
  /\ \A t \in past : t > budget.operations
  /\ Behind(copy.lines, past, policy.retired, input.boundary)
-----------------------------------------------------------------------------
(* What is on the screen *)

\* A child shows its row under the policy it was told, or has nothing to be told.
Child(c, v) ==
  /\ DOMAIN c = {"row", "on", "generation", "retired", "listed"}
  /\ c.row \in Seq(Lines)
  /\ c.on \in BOOLEAN /\ c.generation \in Nat /\ c.retired \in Nat
  /\ c.listed = HasEnabled(c.row, v.generation, v.retired)
  /\ c.listed => c.on = v.on /\ c.generation = v.generation /\ c.retired = v.retired
  /\ ~c.listed => ~(c.on /\ HasEnabled(c.row, c.generation, c.retired))

Told(v) ==
  /\ DOMAIN v = {"children", "prefix", "generation", "retired", "on"}
  /\ v.generation \in Nat /\ v.retired \in Nat /\ v.on \in BOOLEAN
  /\ \E S : v.children \in Seq(S)
  /\ \A i \in DOMAIN v.children : Child(v.children[i], v)

RowsOf(children) == [i \in DOMAIN children |-> children[i].row]

\* The screen shows some lines, and the copy has noted from where on its own differ.
\* A row is not continued over that point.
Depicts(v, n, old, lines) ==
  /\ old \in Seq(Lines)
  /\ RowsOf(v.children) = Merged(old).rows /\ v.prefix = Merged(old).prefix
  /\ n.trimmed = 0 /\ n.from = None => old = lines
  /\ n.trimmed = 0 /\ n.from # None =>
       /\ n.from <= Len(old) /\ n.from <= Len(lines)
       /\ \A i \in 1..n.from : old[i] = lines[i]
       /\ n.from = 0 \/ n.from = Len(old) \/ ~old[n.from + 1].edge

ScreenInv ==
  /\ OfferInv /\ Told(view)
  /\ note \in [from : Nat \cup {None}, trimmed : Nat]
  /\ note = Clean => policy.generation = view.generation /\ policy.retired = view.retired
  /\ \E old : Depicts(view, note, old, copy.lines)

\* A line that an operation brings: without a button, with a new one, or with one
\* that is shown.
Given(g, lines, next, least) ==
  /\ g \in Lines
  /\ \/ g.token = 0 /\ g.seq = 0
     \/ g.token = least /\ least # 0 /\ g.seq = next
     \/ \E o \in Members(lines) : g.token = o.token /\ g.seq = o.seq

\* A line that is no line of the game's.
Blank == [id |-> 0, token |-> 0, generation |-> 0, edge |-> FALSE, text |-> 0, seq |-> 0]

\* The members of a sequence.
LEMMA MemberTypes ==
  ASSUME NEW S, NEW s \in Seq(S)
  PROVE  Members(s) \subseteq S /\ \A l : l \in Members(s) <=> \E i \in 1..Len(s) : l = s[i]
BY DEF Members

\* What the lines of a surface become when one line is brought to them.
LEMMA Relabelled ==
  ASSUME OfferInv, budget.operations > 0, NEW new \in Seq(Lines), NEW g,
         Given(g, copy.lines, policy.next, budget.operations),
         \A l \in Members(new) : l \in Members(copy.lines) \/ l = g,
         \A i, j \in DOMAIN new : new[i].id = new[j].id => i = j,
         \A l \in Members(new) : l.id > budget.operations - 1
  PROVE  /\ Labelled(new, NextAfter(new), budget.operations - 1)
         /\ Behind(new, past, policy.retired, input.boundary)
         /\ NextAfter(new) \in Nat /\ NextAfter(new) >= policy.next
<1>1. /\ Members(new) \subseteq Lines /\ Members(copy.lines) \subseteq Lines
      /\ policy.next \in Nat /\ budget.operations \in Nat
  BY MemberTypes DEF OfferInv, Booked, Copy
<1>2. NextAfter(new) \in {policy.next, policy.next + 1}
      /\ (NextAfter(new) = policy.next => \A l \in Members(new) : l.seq # policy.next)
  BY <1>1 DEF NextAfter
<1>3. \A l \in Members(copy.lines) :
        /\ l.id > budget.operations /\ (l.token # 0 => l.token > budget.operations)
        /\ l.seq < policy.next /\ (l.token = 0 => l.seq = 0)
  BY DEF OfferInv, Labelled
<1>4. /\ g.token \in Nat /\ g.seq \in Nat /\ g.seq <= policy.next
      /\ (g.token # 0 => g.token > budget.operations - 1) /\ (g.token = 0 => g.seq = 0)
  BY <1>1, <1>3 DEF Given, Lines
<1>5. ASSUME NEW l \in Members(new)
      PROVE  /\ (l.token # 0 => l.token > budget.operations - 1)
             /\ l.seq < NextAfter(new) /\ (l.token = 0 => l.seq = 0)
  <2>1. l.seq \in Nat /\ l.token \in Nat
    BY <1>1 DEF Lines
  <2>2. l.seq <= policy.next
    BY <1>1, <1>3, <1>4, <2>1
  <2>3. l.seq < NextAfter(new)
    BY <1>1, <1>2, <2>1, <2>2
  <2> QED
    BY <1>1, <1>3, <1>4, <2>1, <2>3
<1>6. \A l \in Members(copy.lines) : l.token = g.token => l.seq = g.seq
  <2> TAKE l \in Members(copy.lines)
  <2>1. \A m \in Members(copy.lines) : l.token = m.token => l.seq = m.seq
    BY DEF OfferInv, Labelled
  <2> QED
    BY <1>1, <1>3, <2>1 DEF Given, Lines
<1>7. \A l, m \in Members(new) : l.token = m.token => l.seq = m.seq
  <2>1. \A l, m \in Members(copy.lines) : l.token = m.token => l.seq = m.seq
    BY DEF OfferInv, Labelled
  <2> QED
    BY <1>6, <2>1
<1>8. Labelled(new, NextAfter(new), budget.operations - 1)
  BY <1>5, <1>7 DEF Labelled
<1>9. Behind(new, past, policy.retired, input.boundary)
  <2>1. Behind(copy.lines, past, policy.retired, input.boundary)
    BY DEF OfferInv
  <2>2. ASSUME g.token \in past
        PROVE  g.seq <= policy.retired /\ (input.boundary # None => g.seq <= input.boundary)
    <3>1. g.token # 0 /\ g.token # budget.operations
      BY <2>2, <1>1 DEF OfferInv, Booked
    <3>2. PICK o \in Members(copy.lines) : g.token = o.token /\ g.seq = o.seq
      BY <3>1 DEF Given
    <3> QED
      BY <2>1, <2>2, <3>2 DEF Behind
  <2> QED
    BY <2>1, <2>2 DEF Behind
<1> QED
  BY <1>1, <1>2, <1>8, <1>9

\* Some of the lines, in a row, are labelled as all of them.
LEMMA PartOf ==
  ASSUME OfferInv, NEW new \in Seq(Lines), NEW k \in Nat,
         \A i \in 1..Len(new) : k + i \in 1..Len(copy.lines) /\ new[i] = copy.lines[k + i]
  PROVE  /\ \A l \in Members(new) : l \in Members(copy.lines)
         /\ \A i, j \in DOMAIN new : new[i].id = new[j].id => i = j
         /\ \A l \in Members(new) : l.id > budget.operations
<1>1. copy.lines \in Seq(Lines)
  BY DEF OfferInv, Booked, Copy
<1>2. \A l \in Members(new) : l \in Members(copy.lines)
  BY <1>1 DEF Members
<1>3. \A i, j \in 1..Len(copy.lines) : copy.lines[i].id = copy.lines[j].id => i = j
  BY <1>1 DEF OfferInv, Labelled
<1>4. ASSUME NEW i \in DOMAIN new, NEW j \in DOMAIN new, new[i].id = new[j].id PROVE i = j
  <2>1. i \in 1..Len(new) /\ j \in 1..Len(new)
    OBVIOUS
  <2>2. k + i = k + j
    BY <1>3, <1>4, <2>1, SMTT(40)
  <2> QED
    BY <2>1, <2>2
<1> QED
  BY <1>2, <1>4 DEF OfferInv, Labelled

\* A line without a button can always be said to be brought.
LEMMA BlankGiven ==
  ASSUME NEW lines, NEW next, NEW least PROVE Given(Blank, lines, next, least)
BY DEF Given, Blank, Lines

\* What some operation brings to the surface.
Brings(op) ==
  /\ Change(op, Lines)
  /\ op.tag \in {"append", "delete", "clear", "replace", "trim", "generation"}
  /\ op.tag = "append" =>
       /\ Given(op.line, copy.lines, policy.next, budget.operations)
       /\ op.line.id = budget.operations
  /\ op.tag = "replace" =>
       /\ Given(op.line, copy.lines, policy.next, budget.operations)
       /\ \E i \in DOMAIN copy.lines : op.line.id = copy.lines[i].id /\ MayStart(i)
  /\ op.tag = "delete" =>
       \E i \in DOMAIN copy.lines : op.count = Len(copy.lines) - i + 1 /\ MayStart(i)
  /\ op.tag = "generation" => op.generation \in Nat

\* A new line, with the number it is given.
LEMMA FreshLines ==
  ASSUME OfferInv, NEW l \in NewLines
  PROVE  /\ l \in Lines /\ l.id = budget.operations /\ l.token \in {0, budget.operations}
<1>1. budget.operations \in Nat /\ Generations \subseteq Nat
  BY ViewportAssumption DEF OfferInv, Booked
<1>2. CASE l \in {FreshLine(kind, g) : kind \in Kinds \ {"plain"}, g \in Generations}
  <2>1. PICK kind \in Kinds \ {"plain"}, g \in Generations : l = FreshLine(kind, g)
    BY <1>2
  <2> QED
    BY <2>1, <1>1 DEF FreshLine, Lines
<1>3. CASE l \in {FreshLine(kind, NoGeneration) : kind \in Kinds \cap {"plain"}}
  <2>1. PICK kind \in Kinds : l = FreshLine(kind, NoGeneration)
    BY <1>3
  <2>2. NoGeneration \in Nat
    BY DEF NoGeneration
  <2> QED
    BY <2>1, <2>2, <1>1 DEF FreshLine, Lines
<1> QED
  BY <1>2, <1>3 DEF NewLines

\* An operation brings a line with the sequence it has, or a new one.
LEMMA AssignedBrings ==
  ASSUME OfferInv, budget.operations > 0, NEW op \in Changes
  PROVE  Brings(Assigned(op)) /\ Assigned(op).tag = op.tag
         /\ (op.tag = "generation" => Assigned(op) = op)
         /\ (op.tag = "replace" => Assigned(op).line.id = op.line.id)
<1> DEFINE size == Len(copy.lines)
<1>1. copy.lines \in Seq(Lines) /\ copy.hidden \in Nat /\ size \in Nat /\ policy.next \in Nat
      /\ budget.operations \in Nat
  BY DEF OfferInv, Booked, Copy
<1>2. DOMAIN copy.lines = 1..size /\ \A i \in 1..size : copy.lines[i] \in Lines
  BY <1>1
<1>3. \A l \in Members(copy.lines) : l.token # 0 => l.token > budget.operations
  BY DEF OfferInv, Labelled
<1>4. Members(copy.lines) \subseteq Lines
  BY <1>1, MemberTypes
\* A line with its sequence is one that may be brought.
<1>5. ASSUME NEW l \in Lines, NEW old \in SUBSET Members(copy.lines),
             l.token \in {0, budget.operations} \/ \E o \in old : o.token = l.token
      PROVE  Given([l EXCEPT !.seq = SequenceOf(l, old)], copy.lines, policy.next, budget.operations)
             /\ [l EXCEPT !.seq = SequenceOf(l, old)].id = l.id
  <2> DEFINE q == SequenceOf(l, old)  g == [l EXCEPT !.seq = q]
  <2>1. CASE l.token = 0
    <3>1. q = 0
      BY <2>1 DEF SequenceOf
    <3> QED
      BY <2>1, <3>1 DEF Given, Lines
  <2>2. CASE l.token # 0 /\ \E o \in old : o.token = l.token
    <3>1. q = (CHOOSE o \in old : o.token = l.token).seq
      BY <2>2 DEF SequenceOf
    <3>2. PICK o \in old : o.token = l.token /\ q = o.seq
      BY <2>2, <3>1
    <3>3. o \in Members(copy.lines) /\ q \in Nat
      BY <3>2, <1>4 DEF Lines
    <3> QED
      BY <3>2, <3>3 DEF Given, Lines
  <2>3. CASE l.token # 0 /\ ~\E o \in old : o.token = l.token
    <3>1. q = policy.next
      BY <2>3 DEF SequenceOf
    <3>2. l.token = budget.operations
      BY <1>5, <2>3
    <3> QED
      BY <2>3, <3>1, <3>2, <1>1 DEF Given, Lines
  <2> QED
    BY <2>1, <2>2, <2>3
<1>6. CASE \E l \in NewLines : op = [tag |-> "append", line |-> l]
  <2>1. PICK l \in NewLines : op = [tag |-> "append", line |-> l]
    BY <1>6
  <2> DEFINE old == {o \in Members(copy.lines) : op.tag = "replace" /\ o.id = op.line.id}
             g == [l EXCEPT !.seq = SequenceOf(l, old)]
  <2>2. Assigned(op) = [tag |-> "append", line |-> g]
    BY <2>1 DEF Assigned
  <2>3. l \in Lines /\ l.id = budget.operations /\ l.token \in {0, budget.operations}
    BY <2>1, FreshLines
  <2>4. old \in SUBSET Members(copy.lines)
    OBVIOUS
  <2> HIDE DEF old
  <2>5. Given(g, copy.lines, policy.next, budget.operations) /\ g.id = budget.operations
    BY <1>5, <2>3, <2>4
  <2>6. g \in Lines
    BY <2>5 DEF Given
  <2> HIDE DEF g
  <2> QED
    BY <2>1, <2>2, <2>5, <2>6 DEF Brings, Change
<1>7. CASE \E i \in 1..size : MayStart(i) /\ op = [tag |-> "delete", count |-> size - i + 1]
  <2>1. PICK i \in 1..size : MayStart(i) /\ op = [tag |-> "delete", count |-> size - i + 1]
    BY <1>7
  <2>2. Assigned(op) = op /\ size - i + 1 \in Nat
    BY <2>1 DEF Assigned
  <2> QED
    BY <2>1, <2>2, <1>2 DEF Brings, Change
<1>8. CASE \E i \in 1..size, l \in NewLines :
             MayStart(i) /\ op = [tag |-> "replace", line |-> [l EXCEPT !.id = copy.lines[i].id]]
  <2>1. PICK i \in 1..size, l \in NewLines :
             MayStart(i) /\ op = [tag |-> "replace", line |-> [l EXCEPT !.id = copy.lines[i].id]]
    BY <1>8
  <2> DEFINE old == {o \in Members(copy.lines) : op.tag = "replace" /\ o.id = op.line.id}
             m == [l EXCEPT !.id = copy.lines[i].id]
             g == [m EXCEPT !.seq = SequenceOf(m, old)]
  <2>2. Assigned(op) = [tag |-> "replace", line |-> g]
    BY <2>1 DEF Assigned
  <2>3. l \in Lines /\ l.token \in {0, budget.operations}
    BY <2>1, FreshLines
  <2>4. m \in Lines /\ m.token \in {0, budget.operations} /\ m.id = copy.lines[i].id
    BY <2>3, <1>2 DEF Lines
  <2>5. old \in SUBSET Members(copy.lines)
    OBVIOUS
  <2> HIDE DEF old, m
  <2>6. Given(g, copy.lines, policy.next, budget.operations) /\ g.id = copy.lines[i].id
    BY <1>5, <2>4, <2>5
  <2>7. g \in Lines
    BY <2>6 DEF Given
  <2>8. op.line.id = copy.lines[i].id
    BY <2>1, <2>4 DEF m
  <2> HIDE DEF g
  <2> QED
    BY <2>1, <2>2, <2>6, <2>7, <2>8, <1>2 DEF Brings, Change
<1>9. CASE \E i \in 1..size :
             MayStart(i) /\ op = [tag |-> "replace", line |-> [copy.lines[i] EXCEPT !.text = 1]]
  <2>1. PICK i \in 1..size :
             MayStart(i) /\ op = [tag |-> "replace", line |-> [copy.lines[i] EXCEPT !.text = 1]]
    BY <1>9
  <2> DEFINE old == {o \in Members(copy.lines) : op.tag = "replace" /\ o.id = op.line.id}
             m == [copy.lines[i] EXCEPT !.text = 1]
             g == [m EXCEPT !.seq = SequenceOf(m, old)]
  <2>2. Assigned(op) = [tag |-> "replace", line |-> g]
    BY <2>1 DEF Assigned
  <2>3. m \in Lines /\ m.token = copy.lines[i].token /\ m.id = copy.lines[i].id
    BY <1>2 DEF Lines
  <2>4. copy.lines[i] \in Members(copy.lines)
    BY <1>2 DEF Members
  <2>5. copy.lines[i] \in old
    BY <2>1, <2>3, <2>4
  <2>6. old \in SUBSET Members(copy.lines)
    OBVIOUS
  <2> HIDE DEF old, m
  <2>7. Given(g, copy.lines, policy.next, budget.operations) /\ g.id = copy.lines[i].id
    BY <1>5, <2>3, <2>5, <2>6
  <2>8. g \in Lines
    BY <2>7 DEF Given
  <2>9. op.line.id = copy.lines[i].id
    BY <2>1, <2>3 DEF m
  <2> HIDE DEF g
  <2> QED
    BY <2>1, <2>2, <2>7, <2>8, <2>9, <1>2 DEF Brings, Change
<1>10. CASE \E n \in 1..(size + copy.hidden) : op = [tag |-> "trim", count |-> n]
  BY <1>10, <1>1 DEF Assigned, Brings, Change
<1>11. CASE \E h \in Generations : op = [tag |-> "generation", generation |-> h]
  BY <1>11, ViewportAssumption DEF Assigned, Brings, Change
<1>12. CASE op = [tag |-> "clear"]
  BY <1>12 DEF Assigned, Brings, Change
<1>13. \/ \E l \in NewLines : op = [tag |-> "append", line |-> l]
       \/ \E i \in 1..size : MayStart(i) /\ op = [tag |-> "delete", count |-> size - i + 1]
       \/ \E i \in 1..size, l \in NewLines :
             MayStart(i) /\ op = [tag |-> "replace", line |-> [l EXCEPT !.id = copy.lines[i].id]]
       \/ \E i \in 1..size :
             MayStart(i) /\ op = [tag |-> "replace", line |-> [copy.lines[i] EXCEPT !.text = 1]]
       \/ \E n \in 1..(size + copy.hidden) : op = [tag |-> "trim", count |-> n]
       \/ \E h \in Generations : op = [tag |-> "generation", generation |-> h]
       \/ op = [tag |-> "clear"]
  <2> DEFINE starts == {i \in 1..size : MayStart(i)}
             appends == {[tag |-> "append", line |-> l] : l \in NewLines}
             deletes == {[tag |-> "delete", count |-> size - i + 1] : i \in starts}
             replaces == {[tag |-> "replace", line |-> [l EXCEPT !.id = copy.lines[i].id]] :
                            i \in starts, l \in NewLines}
             edits == {[tag |-> "replace", line |-> [copy.lines[i] EXCEPT !.text = 1]] : i \in starts}
             trims == {[tag |-> "trim", count |-> n] : n \in 1..(size + copy.hidden)}
             generations == {[tag |-> "generation", generation |-> g] : g \in Generations}
  <2>1. Changes = appends \cup deletes \cup replaces \cup edits \cup trims \cup generations
                    \cup {[tag |-> "clear"]}
    BY DEF Changes
  <2>2. /\ op \in appends => \E l \in NewLines : op = [tag |-> "append", line |-> l]
        /\ op \in deletes =>
             \E i \in 1..size : MayStart(i) /\ op = [tag |-> "delete", count |-> size - i + 1]
        /\ op \in trims => \E n \in 1..(size + copy.hidden) : op = [tag |-> "trim", count |-> n]
        /\ op \in generations => \E h \in Generations : op = [tag |-> "generation", generation |-> h]
    OBVIOUS
  <2>3. op \in replaces =>
          \E i \in 1..size, l \in NewLines :
             MayStart(i) /\ op = [tag |-> "replace", line |-> [l EXCEPT !.id = copy.lines[i].id]]
    OBVIOUS
  <2>4. op \in edits =>
          \E i \in 1..size :
             MayStart(i) /\ op = [tag |-> "replace", line |-> [copy.lines[i] EXCEPT !.text = 1]]
    OBVIOUS
  <2> HIDE DEF starts, appends, deletes, replaces, edits, trims, generations
  <2> QED
    BY <2>1, <2>2, <2>3, <2>4
<1> QED
  BY <1>6, <1>7, <1>8, <1>9, <1>10, <1>11, <1>12, <1>13

\* Some lines in a row are labelled as all of them.
LEMMA RowOf ==
  ASSUME NEW lines \in Seq(Lines), NEW new \in Seq(Lines), NEW k \in Nat, NEW next, NEW least,
         NEW seen, NEW retired, NEW boundary,
         \A i \in 1..Len(new) : k + i \in 1..Len(lines) /\ new[i] = lines[k + i],
         Labelled(lines, next, least), Behind(lines, seen, retired, boundary)
  PROVE  Labelled(new, next, least) /\ Behind(new, seen, retired, boundary)
<1>1. ASSUME NEW l \in Members(new) PROVE l \in Members(lines)
  <2>1. PICK i \in 1..Len(new) : l = new[i]
    BY MemberTypes
  <2>2. k + i \in 1..Len(lines) /\ l = lines[k + i]
    BY <2>1
  <2> QED
    BY <2>2, MemberTypes
<1>2. \A i, j \in 1..Len(lines) : lines[i].id = lines[j].id => i = j
  BY DEF Labelled
<1>3. ASSUME NEW i \in DOMAIN new, NEW j \in DOMAIN new, new[i].id = new[j].id PROVE i = j
  <2>1. i \in 1..Len(new) /\ j \in 1..Len(new)
    OBVIOUS
  <2>2. k + i = k + j
    BY <1>2, <1>3, <2>1, ZenonT(40)
  <2> QED
    BY <2>1, <2>2
<1>4. Labelled(new, next, least)
  BY <1>1, <1>3 DEF Labelled
<1>5. Behind(new, seen, retired, boundary)
  BY <1>1 DEF Behind
<1> QED
  BY <1>4, <1>5

\* The lines that a copy keeps when it fits.
Cut(c, k) ==
  /\ k \in Nat
  /\ k = (IF Len(c.lines) > Limit THEN Len(c.lines) - Limit ELSE 0) /\ k <= Len(c.lines)
  /\ Len(Fit(c).lines) = Len(c.lines) - k /\ Fit(c).hidden = c.hidden + k
  /\ \A i \in 1..Len(Fit(c).lines) : k + i \in 1..Len(c.lines) /\ Fit(c).lines[i] = c.lines[k + i]

\* The first lines are cut.
LEMMA FittedRow ==
  ASSUME NEW L, NEW c, Copy(c, L), Limit \in Nat
  PROVE  \E k : Cut(c, k)
<1>n. PICK k \in Nat : k = (IF Len(c.lines) > Limit THEN Len(c.lines) - Limit ELSE 0)
  BY DEF Copy
<1>1. k <= Len(c.lines)
  BY <1>n DEF Copy
<1> DEFINE d == DropLines(c.lines, k)
<1>2. /\ d \in Seq(L) /\ Len(d) = Len(c.lines) - k
      /\ \A i \in 1..(Len(c.lines) - k) : d[i] = c.lines[k + i]
  BY <1>1, Drops DEF Copy
<1>3. Fit(c) = [c EXCEPT !.lines = d, !.hidden = c.hidden + k]
  BY <1>n DEF Fit
<1> HIDE DEF d
<1>4. Fit(c).lines = d /\ Fit(c).hidden = c.hidden + k
  BY <1>3 DEF Copy
<1>5. \A i \in 1..Len(d) : k + i \in 1..Len(c.lines) /\ d[i] = c.lines[k + i]
  BY <1>1, <1>2 DEF Copy
<1> QED
  BY <1>n, <1>1, <1>2, <1>4, <1>5 DEF Cut

\* Which is a copy like any.
LEMMA Fitted ==
  ASSUME NEW L, NEW c, Copy(c, L), Limit \in Nat
  PROVE  /\ Copy(Fit(c), L) /\ DOMAIN Fit(c) = DOMAIN c
         /\ \A f \in DOMAIN c \ {"lines", "hidden"} : Fit(c)[f] = c[f]
<1>n. PICK k \in Nat : k = (IF Len(c.lines) > Limit THEN Len(c.lines) - Limit ELSE 0)
  BY DEF Copy
<1>1. k <= Len(c.lines)
  BY <1>n DEF Copy
<1> DEFINE d == DropLines(c.lines, k)
<1>2. d \in Seq(L)
  BY <1>1, Drops DEF Copy
<1>3. Fit(c) = [c EXCEPT !.lines = d, !.hidden = c.hidden + k]
  BY <1>n DEF Fit
<1> HIDE DEF d
<1>4. c.hidden + k \in Nat
  BY DEF Copy
<1> QED
  BY <1>2, <1>3, <1>4 DEF Copy

\* An operation leaves the lines labelled.
LEMMA OperationLabels ==
  ASSUME OfferInv, budget.operations > 0, NEW op, Brings(op), NEW new, new = Apply(copy, op).lines
  PROVE  /\ Labelled(new, NextAfter(new), budget.operations - 1)
         /\ Behind(new, past, policy.retired, input.boundary)
         /\ NextAfter(new) \in Nat /\ NextAfter(new) >= policy.next
<1> DEFINE L == copy.lines  size == Len(copy.lines)
<1>1. L \in Seq(Lines) /\ size \in Nat /\ DOMAIN L = 1..size /\ budget.operations \in Nat
      /\ Copy(copy, Lines) /\ {"lines", "hidden", "active"} \subseteq DOMAIN copy /\ copy.hidden \in Nat
  BY DEF OfferInv, Booked, Copy
<1>2. new \in Seq(Lines)
  BY <1>1, Applied DEF Brings, Copy
<1>3. \A l \in Members(L) : l \in Lines /\ l.id \in Nat /\ l.id > budget.operations
  <2>1. Members(L) \subseteq Lines
    BY <1>1, MemberTypes
  <2>2. \A l \in Lines : l.id \in Nat
    BY DEF Lines
  <2>3. \A l \in Members(L) : l.id > budget.operations
    BY DEF OfferInv, Labelled
  <2> QED
    BY <2>1, <2>2, <2>3
<1>4. \A i, j \in 1..size : L[i].id = L[j].id => i = j
  BY <1>1 DEF OfferInv, Labelled
\* A row of the lines there were.
<1>5. ASSUME NEW k \in Nat, \A i \in 1..Len(new) : k + i \in 1..size /\ new[i] = L[k + i]
      PROVE  /\ Labelled(new, NextAfter(new), budget.operations - 1)
             /\ Behind(new, past, policy.retired, input.boundary)
             /\ NextAfter(new) \in Nat /\ NextAfter(new) >= policy.next
  <2>1. /\ \A l \in Members(new) : l \in Members(copy.lines)
        /\ \A i, j \in DOMAIN new : new[i].id = new[j].id => i = j
        /\ \A l \in Members(new) : l.id > budget.operations
    BY <1>2, <1>5, PartOf
  <2>2. \A l \in Members(new) : l.id > budget.operations - 1
    BY <1>1, <1>3, <2>1
  <2>3. Given(Blank, copy.lines, policy.next, budget.operations)
    BY BlankGiven
  <2> QED
    BY <1>2, <2>1, <2>2, <2>3, Relabelled
<1>6. CASE op.tag = "append"
  <2>1. new = Append(L, op.line)
    BY <1>1, <1>6 DEF Apply, AppendLine
  <2>2. Given(op.line, L, policy.next, budget.operations) /\ op.line.id = budget.operations
    BY <1>6 DEF Brings
  <2>3. /\ Len(new) = size + 1 /\ new[size + 1] = op.line /\ \A i \in 1..size : new[i] = L[i]
        /\ DOMAIN new = 1..(size + 1)
    BY <1>1, <2>1
  <2>4. \A i \in 1..size : L[i] \in Members(L)
    BY <1>1 DEF Members
  <2>5. \A l \in Members(new) : l \in Members(L) \/ l = op.line
    BY <1>1, <2>3, <2>4 DEF Members
  <2>6. ASSUME NEW i \in DOMAIN new, NEW j \in DOMAIN new, new[i].id = new[j].id PROVE i = j
    <3>1. i \in 1..size \/ i = size + 1
      BY <1>1, <2>3
    <3>2. j \in 1..size \/ j = size + 1
      BY <1>1, <2>3
    <3>3. \A h \in 1..size : new[h].id # budget.operations
      BY <1>1, <1>3, <2>3, <2>4
    <3> QED
      BY <1>4, <2>2, <2>3, <2>6, <3>1, <3>2, <3>3, SMTT(40)
  <2>7. \A l \in Members(new) : l.id > budget.operations - 1
    BY <1>1, <1>3, <2>2, <2>5
  <2> QED
    BY <1>2, <2>2, <2>5, <2>6, <2>7, Relabelled
<1>7. CASE op.tag = "replace"
  <2>1. new = [i \in DOMAIN L |-> IF L[i].id = op.line.id THEN op.line ELSE L[i]]
    BY <1>1, <1>7 DEF Apply, ReplaceLine
  <2>2. Given(op.line, L, policy.next, budget.operations)
        /\ \E i \in DOMAIN L : op.line.id = L[i].id
    BY <1>7 DEF Brings
  <2>3. \A i \in 1..size : new[i].id = L[i].id /\ (new[i] = L[i] \/ new[i] = op.line)
    BY <1>1, <2>1
  <2>4. Len(new) = size /\ DOMAIN new = 1..size
    BY <1>1, <2>1
  <2>5. \A i \in 1..size : L[i] \in Members(L)
    BY <1>1 DEF Members
  <2>6. \A l \in Members(new) : l \in Members(L) \/ l = op.line
    BY <2>3, <2>4, <2>5 DEF Members
  <2>7. \A l \in Members(new) : l.id > budget.operations - 1
    <3>1. op.line.id > budget.operations /\ op.line.id \in Nat
      BY <1>1, <1>3, <2>2, <2>5
    <3> QED
      BY <1>1, <1>3, <2>6, <3>1
  <2>8. \A i, j \in DOMAIN new : new[i].id = new[j].id => i = j
    BY <1>4, <2>3, <2>4
  <2> QED
    BY <1>2, <2>2, <2>6, <2>7, <2>8, Relabelled
<1>8. CASE op.tag = "delete"
  <2>1. op.count \in Nat /\ Least(op.count, size) \in Nat /\ Least(op.count, size) <= size
    BY <1>8 DEF Brings, Change, Least
  <2>2. PICK n \in Nat : n = size - Least(op.count, size)
    BY <1>1, <2>1
  <2>3. new = FirstLines(L, n)
    BY <1>1, <1>8, <2>2 DEF Apply, DeleteTail
  <2>4. Len(new) = n /\ n <= size /\ \A i \in 1..n : new[i] = L[i]
    BY <1>1, <2>1, <2>2, <2>3, Firsts
  <2>5. \A i \in 1..Len(new) : 0 + i \in 1..size /\ new[i] = L[0 + i]
    BY <1>1, <2>4
  <2> QED
    BY <1>5, <2>5
<1>9. CASE op.tag = "clear"
  <2>1. new = <<>>
    BY <1>1, <1>9 DEF Apply, ClearHistory
  <2>2. \A i \in 1..Len(new) : 0 + i \in 1..size /\ new[i] = L[0 + i]
    BY <2>1
  <2> QED
    BY <1>5, <2>2
<1>10. CASE op.tag = "trim"
  <2> DEFINE h == Least(op.count, copy.hidden)
  <2>1. h \in Nat /\ op.count - h \in Nat
    BY <1>10, <1>1 DEF Brings, Change, Least
  <2> HIDE DEF h
  <2>2. PICK n \in Nat : n = Least(op.count - h, size) /\ n <= size
    BY <1>1, <2>1 DEF Least
  <2>3. new = DropLines(L, n)
    BY <1>1, <1>10, <2>2 DEF Apply, TrimLines, h
  <2>4. Len(new) = size - n /\ \A i \in 1..(size - n) : new[i] = L[n + i]
    <3>1. n \in Nat /\ n <= Len(L) /\ L \in Seq(Lines) /\ size = Len(L)
      BY <1>1, <2>2
    <3>2. /\ Len(DropLines(L, n)) = Len(L) - n
          /\ \A i \in 1..(Len(L) - n) : DropLines(L, n)[i] = L[n + i]
      BY <3>1, Drops
    <3> QED
      BY <2>3, <3>2
  <2>5. \A i \in 1..Len(new) : n + i \in 1..size /\ new[i] = L[n + i]
    BY <1>1, <2>2, <2>4, SMTT(40)
  <2> QED
    BY <1>5, <2>5
<1>11. CASE op.tag = "generation"
  <2>1. new = L
    BY <1>11 DEF Apply
  <2>2. \A i \in 1..Len(new) : 0 + i \in 1..size /\ new[i] = L[0 + i]
    BY <1>1, <2>1
  <2> QED
    BY <1>5, <2>2
<1> QED
  BY <1>6, <1>7, <1>8, <1>9, <1>10, <1>11 DEF Brings

\* So what was on offer stays known through an operation of the runtime.
LEMMA OfferOperate ==
  ASSUME OfferInv, Operate PROVE OfferInv'
<1>1. PICK op \in Changes :
        /\ budget.operations > 0
        /\ copy' = Apply(copy, Assigned(op))
        /\ policy' = [policy EXCEPT !.next = NextAfter(copy'.lines),
                        !.generation = IF op.tag = "generation" THEN op.generation ELSE @]
        /\ budget' = [budget EXCEPT !.operations = @ - 1]
        /\ UNCHANGED <<input, view, past>>
  BY Zenon DEF Operate
<1>2. Brings(Assigned(op)) /\ (op.tag = "generation" => op.generation \in Nat)
  BY <1>1, AssignedBrings DEF Brings
<1>3. /\ Labelled(copy'.lines, NextAfter(copy'.lines), budget.operations - 1)
      /\ Behind(copy'.lines, past, policy.retired, input.boundary)
      /\ NextAfter(copy'.lines) \in Nat /\ NextAfter(copy'.lines) >= policy.next
  BY <1>1, <1>2, OperationLabels
<1>4. Copy(copy', Lines)
  BY <1>1, <1>2, Applied DEF OfferInv, Booked, Brings
<1> HIDE DEF Labelled, Behind, Copy
<1>5. /\ policy' \in [generation : Nat, next : Nat, retired : Nat] /\ policy.retired < policy'.next
      /\ policy'.retired = policy.retired /\ policy'.next = NextAfter(copy'.lines)
      /\ budget' \in [operations : Nat, submissions : Nat, locks : Nat]
      /\ budget'.operations = budget.operations - 1 /\ budget.operations \in Nat
      /\ past' = past /\ input' = input
  <2>1. /\ policy \in [generation : Nat, next : Nat, retired : Nat] /\ policy.retired < policy.next
        /\ budget \in [operations : Nat, submissions : Nat, locks : Nat]
    BY DEF OfferInv, Booked
  <2>2. PICK q \in Nat : q = NextAfter(copy'.lines) /\ q >= policy.next
    BY <1>3
  <2>3. PICK g \in Nat : g = IF op.tag = "generation" THEN op.generation ELSE policy.generation
    BY <1>2, <2>1
  <2>4. policy' = [policy EXCEPT !.next = q, !.generation = g]
    BY <1>1, <2>2, <2>3
  <2>5. budget.operations \in Nat /\ budget.operations - 1 \in Nat
    BY <2>1, <1>1
  <2>6. budget' \in [operations : Nat, submissions : Nat, locks : Nat]
        /\ budget'.operations = budget.operations - 1
    BY <2>1, <2>5, <1>1
  <2>7. policy' \in [generation : Nat, next : Nat, retired : Nat] /\ policy.retired < policy'.next
        /\ policy'.retired = policy.retired /\ policy'.next = q
    <3>1. policy' \in [generation : Nat, next : Nat, retired : Nat]
          /\ policy'.retired = policy.retired /\ policy'.next = q
      BY <2>1, <2>4
    <3>2. policy.retired \in Nat /\ policy.next \in Nat
      BY <2>1
    <3> QED
      BY <2>1, <2>2, <3>1, <3>2
  <2> QED
    BY <1>1, <2>2, <2>5, <2>6, <2>7
<1>6. Labelled(copy'.lines, policy'.next, budget'.operations)
      /\ Behind(copy'.lines, past', policy'.retired, input'.boundary)
  BY <1>3, <1>5
<1>7. Booked'
  BY <1>4, <1>5 DEF OfferInv, Booked
<1>8. \A t \in past' : t > budget'.operations
  BY <1>5 DEF OfferInv, Booked
<1> QED
  BY <1>6, <1>7, <1>8 DEF OfferInv

\* The lines of a snapshot, with their sequences.
Sequenced(shown) ==
  [i \in DOMAIN shown |->
     [shown[i] EXCEPT !.seq = SequenceOf(shown[i], Members(copy.lines))]]

\* A snapshot shows lines as they were, and perhaps a new one.
LEMMA SnapshotLabels ==
  ASSUME OfferInv, budget.operations > 0, NEW keep \in Nat, keep <= Len(copy.lines),
         NEW new, new \in {<<>>} \cup {<<l>> : l \in NewLines}, NEW shown, NEW lines,
         shown = FirstLines(copy.lines, keep) \o new, lines = Sequenced(shown)
  PROVE  /\ lines \in Seq(Lines)
         /\ Labelled(lines, NextAfter(lines), budget.operations - 1)
         /\ Behind(lines, past, policy.retired, input.boundary)
         /\ NextAfter(lines) \in Nat /\ NextAfter(lines) >= policy.next
<1> DEFINE L == copy.lines  old == Members(copy.lines)
<1>n. PICK size \in Nat : size = Len(copy.lines)
  BY DEF OfferInv, Booked, Copy
<1>1. L \in Seq(Lines) /\ size = Len(L) /\ DOMAIN L = 1..size /\ budget.operations \in Nat
      /\ policy.next \in Nat /\ keep <= size
  BY <1>n DEF OfferInv, Booked, Copy
<1>2. old \subseteq Lines /\ \A i \in 1..size : L[i] \in old
  BY <1>1, MemberTypes
<1>3. \A l \in old : /\ l.id > budget.operations /\ (l.token # 0 => l.token > budget.operations)
                     /\ l.seq < policy.next /\ (l.token = 0 => l.seq = 0)
  BY DEF OfferInv, Labelled
<1>4. \A l, m \in old : l.token = m.token => l.seq = m.seq
  BY DEF OfferInv, Labelled
<1>5. \A i, j \in 1..size : L[i].id = L[j].id => i = j
  BY <1>1 DEF OfferInv, Labelled
\* A line that is kept keeps its sequence.
<1>6. ASSUME NEW l \in old PROVE [l EXCEPT !.seq = SequenceOf(l, old)] = l
  <2>1. SequenceOf(l, old) = l.seq
    <3>1. CASE l.token = 0
      BY <1>3, <3>1 DEF SequenceOf
    <3>2. CASE l.token # 0
      <4>1. SequenceOf(l, old) = (CHOOSE m \in old : m.token = l.token).seq
        BY <3>2, Zenon DEF SequenceOf
      <4>2. PICK m \in old : m.token = l.token /\ SequenceOf(l, old) = m.seq
        BY <4>1
      <4> QED
        BY <1>4, <4>2
    <3> QED
      BY <3>1, <3>2
  <2>2. l \in Lines
    BY <1>2
  <2> QED
    BY <2>1, <2>2 DEF Lines
\* A new one gets one, and is brought.
<1>7. ASSUME NEW l \in NewLines
      PROVE  /\ Given([l EXCEPT !.seq = SequenceOf(l, old)], L, policy.next, budget.operations)
             /\ [l EXCEPT !.seq = SequenceOf(l, old)].id = budget.operations
  <2>1. l \in Lines /\ l.id = budget.operations /\ l.token \in {0, budget.operations}
    BY FreshLines
  <2>2. CASE l.token = 0
    <3>1. SequenceOf(l, old) = 0
      BY <2>2 DEF SequenceOf
    <3> QED
      BY <2>1, <2>2, <3>1 DEF Given, Lines
  <2>3. CASE l.token # 0
    <3>1. ~\E o \in old : o.token = l.token
      <4> SUFFICES ASSUME NEW o \in old, o.token = l.token PROVE FALSE
        OBVIOUS
      <4>1. o.token > budget.operations
        BY <1>3, <2>3
      <4> QED
        BY <1>1, <2>1, <2>3, <4>1
    <3>2. SequenceOf(l, old) = policy.next
      BY <2>3, <3>1 DEF SequenceOf
    <3> QED
      BY <1>1, <2>1, <2>3, <3>2 DEF Given, Lines
  <2> QED
    BY <2>2, <2>3
<1>8. FirstLines(L, keep) \in Seq(Lines) /\ Len(FirstLines(L, keep)) = keep
      /\ \A i \in 1..keep : FirstLines(L, keep)[i] = L[i]
  BY <1>1, Firsts
<1> HIDE DEF old
<1>9. CASE new = <<>>
  <2>1. shown = FirstLines(L, keep)
    BY <1>8, <1>9
  <2>2. DOMAIN shown = 1..keep /\ \A i \in 1..keep : shown[i] = L[i] /\ L[i] \in old
    BY <1>1, <1>2, <1>8, <2>1
  <2>3. lines = [i \in 1..keep |-> L[i]]
    <3>1. \A i \in 1..keep : [shown[i] EXCEPT !.seq = SequenceOf(shown[i], Members(copy.lines))] = L[i]
      BY <1>6, <2>2 DEF old
    <3>2. DOMAIN shown = 1..keep
      BY <2>2
    <3> QED
      BY <3>1, <3>2 DEF Sequenced
  <2>4. lines \in Seq(Lines) /\ Len(lines) = keep /\ \A i \in 1..keep : lines[i] = L[i]
    BY <1>1, <1>2, <2>3, SMTT(40)
  <2>n. PICK k \in Nat : k = 0
    OBVIOUS
  <2>5. \A i \in 1..Len(lines) : k + i \in 1..size /\ lines[i] = L[k + i]
    BY <1>1, <2>4, <2>n
  <2>6. /\ \A l \in Members(lines) : l \in Members(copy.lines)
        /\ \A i, j \in DOMAIN lines : lines[i].id = lines[j].id => i = j
        /\ \A l \in Members(lines) : l.id > budget.operations
    BY <1>n, <2>4, <2>5, PartOf, ZenonT(40)
  <2>7. \A l \in Members(lines) : l.id > budget.operations - 1
    <3>1. \A l \in old : l.id \in Nat
      BY <1>2 DEF Lines
    <3> QED
      BY <1>1, <2>6, <3>1 DEF old
  <2>8. Given(Blank, copy.lines, policy.next, budget.operations)
    BY BlankGiven
  <2> QED
    BY <2>4, <2>6, <2>7, <2>8, Relabelled
<1>10. CASE \E l \in NewLines : new = <<l>>
  <2>1. PICK l \in NewLines : new = <<l>>
    BY <1>10
  <2> DEFINE g == [l EXCEPT !.seq = SequenceOf(l, old)]
  <2>2. Given(g, L, policy.next, budget.operations) /\ g.id = budget.operations
    BY <1>7
  <2>3. shown = Append(FirstLines(L, keep), l)
    <3>1. l \in Lines
      BY FreshLines
    <3> QED
      BY <1>8, <2>1, <3>1
  <2>4. DOMAIN shown = 1..(keep + 1) /\ shown[keep + 1] = l
        /\ \A i \in 1..keep : shown[i] = L[i] /\ L[i] \in old
    BY <1>1, <1>2, <1>8, <2>3
  <2>5. /\ DOMAIN lines = 1..(keep + 1) /\ lines[keep + 1] = g
        /\ \A i \in 1..keep : lines[i] = L[i]
    <3>1. lines = [i \in 1..(keep + 1) |-> [shown[i] EXCEPT !.seq = SequenceOf(shown[i], old)]]
      BY <2>4 DEF old, Sequenced
    <3>2. keep + 1 \in 1..(keep + 1) /\ \A i \in 1..keep : i \in 1..(keep + 1)
      BY <1>1
    <3>3. \A i \in 1..(keep + 1) : lines[i] = [shown[i] EXCEPT !.seq = SequenceOf(shown[i], old)]
      BY <3>1
    <3>4. DOMAIN lines = 1..(keep + 1)
      BY <3>1
    <3>5. lines[keep + 1] = g
      BY <2>4, <3>2, <3>3
    <3>6. ASSUME NEW i \in 1..keep PROVE lines[i] = L[i]
      <4>1. lines[i] = [L[i] EXCEPT !.seq = SequenceOf(L[i], old)] /\ L[i] \in old
        BY <2>4, <3>2, <3>3
      <4> QED
        BY <1>6, <4>1 DEF old
    <3> QED
      BY <3>4, <3>5, <3>6
  <2> HIDE DEF g
  <2>6. g \in Lines
    BY <2>2 DEF Given
  <2>7. lines \in Seq(Lines) /\ Len(lines) = keep + 1
    <3>1. \A i \in 1..(keep + 1) : lines[i] \in Lines
      BY <1>1, <1>2, <2>4, <2>5, <2>6
    <3>2. lines = [i \in 1..(keep + 1) |-> lines[i]]
      BY <2>5 DEF Sequenced
    <3>3. PICK n \in Nat : n = keep + 1
      OBVIOUS
    <3>4. lines \in [1..n -> Lines]
      BY <3>1, <3>2, <3>3
    <3> QED
      BY <3>3, <3>4
  <2>8. \A m \in Members(lines) : m \in Members(L) \/ m = g
    <3> TAKE m \in Members(lines)
    <3>1. PICK i \in 1..(keep + 1) : m = lines[i]
      BY <2>5 DEF Members
    <3> QED
      BY <1>1, <2>4, <2>5, <3>1 DEF old
  <2>9. \A m \in Members(lines) : m.id > budget.operations - 1
    <3>1. \A o \in old : o.id \in Nat
      BY <1>2 DEF Lines
    <3> QED
      BY <1>1, <1>3, <2>2, <2>8, <3>1 DEF old
  <2>10. ASSUME NEW i \in DOMAIN lines, NEW j \in DOMAIN lines, lines[i].id = lines[j].id PROVE i = j
    <3>1. (i \in 1..keep \/ i = keep + 1) /\ (j \in 1..keep \/ j = keep + 1)
      BY <1>1, <2>5
    <3>2. \A h \in 1..keep : lines[h].id # budget.operations
      <4> TAKE h \in 1..keep
      <4>1. lines[h] \in old
        BY <2>4, <2>5
      <4>2. lines[h].id \in Nat /\ lines[h].id > budget.operations
        BY <1>2, <1>3, <4>1 DEF Lines
      <4> QED
        BY <1>1, <4>2
    <3>3. \A h, o \in 1..keep : lines[h].id = lines[o].id => h = o
      <4>1. \A h \in 1..keep : h \in 1..size /\ lines[h] = L[h]
        BY <1>1, <2>5
      <4> QED
        BY <1>5, <4>1
    <3> QED
      BY <2>2, <2>5, <2>10, <3>1, <3>2, <3>3
  <2> QED
    BY <2>2, <2>7, <2>8, <2>9, <2>10, Relabelled
<1> QED
  BY <1>9, <1>10

\* What was on offer is known at the start.
LEMMA OfferInit ==
  ASSUME ViewportInit PROVE OfferInv
<1>1. /\ copy = EmptyCopy(0, 0, FALSE)
      /\ policy = [generation |-> 0, next |-> 1, retired |-> 0]
      /\ input = [wait |-> NoWait, activated |-> NoWait, boundary |-> None]
      /\ past = {}
      /\ budget = [operations |-> MaxOperations, submissions |-> MaxSubmissions, locks |-> MaxLocks]
  BY DEF ViewportInit, NoGeneration
<1>2. Copy(copy, Lines) /\ copy.lines = <<>>
  BY <1>1 DEF Copy, EmptyCopy, NoWait
<1>3. Booked
  <2>1. policy \in [generation : Nat, next : Nat, retired : Nat] /\ policy.retired < policy.next
    BY <1>1
  <2>2. DOMAIN input = {"wait", "activated", "boundary"} /\ input.boundary = None
    BY <1>1
  <2>3. budget \in [operations : Nat, submissions : Nat, locks : Nat]
    BY <1>1, ViewportAssumption
  <2>4. past \subseteq Nat /\ 0 \notin past
    BY <1>1
  <2> QED
    BY <1>2, <2>1, <2>2, <2>3, <2>4 DEF Booked
<1>4. Members(<<>>) = {}
  BY DEF Members
<1>5. Labelled(copy.lines, policy.next, budget.operations)
  BY <1>2, <1>4 DEF Labelled
<1>6. Behind(copy.lines, past, policy.retired, input.boundary)
  BY <1>2, <1>4 DEF Behind
<1> QED
  BY <1>1, <1>3, <1>5, <1>6 DEF OfferInv

\* It stays known at the end of a delta,
LEMMA OfferEndDelta ==
  ASSUME OfferInv, EndDelta PROVE OfferInv'
<1>1. copy' = Fit(copy) /\ UNCHANGED <<policy, input, past, budget>>
  BY DEF EndDelta
<1>2. Copy(copy, Lines) /\ Limit \in Nat
  BY ViewportAssumption DEF OfferInv, Booked
<1>3. Copy(copy', Lines)
  BY <1>1, <1>2, Fitted
<1>4. PICK k \in Nat : \A i \in 1..Len(copy'.lines) :
        k + i \in 1..Len(copy.lines) /\ copy'.lines[i] = copy.lines[k + i]
  <2> HIDE DEF Copy
  <2>1. PICK k : Cut(copy, k)
    BY <1>2, FittedRow
  <2> QED
    BY <1>1, <2>1 DEF Cut
<1>5. copy.lines \in Seq(Lines) /\ copy'.lines \in Seq(Lines)
  BY <1>2, <1>3 DEF Copy
<1>6. Labelled(copy'.lines, policy.next, budget.operations)
      /\ Behind(copy'.lines, past, policy.retired, input.boundary)
  BY <1>4, <1>5, RowOf DEF OfferInv
<1> QED
  BY <1>1, <1>3, <1>6 DEF OfferInv, Booked

\* through a resynchronization,
LEMMA OfferSnapshot ==
  ASSUME OfferInv, Snapshot PROVE OfferInv'
<1>1. PICK keep \in 0..Len(copy.lines), new \in {<<>>} \cup {<<l>> : l \in NewLines} :
        LET lines == Sequenced(FirstLines(copy.lines, keep) \o new)
        IN  /\ budget.operations > 0
            /\ copy' = Fit([copy EXCEPT !.lines = lines])
            /\ policy' = [policy EXCEPT !.next = NextAfter(lines), !.generation = NoGeneration]
            /\ budget' = [budget EXCEPT !.operations = @ - 1]
            /\ UNCHANGED <<input, past>>
  BY Zenon DEF Snapshot, Sequenced
<1> DEFINE shown == FirstLines(copy.lines, keep) \o new
           lines == Sequenced(shown)
<1>2. keep \in Nat /\ keep <= Len(copy.lines)
  BY DEF OfferInv, Booked, Copy
<1>3. /\ lines \in Seq(Lines)
      /\ Labelled(lines, NextAfter(lines), budget.operations - 1)
      /\ Behind(lines, past, policy.retired, input.boundary)
      /\ NextAfter(lines) \in Nat /\ NextAfter(lines) >= policy.next
  <2> HIDE DEF lines, shown
  <2> QED
    BY <1>1, <1>2, SnapshotLabels DEF lines, shown
<1>4. budget.operations > 0 /\ copy' = Fit([copy EXCEPT !.lines = lines])
      /\ policy' = [policy EXCEPT !.next = NextAfter(lines), !.generation = NoGeneration]
      /\ budget' = [budget EXCEPT !.operations = @ - 1]
      /\ input' = input /\ past' = past
  BY <1>1
<1> HIDE DEF lines
<1> DEFINE c == [copy EXCEPT !.lines = lines]
<1>5. Copy(c, Lines) /\ c.lines = lines /\ Limit \in Nat
  BY <1>3, ViewportAssumption DEF OfferInv, Booked, Copy
<1> HIDE DEF c
<1>6. copy' = Fit(c)
  BY <1>4 DEF c
<1>7. Copy(copy', Lines)
  BY <1>5, <1>6, Fitted
<1>8. PICK k \in Nat : \A i \in 1..Len(copy'.lines) :
        k + i \in 1..Len(lines) /\ copy'.lines[i] = lines[k + i]
  <2>1. PICK k : Cut(c, k)
    BY <1>5, FittedRow
  <2> QED
    BY <1>5, <1>6, <2>1 DEF Cut
<1>9. copy'.lines \in Seq(Lines)
  BY <1>7 DEF Copy
<1>10. Labelled(copy'.lines, NextAfter(lines), budget.operations - 1)
       /\ Behind(copy'.lines, past, policy.retired, input.boundary)
  <2>1. PICK all, next, least : all = lines /\ next = NextAfter(lines) /\ least = budget.operations - 1
    OBVIOUS
  <2>2. all \in Seq(Lines) /\ Labelled(all, next, least)
        /\ Behind(all, past, policy.retired, input.boundary)
    BY <1>3, <2>1
  <2>3. \A i \in 1..Len(copy'.lines) : k + i \in 1..Len(all) /\ copy'.lines[i] = all[k + i]
    BY <1>8, <2>1
  <2> QED
    <3>1. Labelled(copy'.lines, next, least) /\ Behind(copy'.lines, past, policy.retired, input.boundary)
      BY <1>9, <2>2, <2>3, RowOf
    <3> QED
      BY <2>1, <3>1
<1>11. /\ policy' \in [generation : Nat, next : Nat, retired : Nat] /\ policy.retired < policy'.next
       /\ policy'.retired = policy.retired /\ policy'.next = NextAfter(lines)
       /\ budget' \in [operations : Nat, submissions : Nat, locks : Nat]
       /\ budget'.operations = budget.operations - 1 /\ budget.operations \in Nat
  <2>1. /\ policy \in [generation : Nat, next : Nat, retired : Nat] /\ policy.retired < policy.next
        /\ budget \in [operations : Nat, submissions : Nat, locks : Nat]
    BY DEF OfferInv, Booked
  <2>2. PICK q \in Nat : q = NextAfter(lines) /\ q >= policy.next
    BY <1>3
  <2>3. policy' = [policy EXCEPT !.next = q, !.generation = 0]
    BY <1>4, <2>2 DEF NoGeneration
  <2>4. policy' \in [generation : Nat, next : Nat, retired : Nat]
        /\ policy'.retired = policy.retired /\ policy'.next = q
    BY <2>1, <2>3
  <2>5. policy.retired \in Nat /\ policy.next \in Nat
    BY <2>1
  <2>6. budget.operations \in Nat /\ budget.operations - 1 \in Nat
    BY <2>1, <1>4
  <2>7. budget' \in [operations : Nat, submissions : Nat, locks : Nat]
        /\ budget'.operations = budget.operations - 1
    BY <2>1, <2>6, <1>4
  <2> QED
    BY <2>1, <2>2, <2>4, <2>5, <2>6, <2>7
<1>12. Booked'
  BY <1>4, <1>7, <1>11 DEF OfferInv, Booked
<1>13. \A t \in past' : t > budget'.operations
  BY <1>4, <1>11 DEF OfferInv, Booked
<1> QED
  BY <1>4, <1>10, <1>11, <1>12, <1>13 DEF OfferInv

\* when another game begins,
LEMMA OfferReset ==
  ASSUME OfferInv, Reset PROVE OfferInv'
<1>1. /\ budget.operations > 0 /\ copy' = EmptyCopy(0, 0, FALSE)
      /\ policy' = [policy EXCEPT !.generation = 0]
      /\ input' = [wait |-> NoWait, activated |-> NoWait, boundary |-> None]
      /\ budget' = [budget EXCEPT !.operations = @ - 1] /\ past' = past
  BY DEF Reset, NoGeneration
<1>2. Copy(copy', Lines) /\ copy'.lines = <<>>
  BY <1>1 DEF Copy, EmptyCopy, NoWait
<1>3. Members(<<>>) = {}
  BY DEF Members
<1>4. /\ policy' \in [generation : Nat, next : Nat, retired : Nat] /\ policy'.retired < policy'.next
      /\ budget' \in [operations : Nat, submissions : Nat, locks : Nat]
      /\ budget'.operations = budget.operations - 1 /\ budget.operations \in Nat
  BY <1>1 DEF OfferInv, Booked
<1>5. Booked'
  BY <1>1, <1>2, <1>4 DEF OfferInv, Booked
<1>6. Labelled(copy'.lines, policy'.next, budget'.operations)
  BY <1>2, <1>3 DEF Labelled
<1>7. Behind(copy'.lines, past', policy'.retired, input'.boundary)
  BY <1>2, <1>3 DEF Behind
<1>8. \A t \in past' : t > budget'.operations
  BY <1>1, <1>4 DEF OfferInv, Booked
<1> QED
  BY <1>5, <1>6, <1>7, <1>8 DEF OfferInv

\* when the player answers,
LEMMA OfferSubmit ==
  ASSUME OfferInv, Submit PROVE OfferInv'
<1>1. /\ input' = [input EXCEPT !.activated = input.wait, !.boundary = policy.retired]
      /\ policy' = [policy EXCEPT !.retired = policy.next - 1]
      /\ budget' = [budget EXCEPT !.submissions = @ - 1] /\ budget.submissions > 0
      /\ copy' = copy /\ past' = past
  BY DEF Submit
<1>2. /\ policy \in [generation : Nat, next : Nat, retired : Nat] /\ policy.retired < policy.next
      /\ budget \in [operations : Nat, submissions : Nat, locks : Nat]
      /\ DOMAIN input = {"wait", "activated", "boundary"}
  BY DEF OfferInv, Booked
<1>3. PICK n \in Nat, r \in Nat : n = policy.next - 1 /\ r = policy.retired /\ r <= n
  BY <1>2
<1>4. /\ policy' \in [generation : Nat, next : Nat, retired : Nat] /\ policy'.retired = n
      /\ policy'.next = n + 1
      /\ budget' \in [operations : Nat, submissions : Nat, locks : Nat]
      /\ budget'.operations = budget.operations
      /\ DOMAIN input' = {"wait", "activated", "boundary"} /\ input'.boundary = r
  BY <1>1, <1>2, <1>3
<1>5. Booked'
  BY <1>1, <1>3, <1>4 DEF OfferInv, Booked
<1>6. Labelled(copy'.lines, policy'.next, budget'.operations)
  BY <1>1, <1>2, <1>3, <1>4 DEF OfferInv
<1>7. Behind(copy'.lines, past', policy'.retired, input'.boundary)
  <2> SUFFICES ASSUME NEW l \in Members(copy.lines), l.token \in past PROVE l.seq <= n /\ l.seq <= r
    BY <1>1, <1>4 DEF Behind
  <2>1. l \in Lines /\ l.seq <= r
    BY <1>3, MemberTypes DEF OfferInv, Behind, Booked, Copy
  <2> QED
    BY <1>3, <2>1 DEF Lines
<1> QED
  BY <1>1, <1>4, <1>5, <1>6, <1>7 DEF OfferInv

\* at the next prompt,
LEMMA OfferNewWait ==
  ASSUME OfferInv, NewWait PROVE OfferInv'
<1>1. PICK wait \in Waits \ {input.wait} :
        LET atBoundary == wait # NoWait /\ input.boundary # None
        IN  /\ input' = [wait |-> wait, activated |-> NoWait,
                         boundary |-> IF atBoundary THEN None ELSE input.boundary]
            /\ policy' = [policy EXCEPT !.retired = IF atBoundary /\ Keeps THEN input.boundary ELSE @]
            /\ past' = IF atBoundary /\ ~Keeps
                       THEN past \cup {l.token : l \in {m \in Members(copy.lines) :
                                                          m.token # 0 /\ m.seq <= policy.retired}}
                       ELSE past
            /\ UNCHANGED <<copy, budget>>
  BY Zenon DEF NewWait
<1> DEFINE atBoundary == wait # NoWait /\ input.boundary # None
<1>2. /\ policy \in [generation : Nat, next : Nat, retired : Nat] /\ policy.retired < policy.next
      /\ budget \in [operations : Nat, submissions : Nat, locks : Nat]
      /\ DOMAIN input' = {"wait", "activated", "boundary"} /\ copy' = copy /\ budget' = budget
      /\ input.boundary = None \/ (input.boundary \in Nat /\ input.boundary <= policy.retired)
  BY <1>1 DEF OfferInv, Booked
<1>3. Members(copy.lines) \subseteq Lines
  BY MemberTypes DEF OfferInv, Booked, Copy
<1>4. CASE atBoundary /\ Keeps
  <2>1. /\ input'.boundary = None /\ past' = past
        /\ policy' = [policy EXCEPT !.retired = input.boundary]
    BY <1>1, <1>4
  <2>2. PICK b \in Nat : b = input.boundary /\ b <= policy.retired /\ b # None
    BY <1>2, <1>4 DEF None
  <2>3. policy' \in [generation : Nat, next : Nat, retired : Nat] /\ policy'.retired = b
        /\ policy'.next = policy.next
    BY <1>2, <2>1, <2>2
  <2>4. b < policy.next
    <3>1. policy.retired \in Nat /\ policy.next \in Nat
      BY <1>2
    <3> QED
      BY <1>2, <2>2, <3>1
  <2>5. Booked'
    BY <1>2, <2>1, <2>3, <2>4 DEF OfferInv, Booked
  <2>6. Behind(copy'.lines, past', policy'.retired, input'.boundary)
    BY <1>2, <2>1, <2>2, <2>3 DEF OfferInv, Behind
  <2> QED
    BY <1>2, <2>1, <2>3, <2>5, <2>6 DEF OfferInv
<1>5. CASE atBoundary /\ ~Keeps
  <2>1. /\ input'.boundary = None /\ policy' = policy
        /\ past' = past \cup {l.token : l \in {m \in Members(copy.lines) :
                                                 m.token # 0 /\ m.seq <= policy.retired}}
    <3>1. [policy EXCEPT !.retired = policy.retired] = policy
      BY <1>2
    <3> QED
      BY <1>1, <1>5, <3>1
  <2>2. \A t \in past' : t \in past \/ \E m \in Members(copy.lines) :
                           t = m.token /\ m.token # 0 /\ m.seq <= policy.retired
    BY <2>1
  <2>3. \A m \in Members(copy.lines) : m.token \in Nat /\ (m.token # 0 => m.token > budget.operations)
    BY <1>3 DEF Lines, OfferInv, Labelled
  <2>4. past' \subseteq Nat /\ 0 \notin past' /\ \A t \in past' : t > budget'.operations
    BY <1>2, <2>2, <2>3, ZenonT(40) DEF OfferInv, Booked
  <2>5. Booked'
    BY <1>2, <2>1, <2>4 DEF OfferInv, Booked
  <2>6. ASSUME NEW l \in Members(copy.lines), l.token \in past' PROVE l.seq <= policy.retired
    <3>1. CASE l.token \in past
      BY <3>1 DEF OfferInv, Behind
    <3>2. CASE \E m \in Members(copy.lines) : l.token = m.token /\ m.seq <= policy.retired
      BY <3>2 DEF OfferInv, Labelled
    <3> QED
      BY <2>2, <2>6, <3>1, <3>2
  <2>7. Behind(copy'.lines, past', policy'.retired, input'.boundary)
    BY <1>2, <2>1, <2>6 DEF Behind
  <2> QED
    BY <1>2, <2>1, <2>4, <2>5, <2>7 DEF OfferInv
<1>6. CASE ~atBoundary
  <2>1. input'.boundary = input.boundary /\ policy' = policy /\ past' = past
    <3>1. [policy EXCEPT !.retired = policy.retired] = policy
      BY <1>2
    <3> QED
      BY <1>1, <1>6, <3>1
  <2>2. Booked'
    BY <1>2, <2>1 DEF OfferInv, Booked
  <2> QED
    BY <1>2, <2>1, <2>2 DEF OfferInv
<1> QED
  BY <1>4, <1>5, <1>6

\* and when the answer is rejected.
LEMMA OfferRejected ==
  ASSUME OfferInv, Rejected PROVE OfferInv'
<1>1. /\ input' = [input EXCEPT !.activated = NoWait, !.boundary = None]
      /\ policy' = [policy EXCEPT !.retired = IF input.boundary = None THEN @ ELSE input.boundary]
      /\ copy' = copy /\ past' = past /\ budget' = budget
  BY DEF Rejected
<1>2. /\ policy \in [generation : Nat, next : Nat, retired : Nat] /\ policy.retired < policy.next
      /\ DOMAIN input = {"wait", "activated", "boundary"}
      /\ input.boundary = None \/ (input.boundary \in Nat /\ input.boundary <= policy.retired)
  BY DEF OfferInv, Booked
<1>3. DOMAIN input' = {"wait", "activated", "boundary"} /\ input'.boundary = None
  BY <1>1, <1>2
<1>4. CASE input.boundary = None
  <2>1. policy' = policy
    BY <1>1, <1>2, <1>4
  <2>2. Booked'
    BY <1>1, <1>3, <2>1 DEF OfferInv, Booked
  <2> QED
    BY <1>1, <1>3, <1>4, <2>1, <2>2 DEF OfferInv
<1>5. CASE input.boundary # None
  <2>1. PICK b \in Nat : b = input.boundary /\ b <= policy.retired
    BY <1>2, <1>5
  <2>2. policy' = [policy EXCEPT !.retired = b]
    BY <1>1, <1>5, <2>1
  <2>3. policy' \in [generation : Nat, next : Nat, retired : Nat] /\ policy'.retired = b
        /\ policy'.next = policy.next
    BY <1>2, <2>2
  <2>4. b < policy.next
    <3>1. policy.retired \in Nat /\ policy.next \in Nat
      BY <1>2
    <3> QED
      BY <1>2, <2>1, <3>1
  <2>5. Booked'
    BY <1>1, <1>3, <2>3, <2>4 DEF OfferInv, Booked
  <2>6. Behind(copy'.lines, past', policy'.retired, input'.boundary)
    BY <1>1, <1>3, <1>5, <2>1, <2>3 DEF OfferInv, Behind
  <2> QED
    BY <1>1, <2>3, <2>5, <2>6 DEF OfferInv
<1> QED
  BY <1>4, <1>5

\* What was on offer is known in every step.
LEMMA OfferNext ==
  ASSUME OfferInv, [ViewportNext]_viewportVars PROVE OfferInv'
<1>1. CASE Switch
  <2>1. copy' = copy /\ policy' = policy /\ input' = input /\ past' = past
        /\ budget' = [budget EXCEPT !.locks = @ - 1] /\ budget.locks > 0
    BY <1>1 DEF Switch
  <2>2. budget \in [operations : Nat, submissions : Nat, locks : Nat]
    BY DEF OfferInv, Booked
  <2>3. budget' \in [operations : Nat, submissions : Nat, locks : Nat]
        /\ budget'.operations = budget.operations
    BY <2>1, <2>2
  <2>4. Booked'
    BY <2>1, <2>3 DEF OfferInv, Booked
  <2> QED
    BY <2>1, <2>3, <2>4 DEF OfferInv
<1>2. CASE CommitLines
  <2>1. UNCHANGED <<copy, policy, input, past, budget>>
    BY <1>2 DEF CommitLines
  <2> QED
    BY <2>1 DEF OfferInv, Booked
<1>3. CASE UNCHANGED viewportVars
  BY <1>3 DEF OfferInv, Booked, viewportVars
<1> QED
  BY <1>1, <1>2, <1>3, OfferOperate, OfferEndDelta, OfferSnapshot, OfferReset, OfferSubmit,
     OfferNewWait, OfferRejected DEF ViewportNext

\* A button that was retired for good is not offered again.
THEOREM RetiredStays == ViewportSpec => []RetiredForGood
<1>1. OfferInv => RetiredForGood
  <2> SUFFICES ASSUME OfferInv, NEW l \in Members(copy.lines), l.token \in past
               PROVE  ~Enabled(l, policy.generation, policy.retired)
    BY DEF RetiredForGood
  <2>1. l \in Lines /\ l.seq <= policy.retired /\ policy.retired \in Nat
    BY MemberTypes DEF OfferInv, Behind, Booked, Copy
  <2> QED
    BY <2>1 DEF Enabled, Lines
<1>2. ViewportInit => OfferInv
  BY OfferInit
<1>3. OfferInv /\ [ViewportNext]_viewportVars => OfferInv'
  BY OfferNext
<1> QED
  BY <1>1, <1>2, <1>3, PTL DEF ViewportSpec

\* What the lines make is rows, and for each line how many.
Rowed(s) ==
  LET m == Merged(s)
  IN  /\ m = [rows |-> m.rows, prefix |-> m.prefix]
      /\ m.rows \in Seq(Seq(Lines)) /\ m.prefix \in Seq(Nat)
      /\ Len(m.prefix) = Len(s) + 1 /\ m.prefix[1] = 0 /\ m.prefix[Len(s) + 1] = Len(m.rows)

\* A line more goes to the last row, or makes one.
LEMMA MergeMore ==
  ASSUME NEW s \in Seq(Lines), NEW l \in Lines
  PROVE  Merged(Append(s, l)) = MergeLine(Merged(s), l)
<1>1. Append(s, l) \in Seq(Lines)
  OBVIOUS
<1> DEFINE base == [rows |-> <<>>, prefix |-> <<0>>]
<1>2. Merged(s) = Run("line", base, s) /\ Merged(Append(s, l)) = Run("line", base, Append(s, l))
  BY <1>1, MergedRuns
<1>3. Run("line", base, Append(s, l)) = Step("line", Run("line", base, s), l)
  BY RunMore
<1>4. \A x : Step("line", x, l) = MergeLine(x, l)
  BY DEF Step
<1> HIDE DEF base
<1> QED
  BY <1>2, <1>3, <1>4

\* A sequence with elements is what comes before the last, and the last.
LEMMA Split ==
  ASSUME NEW S, NEW s \in Seq(S), NEW n \in Nat, Len(s) = n + 1
  PROVE  /\ s = Append(FirstLines(s, n), s[n + 1]) /\ s[n + 1] \in S
         /\ FirstLines(s, n) \in Seq(S) /\ Len(FirstLines(s, n)) = n
         /\ \A i \in 1..n : FirstLines(s, n)[i] = s[i]
<1> DEFINE f == FirstLines(s, n)
<1>1. f \in Seq(S) /\ Len(f) = n /\ \A i \in 1..n : f[i] = s[i]
  BY Firsts
<1> HIDE DEF f
<1>2. s[n + 1] \in S
  OBVIOUS
<1>3. Append(f, s[n + 1]) \in Seq(S) /\ Len(Append(f, s[n + 1])) = n + 1
      /\ \A i \in 1..(n + 1) : Append(f, s[n + 1])[i] = s[i]
  BY <1>1, <1>2
<1>4. s = Append(f, s[n + 1])
  BY <1>3, SeqEqual
<1> QED
  BY <1>1, <1>2, <1>4 DEF f

\* No lines make no rows.
LEMMA MergedNone ==
  Merged(<<>>) = [rows |-> <<>>, prefix |-> <<0>>] /\ Rowed(<<>>)
<1>1. Merged(<<>>) = [rows |-> <<>>, prefix |-> <<0>>]
  <2>1. <<>> \in Seq(Lines)
    OBVIOUS
  <2> QED
    BY <2>1, MergedRuns, RunNone
<1>2. <<>> \in Seq(Seq(Lines)) /\ <<0>> \in Seq(Nat) /\ Len(<<0>>) = 1 /\ <<0>>[1] = 0
      /\ Len(<<>>) = 0 /\ Len(<<>>) + 1 = 1
  OBVIOUS
<1>3. Merged(<<>>).rows = <<>> /\ Merged(<<>>).prefix = <<0>>
  BY <1>1
<1> QED
  BY <1>1, <1>2, <1>3 DEF Rowed

\* What a line more does to the rows.
LEMMA MergeOne ==
  ASSUME NEW s \in Seq(Lines), NEW l \in Lines, Rowed(s)
  PROVE  LET m == Merged(s)  r == Merged(Append(s, l)) IN
         /\ Rowed(Append(s, l)) /\ Len(r.rows) >= Len(m.rows)
         /\ \A i \in 1..(Len(s) + 1) : r.prefix[i] = m.prefix[i]
         /\ \A i \in 1..Len(m.rows) : i # Len(m.rows) \/ ~l.edge => r.rows[i] = m.rows[i]
         /\ ~l.edge \/ m.rows = <<>> =>
              Len(r.rows) = Len(m.rows) + 1 /\ r.rows[Len(m.rows) + 1] = <<l>>
<1> DEFINE m == Merged(s)  r == Merged(Append(s, l))
<1>1. r = MergeLine(m, l)
  BY MergeMore
<1>2. PICK rows \in Seq(Seq(Lines)), prefix \in Seq(Nat) : m.rows = rows /\ m.prefix = prefix
        /\ Len(prefix) = Len(s) + 1 /\ prefix[1] = 0 /\ prefix[Len(s) + 1] = Len(rows)
  BY DEF Rowed
<1>n. PICK n \in Nat : n = Len(s)
  OBVIOUS
<1>k. PICK k \in Nat : k = Len(rows)
  OBVIOUS
<1>s. Append(s, l) \in Seq(Lines) /\ Len(Append(s, l)) = n + 1
  BY <1>n
<1> HIDE DEF m, r
\* The rows there are then.
<1>3. PICK next \in Seq(Seq(Lines)) :
        /\ r = [rows |-> next, prefix |-> Append(prefix, Len(next))]
        /\ Len(next) \in Nat /\ Len(next) >= k
        /\ \A i \in 1..k : i # k \/ ~l.edge => next[i] = rows[i]
        /\ ~l.edge \/ rows = <<>> => Len(next) = k + 1 /\ next[k + 1] = <<l>>
  <2>1. CASE l.edge /\ rows # <<>>
    <3>1. k > 0 /\ rows[k] \in Seq(Lines)
      BY <1>k, <2>1
    <3>p. PICK last \in Seq(Lines) : last = rows[k]
      BY <3>1
    <3>q. Append(last, l) \in Seq(Lines)
      OBVIOUS
    <3>2. PICK row \in Seq(Lines) : row = Append(rows[k], l)
      BY <3>p, <3>q
    <3> DEFINE more == [rows EXCEPT ![k] = row]
    <3>3. more \in Seq(Seq(Lines)) /\ Len(more) = k /\ \A i \in 1..k : i # k => more[i] = rows[i]
      BY <1>k, <3>1
    <3>4. r = [rows |-> more, prefix |-> Append(prefix, Len(more))]
      BY <1>1, <1>2, <1>k, <2>1, <3>2 DEF MergeLine
    <3> HIDE DEF more
    <3> USE <3>3
    <3> WITNESS more \in Seq(Seq(Lines))
    <3> QED
      BY <2>1, <3>3, <3>4
  <2>2. CASE ~(l.edge /\ rows # <<>>)
    <3> DEFINE more == Append(rows, <<l>>)
    <3>1. <<l>> \in Seq(Lines)
      OBVIOUS
    <3>2. more \in Seq(Seq(Lines)) /\ Len(more) = k + 1 /\ more[k + 1] = <<l>>
          /\ \A i \in 1..k : more[i] = rows[i]
      BY <1>k, <3>1
    <3>3. r = [rows |-> more, prefix |-> Append(prefix, Len(more))]
      BY <1>1, <1>2, <2>2 DEF MergeLine
    <3> HIDE DEF more
    <3> USE <3>2
    <3> WITNESS more \in Seq(Seq(Lines))
    <3> QED
      BY <3>2, <3>3
  <2> QED
    BY <2>1, <2>2
<1>4. r.rows = next /\ r.prefix = Append(prefix, Len(next))
  BY <1>3
<1>5. /\ r.prefix \in Seq(Nat) /\ Len(r.prefix) = n + 2
      /\ \A i \in 1..(n + 1) : r.prefix[i] = prefix[i]
      /\ r.prefix[n + 2] = Len(next)
  BY <1>2, <1>3, <1>4, <1>n
<1>6. Rowed(Append(s, l))
  <2>1. n + 1 + 1 = n + 2 /\ 1 \in 1..(n + 1)
    OBVIOUS
  <2>2. r.prefix[1] = 0
    BY <1>2, <1>5, <2>1
  <2> QED
    BY <1>3, <1>4, <1>5, <1>s, <2>1, <2>2 DEF Rowed, r
<1> QED
  BY <1>2, <1>3, <1>4, <1>5, <1>6, <1>k, <1>n DEF m, r

\* So lines make rows.
LEMMA MergedRows ==
  ASSUME NEW s \in Seq(Lines) PROVE Rowed(s)
<1> DEFINE T == {n \in Nat : \A q \in Seq(Lines) : Len(q) = n => Rowed(q)}
<1>n. PICK m \in Nat : m = Len(s)
  OBVIOUS
<1>1. 0 \in T
  <2>1. \A q \in Seq(Lines) : Len(q) = 0 => q = <<>>
    OBVIOUS
  <2> QED
    BY <2>1, MergedNone
<1>2. ASSUME NEW i \in 0..(m - 1), i \in T PROVE i + 1 \in T
  <2> SUFFICES ASSUME NEW q \in Seq(Lines), Len(q) = i + 1 PROVE Rowed(q)
    OBVIOUS
  <2>1. PICK f \in Seq(Lines), l \in Lines : q = Append(f, l) /\ Len(f) = i
    <3>1. i \in Nat
      OBVIOUS
    <3>2. q = Append(FirstLines(q, i), q[i + 1]) /\ q[i + 1] \in Lines
          /\ FirstLines(q, i) \in Seq(Lines) /\ Len(FirstLines(q, i)) = i
      BY <3>1, Split
    <3> QED
      BY <3>2
  <2>2. Rowed(f)
    BY <1>2, <2>1
  <2> QED
    BY <2>1, <2>2, MergeOne
<1>3. 0..m \subseteq T
  <2> HIDE DEF T
  <2> QED
    BY <1>1, <1>2, UpTo
<1> QED
  BY <1>3, <1>n

\* How many rows.
LEMMA RowCounts ==
  \A r \in Seq(Lines) : Len(Merged(r).rows) \in Nat
<1> SUFFICES ASSUME NEW r \in Seq(Lines) PROVE Len(Merged(r).rows) \in Nat
  OBVIOUS
<1>1. Rowed(r)
  BY MergedRows
<1> QED
  BY <1>1 DEF Rowed

\* The rows of the first lines stay, unless the next line goes to the last of them.
LEMMA FirstRows ==
  ASSUME NEW s \in Seq(Lines), NEW k \in Nat, k <= Len(s)
  PROVE  LET m == Merged(s)  f == Merged(FirstLines(s, k)) IN
         /\ \A i \in 1..(k + 1) : m.prefix[i] = f.prefix[i]
         /\ Len(f.rows) <= Len(m.rows)
         /\ k = 0 \/ k = Len(s) \/ ~s[k + 1].edge => \A i \in 1..Len(f.rows) : m.rows[i] = f.rows[i]
<1> DEFINE Holds(q) ==
      LET m == Merged(q)  f == Merged(FirstLines(q, k)) IN
      /\ \A i \in 1..(k + 1) : m.prefix[i] = f.prefix[i]
      /\ Len(f.rows) <= Len(m.rows)
      /\ Len(q) > k /\ (k = 0 \/ ~q[k + 1].edge) =>
           /\ \A i \in 1..Len(f.rows) : m.rows[i] = f.rows[i]
           /\ Len(f.rows) < Len(m.rows)
    T == {d \in Nat : \A q \in Seq(Lines) : Len(q) = k + d => Holds(q)}
<1>n. PICK n \in Nat : n = Len(s) - k
  OBVIOUS
<1>w. ASSUME NEW q \in Seq(Lines), Len(q) = k PROVE FirstLines(q, k) = q
  <2>1. FirstLines(q, k) \in Seq(Lines) /\ Len(FirstLines(q, k)) = k
        /\ \A i \in 1..k : FirstLines(q, k)[i] = q[i]
    BY <1>w, Firsts
  <2> QED
    BY <1>w, <2>1, SeqEqual
<1>1. 0 \in T
  <2> SUFFICES ASSUME NEW q \in Seq(Lines), Len(q) = k PROVE Holds(q)
    OBVIOUS
  <2>1. FirstLines(q, k) = q
    BY <1>w
  <2>2. Len(Merged(q).rows) \in Nat
    BY MergedRows DEF Rowed
  <2> QED
    BY <2>1, <2>2
<1>2. ASSUME NEW d \in 0..(n - 1), d \in T PROVE d + 1 \in T
  <2> SUFFICES ASSUME NEW q \in Seq(Lines), Len(q) = k + (d + 1) PROVE Holds(q)
    OBVIOUS
  <2>n. PICK h \in Nat : h = k + d
    OBVIOUS
  <2>1. PICK g \in Seq(Lines), l \in Lines : q = Append(g, l) /\ Len(g) = h /\ l = q[h + 1]
          /\ \A i \in 1..h : g[i] = q[i]
    <3>1. Len(q) = h + 1
      BY <2>n
    <3>2. q = Append(FirstLines(q, h), q[h + 1]) /\ q[h + 1] \in Lines
          /\ FirstLines(q, h) \in Seq(Lines) /\ Len(FirstLines(q, h)) = h
          /\ \A i \in 1..h : FirstLines(q, h)[i] = q[i]
      BY <3>1, Split
    <3> QED
      BY <3>2
  <2>2. FirstLines(q, k) = FirstLines(g, k)
    <3>1. /\ FirstLines(g, k) \in Seq(Lines) /\ Len(FirstLines(g, k)) = k
          /\ \A i \in 1..k : FirstLines(g, k)[i] = g[i]
      BY <2>1, <2>n, Firsts
    <3>4. k <= Len(q)
      OBVIOUS
    <3>2. /\ FirstLines(q, k) \in Seq(Lines) /\ Len(FirstLines(q, k)) = k
          /\ \A i \in 1..k : FirstLines(q, k)[i] = q[i]
      BY <3>4, Firsts
    <3>3. \A i \in 1..k : i \in 1..h
      BY <2>n
    <3> QED
      BY <2>1, <3>1, <3>2, <3>3, SeqEqual
  <2>3. Holds(g)
    BY <1>2, <2>1, <2>n
  <2> DEFINE m == Merged(q)  o == Merged(g)  f == Merged(FirstLines(g, k))
  <2>4. PICK a \in Nat, b \in Nat, c \in Nat : a = Len(f.rows) /\ b = Len(o.rows) /\ c = Len(m.rows)
    <3>1. FirstLines(g, k) \in Seq(Lines)
      BY <2>1, <2>n, Firsts
    <3>2. \A r \in Seq(Lines) : Len(Merged(r).rows) \in Nat
      BY RowCounts
    <3> QED
      BY <2>1, <3>1, <3>2
  <2>5. /\ c >= b
        /\ \A i \in 1..(h + 1) : m.prefix[i] = o.prefix[i]
        /\ \A i \in 1..b : i # b \/ ~l.edge => m.rows[i] = o.rows[i]
        /\ ~l.edge \/ o.rows = <<>> => c = b + 1
    <3>1. Rowed(g)
      BY MergedRows
    <3> QED
      BY <2>1, <2>4, <3>1, MergeOne
  <2>6. o.rows = <<>> <=> b = 0
    <3>1. o.rows \in Seq(Seq(Lines))
      BY MergedRows DEF Rowed
    <3> QED
      BY <2>4, <3>1
  <2>7. /\ \A i \in 1..(k + 1) : o.prefix[i] = f.prefix[i]
        /\ a <= b
        /\ Len(g) > k /\ (k = 0 \/ ~g[k + 1].edge) =>
             /\ \A i \in 1..a : o.rows[i] = f.rows[i]
             /\ a < b
    BY <2>3, <2>4
  <2> HIDE DEF m, o, f
  <2>8. \A i \in 1..(k + 1) : m.prefix[i] = f.prefix[i]
    <3>1. \A i \in 1..(k + 1) : i \in 1..(h + 1)
      BY <2>n
    <3> QED
      BY <2>5, <2>7, <3>1
  <2>9. a <= c
    BY <2>5, <2>7
  <2>10. ASSUME k = 0 \/ ~q[k + 1].edge
         PROVE  (\A i \in 1..a : m.rows[i] = f.rows[i]) /\ a < c
    <3>1. CASE d = 0
      <4>1. h = k /\ g = FirstLines(g, k)
        BY <1>w, <2>1, <2>n, <3>1
      <4>2. o = f /\ a = b
        BY <4>1, <2>4 DEF o, f
      <4>3. ~l.edge \/ o.rows = <<>>
        <5>1. CASE k = 0
          <6>1. g = <<>>
            BY <2>1, <4>1, <5>1
          <6> QED
            BY <6>1, MergedNone DEF o
        <5> QED
          BY <2>1, <2>10, <4>1, <5>1
      <4>4. \A i \in 1..b : m.rows[i] = o.rows[i]
        BY <2>5, <2>6, <4>3
      <4> QED
        BY <2>5, <4>2, <4>3, <4>4
    <3>2. CASE d # 0
      <4>1. Len(g) > k /\ g[k + 1] = q[k + 1]
        <5>1. h > k /\ k + 1 \in 1..h
          BY <2>n, <3>2
        <5> QED
          BY <2>1, <5>1
      <4>2. (\A i \in 1..a : o.rows[i] = f.rows[i]) /\ a < b
        BY <2>7, <2>10, <4>1
      <4>3. \A i \in 1..a : m.rows[i] = o.rows[i]
        BY <2>5, <4>2
      <4> QED
        BY <2>5, <4>2, <4>3
    <3> QED
      BY <3>1, <3>2
  <2> QED
    BY <2>2, <2>4, <2>8, <2>9, <2>10 DEF m, f
<1>3. 0..n \subseteq T
  <2> HIDE DEF T
  <2> QED
    BY <1>1, <1>2, UpTo
<1>4. Holds(s)
  <2>1. n \in T
    <3> HIDE DEF T
    <3> QED
      BY <1>3
  <2>2. Len(s) = k + n
    BY <1>n
  <2> HIDE DEF Holds
  <2> QED
    BY <2>1, <2>2
<1>5. k = Len(s) => FirstLines(s, k) = s
  BY <1>w
<1> QED
  BY <1>4, <1>5

\* Lines that hang on none make a row each.
LEMMA TailRows ==
  ASSUME NEW s \in Seq(Lines), NEW k \in Nat, k <= Len(s),
         \A i \in (k + 1)..Len(s) : ~s[i].edge
  PROVE  LET m == Merged(s)  f == Merged(FirstLines(s, k)) IN
         /\ Len(m.rows) = Len(f.rows) + (Len(s) - k)
         /\ \A i \in 1..(Len(s) - k) : /\ m.rows[Len(f.rows) + i] = <<s[k + i]>>
                                       /\ m.prefix[k + 1 + i] = Len(f.rows) + i
<1>a. PICK f : f = FirstLines(s, k)
  OBVIOUS
<1>b. PICK a \in Nat : a = Len(Merged(f).rows)
  <2>1. f \in Seq(Lines)
    BY <1>a, Firsts
  <2> QED
    BY <2>1, RowCounts
<1>n. PICK n \in Nat : n = Len(s) - k
  <2>1. Len(s) \in Nat
    OBVIOUS
  <2>2. Len(s) - k \in Nat
    BY <2>1
  <2> QED
    BY <2>2, Zenon
<1> DEFINE Holds(q, d) ==
      /\ Len(Merged(q).rows) = a + d
      /\ \A i \in 1..d : Merged(q).rows[a + i] = <<q[k + i]>> /\ Merged(q).prefix[k + 1 + i] = a + i
    T == {d \in Nat : \A q \in Seq(Lines) :
            /\ Len(q) = k + d /\ FirstLines(q, k) = f
            /\ \A i \in 1..d : ~q[k + i].edge
            => Holds(q, d)}
<1>1. 0 \in T
  <2> SUFFICES ASSUME NEW q \in Seq(Lines), Len(q) = k, FirstLines(q, k) = f PROVE Holds(q, 0)
    OBVIOUS
  <2>1. f \in Seq(Lines) /\ Len(f) = k /\ \A i \in 1..k : f[i] = q[i]
    BY Firsts
  <2>2. q = f
    BY <2>1, SeqEqual
  <2> QED
    BY <1>b, <2>2
<1>2. ASSUME NEW d \in 0..(n - 1), d \in T PROVE d + 1 \in T
  <2> HIDE DEF Holds
  <2> SUFFICES ASSUME NEW q \in Seq(Lines), Len(q) = k + (d + 1), FirstLines(q, k) = f,
                      \A i \in 1..(d + 1) : ~q[k + i].edge
               PROVE  Holds(q, d + 1)
    OBVIOUS
  <2>n. PICK h \in Nat : h = k + d /\ d \in Nat
    OBVIOUS
  <2>1. PICK g \in Seq(Lines), l \in Lines : q = Append(g, l) /\ Len(g) = h /\ l = q[h + 1]
          /\ \A i \in 1..h : g[i] = q[i]
    <3>1. Len(q) = h + 1
      BY <2>n
    <3>2. q = Append(FirstLines(q, h), q[h + 1]) /\ q[h + 1] \in Lines
          /\ FirstLines(q, h) \in Seq(Lines) /\ Len(FirstLines(q, h)) = h
          /\ \A i \in 1..h : FirstLines(q, h)[i] = q[i]
      BY <3>1, Split
    <3> QED
      BY <3>2
  <2>2. FirstLines(g, k) = f
    <3>1. /\ FirstLines(g, k) \in Seq(Lines) /\ Len(FirstLines(g, k)) = k
          /\ \A i \in 1..k : FirstLines(g, k)[i] = g[i]
      BY <2>1, <2>n, Firsts
    <3>4. k <= Len(q)
      BY <2>n
    <3>2. /\ FirstLines(q, k) \in Seq(Lines) /\ Len(FirstLines(q, k)) = k
          /\ \A i \in 1..k : FirstLines(q, k)[i] = q[i]
      BY <3>4, Firsts
    <3>3. \A i \in 1..k : i \in 1..h
      BY <2>n
    <3> QED
      BY <2>1, <3>1, <3>2, <3>3, SeqEqual
  <2>3. \A i \in 1..d : k + i \in 1..h /\ g[k + i] = q[k + i] /\ i \in 1..(d + 1)
    BY <2>1, <2>n
  <2>4. Holds(g, d)
    BY <1>2, <2>1, <2>2, <2>3, <2>n
  <2> DEFINE m == Merged(q)  o == Merged(g)
  <2>5. /\ ~l.edge
        /\ h + 1 = k + (d + 1)
    <3>1. h + 1 = k + (d + 1) /\ d + 1 \in 1..(d + 1)
      BY <2>n
    <3>2. ~q[k + (d + 1)].edge
      BY <3>1
    <3> QED
      BY <2>1, <3>1, <3>2
  <2>6. /\ Rowed(Append(g, l))
        /\ \A i \in 1..(h + 1) : m.prefix[i] = o.prefix[i]
        /\ \A i \in 1..Len(o.rows) : m.rows[i] = o.rows[i]
        /\ Len(m.rows) = Len(o.rows) + 1 /\ m.rows[Len(o.rows) + 1] = <<l>>
    <3>1. Rowed(g)
      BY MergedRows
    <3> QED
      BY <2>1, <2>5, <3>1, MergeOne
  <2>7. Len(o.rows) = a + d
        /\ \A i \in 1..d : o.rows[a + i] = <<g[k + i]>> /\ o.prefix[k + 1 + i] = a + i
    BY <2>4 DEF Holds
  <2>8. m.prefix[Len(q) + 1] = Len(m.rows)
    BY <2>1, <2>6 DEF Rowed
  <2> HIDE DEF m, o
  <2>9. Len(m.rows) = a + (d + 1)
    BY <2>6, <2>7, <2>n
  <2>10. ASSUME NEW i \in 1..(d + 1)
         PROVE  m.rows[a + i] = <<q[k + i]>> /\ m.prefix[k + 1 + i] = a + i
    <3>1. CASE i \in 1..d
      <4>1. a + i \in 1..(a + d) /\ k + 1 + i \in 1..(h + 1)
        BY <2>n, <3>1
      <4> QED
        BY <2>3, <2>6, <2>7, <3>1, <4>1
    <3>2. CASE i = d + 1
      <4>1. k + i = h + 1 /\ k + 1 + i = Len(q) + 1 /\ a + i = (a + d) + 1
        BY <2>n, <3>2
      <4> QED
        BY <2>1, <2>6, <2>7, <2>8, <2>9, <3>2, <4>1
    <3> QED
      BY <2>n, <3>1, <3>2
  <2> QED
    BY <2>9, <2>10 DEF m, Holds
<1>3. 0..n \subseteq T
  <2> HIDE DEF T
  <2> QED
    BY <1>1, <1>2, UpTo
<1>4. Holds(s, n)
  <2>1. n \in T
    <3> HIDE DEF T
    <3> QED
      BY <1>3
  <2>2. Len(s) = k + n /\ FirstLines(s, k) = f /\ \A i \in 1..n : k + i \in (k + 1)..Len(s)
    BY <1>a, <1>n
  <2>3. \A i \in 1..n : ~s[k + i].edge
    BY <2>2
  <2> HIDE DEF Holds
  <2> QED
    BY <2>1, <2>2, <2>3
<1> QED
  BY <1>4, <1>a, <1>b, <1>n

\* A widget shows its row under the policy of the viewport.
LEMMA WidgetChild ==
  ASSUME NEW v, v.generation \in Nat, v.retired \in Nat, v.on \in BOOLEAN, NEW row \in Seq(Lines)
  PROVE  Child(Widget(v, row), v) /\ Widget(v, row).row = row
BY DEF Child, Widget

\* A policy is told to every child it concerns.
LEMMA PolicyTold ==
  ASSUME NEW v, Told(v), NEW g \in Nat, NEW r \in Nat, NEW w, w = ApplyPolicy(v, g, r)
  PROVE  /\ Told(w) /\ w.generation = g /\ w.retired = r /\ w.on = v.on
         /\ w.prefix = v.prefix /\ RowsOf(w.children) = RowsOf(v.children)
<1>1. CASE v.generation = g /\ v.retired = r
  BY <1>1 DEF ApplyPolicy
<1>2. CASE ~(v.generation = g /\ v.retired = r)
  <2> DEFINE told(c) == [c EXCEPT !.on = v.on, !.generation = g, !.retired = r,
                                  !.listed = HasEnabled(c.row, g, r)]
             next(i) == IF Concerned(v, v.children[i], g, r) THEN told(v.children[i])
                        ELSE v.children[i]
             children == [i \in DOMAIN v.children |-> next(i)]
  <2>1. w = [v EXCEPT !.generation = g, !.retired = r, !.children = children]
    BY <1>2 DEF ApplyPolicy
  <2>2. /\ DOMAIN v = {"children", "prefix", "generation", "retired", "on"}
        /\ v.generation \in Nat /\ v.retired \in Nat /\ v.on \in BOOLEAN
    BY DEF Told
  <2>3. PICK S : v.children \in Seq(S)
    BY DEF Told
  <2>4. children \in Seq({next(i) : i \in DOMAIN v.children}) /\ DOMAIN children = DOMAIN v.children
    <3> HIDE DEF next
    <3> QED
      BY <2>3
  <2>5. ASSUME NEW i \in DOMAIN v.children
        PROVE  next(i).row = v.children[i].row /\ Child(next(i), [v EXCEPT !.generation = g, !.retired = r])
    <3> DEFINE c == v.children[i]  z == [v EXCEPT !.generation = g, !.retired = r]
    <3>1. Child(c, v)
      BY <2>5 DEF Told
    <3>2. z.generation = g /\ z.retired = r /\ z.on = v.on
      BY <2>2
    <3>3. DOMAIN c = {"row", "on", "generation", "retired", "listed"} /\ c.row \in Seq(Lines)
      BY <3>1 DEF Child
    <3> HIDE DEF z
    <3>4. CASE Concerned(v, c, g, r)
      <4>1. next(i) = told(c)
        BY <3>4
      <4>2. /\ told(c).row = c.row /\ told(c).on = v.on /\ told(c).generation = g
            /\ told(c).retired = r /\ told(c).listed = HasEnabled(c.row, g, r)
            /\ DOMAIN told(c) = DOMAIN c
        BY <3>3
      <4> HIDE DEF told, next, c
      <4>3. HasEnabled(c.row, g, r) \in BOOLEAN
        BY DEF HasEnabled
      <4>4. Child(told(c), z)
        BY <2>2, <3>2, <3>3, <4>2, <4>3 DEF Child
      <4> QED
        BY <4>1, <4>2, <4>4 DEF c, z
    <3>5. CASE ~Concerned(v, c, g, r)
      <4>1. next(i) = c
        BY <3>5
      <4> HIDE DEF next, told, c
      <4>2. ~c.listed /\ ~HasEnabled(c.row, v.generation, v.retired)
        BY <3>1, <3>5 DEF Concerned, Child
      <4>3. ~HasEnabled(c.row, g, r)
        <5> SUFFICES ASSUME NEW l \in Members(c.row), Enabled(l, g, r) PROVE FALSE
          BY DEF HasEnabled
        <5>1. l \in Lines
          BY <3>3, MemberTypes
        <5>2. ~Enabled(l, v.generation, v.retired)
          BY <4>2 DEF HasEnabled
        <5>3. ~(/\ g # v.generation \/ r < v.retired
                /\ g = 0 \/ l.generation = g \/ (l.generation = 0 /\ r < v.retired))
          BY <3>5 DEF Concerned, Enabled, NoGeneration
        <5>4. l.token # 0
          BY DEF Enabled
        <5>5. ~(l.seq > v.retired /\ (v.generation = 0 \/ l.generation \in {0, v.generation}))
          BY <5>2, <5>4 DEF Enabled, NoGeneration
        <5>6. l.seq \in Nat /\ l.generation \in Nat
          BY <5>1 DEF Lines
        <5>7. l.seq > r /\ (g = 0 \/ l.generation \in {0, g})
          BY DEF Enabled, NoGeneration
        <5> QED
          BY <2>2, <5>3, <5>5, <5>6, <5>7
      <4>5. HasEnabled(c.row, g, r) = HasEnabled(c.row, v.generation, v.retired)
        BY <4>2, <4>3 DEF HasEnabled
      <4>4. Child(c, z)
        BY <3>1, <3>2, <4>2, <4>5 DEF Child
      <4> QED
        BY <4>1, <4>4 DEF c, z
    <3> QED
      BY <3>4, <3>5
  <2> HIDE DEF next
  <2>6. w.children = children /\ w.generation = g /\ w.retired = r /\ w.on = v.on
        /\ w.prefix = v.prefix /\ DOMAIN w = DOMAIN v
    BY <2>1, <2>2
  <2>7. \A i \in DOMAIN v.children : children[i] = next(i)
    OBVIOUS
  <2> HIDE DEF children
  <2>8. ASSUME NEW i \in DOMAIN v.children PROVE Child(children[i], w)
    <3>1. Child(next(i), [v EXCEPT !.generation = g, !.retired = r])
      BY <2>5
    <3>2. [v EXCEPT !.generation = g, !.retired = r].generation = g
          /\ [v EXCEPT !.generation = g, !.retired = r].retired = r
          /\ [v EXCEPT !.generation = g, !.retired = r].on = v.on
      BY <2>2
    <3> QED
      BY <2>6, <2>7, <3>1, <3>2 DEF Child
  <2>9. Told(w)
    <3>1. \E X : w.children \in Seq(X)
      BY <2>4, <2>6
    <3> QED
      BY <2>2, <2>4, <2>6, <2>8, <3>1 DEF Told
  <2>10. RowsOf(w.children) = RowsOf(v.children)
    BY <2>4, <2>5, <2>6, <2>7 DEF RowsOf
  <2> QED
    BY <2>6, <2>9, <2>10
<1> QED
  BY <1>1, <1>2

\* The switch is told to every child that lists an enabled button.
LEMMA SwitchTold ==
  ASSUME NEW v, Told(v), NEW on \in BOOLEAN, NEW w, w = Switched(v, on)
  PROVE  /\ Told(w) /\ w.generation = v.generation /\ w.retired = v.retired
         /\ w.prefix = v.prefix /\ RowsOf(w.children) = RowsOf(v.children)
<1>1. CASE v.on = on
  BY <1>1 DEF Switched
<1>2. CASE v.on # on
  <2> DEFINE next(i) == IF v.children[i].listed THEN [v.children[i] EXCEPT !.on = on]
                        ELSE v.children[i]
             children == [i \in DOMAIN v.children |-> next(i)]
  <2>1. w = [v EXCEPT !.on = on, !.children = children]
    BY <1>2 DEF Switched
  <2>2. /\ DOMAIN v = {"children", "prefix", "generation", "retired", "on"}
        /\ v.generation \in Nat /\ v.retired \in Nat /\ v.on \in BOOLEAN
    BY DEF Told
  <2>3. PICK S : v.children \in Seq(S)
    BY DEF Told
  <2>4. children \in Seq({next(i) : i \in DOMAIN v.children}) /\ DOMAIN children = DOMAIN v.children
    <3> HIDE DEF next
    <3> QED
      BY <2>3
  <2>6. w.children = children /\ w.generation = v.generation /\ w.retired = v.retired /\ w.on = on
        /\ w.prefix = v.prefix /\ DOMAIN w = DOMAIN v
    <3> HIDE DEF next
    <3> QED
      BY <2>1, <2>2
  <2>5. ASSUME NEW i \in DOMAIN v.children PROVE next(i).row = v.children[i].row /\ Child(next(i), w)
    <3> DEFINE c == v.children[i]
    <3>1. Child(c, v)
      BY <2>5 DEF Told
    <3> HIDE DEF c
    <3>2. next(i) = IF c.listed THEN [c EXCEPT !.on = on] ELSE c
      BY DEF c
    <3> HIDE DEF next, children
    <3>3. CASE c.listed
      <4>1. next(i) = [c EXCEPT !.on = on]
        BY <3>2, <3>3
      <4>2. DOMAIN next(i) = DOMAIN c /\ next(i).row = c.row /\ next(i).on = on
            /\ next(i).generation = c.generation /\ next(i).retired = c.retired
            /\ next(i).listed = c.listed
        BY <3>1, <4>1 DEF Child
      <4> QED
        BY <2>6, <3>1, <3>3, <4>2 DEF Child, c
    <3>4. CASE ~c.listed
      BY <2>6, <3>1, <3>2, <3>4 DEF Child, c
    <3> QED
      BY <3>3, <3>4
  <2>7. \A i \in DOMAIN v.children : children[i] = next(i)
    OBVIOUS
  <2> HIDE DEF children, next
  <2>9. Told(w)
    <3>1. \E X : w.children \in Seq(X)
      BY <2>4, <2>6
    <3> QED
      BY <2>2, <2>4, <2>5, <2>6, <2>7, <3>1 DEF Told
  <2>10. RowsOf(w.children) = RowsOf(v.children)
    BY <2>4, <2>5, <2>6, <2>7 DEF RowsOf
  <2> QED
    BY <2>6, <2>9, <2>10
<1> QED
  BY <1>1, <1>2

\* A function on the first numbers is a sequence.
LEMMA AsSequence ==
  ASSUME NEW n \in Nat, NEW w, w = [i \in 1..n |-> w[i]], NEW X, \A i \in 1..n : w[i] \in X
  PROVE  w \in Seq(X) /\ Len(w) = n
<1>1. w \in [1..n -> X]
  BY Zenon
<1> QED
  BY <1>1

\* Two sequences in a row.
LEMMA InRow ==
  ASSUME NEW X, NEW f \in Seq(X), NEW g \in Seq(X)
  PROVE  /\ f \o g \in Seq(X) /\ Len(f \o g) = Len(f) + Len(g)
         /\ \A i \in 1..Len(f) : (f \o g)[i] = f[i]
         /\ \A i \in 1..Len(g) : (f \o g)[Len(f) + i] = g[i]
<1>1. PICK n \in Nat, d \in Nat : n = Len(f) /\ d = Len(g)
  OBVIOUS
<1>2. f \o g \in Seq(X) /\ Len(f \o g) = n + d
      /\ \A i \in 1..(n + d) : (f \o g)[i] = IF i <= n THEN f[i] ELSE g[i - n]
  BY <1>1, ConcatProperties
<1>3. \A i \in 1..n : i \in 1..(n + d) /\ i <= n
  OBVIOUS
<1>4. \A i \in 1..d : n + i \in 1..(n + d) /\ ~(n + i <= n) /\ (n + i) - n = i
  OBVIOUS
<1> QED
  BY <1>1, <1>2, <1>3, <1>4

\* Children that show some rows, under the policy of the viewport.
Showing(children, rows, v) ==
  /\ rows \in Seq(Seq(Lines)) /\ \E S : children \in Seq(S)
  /\ Len(children) = Len(rows)
  /\ \A i \in 1..Len(rows) : Child(children[i], v) /\ children[i].row = rows[i]

\* The rows that are as they were are counted.
LEMMA CommonCount ==
  ASSUME NEW A, NEW B, NEW rows \in Seq(A), NEW children \in Seq(B)
  PROVE  /\ CommonRows(rows, children) \in 0..Least(Len(rows), Len(children))
         /\ \A i \in 1..CommonRows(rows, children) : rows[i] = children[i].row
<1>n. PICK n \in Nat : n = Least(Len(rows), Len(children))
  BY DEF Least
<1> DEFINE P(m) == /\ \A i \in 1..m : rows[i] = children[i].row
                   /\ m < n => rows[m + 1] # children[m + 1].row
           bad == {m \in 0..n : m = n \/ rows[m + 1] # children[m + 1].row}
<1>1. PICK m \in bad : \A o \in bad : m <= o
  <2>1. bad \in SUBSET Nat /\ n \in bad
    OBVIOUS
  <2> HIDE DEF bad
  <2> QED
    BY <2>1, LeastOf
<1>2. P(m)
  <2>1. m \in 0..n /\ (m < n => rows[m + 1] # children[m + 1].row)
    OBVIOUS
  <2>2. ASSUME NEW i \in 1..m PROVE rows[i] = children[i].row
    <3> SUFFICES ASSUME rows[i] # children[i].row PROVE FALSE
      OBVIOUS
    <3>1. i - 1 \in 0..n /\ (i - 1) + 1 = i /\ i - 1 < m
      BY <2>1
    <3>2. i - 1 \in bad
      BY <3>1
    <3> HIDE DEF bad
    <3> QED
      BY <1>1, <2>1, <3>1, <3>2
  <2> QED
    BY <2>1, <2>2
<1>3. CommonRows(rows, children) = CHOOSE o \in 0..n : P(o)
  BY <1>n, Zenon DEF CommonRows
<1>4. m \in 0..n
  OBVIOUS
<1> HIDE DEF P, bad
<1>5. P(CommonRows(rows, children)) /\ CommonRows(rows, children) \in 0..n
  BY <1>2, <1>3, <1>4
<1> QED
  BY <1>5, <1>n DEF P

\* Reconciled children show the rows.
LEMMA ReconciledShows ==
  ASSUME NEW v, v.generation \in Nat, v.retired \in Nat, v.on \in BOOLEAN,
         NEW S, NEW children \in Seq(S), \A i \in 1..Len(children) : Child(children[i], v),
         NEW rows \in Seq(Seq(Lines)), NEW common \in Nat,
         common <= Len(rows), common <= Len(children),
         \A i \in 1..common : rows[i] = children[i].row
  PROVE  Showing(Reconciled(v, children, rows, common), rows, v)
<1>n. PICK size \in Nat, count \in Nat : size = Len(children) /\ count = Len(rows)
  OBVIOUS
<1>s. PICK shared \in Nat : shared = Least(size, count) /\ shared <= size /\ shared <= count
  BY DEF Least
<1>1. \A i \in 1..count : rows[i] \in Seq(Lines)
  BY <1>n
<1>2. \A i \in 1..count : Child(Widget(v, rows[i]), v) /\ Widget(v, rows[i]).row = rows[i]
  BY <1>1, WidgetChild
<1> DEFINE w == Reconciled(v, children, rows, common)
<1>3. CASE common = shared
  <2> DEFINE f == FirstLines(children, shared)
             g == [i \in 1..(count - shared) |-> Widget(v, rows[shared + i])]
  <2>1. w = f \o g
    BY <1>3, <1>n, <1>s DEF Reconciled
  <2>2. f \in Seq(S) /\ Len(f) = shared /\ \A i \in 1..shared : f[i] = children[i]
    BY <1>n, <1>s, Firsts, SMTT(40)
  <2>3. PICK d \in Nat : d = count - shared
    BY <1>s
  <2>4. g = [i \in 1..d |-> g[i]] /\ \A i \in 1..d : g[i] = Widget(v, rows[shared + i])
    BY <2>3
  <2> HIDE DEF f, g, w
  <2>5. PICK X : f \in Seq(X) /\ g \in Seq(X) /\ Len(g) = d
    <3> DEFINE X == S \cup {g[i] : i \in 1..d}
    <3>1. (\A i \in 1..shared : f[i] \in X) /\ (\A i \in 1..d : g[i] \in X)
      BY <2>2
    <3>2. f = [i \in 1..shared |-> f[i]]
      BY <2>2
    <3> HIDE DEF X
    <3>3. f \in Seq(X)
      BY <3>1, <3>2, AsSequence
    <3>4. g \in Seq(X) /\ Len(g) = d
      BY <2>4, <3>1, AsSequence
    <3> QED
      BY <3>3, <3>4
  <2>6. /\ \E Y : w \in Seq(Y)
        /\ Len(w) = shared + d
        /\ \A i \in 1..shared : w[i] = f[i]
        /\ \A i \in 1..d : w[shared + i] = g[i]
    <3>1. /\ f \o g \in Seq(X) /\ Len(f \o g) = shared + Len(g)
          /\ \A i \in 1..shared : (f \o g)[i] = f[i]
          /\ \A i \in 1..Len(g) : (f \o g)[shared + i] = g[i]
      <4>1. PICK p \in Seq(X), q \in Seq(X) : p = f /\ q = g
        BY <2>5
      <4>2. Len(p) = shared
        BY <2>2, <4>1
      <4>3. /\ p \o q \in Seq(X) /\ Len(p \o q) = Len(p) + Len(q)
            /\ \A i \in 1..Len(p) : (p \o q)[i] = p[i]
            /\ \A i \in 1..Len(q) : (p \o q)[Len(p) + i] = q[i]
        BY InRow
      <4> QED
        BY <4>1, <4>2, <4>3
    <3> QED
      BY <2>1, <2>5, <3>1
  <2>7. ASSUME NEW i \in 1..count PROVE w[i] = IF i <= shared THEN children[i] ELSE Widget(v, rows[i])
    <3>1. CASE i <= shared
      BY <2>2, <2>6, <3>1
    <3>2. CASE i > shared
      <4>1. i - shared \in 1..d /\ shared + (i - shared) = i
        BY <2>3, <3>2
      <4>2. w[shared + (i - shared)] = g[i - shared] /\ g[i - shared] = Widget(v, rows[shared + (i - shared)])
        BY <2>4, <2>6, <4>1
      <4> QED
        BY <3>2, <4>1, <4>2
    <3> QED
      BY <3>1, <3>2
  <2>8. Len(w) = count
    BY <2>3, <2>6
  <2> QED
    BY <1>n, <1>s, <1>2, <1>3, <2>6, <2>7, <2>8, SMTT(40) DEF Showing, w
<1>4. CASE common # shared
  <2> DEFINE next(i) == IF size = count /\ (i <= common \/ children[i].row = rows[i])
                        THEN children[i] ELSE Widget(v, rows[i])
  <2>1. w = [i \in 1..count |-> next(i)]
    <3>1. DOMAIN rows = 1..count
      BY <1>n
    <3> QED
      BY <1>4, <1>n, <1>s, <3>1 DEF Reconciled
  <2>2. \A i \in 1..count : Child(next(i), v) /\ next(i).row = rows[i]
    BY <1>2, <1>n
  <2> HIDE DEF next, w
  <2>3. (\E X : w \in Seq(X)) /\ Len(w) = count /\ \A i \in 1..count : w[i] = next(i)
    <3>1. \A i \in 1..count : w[i] = next(i)
      BY <2>1
    <3>2. w = [i \in 1..count |-> w[i]]
      BY <2>1
    <3>3. PICK X : \A i \in 1..count : w[i] \in X
      <4>1. \A i \in 1..count : w[i] \in {w[j] : j \in 1..count}
        OBVIOUS
      <4> QED
        BY <4>1
    <3> QED
      BY <3>1, <3>2, <3>3, AsSequence
  <2> QED
    BY <1>n, <2>2, <2>3 DEF Showing, w
<1> QED
  BY <1>3, <1>4

\* A viewport with other children.
With(v, children, prefix) == [v EXCEPT !.children = children, !.prefix = prefix]

\* What a viewport becomes that shows some rows.
LEMMA ShowingTold ==
  ASSUME NEW v, Told(v), NEW children, NEW rows, Showing(children, rows, v), NEW prefix, NEW w,
         w = With(v, children, prefix)
  PROVE  /\ Told(w) /\ w.generation = v.generation /\ w.retired = v.retired
         /\ w.prefix = prefix /\ RowsOf(w.children) = rows
<1>1. /\ DOMAIN v = {"children", "prefix", "generation", "retired", "on"}
      /\ v.generation \in Nat /\ v.retired \in Nat /\ v.on \in BOOLEAN
  BY DEF Told
<1>2. /\ w.children = children /\ w.prefix = prefix /\ w.generation = v.generation
      /\ w.retired = v.retired /\ w.on = v.on /\ DOMAIN w = DOMAIN v
  BY <1>1 DEF With
<1>3. PICK S : children \in Seq(S)
  BY DEF Showing
<1>4. rows \in Seq(Seq(Lines)) /\ DOMAIN children = 1..Len(rows)
      /\ \A i \in 1..Len(rows) : Child(children[i], v) /\ children[i].row = rows[i]
  BY <1>3 DEF Showing
<1>5. \A i \in DOMAIN children : Child(children[i], w)
  BY <1>2, <1>4 DEF Child
<1>6. RowsOf(children) = rows
  <2>1. rows = [i \in 1..Len(rows) |-> rows[i]]
    BY <1>4
  <2> QED
    BY <1>4, <2>1 DEF RowsOf
<1>7. Told(w)
  BY <1>1, <1>2, <1>3, <1>5 DEF Told
<1> QED
  BY <1>2, <1>6, <1>7

\* A sequence of some length.
Row(p, n) == p = [i \in 1..n |-> p[i]]
\* A sequence that another one has after some elements.
Moved(q, s, n, count) == \A i \in 1..count : q[i] = s[n + i]
\* Two sequences that another one is made of.
Makes(p, q, s, a, d) ==
  Len(s) = a + d /\ Row(p, a) /\ Row(q, d) /\ Alike(p, s, a) /\ Moved(q, s, a, d)

\* A sequence is what is made of its first elements and the others.
LEMMA Joined ==
  ASSUME NEW X, NEW s \in Seq(X), NEW a \in Nat, NEW d \in Nat, NEW p, NEW q, Makes(p, q, s, a, d)
  PROVE  p \o q = s
<1>0. Len(s) = a + d /\ Row(p, a) /\ Row(q, d) /\ Alike(p, s, a) /\ Moved(q, s, a, d)
  BY DEF Makes
<1>1. (\A i \in 1..a : s[i] \in X) /\ (\A i \in 1..d : a + i \in 1..Len(s) /\ s[a + i] \in X)
  BY <1>0
<1>2. \A i \in 1..a : p[i] \in X
  BY <1>0, <1>1 DEF Alike
<1>3. \A i \in 1..d : q[i] \in X
  BY <1>0, <1>1 DEF Moved
<1>4. p \in Seq(X) /\ Len(p) = a
  BY <1>0, <1>2, AsSequence DEF Row
<1>5. q \in Seq(X) /\ Len(q) = d
  BY <1>0, <1>3, AsSequence DEF Row
<1>6. PICK f \in Seq(X), g \in Seq(X) : f = p /\ g = q
  BY <1>4, <1>5
<1>7. /\ f \o g \in Seq(X) /\ Len(f \o g) = a + Len(g)
      /\ \A i \in 1..a : (f \o g)[i] = f[i]
      /\ \A i \in 1..Len(g) : (f \o g)[a + i] = g[i]
  <2>1. Len(f) = a
    BY <1>4, <1>6
  <2>2. /\ f \o g \in Seq(X) /\ Len(f \o g) = Len(f) + Len(g)
        /\ \A i \in 1..Len(f) : (f \o g)[i] = f[i]
        /\ \A i \in 1..Len(g) : (f \o g)[Len(f) + i] = g[i]
    BY InRow
  <2> QED
    BY <2>1, <2>2
<1>8. Len(g) = d
  BY <1>5, <1>6
<1>9. ASSUME NEW i \in 1..(a + d) PROVE (f \o g)[i] = s[i]
  <2>1. CASE i <= a
    <3>1. i \in 1..a
      BY <2>1
    <3> QED
      BY <1>0, <1>6, <1>7, <3>1 DEF Alike
  <2>2. CASE ~(i <= a)
    <3>1. i - a \in 1..d /\ a + (i - a) = i
      BY <2>2
    <3>2. (f \o g)[a + (i - a)] = s[a + (i - a)]
      BY <1>0, <1>6, <1>7, <1>8, <3>1 DEF Moved
    <3> QED
      BY <3>1, <3>2
  <2> QED
    BY <2>1, <2>2
<1>10. f \o g = s
  BY <1>0, <1>7, <1>8, <1>9, SeqEqual
<1> QED
  BY <1>6, <1>10

\* Where the rows of some lines stay, and their last lines make rows of their own.
LEMMA SuffixRows ==
  ASSUME NEW old \in Seq(Lines), NEW lines \in Seq(Lines), NEW k \in Nat,
         k <= Len(old), k <= Len(lines), \A i \in 1..k : old[i] = lines[i],
         k = 0 \/ k = Len(old) \/ ~old[k + 1].edge,
         \A i \in (k + 1)..Len(lines) : ~lines[i].edge
  PROVE  \E a \in Nat :
           /\ a <= Len(Merged(old).rows) /\ Merged(old).prefix[k + 1] = a
           /\ \A i \in 1..a : Merged(old).rows[i] = Merged(lines).rows[i]
           /\ \A i \in 1..(k + 1) : Merged(old).prefix[i] = Merged(lines).prefix[i]
           /\ Len(Merged(lines).rows) = a + (Len(lines) - k)
           /\ \A i \in 1..(Len(lines) - k) :
                Merged(lines).rows[a + i] = <<lines[k + i]>> /\ Merged(lines).prefix[k + 1 + i] = a + i
<1>1. PICK f \in Seq(Lines) : f = FirstLines(lines, k) /\ f = FirstLines(old, k) /\ Len(f) = k
  <2>1. FirstLines(lines, k) \in Seq(Lines) /\ Len(FirstLines(lines, k)) = k
        /\ \A i \in 1..k : FirstLines(lines, k)[i] = lines[i]
    BY Firsts
  <2>2. FirstLines(old, k) \in Seq(Lines) /\ Len(FirstLines(old, k)) = k
        /\ \A i \in 1..k : FirstLines(old, k)[i] = old[i]
    BY Firsts
  <2>3. FirstLines(lines, k) = FirstLines(old, k)
    BY <2>1, <2>2, SeqEqual
  <2> QED
    BY <2>1, <2>3
<1>2. PICK a \in Nat : a = Len(Merged(f).rows) /\ Merged(f).prefix[k + 1] = a
  <2>1. Rowed(f)
    BY MergedRows
  <2>2. Len(Merged(f).rows) \in Nat /\ Merged(f).prefix[k + 1] = Len(Merged(f).rows)
    BY <1>1, <2>1 DEF Rowed
  <2> QED
    BY <2>2
<1>3. /\ \A i \in 1..(k + 1) : Merged(old).prefix[i] = Merged(f).prefix[i]
      /\ a <= Len(Merged(old).rows) /\ \A i \in 1..a : Merged(old).rows[i] = Merged(f).rows[i]
  BY <1>1, <1>2, FirstRows
<1>4. k = Len(lines) \/ ~lines[k + 1].edge
  <2> SUFFICES ASSUME k # Len(lines) PROVE ~lines[k + 1].edge
    OBVIOUS
  <2>1. k + 1 \in (k + 1)..Len(lines)
    OBVIOUS
  <2> QED
    BY <2>1
<1>5. /\ \A i \in 1..(k + 1) : Merged(lines).prefix[i] = Merged(f).prefix[i]
      /\ \A i \in 1..a : Merged(lines).rows[i] = Merged(f).rows[i]
  <2>1. /\ \A i \in 1..(k + 1) : Merged(lines).prefix[i] = Merged(FirstLines(lines, k)).prefix[i]
        /\ \A i \in 1..Len(Merged(FirstLines(lines, k)).rows) :
             Merged(lines).rows[i] = Merged(FirstLines(lines, k)).rows[i]
    BY <1>4, FirstRows
  <2> QED
    BY <1>1, <1>2, <2>1
<1>6. /\ Len(Merged(lines).rows) = a + (Len(lines) - k)
      /\ \A i \in 1..(Len(lines) - k) :
           Merged(lines).rows[a + i] = <<lines[k + i]>> /\ Merged(lines).prefix[k + 1 + i] = a + i
  <2>1. LET m == Merged(lines)  b == Len(Merged(FirstLines(lines, k)).rows) IN
        /\ Len(m.rows) = b + (Len(lines) - k)
        /\ \A i \in 1..(Len(lines) - k) : /\ m.rows[b + i] = <<lines[k + i]>>
                                          /\ m.prefix[k + 1 + i] = b + i
    BY TailRows
  <2> QED
    BY <1>1, <1>2, <2>1
<1>7. k + 1 \in 1..(k + 1)
  OBVIOUS
<1>8. Merged(old).prefix[k + 1] = a
  BY <1>2, <1>3, <1>7
<1> QED
  BY <1>3, <1>5, <1>6, <1>8, ZenonT(40)

\* No delete button among the lines from one on.
NoEdges(lines, k) == \A i \in (k + 1)..Len(lines) : ~lines[i].edge
\* A row is not continued after some lines.
Ends(lines, k) == k = 0 \/ k = Len(lines) \/ ~lines[k + 1].edge

\* So many children stay, and with the last lines they are all rows.
Parts(a, old, lines, k, children) ==
  /\ a <= Len(children) /\ a <= Len(Merged(lines).rows) /\ Merged(old).prefix[k + 1] = a
  /\ \A i \in 1..a : Merged(lines).rows[i] = children[i].row
  /\ [i \in 1..a |-> children[i].row]
       \o [i \in 1..(Len(lines) - k) |-> <<lines[k + i]>>] = Merged(lines).rows
  /\ FirstLines(Merged(old).prefix, k + 1)
       \o [i \in 1..(Len(lines) - k) |-> a + i] = Merged(lines).prefix

\* The rows of the lines that did not change, and those of the others, are all rows.
LEMMA SomeRows ==
  ASSUME NEW old \in Seq(Lines), NEW lines \in Seq(Lines), NEW k \in Nat,
         k <= Len(old), k <= Len(lines), Alike(old, lines, k), Ends(old, k), NoEdges(lines, k),
         NEW S, NEW children \in Seq(S), RowsOf(children) = Merged(old).rows
  PROVE  \E a \in Nat : Parts(a, old, lines, k, children)
<1>1. PICK a \in Nat :
        /\ a <= Len(Merged(old).rows) /\ Merged(old).prefix[k + 1] = a
        /\ \A i \in 1..a : Merged(old).rows[i] = Merged(lines).rows[i]
        /\ \A i \in 1..(k + 1) : Merged(old).prefix[i] = Merged(lines).prefix[i]
        /\ Len(Merged(lines).rows) = a + (Len(lines) - k)
        /\ \A i \in 1..(Len(lines) - k) :
             Merged(lines).rows[a + i] = <<lines[k + i]>> /\ Merged(lines).prefix[k + 1 + i] = a + i
  <2>1. \A i \in 1..k : old[i] = lines[i]
    BY DEF Alike
  <2>2. \A i \in (k + 1)..Len(lines) : ~lines[i].edge
    BY DEF NoEdges
  <2>3. k = 0 \/ k = Len(old) \/ ~old[k + 1].edge
    BY DEF Ends
  <2> QED
    BY <2>1, <2>2, <2>3, SuffixRows
<1>2. PICK rows \in Seq(Seq(Lines)), full \in Seq(Nat), before \in Seq(Nat) :
        rows = Merged(lines).rows /\ full = Merged(lines).prefix /\ before = Merged(old).prefix
        /\ Len(before) = Len(old) + 1 /\ Len(full) = Len(lines) + 1
  <2>1. Rowed(lines) /\ Rowed(old)
    BY MergedRows
  <2>2. /\ Merged(lines).rows \in Seq(Seq(Lines)) /\ Merged(lines).prefix \in Seq(Nat)
        /\ Merged(old).prefix \in Seq(Nat) /\ Len(Merged(old).prefix) = Len(old) + 1
        /\ Len(Merged(lines).prefix) = Len(lines) + 1
    BY <2>1 DEF Rowed
  <2> QED
    BY <2>2
<1>3. PICK d \in Nat : d = Len(lines) - k
  <2>1. Len(lines) - k \in Nat
    OBVIOUS
  <2> QED
    BY <2>1
<1>4. Len(children) = Len(Merged(old).rows)
      /\ \A i \in 1..Len(children) : children[i].row = Merged(old).rows[i]
  <2>1. DOMAIN RowsOf(children) = DOMAIN children
        /\ \A i \in DOMAIN children : RowsOf(children)[i] = children[i].row
    BY DEF RowsOf
  <2>2. Merged(old).rows \in Seq(Seq(Lines))
    BY MergedRows DEF Rowed
  <2>3. DOMAIN children = 1..Len(children) /\ DOMAIN Merged(old).rows = 1..Len(Merged(old).rows)
    BY <2>2
  <2>4. Len(children) = Len(Merged(old).rows)
    BY <2>1, <2>2, <2>3
  <2> QED
    BY <2>1, <2>3, <2>4
<1>5. \A i \in 1..a : rows[i] = children[i].row
  <2>1. \A i \in 1..a : i \in 1..Len(children)
    BY <1>1, <1>4
  <2> QED
    BY <1>1, <1>2, <1>4, <2>1
<1>6. PICK p, q : p = [i \in 1..a |-> children[i].row] /\ q = [i \in 1..d |-> <<lines[k + i]>>]
  OBVIOUS
<1>7. p \o q = rows
  <2>1. Len(rows) = a + d
    BY <1>1, <1>2, <1>3
  <2>2. Row(p, a) /\ Row(q, d)
    BY <1>6 DEF Row
  <2>3. Alike(p, rows, a)
    BY <1>5, <1>6 DEF Alike
  <2>4. Moved(q, rows, a, d)
    BY <1>1, <1>2, <1>3, <1>6 DEF Moved
  <2> QED
    <3>1. Makes(p, q, rows, a, d)
      BY <2>1, <2>2, <2>3, <2>4 DEF Makes
    <3> QED
      BY <3>1, Joined
<1>8. PICK m \in Nat : m = k + 1
  OBVIOUS
<1>9. PICK x, y : x = FirstLines(before, m) /\ y = [i \in 1..d |-> a + i]
  OBVIOUS
<1>10. x \o y = full
  <2>1. Len(full) = m + d
    BY <1>2, <1>3, <1>8
  <2>n. m <= Len(before)
    BY <1>2, <1>8
  <2>2. x \in Seq(Nat) /\ Len(x) = m /\ \A i \in 1..m : x[i] = before[i]
    BY <1>9, <2>n, Firsts
  <2>3. Row(x, m) /\ Row(y, d)
    BY <1>9, <2>2 DEF Row
  <2>4. Alike(x, full, m)
    BY <1>1, <1>2, <1>8, <2>2 DEF Alike
  <2>5. Moved(y, full, m, d)
    BY <1>1, <1>2, <1>3, <1>8, <1>9 DEF Moved
  <2> QED
    <3>1. Makes(x, y, full, m, d)
      BY <2>1, <2>3, <2>4, <2>5 DEF Makes
    <3> QED
      BY <3>1, Joined
<1>11. [i \in 1..a |-> children[i].row] \o [i \in 1..d |-> <<lines[k + i]>>] = Merged(lines).rows
  BY <1>2, <1>6, <1>7
<1>12. FirstLines(Merged(old).prefix, k + 1) \o [i \in 1..d |-> a + i] = Merged(lines).prefix
  BY <1>2, <1>8, <1>9, <1>10
<1>13. a <= Len(children) /\ a <= Len(Merged(lines).rows)
       /\ \A i \in 1..a : Merged(lines).rows[i] = children[i].row
  BY <1>1, <1>2, <1>3, <1>4, <1>5
<1> QED
  BY <1>1, <1>3, <1>11, <1>12, <1>13 DEF Parts

\* What a copy may note.
Noting(n) == n \in [from : Nat \cup {None}, trimmed : Nat]

\* What a viewport shows after a commit.
Shows(w, lines, g, r) ==
  /\ Told(w) /\ w.generation = g /\ w.retired = r
  /\ w.prefix = Merged(lines).prefix /\ RowsOf(w.children) = Merged(lines).rows

\* Children that show the rows of some lines, reconciled with those of others.
LEMMA CommitShows ==
  ASSUME NEW u, Told(u), NEW S, NEW children \in Seq(S),
         \A i \in 1..Len(children) : Child(children[i], u),
         NEW lines \in Seq(Lines), NEW common \in Nat,
         common <= Len(Merged(lines).rows), common <= Len(children),
         \A i \in 1..common : Merged(lines).rows[i] = children[i].row,
         NEW w, w = With(u, Reconciled(u, children, Merged(lines).rows, common), Merged(lines).prefix)
  PROVE  Shows(w, lines, u.generation, u.retired)
<1>1. u.generation \in Nat /\ u.retired \in Nat /\ u.on \in BOOLEAN
  BY DEF Told
<1>2. PICK rows \in Seq(Seq(Lines)) : rows = Merged(lines).rows
  BY MergedRows DEF Rowed
<1>3. Showing(Reconciled(u, children, rows, common), rows, u)
  BY <1>1, <1>2, ReconciledShows
<1>w. PICK c, p : c = Reconciled(u, children, rows, common) /\ p = Merged(lines).prefix
  OBVIOUS
<1>x. w = With(u, c, p)
  BY <1>2, <1>w
<1>y. Showing(c, rows, u)
  BY <1>3, <1>w
<1>4. /\ Told(w) /\ w.generation = u.generation /\ w.retired = u.retired
      /\ w.prefix = p /\ RowsOf(w.children) = rows
  BY <1>x, <1>y, ShowingTold
<1> QED
  BY <1>2, <1>w, <1>4 DEF Shows

\* The rows that the first lines made that went are some.
LEMMA SkippedRows ==
  ASSUME NEW old \in Seq(Lines), NEW t \in Nat, t <= Len(old)
  PROVE  /\ Merged(old).prefix[t + 1] \in Nat
         /\ Merged(old).prefix[t + 1] <= Len(Merged(old).rows)
         /\ (t = 0 => Merged(old).prefix[t + 1] = 0)
<1>1. PICK f \in Seq(Lines) : f = FirstLines(old, t) /\ Len(f) = t
  BY Firsts
<1>2. /\ \A i \in 1..(t + 1) : Merged(old).prefix[i] = Merged(f).prefix[i]
      /\ Len(Merged(f).rows) <= Len(Merged(old).rows)
  BY <1>1, FirstRows
<1>3. t + 1 \in 1..(t + 1)
  OBVIOUS
<1>4. Rowed(f)
  BY MergedRows
<1>5. Merged(f).prefix[t + 1] = Len(Merged(f).rows) /\ Len(Merged(f).rows) \in Nat
  BY <1>1, <1>4 DEF Rowed
<1>6. t = 0 => Merged(old).prefix[t + 1] = 0
  BY MergedRows DEF Rowed
<1> QED
  BY <1>2, <1>3, <1>5, <1>6

\* A viewport that shows some lines has their rows.
LEMMA ShownRows ==
  ASSUME NEW u, Told(u), NEW old \in Seq(Lines), RowsOf(u.children) = Merged(old).rows
  PROVE  /\ Merged(old).rows \in Seq(Seq(Lines)) /\ Len(u.children) = Len(Merged(old).rows)
         /\ (\E S : u.children \in Seq(S))
         /\ \A i \in 1..Len(u.children) : /\ Child(u.children[i], u)
                                         /\ u.children[i].row = Merged(old).rows[i]
<1>1. PICK S : u.children \in Seq(S)
  BY DEF Told
<1>2. Merged(old).rows \in Seq(Seq(Lines))
  BY MergedRows DEF Rowed
<1>3. DOMAIN RowsOf(u.children) = DOMAIN u.children
      /\ \A i \in DOMAIN u.children : RowsOf(u.children)[i] = u.children[i].row
  BY DEF RowsOf
<1>4. DOMAIN u.children = 1..Len(u.children) /\ Len(u.children) = Len(Merged(old).rows)
  BY <1>1, <1>2, <1>3
<1>5. \A i \in DOMAIN u.children : Child(u.children[i], u)
  BY DEF Told
<1> QED
  BY <1>1, <1>2, <1>3, <1>4, <1>5

\* A viewport that was told a policy.
Tells(v, g, r, w) == Told(v) /\ g \in Nat /\ r \in Nat /\ w = ApplyPolicy(v, g, r)

\* It shows the same rows.
LEMMA PolicyTaken ==
  ASSUME NEW v, NEW g, NEW r, NEW w, Tells(v, g, r, w)
  PROVE  /\ Told(w) /\ w.generation = g /\ w.retired = r
         /\ w.prefix = v.prefix /\ RowsOf(w.children) = RowsOf(v.children)
<1>1. Told(v) /\ g \in Nat /\ r \in Nat /\ w = ApplyPolicy(v, g, r)
  BY DEF Tells
<1>2. ASSUME NEW g1 \in Nat, NEW r1 \in Nat, NEW w1, w1 = ApplyPolicy(v, g1, r1)
      PROVE  /\ Told(w1) /\ w1.generation = g1 /\ w1.retired = r1
             /\ w1.prefix = v.prefix /\ RowsOf(w1.children) = RowsOf(v.children)
  <2>1. Told(v)
    BY <1>1
  <2> QED
    BY <1>2, <2>1, PolicyTold
<1> QED
  BY <1>1, <1>2

\* What a commit does that touches some rows,
LEMMA SuffixSet ==
  ASSUME NEW v, Told(v), NEW g \in Nat, NEW r \in Nat, NEW lines \in Seq(Lines), NEW old, NEW n,
         Noting(n), Depicts(v, n, old, lines),
         Suffix(ApplyPolicy(v, g, r), lines, n)
  PROVE  Shows(SetLines(v, lines, n, g, r), lines, g, r)
<1>1. PICK u : u = ApplyPolicy(v, g, r)
  OBVIOUS
<1>0. Tells(v, g, r, u)
  BY <1>1 DEF Tells
<1>2. /\ Told(u) /\ u.generation = g /\ u.retired = r
      /\ u.prefix = v.prefix /\ RowsOf(u.children) = RowsOf(v.children)
  BY <1>0, PolicyTaken
<1>3. PICK q \in Seq(Lines) : q = old
  BY DEF Depicts
<1>4. RowsOf(u.children) = Merged(q).rows /\ u.prefix = Merged(q).prefix
  BY <1>2, <1>3 DEF Depicts
<1>5. u.prefix \in Seq(Nat) /\ Len(u.prefix) = Len(q) + 1 /\ u.prefix[1] = 0
  BY <1>4, MergedRows DEF Rowed
<1>6. PICK k \in Nat : k = n.from
  BY <1>1 DEF Suffix, None, Noting
<1>7. k <= Len(q) /\ k <= Len(lines) /\ Alike(q, lines, k) /\ Ends(q, k) /\ n.trimmed = 0
  BY <1>1, <1>3, <1>5, <1>6 DEF Suffix, Depicts, Alike, Ends, None, Noting
<1>8. NoEdges(lines, k)
  BY <1>1, <1>6 DEF Suffix, NoEdges
<1>9. PICK S : u.children \in Seq(S)
  BY <1>2 DEF Told
<1>10. PICK children \in Seq(S) : children = u.children
  BY <1>9
<1>11. DropLines(u.children, u.prefix[Least(n.trimmed, Len(u.prefix) - 1) + 1]) = children
  <2>1. Least(n.trimmed, Len(u.prefix) - 1) = 0
    BY <1>5, <1>7 DEF Least
  <2>2. DropLines(children, 0) = children
    <3>1. DropLines(children, 0) \in Seq(S) /\ Len(DropLines(children, 0)) = Len(children) - 0
          /\ \A i \in 1..(Len(children) - 0) : DropLines(children, 0)[i] = children[0 + i]
      BY Drops, SMTT(40)
    <3> QED
      BY <3>1, SeqEqual
  <2> QED
    BY <1>5, <1>10, <2>1, <2>2
<1>12. PICK a \in Nat : Parts(a, q, lines, k, children)
  <2>1. RowsOf(children) = Merged(q).rows
    BY <1>4, <1>10
  <2> QED
    BY <1>7, <1>8, <2>1, SomeRows
<1>13. Least(u.prefix[k + 1], Len(children)) = a
  BY <1>4, <1>12 DEF Least, Parts
<1>14. SetLines(v, lines, n, g, r) =
         With(u, Reconciled(u, children, Merged(lines).rows, a), Merged(lines).prefix)
  <2> DEFINE common == Least(u.prefix[n.from + 1], Len(children))
             rows == [i \in 1..common |-> children[i].row]
                       \o [i \in 1..(Len(lines) - n.from) |-> <<lines[n.from + i]>>]
             counts == FirstLines(u.prefix, n.from + 1)
                         \o [i \in 1..(Len(lines) - n.from) |-> common + i]
  <2>1. SetLines(v, lines, n, g, r) =
          [u EXCEPT !.children = Reconciled(u, children, rows, common), !.prefix = counts]
    <3> HIDE DEF rows, counts, common
    <3>1. SetLines(v, lines, n, g, r) =
            [u EXCEPT !.children =
               Reconciled(u, DropLines(u.children, u.prefix[Least(n.trimmed, Len(u.prefix) - 1) + 1]),
                          rows, common),
             !.prefix = counts]
      BY <1>1, <1>11 DEF SetLines, rows, counts, common
    <3> QED
      BY <1>11, <3>1
  <2>2. common = a
    BY <1>6, <1>13
  <2>3. rows = Merged(lines).rows
    BY <1>6, <1>12, <2>2 DEF Parts
  <2>4. counts = Merged(lines).prefix
    BY <1>4, <1>6, <1>12, <2>2 DEF Parts
  <2> HIDE DEF common, rows, counts
  <2> QED
    BY <2>1, <2>2, <2>3, <2>4 DEF With
<1>15. \A i \in 1..Len(children) : Child(children[i], u)
  BY <1>2, <1>4, <1>10, ShownRows
<1>16. PICK w : w = SetLines(v, lines, n, g, r)
  OBVIOUS
<1>17. w = With(u, Reconciled(u, children, Merged(lines).rows, a), Merged(lines).prefix)
  BY <1>14, <1>16
<1>18. /\ a <= Len(Merged(lines).rows) /\ a <= Len(children)
       /\ \A i \in 1..a : Merged(lines).rows[i] = children[i].row
  BY <1>12 DEF Parts
<1>19. Shows(w, lines, u.generation, u.retired)
  BY <1>2, <1>15, <1>17, <1>18, CommitShows
<1> QED
  BY <1>2, <1>16, <1>19

\* So many rows are as they were.
Common(rows, children, n) ==
  /\ n \in Nat /\ n <= Len(rows) /\ n <= Len(children)
  /\ \A i \in 1..n : rows[i] = children[i].row
Sequences(A, B, rows, children) == rows \in Seq(A) /\ children \in Seq(B)

\* A commit finds them.
LEMMA CommonTaken ==
  ASSUME NEW A, NEW B, NEW rows, NEW children, Sequences(A, B, rows, children)
  PROVE  Common(rows, children, CommonRows(rows, children))
<1>1. PICK p \in Seq(A), q \in Seq(B) : p = rows /\ q = children
  BY DEF Sequences
<1>2. /\ CommonRows(p, q) \in 0..Least(Len(p), Len(q))
      /\ \A i \in 1..CommonRows(p, q) : p[i] = q[i].row
  BY CommonCount
<1>3. PICK n : n = CommonRows(p, q)
  OBVIOUS
<1>4. n \in 0..Least(Len(p), Len(q)) /\ Len(p) \in Nat /\ Len(q) \in Nat
  BY <1>2, <1>3
<1>5. n \in Nat /\ n <= Len(p) /\ n <= Len(q)
  BY <1>4 DEF Least
<1> QED
  BY <1>1, <1>2, <1>3, <1>5 DEF Common

\* What a commit does that looks at every row,
LEMMA AllSet ==
  ASSUME NEW v, Told(v), NEW g \in Nat, NEW r \in Nat, NEW lines \in Seq(Lines), NEW old, NEW n,
         Noting(n), Depicts(v, n, old, lines),
         ~Suffix(ApplyPolicy(v, g, r), lines, n)
  PROVE  Shows(SetLines(v, lines, n, g, r), lines, g, r)
<1>1. PICK u : u = ApplyPolicy(v, g, r)
  OBVIOUS
<1>0. Tells(v, g, r, u)
  BY <1>1 DEF Tells
<1>2. /\ Told(u) /\ u.generation = g /\ u.retired = r
      /\ u.prefix = v.prefix /\ RowsOf(u.children) = RowsOf(v.children)
  BY <1>0, PolicyTaken
<1>3. PICK q \in Seq(Lines) : q = old
  BY DEF Depicts
<1>4. RowsOf(u.children) = Merged(q).rows /\ u.prefix = Merged(q).prefix
  BY <1>2, <1>3 DEF Depicts
<1>5. u.prefix \in Seq(Nat) /\ Len(u.prefix) = Len(q) + 1
  BY <1>4, MergedRows DEF Rowed
<1>6. PICK t \in Nat : t = Least(n.trimmed, Len(u.prefix) - 1) /\ t <= Len(q)
  BY <1>5 DEF Least, Noting
<1>7. PICK d \in Nat : d = u.prefix[t + 1] /\ d <= Len(Merged(q).rows)
  BY <1>4, <1>6, SkippedRows
<1>8. /\ Len(u.children) = Len(Merged(q).rows) /\ (\E S : u.children \in Seq(S))
      /\ \A i \in 1..Len(u.children) : Child(u.children[i], u)
  BY <1>2, <1>4, ShownRows
<1>9. PICK S : u.children \in Seq(S)
  BY <1>8
<1>10. PICK all \in Seq(S) : all = u.children
  BY <1>9
<1>11. PICK children \in Seq(S) :
         /\ children = DropLines(u.children, u.prefix[Least(n.trimmed, Len(u.prefix) - 1) + 1])
         /\ \A i \in 1..Len(children) : Child(children[i], u)
  <2>1. /\ DropLines(all, d) \in Seq(S) /\ Len(DropLines(all, d)) = Len(all) - d
        /\ \A i \in 1..(Len(all) - d) : DropLines(all, d)[i] = all[d + i]
    BY <1>7, <1>8, <1>10, Drops, ZenonT(40)
  <2>2. \A i \in 1..(Len(all) - d) : d + i \in 1..Len(all)
    OBVIOUS
  <2>3. \A i \in 1..Len(DropLines(all, d)) : Child(DropLines(all, d)[i], u)
    BY <1>8, <1>10, <2>1, <2>2
  <2> QED
    BY <1>6, <1>7, <1>10, <2>1, <2>3
<1>12. PICK rows \in Seq(Seq(Lines)) : rows = Merged(lines).rows
  BY MergedRows DEF Rowed
<1>13. PICK common \in Nat :
         /\ common = CommonRows(rows, children) /\ common <= Len(rows) /\ common <= Len(children)
         /\ \A i \in 1..common : rows[i] = children[i].row
  <2>1. Sequences(Seq(Lines), S, rows, children)
    BY DEF Sequences
  <2>2. Common(rows, children, CommonRows(rows, children))
    BY <2>1, CommonTaken
  <2> QED
    BY <2>2 DEF Common
<1>14. PICK w : w = SetLines(v, lines, n, g, r)
  OBVIOUS
<1>15. w = With(u, Reconciled(u, children, Merged(lines).rows, common), Merged(lines).prefix)
  BY <1>1, <1>11, <1>12, <1>13, <1>14 DEF SetLines, With
<1>16. /\ common <= Len(Merged(lines).rows) /\ common <= Len(children)
       /\ \A i \in 1..common : Merged(lines).rows[i] = children[i].row
  BY <1>12, <1>13
<1>17. Shows(w, lines, u.generation, u.retired)
  BY <1>2, <1>11, <1>15, <1>16, CommitShows
<1> QED
  BY <1>2, <1>14, <1>17

\* Whatever it looks at, a commit shows the lines.
LEMMA LinesSet ==
  ASSUME NEW v, Told(v), NEW g \in Nat, NEW r \in Nat, NEW lines \in Seq(Lines), NEW old, NEW n,
         Noting(n), Depicts(v, n, old, lines)
  PROVE  Shows(SetLines(v, lines, n, g, r), lines, g, r)
<1>1. CASE Suffix(ApplyPolicy(v, g, r), lines, n)
  BY <1>1, SuffixSet
<1>2. CASE ~Suffix(ApplyPolicy(v, g, r), lines, n)
  BY <1>2, AllSet
<1> QED
  BY <1>1, <1>2

\* The first lines of a surface that stay as they are, and no row goes on over their end.
Stay(old, new, k) ==
  /\ k \in Nat /\ old \in Seq(Lines) /\ new \in Seq(Lines)
  /\ k <= Len(old) /\ k <= Len(new) /\ Alike(old, new, k) /\ Ends(old, k)

\* The screen shows some lines, and these have stayed so far.
Since(n, old, lines) ==
  /\ old \in Seq(Lines)
  /\ n.trimmed = 0 /\ n.from = None => old = lines
  /\ n.trimmed = 0 /\ n.from # None => Stay(old, lines, n.from)

\* The lines on the screen say nothing of the notes, nor the notes of the screen.
LEMMA DepictsSince ==
  ASSUME NEW v, NEW n, Noting(n), NEW old, NEW lines \in Seq(Lines)
  PROVE  Depicts(v, n, old, lines)
         <=> /\ Since(n, old, lines)
             /\ RowsOf(v.children) = Merged(old).rows /\ v.prefix = Merged(old).prefix
<1>1. n.from = None \/ n.from \in Nat
  BY DEF Noting
<1>2. CASE old \in Seq(Lines)
  BY <1>1, <1>2 DEF Depicts, Since, Stay, Alike, Ends
<1>3. CASE old \notin Seq(Lines)
  BY <1>3 DEF Depicts, Since
<1> QED
  BY <1>2, <1>3

\* Lines that stay to a point stay to where they stay next.
LEMMA StayOn ==
  ASSUME NEW old, NEW lines, NEW new, NEW k, NEW j, Stay(old, lines, k), Stay(lines, new, j)
  PROVE  Stay(old, new, Earliest(k, j))
<1>1. /\ k \in Nat /\ j \in Nat /\ old \in Seq(Lines) /\ lines \in Seq(Lines) /\ new \in Seq(Lines)
      /\ k <= Len(old) /\ k <= Len(lines) /\ j <= Len(lines) /\ j <= Len(new)
      /\ Alike(old, lines, k) /\ Ends(old, k) /\ Alike(lines, new, j) /\ Ends(lines, j)
  BY DEF Stay
<1>2. CASE j < k
  <2>1. Earliest(k, j) = j
    BY <1>1, <1>2 DEF Earliest
  <2>2. Alike(old, new, j)
    BY <1>1, <1>2 DEF Alike
  <2>3. old[j + 1] = lines[j + 1]
    BY <1>1, <1>2 DEF Alike
  <2>4. Ends(old, j)
    BY <1>1, <1>2, <2>3 DEF Ends
  <2>5. j <= Len(old)
    BY <1>1, <1>2
  <2> QED
    BY <1>1, <2>1, <2>2, <2>4, <2>5 DEF Stay
<1>3. CASE ~(j < k)
  <2>1. Earliest(k, j) = k
    BY <1>1, <1>3 DEF Earliest, None
  <2>2. Alike(old, new, k)
    BY <1>1, <1>3 DEF Alike
  <2>3. k <= Len(new)
    BY <1>1, <1>3
  <2> QED
    BY <1>1, <2>1, <2>2, <2>3 DEF Stay
<1> QED
  BY <1>2, <1>3

\* A mark is a note of where a surface has changed.
LEMMA MarkedNote ==
  ASSUME NEW n, Noting(n), NEW j \in Nat
  PROVE  /\ Noting(Marked(n, j)) /\ Marked(n, j) # Clean
         /\ Marked(n, j).trimmed = n.trimmed /\ Marked(n, j).from = Earliest(n.from, j)
<1>1. Earliest(n.from, j) \in Nat
  BY DEF Earliest, Noting, None
<1>2. /\ DOMAIN n = {"from", "trimmed"} /\ n.trimmed \in Nat
      /\ n = [from |-> n.from, trimmed |-> n.trimmed]
  BY DEF Noting
<1>3. Marked(n, j) = [from |-> Earliest(n.from, j), trimmed |-> n.trimmed]
  BY <1>2 DEF Marked
<1>4. Noting(Marked(n, j))
  BY <1>1, <1>2, <1>3 DEF Noting
<1> QED
  BY <1>1, <1>3, <1>4 DEF Clean, None

\* What stays is noted with a mark.
LEMMA MarkedSince ==
  ASSUME NEW n, Noting(n), NEW old, NEW lines, NEW new, NEW j, Since(n, old, lines),
         Stay(lines, new, j)
  PROVE  Since(Marked(n, j), old, new) /\ Noting(Marked(n, j)) /\ Marked(n, j) # Clean
<1>1. j \in Nat
  BY DEF Stay
<1>2. /\ Noting(Marked(n, j)) /\ Marked(n, j) # Clean
      /\ Marked(n, j).trimmed = n.trimmed /\ Marked(n, j).from = Earliest(n.from, j)
  BY <1>1, MarkedNote
<1>3. old \in Seq(Lines)
  BY DEF Since
<1>4. Earliest(n.from, j) \in Nat
  BY <1>1 DEF Earliest, Noting, None
<1>5. CASE n.trimmed # 0
  BY <1>2, <1>3, <1>5 DEF Since
<1>6. CASE n.trimmed = 0 /\ n.from = None
  <2>1. old = lines /\ Earliest(n.from, j) = j
    BY <1>6 DEF Since, Earliest
  <2> QED
    BY <1>2, <1>3, <1>4, <2>1 DEF Since, None
<1>7. CASE n.trimmed = 0 /\ n.from # None
  <2>1. Stay(old, lines, n.from)
    BY <1>7 DEF Since
  <2>2. Stay(old, new, Earliest(n.from, j))
    BY <2>1, StayOn
  <2> QED
    BY <1>2, <1>3, <1>4, <2>2 DEF Since, None
<1> QED
  BY <1>2, <1>5, <1>6, <1>7

\* Once the first lines went nothing more is known.
LEMMA TrimmedSince ==
  ASSUME NEW n, Noting(n), NEW count \in Nat, count > 0, NEW old \in Seq(Lines), NEW new
  PROVE  Since(Trimmed(n, count), old, new) /\ Noting(Trimmed(n, count)) /\ Trimmed(n, count) # Clean
<1>1. n.trimmed \in Nat /\ (n.from = None \/ n.from \in Nat)
  BY DEF Noting
<1>2. PICK f, t : Trimmed(n, count) = [from |-> f, trimmed |-> t]
                  /\ f \in Nat \cup {None} /\ t \in Nat /\ t > 0
  <2> DEFINE f == IF n.from = None THEN None ELSE IF n.from < count THEN 0 ELSE n.from - count
             t == n.trimmed + count
  <2>1. Trimmed(n, count) = [from |-> f, trimmed |-> t]
    BY DEF Trimmed
  <2>2. f \in Nat \cup {None}
    BY <1>1
  <2>3. t \in Nat /\ t > 0
    BY <1>1
  <2> QED
    BY <2>1, <2>2, <2>3
<1> QED
  BY <1>2 DEF Since, Noting, Clean

\* A surface that was shown anew.
LEMMA EverywhereSince ==
  ASSUME NEW old \in Seq(Lines), NEW new \in Seq(Lines)
  PROVE  Since(Everywhere, old, new) /\ Noting(Everywhere) /\ Everywhere # Clean
<1>1. Stay(old, new, 0)
  BY DEF Stay, Alike, Ends
<1> QED
  BY <1>1 DEF Since, Noting, Everywhere, Clean, None

\* What a viewport shows, of what the copy noted.
Screened(v, n, lines) ==
  /\ Told(v) /\ Noting(n)
  /\ \E old : Since(n, old, lines)
              /\ RowsOf(v.children) = Merged(old).rows /\ v.prefix = Merged(old).prefix

\* That is what the invariant says of the screen.
LEMMA ScreenedInv ==
  ASSUME OfferInv
  PROVE  ScreenInv <=> /\ Screened(view, note, copy.lines)
                       /\ note = Clean => policy.generation = view.generation
                                          /\ policy.retired = view.retired
<1>1. copy.lines \in Seq(Lines)
  BY DEF OfferInv, Booked, Copy
<1>2. Noting(note) => \A old : Depicts(view, note, old, copy.lines)
         <=> /\ Since(note, old, copy.lines)
             /\ RowsOf(view.children) = Merged(old).rows /\ view.prefix = Merged(old).prefix
  BY <1>1, DepictsSince
<1>3. Noting(note) <=> note \in [from : Nat \cup {None}, trimmed : Nat]
  BY DEF Noting
<1> QED
  BY <1>2, <1>3 DEF ScreenInv, Screened

\* Lines that stay to a mark are shown so far,
LEMMA ScreenMarked ==
  ASSUME NEW v, NEW n, NEW lines, Screened(v, n, lines), NEW new, NEW j, Stay(lines, new, j)
  PROVE  Screened(v, Marked(n, j), new) /\ Marked(n, j) # Clean
<1>1. PICK old : Since(n, old, lines)
         /\ RowsOf(v.children) = Merged(old).rows /\ v.prefix = Merged(old).prefix
  BY DEF Screened
<1>2. Since(Marked(n, j), old, new) /\ Noting(Marked(n, j)) /\ Marked(n, j) # Clean
  BY <1>1, MarkedSince DEF Screened
<1> QED
  BY <1>1, <1>2 DEF Screened

\* of those that lost the first nothing is known,
LEMMA ScreenTrimmed ==
  ASSUME NEW v, NEW n, NEW lines, Screened(v, n, lines), NEW new, NEW m, Noting(m),
         NEW count \in Nat, count > 0
  PROVE  Screened(v, Trimmed(m, count), new) /\ Trimmed(m, count) # Clean
<1>1. PICK old : Since(n, old, lines)
         /\ RowsOf(v.children) = Merged(old).rows /\ v.prefix = Merged(old).prefix
  BY DEF Screened
<1>2. old \in Seq(Lines)
  BY <1>1 DEF Since
<1>3. Since(Trimmed(m, count), old, new) /\ Noting(Trimmed(m, count)) /\ Trimmed(m, count) # Clean
  BY <1>2, TrimmedSince
<1> QED
  BY <1>1, <1>3 DEF Screened

\* nor of those that are shown anew.
LEMMA ScreenAnew ==
  ASSUME NEW v, NEW n, NEW lines, Screened(v, n, lines), NEW new \in Seq(Lines)
  PROVE  Screened(v, Everywhere, new) /\ Everywhere # Clean
<1>1. PICK old : Since(n, old, lines)
         /\ RowsOf(v.children) = Merged(old).rows /\ v.prefix = Merged(old).prefix
  BY DEF Screened
<1>2. old \in Seq(Lines)
  BY <1>1 DEF Since
<1>3. Since(Everywhere, old, new) /\ Noting(Everywhere) /\ Everywhere # Clean
  BY <1>2, EverywhereSince
<1> QED
  BY <1>1, <1>3 DEF Screened

\* A switch leaves the rows.
LEMMA ScreenSwitched ==
  ASSUME NEW v, NEW n, NEW lines, Screened(v, n, lines), NEW on \in BOOLEAN, NEW w,
         w = Switched(v, on)
  PROVE  Screened(w, n, lines) /\ w.generation = v.generation /\ w.retired = v.retired
<1>1. /\ Told(w) /\ w.generation = v.generation /\ w.retired = v.retired
      /\ w.prefix = v.prefix /\ RowsOf(w.children) = RowsOf(v.children)
  BY SwitchTold DEF Screened
<1> QED
  BY <1>1 DEF Screened

\* What a viewport becomes with a commit.
Sets(v, lines, n, g, r, w) ==
  /\ lines \in Seq(Lines) /\ g \in Nat /\ r \in Nat
  /\ Screened(v, n, lines) /\ w = SetLines(v, lines, n, g, r)

\* A commit shows the lines.
LEMMA ScreenSet ==
  ASSUME NEW v, NEW n, NEW lines, NEW g, NEW r, NEW w, Sets(v, lines, n, g, r, w)
  PROVE  Screened(w, Clean, lines) /\ w.generation = g /\ w.retired = r
<1>0. /\ lines \in Seq(Lines) /\ g \in Nat /\ r \in Nat
      /\ Screened(v, n, lines) /\ w = SetLines(v, lines, n, g, r)
  BY DEF Sets
<1>1. PICK old : Since(n, old, lines)
         /\ RowsOf(v.children) = Merged(old).rows /\ v.prefix = Merged(old).prefix
  BY <1>0 DEF Screened
<1>2. Told(v) /\ Noting(n)
  BY <1>0 DEF Screened
<1>3. Depicts(v, n, old, lines)
  BY <1>0, <1>1, <1>2, DepictsSince
<1>4. Shows(SetLines(v, lines, n, g, r), lines, g, r)
  BY <1>0, <1>2, <1>3, LinesSet
<1>5. Since(Clean, lines, lines) /\ Noting(Clean)
  BY <1>0 DEF Since, Noting, Clean
<1> QED
  BY <1>0, <1>4, <1>5 DEF Screened, Shows

\* Every line stays.
LEMMA AllStay ==
  ASSUME NEW lines \in Seq(Lines) PROVE Stay(lines, lines, Len(lines))
BY DEF Stay, Alike, Ends

\* What the copy notes of an operation, and why.
NotedSo(op, new, n) ==
  \/ op.tag = "trim" /\ new = copy.lines /\ n = note
  \/ \E j : Stay(copy.lines, new, j) /\ n = Marked(note, j)
  \/ \E m, count : Noting(m) /\ count \in Nat /\ count > 0 /\ n = Trimmed(m, count)

\* An operation with its sequence has the same line.
Sequels(op, given) ==
  Brings(given) /\ given.tag = op.tag /\ (op.tag = "replace" => given.line.id = op.line.id)

\* A line that is replaced is the only one with its number,
LEMMA ReplaceNoted ==
  ASSUME OfferInv, Careful, NEW op, NEW given, Sequels(op, given), op.tag = "replace", NEW after,
         after = Apply(copy, given), after.lines \in Seq(Lines)
  PROVE  NotedSo(op, after.lines, Noted(op, after))
<1> DEFINE L == copy.lines  size == Len(L)
<1>1. /\ L \in Seq(Lines) /\ size \in Nat /\ DOMAIN L = 1..size
      /\ \A i, j \in DOMAIN L : L[i].id = L[j].id => i = j
      /\ DOMAIN copy = DOMAIN copy
  BY DEF OfferInv, Booked, Copy, Labelled
<1>2. given.tag = "replace" /\ given.line.id = op.line.id
      /\ \E i \in DOMAIN L : given.line.id = L[i].id /\ MayStart(i)
  BY DEF Sequels, Brings
<1>3. PICK p \in 1..size : op.line.id = L[p].id /\ ~L[p].edge
  BY <1>1, <1>2 DEF MayStart
<1>4. "lines" \in DOMAIN copy
  BY DEF OfferInv, Booked, Copy
<1>5. after.lines = [i \in DOMAIN L |-> IF L[i].id = given.line.id THEN given.line ELSE L[i]]
  BY <1>2, <1>4 DEF Apply, ReplaceLine
<1>6. DOMAIN after.lines = 1..size /\ \A i \in 1..size : i # p => after.lines[i] = L[i]
  BY <1>1, <1>2, <1>3, <1>5, SMTT(40)
<1>7. Noted(op, after) = Marked(note, CHOOSE i \in 0..(size - 1) : L[i + 1].id = op.line.id)
  BY DEF Noted
<1>8. PICK j : j = CHOOSE i \in 0..(size - 1) : L[i + 1].id = op.line.id
  OBVIOUS
<1>9. j \in 0..(size - 1) /\ L[j + 1].id = op.line.id
  <2>1. p - 1 \in 0..(size - 1) /\ L[(p - 1) + 1].id = op.line.id
    BY <1>1, <1>3
  <2> QED
    BY <1>8, <2>1
<1>10. j \in Nat /\ j + 1 = p
  BY <1>1, <1>3, <1>9
<1>11. Stay(L, after.lines, j)
  <2>1. Len(after.lines) = size
    BY <1>1, <1>6
  <2>2. j <= size
    BY <1>1, <1>9
  <2>3. Alike(L, after.lines, j)
    BY <1>1, <1>6, <1>10, <2>2 DEF Alike
  <2>4. Ends(L, j)
    BY <1>3, <1>10 DEF Ends
  <2> QED
    BY <1>1, <1>10, <2>1, <2>2, <2>3, <2>4 DEF Stay
<1> QED
  BY <1>7, <1>8, <1>11 DEF NotedSo

\* lines go with the delete buttons that hang on them,
LEMMA DeleteNoted ==
  ASSUME OfferInv, Careful, NEW op, NEW given, Sequels(op, given), op.tag = "delete", NEW after,
         after = Apply(copy, given), after.lines \in Seq(Lines)
  PROVE  NotedSo(op, after.lines, Noted(op, after))
<1> DEFINE L == copy.lines  size == Len(L)
<1>1. /\ L \in Seq(Lines) /\ size \in Nat /\ DOMAIN L = 1..size /\ "lines" \in DOMAIN copy
      /\ "hidden" \in DOMAIN copy
  BY DEF OfferInv, Booked, Copy
<1>2. given.tag = "delete" /\ \E i \in DOMAIN L : given.count = size - i + 1 /\ MayStart(i)
  BY DEF Sequels, Brings
<1>3. PICK p \in 1..size : given.count = size - p + 1 /\ ~L[p].edge
  BY <1>1, <1>2 DEF MayStart
<1>4. PICK j \in Nat : j = p - 1 /\ j < size
  BY <1>1, <1>3
<1>5. Least(given.count, size) = size - j
  BY <1>1, <1>3, <1>4 DEF Least
<1>6. after.lines = FirstLines(L, j)
  <2>1. after.lines = FirstLines(L, size - Least(given.count, size))
    BY <1>1, <1>2 DEF Apply, DeleteTail
  <2>2. size - Least(given.count, size) = j
    BY <1>1, <1>4, <1>5
  <2> QED
    BY <2>1, <2>2
<1>7. Len(after.lines) = j /\ \A i \in 1..j : after.lines[i] = L[i]
  BY <1>1, <1>4, <1>6, Firsts
<1>8. Noted(op, after) = Marked(note, j)
  <2>1. size - Len(after.lines) > 0
    BY <1>1, <1>4, <1>7
  <2> QED
    BY <1>7, <2>1 DEF Noted
<1>9. Stay(L, after.lines, j)
  <2>1. Alike(L, after.lines, j)
    BY <1>7 DEF Alike
  <2>2. Ends(L, j)
    BY <1>3, <1>4 DEF Ends
  <2>3. j <= Len(L)
    BY <1>1, <1>4
  <2> QED
    BY <1>1, <1>7, <2>1, <2>2, <2>3 DEF Stay
<1> QED
  BY <1>8, <1>9 DEF NotedSo

\* the oldest go with what is known of the others,
LEMMA TrimNoted ==
  ASSUME OfferInv, Noting(note), NEW op, NEW given, Sequels(op, given), op.tag = "trim", NEW after,
         after = Apply(copy, given), after.lines \in Seq(Lines)
  PROVE  NotedSo(op, after.lines, Noted(op, after))
<1> DEFINE L == copy.lines  size == Len(L)
<1>1. /\ L \in Seq(Lines) /\ size \in Nat /\ DOMAIN L = 1..size /\ "lines" \in DOMAIN copy
      /\ "hidden" \in DOMAIN copy /\ copy.hidden \in Nat
  BY DEF OfferInv, Booked, Copy
<1>2. given.tag = "trim" /\ given.count \in Nat
  BY DEF Sequels, Brings, Change
<1>3. PICK h : h = Least(given.count, copy.hidden)
  OBVIOUS
<1>4. h \in Nat /\ given.count - h \in Nat
  BY <1>1, <1>2, <1>3 DEF Least
<1>5. PICK k \in Nat : k = Least(given.count - h, size) /\ k <= size
  BY <1>1, <1>4 DEF Least
<1>6. after.lines = DropLines(L, k)
  BY <1>1, <1>2, <1>3, <1>5 DEF Apply, TrimLines
<1>7. Len(DropLines(L, k)) = size - k /\ \A i \in 1..(size - k) : DropLines(L, k)[i] = L[k + i]
  BY <1>1, <1>5, Drops, ZenonT(40)
<1>8. size - Len(after.lines) = k
  <2>1. Len(after.lines) = size - k
    BY <1>6, <1>7
  <2>2. size \in Nat
    BY <1>1
  <2> HIDE DEF size
  <2> QED
    BY <1>5, <2>1, <2>2
<1>9. CASE k = 0
  <2>1. after.lines = L
    BY <1>1, <1>6, <1>7, <1>9, SeqEqual
  <2>2. Noted(op, after) = note
    BY <1>8, <1>9 DEF Noted
  <2> QED
    BY <2>1, <2>2 DEF NotedSo
<1>10. CASE k # 0
  <2>1. PICK m : m = IF note.from = None THEN [note EXCEPT !.from = size] ELSE note
    OBVIOUS
  <2>2. Noting(m)
    BY <1>1, <2>1 DEF Noting
  <2>3. Noted(op, after) = Trimmed(m, k)
    BY <1>8, <1>10, <2>1 DEF Noted
  <2>4. k > 0
    BY <1>10
  <2> QED
    BY <2>2, <2>3, <2>4 DEF NotedSo
<1> QED
  BY <1>9, <1>10

\* and whatever else comes leaves the lines or clears them.
LEMMA OtherNoted ==
  ASSUME OfferInv, NEW op, NEW given, Sequels(op, given), op.tag \in {"append", "generation", "clear"},
         NEW after, after = Apply(copy, given), after.lines \in Seq(Lines)
  PROVE  NotedSo(op, after.lines, Noted(op, after))
<1> DEFINE L == copy.lines  size == Len(L)
<1>1. L \in Seq(Lines) /\ size \in Nat /\ "lines" \in DOMAIN copy
  BY DEF OfferInv, Booked, Copy
<1>2. given.tag = op.tag /\ Change(given, Lines)
  BY DEF Sequels, Brings
<1>3. CASE op.tag = "append"
  <2>1. after.lines = Append(L, given.line) /\ given.line \in Lines
    BY <1>1, <1>2, <1>3 DEF Apply, AppendLine, Change
  <2>2. Len(after.lines) = size + 1 /\ \A i \in 1..size : after.lines[i] = L[i]
    BY <1>1, <2>1
  <2>3. Stay(L, after.lines, size)
    BY <1>1, <2>2 DEF Stay, Alike, Ends
  <2>4. Noted(op, after) = Marked(note, size)
    BY <1>3 DEF Noted
  <2> QED
    BY <2>3, <2>4 DEF NotedSo
<1>4. CASE op.tag = "generation"
  <2>1. after.lines = L
    BY <1>2, <1>4 DEF Apply
  <2>2. Stay(L, after.lines, size)
    BY <1>1, <2>1, AllStay
  <2>3. Noted(op, after) = Marked(note, size)
    BY <1>4 DEF Noted
  <2> QED
    BY <2>2, <2>3 DEF NotedSo
<1>5. CASE op.tag = "clear"
  <2>1. Noted(op, after) = Marked(note, 0)
    BY <1>5 DEF Noted
  <2>2. Stay(L, after.lines, 0)
    BY <1>1 DEF Stay, Alike, Ends
  <2> QED
    BY <2>1, <2>2 DEF NotedSo
<1> QED
  BY <1>3, <1>4, <1>5

\* The invariant holds after a step that keeps both.
LEMMA ScreenBack ==
  ASSUME OfferInv', Screened(view', note', copy'.lines),
         note' = Clean => policy'.generation = view'.generation /\ policy'.retired = view'.retired
  PROVE  ScreenInv'
<1>1. copy'.lines \in Seq(Lines)
  BY DEF OfferInv, Booked, Copy
<1>2. Told(view') /\ Noting(note')
  BY DEF Screened
<1>3. PICK old : Since(note', old, copy'.lines)
         /\ RowsOf(view'.children) = Merged(old).rows /\ view'.prefix = Merged(old).prefix
  BY DEF Screened
<1>4. Depicts(view', note', old, copy'.lines)
  BY <1>1, <1>2, <1>3, DepictsSince
<1>5. note' \in [from : Nat \cup {None}, trimmed : Nat]
  BY <1>2 DEF Noting
<1> QED
  BY <1>2, <1>4, <1>5 DEF ScreenInv

\* The notes of an operation are good for what it makes of the lines.
LEMMA NotedScreen ==
  ASSUME Screened(view, note, copy.lines), NEW op, NEW new, NEW n, NotedSo(op, new, n)
  PROVE  Screened(view, n, new) /\ (n # Clean \/ (op.tag = "trim" /\ n = note))
<1>1. CASE op.tag = "trim" /\ new = copy.lines /\ n = note
  BY <1>1
<1>2. CASE \E j : Stay(copy.lines, new, j) /\ n = Marked(note, j)
  BY <1>2, ScreenMarked
<1>3. CASE \E m, count : Noting(m) /\ count \in Nat /\ count > 0 /\ n = Trimmed(m, count)
  BY <1>3, ScreenTrimmed
<1> QED
  BY <1>1, <1>2, <1>3 DEF NotedSo

\* What the screen shows stays known through an operation,
LEMMA ScreenOperate ==
  ASSUME Careful, ScreenInv, Operate, OfferInv' PROVE ScreenInv'
<1>1. PICK op \in Changes :
        /\ budget.operations > 0
        /\ copy' = Apply(copy, Assigned(op)) /\ note' = Noted(op, Apply(copy, Assigned(op)))
        /\ policy' = [policy EXCEPT !.next = NextAfter(Apply(copy, Assigned(op)).lines),
                        !.generation = IF op.tag = "generation" THEN op.generation ELSE @]
        /\ view' = view
  BY Zenon DEF Operate
<1>2. OfferInv
  BY DEF ScreenInv
<1>3. /\ Screened(view, note, copy.lines)
      /\ note = Clean => policy.generation = view.generation /\ policy.retired = view.retired
  BY <1>2, ScreenedInv
<1>4. Brings(Assigned(op)) /\ Assigned(op).tag = op.tag
      /\ (op.tag = "replace" => Assigned(op).line.id = op.line.id)
  BY <1>1, <1>2, AssignedBrings
<1>5. PICK given : given = Assigned(op)
  OBVIOUS
<1>6. Sequels(op, given)
  BY <1>4, <1>5 DEF Sequels
<1>7. op.tag \in {"append", "delete", "clear", "replace", "trim", "generation"}
  BY <1>4 DEF Brings
<1>8. PICK after : after = copy'
  OBVIOUS
<1>9. after = Apply(copy, given) /\ after.lines \in Seq(Lines)
  BY <1>1, <1>5, <1>8 DEF OfferInv, Booked, Copy
<1>10. NotedSo(op, after.lines, Noted(op, after))
  BY <1>2, <1>3, <1>6, <1>7, <1>9, ReplaceNoted, DeleteNoted, TrimNoted, OtherNoted DEF Screened
<1>11. NotedSo(op, copy'.lines, note')
  BY <1>1, <1>5, <1>8, <1>9, <1>10
<1>12. Screened(view, note', copy'.lines) /\ (note' # Clean \/ (op.tag = "trim" /\ note' = note))
  BY <1>3, <1>11, NotedScreen
<1>13. op.tag = "trim" => policy'.generation = policy.generation /\ policy'.retired = policy.retired
  <2>1. policy \in [generation : Nat, next : Nat, retired : Nat]
    BY <1>2 DEF OfferInv, Booked
  <2>2. PICK q : q = NextAfter(Apply(copy, Assigned(op)).lines)
    OBVIOUS
  <2>3. policy' = [policy EXCEPT !.next = q,
                     !.generation = IF op.tag = "generation" THEN op.generation ELSE @]
    BY <1>1, <2>2
  <2> QED
    BY <2>1, <2>3
<1>14. note' = Clean => policy'.generation = view'.generation /\ policy'.retired = view'.retired
  BY <1>1, <1>3, <1>12, <1>13
<1>15. Screened(view', note', copy'.lines)
  BY <1>1, <1>12
<1> QED
  BY <1>14, <1>15, ScreenBack

\* through the end of a delta and a snapshot,
LEMMA ScreenDelta ==
  ASSUME ScreenInv, EndDelta \/ Snapshot \/ Reset, OfferInv' PROVE ScreenInv'
<1>1. OfferInv
  BY DEF ScreenInv
<1>2. Screened(view, note, copy.lines)
  BY <1>1, ScreenedInv
<1>3. copy.lines \in Seq(Lines) /\ copy'.lines \in Seq(Lines) /\ Limit \in Nat
  BY <1>1, ViewportAssumption DEF OfferInv, Booked, Copy
<1>4. view' = view
  BY DEF EndDelta, Snapshot, Reset
<1>5. Screened(view, note', copy'.lines) /\ note' # Clean
  <2>1. CASE EndDelta
    <3>1. PICK k \in Nat : k > 0 /\ note' = Trimmed(note, k)
      BY <1>3, <2>1 DEF EndDelta, Whole
    <3>2. Noting(note)
      BY <1>2 DEF Screened
    <3> QED
      BY <1>2, <3>1, <3>2, ScreenTrimmed
  <2>2. CASE Snapshot \/ Reset
    <3>1. note' = Everywhere
      BY <2>2 DEF Snapshot, Reset
    <3> QED
      BY <1>2, <1>3, <3>1, ScreenAnew
  <2> QED
    BY <2>1, <2>2
<1>6. Screened(view', note', copy'.lines)
  BY <1>4, <1>5
<1> QED
  BY <1>5, <1>6, ScreenBack

\* through an answer, and whatever takes it or gives it back,
LEMMA ScreenInput ==
  ASSUME ScreenInv, Submit \/ NewWait \/ Rejected, OfferInv' PROVE ScreenInv'
<1>1. OfferInv
  BY DEF ScreenInv
<1>2. /\ Screened(view, note, copy.lines)
      /\ note = Clean => policy.generation = view.generation /\ policy.retired = view.retired
  BY <1>1, ScreenedInv
<1>3. copy.lines \in Seq(Lines) /\ policy \in [generation : Nat, next : Nat, retired : Nat]
  BY <1>1 DEF OfferInv, Booked, Copy
<1>4. Stay(copy.lines, copy.lines, Len(copy.lines))
  BY <1>3, AllStay
<1>5. Screened(view, Marked(note, Len(copy.lines)), copy.lines)
      /\ Marked(note, Len(copy.lines)) # Clean
  BY <1>2, <1>4, ScreenMarked
<1>6. copy' = copy
  BY DEF Submit, NewWait, Rejected
<1>7. CASE Submit
  <2>1. note' = Marked(note, Len(copy.lines)) /\ view' = Switched(view, FALSE)
    BY <1>7 DEF Submit
  <2>2. PICK w : w = Switched(view, FALSE)
    OBVIOUS
  <2>3. Screened(w, Marked(note, Len(copy.lines)), copy.lines)
    BY <1>5, <2>2, ScreenSwitched
  <2>4. Screened(view', note', copy'.lines)
    BY <1>6, <2>1, <2>2, <2>3
  <2> QED
    BY <1>5, <2>1, <2>4, ScreenBack
<1>8. CASE NewWait \/ Rejected
  <2>1. view' = view
    BY <1>8 DEF NewWait, Rejected
  <2>2. note' = Marked(note, Len(copy.lines)) \/ (note' = note /\ policy' = policy)
    <3>1. CASE NewWait
      <4>1. PICK wait \in Waits \ {input.wait} :
              LET atBoundary == wait # NoWait /\ input.boundary # None
              IN  /\ policy' = [policy EXCEPT !.retired = IF atBoundary /\ Keeps THEN input.boundary ELSE @]
                  /\ note' = IF atBoundary /\ Keeps THEN Marked(note, Len(copy.lines)) ELSE note
        BY <3>1, Zenon DEF NewWait
      <4> QED
        BY <1>3, <4>1
    <3>2. CASE Rejected
      BY <1>3, <3>2 DEF Rejected
    <3> QED
      BY <1>8, <3>1, <3>2
  <2>3. Screened(view, note', copy.lines)
        /\ (note' = Clean => policy'.generation = view.generation /\ policy'.retired = view.retired)
    BY <1>2, <1>5, <2>2
  <2>4. Screened(view', note', copy'.lines)
    BY <1>6, <2>1, <2>3
  <2> QED
    BY <2>1, <2>3, <2>4, ScreenBack
<1> QED
  BY <1>7, <1>8

\* and a commit shows what there is.
LEMMA ScreenShown ==
  ASSUME ScreenInv, Switch \/ CommitLines, OfferInv' PROVE ScreenInv'
<1>1. OfferInv
  BY DEF ScreenInv
<1>2. /\ Screened(view, note, copy.lines)
      /\ note = Clean => policy.generation = view.generation /\ policy.retired = view.retired
  BY <1>1, ScreenedInv
<1>3. /\ copy.lines \in Seq(Lines) /\ policy.generation \in Nat /\ policy.retired \in Nat
      /\ copy' = copy /\ policy' = policy
  BY <1>1 DEF OfferInv, Booked, Copy, Switch, CommitLines
<1>4. CASE Switch
  <2>1. view' = Switched(view, ~view.on) /\ note' = note
    BY <1>4 DEF Switch
  <2>2. PICK w : w = Switched(view, ~view.on)
    OBVIOUS
  <2>3. PICK on \in BOOLEAN : on = ~view.on
    BY <1>2 DEF Screened, Told
  <2>4. Screened(w, note, copy.lines) /\ w.generation = view.generation /\ w.retired = view.retired
    BY <1>2, <2>2, <2>3, ScreenSwitched, ZenonT(40)
  <2>5. Screened(view', note', copy'.lines)
    BY <1>3, <2>1, <2>2, <2>4
  <2> QED
    BY <1>2, <1>3, <2>1, <2>2, <2>4, <2>5, ScreenBack
<1>5. CASE CommitLines
  <2>1. view' = SetLines(view, copy.lines, note, policy.generation, policy.retired) /\ note' = Clean
    BY <1>5 DEF CommitLines
  <2>2. PICK w : w = SetLines(view, copy.lines, note, policy.generation, policy.retired)
    OBVIOUS
  <2>3. Screened(w, Clean, copy.lines)
        /\ w.generation = policy.generation /\ w.retired = policy.retired
    <3>1. Sets(view, copy.lines, note, policy.generation, policy.retired, w)
      BY <1>2, <1>3, <2>2 DEF Sets
    <3> QED
      BY <3>1, ScreenSet
  <2>4. Screened(view', note', copy'.lines)
    BY <1>3, <2>1, <2>2, <2>3
  <2> QED
    BY <1>3, <2>1, <2>2, <2>3, <2>4, ScreenBack
<1> QED
  BY <1>4, <1>5

\* What the screen shows is known in every step.
LEMMA ScreenNext ==
  ASSUME Careful, ScreenInv, [ViewportNext]_viewportVars PROVE ScreenInv'
<1>1. OfferInv'
  BY OfferNext DEF ScreenInv
<1>2. CASE UNCHANGED viewportVars
  BY <1>1, <1>2 DEF ScreenInv, Depicts, Told, viewportVars
<1> QED
  BY <1>1, <1>2, ScreenOperate, ScreenDelta, ScreenInput, ScreenShown DEF ViewportNext

\* At the start there is nothing to see.
LEMMA ScreenStart ==
  ASSUME ViewportInit PROVE ScreenInv
<1>1. OfferInv
  BY OfferInit
<1>2. /\ note = Everywhere /\ copy = EmptyCopy(0, 0, FALSE)
      /\ view = [children |-> <<>>, prefix |-> <<0>>, generation |-> NoGeneration, retired |-> 0,
                 on |-> TRUE]
  BY DEF ViewportInit
<1>3. copy.lines = <<>>
  BY <1>2 DEF EmptyCopy
<1>4. Told(view)
  <2>1. view.children = <<>> /\ view.prefix = <<0>>
        /\ DOMAIN view = {"children", "prefix", "generation", "retired", "on"}
        /\ view.generation = 0 /\ view.retired = 0 /\ view.on \in BOOLEAN
    BY <1>2 DEF NoGeneration
  <2>2. view.children \in Seq(Nat) /\ DOMAIN view.children = {}
    BY <2>1
  <2>3. \E S : view.children \in Seq(S)
    BY <2>2
  <2>4. \A i \in DOMAIN view.children : Child(view.children[i], view)
    BY <2>2
  <2>5. view.generation \in Nat /\ view.retired \in Nat
    BY <2>1
  <2> QED
    BY <2>1, <2>3, <2>4, <2>5 DEF Told
<1>5. RowsOf(view.children) = <<>>
  BY <1>2 DEF RowsOf
<1>6. Since(Everywhere, <<>>, <<>>) /\ Noting(Everywhere) /\ Everywhere # Clean
  <2>1. <<>> \in Seq(Lines)
    OBVIOUS
  <2> QED
    BY <2>1, EverywhereSince
<1>7. RowsOf(view.children) = Merged(<<>>).rows /\ view.prefix = Merged(<<>>).prefix
  BY <1>2, <1>5, MergedNone
<1>8. Screened(view, note, copy.lines)
  BY <1>2, <1>3, <1>4, <1>6, <1>7 DEF Screened
<1> QED
  BY <1>1, <1>2, <1>6, <1>8, ScreenedInv

\* What the screen shows when nothing is noted is what there is.
LEMMA ScreenShows ==
  ASSUME ScreenInv PROVE ScreenTrue
<1>1. /\ OfferInv /\ Told(view) /\ \E old : Depicts(view, note, old, copy.lines)
      /\ note = Clean => policy.generation = view.generation /\ policy.retired = view.retired
  BY DEF ScreenInv
<1>2. RowsMatch
  <2> SUFFICES ASSUME note = Clean
               PROVE  RowsOf(view.children) = Merged(copy.lines).rows
                      /\ view.prefix = Merged(copy.lines).prefix
    BY DEF RowsMatch, UpToDate, RowsOf
  <2>1. note.trimmed = 0 /\ note.from = None
    BY DEF Clean
  <2> QED
    BY <1>1, <2>1 DEF Depicts
<1>3. ButtonsMatch
  <2> SUFFICES ASSUME note = Clean, NEW child \in Members(view.children),
                      NEW l \in Members(child.row)
               PROVE  (child.on /\ Enabled(l, child.generation, child.retired))
                        = (view.on /\ Enabled(l, policy.generation, policy.retired))
    BY DEF ButtonsMatch, UpToDate
  <2>1. policy.generation = view.generation /\ policy.retired = view.retired /\ view.on \in BOOLEAN
    BY <1>1 DEF Told
  <2>2. Child(child, view)
    BY <1>1 DEF Told, Members
  <2>3. l \in Lines
    BY <2>2, MemberTypes DEF Child
  <2>4. CASE child.listed
    BY <2>1, <2>2, <2>4 DEF Child
  <2>5. CASE ~child.listed
    <3>1. ~Enabled(l, view.generation, view.retired)
          /\ ~(child.on /\ Enabled(l, child.generation, child.retired))
      BY <2>2, <2>5 DEF Child, HasEnabled
    <3>2. Enabled(l, child.generation, child.retired) \in BOOLEAN
          /\ Enabled(l, view.generation, view.retired) \in BOOLEAN /\ child.on \in BOOLEAN
      BY <2>2 DEF Enabled, Child
    <3> QED
      BY <2>1, <3>1, <3>2
  <2> QED
    BY <2>2, <2>4, <2>5 DEF Child
<1> QED
  BY <1>2, <1>3 DEF ScreenTrue

\* The screen shows the copy and the policy, in whatever order they change.
THEOREM ScreenStaysTrue ==
  ASSUME Careful PROVE ViewportSpec => []ScreenTrue
<1>1. ViewportInit => ScreenInv
  BY ScreenStart
<1>2. ScreenInv /\ [ViewportNext]_viewportVars => ScreenInv'
  BY ScreenNext
<1>3. ScreenInv => ScreenTrue
  BY ScreenShows
<1> QED
  BY <1>1, <1>2, <1>3, PTL DEF ViewportSpec
-----------------------------------------------------------------------------
(* The copies of the surface, and what is between them *)

GameLines == [id : Nat, game : Nat, text : {0, 1}]
Works ==
  [tag : {"append", "replace"}, line : GameLines] \cup [tag : {"delete", "trim"}, count : Nat]
    \cup [tag : {"clear"}] \cup [tag : {"wait"}, wait : Nat]
    \cup [tag : {"scene"}, base : Int, next : Nat]
Deltas == [from : Nat, to : Nat, ops : Seq(Works)]
Snapshots == [rev : Nat, lines : Seq(GameLines), wait : Nat, scene : Nat]
Messages ==
  [kind : {"reset"}, rev : Nat]
    \cup [kind : {"batch"}, snapshot : Seq(Snapshots), delta : Seq(Deltas), wait : Nat, render : BOOLEAN]

\* Lines have numbers of their own, below the next one to be given.
Unlike(lines) == \A i, j \in DOMAIN lines : lines[i].id = lines[j].id => i = j
Numbered(lines, next) == Unlike(lines) /\ \A i \in DOMAIN lines : lines[i].id < next

\* A line takes the place of the one with its number.
Replaced(s, x) == [i \in DOMAIN s |-> IF s[i].id = x.id THEN x ELSE s[i]]

\* A copy of a game that was left shows nothing of it.
Bare(c) == c.active => c.lines = <<>> /\ c.wait = NoWait

\* s is the end of t, d elements are before it.
EndOf(s, t, d) == Len(t) = d + Len(s) /\ \A i \in 1..Len(s) : s[i] = t[d + i]

\* u has the end of the lines of w, and counts the others.
Follows(u, w) == EndOf(u.lines, w.lines, u.hidden) /\ u.wait = w.wait

\* A copy after the first operations of some, and after the first events of some.
After(c, ops, n) == ApplyAll(c, FirstLines(ops, n))
Heard(c, es, n) == FoldLeft(CopyAfter, c, FirstLines(es, n))

\* Every one of the operations finds what it needs.
Sound(c, ops) ==
  \A i \in 0..Len(ops) :
    LET f == After(c, ops, i) IN
    /\ Copy(f, GameLines) /\ ~f.failed /\ Unlike(f.lines)
    /\ i > 0 => Accepts(After(c, ops, i - 1), ops[i])

Lined(op) == op.tag \in {"append", "replace"}

\* What could be merged was merged.
Single(ops) ==
  /\ \A i, j \in DOMAIN ops : ops[i].tag = "wait" /\ ops[j].tag = "wait" => i = j
  /\ \A i, j \in RegionOf(ops) :
       Lined(ops[i]) /\ Lined(ops[j]) /\ ops[i].line.id = ops[j].line.id => i = j

\* What the app has when it took what is under way, and then what is pending.
Sent == FoldLeft(CopyAfter, app.copy, events)
BaseOf(p, c) == IF p.snapshot = <<>> THEN c ELSE AppSnapshot(c, p.snapshot[1])
Base == BaseOf(pending, Sent)
Target == ApplyAll(Base, pending.ops)

RuntimeFits ==
  /\ {"rev", "lines", "wait", "scene", "game", "next", "fresh"} = DOMAIN rt
  /\ rt.rev \in Nat /\ rt.lines \in Seq(GameLines) /\ rt.wait \in Nat /\ rt.scene \in Nat
  /\ rt.game \in Nat /\ rt.next \in Nat \ {0} /\ rt.fresh \in BOOLEAN
  /\ Numbered(rt.lines, rt.next)
  /\ left.returns \in Int /\ left.returns <= MaxReturns
  /\ DOMAIN left = {"outputs", "returns", "faults", "boundaries"}

WorkerFits ==
  /\ Copy(worker, GameLines) /\ ~worker.failed /\ worker.hidden = 0
  /\ DOMAIN worker =
       {"rev", "lines", "hidden", "wait", "scene", "active", "failed", "phase", "command"}
  /\ Numbered(worker.lines, rt.next) /\ Bare(worker) /\ worker.rev <= rt.rev

PendingFits ==
  /\ pending \in [snapshot : Seq(Snapshots), from : Nat, to : Nat, ops : Seq(Works)]
  /\ Sound(Base, pending.ops) /\ Single(pending.ops)
  /\ \A i \in DOMAIN pending.ops : Lined(pending.ops[i]) => pending.ops[i].line.id < rt.next
  /\ pending.to = 0 => pending.from = 0 /\ pending.ops = <<>> /\ Base.rev = worker.rev
  /\ pending.to # 0 => pending.from = Base.rev /\ pending.to = worker.rev

TargetFits ==
  /\ Follows(Target, worker) /\ Bare(Target)
  /\ worker.rev = rt.rev => Target.active = worker.active
  /\ left.returns = MaxReturns => Target.scene = worker.scene

AppFits ==
  /\ events \in Seq(Messages)
  /\ DOMAIN app = {"copy", "wait"} /\ app.wait \in Nat /\ Copy(app.copy, GameLines)
  /\ Bare(app.copy) /\ (app.wait # NoWait => app.copy.wait = app.wait)
  /\ DOMAIN surface = {"lines", "painted", "callbacks"}
  /\ app.copy.active => surface.lines = <<>>
  /\ \A k \in 1..Len(events) :
       events[k].kind = "batch" /\ events[k].wait # NoWait =>
         Heard(app.copy, events, k).wait = events[k].wait

CopyInv == RuntimeFits /\ WorkerFits /\ PendingFits /\ TargetFits /\ AppFits

\* The first operations, one by one.
LEMMA AfterNone ==
  ASSUME NEW S, NEW ops \in Seq(S), NEW c
  PROVE  After(c, ops, 0) = c
<1>1. FirstLines(ops, 0) = <<>>
  <2>1. FirstLines(ops, 0) \in Seq(S) /\ Len(FirstLines(ops, 0)) = 0
    BY Firsts
  <2> QED
    BY <2>1
<1>2. <<>> \in Seq(S)
  OBVIOUS
<1> QED
  BY <1>1, <1>2, AllRuns, RunNone DEF After

\* An operation more.
LEMMA ApplyMore ==
  ASSUME NEW S, NEW ops \in Seq(S), NEW op \in S, NEW c
  PROVE  ApplyAll(c, Append(ops, op)) = ApplyOperation(ApplyAll(c, ops), op)
<1>1. Append(ops, op) \in Seq(S)
  OBVIOUS
<1>2. ApplyAll(c, Append(ops, op)) = Run("apply", c, Append(ops, op)) /\ ApplyAll(c, ops) = Run("apply", c, ops)
  BY <1>1, AllRuns
<1>3. Run("apply", c, Append(ops, op)) = Step("apply", Run("apply", c, ops), op)
  BY RunMore
<1>4. \A x : Step("apply", x, op) = ApplyOperation(x, op)
  BY DEF Step
<1> QED
  BY <1>2, <1>3, <1>4

\* The first elements of some, and one more.
LEMMA FirstMore ==
  ASSUME NEW S, NEW s \in Seq(S), NEW i \in Nat, i < Len(s)
  PROVE  /\ FirstLines(s, i) \in Seq(S) /\ s[i + 1] \in S
         /\ FirstLines(s, i + 1) = Append(FirstLines(s, i), s[i + 1])
<1> DEFINE f == FirstLines(s, i)  g == FirstLines(s, i + 1)
<1>1. f \in Seq(S) /\ Len(f) = i /\ \A j \in 1..i : f[j] = s[j]
  BY Firsts
<1>2. g \in Seq(S) /\ Len(g) = i + 1 /\ \A j \in 1..(i + 1) : g[j] = s[j]
  <2>1. i + 1 \in Nat /\ i + 1 <= Len(s)
    OBVIOUS
  <2> QED
    BY <2>1, Firsts
<1>3. s[i + 1] \in S
  OBVIOUS
<1> HIDE DEF f, g
<1>4. Append(f, s[i + 1]) \in Seq(S) /\ Len(Append(f, s[i + 1])) = i + 1
      /\ \A j \in 1..(i + 1) : Append(f, s[i + 1])[j] = s[j]
  BY <1>1, <1>3
<1>5. g = Append(f, s[i + 1])
  BY <1>2, <1>4, SeqEqual
<1> QED
  BY <1>1, <1>3, <1>5 DEF f, g

\* One more operation, on what the earlier ones made.
LEMMA AfterMore ==
  ASSUME NEW S, NEW ops \in Seq(S), NEW i \in Nat, i < Len(ops), NEW c
  PROVE  After(c, ops, i + 1) = ApplyOperation(After(c, ops, i), ops[i + 1])
BY FirstMore, ApplyMore, ZenonT(40) DEF After

\* All of them.
LEMMA FirstAll ==
  ASSUME NEW S, NEW s \in Seq(S)
  PROVE  FirstLines(s, Len(s)) = s
<1>1. /\ FirstLines(s, Len(s)) \in Seq(S) /\ Len(FirstLines(s, Len(s))) = Len(s)
      /\ \A j \in 1..Len(s) : FirstLines(s, Len(s))[j] = s[j]
  BY Firsts
<1> QED
  BY <1>1, SeqEqual

\* All of the operations.
LEMMA AfterAll ==
  ASSUME NEW S, NEW ops \in Seq(S), NEW c
  PROVE  After(c, ops, Len(ops)) = ApplyAll(c, ops)
BY FirstAll DEF After

\* Sequences that begin alike have the same first elements.
LEMMA FirstAlike ==
  ASSUME NEW S, NEW s \in Seq(S), NEW r \in Seq(S), NEW n \in Nat, n <= Len(s), n <= Len(r),
         \A j \in 1..n : s[j] = r[j]
  PROVE  FirstLines(s, n) = FirstLines(r, n)
<1>1. /\ FirstLines(s, n) \in Seq(S) /\ Len(FirstLines(s, n)) = n
      /\ \A j \in 1..n : FirstLines(s, n)[j] = s[j]
  BY Firsts
<1>2. /\ FirstLines(r, n) \in Seq(S) /\ Len(FirstLines(r, n)) = n
      /\ \A j \in 1..n : FirstLines(r, n)[j] = r[j]
  BY Firsts
<1> QED
  BY <1>1, <1>2, SeqEqual

\* The first events, one by one.
LEMMA HeardNone ==
  ASSUME NEW S, NEW es \in Seq(S), NEW c
  PROVE  Heard(c, es, 0) = c /\ FoldLeft(CopyAfter, c, <<>>) = c
<1>1. FirstLines(es, 0) = <<>>
  <2>1. FirstLines(es, 0) \in Seq(S) /\ Len(FirstLines(es, 0)) = 0
    BY Firsts
  <2> QED
    BY <2>1
<1>2. <<>> \in Seq(S)
  OBVIOUS
<1> QED
  BY <1>1, <1>2, EventsRun, RunNone DEF Heard

\* An event more, on what the earlier ones made.
LEMMA EventMore ==
  ASSUME NEW S, NEW es \in Seq(S), NEW e \in S, NEW c
  PROVE  FoldLeft(CopyAfter, c, Append(es, e)) = CopyAfter(FoldLeft(CopyAfter, c, es), e)
<1>1. Append(es, e) \in Seq(S)
  OBVIOUS
<1>2. /\ FoldLeft(CopyAfter, c, Append(es, e)) = Run("event", c, Append(es, e))
      /\ FoldLeft(CopyAfter, c, es) = Run("event", c, es)
  BY <1>1, EventsRun
<1>3. Run("event", c, Append(es, e)) = Step("event", Run("event", c, es), e)
  BY RunMore
<1>4. \A x : Step("event", x, e) = CopyAfter(x, e)
  BY DEF Step
<1> QED
  BY <1>2, <1>3, <1>4

\* The first events, one more of them.
LEMMA HeardMore ==
  ASSUME NEW S, NEW es \in Seq(S), NEW i \in Nat, i < Len(es), NEW c
  PROVE  Heard(c, es, i + 1) = CopyAfter(Heard(c, es, i), es[i + 1])
BY FirstMore, EventMore, ZenonT(40) DEF Heard

\* All of the events.
LEMMA HeardAll ==
  ASSUME NEW S, NEW es \in Seq(S), NEW c
  PROVE  Heard(c, es, Len(es)) = FoldLeft(CopyAfter, c, es)
BY FirstAll DEF Heard

\* An event more on its way.
LEMMA HeardAppend ==
  ASSUME NEW S, NEW es \in Seq(S), NEW e \in S, NEW c
  PROVE  /\ \A k \in 0..Len(es) : Heard(c, Append(es, e), k) = Heard(c, es, k)
         /\ Heard(c, Append(es, e), Len(es) + 1) = CopyAfter(FoldLeft(CopyAfter, c, es), e)
<1> DEFINE more == Append(es, e)
<1>1. more \in Seq(S) /\ Len(more) = Len(es) + 1 /\ \A j \in 1..Len(es) : more[j] = es[j]
  OBVIOUS
<1> HIDE DEF more
<1>2. ASSUME NEW k \in 0..Len(es) PROVE Heard(c, more, k) = Heard(c, es, k)
  <2>1. k \in Nat /\ k <= Len(es) /\ k <= Len(more) /\ \A j \in 1..k : more[j] = es[j]
    BY <1>1
  <2> QED
    BY <1>1, <2>1, FirstAlike DEF Heard
<1>3. Heard(c, more, Len(es) + 1) = CopyAfter(FoldLeft(CopyAfter, c, es), e)
  <2>1. Heard(c, more, Len(more)) = FoldLeft(CopyAfter, c, more)
    BY <1>1, HeardAll
  <2>2. FoldLeft(CopyAfter, c, more) = CopyAfter(FoldLeft(CopyAfter, c, es), e)
    BY EventMore DEF more
  <2> QED
    BY <1>1, <2>1, <2>2
<1> QED
  BY <1>2, <1>3 DEF more

\* The oldest event is heard.
LEMMA HeardTail ==
  ASSUME NEW S, NEW es \in Seq(S), es # <<>>, NEW c
  PROVE  /\ \A k \in 0..Len(Tail(es)) :
              Heard(CopyAfter(c, Head(es)), Tail(es), k) = Heard(c, es, k + 1)
         /\ FoldLeft(CopyAfter, CopyAfter(c, Head(es)), Tail(es)) = FoldLeft(CopyAfter, c, es)
<1> DEFINE d == CopyAfter(c, Head(es))  rest == Tail(es)
           T == {k \in Nat : Heard(d, rest, k) = Heard(c, es, k + 1)}
<1>1. /\ rest \in Seq(S) /\ Len(es) \in Nat /\ Len(rest) = Len(es) - 1 /\ Len(rest) \in Nat
      /\ \A k \in 1..Len(rest) : rest[k] = es[k + 1]
      /\ Head(es) = es[1] /\ Len(es) > 0
  OBVIOUS
<1>n. PICK n \in Nat : n = Len(rest)
  BY <1>1
<1>2. 0 \in T
  <2>1. Heard(d, rest, 0) = d
    BY <1>1, HeardNone
  <2>2. Heard(c, es, 0 + 1) = CopyAfter(Heard(c, es, 0), es[0 + 1]) /\ Heard(c, es, 0) = c
    BY <1>1, HeardMore, HeardNone
  <2> QED
    BY <1>1, <2>1, <2>2
<1>3. ASSUME NEW i \in 0..(n - 1), i \in T PROVE i + 1 \in T
  <2>1. i \in Nat /\ i < Len(rest) /\ i + 1 \in Nat /\ i + 1 < Len(es) /\ rest[i + 1] = es[(i + 1) + 1]
    BY <1>1, <1>n
  <2>2. Heard(d, rest, i + 1) = CopyAfter(Heard(d, rest, i), rest[i + 1])
    BY <1>1, <2>1, HeardMore
  <2>3. Heard(c, es, (i + 1) + 1) = CopyAfter(Heard(c, es, i + 1), es[(i + 1) + 1])
    BY <1>1, <2>1, HeardMore
  <2> QED
    BY <1>3, <2>1, <2>2, <2>3
<1>4. 0..n \subseteq T
  <2> HIDE DEF T
  <2> QED
    BY <1>2, <1>3, UpTo
<1>5. \A k \in 0..Len(rest) : Heard(d, rest, k) = Heard(c, es, k + 1)
  BY <1>4, <1>n
<1>6. FoldLeft(CopyAfter, d, rest) = FoldLeft(CopyAfter, c, es)
  <2>1. Heard(d, rest, n) = Heard(c, es, n + 1) /\ n + 1 = Len(es)
    BY <1>1, <1>5, <1>n
  <2> QED
    BY <1>1, <2>1, <1>n, HeardAll
<1> QED
  BY <1>5, <1>6
-----------------------------------------------------------------------------
(* What an operation makes of a copy *)

\* What the parts of an operation can be.
LEMMA WorkChanges ==
  ASSUME NEW op \in Works
  PROVE  /\ Change(op, GameLines)
         /\ op.tag \in {"append", "delete", "clear", "wait", "replace", "trim", "scene"}
         /\ Lined(op) => op.line \in GameLines /\ op.line.id \in Nat
         /\ op.tag \in {"delete", "trim"} => op.count \in Nat
         /\ op.tag = "wait" => op.wait \in Nat
         /\ op.tag = "scene" => op.base \in Int /\ op.next \in Nat
<1>1. CASE op \in [tag : {"append", "replace"}, line : GameLines]
  BY <1>1 DEF Change, Lined, GameLines
<1>2. CASE op \in [tag : {"delete", "trim"}, count : Nat]
  BY <1>2 DEF Change, Lined
<1>3. CASE op \in [tag : {"clear"}] \cup [tag : {"wait"}, wait : Nat]
  BY <1>3 DEF Change, Lined
<1>4. CASE op \in [tag : {"scene"}, base : Int, next : Nat]
  BY <1>4 DEF Change, Lined
<1> QED
  BY <1>1, <1>2, <1>3, <1>4 DEF Works

\* The lines and the count of hidden ones.
LEMMA LinesOf ==
  ASSUME NEW c, Copy(c, GameLines), NEW op \in Works
  PROVE  LET r == Apply(c, op)  size == Len(c.lines) IN
         /\ op.tag = "append" => r.lines = Append(c.lines, op.line) /\ r.hidden = c.hidden
         /\ op.tag = "delete" =>
              LET k == Least(op.count, size) IN
              /\ r.lines = FirstLines(c.lines, size - k)
              /\ r.hidden = IF c.hidden < op.count - k THEN 0 ELSE c.hidden - (op.count - k)
         /\ op.tag = "clear" => r.lines = <<>> /\ r.hidden = 0
         /\ op.tag \in {"wait", "scene"} => r.lines = c.lines /\ r.hidden = c.hidden
         /\ op.tag = "replace" =>
              /\ r.lines = [i \in DOMAIN c.lines |->
                              IF c.lines[i].id = op.line.id THEN op.line ELSE c.lines[i]]
              /\ r.hidden = c.hidden
         /\ op.tag = "trim" =>
              LET h == Least(op.count, c.hidden) IN
              /\ r.lines = DropLines(c.lines, Least(op.count - h, size))
              /\ r.hidden = c.hidden - h
<1> USE DEF Copy, Apply
<1>1. op.tag \in {"append", "delete", "clear", "wait", "replace", "trim", "scene"}
  BY WorkChanges
<1>2. CASE op.tag = "append"
  BY <1>2 DEF AppendLine
<1>3. CASE op.tag = "delete"
  BY <1>3 DEF DeleteTail
<1>4. CASE op.tag \in {"clear", "wait", "scene"}
  BY <1>4 DEF ClearHistory, SetInputWait, SceneDelta
<1>5. CASE op.tag = "replace"
  BY <1>5 DEF ReplaceLine
<1>6. CASE op.tag = "trim"
  BY <1>6 DEF TrimLines
<1> QED
  BY <1>1, <1>2, <1>3, <1>4, <1>5, <1>6

\* The rest of it.
LEMMA RestOf ==
  ASSUME NEW c, Copy(c, GameLines), NEW op \in Works
  PROVE  LET r == Apply(c, op) IN
         /\ r.wait = IF op.tag = "wait" THEN op.wait ELSE c.wait
         /\ r.active = (c.active /\ op.tag # "clear")
         /\ r.scene = IF op.tag = "scene" /\ op.base = c.scene THEN op.next ELSE c.scene
         /\ r.failed = (c.failed \/ (op.tag = "scene" /\ op.base # c.scene))
         /\ r.rev = c.rev
<1> USE DEF Copy, Apply
<1>1. op.tag \in {"append", "delete", "clear", "wait", "replace", "trim", "scene"}
  BY WorkChanges
<1>2. CASE op.tag \in {"append", "delete"}
  BY <1>2 DEF AppendLine, DeleteTail
<1>3. CASE op.tag \in {"clear", "wait"}
  BY <1>3 DEF ClearHistory, SetInputWait
<1>4. CASE op.tag \in {"replace", "trim"}
  BY <1>4 DEF ReplaceLine, TrimLines
<1>5. CASE op.tag = "scene"
  BY <1>5 DEF SceneDelta
<1> QED
  BY <1>1, <1>2, <1>3, <1>4, <1>5

\* A copy stays one.
LEMMA WorkApplied ==
  ASSUME NEW c, Copy(c, GameLines), NEW op \in Works
  PROVE  /\ Copy(Apply(c, op), GameLines) /\ Copy(ApplyOperation(c, op), GameLines)
         /\ DOMAIN Apply(c, op) = DOMAIN c /\ DOMAIN ApplyOperation(c, op) = DOMAIN c
BY WorkChanges, Applied DEF ApplyOperation

\* The end of a sequence, when both lose or get elements.
LEMMA EndAppend ==
  ASSUME NEW S, NEW s \in Seq(S), NEW t \in Seq(S), NEW d \in Nat, EndOf(s, t, d), NEW x \in S
  PROVE  EndOf(Append(s, x), Append(t, x), d)
<1>s. PICK a \in Nat, b \in Nat : a = Len(s) /\ b = Len(t)
  OBVIOUS
<1>f. b = d + a
  BY <1>s DEF EndOf
<1>g. \A i \in 1..a : s[i] = t[d + i]
  BY <1>s DEF EndOf
<1>1. Len(Append(s, x)) = a + 1 /\ Len(Append(t, x)) = b + 1
  BY <1>s
<1>3. b + 1 = d + (a + 1)
  BY <1>f
<1>2. ASSUME NEW i \in 1..(a + 1) PROVE Append(s, x)[i] = Append(t, x)[d + i]
  <2>1. CASE i \in 1..a
    <3>1. d + i \in 1..b
      BY <2>1, <1>f
    <3> QED
      BY <2>1, <3>1, <1>s, <1>g
  <2>2. CASE i = a + 1
    <3>1. d + i = b + 1
      BY <2>2, <1>f
    <3> QED
      BY <2>2, <3>1, <1>s
  <2>3. i \in 1..a \/ i = a + 1
    OBVIOUS
  <2> QED
    BY <2>1, <2>2, <2>3
<1> QED
  BY <1>1, <1>2, <1>3 DEF EndOf

\* A line replaced in some lines is replaced in their end.
LEMMA EndReplace ==
  ASSUME NEW S, NEW s \in Seq(S), NEW t \in Seq(S), NEW d \in Nat, EndOf(s, t, d), NEW x
  PROVE  EndOf([i \in DOMAIN s |-> IF s[i].id = x.id THEN x ELSE s[i]],
               [i \in DOMAIN t |-> IF t[i].id = x.id THEN x ELSE t[i]], d)
<1>s. PICK a \in Nat, b \in Nat : a = Len(s) /\ b = Len(t) /\ DOMAIN s = 1..a /\ DOMAIN t = 1..b
  OBVIOUS
<1>f. b = d + a
  BY <1>s DEF EndOf
<1>g. \A i \in 1..a : s[i] = t[d + i]
  BY <1>s DEF EndOf
<1> DEFINE p == [i \in DOMAIN s |-> IF s[i].id = x.id THEN x ELSE s[i]]
           q == [i \in DOMAIN t |-> IF t[i].id = x.id THEN x ELSE t[i]]
<1>1. Len(p) = a /\ Len(q) = b
  BY <1>s
<1>2. \A i \in 1..a : d + i \in 1..b
  BY <1>f
<1>3. \A i \in 1..a : p[i] = q[d + i]
  BY <1>s, <1>2, <1>g
<1> HIDE DEF p, q
<1> QED
  BY <1>1, <1>3, <1>f DEF EndOf, p, q

\* How much is left, when n elements are taken or all.
LEMMA FirstsLeft ==
  ASSUME NEW a \in Nat, NEW d \in Nat, NEW n \in Nat, NEW k \in Nat, NEW m \in Nat,
         k <= a, k <= n, k = n \/ k = a, m <= d + a, m <= n, m = n \/ m = d + a
  PROVE  (d + a) - m = (IF d < n - k THEN 0 ELSE d - (n - k)) + (a - k)
<1>1. CASE k = n
  <2>1. m = n
    BY <1>1
  <2> QED
    BY <1>1, <2>1
<1>2. CASE k = a
  BY <1>2
<1> QED
  BY <1>1, <1>2

\* How many lines go from an end when some go from the whole.
LEMMA DropsLeft ==
  ASSUME NEW a \in Nat, NEW d \in Nat, NEW n \in Nat, NEW h \in Nat, NEW k \in Nat, NEW m \in Nat,
         h <= d, h <= n, h = n \/ h = d, k <= a, k <= n - h, k = n - h \/ k = a,
         m <= d + a, m <= n, m = n \/ m = d + a
  PROVE  m = h + k /\ (k # 0 => h = d)
<1>1. CASE h = n
  <2>1. m = n /\ k = 0
    BY <1>1
  <2> QED
    BY <1>1, <2>1
<1>2. CASE h = d
  BY <1>2
<1> QED
  BY <1>1, <1>2

\* Without n of the last elements, or without all.
LEMMA EndFirsts ==
  ASSUME NEW S, NEW s \in Seq(S), NEW t \in Seq(S), NEW d \in Nat, EndOf(s, t, d), NEW n \in Nat
  PROVE  LET k == Least(n, Len(s))  m == Least(n, Len(t))
             e == IF d < n - k THEN 0 ELSE d - (n - k)
         IN  EndOf(FirstLines(s, Len(s) - k), FirstLines(t, Len(t) - m), e)
<1>s. PICK a \in Nat, b \in Nat : a = Len(s) /\ b = Len(t)
  OBVIOUS
<1>f. b = d + a
  BY <1>s DEF EndOf
<1>g. \A i \in 1..a : s[i] = t[d + i]
  BY <1>s DEF EndOf
<1>k. PICK k \in Nat : k = Least(n, a) /\ k <= a /\ k <= n /\ (k = n \/ k = a)
  BY DEF Least
<1>m. PICK m \in Nat : m = Least(n, b) /\ m <= b /\ m <= n /\ (m = n \/ m = b)
  BY DEF Least
<1>e. PICK e \in Nat : e = IF d < n - k THEN 0 ELSE d - (n - k)
  BY <1>k
<1>x. PICK x \in Nat : x = a - k
  BY <1>k
<1>y. PICK y \in Nat : y = b - m
  BY <1>m
<1> DEFINE p == FirstLines(s, x)  q == FirstLines(t, y)
<1>1. Len(p) = x /\ \A i \in 1..x : p[i] = s[i]
  <2>1. x <= Len(s)
    BY <1>s, <1>x
  <2> QED
    BY <2>1, Firsts
<1>2. Len(q) = y /\ \A i \in 1..y : q[i] = t[i]
  <2>1. y <= Len(t)
    BY <1>s, <1>y
  <2> QED
    BY <2>1, Firsts
<1> HIDE DEF p, q
<1>3. y = e + x
  <2>1. m <= d + a /\ (m = n \/ m = d + a)
    BY <1>m, <1>f
  <2>2. k <= a /\ k <= n /\ (k = n \/ k = a) /\ m <= n
    BY <1>k, <1>m
  <2>3. (d + a) - m = (IF d < n - k THEN 0 ELSE d - (n - k)) + (a - k)
    BY <2>1, <2>2, FirstsLeft
  <2> QED
    BY <2>3, <1>e, <1>x, <1>y, <1>f
<1>4. ASSUME NEW i \in 1..x PROVE p[i] = q[e + i]
  <2>1. i \in 1..a /\ k = n /\ m = n
    BY <1>k, <1>m, <1>x, <1>f
  <2>2. e = d /\ d + i \in 1..y
    BY <2>1, <1>e, <1>3
  <2> QED
    BY <2>1, <2>2, <1>1, <1>2, <1>g
<1>5. EndOf(p, q, e)
  BY <1>1, <1>2, <1>3, <1>4 DEF EndOf
<1> QED
  BY <1>5, <1>s, <1>k, <1>m, <1>e, <1>x, <1>y DEF p, q

\* Without n of the first, or without all.
LEMMA EndDrops ==
  ASSUME NEW S, NEW s \in Seq(S), NEW t \in Seq(S), NEW d \in Nat, EndOf(s, t, d), NEW n \in Nat
  PROVE  LET h == Least(n, d)
         IN  EndOf(DropLines(s, Least(n - h, Len(s))), DropLines(t, Least(n, Len(t))), d - h)
<1>s. PICK a \in Nat, b \in Nat : a = Len(s) /\ b = Len(t)
  OBVIOUS
<1>f. b = d + a
  BY <1>s DEF EndOf
<1>g. \A i \in 1..a : s[i] = t[d + i]
  BY <1>s DEF EndOf
<1>h. PICK h \in Nat : h = Least(n, d) /\ h <= d /\ h <= n /\ (h = n \/ h = d)
  BY DEF Least
<1>j. PICK g \in Nat : g = n - h
  BY <1>h
<1>k. PICK k \in Nat : k = Least(g, a) /\ k <= a /\ k <= g /\ (k = g \/ k = a)
  BY DEF Least
<1>m. PICK m \in Nat : m = Least(n, b) /\ m <= b /\ m <= n /\ (m = n \/ m = b)
  BY DEF Least
<1>e. PICK e \in Nat : e = d - h
  BY <1>h
<1> DEFINE p == DropLines(s, k)  q == DropLines(t, m)
<1>1. Len(p) = a - k /\ \A i \in 1..(a - k) : p[i] = s[k + i]
  <2>1. k <= Len(s)
    BY <1>s, <1>k
  <2> QED
    BY <2>1, <1>s, Drops
<1>2. Len(q) = b - m /\ \A i \in 1..(b - m) : q[i] = t[m + i]
  <2>1. m <= Len(t)
    BY <1>s, <1>m
  <2> QED
    BY <2>1, <1>s, Drops
<1> HIDE DEF p, q
<1>5. m = h + k /\ (k # 0 => h = d)
  <2>1. m <= d + a /\ (m = n \/ m = d + a) /\ m <= n
    BY <1>m, <1>f
  <2>2. k <= a /\ k <= n - h /\ (k = n - h \/ k = a)
    BY <1>j, <1>k
  <2>3. h <= d /\ h <= n /\ (h = n \/ h = d)
    BY <1>h
  <2> QED
    BY <2>1, <2>2, <2>3, DropsLeft
<1>3. b - m = e + (a - k)
  BY <1>e, <1>f, <1>5
<1>4. ASSUME NEW i \in 1..(a - k) PROVE p[i] = q[e + i]
  <2>1. k + i \in 1..a /\ e + i \in 1..(b - m)
    BY <1>3, <1>k
  <2>2. d + (k + i) = m + (e + i)
    BY <1>e, <1>5
  <2> QED
    BY <2>1, <2>2, <1>1, <1>2, <1>g
<1>6. a - k \in Nat /\ EndOf(p, q, e)
  BY <1>1, <1>2, <1>3, <1>4, <1>k DEF EndOf
<1> QED
  BY <1>6, <1>s, <1>h, <1>j, <1>k, <1>m, <1>e DEF p, q

\* Whoever has the end of the lines has it after the same operation.
LEMMA FollowsOn ==
  ASSUME NEW u, NEW w, Copy(u, GameLines), Copy(w, GameLines), w.hidden = 0, Follows(u, w),
         NEW op \in Works
  PROVE  Follows(Apply(u, op), Apply(w, op)) /\ Apply(w, op).hidden = 0
<1> DEFINE p == Apply(u, op)  q == Apply(w, op)
<1>t. op.tag \in {"append", "delete", "clear", "wait", "replace", "trim", "scene"}
  BY WorkChanges
<1>u. PICK ul \in Seq(GameLines), d \in Nat : ul = u.lines /\ d = u.hidden
  BY DEF Copy
<1>w. PICK wl \in Seq(GameLines) : wl = w.lines
  BY DEF Copy
<1>f. EndOf(ul, wl, d)
  BY <1>u, <1>w DEF Follows
<1>1. p.wait = q.wait
  BY RestOf DEF Follows
<1> SUFFICES EndOf(p.lines, q.lines, p.hidden) /\ q.hidden = 0
  BY <1>1 DEF Follows
<1> HIDE DEF p, q
<1>2. CASE op.tag = "append"
  <2>1. p.lines = Append(ul, op.line) /\ p.hidden = d /\ q.lines = Append(wl, op.line) /\ q.hidden = 0
    BY <1>2, <1>u, <1>w, LinesOf DEF p, q
  <2>2. op.line \in GameLines
    BY <1>2, WorkChanges DEF Lined
  <2>3. EndOf(Append(ul, op.line), Append(wl, op.line), d)
    BY <2>2, <1>f, EndAppend
  <2> QED
    BY <2>1, <2>3
<1>3. CASE op.tag \in {"clear", "wait", "scene"}
  <2>1. CASE op.tag = "clear"
    <3>1. p.lines = <<>> /\ q.lines = <<>> /\ p.hidden = 0 /\ q.hidden = 0
      BY <2>1, LinesOf DEF p, q
    <3> QED
      BY <3>1 DEF EndOf
  <2>2. CASE op.tag \in {"wait", "scene"}
    <3>1. p.lines = ul /\ q.lines = wl /\ p.hidden = d /\ q.hidden = 0
      BY <2>2, <1>u, <1>w, LinesOf DEF p, q
    <3> QED
      BY <3>1, <1>f
  <2> QED
    BY <1>3, <2>1, <2>2
<1>4. CASE op.tag = "replace"
  <2> DEFINE x == op.line
             r == [i \in DOMAIN ul |-> IF ul[i].id = x.id THEN x ELSE ul[i]]
             o == [i \in DOMAIN wl |-> IF wl[i].id = x.id THEN x ELSE wl[i]]
  <2>1. p.lines = r /\ q.lines = o
    BY <1>4, <1>u, <1>w, LinesOf DEF p, q
  <2>2. EndOf(r, o, d)
    <3> HIDE DEF x
    <3> QED
      BY <1>f, EndReplace
  <2>3. p.hidden = d /\ q.hidden = 0
    BY <1>4, <1>u, LinesOf DEF p, q
  <2> HIDE DEF r, o
  <2> QED
    BY <2>1, <2>2, <2>3
<1>5. CASE op.tag = "delete"
  <2>n. PICK n \in Nat : n = op.count
    BY <1>5, WorkChanges
  <2> DEFINE k == Least(n, Len(ul))  m == Least(n, Len(wl))
             e == IF d < n - k THEN 0 ELSE d - (n - k)
  <2>1. p.lines = FirstLines(ul, Len(ul) - k) /\ p.hidden = e
    BY <1>5, <2>n, <1>u, LinesOf DEF p
  <2>2. /\ q.lines = FirstLines(wl, Len(wl) - m)
        /\ q.hidden = IF 0 < n - m THEN 0 ELSE 0 - (n - m)
    BY <1>5, <2>n, <1>w, LinesOf DEF q
  <2>3. EndOf(FirstLines(ul, Len(ul) - k), FirstLines(wl, Len(wl) - m), e)
    BY <1>f, EndFirsts
  <2>4. q.hidden = 0
    <3>1. m \in Nat /\ m <= n
      BY <1>w DEF Least
    <3> HIDE DEF m
    <3> QED
      BY <2>2, <3>1
  <2> HIDE DEF k, m, e
  <2> QED
    BY <2>1, <2>2, <2>3, <2>4
<1>6. CASE op.tag = "trim"
  <2>n. PICK n \in Nat : n = op.count
    BY <1>6, WorkChanges
  <2> DEFINE h == Least(n, d)
  <2>1. p.lines = DropLines(ul, Least(n - h, Len(ul))) /\ p.hidden = d - h
    BY <1>6, <2>n, <1>u, LinesOf DEF p
  <2>2. Least(n, 0) = 0 /\ n - 0 = n /\ 0 - 0 = 0
    BY DEF Least
  <2>3. q.lines = DropLines(wl, Least(n - Least(n, 0), Len(wl))) /\ q.hidden = 0 - Least(n, 0)
    BY <1>6, <2>n, <1>w, LinesOf, Zenon DEF q
  <2>4. EndOf(DropLines(ul, Least(n - h, Len(ul))), DropLines(wl, Least(n, Len(wl))), d - h)
    BY <1>f, EndDrops
  <2> HIDE DEF h
  <2> QED
    BY <2>1, <2>2, <2>3, <2>4
<1> QED
  BY <1>t, <1>2, <1>3, <1>4, <1>5, <1>6

\* A copy of a game that was left stays without its lines and its wait.
LEMMA StaysBare ==
  ASSUME NEW c, Copy(c, GameLines), Bare(c), NEW op \in Works
  PROVE  Bare(ApplyOperation(c, op)) /\ (ApplyOperation(c, op).active => c.active)
<1> DEFINE r == Apply(c, op)
<1>1. CASE c.failed \/ ~Accepts(c, op)
  BY <1>1 DEF ApplyOperation
<1>2. CASE ~c.failed /\ Accepts(c, op)
  <2>1. ApplyOperation(c, op) = r
    BY <1>2 DEF ApplyOperation
  <2>2. r.active = (c.active /\ op.tag # "clear") /\ (op.tag # "wait" => r.wait = c.wait)
    BY RestOf
  <2>3. op.tag \in {"append", "delete", "clear", "wait", "replace", "trim", "scene"}
    BY WorkChanges
  <2>4. op.tag = "scene" => r.lines = c.lines
    BY LinesOf
  <2> HIDE DEF r
  <2> QED
    BY <1>2, <2>1, <2>2, <2>3, <2>4 DEF Accepts, RetiredOperations, Bare
<1> QED
  BY <1>1, <1>2

\* Where each line of some comes from.
Stems(new, lines, k) ==
  k \in Nat /\ \A i \in 1..Len(new) : k + i \in 1..Len(lines) /\ new[i] = lines[k + i]

\* Lines that come from numbered ones keep their numbers apart.
LEMMA StemsNumbered ==
  ASSUME NEW lines \in Seq(GameLines), NEW new \in Seq(GameLines), NEW k, Stems(new, lines, k)
  PROVE  /\ Unlike(lines) => Unlike(new)
         /\ \A next : Numbered(lines, next) => Numbered(new, next)
<1>1. k \in Nat /\ \A i \in 1..Len(new) : k + i \in 1..Len(lines) /\ new[i] = lines[k + i]
  BY DEF Stems
<1>2. DOMAIN new = 1..Len(new) /\ DOMAIN lines = 1..Len(lines)
  OBVIOUS
<1>3. ASSUME Unlike(lines) PROVE Unlike(new)
  <2> SUFFICES ASSUME NEW i \in 1..Len(new), NEW j \in 1..Len(new), new[i].id = new[j].id PROVE i = j
    BY <1>2 DEF Unlike
  <2>1. k + i \in DOMAIN lines /\ k + j \in DOMAIN lines /\ lines[k + i].id = lines[k + j].id
    BY <1>1, <1>2
  <2>2. k + i = k + j
    BY <2>1, <1>3 DEF Unlike
  <2> QED
    BY <1>1, <2>2
<1>4. ASSUME NEW next, Numbered(lines, next) PROVE Numbered(new, next)
  BY <1>1, <1>2, <1>3, <1>4 DEF Numbered
<1> QED
  BY <1>3, <1>4

\* Lines that are not appended and not replaced are some of those before.
LEMMA KeptStems ==
  ASSUME NEW c, Copy(c, GameLines), NEW op \in Works, ~Lined(op)
  PROVE  \E k : Stems(Apply(c, op).lines, c.lines, k)
<1> DEFINE r == Apply(c, op)
<1>t. op.tag \in {"delete", "clear", "wait", "trim", "scene"}
  BY WorkChanges DEF Lined
<1>c. PICK s \in Seq(GameLines), a \in Nat, g \in Nat : s = c.lines /\ a = Len(s) /\ g = c.hidden
  BY DEF Copy
<1>1. CASE op.tag \in {"wait", "scene"}
  <2>1. r.lines = s
    BY <1>1, <1>c, LinesOf
  <2>2. Stems(s, s, 0)
    BY DEF Stems
  <2> QED
    BY <2>1, <2>2, <1>c
<1>2. CASE op.tag = "clear"
  <2>1. r.lines = <<>>
    BY <1>2, LinesOf
  <2>2. Stems(<<>>, s, 0)
    BY DEF Stems
  <2> QED
    BY <2>1, <2>2, <1>c
<1>3. CASE op.tag = "delete"
  <2>k. PICK k \in Nat : k = Least(op.count, a) /\ k <= a
    <3>1. op.count \in Nat
      BY <1>3, WorkChanges
    <3> QED
      BY <3>1 DEF Least
  <2>1. r.lines = FirstLines(s, a - k)
    BY <1>3, <1>c, <2>k, LinesOf
  <2>x. PICK x \in Nat : x = a - k
    BY <2>k
  <2>2. x <= Len(s)
    BY <2>k, <2>x, <1>c
  <2>3. Len(FirstLines(s, x)) = x /\ \A i \in 1..x : FirstLines(s, x)[i] = s[i]
    BY <2>2, Firsts
  <2>4. Stems(FirstLines(s, x), s, 0)
    BY <2>2, <2>3 DEF Stems
  <2> QED
    BY <2>1, <2>4, <2>x, <1>c
<1>4. CASE op.tag = "trim"
  <2> DEFINE h == Least(op.count, g)
  <2>k. PICK k \in Nat : k = Least(op.count - h, a) /\ k <= a
    <3>1. op.count \in Nat
      BY <1>4, WorkChanges
    <3>2. op.count - h \in Nat
      BY <3>1 DEF Least
    <3> HIDE DEF h
    <3> QED
      BY <3>2 DEF Least
  <2>1. r.lines = DropLines(s, k)
    BY <1>4, <1>c, <2>k, LinesOf
  <2>2. k <= Len(s)
    BY <2>k, <1>c
  <2>3. Len(DropLines(s, k)) = Len(s) - k /\ \A i \in 1..(Len(s) - k) : DropLines(s, k)[i] = s[k + i]
    BY <2>2, Drops
  <2>4. Stems(DropLines(s, k), s, k)
    BY <2>2, <2>3 DEF Stems
  <2> QED
    BY <2>1, <2>4, <1>c
<1> QED
  BY <1>t, <1>1, <1>2, <1>3, <1>4

\* A line more is a line more.
LEMMA AppendNumbered ==
  ASSUME NEW s \in Seq(GameLines), NEW x \in GameLines, Unlike(s),
         \A i \in DOMAIN s : s[i].id # x.id
  PROVE  /\ Unlike(Append(s, x))
         /\ \A k \in Nat : Numbered(s, k) /\ x.id = k => Numbered(Append(s, x), k + 1)
<1>n. PICK n \in Nat : n = Len(s) /\ DOMAIN s = 1..n
  OBVIOUS
<1> DEFINE r == Append(s, x)
<1>1. DOMAIN r = 1..(n + 1) /\ r[n + 1] = x /\ \A i \in 1..n : r[i] = s[i]
  BY <1>n
<1> HIDE DEF r
<1>2. \A i \in 1..(n + 1) : i \in 1..n \/ i = n + 1
  OBVIOUS
<1>3. Unlike(r)
  BY <1>n, <1>1, <1>2 DEF Unlike
<1>4. ASSUME NEW k \in Nat, Numbered(s, k), x.id = k PROVE Numbered(r, k + 1)
  <2>3. \A i \in 1..n : s[i] \in GameLines
    BY <1>n
  <2>1. \A i \in 1..n : s[i].id \in Nat /\ s[i].id < k
    BY <2>3, <1>4, <1>n DEF Numbered, GameLines
  <2>2. \A i \in 1..(n + 1) : r[i].id < k + 1
    BY <2>1, <1>1, <1>2, <1>4
  <2> QED
    BY <2>2, <1>1, <1>3 DEF Numbered
<1> QED
  BY <1>3, <1>4 DEF r

\* A line that replaces another has its number.
LEMMA ReplacedNumbered ==
  ASSUME NEW s \in Seq(GameLines), NEW x
  PROVE  /\ DOMAIN Replaced(s, x) = DOMAIN s /\ \A i \in DOMAIN s : Replaced(s, x)[i].id = s[i].id
         /\ Unlike(s) => Unlike(Replaced(s, x))
         /\ \A k : Numbered(s, k) => Numbered(Replaced(s, x), k)
<1> DEFINE r == Replaced(s, x)
<1>1. DOMAIN r = DOMAIN s /\ \A i \in DOMAIN s : r[i].id = s[i].id
  BY DEF Replaced
<1> HIDE DEF r
<1>2. Unlike(s) => Unlike(r)
  BY <1>1 DEF Unlike
<1>3. \A k : Numbered(s, k) => Numbered(r, k)
  BY <1>1, <1>2 DEF Numbered
<1> QED
  BY <1>1, <1>2, <1>3 DEF r

\* So an operation leaves the numbers in order.
LEMMA WorkNumbered ==
  ASSUME NEW c, Copy(c, GameLines), NEW op \in Works, Unlike(c.lines),
         op.tag = "append" => \A i \in DOMAIN c.lines : c.lines[i].id # op.line.id
  PROVE  /\ Unlike(Apply(c, op).lines)
         /\ \A k \in Nat : Numbered(c.lines, k) /\ (op.tag = "append" => op.line.id = k)
                             => Numbered(Apply(c, op).lines, k + 1)
<1> DEFINE r == Apply(c, op)
<1>c. PICK s \in Seq(GameLines) : s = c.lines
  BY DEF Copy
<1>r. r.lines \in Seq(GameLines)
  BY WorkApplied DEF Copy
\* Below a number is below a greater one.
<1>g. ASSUME NEW q \in Seq(GameLines), NEW k \in Nat, Numbered(q, k) PROVE Numbered(q, k + 1)
  <2>2. \A i \in DOMAIN q : q[i] \in GameLines
    OBVIOUS
  <2>1. \A i \in DOMAIN q : q[i].id \in Nat
    BY <2>2 DEF GameLines
  <2> QED
    BY <2>1, <1>g DEF Numbered
<1>u. Unlike(s) /\ (op.tag = "append" => \A i \in DOMAIN s : s[i].id # op.line.id)
  BY <1>c
<1> SUFFICES /\ Unlike(r.lines)
             /\ \A k \in Nat : Numbered(s, k) /\ (op.tag = "append" => op.line.id = k)
                                 => Numbered(r.lines, k + 1)
  BY <1>c
<1>1. CASE op.tag = "append"
  <2>1. r.lines = Append(s, op.line) /\ op.line \in GameLines
    BY <1>1, <1>c, LinesOf, WorkChanges DEF Lined
  <2>2. /\ Unlike(Append(s, op.line))
        /\ \A k \in Nat : Numbered(s, k) /\ op.line.id = k => Numbered(Append(s, op.line), k + 1)
    BY <1>1, <1>u, <2>1, AppendNumbered
  <2> HIDE DEF r
  <2> QED
    BY <1>1, <2>1, <2>2
<1>2. CASE op.tag = "replace"
  <2>1. r.lines = Replaced(s, op.line)
    BY <1>2, <1>c, LinesOf DEF Replaced
  <2>2. Unlike(r.lines) /\ \A k : Numbered(s, k) => Numbered(r.lines, k)
    BY <2>1, <1>u, ReplacedNumbered
  <2> HIDE DEF r
  <2> QED
    BY <1>r, <1>g, <2>2
<1>3. CASE ~Lined(op)
  <2>1. PICK k : Stems(r.lines, s, k)
    BY <1>3, <1>c, KeptStems
  <2>2. Unlike(r.lines) /\ \A next : Numbered(s, next) => Numbered(r.lines, next)
    BY <2>1, <1>u, <1>r, StemsNumbered
  <2> HIDE DEF r
  <2> QED
    BY <1>r, <1>g, <2>2
<1> QED
  BY <1>1, <1>2, <1>3 DEF Lined

\* A copy that fits the terminal.
LEMMA FitsFollow ==
  ASSUME NEW u, NEW w, Copy(u, GameLines), Copy(w, GameLines), Follows(u, w)
  PROVE  /\ Copy(Fit(u), GameLines) /\ Follows(Fit(u), w) /\ (Unlike(u.lines) => Unlike(Fit(u).lines))
         /\ Fit(u).active = u.active /\ Fit(u).scene = u.scene /\ Fit(u).rev = u.rev
         /\ Fit(u).failed = u.failed /\ Fit(u).wait = u.wait /\ (Bare(u) => Bare(Fit(u)))
         /\ DOMAIN Fit(u) = DOMAIN u
<1>1. Limit \in Nat
  BY PresentationAssumption
<1>2. PICK k : Cut(u, k)
  BY <1>1, FittedRow
<1> DEFINE f == Fit(u)
<1>3. Copy(f, GameLines)
  BY <1>1, Fitted
<1>4. f.active = u.active /\ f.scene = u.scene /\ f.rev = u.rev /\ f.failed = u.failed
      /\ f.wait = u.wait /\ DOMAIN f = DOMAIN u
  BY DEF Copy, Fit
<1>5. /\ k \in Nat /\ Len(f.lines) = Len(u.lines) - k /\ f.hidden = u.hidden + k
      /\ \A i \in 1..Len(f.lines) : k + i \in 1..Len(u.lines) /\ f.lines[i] = u.lines[k + i]
  BY <1>2 DEF Cut
<1> HIDE DEF f
<1>a. PICK a \in Nat, b \in Nat, d \in Nat, e \in Nat :
        a = Len(u.lines) /\ b = Len(f.lines) /\ d = u.hidden /\ e = Len(w.lines)
  BY <1>3 DEF Copy
<1>6. Follows(f, w)
  <2>1. e = d + a /\ b = a - k
    BY <1>5, <1>a DEF Follows, EndOf
  <2>2. e = (d + k) + b
    BY <1>5, <2>1
  <2>3. ASSUME NEW i \in 1..b PROVE f.lines[i] = w.lines[(d + k) + i]
    <3>1. k + i \in 1..a /\ f.lines[i] = u.lines[k + i]
      BY <1>5, <1>a
    <3>2. u.lines[k + i] = w.lines[d + (k + i)]
      BY <3>1, <1>a DEF Follows, EndOf
    <3>3. d + (k + i) = (d + k) + i
      BY <1>5
    <3> QED
      BY <3>1, <3>2, <3>3
  <2> QED
    BY <2>2, <2>3, <1>4, <1>5, <1>a DEF Follows, EndOf
<1>7. Unlike(u.lines) => Unlike(f.lines)
  <2>1. Stems(f.lines, u.lines, k)
    BY <1>5 DEF Stems
  <2>2. f.lines \in Seq(GameLines) /\ u.lines \in Seq(GameLines)
    BY <1>3 DEF Copy
  <2> QED
    BY <2>1, <2>2, StemsNumbered
<1>8. u.lines = <<>> => f.lines = <<>>
  <2>1. u.lines = <<>> => Len(f.lines) = 0
    BY <1>5, <1>a
  <2>2. f.lines \in Seq(GameLines)
    BY <1>3 DEF Copy
  <2> QED
    BY <2>1, <2>2
<1> QED
  BY <1>3, <1>4, <1>6, <1>7, <1>8 DEF f, Bare
-----------------------------------------------------------------------------
(* Operations that are merged *)

\* An operation takes the place of an earlier one, as e.
TakesPlace(ops, op, at, e) ==
  /\ at \in DOMAIN ops /\ e \in Works /\ e.tag = ops[at].tag
  /\ op.tag \in {"wait", "replace"}
  /\ op.tag = "wait" => e = op /\ \A j \in DOMAIN ops : ops[j].tag = "wait" <=> j = at
  /\ op.tag = "replace" =>
       /\ Lined(ops[at]) /\ at \in RegionOf(ops)
       /\ e.line = op.line /\ ops[at].line.id = op.line.id
       /\ \A j \in DOMAIN ops : j > at =>
            ops[j].tag \notin Destructive /\ (Lined(ops[j]) => ops[j].line.id # op.line.id)

\* Where operations may be merged.
LEMMA RegionEnds ==
  ASSUME NEW ops \in Seq(Works), NEW i \in RegionOf(ops), NEW j \in DOMAIN ops, j >= i
  PROVE  j \in RegionOf(ops) /\ ops[j].tag \notin Destructive
<1>1. i \in DOMAIN ops /\ \A o \in DOMAIN ops : o >= i => ops[o].tag \notin Destructive
  BY DEF RegionOf
<1>2. \A o \in DOMAIN ops : o >= j => o >= i
  BY <1>1
<1> QED
  BY <1>1, <1>2 DEF RegionOf

\* An operation is one more, or takes the place of one.
LEMMA MergeCases ==
  ASSUME NEW ops \in Seq(Works), Single(ops), NEW op \in Works
  PROVE  \/ Superseded(ops, op) = {} /\ MergeOperation(ops, op) = Append(ops, op)
         \/ \E at, e : TakesPlace(ops, op, at, e) /\ MergeOperation(ops, op) = [ops EXCEPT ![at] = e]
<1> DEFINE same == Superseded(ops, op)  first == {i \in same : ops[i].tag = "append"}
           at == CHOOSE i \in IF first # {} THEN first ELSE same : TRUE
           e == IF first # {} THEN [op EXCEPT !.tag = "append"] ELSE op
<1>1. CASE same = {}
  BY <1>1 DEF MergeOperation
<1>2. CASE same # {}
  <2>1. MergeOperation(ops, op) = [ops EXCEPT ![at] = e]
    BY <1>2 DEF MergeOperation
  <2>2. op.tag \in {"wait", "replace"}
    BY <1>2 DEF Superseded
  <2>3. at \in same /\ (first # {} => at \in first)
    BY <1>2
  <2>4. same \subseteq DOMAIN ops
    BY <2>2 DEF Superseded, RegionOf
  <2>5. CASE op.tag = "wait"
    <3>1. same = {i \in DOMAIN ops : ops[i].tag = "wait"}
      BY <2>5 DEF Superseded
    <3>2. first = {} /\ e = op
      BY <3>1
    <3>3. \A j \in DOMAIN ops : ops[j].tag = "wait" <=> j = at
      BY <2>3, <3>1 DEF Single
    <3>4. at \in DOMAIN ops /\ ops[at].tag = "wait"
      BY <2>3, <3>1
    <3> HIDE DEF at, e, same, first
    <3>5. TakesPlace(ops, op, at, e)
      BY <2>5, <3>2, <3>3, <3>4 DEF TakesPlace
    <3> QED
      BY <2>1, <3>5
  <2>6. CASE op.tag = "replace"
    <3>1. same = {i \in RegionOf(ops) : ops[i].tag \in {"append", "replace"} /\ ops[i].line.id = op.line.id}
      BY <2>6 DEF Superseded
    <3>2. at \in RegionOf(ops) /\ Lined(ops[at]) /\ ops[at].line.id = op.line.id
      BY <2>3, <3>1 DEF Lined
    <3>3. e.tag = ops[at].tag /\ e.line = op.line /\ e \in Works
      <4>1. op.line \in GameLines
        BY <2>6, WorkChanges DEF Lined
      <4>0. op \in [tag : {"append", "replace"}, line : GameLines]
        BY <2>6 DEF Works
      <4>2. CASE first # {}
        <5>1. e = [op EXCEPT !.tag = "append"] /\ ops[at].tag = "append"
          BY <2>3, <4>2
        <5>2. [op EXCEPT !.tag = "append"] \in [tag : {"append", "replace"}, line : GameLines]
          BY <4>0
        <5>3. [op EXCEPT !.tag = "append"].tag = "append" /\ [op EXCEPT !.tag = "append"].line = op.line
          BY <4>0
        <5> HIDE DEF e, at
        <5> QED
          BY <5>1, <5>2, <5>3 DEF Works
      <4>3. CASE first = {}
        <5>1. e = op /\ ops[at].tag # "append"
          BY <2>3, <4>3
        <5> HIDE DEF e, at
        <5> QED
          BY <5>1, <3>2, <2>6 DEF Lined
      <4> QED
        BY <4>2, <4>3
    <3> HIDE DEF at, e, same, first
    <3>4. ASSUME NEW j \in DOMAIN ops, j > at
          PROVE  ops[j].tag \notin Destructive /\ (Lined(ops[j]) => ops[j].line.id # op.line.id)
      <4>1. j >= at /\ j # at
        BY <3>2, <3>4 DEF RegionOf
      <4>2. j \in RegionOf(ops) /\ ops[j].tag \notin Destructive
        BY <3>2, <4>1, RegionEnds
      <4> QED
        BY <3>2, <4>1, <4>2 DEF Single
    <3>5. TakesPlace(ops, op, at, e)
      BY <2>3, <2>4, <2>6, <3>2, <3>3, <3>4 DEF TakesPlace
    <3> QED
      BY <2>1, <3>5
  <2> QED
    BY <2>2, <2>5, <2>6
<1> QED
  BY <1>1, <1>2

\* A replacement changes no number of lines.
LEMMA ReplacedLines ==
  ASSUME NEW s \in Seq(GameLines), NEW x \in GameLines
  PROVE  Replaced(s, x) \in Seq(GameLines) /\ Len(Replaced(s, x)) = Len(s)
<1>1. \A i \in 1..Len(s) : s[i] \in GameLines
  OBVIOUS
<1>2. DOMAIN s = 1..Len(s) /\ Len(s) \in Nat
  OBVIOUS
<1> QED
  BY <1>1, <1>2 DEF Replaced

\* A line that is replaced among some.
LEMMA ReplacedTwice ==
  ASSUME NEW s \in Seq(GameLines), NEW x \in GameLines, NEW y \in GameLines
  PROVE  /\ x.id = y.id => Replaced(Replaced(s, y), x) = Replaced(s, x)
         /\ x.id # y.id => Replaced(Replaced(s, y), x) = Replaced(Replaced(s, x), y)
<1>1. \A z : DOMAIN Replaced(s, z) = DOMAIN s
  BY DEF Replaced
<1>2. \A z \in GameLines : \A i \in DOMAIN s : Replaced(s, z)[i].id = s[i].id
  BY DEF Replaced
<1> QED
  BY <1>1, <1>2 DEF Replaced

\* A replacement before the last line, and of the last line.
LEMMA ReplacedAppend ==
  ASSUME NEW s \in Seq(GameLines), NEW x \in GameLines, NEW y \in GameLines
  PROVE  /\ x.id # y.id => Replaced(Append(s, y), x) = Append(Replaced(s, x), y)
         /\ x.id = y.id /\ Unlike(Append(s, y)) => Replaced(Append(s, y), x) = Append(s, x)
<1>n. PICK n \in Nat : n = Len(s) /\ DOMAIN s = 1..n
  OBVIOUS
<1>y. PICK t \in Seq(GameLines) : t = Append(s, y)
  <2>1. Append(s, y) \in Seq(GameLines)
    OBVIOUS
  <2> QED
    BY <2>1
<1>1. DOMAIN t = 1..(n + 1) /\ t[n + 1] = y /\ \A i \in 1..n : t[i] = s[i] /\ i # n + 1 /\ i \in 1..(n + 1)
  BY <1>n, <1>y
<1>r. PICK r \in Seq(GameLines) : r = Replaced(s, x)
  BY ReplacedLines
<1>2. DOMAIN r = 1..n /\ Len(r) = n
  BY <1>n, <1>r DEF Replaced
<1>q. PICK q \in Seq(GameLines) : q = Replaced(t, x)
  BY ReplacedLines
<1>3. DOMAIN q = 1..(n + 1) /\ Len(q) = n + 1
  BY <1>1, <1>q DEF Replaced
<1>4. ASSUME x.id # y.id PROVE q = Append(r, y)
  <2>1. Append(r, y) \in Seq(GameLines) /\ Len(Append(r, y)) = n + 1 /\ Append(r, y)[n + 1] = y
        /\ \A i \in 1..n : Append(r, y)[i] = r[i]
    BY <1>2
  <2>2. q[n + 1] = y
    BY <1>1, <1>3, <1>q, <1>4 DEF Replaced
  <2>3. \A i \in 1..n : q[i] = r[i]
    BY <1>1, <1>n, <1>q, <1>r DEF Replaced
  <2>4. \A i \in 1..(n + 1) : q[i] = Append(r, y)[i]
    <3>1. \A i \in 1..(n + 1) : i \in 1..n \/ i = n + 1
      OBVIOUS
    <3> QED
      BY <2>1, <2>2, <2>3, <3>1
  <2> QED
    BY <1>3, <2>1, <2>4, SeqEqual
<1>5. ASSUME x.id = y.id, Unlike(t) PROVE q = Append(s, x)
  <2>1. Append(s, x) \in Seq(GameLines) /\ Len(Append(s, x)) = n + 1 /\ Append(s, x)[n + 1] = x
        /\ \A i \in 1..n : Append(s, x)[i] = s[i]
    BY <1>n
  <2>2. q[n + 1] = x
    BY <1>1, <1>3, <1>q, <1>5 DEF Replaced
  <2>3. ASSUME NEW i \in 1..n PROVE q[i] = s[i]
    <3>1. i \in DOMAIN t /\ n + 1 \in DOMAIN t /\ i # n + 1 /\ t[i] = s[i]
      BY <1>1
    <3>2. t[i].id # t[n + 1].id
      BY <3>1, <1>5 DEF Unlike
    <3>3. t[i].id # x.id
      BY <3>2, <1>1, <1>5
    <3> QED
      BY <3>1, <3>3, <1>q DEF Replaced
  <2>4. \A i \in 1..(n + 1) : q[i] = Append(s, x)[i]
    <3>1. \A i \in 1..(n + 1) : i \in 1..n \/ i = n + 1
      OBVIOUS
    <3> QED
      BY <2>1, <2>2, <2>3, <3>1
  <2> QED
    BY <1>3, <2>1, <2>4, SeqEqual
<1> QED
  BY <1>4, <1>5, <1>y, <1>r, <1>q

\* What an operation makes of a copy is a copy of it with other values.
LEMMA SameWork ==
  ASSUME NEW c, NEW d, Copy(c, GameLines), Copy(d, GameLines), NEW o \in Works, NEW p \in Works,
         DOMAIN c = DOMAIN d,
         \A x \in DOMAIN c \ {"lines", "hidden", "wait", "scene", "active", "failed"} : c[x] = d[x],
         Apply(c, o).lines = Apply(d, p).lines, Apply(c, o).hidden = Apply(d, p).hidden,
         Apply(c, o).wait = Apply(d, p).wait, Apply(c, o).scene = Apply(d, p).scene,
         Apply(c, o).active = Apply(d, p).active, Apply(c, o).failed = Apply(d, p).failed
  PROVE  Apply(c, o) = Apply(d, p)
<1>1. \A x : \A w \in Works : Apply(x, w) = [i \in DOMAIN Apply(x, w) |-> Apply(x, w)[i]]
  <2> SUFFICES ASSUME NEW x, NEW w \in Works
               PROVE  Apply(x, w) = [i \in DOMAIN Apply(x, w) |-> Apply(x, w)[i]]
    OBVIOUS
  <2>1. w.tag \in {"append", "delete", "clear", "wait", "replace", "trim", "scene"}
    BY WorkChanges
  <2> QED
    BY <2>1, ZenonT(40) DEF Apply, AppendLine, DeleteTail, ClearHistory, SetInputWait, ReplaceLine, TrimLines, SceneDelta
<1> DEFINE r == Apply(c, o)  s == Apply(d, p)
<1>2. /\ DOMAIN r = DOMAIN c /\ DOMAIN s = DOMAIN c
      /\ \A x \in DOMAIN c \ {"lines", "hidden", "wait", "scene", "active", "failed"} : r[x] = c[x] /\ s[x] = c[x]
  BY WorkChanges, Applied
<1>3. \A x \in DOMAIN c : r[x] = s[x]
  BY <1>2
<1>4. r = [i \in DOMAIN r |-> r[i]] /\ s = [i \in DOMAIN s |-> s[i]]
  BY <1>1
<1> HIDE DEF r, s
<1> QED
  BY <1>2, <1>3, <1>4 DEF r, s

\* Two copies with the same lines have the same after the same operation.
LEMMA SameLines ==
  ASSUME NEW c, NEW d, Copy(c, GameLines), Copy(d, GameLines), NEW op \in Works,
         c.lines = d.lines, c.hidden = d.hidden
  PROVE  Apply(c, op).lines = Apply(d, op).lines /\ Apply(c, op).hidden = Apply(d, op).hidden
<1>t. op.tag \in {"append", "delete", "clear", "wait", "replace", "trim", "scene"}
  BY WorkChanges
<1>d. Copy(d, GameLines) /\ op \in Works
  OBVIOUS
<1>c. PICK a \in Seq(GameLines), g \in Nat : a = c.lines /\ g = c.hidden
  BY DEF Copy
<1>e. a = d.lines /\ g = d.hidden
  BY <1>c
<1> DEFINE r == Apply(c, op)  s == Apply(d, op)
<1>1. CASE op.tag \in {"append", "clear", "wait", "scene"}
  <2>1. CASE op.tag = "append"
    <3>1. r.lines = Append(c.lines, op.line) /\ r.hidden = c.hidden
      BY <2>1, LinesOf, Zenon
    <3>2. s.lines = Append(d.lines, op.line) /\ s.hidden = d.hidden
      BY <2>1, <1>d, LinesOf, Zenon
    <3> QED
      BY <3>1, <3>2, <1>c, <1>e, Zenon
  <2>2. CASE op.tag = "clear"
    <3>1. r.lines = <<>> /\ r.hidden = 0
      BY <2>2, LinesOf
    <3>2. s.lines = <<>> /\ s.hidden = 0
      BY <2>2, <1>d, LinesOf
    <3> QED
      BY <3>1, <3>2
  <2>3. CASE op.tag \in {"wait", "scene"}
    <3>1. r.lines = a /\ r.hidden = g
      BY <2>3, <1>c, LinesOf
    <3>2. s.lines = a /\ s.hidden = g
      BY <2>3, <1>e, <1>d, LinesOf
    <3> QED
      BY <3>1, <3>2
  <2> QED
    BY <1>1, <2>1, <2>2, <2>3
<1>2. CASE op.tag = "delete"
  <2>n. PICK n \in Nat : n = op.count
    BY <1>2, WorkChanges
  <2> DEFINE k == Least(n, Len(a))
  <2>1. r.lines = FirstLines(a, Len(a) - k) /\ r.hidden = IF g < n - k THEN 0 ELSE g - (n - k)
    BY <1>2, <2>n, <1>c, LinesOf
  <2>2. s.lines = FirstLines(a, Len(a) - k) /\ s.hidden = IF g < n - k THEN 0 ELSE g - (n - k)
    BY <1>2, <2>n, <1>e, <1>d, LinesOf
  <2> QED
    BY <2>1, <2>2
<1>3. CASE op.tag = "replace"
  <2>1. r.lines = Replaced(a, op.line) /\ r.hidden = g
    BY <1>3, <1>c, LinesOf DEF Replaced
  <2>2. s.lines = Replaced(a, op.line) /\ s.hidden = g
    BY <1>3, <1>e, <1>d, LinesOf DEF Replaced
  <2> QED
    BY <2>1, <2>2
<1>4. CASE op.tag = "trim"
  <2>n. PICK n \in Nat : n = op.count
    BY <1>4, WorkChanges
  <2> DEFINE h == Least(n, g)
  <2>1. r.lines = DropLines(a, Least(n - h, Len(a))) /\ r.hidden = g - h
    BY <1>4, <2>n, <1>c, LinesOf
  <2>2. s.lines = DropLines(a, Least(n - h, Len(a))) /\ s.hidden = g - h
    BY <1>4, <2>n, <1>e, <1>d, LinesOf
  <2> QED
    BY <2>1, <2>2
<1> QED
  BY <1>t, <1>1, <1>2, <1>3, <1>4

\* An operation that takes the place of one does what both did.
LEMMA PlaceTaken ==
  ASSUME NEW f, Copy(f, GameLines), NEW o \in Works, NEW op \in Works, NEW e \in Works,
         op.tag \in {"wait", "replace"}, e.tag = o.tag,
         op.tag = "wait" => e = op,
         op.tag = "replace" => Lined(o) /\ e.line = op.line /\ o.line.id = op.line.id,
         Unlike(Apply(f, o).lines)
  PROVE  Apply(f, e) = Apply(Apply(f, o), op)
<1> DEFINE g == Apply(f, o)
<1>g. /\ Copy(g, GameLines) /\ DOMAIN g = DOMAIN f
      /\ \A x \in DOMAIN f \ {"lines", "hidden", "wait", "scene", "active", "failed"} : f[x] = g[x]
  BY WorkApplied, WorkChanges, Applied
<1>f. PICK s \in Seq(GameLines) : s = f.lines
  BY DEF Copy
<1>1. CASE op.tag = "wait"
  <2>1. e = op /\ o.tag = "wait"
    BY <1>1
  <2>2. g.lines = f.lines /\ g.hidden = f.hidden
    BY <2>1, LinesOf
  <2>6. Apply(f, e).lines = f.lines /\ Apply(f, e).hidden = f.hidden
    BY <1>1, <2>1, LinesOf
  <2>7. Apply(g, op).lines = g.lines /\ Apply(g, op).hidden = g.hidden
    BY <1>1, <1>g, LinesOf
  <2>3. Apply(f, e).lines = Apply(g, op).lines /\ Apply(f, e).hidden = Apply(g, op).hidden
    BY <2>2, <2>6, <2>7
  <2>4. g.scene = f.scene /\ g.active = f.active /\ g.failed = f.failed
    BY <2>1, RestOf DEF Copy
  <2>5. /\ Apply(f, e).wait = Apply(g, op).wait /\ Apply(f, e).scene = Apply(g, op).scene
        /\ Apply(f, e).active = Apply(g, op).active /\ Apply(f, e).failed = Apply(g, op).failed
    BY <1>1, <1>g, <2>1, <2>4, RestOf
  <2> HIDE DEF g
  <2> QED
    BY <1>g, <2>3, <2>5, SameWork DEF g
<1>2. CASE op.tag = "replace"
  <2>1. Lined(o) /\ e.line = op.line /\ o.line.id = op.line.id /\ e.tag = o.tag
        /\ op.line \in GameLines /\ o.line \in GameLines
    BY <1>2, WorkChanges DEF Lined
  <2>7. o.tag \in {"append", "replace"} /\ e.tag \in {"append", "replace"}
    BY <2>1 DEF Lined
  <2>8. g.hidden = f.hidden
    BY <2>7, LinesOf
  <2>9. Apply(f, e).hidden = f.hidden
    BY <2>7, LinesOf
  <2>10. Apply(g, op).hidden = g.hidden
    BY <1>2, <1>g, LinesOf
  <2>2. Apply(f, e).hidden = Apply(g, op).hidden
    BY <2>8, <2>9, <2>10
  <2>3. Apply(g, op).lines = Replaced(g.lines, op.line)
    BY <1>2, <1>g, LinesOf DEF Replaced
  <2>4. Apply(f, e).lines = Apply(g, op).lines
    <3>1. CASE o.tag = "append"
      <4>4. g.lines = Append(s, o.line)
        BY <3>1, <1>f, LinesOf
      <4>7. e.tag = "append"
        BY <3>1, <2>1
      <4>6. Apply(f, e).lines = Append(f.lines, e.line)
        BY <4>7, LinesOf, Zenon
      <4>5. Apply(f, e).lines = Append(s, op.line)
        BY <4>6, <1>f, <2>1, Zenon
      <4>1. g.lines = Append(s, o.line) /\ Apply(f, e).lines = Append(s, op.line)
        BY <4>4, <4>5
      <4>2. Unlike(Append(s, o.line))
        BY <4>1
      <4>3. Replaced(Append(s, o.line), op.line) = Append(s, op.line)
        BY <2>1, <4>2, ReplacedAppend
      <4> HIDE DEF g
      <4> QED
        BY <4>1, <4>3, <2>3
    <3>2. CASE o.tag = "replace"
      <4>1. g.lines = Replaced(s, o.line) /\ Apply(f, e).lines = Replaced(s, op.line)
        BY <3>2, <1>f, <2>1, LinesOf DEF Replaced
      <4>2. Replaced(Replaced(s, o.line), op.line) = Replaced(s, op.line)
        BY <2>1, ReplacedTwice
      <4> HIDE DEF g
      <4> QED
        BY <4>1, <4>2, <2>3
    <3> QED
      BY <2>1, <3>1, <3>2 DEF Lined
  <2>5. g.scene = f.scene /\ g.active = f.active /\ g.failed = f.failed /\ g.wait = f.wait
    BY <2>1, RestOf DEF Copy, Lined
  <2>6. /\ Apply(f, e).wait = Apply(g, op).wait /\ Apply(f, e).scene = Apply(g, op).scene
        /\ Apply(f, e).active = Apply(g, op).active /\ Apply(f, e).failed = Apply(g, op).failed
    BY <1>2, <1>g, <2>1, <2>5, RestOf DEF Lined
  <2> HIDE DEF g
  <2> QED
    BY <1>g, <2>2, <2>4, <2>6, SameWork DEF g
<1> QED
  BY <1>1, <1>2

\* And what came in between does not notice.
LEMMA PlacePassed ==
  ASSUME NEW f, Copy(f, GameLines), NEW o \in Works, NEW op \in Works,
         op.tag \in {"wait", "replace"},
         op.tag = "wait" => o.tag # "wait",
         op.tag = "replace" => o.tag \notin Destructive /\ (Lined(o) => o.line.id # op.line.id)
  PROVE  Apply(Apply(f, op), o) = Apply(Apply(f, o), op)
<1> DEFINE g == Apply(f, op)  h == Apply(f, o)
<1>g. /\ Copy(g, GameLines) /\ DOMAIN g = DOMAIN f
      /\ \A x \in DOMAIN f \ {"lines", "hidden", "wait", "scene", "active", "failed"} : g[x] = f[x]
  BY WorkApplied, WorkChanges, Applied
<1>h. /\ Copy(h, GameLines) /\ DOMAIN h = DOMAIN f
      /\ \A x \in DOMAIN f \ {"lines", "hidden", "wait", "scene", "active", "failed"} : h[x] = f[x]
  BY WorkApplied, WorkChanges, Applied
<1>f. PICK s \in Seq(GameLines) : s = f.lines
  BY DEF Copy
<1>x. /\ g.active = f.active /\ g.failed = f.failed /\ g.scene = f.scene
      /\ g.wait = IF op.tag = "wait" THEN op.wait ELSE f.wait
  BY RestOf DEF Copy
<1>y. /\ h.wait = IF o.tag = "wait" THEN o.wait ELSE f.wait
  BY RestOf
<1>1. /\ Apply(g, o).scene = Apply(h, op).scene
      /\ Apply(g, o).active = Apply(h, op).active /\ Apply(g, o).failed = Apply(h, op).failed
  <2>1. /\ Apply(g, o).active = (g.active /\ o.tag # "clear")
        /\ Apply(g, o).scene = IF o.tag = "scene" /\ o.base = g.scene THEN o.next ELSE g.scene
        /\ Apply(g, o).failed = (g.failed \/ (o.tag = "scene" /\ o.base # g.scene))
    BY <1>g, RestOf
  <2>2. /\ h.active = (f.active /\ o.tag # "clear")
        /\ h.scene = IF o.tag = "scene" /\ o.base = f.scene THEN o.next ELSE f.scene
        /\ h.failed = (f.failed \/ (o.tag = "scene" /\ o.base # f.scene))
    BY RestOf
  <2>3. Apply(h, op).scene = h.scene /\ Apply(h, op).active = h.active /\ Apply(h, op).failed = h.failed
    BY <1>h, RestOf DEF Copy
  <2> HIDE DEF g, h
  <2> QED
    BY <2>1, <2>2, <2>3, <1>x
<1>2. Apply(g, o).wait = Apply(h, op).wait
  <2>1. Apply(g, o).wait = IF o.tag = "wait" THEN o.wait ELSE g.wait
    BY <1>g, RestOf
  <2>2. Apply(h, op).wait = IF op.tag = "wait" THEN op.wait ELSE h.wait
    BY <1>h, RestOf
  <2> HIDE DEF g, h
  <2> QED
    BY <2>1, <2>2, <1>x, <1>y
<1>3. Apply(g, o).lines = Apply(h, op).lines /\ Apply(g, o).hidden = Apply(h, op).hidden
  <2>1. CASE op.tag = "wait"
    <3>1. g.lines = f.lines /\ g.hidden = f.hidden
      BY <2>1, LinesOf
    <3>2. Apply(h, op).lines = h.lines /\ Apply(h, op).hidden = h.hidden
      BY <2>1, <1>h, LinesOf
    <3>3. Apply(g, o).lines = Apply(f, o).lines /\ Apply(g, o).hidden = Apply(f, o).hidden
      <4> HIDE DEF g, h
      <4> QED
        BY <3>1, <1>g, SameLines
    <3> QED
      BY <3>2, <3>3
  <2>2. CASE op.tag = "replace"
    <3>1. /\ g.lines = Replaced(s, op.line) /\ g.hidden = f.hidden
          /\ Apply(h, op).lines = Replaced(h.lines, op.line) /\ Apply(h, op).hidden = h.hidden
      BY <2>2, <1>f, <1>h, LinesOf DEF Replaced
    <3>2. op.line \in GameLines
      BY <2>2, WorkChanges DEF Lined
    <3>3. CASE o.tag \in {"wait", "scene"}
      BY <3>1, <3>3, <1>f, <1>g, LinesOf, ZenonT(40)
    <3>4. CASE o.tag = "append"
      <4>1. o.line \in GameLines /\ o.line.id # op.line.id
        BY <2>2, <3>4, WorkChanges DEF Lined
      <4>2. Replaced(Append(s, o.line), op.line) = Append(Replaced(s, op.line), o.line)
        BY <3>2, <4>1, ReplacedAppend
      <4>3. /\ h.lines = Append(s, o.line) /\ h.hidden = f.hidden
            /\ Apply(g, o).lines = Append(g.lines, o.line) /\ Apply(g, o).hidden = g.hidden
        BY <3>4, <1>f, <1>g, LinesOf
      <4> HIDE DEF g, h
      <4> QED
        BY <3>1, <4>2, <4>3
    <3>5. CASE o.tag = "replace"
      <4>1. o.line \in GameLines /\ o.line.id # op.line.id
        BY <2>2, <3>5, WorkChanges DEF Lined
      <4>2. Replaced(Replaced(s, o.line), op.line) = Replaced(Replaced(s, op.line), o.line)
        BY <3>2, <4>1, ReplacedTwice
      <4>3. /\ h.lines = Replaced(s, o.line) /\ h.hidden = f.hidden
            /\ Apply(g, o).lines = Replaced(g.lines, o.line) /\ Apply(g, o).hidden = g.hidden
        BY <3>5, <1>f, <1>g, LinesOf DEF Replaced
      <4> HIDE DEF g, h
      <4> QED
        BY <3>1, <4>2, <4>3
    <3> QED
      BY <2>2, <3>3, <3>4, <3>5, WorkChanges DEF Destructive
  <2> QED
    BY <2>1, <2>2
<1> HIDE DEF g, h
<1> QED
  BY <1>g, <1>h, <1>1, <1>2, <1>3, SameWork DEF g, h

\* The numbers of the lines of some operations are below one.
Below(ops, k) == \A i \in DOMAIN ops : Lined(ops[i]) => ops[i].line.id < k

\* The operations m are ops with e at a place, as if op came at their end.
Retaken(c, ops, op, at, e, m) ==
  /\ m \in Seq(Works) /\ Len(m) = Len(ops)
  /\ \A i \in DOMAIN ops : m[i] = IF i = at THEN e ELSE ops[i]
  /\ \A i \in 0..Len(ops) :
       After(c, m, i) = IF i < at THEN After(c, ops, i) ELSE Apply(After(c, ops, i), op)

\* The operations around the one whose place is taken.
LEMMA PlaceRuns ==
  ASSUME NEW c, NEW ops \in Seq(Works), Sound(c, ops), NEW op \in Works, NEW at, NEW e,
         TakesPlace(ops, op, at, e), NEW m, m = [ops EXCEPT ![at] = e]
  PROVE  Retaken(c, ops, op, at, e, m)
<1>a. /\ at \in DOMAIN ops /\ e \in Works /\ e.tag = ops[at].tag /\ op.tag \in {"wait", "replace"}
      /\ op.tag = "wait" => e = op /\ \A j \in DOMAIN ops : ops[j].tag = "wait" <=> j = at
      /\ op.tag = "replace" =>
           /\ Lined(ops[at]) /\ e.line = op.line /\ ops[at].line.id = op.line.id
           /\ \A j \in DOMAIN ops : j > at =>
                ops[j].tag \notin Destructive /\ (Lined(ops[j]) => ops[j].line.id # op.line.id)
  BY DEF TakesPlace
<1>n. PICK n \in Nat : n = Len(ops) /\ DOMAIN ops = 1..n
  OBVIOUS
<1>1. m \in Seq(Works) /\ Len(m) = n /\ \A i \in 1..n : m[i] = IF i = at THEN e ELSE ops[i]
  BY <1>a, <1>n
<1>2. at \in 1..n /\ at \in Nat /\ at # 0
  BY <1>a, <1>n
<1>s. ASSUME NEW i \in 0..n
      PROVE  Copy(After(c, ops, i), GameLines) /\ ~After(c, ops, i).failed /\ Unlike(After(c, ops, i).lines)
  BY <1>n DEF Sound
<1>o. ASSUME NEW i \in 0..(n - 1)
      PROVE  /\ Accepts(After(c, ops, i), ops[i + 1])
             /\ After(c, ops, i + 1) = Apply(After(c, ops, i), ops[i + 1])
  <2>1. i + 1 \in 0..n /\ i + 1 > 0 /\ (i + 1) - 1 = i /\ i \in Nat /\ i < n /\ i \in 0..n
    OBVIOUS
  <2>2. Accepts(After(c, ops, i), ops[i + 1])
    <3>1. i + 1 > 0 => Accepts(After(c, ops, (i + 1) - 1), ops[i + 1])
      BY <2>1, <1>n DEF Sound
    <3> QED
      BY <3>1, <2>1
  <2>3. After(c, ops, i + 1) = ApplyOperation(After(c, ops, i), ops[i + 1])
    BY <2>1, <1>n, AfterMore
  <2> QED
    BY <2>1, <2>2, <2>3, <1>s DEF ApplyOperation
<1> DEFINE T == {i \in Nat : After(c, m, i) = IF i < at THEN After(c, ops, i) ELSE Apply(After(c, ops, i), op)}
<1>3. 0 \in T
  <2>1. After(c, m, 0) = c /\ After(c, ops, 0) = c
    BY <1>1, AfterNone
  <2> QED
    BY <2>1, <1>2
<1>4. ASSUME NEW i \in 0..(n - 1), i \in T PROVE i + 1 \in T
  <2> DEFINE f == After(c, ops, i)  o == ops[i + 1]
  <2>i. i \in Nat /\ i + 1 \in 1..n /\ i < n /\ i \in 0..n /\ i + 1 \in Nat /\ i + 1 \in 0..n
    OBVIOUS
  <2>1. Copy(f, GameLines) /\ ~f.failed /\ Accepts(f, o) /\ After(c, ops, i + 1) = Apply(f, o) /\ o \in Works
        /\ Unlike(Apply(f, o).lines)
    <3>1. Unlike(After(c, ops, i + 1).lines)
      BY <2>i, <1>s
    <3>2. o \in Works
      BY <2>i, <1>n
    <3> QED
      BY <3>1, <3>2, <2>i, <1>s, <1>o
  <2>2. After(c, m, i + 1) = ApplyOperation(After(c, m, i), m[i + 1])
    BY <2>i, <1>1, AfterMore
  <2>3. m[i + 1] = IF i + 1 = at THEN e ELSE o
    BY <2>i, <1>1
  <2> HIDE DEF f, o
  <2>4. CASE i + 1 < at
    <3>1. After(c, m, i) = f /\ m[i + 1] = o
      BY <2>4, <2>i, <2>3, <1>2, <1>4 DEF f
    <3>2. After(c, m, i + 1) = Apply(f, o)
      BY <2>1, <2>2, <3>1 DEF ApplyOperation
    <3> QED
      BY <3>2, <2>1, <2>4, <2>i
  <2>5. CASE i + 1 = at
    <3>1. After(c, m, i) = f /\ m[i + 1] = e /\ o = ops[at] /\ e.tag = o.tag
      BY <2>5, <2>i, <2>3, <1>2, <1>4, <1>a DEF f, o
    <3>2. Accepts(f, e)
      BY <2>1, <3>1 DEF Accepts
    <3>3. After(c, m, i + 1) = Apply(f, e)
      BY <2>1, <2>2, <3>1, <3>2 DEF ApplyOperation
    <3>4. Apply(f, e) = Apply(Apply(f, o), op)
      BY <2>1, <3>1, <1>a, PlaceTaken
    <3> QED
      BY <3>3, <3>4, <2>1, <2>5, <2>i
  <2>6. CASE i + 1 > at
    <3>1. After(c, m, i) = Apply(f, op) /\ m[i + 1] = o /\ i + 1 # at
      BY <2>6, <2>i, <2>3, <1>2, <1>4 DEF f
    <3>2. Apply(f, op).active = f.active /\ Apply(f, op).failed = f.failed
      BY <2>1, <1>a, RestOf DEF Copy
    <3>3. Accepts(Apply(f, op), o) /\ ~Apply(f, op).failed
      BY <3>2, <2>1 DEF Accepts
    <3>4. After(c, m, i + 1) = Apply(Apply(f, op), o)
      BY <2>2, <3>1, <3>3 DEF ApplyOperation
    <3>5. /\ op.tag = "wait" => o.tag # "wait"
          /\ op.tag = "replace" => o.tag \notin Destructive /\ (Lined(o) => o.line.id # op.line.id)
      BY <2>6, <2>i, <3>1, <1>a, <1>n DEF o
    <3>6. Apply(Apply(f, op), o) = Apply(Apply(f, o), op)
      BY <2>1, <3>5, <1>a, PlacePassed
    <3> QED
      BY <3>4, <3>6, <2>1, <2>6, <2>i, <1>2
  <2> QED
    BY <2>4, <2>5, <2>6, <2>i, <1>2
<1>5. 0..n \subseteq T
  <2> HIDE DEF T
  <2> QED
    BY <1>3, <1>4, UpTo
<1> QED
  BY <1>1, <1>5, <1>n DEF Retaken

\* Merged as it was, what could be merged is.
LEMMA PlaceSingle ==
  ASSUME NEW ops \in Seq(Works), Single(ops), NEW m \in Seq(Works), Len(m) = Len(ops),
         \A i \in DOMAIN ops : m[i].tag = ops[i].tag /\ (Lined(ops[i]) => m[i].line.id = ops[i].line.id)
  PROVE  Single(m) /\ \A k : Below(ops, k) => Below(m, k)
<1>1. DOMAIN m = DOMAIN ops
  OBVIOUS
<1>2. \A i \in DOMAIN ops : Lined(m[i]) <=> Lined(ops[i])
  BY DEF Lined
<1>3. RegionOf(m) = RegionOf(ops)
  BY <1>1 DEF RegionOf
<1>4. RegionOf(ops) \subseteq DOMAIN ops
  BY DEF RegionOf
<1>5. \A i, j \in DOMAIN m : m[i].tag = "wait" /\ m[j].tag = "wait" => i = j
  BY <1>1 DEF Single
<1>6. \A i, j \in RegionOf(m) : Lined(m[i]) /\ Lined(m[j]) /\ m[i].line.id = m[j].line.id => i = j
  BY <1>2, <1>3, <1>4 DEF Single
<1> QED
  BY <1>1, <1>2, <1>5, <1>6 DEF Single, Below

\* An operation more among those that wait.
LEMMA OneMore ==
  ASSUME NEW c, NEW ops \in Seq(Works), Sound(c, ops), Single(ops), NEW op \in Works,
         Accepts(ApplyAll(c, ops), op), ~Apply(ApplyAll(c, ops), op).failed,
         op.tag = "append" =>
           /\ \A i \in DOMAIN ApplyAll(c, ops).lines : ApplyAll(c, ops).lines[i].id # op.line.id
           /\ \A i \in DOMAIN ops : Lined(ops[i]) => ops[i].line.id # op.line.id,
         Superseded(ops, op) = {}, NEW m, m = Append(ops, op)
  PROVE  /\ m \in Seq(Works) /\ Sound(c, m) /\ Single(m) /\ ApplyAll(c, m) = Apply(ApplyAll(c, ops), op)
         /\ \A k : Below(ops, k) /\ (Lined(op) => op.line.id < k) => Below(m, k)
<1>n. PICK n \in Nat : n = Len(ops) /\ DOMAIN ops = 1..n
  OBVIOUS
<1>1. /\ m \in Seq(Works) /\ Len(m) = n + 1 /\ DOMAIN m = 1..(n + 1) /\ m[n + 1] = op
      /\ \A i \in 1..n : m[i] = ops[i]
  BY <1>n
<1>i. \A i \in 1..(n + 1) : i \in 1..n \/ i = n + 1
  OBVIOUS
<1>u. After(c, ops, n) = ApplyAll(c, ops)
  BY <1>n, AfterAll
<1>2. \A i \in 0..n : After(c, m, i) = After(c, ops, i)
  <2> SUFFICES ASSUME NEW i \in 0..n PROVE After(c, m, i) = After(c, ops, i)
    OBVIOUS
  <2>1. i \in Nat /\ i <= Len(ops) /\ i <= Len(m) /\ \A j \in 1..i : m[j] = ops[j]
    BY <1>n, <1>1
  <2> QED
    BY <2>1, <1>1, FirstAlike DEF After
<1>3. n \in 0..n
  OBVIOUS
<1>c. Copy(ApplyAll(c, ops), GameLines) /\ ~ApplyAll(c, ops).failed /\ Unlike(ApplyAll(c, ops).lines)
  BY <1>3, <1>n, <1>u DEF Sound
<1>4. After(c, m, n + 1) = Apply(ApplyAll(c, ops), op) /\ ApplyAll(c, m) = Apply(ApplyAll(c, ops), op)
  <2>1. ApplyAll(c, m) = ApplyOperation(ApplyAll(c, ops), op)
    BY ApplyMore
  <2>2. ApplyAll(c, m) = Apply(ApplyAll(c, ops), op)
    BY <2>1, <1>c DEF ApplyOperation
  <2>3. After(c, m, n + 1) = ApplyAll(c, m)
    BY <1>1, AfterAll
  <2> QED
    BY <2>2, <2>3
<1>5. Sound(c, m)
  <2> SUFFICES ASSUME NEW i \in 0..(n + 1)
               PROVE  /\ Copy(After(c, m, i), GameLines) /\ ~After(c, m, i).failed
                      /\ Unlike(After(c, m, i).lines)
                      /\ i > 0 => Accepts(After(c, m, i - 1), m[i])
    BY <1>1 DEF Sound
  <2>1. CASE i \in 0..n
    <3>1. i > 0 => i - 1 \in 0..n /\ i \in 1..n
      BY <2>1
    <3> QED
      BY <2>1, <3>1, <1>n, <1>1, <1>2 DEF Sound
  <2>2. CASE i = n + 1
    <3>1. i - 1 = n
      BY <2>2
    <3>2. Copy(Apply(ApplyAll(c, ops), op), GameLines)
      BY <1>c, WorkApplied
    <3>3. Unlike(Apply(ApplyAll(c, ops), op).lines)
      BY <1>c, WorkNumbered
    <3>4. Accepts(After(c, m, n), m[n + 1])
      BY <1>1, <1>2, <1>3, <1>u
    <3> QED
      BY <2>2, <3>1, <3>2, <3>3, <3>4, <1>4
  <2>3. i \in 0..n \/ i = n + 1
    OBVIOUS
  <2> QED
    BY <2>1, <2>2, <2>3
<1>6. Single(m)
  <2>1. ASSUME NEW i \in DOMAIN m, NEW j \in DOMAIN m, m[i].tag = "wait", m[j].tag = "wait" PROVE i = j
    <3>1. op.tag = "wait" => \A o \in 1..n : ops[o].tag # "wait"
      BY <1>n DEF Superseded
    <3>2. CASE i \in 1..n /\ j \in 1..n
      BY <2>1, <3>2, <1>1, <1>n DEF Single
    <3>3. CASE i = n + 1 /\ j = n + 1
      BY <3>3
    <3>4. CASE i = n + 1 /\ j \in 1..n
      BY <2>1, <3>1, <3>4, <1>1
    <3>5. CASE i \in 1..n /\ j = n + 1
      BY <2>1, <3>1, <3>5, <1>1
    <3> QED
      BY <3>2, <3>3, <3>4, <3>5, <1>1, <1>i
  <2>r. \A i \in 1..n : i \in RegionOf(m) => i \in RegionOf(ops)
    <3> SUFFICES ASSUME NEW i \in 1..n, i \in RegionOf(m) PROVE i \in RegionOf(ops)
      OBVIOUS
    <3>1. \A j \in 1..n : j >= i => ops[j].tag \notin Destructive
      <4>1. \A j \in DOMAIN m : j >= i => m[j].tag \notin Destructive
        BY DEF RegionOf
      <4>2. \A j \in 1..n : j \in DOMAIN m /\ m[j] = ops[j]
        BY <1>1
      <4> QED
        BY <4>1, <4>2
    <3> QED
      BY <3>1, <1>n DEF RegionOf
  <2>o. Lined(op) => \A i \in RegionOf(ops) : Lined(ops[i]) => ops[i].line.id # op.line.id
    <3>1. CASE op.tag = "append"
      BY <3>1 DEF RegionOf
    <3>2. CASE op.tag = "replace"
      BY <3>2 DEF Superseded, Lined
    <3> QED
      BY <3>1, <3>2 DEF Lined
  <2>2. ASSUME NEW i \in RegionOf(m), NEW j \in RegionOf(m), Lined(m[i]), Lined(m[j]), m[i].line.id = m[j].line.id
        PROVE  i = j
    <3>0. i \in DOMAIN m /\ j \in DOMAIN m
      BY DEF RegionOf
    <3>1. CASE i \in 1..n /\ j \in 1..n
      BY <2>2, <2>r, <3>1, <1>1 DEF Single
    <3>2. CASE i = n + 1 /\ j = n + 1
      BY <3>2
    <3>3. CASE i = n + 1 /\ j \in 1..n
      BY <2>2, <2>o, <2>r, <3>3, <1>1
    <3>4. CASE i \in 1..n /\ j = n + 1
      BY <2>2, <2>o, <2>r, <3>4, <1>1
    <3> QED
      BY <3>0, <3>1, <3>2, <3>3, <3>4, <1>1, <1>i
  <2> QED
    BY <2>1, <2>2 DEF Single
<1>7. ASSUME NEW k, Below(ops, k), Lined(op) => op.line.id < k PROVE Below(m, k)
  BY <1>7, <1>1, <1>i, <1>n DEF Below
<1> QED
  BY <1>1, <1>4, <1>5, <1>6, <1>7

\* What is merged does what it did, one after another.
LEMMA MergeStep ==
  ASSUME NEW c, NEW ops \in Seq(Works), Sound(c, ops), Single(ops), NEW op \in Works,
         Accepts(ApplyAll(c, ops), op), ~Apply(ApplyAll(c, ops), op).failed,
         op.tag = "append" =>
           /\ \A i \in DOMAIN ApplyAll(c, ops).lines : ApplyAll(c, ops).lines[i].id # op.line.id
           /\ \A i \in DOMAIN ops : Lined(ops[i]) => ops[i].line.id # op.line.id,
         NEW m, m = MergeOperation(ops, op)
  PROVE  /\ m \in Seq(Works) /\ Sound(c, m) /\ Single(m) /\ ApplyAll(c, m) = Apply(ApplyAll(c, ops), op)
         /\ \A k : Below(ops, k) /\ (Lined(op) => op.line.id < k) => Below(m, k)
<1>1. CASE Superseded(ops, op) = {} /\ m = Append(ops, op)
  BY <1>1, OneMore
<1>2. ASSUME NEW at, NEW e, TakesPlace(ops, op, at, e), m = [ops EXCEPT ![at] = e]
      PROVE  /\ m \in Seq(Works) /\ Sound(c, m) /\ Single(m) /\ ApplyAll(c, m) = Apply(ApplyAll(c, ops), op)
             /\ \A k : Below(ops, k) /\ (Lined(op) => op.line.id < k) => Below(m, k)
  <2>n. PICK n \in Nat : n = Len(ops) /\ DOMAIN ops = 1..n
    OBVIOUS
  <2>r. Retaken(c, ops, op, at, e, m)
    BY <1>2, PlaceRuns
  <2>1. /\ m \in Seq(Works) /\ Len(m) = n
        /\ \A i \in 1..n : m[i] = IF i = at THEN e ELSE ops[i]
        /\ \A i \in 0..n : After(c, m, i) = IF i < at THEN After(c, ops, i) ELSE Apply(After(c, ops, i), op)
    BY <2>r, <2>n DEF Retaken
  <2>a. at \in 1..n /\ e.tag = ops[at].tag /\ op.tag \in {"wait", "replace"}
        /\ (Lined(ops[at]) => e.line.id = ops[at].line.id)
    BY <1>2, <2>n DEF TakesPlace, Lined
  <2>2. \A i \in 1..n : m[i].tag = ops[i].tag /\ (Lined(ops[i]) => m[i].line.id = ops[i].line.id)
    BY <2>1, <2>a
  <2>3. Single(m) /\ \A k : Below(ops, k) => Below(m, k)
    BY <2>1, <2>2, <2>n, PlaceSingle
  <2>4. Sound(c, m)
    <3>s. ASSUME NEW i \in 0..n
          PROVE  /\ Copy(After(c, m, i), GameLines) /\ ~After(c, m, i).failed /\ Unlike(After(c, m, i).lines)
                 /\ After(c, m, i).active = After(c, ops, i).active
      <4> DEFINE f == After(c, ops, i)
      <4>1. Copy(f, GameLines) /\ ~f.failed /\ Unlike(f.lines)
        BY <2>n DEF Sound
      <4> HIDE DEF f
      <4>2. After(c, m, i) = f \/ After(c, m, i) = Apply(f, op)
        BY <2>1 DEF f
      <4>3. Copy(Apply(f, op), GameLines)
        BY <4>1, WorkApplied
      <4>4. Unlike(Apply(f, op).lines)
        BY <4>1, <2>a, WorkNumbered
      <4>5. Apply(f, op).active = f.active /\ Apply(f, op).failed = f.failed
        BY <4>1, <2>a, RestOf DEF Copy
      <4> QED
        BY <4>1, <4>2, <4>3, <4>4, <4>5 DEF f
    <3>a. ASSUME NEW i \in 0..n, i > 0 PROVE Accepts(After(c, m, i - 1), m[i])
      <4>1. i - 1 \in 0..n /\ i \in 1..n
        BY <3>a
      <4>2. Accepts(After(c, ops, i - 1), ops[i])
        BY <3>a, <2>n DEF Sound
      <4> QED
        BY <4>1, <4>2, <3>s, <2>2 DEF Accepts
    <3> QED
      BY <3>s, <3>a, <2>1 DEF Sound
  <2>5. ApplyAll(c, m) = Apply(ApplyAll(c, ops), op)
    <3>1. After(c, m, n) = ApplyAll(c, m) /\ After(c, ops, n) = ApplyAll(c, ops)
      BY <2>1, <2>n, AfterAll
    <3>2. n \in 0..n /\ ~(n < at)
      BY <2>a
    <3> QED
      BY <3>1, <3>2, <2>1
  <2> QED
    BY <2>1, <2>3, <2>4, <2>5
<1> QED
  BY <1>1, <1>2, MergeCases
-----------------------------------------------------------------------------
(* What an event makes of a copy *)

\* A copy with another revision or without a failure.
LEMMA CopyRevised ==
  ASSUME NEW c, Copy(c, GameLines), NEW n \in Nat
  PROVE  LET r == [c EXCEPT !.rev = n]  s == [c EXCEPT !.failed = FALSE] IN
         /\ Copy(r, GameLines) /\ Copy(s, GameLines) /\ r.rev = n
         /\ \A f \in {"lines", "hidden", "wait", "scene", "active", "failed"} : r[f] = c[f]
         /\ \A f \in {"lines", "hidden", "wait", "scene", "active", "rev"} : s[f] = c[f]
         /\ (Bare(c) => Bare(r) /\ Bare(s))
BY DEF Copy, Bare

\* Operations leave a copy a copy, and a game that was left without its lines.
LEMMA OpsBare ==
  ASSUME NEW c, Copy(c, GameLines), Bare(c), NEW ops \in Seq(Works)
  PROVE  LET r == ApplyAll(c, ops) IN Copy(r, GameLines) /\ Bare(r) /\ (r.active => c.active)
<1>n. PICK n \in Nat : n = Len(ops)
  OBVIOUS
<1> DEFINE T == {i \in Nat : /\ Copy(After(c, ops, i), GameLines) /\ Bare(After(c, ops, i))
                             /\ After(c, ops, i).active => c.active}
<1>1. 0 \in T
  <2>1. After(c, ops, 0) = c
    BY AfterNone
  <2> QED
    BY <2>1
<1>2. ASSUME NEW i \in 0..(n - 1), i \in T PROVE i + 1 \in T
  <2> DEFINE f == After(c, ops, i)
  <2>1. i \in Nat /\ i < Len(ops) /\ i + 1 \in Nat /\ ops[i + 1] \in Works
    BY <1>n
  <2>2. After(c, ops, i + 1) = ApplyOperation(f, ops[i + 1])
    BY <2>1, AfterMore
  <2>3. Copy(f, GameLines) /\ Bare(f) /\ (f.active => c.active)
    BY <1>2
  <2> HIDE DEF f
  <2>4. /\ Copy(ApplyOperation(f, ops[i + 1]), GameLines) /\ Bare(ApplyOperation(f, ops[i + 1]))
        /\ ApplyOperation(f, ops[i + 1]).active => f.active
    BY <2>1, <2>3, WorkApplied, StaysBare
  <2> QED
    BY <2>1, <2>2, <2>3, <2>4
<1>3. 0..n \subseteq T
  <2> HIDE DEF T
  <2> QED
    BY <1>1, <1>2, UpTo
<1>4. n \in T /\ After(c, ops, n) = ApplyAll(c, ops)
  BY <1>3, <1>n, AfterAll
<1> QED
  BY <1>4

\* What a copy is made of that is fitted.
LEMMA FitsBare ==
  ASSUME NEW c, Copy(c, GameLines), Bare(c)
  PROVE  /\ Copy(Fit(c), GameLines) /\ Bare(Fit(c)) /\ Fit(c).active = c.active
         /\ Fit(c).rev = c.rev
<1>1. Limit \in Nat
  BY PresentationAssumption
<1>2. PICK k : Cut(c, k)
  BY <1>1, FittedRow
<1> DEFINE f == Fit(c)
<1>3. Copy(f, GameLines)
  BY <1>1, Fitted
<1>4. f.active = c.active /\ f.wait = c.wait /\ f.rev = c.rev
  BY DEF Copy, Fit
<1>5. c.lines = <<>> => f.lines = <<>>
  <2>1. k \in Nat /\ Len(f.lines) = Len(c.lines) - k /\ f.lines \in Seq(GameLines)
    BY <1>2, <1>3 DEF Cut, Copy
  <2> QED
    BY <2>1
<1> QED
  BY <1>3, <1>4, <1>5 DEF Bare

\* A surface of its own, before it is fitted.
Fresh(s) == [EmptyCopy(s.rev, s.scene, FALSE) EXCEPT !.lines = s.lines, !.wait = s.wait]

\* What a snapshot makes of a copy, before and after it is fitted.
LEMMA FreshCopy ==
  ASSUME NEW s, s.rev \in Nat, s.lines \in Seq(GameLines), s.wait \in Nat, s.scene \in Nat
  PROVE  /\ Copy(Fresh(s), GameLines) /\ Bare(Fresh(s)) /\ Fresh(s).lines = s.lines
         /\ Fresh(s).hidden = 0 /\ Fresh(s).wait = s.wait /\ Fresh(s).rev = s.rev
         /\ Fresh(s).scene = s.scene /\ Fresh(s).active = FALSE /\ Fresh(s).failed = FALSE
         /\ \A c : AppSnapshot(c, s) = Fit(Fresh(s))
<1>1. s.rev \in Nat /\ s.lines \in Seq(GameLines) /\ s.wait \in Nat /\ s.scene \in Nat
  OBVIOUS
<1>2. /\ DOMAIN Fresh(s) = {"rev", "lines", "hidden", "wait", "scene", "active", "failed"}
      /\ Fresh(s).lines = s.lines /\ Fresh(s).hidden = 0 /\ Fresh(s).wait = s.wait /\ Fresh(s).rev = s.rev
      /\ Fresh(s).scene = s.scene /\ Fresh(s).active = FALSE /\ Fresh(s).failed = FALSE
  BY DEF Fresh, EmptyCopy
<1>3. \A c : AppSnapshot(c, s) = Fit(Fresh(s))
  BY DEF AppSnapshot, Fresh
<1>4. Copy(Fresh(s), GameLines)
  <2> DEFINE f == Fresh(s)
  <2>1. {"rev", "lines", "hidden", "wait", "scene", "active", "failed"} \subseteq DOMAIN f
    BY <1>2
  <2>2. f.active \in BOOLEAN /\ f.failed \in BOOLEAN
    BY <1>2
  <2>3. f.lines \in Seq(GameLines) /\ f.rev \in Nat /\ f.hidden \in Nat /\ f.wait \in Nat /\ f.scene \in Nat
    BY <1>1, <1>2
  <2> HIDE DEF f
  <2>4. Copy(f, GameLines)
    BY <2>1, <2>2, <2>3 DEF Copy
  <2> QED
    BY <2>4 DEF f
<1> QED
  BY <1>2, <1>3, <1>4 DEF Bare

\* A delta the app applies.
LEMMA DeltaBare ==
  ASSUME NEW c, Copy(c, GameLines), Bare(c), NEW d \in Deltas
  PROVE  Copy(AppDelta(c, d), GameLines) /\ Bare(AppDelta(c, d)) /\ (AppDelta(c, d).active => c.active)
<1> DEFINE new == ApplyAll(c, d.ops)
<1>1. d.ops \in Seq(Works) /\ d.to \in Nat
  BY DEF Deltas
<1>2. Copy(new, GameLines) /\ Bare(new) /\ (new.active => c.active)
  BY <1>1, OpsBare
<1>3. AppDelta(c, d) = IF d.from # c.rev THEN c
                       ELSE IF new.failed THEN [new EXCEPT !.failed = FALSE]
                       ELSE [Fit(new) EXCEPT !.rev = d.to]
  BY DEF AppDelta
<1> HIDE DEF new
<1>4. Copy(Fit(new), GameLines) /\ Bare(Fit(new)) /\ Fit(new).active = new.active
  BY <1>2, FitsBare
<1>5. /\ Copy([new EXCEPT !.failed = FALSE], GameLines) /\ Bare([new EXCEPT !.failed = FALSE])
      /\ [new EXCEPT !.failed = FALSE].active = new.active
  BY <1>2, CopyRevised
<1>6. /\ Copy([Fit(new) EXCEPT !.rev = d.to], GameLines) /\ Bare([Fit(new) EXCEPT !.rev = d.to])
      /\ [Fit(new) EXCEPT !.rev = d.to].active = Fit(new).active
  BY <1>1, <1>4, CopyRevised
<1> QED
  BY <1>2, <1>3, <1>4, <1>5, <1>6

\* What an event leaves of a copy that is bare.
LEMMA EventBare ==
  ASSUME NEW c, Copy(c, GameLines), Bare(c), NEW e \in Messages
  PROVE  LET r == CopyAfter(c, e) IN
         /\ Copy(r, GameLines) /\ Bare(r)
         /\ e.kind = "reset" => r = EmptyCopy(e.rev, 0, TRUE)
         /\ e.kind # "reset" /\ r.active => c.active
<1>1. CASE e \in [kind : {"reset"}, rev : Nat]
  <2>1. CopyAfter(c, e) = EmptyCopy(e.rev, 0, TRUE) /\ e.rev \in Nat /\ e.kind = "reset"
    BY <1>1 DEF CopyAfter
  <2>2. <<>> \in Seq(GameLines)
    OBVIOUS
  <2> QED
    BY <2>1, <2>2 DEF Copy, Bare, EmptyCopy, NoWait
<1>2. CASE e \in [kind : {"batch"}, snapshot : Seq(Snapshots), delta : Seq(Deltas), wait : Nat, render : BOOLEAN]
  <2> DEFINE first == IF e.snapshot # <<>> THEN AppSnapshot(c, e.snapshot[1]) ELSE c
  <2>1. e.kind = "batch" /\ e.snapshot \in Seq(Snapshots) /\ e.delta \in Seq(Deltas)
    BY <1>2
  <2>2. CopyAfter(c, e) = IF e.delta # <<>> THEN AppDelta(first, e.delta[1]) ELSE first
    BY <2>1 DEF CopyAfter
  <2>3. Copy(first, GameLines) /\ Bare(first) /\ (first.active => c.active)
    <3>1. CASE e.snapshot # <<>>
      <4>1. e.snapshot[1] \in Snapshots /\ first = AppSnapshot(c, e.snapshot[1])
        BY <2>1, <3>1
      <4> DEFINE s == e.snapshot[1]
      <4>2. s.rev \in Nat /\ s.lines \in Seq(GameLines) /\ s.wait \in Nat /\ s.scene \in Nat
        BY <4>1 DEF Snapshots
      <4>3. first = AppSnapshot(c, s)
        BY <4>1
      <4> HIDE DEF first, s
      <4>4. Copy(Fresh(s), GameLines) /\ Bare(Fresh(s)) /\ Fresh(s).active = FALSE /\ first = Fit(Fresh(s))
        BY <4>2, <4>3, FreshCopy
      <4> QED
        BY <4>4, FitsBare
    <3>2. CASE e.snapshot = <<>>
      BY <3>2
    <3> QED
      BY <3>1, <3>2
  <2>4. e.delta # <<>> => e.delta[1] \in Deltas
    BY <2>1
  <2> HIDE DEF first
  <2>5. e.delta # <<>> => LET r == AppDelta(first, e.delta[1]) IN
                          Copy(r, GameLines) /\ Bare(r) /\ (r.active => first.active)
    BY <2>3, <2>4, DeltaBare
  <2> QED
    BY <2>1, <2>2, <2>3, <2>5
<1> QED
  BY <1>1, <1>2 DEF Messages

\* And what several leave.
LEMMA HeardBare ==
  ASSUME NEW c, Copy(c, GameLines), Bare(c), NEW es \in Seq(Messages)
  PROVE  /\ Copy(FoldLeft(CopyAfter, c, es), GameLines) /\ Bare(FoldLeft(CopyAfter, c, es))
         /\ \A i \in 0..Len(es) : Copy(Heard(c, es, i), GameLines) /\ Bare(Heard(c, es, i))
<1>n. PICK n \in Nat : n = Len(es)
  OBVIOUS
<1> DEFINE T == {i \in Nat : Copy(Heard(c, es, i), GameLines) /\ Bare(Heard(c, es, i))}
<1>1. 0 \in T
  <2>1. Heard(c, es, 0) = c
    BY HeardNone
  <2> QED
    BY <2>1
<1>2. ASSUME NEW i \in 0..(n - 1), i \in T PROVE i + 1 \in T
  <2> DEFINE f == Heard(c, es, i)
  <2>1. i \in Nat /\ i < Len(es) /\ i + 1 \in Nat /\ es[i + 1] \in Messages
    BY <1>n
  <2>2. Heard(c, es, i + 1) = CopyAfter(f, es[i + 1])
    BY <2>1, HeardMore
  <2>3. Copy(f, GameLines) /\ Bare(f)
    BY <1>2
  <2> HIDE DEF f
  <2>4. Copy(CopyAfter(f, es[i + 1]), GameLines) /\ Bare(CopyAfter(f, es[i + 1]))
    BY <2>1, <2>3, EventBare
  <2> QED
    BY <2>1, <2>2, <2>4
<1>3. 0..n \subseteq T
  <2> HIDE DEF T
  <2> QED
    BY <1>1, <1>2, UpTo
<1>4. n \in T /\ Heard(c, es, n) = FoldLeft(CopyAfter, c, es)
  BY <1>3, <1>n, HeardAll
<1> QED
  BY <1>3, <1>4, <1>n
-----------------------------------------------------------------------------
(* What the worker takes of a delta, one operation after another *)

\* The numbers of the lines after an operation, k before it and j after it.
NextNumber(op, k, j) ==
  /\ k \in Nat /\ j \in Nat /\ k <= j
  /\ op.tag = "append" => op.line.id = k /\ j = k + 1
  /\ op.tag = "replace" => op.line.id < j

\* Numbers below one are below a greater one.
LEMMA NumbersRise ==
  ASSUME NEW s \in Seq(GameLines), NEW k \in Nat, NEW j \in Nat, k <= j
  PROVE  Numbered(s, k) => Numbered(s, j)
<1>1. \A i \in DOMAIN s : s[i].id \in Nat
  <2>1. \A i \in DOMAIN s : s[i] \in GameLines
    OBVIOUS
  <2> QED
    BY <2>1 DEF GameLines
<1> QED
  BY <1>1 DEF Numbered

\* So are those of operations.
LEMMA BelowRises ==
  ASSUME NEW ops \in Seq(Works), NEW k \in Nat, NEW j \in Nat, k <= j
  PROVE  Below(ops, k) => Below(ops, j)
<1>1. \A i \in DOMAIN ops : ops[i] \in Works
  OBVIOUS
<1>2. \A i \in DOMAIN ops : Lined(ops[i]) => ops[i].line.id \in Nat
  BY <1>1, WorkChanges
<1> QED
  BY <1>2 DEF Below

\* An operation on lines that are numbered.
LEMMA OpNumbered ==
  ASSUME NEW c, Copy(c, GameLines), NEW op \in Works, NEW k, NEW j, NextNumber(op, k, j),
         Numbered(c.lines, k)
  PROVE  Numbered(Apply(c, op).lines, j)
<1>k. k \in Nat /\ j \in Nat /\ k <= j
  BY DEF NextNumber
<1>c. PICK s \in Seq(GameLines) : s = c.lines
  BY DEF Copy
<1>l. Numbered(s, k) /\ Unlike(s)
  BY <1>c DEF Numbered
<1>1. CASE op.tag = "append"
  <2>1. op.line.id = k /\ j = k + 1
    BY <1>1 DEF NextNumber
  <2>2. \A i \in DOMAIN c.lines : c.lines[i].id # op.line.id
    <3>1. \A i \in DOMAIN s : s[i] \in GameLines
      OBVIOUS
    <3>2. \A i \in DOMAIN s : s[i].id \in Nat /\ s[i].id < k
      BY <1>l, <3>1 DEF Numbered, GameLines
    <3> QED
      BY <3>2, <2>1, <1>c, <1>k
  <2>3. \A i \in Nat : Numbered(c.lines, i) /\ (op.tag = "append" => op.line.id = i)
                         => Numbered(Apply(c, op).lines, i + 1)
    BY <2>2, <1>l, <1>c, WorkNumbered
  <2> QED
    BY <2>1, <2>3, <1>k
<1>2. CASE op.tag = "replace"
  <2>1. Apply(c, op).lines = Replaced(s, op.line)
    BY <1>2, <1>c, LinesOf DEF Replaced
  <2>2. Numbered(s, j)
    BY <1>k, <1>l, NumbersRise
  <2> QED
    BY <2>1, <2>2, ReplacedNumbered
<1>3. CASE ~Lined(op)
  <2>1. PICK p : Stems(Apply(c, op).lines, s, p)
    BY <1>3, <1>c, KeptStems
  <2>2. Numbered(s, j) /\ Apply(c, op).lines \in Seq(GameLines)
    BY <1>k, <1>l, NumbersRise, WorkApplied DEF Copy
  <2> QED
    BY <2>1, <2>2, StemsNumbered
<1> QED
  BY <1>1, <1>2, <1>3 DEF Lined

\* What the worker has, and the app will, in the middle of a delta: w is the
\* worker's copy, kept what is kept of the delta, k the next number.
Between(w, kept, k) ==
  LET p == Merge(pending.ops, kept)
      t == ApplyAll(Base, p)
  IN
  /\ Copy(w, GameLines) /\ ~w.failed /\ w.hidden = 0 /\ DOMAIN w = DOMAIN worker
  /\ Numbered(w.lines, k) /\ Bare(w) /\ k \in Nat
  /\ kept \in Seq(Works)
  /\ w.active <=> worker.active /\ \A i \in DOMAIN kept : kept[i].tag # "clear"
  /\ p \in Seq(Works) /\ Sound(Base, p) /\ Single(p) /\ Below(p, k)
  /\ Follows(t, w) /\ Bare(t) /\ t.active = w.active
  /\ left.returns = MaxReturns => t.scene = w.scene

\* What is kept of an operation.
KeptOf(kept, op) ==
  IF Accepts([active |-> worker.active /\ \A i \in DOMAIN kept : kept[i].tag # "clear"], op)
  THEN Append(kept, op) ELSE kept

\* One operation of a delta.
LEMMA TakeOne ==
  ASSUME NEW w, NEW kept, NEW k, Between(w, kept, k), NEW op \in Works, NEW j, NextNumber(op, k, j),
         ~ApplyOperation(w, op).failed, op.tag = "scene" => left.returns = MaxReturns
  PROVE  Between(ApplyOperation(w, op), KeptOf(kept, op), j)
<1> DEFINE p == Merge(pending.ops, kept)  t == ApplyAll(Base, p)
<1>w. /\ Copy(w, GameLines) /\ ~w.failed /\ w.hidden = 0 /\ DOMAIN w = DOMAIN worker
      /\ Numbered(w.lines, k) /\ Bare(w) /\ k \in Nat /\ kept \in Seq(Works)
      /\ w.active <=> worker.active /\ \A i \in DOMAIN kept : kept[i].tag # "clear"
  BY DEF Between
<1>p. p \in Seq(Works) /\ Sound(Base, p) /\ Single(p) /\ Below(p, k)
  BY DEF Between
<1>t. /\ Follows(t, w) /\ Bare(t) /\ t.active = w.active
      /\ left.returns = MaxReturns => t.scene = w.scene
  BY DEF Between
<1>k. j \in Nat /\ k <= j
  BY DEF NextNumber
<1>a. Accepts([active |-> worker.active /\ \A i \in DOMAIN kept : kept[i].tag # "clear"], op) <=> Accepts(w, op)
  <2>1. (worker.active /\ \A i \in DOMAIN kept : kept[i].tag # "clear") <=> w.active
    BY <1>w
  <2> QED
    BY <2>1 DEF Accepts
<1>c. Copy(t, GameLines) /\ ~t.failed /\ Unlike(t.lines)
  <2>1. After(Base, p, Len(p)) = t /\ Len(p) \in 0..Len(p)
    BY <1>p, AfterAll
  <2> QED
    BY <2>1, <1>p DEF Sound
<1>l. w.lines \in Seq(GameLines) /\ t.lines \in Seq(GameLines)
  BY <1>w, <1>c DEF Copy
<1> HIDE DEF t, p
<1>1. CASE ~Accepts(w, op)
  <2>1. ApplyOperation(w, op) = w /\ KeptOf(kept, op) = kept
    BY <1>1, <1>a DEF ApplyOperation, KeptOf
  <2>2. Numbered(w.lines, j) /\ Below(p, j)
    BY <1>w, <1>p, <1>k, <1>l, NumbersRise, BelowRises
  <2> QED
    BY <2>1, <2>2, <1>w, <1>p, <1>t, <1>k DEF Between, p, t
<1>2. CASE Accepts(w, op)
  <2> DEFINE v == Apply(w, op)  more == Append(kept, op)  m == MergeOperation(p, op)  u == Apply(t, op)
  <2>1. ApplyOperation(w, op) = v /\ KeptOf(kept, op) = more
    BY <1>2, <1>a, <1>w DEF ApplyOperation, KeptOf
  <2>2. more \in Seq(Works) /\ Merge(pending.ops, more) = m
    <3>1. more \in Seq(Works)
      BY <1>w
    <3>2. Merge(pending.ops, more) = Run("merge", pending.ops, more) /\ p = Run("merge", pending.ops, kept)
      BY <3>1, <1>w, MergeRuns DEF p
    <3>3. Run("merge", pending.ops, more) = Step("merge", Run("merge", pending.ops, kept), op)
      BY <1>w, RunMore
    <3>4. \A x : Step("merge", x, op) = MergeOperation(x, op)
      BY DEF Step
    <3> QED
      BY <3>1, <3>2, <3>3, <3>4
  <2>s. op.tag = "scene" => op.base = w.scene /\ op.base = t.scene
    <3>1. op.tag = "scene" /\ op.base # w.scene => v.failed
      BY <1>w, RestOf
    <3> QED
      BY <2>1, <3>1, <1>t
  <2>3. Accepts(t, op) /\ ~u.failed
    <3>1. u.failed = (t.failed \/ (op.tag = "scene" /\ op.base # t.scene))
      BY <1>c, RestOf
    <3>2. Accepts(t, op)
      BY <1>2, <1>t DEF Accepts
    <3> QED
      BY <2>s, <3>1, <3>2, <1>c
  <2>4. op.tag = "append" =>
          /\ \A i \in DOMAIN t.lines : t.lines[i].id # op.line.id
          /\ \A i \in DOMAIN p : Lined(p[i]) => p[i].line.id # op.line.id
    <3> SUFFICES ASSUME op.tag = "append"
                 PROVE  /\ \A i \in DOMAIN t.lines : t.lines[i].id # op.line.id
                        /\ \A i \in DOMAIN p : Lined(p[i]) => p[i].line.id # op.line.id
      OBVIOUS
    <3>1. op.line.id = k
      BY DEF NextNumber
    <3>2. \A i \in DOMAIN w.lines : w.lines[i].id \in Nat /\ w.lines[i].id < k
      <4>1. \A i \in DOMAIN w.lines : w.lines[i] \in GameLines
        BY <1>l
      <4> QED
        BY <4>1, <1>w DEF Numbered, GameLines
    <3>3. ASSUME NEW i \in DOMAIN t.lines PROVE t.lines[i].id # k
      <4>1. PICK a \in Nat, b \in Nat, h \in Nat : a = Len(t.lines) /\ b = Len(w.lines) /\ h = t.hidden
        BY <1>c, <1>l DEF Copy
      <4>2. b = h + a
        BY <4>1, <1>t DEF Follows, EndOf
      <4>3. i \in 1..a
        BY <4>1, <1>l
      <4>4. t.lines[i] = w.lines[h + i]
        BY <4>1, <4>3, <1>t DEF Follows, EndOf
      <4>5. h + i \in 1..b
        BY <4>2, <4>3
      <4>6. h + i \in DOMAIN w.lines
        BY <4>1, <4>5, <1>l
      <4>7. t.lines[i].id \in Nat /\ t.lines[i].id < k
        BY <4>4, <4>6, <3>2
      <4> QED
        BY <4>7, <1>w
    <3>4. \A i \in DOMAIN p : Lined(p[i]) => p[i].line.id # k
      <4>1. \A i \in DOMAIN p : Lined(p[i]) => p[i].line.id \in Nat
        BY <1>p, WorkChanges
      <4> QED
        BY <4>1, <1>p, <1>w DEF Below
    <3> QED
      BY <3>1, <3>3, <3>4
  <2>5. /\ m \in Seq(Works) /\ Sound(Base, m) /\ Single(m) /\ ApplyAll(Base, m) = u
        /\ \A i : Below(p, i) /\ (Lined(op) => op.line.id < i) => Below(m, i)
    <3>1. /\ Accepts(ApplyAll(Base, p), op) /\ ~Apply(ApplyAll(Base, p), op).failed
          /\ op.tag = "append" =>
               /\ \A i \in DOMAIN ApplyAll(Base, p).lines : ApplyAll(Base, p).lines[i].id # op.line.id
               /\ \A i \in DOMAIN p : Lined(p[i]) => p[i].line.id # op.line.id
      BY <2>3, <2>4 DEF t
    <3>2. /\ m \in Seq(Works) /\ Sound(Base, m) /\ Single(m) /\ ApplyAll(Base, m) = Apply(ApplyAll(Base, p), op)
          /\ \A i : Below(p, i) /\ (Lined(op) => op.line.id < i) => Below(m, i)
      BY <3>1, <1>p, MergeStep
    <3> QED
      BY <3>2 DEF t
  <2>6. Below(m, j)
    <3>1. Below(p, j)
      BY <1>p, <1>w, <1>k, BelowRises
    <3>2. Lined(op) => op.line.id < j
      BY <1>w, <1>k DEF Lined, NextNumber
    <3> QED
      BY <3>1, <3>2, <2>5
  <2>7. /\ Copy(v, GameLines) /\ ~v.failed /\ v.hidden = 0 /\ DOMAIN v = DOMAIN worker
        /\ Follows(u, v)
    BY <1>w, <1>c, <1>t, <2>1, WorkApplied, FollowsOn
  <2>8. Numbered(v.lines, j)
    BY <1>w, OpNumbered
  <2>9. Bare(v) /\ Bare(u)
    <3>1. ApplyOperation(t, op) = u
      BY <1>c, <2>3 DEF ApplyOperation
    <3> QED
      BY <2>1, <3>1, <1>w, <1>c, <1>t, StaysBare
  <2>10. /\ v.active = (w.active /\ op.tag # "clear") /\ u.active = (t.active /\ op.tag # "clear")
         /\ v.scene = IF op.tag = "scene" /\ op.base = w.scene THEN op.next ELSE w.scene
         /\ u.scene = IF op.tag = "scene" /\ op.base = t.scene THEN op.next ELSE t.scene
    BY <1>w, <1>c, RestOf
  <2>11. u.active = v.active /\ (left.returns = MaxReturns => u.scene = v.scene)
    BY <2>10, <2>s, <1>t
  <2>12. v.active <=> worker.active /\ \A i \in DOMAIN more : more[i].tag # "clear"
    <3>1. PICK n \in Nat : n = Len(kept) /\ DOMAIN kept = 1..n
      BY <1>w
    <3>2. DOMAIN more = 1..(n + 1) /\ more[n + 1] = op /\ \A i \in 1..n : more[i] = kept[i]
      BY <3>1, <1>w
    <3>3. \A i \in 1..(n + 1) : i \in 1..n \/ i = n + 1
      OBVIOUS
    <3>4. (\A i \in DOMAIN more : more[i].tag # "clear")
            <=> (\A i \in DOMAIN kept : kept[i].tag # "clear") /\ op.tag # "clear"
      BY <3>1, <3>2, <3>3
    <3> HIDE DEF more
    <3> QED
      BY <3>4, <2>10, <1>w
  <2> HIDE DEF v, more, m, u
  <2> QED
    BY <2>1, <2>2, <2>5, <2>6, <2>7, <2>8, <2>9, <2>11, <2>12, <1>k DEF Between
<1> QED
  BY <1>1, <1>2

\* A failure stays.
LEMMA FailureStays ==
  ASSUME NEW c, NEW op, c.failed
  PROVE  ApplyOperation(c, op) = c
BY DEF ApplyOperation

\* What is kept of the first operations of a delta.
LEMMA KeptMore ==
  ASSUME NEW ops \in Seq(Works), NEW op \in Works
  PROVE  Run("filter", <<>>, Append(ops, op)) = KeptOf(Run("filter", <<>>, ops), op)
<1>1. Run("filter", <<>>, Append(ops, op)) = Step("filter", Run("filter", <<>>, ops), op)
  BY RunMore
<1>2. \A x : Step("filter", x, op) = KeptOf(x, op)
  BY DEF Step, KeptOf
<1> QED
  BY <1>1, <1>2

\* An operation more of a delta that is taken.
LEMMA TakeMore ==
  ASSUME NEW ops \in Seq(Works), NEW k, Between(ApplyAll(worker, ops), Run("filter", <<>>, ops), k),
         NEW op \in Works, NEW j, NextNumber(op, k, j), ~ApplyAll(worker, Append(ops, op)).failed,
         op.tag = "scene" => left.returns = MaxReturns
  PROVE  Between(ApplyAll(worker, Append(ops, op)), Run("filter", <<>>, Append(ops, op)), j)
<1>1. ApplyAll(worker, Append(ops, op)) = ApplyOperation(ApplyAll(worker, ops), op)
  BY ApplyMore
<1>2. ~ApplyOperation(ApplyAll(worker, ops), op).failed
  BY <1>1
<1>3. Between(ApplyOperation(ApplyAll(worker, ops), op), KeptOf(Run("filter", <<>>, ops), op), j)
  BY <1>2, TakeOne
<1> QED
  BY <1>1, <1>3, KeptMore

\* The operations of a delta of a game that runs, and of one that begins.
Opening == <<[tag |-> "clear"], [tag |-> "wait", wait |-> NoWait]>>
Printable(ops, op) ==
  /\ op \in Works /\ NextNumber(op, rt.next, rt.next + 1) /\ rt.next \in Nat
  /\ op.tag = "scene" => left.returns = MaxReturns
  /\ ops = Append(<<>>, op) \/ ops = Append(Opening, op)

\* What begins the first delta of a new game.
LEMMA OpeningWorks ==
  /\ Opening = Append(Append(<<>>, [tag |-> "clear"]), [tag |-> "wait", wait |-> NoWait])
  /\ [tag |-> "clear"] \in Works /\ [tag |-> "wait", wait |-> NoWait] \in Works
  /\ Opening \in Seq(Works) /\ <<>> \in Seq(Works) /\ Append(<<>>, [tag |-> "clear"]) \in Seq(Works)
  /\ \A k \in Nat : NextNumber([tag |-> "clear"], k, k) /\ NextNumber([tag |-> "wait", wait |-> NoWait], k, k)
<1>1. [tag |-> "clear"] \in Works /\ [tag |-> "wait", wait |-> NoWait] \in Works
  BY DEF Works, NoWait
<1>2. \A k \in Nat : NextNumber([tag |-> "clear"], k, k) /\ NextNumber([tag |-> "wait", wait |-> NoWait], k, k)
  BY DEF NextNumber
<1>3. Opening = Append(Append(<<>>, [tag |-> "clear"]), [tag |-> "wait", wait |-> NoWait])
  BY DEF Opening
<1>4. <<>> \in Seq(Works) /\ Append(<<>>, [tag |-> "clear"]) \in Seq(Works)
  BY <1>1
<1>5. Opening \in Seq(Works)
  BY <1>1, <1>3, <1>4
<1> QED
  BY <1>1, <1>2, <1>3, <1>4, <1>5

\* Nothing is applied and nothing is kept of an empty delta.
LEMMA NothingTaken ==
  ASSUME CopyInv, worker.rev = rt.rev
  PROVE  Between(ApplyAll(worker, <<>>), Run("filter", <<>>, <<>>), rt.next)
<1>0. <<>> \in Seq(Works)
  OBVIOUS
<1>1. ApplyAll(worker, <<>>) = worker /\ Run("filter", <<>>, <<>>) = <<>>
  BY <1>0, AllRuns, RunNone
<1>2. Merge(pending.ops, <<>>) = pending.ops
  BY <1>0, MergeRuns, RunNone
<1>3. /\ Copy(worker, GameLines) /\ ~worker.failed /\ worker.hidden = 0
      /\ Numbered(worker.lines, rt.next) /\ Bare(worker) /\ rt.next \in Nat
  BY DEF CopyInv, WorkerFits, RuntimeFits
<1>4. /\ pending.ops \in Seq(Works) /\ Sound(Base, pending.ops) /\ Single(pending.ops)
      /\ Below(pending.ops, rt.next)
  BY DEF CopyInv, PendingFits, Below
<1>5. /\ Follows(Target, worker) /\ Bare(Target) /\ Target.active = worker.active
      /\ left.returns = MaxReturns => Target.scene = worker.scene
  BY DEF CopyInv, TargetFits
<1>6. worker.active <=> worker.active /\ \A i \in DOMAIN <<>> : <<>>[i].tag # "clear"
  OBVIOUS
<1> QED
  BY <1>0, <1>1, <1>2, <1>3, <1>4, <1>5, <1>6 DEF Between, Target

\* A delta that is taken.
LEMMA DeltaTaken ==
  ASSUME CopyInv, NEW ops, NEW op, Printable(ops, op), worker.rev = rt.rev, ~ApplyAll(worker, ops).failed
  PROVE  /\ Between(ApplyAll(worker, ops), Run("filter", <<>>, ops), rt.next + 1)
         /\ ops \in Seq(Works)
<1> DEFINE none == <<>>  first == Append(none, [tag |-> "clear"])
<1>p. /\ op \in Works /\ NextNumber(op, rt.next, rt.next + 1) /\ rt.next \in Nat
      /\ op.tag = "scene" => left.returns = MaxReturns
      /\ ops = Append(none, op) \/ ops = Append(Opening, op)
  BY DEF Printable
<1>0. none \in Seq(Works) /\ Between(ApplyAll(worker, none), Run("filter", <<>>, none), rt.next)
  BY NothingTaken
<1>1. CASE ops = Append(none, op)
  <2>0. none \in Seq(Works) /\ ops = Append(none, op)
    BY <1>0, <1>1
  <2>1. ops \in Seq(Works)
    BY <2>0, <1>p
  <2> HIDE DEF none
  <2> QED
    BY <2>0, <2>1, <1>0, <1>p, TakeMore
<1>2. CASE ops = Append(Opening, op)
  <2>1. /\ Opening = Append(first, [tag |-> "wait", wait |-> NoWait]) /\ Opening \in Seq(Works)
        /\ [tag |-> "clear"] \in Works /\ [tag |-> "wait", wait |-> NoWait] \in Works /\ first \in Seq(Works)
        /\ NextNumber([tag |-> "clear"], rt.next, rt.next)
        /\ NextNumber([tag |-> "wait", wait |-> NoWait], rt.next, rt.next)
    BY <1>p, OpeningWorks
  <2> DEFINE clear == [tag |-> "clear"]  wait == [tag |-> "wait", wait |-> NoWait]
  <2>2. clear.tag # "scene" /\ wait.tag # "scene"
    OBVIOUS
  <2>3. first = Append(none, clear) /\ Opening = Append(first, wait)
    BY <2>1
  <2>4. ~ApplyAll(worker, Opening).failed
    <3>1. ApplyAll(worker, ops) = ApplyOperation(ApplyAll(worker, Opening), op)
      BY <1>2, <1>p, <2>1, ApplyMore
    <3> QED
      BY <3>1, FailureStays
  <2>5. ~ApplyAll(worker, first).failed
    <3>1. ApplyAll(worker, Opening) = ApplyOperation(ApplyAll(worker, first), wait)
      BY <2>1, ApplyMore
    <3> QED
      BY <3>1, <2>4, FailureStays
  <2>6. ops \in Seq(Works)
    BY <1>2, <1>p, <2>1
  <2>w. clear \in Works /\ wait \in Works /\ NextNumber(clear, rt.next, rt.next)
        /\ NextNumber(wait, rt.next, rt.next) /\ first \in Seq(Works)
    BY <2>1
  <2> HIDE DEF none, first, clear, wait
  <2>7. Between(ApplyAll(worker, first), Run("filter", <<>>, first), rt.next)
    BY <1>0, <2>w, <2>2, <2>3, <2>5, TakeMore
  <2>8. Between(ApplyAll(worker, Opening), Run("filter", <<>>, Opening), rt.next)
    BY <2>7, <2>w, <2>1, <2>2, <2>3, <2>4, TakeMore
  <2>9. Between(ApplyAll(worker, ops), Run("filter", <<>>, ops), rt.next + 1)
    BY <2>8, <2>1, <1>2, <1>p, TakeMore
  <2> QED
    BY <2>6, <2>9
<1> QED
  BY <1>1, <1>2, <1>p

\* What the runtime prints, one operation after another.
LEMMA PrintOne ==
  ASSUME NEW c, Copy(c, GameLines), NEW op \in Works, NEW k, NEW j, NextNumber(op, k, j), Numbered(c.lines, k)
  PROVE  Copy(ApplyOperation(c, op), GameLines) /\ Numbered(ApplyOperation(c, op).lines, j)
<1>1. Copy(ApplyOperation(c, op), GameLines) /\ Numbered(Apply(c, op).lines, j)
  BY WorkApplied, OpNumbered
<1>2. Numbered(c.lines, j)
  BY NumbersRise DEF NextNumber, Copy
<1> QED
  BY <1>1, <1>2 DEF ApplyOperation

\* An operation more on a surface with numbered lines.
LEMMA PrintMore ==
  ASSUME NEW c, NEW ops \in Seq(Works), NEW op \in Works, NEW k, NEW j, NextNumber(op, k, j),
         Copy(ApplyAll(c, ops), GameLines), Numbered(ApplyAll(c, ops).lines, k)
  PROVE  Copy(ApplyAll(c, Append(ops, op)), GameLines) /\ Numbered(ApplyAll(c, Append(ops, op)).lines, j)
<1>1. ApplyAll(c, Append(ops, op)) = ApplyOperation(ApplyAll(c, ops), op)
  BY ApplyMore
<1> QED
  BY <1>1, PrintOne

\* The runtime after an output.
RuntimeKept(r, next) ==
  /\ {"rev", "lines", "wait", "scene", "game", "next", "fresh"} = DOMAIN r
  /\ r.rev \in Nat /\ r.lines \in Seq(GameLines) /\ r.wait \in Nat /\ r.scene \in Nat
  /\ r.game \in Nat /\ r.next \in Nat \ {0} /\ r.fresh \in BOOLEAN
  /\ Numbered(r.lines, r.next) /\ r.next = next

\* The runtime after it printed.
LEMMA PrintedFits ==
  ASSUME RuntimeFits, NEW ops, NEW op, Printable(ops, op)
  PROVE  /\ RuntimeKept(Printed(rt, ops), rt.next + 1) /\ Printed(rt, ops).rev = rt.rev + 1
         /\ RuntimeKept([Printed(rt, ops) EXCEPT !.fresh = FALSE], rt.next + 1)
         /\ [Printed(rt, ops) EXCEPT !.fresh = FALSE].rev = rt.rev + 1
<1>r. /\ {"rev", "lines", "wait", "scene", "game", "next", "fresh"} = DOMAIN rt
      /\ rt.rev \in Nat /\ rt.lines \in Seq(GameLines) /\ rt.wait \in Nat /\ rt.scene \in Nat
      /\ rt.game \in Nat /\ rt.next \in Nat \ {0} /\ rt.fresh \in BOOLEAN
      /\ Numbered(rt.lines, rt.next)
  BY DEF RuntimeFits
<1>p. /\ op \in Works /\ NextNumber(op, rt.next, rt.next + 1) /\ rt.next \in Nat
      /\ ops = Append(<<>>, op) \/ ops = Append(Opening, op)
  BY DEF Printable
<1> DEFINE c == Fresh(rt)  a == ApplyAll(c, ops)
<1>0. Copy(c, GameLines) /\ c.lines = rt.lines
  BY <1>r, FreshCopy
<1>1. Copy(a, GameLines) /\ Numbered(a.lines, rt.next + 1)
  <2>1. /\ Opening = Append(Append(<<>>, [tag |-> "clear"]), [tag |-> "wait", wait |-> NoWait])
        /\ [tag |-> "clear"] \in Works /\ [tag |-> "wait", wait |-> NoWait] \in Works
        /\ Opening \in Seq(Works) /\ <<>> \in Seq(Works) /\ Append(<<>>, [tag |-> "clear"]) \in Seq(Works)
        /\ NextNumber([tag |-> "clear"], rt.next, rt.next)
        /\ NextNumber([tag |-> "wait", wait |-> NoWait], rt.next, rt.next)
    BY <1>p, OpeningWorks
  <2> HIDE DEF c
  <2>2. Copy(ApplyAll(c, <<>>), GameLines) /\ Numbered(ApplyAll(c, <<>>).lines, rt.next)
    <3>1. ApplyAll(c, <<>>) = c
      BY <2>1, AllRuns, RunNone
    <3> QED
      BY <3>1, <1>0, <1>r
  <2>3. CASE ops = Append(<<>>, op)
    BY <2>1, <2>2, <2>3, <1>p, PrintMore
  <2>4. CASE ops = Append(Opening, op)
    <3> DEFINE clear == [tag |-> "clear"]  wait == [tag |-> "wait", wait |-> NoWait]
               first == Append(<<>>, clear)
    <3>1. /\ clear \in Works /\ wait \in Works /\ first \in Seq(Works) /\ Opening = Append(first, wait)
          /\ NextNumber(clear, rt.next, rt.next) /\ NextNumber(wait, rt.next, rt.next)
          /\ first = Append(<<>>, clear)
      BY <2>1
    <3> HIDE DEF clear, wait, first
    <3>2. Copy(ApplyAll(c, first), GameLines) /\ Numbered(ApplyAll(c, first).lines, rt.next)
      BY <3>1, <2>1, <2>2, PrintMore
    <3>3. Copy(ApplyAll(c, Opening), GameLines) /\ Numbered(ApplyAll(c, Opening).lines, rt.next)
      BY <3>1, <3>2, PrintMore
    <3> QED
      BY <3>3, <2>1, <2>4, <1>p, PrintMore
  <2> QED
    BY <2>3, <2>4, <1>p
<1>2. Printed(rt, ops) = [rt EXCEPT !.rev = rt.rev + 1, !.lines = a.lines, !.wait = a.wait, !.scene = a.scene,
                                    !.next = rt.next + 1]
  BY DEF Printed, Fresh
<1>3. a.lines \in Seq(GameLines) /\ a.wait \in Nat /\ a.scene \in Nat
  BY <1>1 DEF Copy
<1>4. rt.rev + 1 \in Nat /\ rt.next + 1 \in Nat \ {0} /\ FALSE \in BOOLEAN
  BY <1>r
<1> HIDE DEF a, c
<1> DEFINE r == Printed(rt, ops)  s == [r EXCEPT !.fresh = FALSE]
<1>5. /\ DOMAIN r = DOMAIN rt /\ r.rev = rt.rev + 1 /\ r.lines = a.lines /\ r.wait = a.wait
      /\ r.scene = a.scene /\ r.next = rt.next + 1 /\ r.game = rt.game /\ r.fresh = rt.fresh
  BY <1>2, <1>r
<1>6. /\ DOMAIN s = DOMAIN rt /\ s.rev = rt.rev + 1 /\ s.lines = a.lines /\ s.wait = a.wait
      /\ s.scene = a.scene /\ s.next = rt.next + 1 /\ s.game = rt.game /\ s.fresh = FALSE
  <2> HIDE DEF r
  <2> QED
    BY <1>5, <1>r
<1> HIDE DEF r, s
<1> QED
  BY <1>r, <1>1, <1>3, <1>4, <1>5, <1>6 DEF RuntimeKept, r, s
-----------------------------------------------------------------------------
(* The copies through the steps of the runtime *)

\* The boundary of a copy is not part of what it shows.
SameCopy(r, w) ==
  /\ DOMAIN r = DOMAIN w /\ r.rev = w.rev /\ r.lines = w.lines /\ r.hidden = w.hidden
  /\ r.wait = w.wait /\ r.scene = w.scene /\ r.active = w.active /\ r.failed = w.failed

\* The boundary changes nothing of what a copy shows.
LEMMA IdleSame ==
  ASSUME NEW w, Copy(w, GameLines)
  PROVE  SameCopy(Idle(w), w) /\ SameCopy(Resynchronizing(w), w)
BY DEF Idle, Resynchronizing, SameCopy, Copy

\* What shows the same is a copy as well, and follows the same surfaces.
LEMMA SameIsCopy ==
  ASSUME NEW r, NEW w, Copy(w, GameLines), SameCopy(r, w)
  PROVE  Copy(r, GameLines) /\ (Bare(w) => Bare(r)) /\ \A u : Follows(u, w) => Follows(u, r)
<1>1. /\ DOMAIN r = DOMAIN w /\ r.rev = w.rev /\ r.lines = w.lines /\ r.hidden = w.hidden
      /\ r.wait = w.wait /\ r.scene = w.scene /\ r.active = w.active /\ r.failed = w.failed
  BY DEF SameCopy
<1>2. Copy(r, GameLines)
  BY <1>1 DEF Copy
<1>3. Bare(w) => Bare(r)
  BY <1>1 DEF Bare
<1>4. \A u : Follows(u, w) => Follows(u, r)
  BY <1>1 DEF Follows
<1> QED
  BY <1>2, <1>3, <1>4

\* What a step of the runtime leaves alone, and the rest of the bounds.
LeftKept ==
  /\ DOMAIN left' = {"outputs", "returns", "faults", "boundaries"}
  /\ left'.returns = left.returns
AppUntouched == UNCHANGED <<events, app, surface>>

\* The app in a step it has no part in.
LEMMA AppStays ==
  ASSUME CopyInv, AppUntouched
  PROVE  AppFits' /\ Sent' = Sent
<1>1. events' = events /\ app' = app /\ surface' = surface
  BY DEF AppUntouched
<1>2. AppFits'
  BY <1>1 DEF CopyInv, AppFits
<1> QED
  BY <1>1, <1>2 DEF Sent

\* The worker refuses a delta: it does not know the surface any more.
LEMMA DeltaRefused ==
  ASSUME CopyInv, NEW d, ApplyAll(worker, d.ops).failed \/ d.from # worker.rev, TakeDelta(d),
         RuntimeKept(rt', rt.next + 1), rt'.rev = rt.rev + 1, LeftKept, UNCHANGED <<app, surface>>
  PROVE  CopyInv'
<1> DEFINE w == [worker EXCEPT !.active = @ /\ (d.from # worker.rev \/ ApplyAll(worker, d.ops).active)]
<1>1. worker' = Idle(w) /\ UNCHANGED <<pending, pump, events>>
  BY DEF TakeDelta
<1>2. AppFits' /\ Sent' = Sent
  BY <1>1, AppStays DEF AppUntouched
<1>3. Base' = Base /\ Target' = Target
  BY <1>1, <1>2 DEF Base, Target
<1>w. /\ Copy(worker, GameLines) /\ ~worker.failed /\ worker.hidden = 0 /\ Bare(worker)
      /\ DOMAIN worker =
           {"rev", "lines", "hidden", "wait", "scene", "active", "failed", "phase", "command"}
      /\ Numbered(worker.lines, rt.next) /\ worker.rev <= rt.rev
  BY DEF CopyInv, WorkerFits
<1>r. rt.rev \in Nat /\ rt.next \in Nat \ {0} /\ rt'.next = rt.next + 1 /\ rt.next <= rt.next + 1
      /\ left.returns \in Int /\ left.returns <= MaxReturns
  BY DEF CopyInv, RuntimeFits, RuntimeKept
<1>4. /\ Copy(w, GameLines) /\ DOMAIN w = DOMAIN worker /\ Bare(w) /\ w.lines = worker.lines
      /\ w.hidden = worker.hidden /\ w.wait = worker.wait /\ w.scene = worker.scene /\ w.rev = worker.rev
      /\ w.failed = worker.failed
  <2>1. w.active \in BOOLEAN /\ (w.active => worker.active)
    BY <1>w DEF Copy
  <2>2. /\ DOMAIN w = DOMAIN worker /\ w.lines = worker.lines
        /\ w.hidden = worker.hidden /\ w.wait = worker.wait /\ w.scene = worker.scene /\ w.rev = worker.rev
        /\ w.failed = worker.failed
    BY <1>w
  <2> HIDE DEF w
  <2> QED
    BY <2>1, <2>2, <1>w DEF Copy, Bare
<1> HIDE DEF w
<1>5. SameCopy(worker', w) /\ Copy(worker', GameLines) /\ Bare(worker')
  BY <1>1, <1>4, IdleSame, SameIsCopy
<1>6. /\ DOMAIN worker' = DOMAIN worker /\ worker'.rev = worker.rev /\ worker'.lines = worker.lines
      /\ worker'.hidden = worker.hidden /\ worker'.wait = worker.wait /\ worker'.scene = worker.scene
      /\ worker'.failed = worker.failed
  BY <1>4, <1>5 DEF SameCopy
<1>7. RuntimeFits'
  BY <1>r DEF RuntimeFits, RuntimeKept, LeftKept
<1>8. WorkerFits'
  <2>1. Numbered(worker.lines, rt'.next)
    BY <1>w, <1>r, NumbersRise DEF Copy
  <2>2. worker'.rev <= rt'.rev
    BY <1>w, <1>r, <1>6 DEF Copy
  <2> QED
    BY <2>1, <2>2, <1>5, <1>6, <1>w DEF WorkerFits
<1>9. PendingFits'
  <2>1. Below(pending.ops, rt.next) /\ pending.ops \in Seq(Works)
    BY DEF CopyInv, PendingFits, Below
  <2>2. Below(pending.ops, rt'.next)
    BY <2>1, <1>r, BelowRises
  <2> QED
    BY <2>2, <1>1, <1>3, <1>6 DEF CopyInv, PendingFits, Below
<1>10. TargetFits'
  <2>1. Follows(Target, worker')
    BY <1>6 DEF CopyInv, TargetFits, Follows
  <2>2. worker'.rev # rt'.rev
    BY <1>w, <1>r, <1>6 DEF Copy
  <2>3. left'.returns = MaxReturns => Target.scene = worker'.scene
    BY <1>6 DEF CopyInv, TargetFits, LeftKept
  <2>4. Bare(Target)
    BY DEF CopyInv, TargetFits
  <2> QED
    BY <2>1, <2>2, <2>3, <2>4, <1>3 DEF TargetFits
<1> QED
  BY <1>2, <1>7, <1>8, <1>9, <1>10 DEF CopyInv

\* The worker takes a delta.
LEMMA DeltaAccepted ==
  ASSUME CopyInv, NEW ops, NEW op, Printable(ops, op),
         ~ApplyAll(worker, ops).failed, worker.rev = rt.rev, TakeDelta(DeltaOf(ops)),
         RuntimeKept(rt', rt.next + 1), rt'.rev = rt.rev + 1, LeftKept, UNCHANGED <<app, surface>>
  PROVE  CopyInv'
<1> DEFINE new == ApplyAll(worker, ops)  kept == Run("filter", <<>>, ops)  d == DeltaOf(ops)
           p == Merge(pending.ops, kept)  t == ApplyAll(Base, p)
<1>d. d.ops = ops /\ d.from = rt.rev /\ d.to = rt.rev + 1
  BY DEF DeltaOf
<1>t. Between(new, kept, rt.next + 1) /\ ops \in Seq(Works)
  BY DeltaTaken
<1>f. Filtered(d) = kept
  BY <1>d, <1>t, FilteredRuns
<1>1. /\ worker' = Idle([new EXCEPT !.rev = rt.rev + 1])
      /\ pending' = [pending EXCEPT !.from = IF pending.to = 0 THEN rt.rev ELSE @,
                                    !.to = rt.rev + 1, !.ops = p]
      /\ events' = events
  <2>1. ~(ApplyAll(worker, d.ops).failed \/ d.from # worker.rev)
    BY <1>d
  <2> HIDE DEF d, kept
  <2> QED
    BY <2>1, <1>d, <1>f DEF TakeDelta, d
<1>2. AppFits' /\ Sent' = Sent
  BY <1>1, AppStays DEF AppUntouched
<1>b. /\ Copy(new, GameLines) /\ ~new.failed /\ new.hidden = 0 /\ DOMAIN new = DOMAIN worker
      /\ Numbered(new.lines, rt.next + 1) /\ Bare(new)
      /\ p \in Seq(Works) /\ Sound(Base, p) /\ Single(p) /\ Below(p, rt.next + 1)
      /\ Follows(t, new) /\ Bare(t) /\ t.active = new.active
      /\ left.returns = MaxReturns => t.scene = new.scene
  BY <1>t DEF Between
<1>p. /\ pending \in [snapshot : Seq(Snapshots), from : Nat, to : Nat, ops : Seq(Works)]
      /\ pending.to = 0 => Base.rev = worker.rev
      /\ pending.to # 0 => pending.from = Base.rev
  BY DEF CopyInv, PendingFits
<1>r. /\ rt.rev \in Nat /\ rt.next \in Nat \ {0} /\ rt'.next = rt.next + 1 /\ rt'.rev = rt.rev + 1
      /\ left.returns \in Int /\ left.returns <= MaxReturns /\ rt.rev + 1 \in Nat /\ rt.rev + 1 # 0
  BY DEF CopyInv, RuntimeFits, RuntimeKept
<1>w. DOMAIN worker =
        {"rev", "lines", "hidden", "wait", "scene", "active", "failed", "phase", "command"}
  BY DEF CopyInv, WorkerFits
<1> HIDE DEF new, kept, p, t, d
<1>3. /\ pending'.snapshot = pending.snapshot /\ pending'.ops = p /\ pending'.to = rt.rev + 1
      /\ pending'.from = (IF pending.to = 0 THEN rt.rev ELSE pending.from)
      /\ pending' \in [snapshot : Seq(Snapshots), from : Nat, to : Nat, ops : Seq(Works)]
  BY <1>1, <1>p, <1>b, <1>r
<1>4. Base' = Base /\ Target' = t
  <2>1. Base' = Base
    BY <1>2, <1>3 DEF Base, BaseOf
  <2> QED
    BY <2>1, <1>3 DEF Target, t
<1> DEFINE w == [new EXCEPT !.rev = rt.rev + 1]
<1>5. /\ Copy(w, GameLines) /\ Bare(w) /\ w.rev = rt.rev + 1 /\ DOMAIN w = DOMAIN new
      /\ w.lines = new.lines /\ w.hidden = new.hidden /\ w.wait = new.wait /\ w.scene = new.scene
      /\ w.active = new.active /\ w.failed = new.failed
  <2>1. DOMAIN w = DOMAIN new
    OBVIOUS
  <2> QED
    BY <2>1, <1>b, <1>r, CopyRevised, ZenonT(40)
<1>6. Follows(t, w)
  BY <1>5, <1>b DEF Follows
<1>7. SameCopy(worker', w) /\ Copy(worker', GameLines) /\ Bare(worker') /\ Follows(t, worker')
  <2> HIDE DEF w
  <2> QED
    BY <1>1, <1>5, <1>6, IdleSame, SameIsCopy DEF w
<1>8. /\ DOMAIN worker' = DOMAIN worker /\ worker'.rev = rt.rev + 1 /\ worker'.lines = new.lines
      /\ worker'.hidden = new.hidden /\ worker'.scene = new.scene
      /\ worker'.active = new.active /\ worker'.failed = new.failed
  BY <1>5, <1>7, <1>b DEF SameCopy
<1> HIDE DEF w
<1>9. RuntimeFits'
  BY <1>r DEF RuntimeFits, RuntimeKept, LeftKept
<1>10. WorkerFits'
  BY <1>7, <1>8, <1>b, <1>r, <1>w DEF WorkerFits
<1>11. PendingFits'
  BY <1>3, <1>4, <1>8, <1>b, <1>p, <1>r DEF PendingFits, Below
<1>12. TargetFits'
  BY <1>4, <1>7, <1>8, <1>b DEF TargetFits, LeftKept
<1> QED
  BY <1>2, <1>9, <1>10, <1>11, <1>12 DEF CopyInv

\* What the game does to the surface can be sent.
LEMMA GamePrints ==
  ASSUME RuntimeFits, ~SceneAcrossGames, NEW tag \in Operations, NEW op \in Delta(tag)
  PROVE  /\ op \in Works /\ NextNumber(op, rt.next, rt.next + 1) /\ rt.next \in Nat
         /\ op.tag = "scene" => left.returns = MaxReturns
<1>r. /\ rt.rev \in Nat /\ rt.lines \in Seq(GameLines) /\ rt.wait \in Nat /\ rt.scene \in Nat
      /\ rt.game \in Nat /\ rt.next \in Nat \ {0} /\ Numbered(rt.lines, rt.next)
      /\ rt.next + 1 \in Nat /\ rt.next <= rt.next + 1
  BY DEF RuntimeFits
<1>t. tag \in {"append", "delete", "clear", "replace", "trim", "wait", "scene"}
  BY PresentationAssumption
<1>1. CASE tag = "append"
  <2>1. op = [tag |-> tag, line |-> Line(1)]
    BY <1>1 DEF Delta
  <2>2. Line(1) \in GameLines /\ Line(1).id = rt.next
    BY <1>r DEF Line, GameLines
  <2>3. op \in [tag : {"append", "replace"}, line : GameLines] /\ op.tag = "append" /\ op.line = Line(1)
    BY <2>1, <2>2, <1>1
  <2> QED
    BY <2>2, <2>3, <1>r DEF Works, NextNumber
<1>2. CASE tag \in {"delete", "trim"}
  <2>1. PICK n \in Counts : op = [tag |-> tag, count |-> n]
    BY <1>2 DEF Delta
  <2>2. n \in Nat
    BY <2>1 DEF Counts
  <2>3. op \in [tag : {"delete", "trim"}, count : Nat] /\ op.tag = tag
    BY <2>1, <2>2, <1>2
  <2> QED
    BY <2>3, <1>2, <1>r DEF Works, NextNumber
<1>3. CASE tag = "clear"
  <2>1. op = [tag |-> tag]
    BY <1>3 DEF Delta
  <2> QED
    BY <2>1, <1>3, <1>r DEF Works, NextNumber
<1>4. CASE tag = "replace"
  <2>1. PICK i \in DOMAIN rt.lines : op = [tag |-> tag, line |-> [rt.lines[i] EXCEPT !.text = 1 - @]]
    BY <1>4 DEF Delta
  <2>2. rt.lines[i] \in GameLines
    BY <1>r
  <2> DEFINE x == [rt.lines[i] EXCEPT !.text = 1 - @]
  <2>3. x \in GameLines /\ x.id = rt.lines[i].id
    BY <2>2 DEF GameLines
  <2>4. x.id \in Nat /\ x.id < rt.next
    BY <2>2, <2>3, <1>r DEF Numbered, GameLines
  <2>5. op = [tag |-> "replace", line |-> x]
    BY <2>1, <1>4
  <2> HIDE DEF x
  <2>6. op \in [tag : {"append", "replace"}, line : GameLines] /\ op.tag = "replace" /\ op.line = x
    BY <2>3, <2>5
  <2> QED
    BY <2>4, <2>6, <1>r DEF Works, NextNumber
<1>5. CASE tag = "wait"
  <2>1. PICK v \in {NoWait, rt.next} : op = [tag |-> tag, wait |-> v]
    BY <1>5 DEF Delta
  <2>2. v \in Nat
    BY <2>1, <1>r DEF NoWait
  <2>3. op \in [tag : {"wait"}, wait : Nat] /\ op.tag = "wait"
    BY <2>1, <2>2, <1>5
  <2> QED
    BY <2>3, <1>r DEF Works, NextNumber
<1>6. CASE tag = "scene"
  <2>1. op = [tag |-> tag, base |-> rt.scene, next |-> rt.scene + 1] /\ left.returns = MaxReturns
    BY <1>6 DEF Delta
  <2>2. op \in [tag : {"scene"}, base : Int, next : Nat] /\ op.tag = "scene"
    BY <2>1, <1>6, <1>r
  <2> QED
    BY <2>1, <2>2, <1>r DEF Works, NextNumber
<1> QED
  BY <1>t, <1>1, <1>2, <1>3, <1>4, <1>5, <1>6

\* The game prints, and the worker takes it or asks for the surface anew.
LEMMA EmitKeeps ==
  ASSUME CopyInv, ~SceneAcrossGames, Emit
  PROVE  CopyInv'
<1>0. PICK tag \in Operations : \E op \in Delta(tag) :
        LET ops == IF rt.fresh THEN <<[tag |-> "clear"], [tag |-> "wait", wait |-> NoWait], op>> ELSE <<op>>
        IN  rt' = [Printed(rt, ops) EXCEPT !.fresh = FALSE] /\ TakeDelta(DeltaOf(ops))
  BY DEF Emit
<1>1. PICK op \in Delta(tag) :
        LET ops == IF rt.fresh THEN <<[tag |-> "clear"], [tag |-> "wait", wait |-> NoWait], op>> ELSE <<op>>
        IN  rt' = [Printed(rt, ops) EXCEPT !.fresh = FALSE] /\ TakeDelta(DeltaOf(ops))
  BY <1>0
<1> DEFINE ops == IF rt.fresh THEN <<[tag |-> "clear"], [tag |-> "wait", wait |-> NoWait], op>> ELSE <<op>>
<1>2. rt' = [Printed(rt, ops) EXCEPT !.fresh = FALSE] /\ TakeDelta(DeltaOf(ops))
  BY <1>1
<1>3. Printable(ops, op)
  <2>1. /\ op \in Works /\ NextNumber(op, rt.next, rt.next + 1) /\ rt.next \in Nat
        /\ op.tag = "scene" => left.returns = MaxReturns
    BY GamePrints DEF CopyInv
  <2>2. ops = Append(<<>>, op) \/ ops = Append(Opening, op)
    BY DEF Opening
  <2> HIDE DEF ops
  <2> QED
    BY <2>1, <2>2 DEF Printable
<1> HIDE DEF ops
<1>4. RuntimeKept(rt', rt.next + 1) /\ rt'.rev = rt.rev + 1
  BY <1>2, <1>3, PrintedFits DEF CopyInv
<1>5. LeftKept /\ UNCHANGED <<app, surface>>
  <2>1. left' = [left EXCEPT !.outputs = @ - 1] /\ UNCHANGED <<app, surface>>
    BY DEF Emit
  <2>2. DOMAIN left = {"outputs", "returns", "faults", "boundaries"}
    BY DEF CopyInv, RuntimeFits
  <2> QED
    BY <2>1, <2>2 DEF LeftKept
<1>6. DeltaOf(ops).ops = ops /\ DeltaOf(ops).from = rt.rev
  BY DEF DeltaOf
<1>7. CASE ApplyAll(worker, ops).failed \/ rt.rev # worker.rev
  <2>1. ApplyAll(worker, DeltaOf(ops).ops).failed \/ DeltaOf(ops).from # worker.rev
    BY <1>6, <1>7
  <2> QED
    BY <2>1, <1>2, <1>4, <1>5, DeltaRefused
<1>8. CASE ~ApplyAll(worker, ops).failed /\ worker.rev = rt.rev
  BY <1>8, <1>2, <1>3, <1>4, <1>5, DeltaAccepted
<1> QED
  BY <1>7, <1>8

\* The runtime sends a delta the worker cannot apply.
LEMMA GarbleKeeps ==
  ASSUME CopyInv, Garble
  PROVE  CopyInv'
<1>1. PICK clear \in BOOLEAN :
        LET ops == IF clear THEN <<[tag |-> "clear"]>> ELSE <<[tag |-> "append", line |-> Line(1)]>>
        IN  rt' = Printed(rt, ops)
            /\ TakeDelta(DeltaOf(Append(ops, [tag |-> "scene", base |-> -1, next |-> 0])))
  BY DEF Garble
<1> DEFINE op == IF clear THEN [tag |-> "clear"] ELSE [tag |-> "append", line |-> Line(1)]
           ops == Append(<<>>, op)
           bad == [tag |-> "scene", base |-> -1, next |-> 0]
           d == DeltaOf(Append(ops, bad))
<1>2. rt' = Printed(rt, ops) /\ TakeDelta(d)
  BY <1>1
<1>r. /\ rt.rev \in Nat /\ rt.game \in Nat /\ rt.next \in Nat \ {0} /\ rt.next + 1 \in Nat /\ rt.next <= rt.next + 1
  BY DEF CopyInv, RuntimeFits
<1>o. op \in Works /\ NextNumber(op, rt.next, rt.next + 1) /\ op.tag \in {"clear", "append"}
  <2>1. CASE clear
    <3>1. op = [tag |-> "clear"]
      BY <2>1
    <3> HIDE DEF op
    <3> QED
      BY <3>1, <1>r DEF Works, NextNumber
  <2>2. CASE ~clear
    <3>1. op = [tag |-> "append", line |-> Line(1)]
      BY <2>2
    <3>2. Line(1) \in GameLines /\ Line(1).id = rt.next
      BY <1>r DEF Line, GameLines
    <3> HIDE DEF op
    <3>3. op \in [tag : {"append", "replace"}, line : GameLines] /\ op.tag = "append" /\ op.line = Line(1)
      BY <3>1, <3>2
    <3> QED
      BY <3>2, <3>3, <1>r DEF Works, NextNumber
  <2> QED
    BY <2>1, <2>2
<1> HIDE DEF op
<1>3. Printable(ops, op)
  BY <1>o, <1>r DEF Printable
<1>4. RuntimeKept(rt', rt.next + 1) /\ rt'.rev = rt.rev + 1
  BY <1>2, <1>3, PrintedFits DEF CopyInv
<1>5. LeftKept /\ UNCHANGED <<app, surface>>
  <2>1. left' = [left EXCEPT !.outputs = @ - 1, !.faults = @ - 1] /\ UNCHANGED <<app, surface>>
    BY DEF Garble
  <2>2. DOMAIN left = {"outputs", "returns", "faults", "boundaries"}
    BY DEF CopyInv, RuntimeFits
  <2> QED
    BY <2>1, <2>2 DEF LeftKept
<1>6. ApplyAll(worker, d.ops).failed
  <2>1. bad \in Works /\ ops \in Seq(Works) /\ d.ops = Append(ops, bad)
    <3>1. bad \in [tag : {"scene"}, base : Int, next : Nat]
      OBVIOUS
    <3> QED
      BY <3>1, <1>o DEF Works, DeltaOf
  <2>2. ApplyAll(worker, d.ops) = ApplyOperation(ApplyAll(worker, ops), bad)
    BY <2>1, ApplyMore
  <2> DEFINE u == ApplyAll(worker, ops)
  <2>3. Copy(u, GameLines)
    BY <2>1, OpsBare DEF CopyInv, WorkerFits
  <2> HIDE DEF u
  <2>4. bad.tag = "scene" /\ bad.base = -1
    OBVIOUS
  <2>5. Accepts(u, bad)
    BY <2>4 DEF Accepts, RetiredOperations
  <2>6. u.scene # -1
    BY <2>3 DEF Copy
  <2>7. Apply(u, bad).failed = (u.failed \/ (bad.tag = "scene" /\ bad.base # u.scene))
    <3> HIDE DEF bad
    <3> QED
      BY <2>1, <2>3, RestOf
  <2> HIDE DEF bad, d, ops
  <2>8. ApplyOperation(u, bad).failed
    BY <2>4, <2>5, <2>6, <2>7 DEF ApplyOperation
  <2> QED
    BY <2>2, <2>8 DEF u
<1> HIDE DEF d, ops
<1> QED
  BY <1>2, <1>4, <1>5, <1>6, DeltaRefused

\* A step that touches no copy.
LEMMA CopiesUntouched ==
  ASSUME CopyInv, UNCHANGED <<rt, worker, pending, events, app, surface>>, LeftKept
  PROVE  CopyInv'
<1>1. rt' = rt /\ worker' = worker /\ pending' = pending /\ events' = events /\ app' = app /\ surface' = surface
  OBVIOUS
<1>2. AppFits' /\ Sent' = Sent
  BY <1>1, AppStays DEF AppUntouched
<1>3. Base' = Base /\ Target' = Target
  BY <1>1, <1>2 DEF Base, Target
<1>4. RuntimeFits' /\ WorkerFits' /\ PendingFits' /\ TargetFits'
  BY <1>1, <1>3 DEF CopyInv, RuntimeFits, WorkerFits, PendingFits, TargetFits, LeftKept
<1> QED
  BY <1>2, <1>4 DEF CopyInv

\* The game stops, or comes to a wait.
LEMMA StopKeeps ==
  ASSUME CopyInv, Stop
  PROVE  CopyInv'
<1>1. left' = [left EXCEPT !.boundaries = @ - 1] /\ UNCHANGED <<rt, worker, pending, events, app, surface>>
  BY DEF Stop
<1>2. DOMAIN left = {"outputs", "returns", "faults", "boundaries"}
  BY DEF CopyInv, RuntimeFits
<1> QED
  BY <1>1, <1>2, CopiesUntouched DEF LeftKept

\* Nothing to do finds what it needs.
LEMMA NothingSound ==
  ASSUME NEW c, Copy(c, GameLines), ~c.failed, Unlike(c.lines)
  PROVE  Sound(c, <<>>) /\ Single(<<>>) /\ ApplyAll(c, <<>>) = c /\ Below(<<>>, 0)
<1>1. <<>> \in Seq(Works) /\ Len(<<>>) = 0 /\ DOMAIN <<>> = {}
  OBVIOUS
<1>2. After(c, <<>>, 0) = c
  BY <1>1, AfterNone
<1>3. ApplyAll(c, <<>>) = c
  BY <1>1, AllRuns, RunNone
<1>4. Sound(c, <<>>)
  <2> SUFFICES ASSUME NEW i \in 0..0
               PROVE  /\ Copy(After(c, <<>>, i), GameLines) /\ ~After(c, <<>>, i).failed
                      /\ Unlike(After(c, <<>>, i).lines)
                      /\ i > 0 => Accepts(After(c, <<>>, i - 1), <<>>[i])
    BY <1>1 DEF Sound
  <2>1. i = 0
    OBVIOUS
  <2> QED
    BY <2>1, <1>2
<1>5. Single(<<>>) /\ Below(<<>>, 0)
  BY <1>1 DEF Single, RegionOf, Below
<1> QED
  BY <1>3, <1>4, <1>5

\* The copies with nothing pending: u is what the app will have.
LEMMA NothingPending ==
  ASSUME NEW u, Copy(u, GameLines), ~u.failed, Unlike(u.lines), Base' = u, pending'.ops = <<>>,
         pending'.to = 0, pending'.from = 0, pending'.snapshot \in Seq(Snapshots),
         pending' \in [snapshot : Seq(Snapshots), from : Nat, to : Nat, ops : Seq(Works)],
         u.rev = worker'.rev
  PROVE  PendingFits' /\ Target' = u
<1>1. Sound(u, <<>>) /\ Single(<<>>) /\ ApplyAll(u, <<>>) = u
  BY NothingSound
<1>2. Target' = u
  BY <1>1 DEF Target
<1>3. \A i \in DOMAIN <<>> : Lined(<<>>[i]) => <<>>[i].line.id < rt'.next
  OBVIOUS
<1>4. PendingFits'
  BY <1>1, <1>3 DEF PendingFits
<1> QED
  BY <1>2, <1>4

\* The worker takes a snapshot.
LEMMA SnapshotTaken ==
  ASSUME CopyInv, NEW s \in Snapshots, TakeSnapshot(s), RuntimeKept(rt', rt.next), s.rev = rt'.rev,
         Numbered(s.lines, rt.next), UNCHANGED <<app, surface, left>>
  PROVE  CopyInv'
<1> DEFINE new == [worker EXCEPT !.rev = s.rev, !.lines = s.lines, !.scene = s.scene,
                                 !.wait = s.wait, !.active = FALSE]
           u == Fit(Fresh(s))
<1>s. s.rev \in Nat /\ s.lines \in Seq(GameLines) /\ s.wait \in Nat /\ s.scene \in Nat
  BY DEF Snapshots
<1>1. /\ worker' = Idle(new) /\ pending' = [NoPending EXCEPT !.snapshot = <<s>>]
      /\ events' = events
  BY DEF TakeSnapshot
<1>2. AppFits' /\ Sent' = Sent
  BY <1>1, AppStays DEF AppUntouched
<1>w. /\ Copy(worker, GameLines) /\ ~worker.failed /\ worker.hidden = 0
      /\ DOMAIN worker =
           {"rev", "lines", "hidden", "wait", "scene", "active", "failed", "phase", "command"}
  BY DEF CopyInv, WorkerFits
<1>3. /\ DOMAIN new = DOMAIN worker /\ new.rev = s.rev /\ new.lines = s.lines /\ new.scene = s.scene
      /\ new.wait = s.wait /\ new.active = FALSE /\ new.hidden = 0 /\ ~new.failed
      /\ new.failed = worker.failed
  BY <1>w
<1> HIDE DEF new
<1>4. Copy(new, GameLines) /\ Bare(new)
  BY <1>3, <1>s, <1>w DEF Copy, Bare
<1>5. SameCopy(worker', new) /\ Copy(worker', GameLines) /\ Bare(worker')
  BY <1>1, <1>4, IdleSame, SameIsCopy
<1>6. /\ DOMAIN worker' = DOMAIN worker /\ worker'.rev = s.rev /\ worker'.lines = s.lines
      /\ worker'.scene = s.scene /\ worker'.wait = s.wait /\ worker'.active = FALSE
      /\ worker'.hidden = 0 /\ ~worker'.failed
  BY <1>3, <1>5 DEF SameCopy
<1>f. /\ Copy(Fresh(s), GameLines) /\ Bare(Fresh(s)) /\ Fresh(s).lines = s.lines /\ Fresh(s).hidden = 0
      /\ Fresh(s).wait = s.wait /\ Fresh(s).rev = s.rev /\ Fresh(s).scene = s.scene
      /\ Fresh(s).active = FALSE /\ Fresh(s).failed = FALSE /\ \A c : AppSnapshot(c, s) = Fit(Fresh(s))
  BY <1>s, FreshCopy
<1>7. Follows(Fresh(s), worker') /\ Unlike(Fresh(s).lines)
  <2>1. EndOf(s.lines, s.lines, 0)
    BY <1>s DEF EndOf
  <2> QED
    BY <2>1, <1>6, <1>f DEF Follows, Numbered
<1>8. /\ Copy(u, GameLines) /\ Follows(u, worker') /\ Unlike(u.lines) /\ u.active = FALSE
      /\ u.scene = s.scene /\ u.rev = s.rev /\ ~u.failed /\ Bare(u)
  BY <1>5, <1>7, <1>f, FitsFollow
<1>9. /\ pending'.snapshot = <<s>> /\ pending'.from = 0 /\ pending'.to = 0 /\ pending'.ops = <<>>
      /\ pending' \in [snapshot : Seq(Snapshots), from : Nat, to : Nat, ops : Seq(Works)]
  <2>1. <<s>> \in Seq(Snapshots) /\ <<>> \in Seq(Works)
    OBVIOUS
  <2> QED
    BY <2>1, <1>1 DEF NoPending
<1>10. Base' = u
  <2>1. pending'.snapshot # <<>> /\ pending'.snapshot[1] = s
    BY <1>9
  <2>2. BaseOf(pending', Sent') = AppSnapshot(Sent', s)
    BY <2>1 DEF BaseOf
  <2> QED
    BY <2>2, <1>f DEF Base
<1> HIDE DEF u
<1>11. PendingFits' /\ Target' = u
  <2>1. u.rev = worker'.rev /\ pending'.snapshot \in Seq(Snapshots)
    BY <1>6, <1>8, <1>9
  <2> QED
    BY <2>1, <1>8, <1>9, <1>10, NothingPending
<1>12. WorkerFits'
  <2>1. rt'.next = rt.next /\ s.rev <= rt'.rev
    BY <1>s DEF RuntimeKept
  <2> QED
    BY <2>1, <1>5, <1>6, <1>w DEF WorkerFits
<1>13. TargetFits'
  BY <1>6, <1>8, <1>11 DEF TargetFits
<1>14. RuntimeFits'
  BY DEF CopyInv, RuntimeFits, RuntimeKept
<1> QED
  BY <1>2, <1>11, <1>12, <1>13, <1>14 DEF CopyInv

\* The runtime answers a command: it resynchronizes, returns or rejects.
LEMMA AnswerKeeps ==
  ASSUME CopyInv, Answer
  PROVE  CopyInv'
<1> DEFINE command == Head(inbox)
           title == [rt EXCEPT !.rev = @ + 1, !.lines = <<>>, !.wait = NoWait, !.game = @ + 1, !.fresh = FALSE]
           other == [title EXCEPT !.rev = rt.rev, !.fresh = TRUE]
           same == [rt EXCEPT !.fresh = FALSE]
<1>r. /\ {"rev", "lines", "wait", "scene", "game", "next", "fresh"} = DOMAIN rt
      /\ rt.rev \in Nat /\ rt.lines \in Seq(GameLines) /\ rt.wait \in Nat /\ rt.scene \in Nat
      /\ rt.game \in Nat /\ rt.next \in Nat \ {0} /\ rt.fresh \in BOOLEAN
      /\ Numbered(rt.lines, rt.next) /\ rt.rev + 1 \in Nat /\ rt.game + 1 \in Nat
      /\ DOMAIN left = {"outputs", "returns", "faults", "boundaries"}
  BY DEF CopyInv, RuntimeFits
<1>e. Numbered(<<>>, rt.next) /\ <<>> \in Seq(GameLines) /\ NoWait \in Nat
  <2>1. DOMAIN <<>> = {}
    OBVIOUS
  <2>2. Numbered(<<>>, rt.next)
    BY <2>1 DEF Numbered, Unlike
  <2> QED
    BY <2>2 DEF NoWait
<1>u. UNCHANGED <<app, surface, left>>
  BY DEF Answer
<1>t. /\ DOMAIN title = DOMAIN rt /\ title.rev = rt.rev + 1 /\ title.lines = <<>> /\ title.wait = NoWait
      /\ title.game = rt.game + 1 /\ title.fresh = FALSE /\ title.next = rt.next /\ title.scene = rt.scene
  BY <1>r
<1>k. RuntimeKept(title, rt.next)
  <2> HIDE DEF title
  <2> QED
    BY <1>t, <1>r, <1>e DEF RuntimeKept
<1>o. /\ DOMAIN other = DOMAIN rt /\ other.rev = rt.rev /\ other.lines = <<>> /\ other.wait = NoWait
      /\ other.game = rt.game + 1 /\ other.fresh = TRUE /\ other.next = rt.next /\ other.scene = rt.scene
  <2> HIDE DEF title
  <2> QED
    BY <1>t, <1>r
<1>a. /\ DOMAIN same = DOMAIN rt /\ same.rev = rt.rev /\ same.lines = rt.lines /\ same.wait = rt.wait
      /\ same.game = rt.game /\ same.fresh = FALSE /\ same.next = rt.next /\ same.scene = rt.scene
  BY <1>r
<1>d. \/ TakeSnapshot(SnapshotOf(rt)) /\ rt' = same
      \/ rt' = title /\ TakeSnapshot(SnapshotOf(title))
      \/ rt' = other /\ UNCHANGED <<worker, pending, pump, deferred, events>>
      \/ TakeRejection(command.id) /\ UNCHANGED rt
  BY DEF Answer
<1> HIDE DEF title, other, same, command
<1>1. CASE TakeSnapshot(SnapshotOf(rt)) /\ rt' = same
  <2>1. /\ SnapshotOf(rt) \in Snapshots /\ SnapshotOf(rt).rev = rt.rev /\ SnapshotOf(rt).lines = rt.lines
    BY <1>r DEF SnapshotOf, Snapshots
  <2>2. RuntimeKept(rt', rt.next) /\ rt'.rev = rt.rev
    BY <1>1, <1>a, <1>r DEF RuntimeKept
  <2> QED
    BY <2>1, <2>2, <1>1, <1>r, <1>u, SnapshotTaken
<1>2. CASE rt' = title /\ TakeSnapshot(SnapshotOf(title))
  <2>1. /\ SnapshotOf(title) \in Snapshots /\ SnapshotOf(title).rev = title.rev /\ SnapshotOf(title).lines = <<>>
    BY <1>t, <1>r, <1>e DEF SnapshotOf, Snapshots
  <2> QED
    BY <2>1, <1>2, <1>e, <1>k, <1>u, SnapshotTaken
<1>3. CASE rt' = other /\ UNCHANGED <<worker, pending, pump, deferred, events>>
  <2>1. AppFits' /\ Sent' = Sent
    BY <1>3, <1>u, AppStays DEF AppUntouched
  <2>2. Base' = Base /\ Target' = Target
    BY <1>3, <2>1 DEF Base, Target
  <2>3. RuntimeFits'
    BY <1>3, <1>o, <1>r, <1>e, <1>u DEF CopyInv, RuntimeFits
  <2>4. WorkerFits'
    BY <1>3, <1>o DEF CopyInv, WorkerFits
  <2>5. PendingFits'
    BY <1>3, <2>2, <1>o DEF CopyInv, PendingFits
  <2>6. TargetFits'
    BY <1>3, <2>2, <1>o, <1>u DEF CopyInv, TargetFits
  <2> QED
    BY <2>1, <2>3, <2>4, <2>5, <2>6 DEF CopyInv
<1>4. CASE TakeRejection(command.id) /\ UNCHANGED rt
  <2>1. (worker' = Resynchronizing(worker) \/ worker' = worker) /\ UNCHANGED <<pending, pump, events>>
    BY <1>4 DEF TakeRejection
  <2>2. AppFits' /\ Sent' = Sent
    BY <2>1, <1>u, AppStays DEF AppUntouched
  <2>3. Base' = Base /\ Target' = Target
    BY <2>1, <2>2 DEF Base, Target
  <2>w. /\ Copy(worker, GameLines) /\ Bare(worker) /\ ~worker.failed /\ worker.hidden = 0
        /\ DOMAIN worker =
             {"rev", "lines", "hidden", "wait", "scene", "active", "failed", "phase", "command"}
        /\ Numbered(worker.lines, rt.next) /\ worker.rev <= rt.rev
    BY DEF CopyInv, WorkerFits
  <2>4. SameCopy(worker', worker)
    BY <2>1, <2>w, IdleSame DEF SameCopy
  <2>5. Copy(worker', GameLines) /\ Bare(worker') /\ \A u : Follows(u, worker) => Follows(u, worker')
    BY <2>4, <2>w, SameIsCopy
  <2>6. /\ DOMAIN worker' = DOMAIN worker /\ worker'.rev = worker.rev /\ worker'.lines = worker.lines
        /\ worker'.hidden = worker.hidden /\ worker'.scene = worker.scene
        /\ worker'.active = worker.active /\ worker'.failed = worker.failed
    BY <2>4 DEF SameCopy
  <2>7. RuntimeFits'
    BY <1>4, <1>u DEF CopyInv, RuntimeFits
  <2>8. WorkerFits'
    BY <1>4, <2>5, <2>6, <2>w DEF WorkerFits
  <2>9. PendingFits'
    BY <1>4, <2>1, <2>3, <2>6 DEF CopyInv, PendingFits
  <2>10. TargetFits'
    BY <1>4, <1>u, <2>3, <2>5, <2>6 DEF CopyInv, TargetFits
  <2> QED
    BY <2>2, <2>7, <2>8, <2>9, <2>10 DEF CopyInv
<1> QED
  BY <1>d, <1>1, <1>2, <1>3, <1>4

\* A step of the app, or one that only moves what is under way.
LEMMA SentSame ==
  ASSUME CopyInv, UNCHANGED <<rt, worker, pending, left>>, Sent' = Sent, AppFits'
  PROVE  CopyInv'
<1>1. rt' = rt /\ worker' = worker /\ pending' = pending /\ left' = left
  OBVIOUS
<1>2. Base' = Base /\ Target' = Target
  BY <1>1 DEF Base, Target
<1>3. RuntimeFits' /\ WorkerFits' /\ PendingFits' /\ TargetFits'
  BY <1>1, <1>2 DEF CopyInv, RuntimeFits, WorkerFits, PendingFits, TargetFits
<1> QED
  BY <1>3 DEF CopyInv

\* An event is sent.
LEMMA EventSent ==
  ASSUME CopyInv, NEW e \in Messages, events' = Append(events, e), UNCHANGED <<app, surface>>,
         e.kind = "batch" /\ e.wait # NoWait => CopyAfter(Sent, e).wait = e.wait
  PROVE  AppFits' /\ Sent' = CopyAfter(Sent, e)
<1>a. /\ events \in Seq(Messages)
      /\ DOMAIN app = {"copy", "wait"} /\ app.wait \in Nat /\ Copy(app.copy, GameLines)
      /\ Bare(app.copy) /\ (app.wait # NoWait => app.copy.wait = app.wait)
      /\ DOMAIN surface = {"lines", "painted", "callbacks"}
      /\ app.copy.active => surface.lines = <<>>
      /\ \A k \in 1..Len(events) :
           events[k].kind = "batch" /\ events[k].wait # NoWait =>
             Heard(app.copy, events, k).wait = events[k].wait
  BY DEF CopyInv, AppFits
<1>n. PICK n \in Nat : n = Len(events)
  BY <1>a
<1> DEFINE more == Append(events, e)
<1>1. more \in Seq(Messages) /\ Len(more) = n + 1 /\ more[n + 1] = e /\ \A k \in 1..n : more[k] = events[k]
  BY <1>a, <1>n
<1>2. /\ \A k \in 0..n : Heard(app.copy, more, k) = Heard(app.copy, events, k)
      /\ Heard(app.copy, more, n + 1) = CopyAfter(Sent, e)
      /\ FoldLeft(CopyAfter, app.copy, more) = CopyAfter(Sent, e)
  <2>1. FoldLeft(CopyAfter, app.copy, events) = Sent
    BY DEF Sent
  <2>2. /\ \A k \in 0..Len(events) : Heard(app.copy, more, k) = Heard(app.copy, events, k)
        /\ Heard(app.copy, more, Len(events) + 1) = CopyAfter(FoldLeft(CopyAfter, app.copy, events), e)
    BY <1>a, HeardAppend
  <2>3. FoldLeft(CopyAfter, app.copy, more) = CopyAfter(FoldLeft(CopyAfter, app.copy, events), e)
    BY <1>a, EventMore
  <2> HIDE DEF more
  <2> QED
    BY <2>1, <2>2, <2>3, <1>n
<1> HIDE DEF more
<1>3. app' = app /\ surface' = surface /\ events' = more
  BY DEF more
<1>4. ASSUME NEW k \in 1..(n + 1), more[k].kind = "batch", more[k].wait # NoWait
      PROVE  Heard(app.copy, more, k).wait = more[k].wait
  <2>1. CASE k \in 1..n
    <3>1. k \in 0..n /\ more[k] = events[k] /\ k \in 1..Len(events)
      BY <2>1, <1>1, <1>n
    <3> QED
      BY <3>1, <1>2, <1>4, <1>a
  <2>2. CASE k = n + 1
    BY <2>2, <1>1, <1>2, <1>4
  <2>3. k \in 1..n \/ k = n + 1
    OBVIOUS
  <2> QED
    BY <2>1, <2>2, <2>3
<1>5. AppFits'
  BY <1>1, <1>3, <1>4, <1>a DEF AppFits
<1>6. Sent' = CopyAfter(Sent, e)
  <2>1. Sent' = FoldLeft(CopyAfter, app.copy, more)
    BY <1>3 DEF Sent
  <2> QED
    BY <2>1, <1>2
<1> QED
  BY <1>5, <1>6

\* What the app has once it took what is pending.
Caught(u) ==
  /\ Copy(u, GameLines) /\ ~u.failed /\ Unlike(u.lines) /\ u.rev = worker.rev
  /\ Follows(u, worker) /\ Bare(u) /\ u.active = Target.active /\ u.scene = Target.scene

\* With nothing pending the app is to have what it was sent.
LEMMA TargetCopy ==
  ASSUME CopyInv
  PROVE  /\ Copy(Target, GameLines) /\ ~Target.failed /\ Unlike(Target.lines)
         /\ pending.to = 0 => Target = Base /\ Caught(Base)
         /\ pending = NoPending => Base = Sent /\ Caught(Sent)
<1>1. pending.ops \in Seq(Works) /\ Sound(Base, pending.ops)
  BY DEF CopyInv, PendingFits
<1>2. After(Base, pending.ops, Len(pending.ops)) = Target /\ Len(pending.ops) \in 0..Len(pending.ops)
  BY <1>1, AfterAll DEF Target
<1>3. Copy(Target, GameLines) /\ ~Target.failed /\ Unlike(Target.lines)
  BY <1>1, <1>2 DEF Sound
<1>4. ASSUME pending.to = 0 PROVE Target = Base /\ Caught(Base)
  <2>1. pending.ops = <<>> /\ Base.rev = worker.rev
    BY <1>4 DEF CopyInv, PendingFits
  <2>2. Target = Base
    <3>1. After(Base, pending.ops, 0) = Base /\ Len(pending.ops) = 0
      BY <2>1, <1>1, AfterNone
    <3> QED
      BY <3>1, <1>2
  <2> QED
    BY <2>1, <2>2, <1>3 DEF CopyInv, TargetFits, Caught
<1>5. ASSUME pending = NoPending PROVE Base = Sent /\ Caught(Sent)
  <2>1. pending.snapshot = <<>> /\ pending.to = 0
    BY <1>5 DEF NoPending
  <2>2. Base = Sent
    BY <2>1 DEF Base, BaseOf
  <2> QED
    BY <2>1, <2>2, <1>4
<1> QED
  BY <1>3, <1>4, <1>5

\* The batch with everything that is pending.
WholeBatch == Batch(pending.snapshot, PendingDelta, TRUE)

\* It brings the app's copy to the surface of the worker.
LEMMA BatchCatches ==
  ASSUME CopyInv, NEW e, e = WholeBatch
  PROVE  e \in Messages /\ e.kind = "batch" /\ e.wait = worker.wait /\ Caught(CopyAfter(Sent, e))
<1> DEFINE d == [from |-> pending.from, to |-> pending.to, ops |-> pending.ops]
<1>p. /\ pending \in [snapshot : Seq(Snapshots), from : Nat, to : Nat, ops : Seq(Works)]
      /\ pending.to # 0 => pending.from = Base.rev /\ pending.to = worker.rev
  BY DEF CopyInv, PendingFits
<1>w. worker.wait \in Nat
  BY DEF CopyInv, WorkerFits, Copy
<1>1. d \in Deltas /\ d.from = pending.from /\ d.to = pending.to /\ d.ops = pending.ops
  BY <1>p DEF Deltas
<1>2. PendingDelta = IF pending.to = 0 THEN <<>> ELSE <<d>>
  BY DEF PendingDelta
<1> HIDE DEF d
<1>3. PendingDelta \in Seq(Deltas)
  BY <1>1, <1>2
<1>4. /\ e = [kind |-> "batch", snapshot |-> pending.snapshot, delta |-> PendingDelta,
              wait |-> worker.wait, render |-> TRUE]
  BY DEF Batch, WholeBatch
<1>5. e \in Messages /\ e.kind = "batch" /\ e.wait = worker.wait /\ e.snapshot = pending.snapshot
      /\ e.delta = PendingDelta
  <2>1. /\ e.kind = "batch" /\ e.wait = worker.wait /\ e.snapshot = pending.snapshot
        /\ e.delta = PendingDelta
    BY <1>4
  <2>2. pending.snapshot \in Seq(Snapshots)
    BY <1>p
  <2>3. e \in [kind : {"batch"}, snapshot : Seq(Snapshots), delta : Seq(Deltas), wait : Nat, render : BOOLEAN]
    BY <2>2, <1>3, <1>4, <1>w
  <2> QED
    BY <2>1, <2>3 DEF Messages
<1>6. CopyAfter(Sent, e) = IF PendingDelta # <<>> THEN AppDelta(Base, PendingDelta[1]) ELSE Base
  <2>1. (IF e.snapshot # <<>> THEN AppSnapshot(Sent, e.snapshot[1]) ELSE Sent) = Base
    BY <1>5 DEF Base, BaseOf
  <2> QED
    BY <2>1, <1>5 DEF CopyAfter
<1>7. CASE pending.to = 0
  <2>1. CopyAfter(Sent, e) = Base
    BY <1>2, <1>6, <1>7
  <2> QED
    BY <2>1, <1>5, <1>7, TargetCopy
<1>8. CASE pending.to # 0
  <2>1. CopyAfter(Sent, e) = AppDelta(Base, d)
    <3>1. <<d>> # <<>> /\ <<d>>[1] = d
      OBVIOUS
    <3> QED
      BY <3>1, <1>2, <1>6, <1>8
  <2>2. Copy(Target, GameLines) /\ ~Target.failed /\ Unlike(Target.lines)
    BY TargetCopy
  <2> DEFINE f == Fit(Target)  u == [f EXCEPT !.rev = d.to]
  <2>3. AppDelta(Base, d) = u
    <3>1. d.from = Base.rev /\ ApplyAll(Base, d.ops) = Target
      BY <1>1, <1>8, <1>p DEF Target
    <3> QED
      BY <3>1, <2>2 DEF AppDelta
  <2>4. Follows(Target, worker) /\ Bare(Target) /\ Copy(worker, GameLines)
    BY DEF CopyInv, TargetFits, WorkerFits
  <2>5. /\ Copy(f, GameLines) /\ Follows(f, worker) /\ Unlike(f.lines)
        /\ f.active = Target.active /\ f.scene = Target.scene /\ f.failed = Target.failed /\ Bare(f)
    BY <2>2, <2>4, FitsFollow
  <2>6. d.to \in Nat /\ d.to = worker.rev
    BY <1>1, <1>8, <1>p
  <2> HIDE DEF f
  <2>7. /\ Copy(u, GameLines) /\ u.rev = d.to /\ u.lines = f.lines /\ u.hidden = f.hidden /\ u.wait = f.wait
        /\ u.scene = f.scene /\ u.active = f.active /\ u.failed = f.failed /\ Bare(u)
    BY <2>5, <2>6, CopyRevised
  <2> HIDE DEF u
  <2>8. Follows(u, worker)
    BY <2>5, <2>7 DEF Follows
  <2>9. Caught(u)
    BY <2>2, <2>5, <2>6, <2>7, <2>8 DEF Caught
  <2> QED
    BY <2>1, <2>3, <2>9, <1>5
<1> QED
  BY <1>7, <1>8

\* Nothing is pending any more.
LEMMA NothingLeftPending ==
  ASSUME CopyInv, pending' = NoPending, UNCHANGED rt, NEW u, Sent' = u, AppFits',
         Copy(u, GameLines), ~u.failed, Unlike(u.lines), u.rev = worker'.rev,
         WorkerFits', RuntimeFits', Follows(u, worker'), Bare(u),
         worker'.rev = rt'.rev => u.active = worker'.active,
         left'.returns = MaxReturns => u.scene = worker'.scene
  PROVE  CopyInv'
<1>1. /\ pending'.snapshot = <<>> /\ pending'.from = 0 /\ pending'.to = 0 /\ pending'.ops = <<>>
      /\ pending' \in [snapshot : Seq(Snapshots), from : Nat, to : Nat, ops : Seq(Works)]
  <2>1. <<>> \in Seq(Works) /\ <<>> \in Seq(Snapshots)
    OBVIOUS
  <2> QED
    BY <2>1 DEF NoPending
<1>2. Base' = u
  BY <1>1 DEF Base, BaseOf
<1>3. PendingFits' /\ Target' = u
  BY <1>1, <1>2, NothingPending
<1>4. TargetFits'
  BY <1>3 DEF TargetFits
<1> QED
  BY <1>3, <1>4 DEF CopyInv

\* The worker leaves the game: both copies are retired.
LEMMA ReturnKeeps ==
  ASSUME CopyInv, ReturnToTitle
  PROVE  CopyInv'
<1> DEFINE e == [kind |-> "reset", rev |-> worker.rev]
           w == [worker EXCEPT !.lines = <<>>, !.wait = NoWait, !.active = TRUE,
                               !.phase = "retired", !.command = left.returns]
           u == EmptyCopy(worker.rev, 0, TRUE)
<1>1. /\ left.returns > 0 /\ left' = [left EXCEPT !.returns = @ - 1] /\ worker' = w
      /\ pending' = NoPending /\ events' = Append(events, e) /\ rt' = rt
      /\ UNCHANGED <<app, surface>>
  BY DEF ReturnToTitle
<1>w. /\ Copy(worker, GameLines) /\ ~worker.failed /\ worker.hidden = 0
      /\ DOMAIN worker =
           {"rev", "lines", "hidden", "wait", "scene", "active", "failed", "phase", "command"}
      /\ worker.rev \in Nat /\ worker.rev <= rt.rev /\ worker.scene \in Nat
  BY DEF CopyInv, WorkerFits, Copy
<1>r. left.returns \in Int /\ left.returns <= MaxReturns
      /\ DOMAIN left = {"outputs", "returns", "faults", "boundaries"} /\ MaxReturns \in Int
  <2>1. MaxReturns \in Int
    BY PresentationAssumption
  <2> QED
    BY <2>1 DEF CopyInv, RuntimeFits
<1>2. /\ DOMAIN w = DOMAIN worker /\ w.rev = worker.rev /\ w.lines = <<>> /\ w.hidden = 0
      /\ w.wait = NoWait /\ w.active = TRUE /\ w.failed = worker.failed /\ w.scene = worker.scene
  BY <1>w
<1>3. e \in Messages /\ e.kind = "reset" /\ e.rev = worker.rev
  BY <1>w DEF Messages
<1> HIDE DEF e, w
<1>4. CopyAfter(Sent, e) = u
  BY <1>3 DEF CopyAfter
<1>5. AppFits' /\ Sent' = u
  BY <1>1, <1>3, <1>4, EventSent
<1>6. /\ DOMAIN u = {"rev", "lines", "hidden", "wait", "scene", "active", "failed"} /\ u.rev = worker.rev
      /\ u.lines = <<>> /\ u.hidden = 0 /\ u.wait = NoWait /\ u.scene = 0 /\ u.active = TRUE
      /\ u.failed = FALSE
  BY DEF EmptyCopy
<1> HIDE DEF u
<1>e. <<>> \in Seq(GameLines) /\ Unlike(<<>>) /\ Numbered(<<>>, rt.next) /\ EndOf(<<>>, <<>>, 0) /\ NoWait \in Nat
  <2>1. DOMAIN <<>> = {} /\ Len(<<>>) = 0
    OBVIOUS
  <2> QED
    BY <2>1 DEF Unlike, Numbered, EndOf, NoWait
<1>7. Copy(u, GameLines) /\ Bare(u) /\ Unlike(u.lines)
  <2>1. u.active \in BOOLEAN /\ u.failed \in BOOLEAN
    BY <1>6
  <2>2. u.lines \in Seq(GameLines) /\ u.rev \in Nat /\ u.hidden \in Nat /\ u.wait \in Nat /\ u.scene \in Nat
    BY <1>6, <1>e, <1>w
  <2>3. {"rev", "lines", "hidden", "wait", "scene", "active", "failed"} \subseteq DOMAIN u
    BY <1>6
  <2> QED
    BY <2>1, <2>2, <2>3, <1>6, <1>e DEF Copy, Bare
<1>8. Copy(w, GameLines) /\ Bare(w)
  <2>1. w.active \in BOOLEAN /\ w.failed \in BOOLEAN
    BY <1>2, <1>w DEF Copy
  <2>2. w.lines \in Seq(GameLines) /\ w.rev \in Nat /\ w.hidden \in Nat /\ w.wait \in Nat /\ w.scene \in Nat
    BY <1>2, <1>e, <1>w
  <2>3. {"rev", "lines", "hidden", "wait", "scene", "active", "failed"} \subseteq DOMAIN w
    BY <1>2, <1>w
  <2> QED
    BY <2>1, <2>2, <2>3, <1>2 DEF Copy, Bare
<1>9. WorkerFits'
  BY <1>1, <1>2, <1>8, <1>e, <1>w DEF WorkerFits
<1>10. RuntimeFits'
  <2>1. left'.returns \in Int /\ left'.returns <= MaxReturns
        /\ DOMAIN left' = {"outputs", "returns", "faults", "boundaries"}
    BY <1>1, <1>r
  <2> QED
    BY <2>1, <1>1 DEF CopyInv, RuntimeFits
<1>11. left'.returns # MaxReturns
  BY <1>1, <1>r
<1>12. Follows(u, worker')
  BY <1>1, <1>2, <1>6, <1>e DEF Follows
<1> QED
  BY <1>1, <1>2, <1>5, <1>6, <1>7, <1>9, <1>10, <1>11, <1>12, NothingLeftPending

\* The worker begins to drive the runtime.
LEMMA DriveKeeps ==
  ASSUME CopyInv, Drive
  PROVE  CopyInv'
<1>1. UNCHANGED <<rt, worker, pending, events, app, surface, left>>
  BY DEF Drive
<1>2. LeftKept
  BY <1>1 DEF CopyInv, RuntimeFits, LeftKept
<1> QED
  BY <1>1, <1>2, CopiesUntouched

\* A pump ends, and what is pending goes to the app or waits.
LEMMA EndPumpKeeps ==
  ASSUME CopyInv, EndPump
  PROVE  CopyInv'
<1>1. events' = events \o Flushed /\ pending' = (IF Visible THEN NoPending ELSE pending)
      /\ UNCHANGED <<rt, worker, app, surface, left>>
  BY DEF EndPump
<1>a. events \in Seq(Messages)
  BY DEF CopyInv, AppFits
<1>w. worker.wait \in Nat
  BY DEF CopyInv, WorkerFits, Copy
<1>s. LeftKept
  BY <1>1 DEF CopyInv, RuntimeFits, LeftKept
<1>2. CASE Visible
  <2> DEFINE e == WholeBatch
  <2>1. (Flushed = <<e>>) \/ (Flushed = <<>> /\ pending = NoPending)
    BY <1>2 DEF Flushed, WholeBatch
  <2>2. e \in Messages /\ e.kind = "batch" /\ e.wait = worker.wait /\ Caught(CopyAfter(Sent, e))
    BY BatchCatches
  <2> HIDE DEF e
  <2>3. CASE Flushed = <<e>>
    <3>1. events' = Append(events, e)
      <4>1. events \o <<e>> = Append(events, e)
        BY <1>a, <2>2
      <4> QED
        BY <4>1, <1>1, <2>3
    <3> DEFINE u == CopyAfter(Sent, e)
    <3>2. u.wait = worker.wait
      BY <2>2 DEF Caught, Follows
    <3>3. AppFits' /\ Sent' = u
      BY <1>1, <2>2, <3>1, <3>2, EventSent
    <3>4. RuntimeFits' /\ WorkerFits'
      BY <1>1 DEF CopyInv, RuntimeFits, WorkerFits
    <3> HIDE DEF u
    <3>5. Caught(u)
      BY <2>2 DEF u
    <3>6. worker' = worker /\ rt' = rt /\ left' = left /\ pending' = NoPending
      BY <1>1, <1>2
    <3>7. /\ worker'.rev = rt'.rev => u.active = worker'.active
          /\ left'.returns = MaxReturns => u.scene = worker'.scene
      BY <3>5, <3>6 DEF Caught, CopyInv, TargetFits
    <3>8. /\ Copy(u, GameLines) /\ ~u.failed /\ Unlike(u.lines) /\ u.rev = worker'.rev
          /\ Follows(u, worker') /\ Bare(u)
      BY <3>5, <3>6 DEF Caught
    <3> QED
      BY <3>3, <3>4, <3>6, <3>7, <3>8, NothingLeftPending
  <2>4. CASE Flushed = <<>> /\ pending = NoPending
    <3>1. events \o <<>> = events
      BY <1>a
    <3>2. UNCHANGED <<rt, worker, pending, events, app, surface>>
      BY <3>1, <1>1, <1>2, <2>4
    <3> QED
      BY <3>2, <1>s, CopiesUntouched
  <2> QED
    BY <2>1, <2>3, <2>4
<1>3. CASE ~Visible
  <2> DEFINE e == Batch(<<>>, <<>>, FALSE)
  <2>1. Flushed = <<e>> \/ Flushed = <<>>
    BY <1>3 DEF Flushed
  <2>2. /\ e = [kind |-> "batch", snapshot |-> <<>>, delta |-> <<>>, wait |-> worker.wait, render |-> FALSE]
        /\ worker.wait = NoWait
    BY <1>3 DEF Batch, Visible
  <2>3. e \in Messages /\ e.kind = "batch" /\ e.wait = NoWait /\ e.snapshot = <<>> /\ e.delta = <<>>
    <3>1. <<>> \in Seq(Snapshots) /\ <<>> \in Seq(Deltas)
      OBVIOUS
    <3> HIDE DEF e
    <3> QED
      BY <3>1, <2>2, <1>w DEF Messages
  <2> HIDE DEF e
  <2>4. CASE Flushed = <<e>>
    <3>1. events' = Append(events, e)
      <4>1. events \o <<e>> = Append(events, e)
        BY <1>a, <2>3
      <4> QED
        BY <4>1, <1>1, <2>4
    <3>2. CopyAfter(Sent, e) = Sent
      BY <2>3 DEF CopyAfter
    <3>3. AppFits' /\ Sent' = Sent
      BY <1>1, <2>3, <3>1, <3>2, EventSent
    <3> QED
      BY <3>3, <1>1, <1>3, SentSame
  <2>5. CASE Flushed = <<>>
    <3>1. events \o <<>> = events
      BY <1>a
    <3>2. UNCHANGED <<rt, worker, pending, events, app, surface>>
      BY <3>1, <1>1, <1>3, <2>5
    <3> QED
      BY <3>2, <1>s, CopiesUntouched
  <2> QED
    BY <2>1, <2>4, <2>5
<1> QED
  BY <1>2, <1>3

\* The app handles an event.
LEMMA HandleKeeps ==
  ASSUME CopyInv, HandleEvent
  PROVE  CopyInv'
<1> DEFINE e == Head(events)  c == CopyAfter(app.copy, e)
<1>a. /\ events \in Seq(Messages)
      /\ DOMAIN app = {"copy", "wait"} /\ app.wait \in Nat /\ Copy(app.copy, GameLines)
      /\ Bare(app.copy) /\ (app.wait # NoWait => app.copy.wait = app.wait)
      /\ DOMAIN surface = {"lines", "painted", "callbacks"}
      /\ app.copy.active => surface.lines = <<>>
      /\ \A k \in 1..Len(events) :
           events[k].kind = "batch" /\ events[k].wait # NoWait =>
             Heard(app.copy, events, k).wait = events[k].wait
  BY DEF CopyInv, AppFits
<1>1. /\ events # <<>> /\ events' = Tail(events)
      /\ IF e.kind = "reset" THEN HandleReset(c) ELSE HandleBatch(e, c)
      /\ UNCHANGED <<rt, worker, pending, left>>
  BY DEF HandleEvent
<1>n. PICK n \in Nat : n = Len(Tail(events)) /\ Len(events) = n + 1
  BY <1>a, <1>1
<1>2. e \in Messages /\ e = events[1] /\ Tail(events) \in Seq(Messages)
      /\ \A k \in 1..n : Tail(events)[k] = events[k + 1]
  BY <1>a, <1>1, <1>n
<1>3. /\ \A k \in 0..n : Heard(c, Tail(events), k) = Heard(app.copy, events, k + 1)
      /\ FoldLeft(CopyAfter, c, Tail(events)) = FoldLeft(CopyAfter, app.copy, events)
  BY <1>a, <1>1, <1>n, HeardTail
<1>4. Heard(app.copy, events, 1) = c
  <2>1. 0 < Len(events) /\ 0 \in Nat /\ 0 + 1 = 1
    BY <1>n
  <2>2. Heard(app.copy, events, 0 + 1) = CopyAfter(Heard(app.copy, events, 0), events[0 + 1])
    BY <2>1, <1>a, HeardMore
  <2>3. Heard(app.copy, events, 0) = app.copy
    BY <1>a, HeardNone
  <2> QED
    BY <2>1, <2>2, <2>3, <1>2
<1>b. /\ Copy(c, GameLines) /\ Bare(c)
      /\ e.kind = "reset" => c = EmptyCopy(e.rev, 0, TRUE)
      /\ e.kind # "reset" /\ c.active => app.copy.active
  BY <1>a, <1>2, EventBare
<1>m. /\ e.kind \in {"reset", "batch"}
      /\ e.kind # "reset" => e.wait \in Nat
  BY <1>2 DEF Messages
<1> HIDE DEF e, c
<1>5. /\ app'.copy = c /\ DOMAIN app' = {"copy", "wait"} /\ app'.wait \in Nat
      /\ app'.wait # NoWait => c.wait = app'.wait
      /\ DOMAIN surface' = {"lines", "painted", "callbacks"}
      /\ c.active => surface'.lines = <<>>
  <2>1. CASE e.kind = "reset"
    <3>1. /\ app' = [copy |-> c, wait |-> NoWait]
          /\ surface' = [surface EXCEPT !.lines = c.lines, !.callbacks = Append(@, c.rev)]
      BY <1>1, <2>1 DEF HandleReset, Commit
    <3>2. c.lines = <<>>
      BY <1>b, <2>1 DEF EmptyCopy
    <3>3. NoWait \in Nat
      BY DEF NoWait
    <3>4. surface'.lines = <<>> /\ DOMAIN surface' = DOMAIN surface
      BY <3>1, <3>2, <1>a
    <3> QED
      BY <3>1, <3>3, <3>4, <1>a
  <2>2. CASE e.kind # "reset"
    <3>1. app' = [copy |-> c, wait |-> e.wait] /\ surface' = surface
      BY <1>1, <2>2 DEF HandleBatch
    <3>2. e.wait # NoWait => c.wait = e.wait
      <4>1. e.kind = "batch" /\ 1 \in 1..Len(events)
        BY <1>m, <1>n, <2>2
      <4> QED
        BY <4>1, <1>a, <1>2, <1>4
    <3> QED
      BY <3>1, <3>2, <1>a, <1>b, <1>m, <2>2
  <2> QED
    BY <2>1, <2>2
<1>6. ASSUME NEW k \in 1..n, Tail(events)[k].kind = "batch", Tail(events)[k].wait # NoWait
      PROVE  Heard(c, Tail(events), k).wait = Tail(events)[k].wait
  <2>1. k \in 0..n /\ k + 1 \in 1..Len(events) /\ Tail(events)[k] = events[k + 1]
    BY <1>2, <1>n
  <2> QED
    BY <2>1, <1>3, <1>6, <1>a
<1>7. AppFits'
  BY <1>1, <1>2, <1>5, <1>6, <1>b, <1>n DEF AppFits
<1>8. Sent' = Sent
  BY <1>1, <1>3, <1>5 DEF Sent
<1> QED
  BY <1>1, <1>7, <1>8, SentSame

\* The app commits its copy to the viewport.
LEMMA DrainKeeps ==
  ASSUME CopyInv, EndDrain
  PROVE  CopyInv'
<1>1. /\ surface' = [surface EXCEPT !.lines = app.copy.lines, !.callbacks = Append(@, app.copy.rev)]
      /\ app' = app /\ events' = events /\ UNCHANGED <<rt, worker, pending, left>>
  BY DEF EndDrain, Commit
<1>2. DOMAIN surface = {"lines", "painted", "callbacks"} /\ Bare(app.copy)
  BY DEF CopyInv, AppFits
<1>3. DOMAIN surface' = {"lines", "painted", "callbacks"} /\ (app.copy.active => surface'.lines = <<>>)
  BY <1>1, <1>2 DEF Bare
<1>4. AppFits'
  BY <1>1, <1>3 DEF CopyInv, AppFits
<1>5. Sent' = Sent
  BY <1>1 DEF Sent
<1> QED
  BY <1>1, <1>4, <1>5, SentSame

\* The refresh of a commit is done.
LEMMA FinishKeeps ==
  ASSUME CopyInv, Finish
  PROVE  CopyInv'
<1>1. /\ surface' = [surface EXCEPT !.painted = surface.lines, !.callbacks = Tail(@)]
      /\ app' = app /\ events' = events /\ UNCHANGED <<rt, worker, pending, left>>
  BY DEF Finish
<1>2. DOMAIN surface = {"lines", "painted", "callbacks"}
  BY DEF CopyInv, AppFits
<1>3. DOMAIN surface' = {"lines", "painted", "callbacks"} /\ surface'.lines = surface.lines
  BY <1>1, <1>2
<1>4. AppFits'
  BY <1>1, <1>3 DEF CopyInv, AppFits
<1>5. Sent' = Sent
  BY <1>1 DEF Sent
<1> QED
  BY <1>1, <1>4, <1>5, SentSame

\* The copies at the start: nothing is printed, nothing is under way.
LEMMA CopiesBegin ==
  ASSUME Init
  PROVE  CopyInv
<1> DEFINE u == EmptyCopy(1, 0, FALSE)
<1>1. /\ rt = [rev |-> 1, lines |-> <<>>, wait |-> NoWait, scene |-> 0, game |-> 1, next |-> 1, fresh |-> FALSE]
      /\ worker = [rev |-> 1, lines |-> <<>>, hidden |-> 0, wait |-> NoWait, scene |-> 0, active |-> FALSE,
                   failed |-> FALSE, phase |-> "idle", command |-> 0]
      /\ pending = NoPending /\ events = <<>> /\ app = [copy |-> u, wait |-> NoWait]
      /\ surface = [lines |-> <<>>, painted |-> <<>>, callbacks |-> <<>>]
      /\ left = [outputs |-> MaxOutputs, returns |-> MaxReturns, faults |-> MaxFaults,
                 boundaries |-> MaxBoundaries]
  BY DEF Init
<1>e. /\ <<>> \in Seq(GameLines) /\ Unlike(<<>>) /\ EndOf(<<>>, <<>>, 0) /\ NoWait \in Nat
      /\ Numbered(<<>>, 1) /\ <<>> \in Seq(Messages) /\ Len(<<>>) = 0
      /\ <<>> \in Seq(Snapshots) /\ <<>> \in Seq(Works)
  <2>1. DOMAIN <<>> = {} /\ Len(<<>>) = 0
    OBVIOUS
  <2> QED
    BY <2>1 DEF Unlike, Numbered, EndOf, NoWait
<1>u. /\ DOMAIN u = {"rev", "lines", "hidden", "wait", "scene", "active", "failed"} /\ u.rev = 1
      /\ u.lines = <<>> /\ u.hidden = 0 /\ u.wait = NoWait /\ u.scene = 0 /\ u.active = FALSE
      /\ u.failed = FALSE
  BY DEF EmptyCopy
<1> HIDE DEF u
<1>2. Copy(u, GameLines) /\ Bare(u) /\ Unlike(u.lines)
  <2>1. u.active \in BOOLEAN /\ u.failed \in BOOLEAN
    BY <1>u
  <2>2. u.lines \in Seq(GameLines) /\ u.rev \in Nat /\ u.hidden \in Nat /\ u.wait \in Nat /\ u.scene \in Nat
    BY <1>u, <1>e
  <2>3. {"rev", "lines", "hidden", "wait", "scene", "active", "failed"} \subseteq DOMAIN u
    BY <1>u
  <2> QED
    BY <2>1, <2>2, <2>3, <1>u, <1>e DEF Copy, Bare
<1>3. Copy(worker, GameLines) /\ Bare(worker)
  <2>1. worker.active \in BOOLEAN /\ worker.failed \in BOOLEAN
    BY <1>1
  <2>2. worker.lines \in Seq(GameLines) /\ worker.rev \in Nat /\ worker.hidden \in Nat
        /\ worker.wait \in Nat /\ worker.scene \in Nat
    BY <1>1, <1>e
  <2>3. {"rev", "lines", "hidden", "wait", "scene", "active", "failed"} \subseteq DOMAIN worker
    BY <1>1
  <2>4. ~worker.active
    BY <1>1
  <2> QED
    BY <2>1, <2>2, <2>3, <2>4 DEF Copy, Bare
<1>4. RuntimeFits
  <2>1. /\ DOMAIN rt = {"rev", "lines", "wait", "scene", "game", "next", "fresh"}
        /\ rt.rev = 1 /\ rt.lines = <<>> /\ rt.wait = NoWait /\ rt.scene = 0 /\ rt.game = 1
        /\ rt.next = 1 /\ rt.fresh = FALSE
    BY <1>1
  <2>2. DOMAIN left = {"outputs", "returns", "faults", "boundaries"} /\ left.returns = MaxReturns
    BY <1>1
  <2>3. MaxReturns \in Nat
    BY PresentationAssumption
  <2>4. left.returns \in Int /\ left.returns <= MaxReturns
    BY <2>2, <2>3
  <2>5. /\ {"rev", "lines", "wait", "scene", "game", "next", "fresh"} = DOMAIN rt
        /\ {"outputs", "returns", "faults", "boundaries"} = DOMAIN left
    BY <2>1, <2>2
  <2>6. rt.rev \in Nat /\ rt.scene \in Nat /\ rt.game \in Nat /\ rt.next \in Nat \ {0} /\ rt.fresh \in BOOLEAN
    <3>1. 0 \in Nat /\ 1 \in Nat \ {0} /\ FALSE \in BOOLEAN
      OBVIOUS
    <3> QED
      BY <3>1, <2>1
  <2>7. rt.lines \in Seq(GameLines) /\ rt.wait \in Nat /\ Numbered(rt.lines, rt.next)
    BY <2>1, <1>e
  <2> QED
    BY <2>4, <2>5, <2>6, <2>7 DEF RuntimeFits
<1>5. WorkerFits
  <2>1. /\ DOMAIN worker =
             {"rev", "lines", "hidden", "wait", "scene", "active", "failed", "phase", "command"}
        /\ worker.lines = <<>> /\ worker.hidden = 0 /\ worker.failed = FALSE /\ worker.rev = 1
        /\ rt.rev = 1 /\ rt.next = 1
    BY <1>1
  <2> QED
    BY <2>1, <1>3, <1>e DEF WorkerFits
<1>6. Sent = u /\ Base = u
  <2>1. Sent = u
    <3>1. FoldLeft(CopyAfter, u, <<>>) = u
      BY <1>e, HeardNone
    <3> QED
      BY <3>1, <1>1 DEF Sent
  <2> QED
    BY <2>1, <1>1 DEF Base, BaseOf, NoPending
<1>7. Sound(u, <<>>) /\ Single(<<>>) /\ ApplyAll(u, <<>>) = u
  BY <1>2, <1>u, NothingSound
<1>8. PendingFits /\ Target = u
  <2>1. pending.snapshot = <<>> /\ pending.from = 0 /\ pending.to = 0 /\ pending.ops = <<>>
        /\ pending \in [snapshot : Seq(Snapshots), from : Nat, to : Nat, ops : Seq(Works)]
    BY <1>1, <1>e DEF NoPending
  <2>2. Target = u
    BY <2>1, <1>6, <1>7 DEF Target
  <2>3. \A i \in DOMAIN <<>> : Lined(<<>>[i]) => <<>>[i].line.id < rt.next
    OBVIOUS
  <2>4. u.rev = worker.rev
    BY <1>1, <1>u
  <2>5. PendingFits
    BY <2>1, <2>3, <2>4, <1>6, <1>7 DEF PendingFits
  <2> QED
    BY <2>2, <2>5
<1>9. TargetFits
  <2>1. worker.lines = <<>> /\ worker.wait = NoWait /\ worker.active = FALSE /\ worker.scene = 0
    BY <1>1
  <2>2. Follows(u, worker)
    BY <2>1, <1>u, <1>e DEF Follows
  <2> QED
    BY <2>1, <2>2, <1>2, <1>8, <1>u DEF TargetFits
<1>10. AppFits
  <2>1. app.copy = u /\ app.wait = NoWait /\ DOMAIN app = {"copy", "wait"}
        /\ DOMAIN surface = {"lines", "painted", "callbacks"} /\ 1..Len(events) = {}
        /\ events \in Seq(Messages)
    BY <1>1, <1>e
  <2> QED
    BY <2>1, <1>2, <1>u, <1>e DEF AppFits
<1> QED
  BY <1>4, <1>5, <1>8, <1>9, <1>10 DEF CopyInv

\* The copies through every step.
LEMMA CopiesStay ==
  ASSUME ~SceneAcrossGames, CopyInv, [Next]_vars
  PROVE  CopyInv'
<1>1. CASE UNCHANGED vars
  <2>1. UNCHANGED <<rt, worker, pending, events, app, surface, left>>
    BY <1>1 DEF vars
  <2>2. LeftKept
    BY <2>1 DEF CopyInv, RuntimeFits, LeftKept
  <2> QED
    BY <2>1, <2>2, CopiesUntouched
<1>2. CASE Next
  BY <1>2, EmitKeeps, GarbleKeeps, StopKeeps, AnswerKeeps, ReturnKeeps, DriveKeeps, EndPumpKeeps,
     HandleKeeps, DrainKeeps, FinishKeeps DEF Next, Runtime, Worker, App
<1> QED
  BY <1>1, <1>2

\* The end of some lines is a suffix of them.
LEMMA EndSuffix ==
  ASSUME NEW S, NEW s \in Seq(S), NEW t \in Seq(S), NEW d \in Nat, EndOf(s, t, d)
  PROVE  IsSuffix(s, t)
<1>s. PICK a \in Nat, b \in Nat : a = Len(s) /\ b = Len(t)
  OBVIOUS
<1>f. b = d + a
  BY <1>s DEF EndOf
<1>g. \A i \in 1..a : s[i] = t[d + i]
  BY <1>s DEF EndOf
<1> DEFINE p == Reverse(s)  q == Reverse(t)
<1>1. p \in Seq(S) /\ Len(p) = a /\ \A i \in 1..a : p[i] = s[(a - i) + 1]
  <2>1. \A i \in 1..a : s[(a - i) + 1] \in S
    <3>1. \A i \in 1..a : (a - i) + 1 \in 1..a
      OBVIOUS
    <3> QED
      BY <3>1, <1>s
  <2> QED
    BY <2>1, <1>s DEF Reverse
<1>2. q \in Seq(S) /\ Len(q) = b /\ \A i \in 1..b : q[i] = t[(b - i) + 1]
  <2>1. \A i \in 1..b : t[(b - i) + 1] \in S
    <3>1. \A i \in 1..b : (b - i) + 1 \in 1..b
      OBVIOUS
    <3> QED
      BY <3>1, <1>s
  <2> QED
    BY <2>1, <1>s DEF Reverse
<1>3. ASSUME NEW i \in 1..a PROVE p[i] = q[i]
  <2>1. (a - i) + 1 \in 1..a /\ i \in 1..b /\ (b - i) + 1 = d + ((a - i) + 1)
    BY <1>f
  <2> QED
    BY <2>1, <1>1, <1>2, <1>g, ZenonT(40)
<1> HIDE DEF p, q
<1>4. a <= b
  BY <1>f
<1>5. SubSeq(p, 1, a) = SubSeq(q, 1, a)
  <2>1. FirstLines(p, a) = FirstLines(q, a)
    <3>1. a <= Len(p) /\ a <= Len(q)
      BY <1>1, <1>2, <1>4
    <3>2. \A i \in 1..a : p[i] = q[i]
      BY <1>3
    <3>3. p \in Seq(S) /\ q \in Seq(S)
      BY <1>1, <1>2
    <3> QED
      BY <3>1, <3>2, <3>3, FirstAlike
  <2> QED
    BY <2>1 DEF FirstLines
<1> QED
  BY <1>1, <1>2, <1>4, <1>5 DEF IsSuffix, IsPrefix, p, q

\* The copies are what the properties say.
LEMMA CopiesSay ==
  ASSUME CopyInv
  PROVE  RetiredStaysBlank /\ CopyTrue
<1>1. RetiredStaysBlank
  <2>1. Bare(worker) /\ Bare(app.copy) /\ (app.wait # NoWait => app.copy.wait = app.wait)
        /\ (app.copy.active => surface.lines = <<>>)
    BY DEF CopyInv, WorkerFits, AppFits
  <2> QED
    BY <2>1 DEF RetiredStaysBlank, Bare
<1>2. WaitOfSurface
  BY DEF CopyInv, AppFits, WaitOfSurface
<1>3. ASSUME NEW u, Caught(u)
      PROVE  /\ u.rev = worker.rev /\ IsSuffix(u.lines, worker.lines)
             /\ u.hidden = Len(worker.lines) - Len(u.lines) /\ u.wait = worker.wait
  <2>1. Copy(u, GameLines) /\ Copy(worker, GameLines) /\ Follows(u, worker) /\ u.rev = worker.rev
    BY <1>3 DEF Caught, CopyInv, WorkerFits
  <2>2. /\ u.lines \in Seq(GameLines) /\ worker.lines \in Seq(GameLines) /\ u.hidden \in Nat
        /\ EndOf(u.lines, worker.lines, u.hidden) /\ u.wait = worker.wait
    BY <2>1 DEF Copy, Follows
  <2>3. IsSuffix(u.lines, worker.lines)
    BY <2>2, EndSuffix
  <2>4. u.hidden = Len(worker.lines) - Len(u.lines)
    <3>1. PICK a \in Nat, b \in Nat : a = Len(u.lines) /\ b = Len(worker.lines)
      BY <2>2
    <3>2. b = u.hidden + a
      BY <3>1, <2>2 DEF EndOf
    <3> QED
      BY <3>1, <3>2, <2>2
  <2> QED
    BY <2>1, <2>2, <2>3, <2>4
<1>4. AppFollows
  <2>1. FoldLeft(CopyAfter, app.copy, events) = Sent
    BY DEF Sent
  <2>2. CASE pending = NoPending
    <3>1. Caught(Sent)
      BY <2>2, TargetCopy
    <3> QED
      BY <3>1, <2>1, <2>2, <1>3 DEF AppFollows
  <2>3. CASE pending # NoPending
    <3>1. Caught(CopyAfter(Sent, WholeBatch))
      BY BatchCatches
    <3>2. /\ CopyAfter(Sent, WholeBatch).rev = worker.rev /\ IsSuffix(CopyAfter(Sent, WholeBatch).lines, worker.lines)
          /\ CopyAfter(Sent, WholeBatch).hidden = Len(worker.lines) - Len(CopyAfter(Sent, WholeBatch).lines)
          /\ CopyAfter(Sent, WholeBatch).wait = worker.wait
      BY <3>1, <1>3
    <3> QED
      BY <3>2, <2>1, <2>3 DEF AppFollows, WholeBatch
  <2> QED
    BY <2>2, <2>3
<1> QED
  BY <1>1, <1>2, <1>4 DEF CopyTrue

\* The copies, always: as long as a scene is edited only before a game is left,
\* the operations that are pending, each merged into the place of an earlier one
\* or not (PresentationEventAccumulator.add_delta), make of the app's copy what the
\* worker's is, but for the lines the viewport hides (presentation.py).
THEOREM CopiesFit ==
  ASSUME ~SceneAcrossGames
  PROVE  Spec => []CopyInv
<1>1. Init => CopyInv
  BY CopiesBegin
<1>2. CopyInv /\ [Next]_vars => CopyInv'
  BY CopiesStay
<1> QED
  BY <1>1, <1>2, PTL DEF Spec

\* From the command that leaves a game to the first surface of what follows,
\* neither the worker's copy nor the app's shows a line of that game or has its
\* wait, whatever the runtime still sends and whether it accepts or rejects the
\* command (ReplacementBoundary; runtime_rejections.py).
THEOREM BlankStays ==
  ASSUME ~SceneAcrossGames
  PROVE  Spec => []RetiredStaysBlank
<1>1. CopyInv => RetiredStaysBlank
  BY CopiesSay
<1> QED
  BY <1>1, CopiesFit, PTL

\* The app always has the end of the worker's surface once it took what is under
\* way, in one batch or in many and through every resynchronization, and the wait
\* the player can answer is the one of that surface (presentation.py: one merged
\* delta; app_worker.py: presentation_batch).
THEOREM CopyStaysTrue ==
  ASSUME ~SceneAcrossGames
  PROVE  Spec => []CopyTrue
<1>1. CopyInv => CopyTrue
  BY CopiesSay
<1> QED
  BY <1>1, CopiesFit, PTL
=============================================================================
