-------------------------- MODULE ProjectSourcesProofs --------------------------
(***************************************************************************)
(* What ProjectSources shows on two files and two edits, for any number of *)
(* files, edits, attempts and operations: the types, that a scan is a      *)
(* picture of one instant, that the index never lies about the file it     *)
(* names, and that a reload starts from what the runtime runs.             *)
(* An operation is one record, which most steps change in one of three     *)
(* ways: they look at the files (again), they move one file on, or they    *)
(* ask the runtime.  The invariants are operators of that record.          *)
(***************************************************************************)
EXTENDS ProjectSources, TLAPS
-----------------------------------------------------------------------------
(* Types *)

Reloads == {"reload_all", "reload_folder", "reload_file"}
Stages == {"none", "scan", "index", "fill", "answer"}
Modes == {"none", "full", "quick", "folder", "file", "materialize", "hydrate"}

StampType == [n : Nat, ms : Nat]
VersionType == [content : Contents \cup {0}, ms : Nat]
FileType == [content : Contents \cup {0}, stamp : StampType]
EntryType == [content : Contents \cup {0}, stamp : StampType, loaded : BOOLEAN]
WorkType ==
  [at : {"none", "stat", "todo", "reading", "done"}, before : StampType, tries : 0..(Attempts - 1),
   stamp : StampType, entry : EntryType]
OpType ==
  [kind : Kinds \cup {"none"}, stage : Stages, mode : Modes, phase : {"none", "read", "verify"},
   attempt : 0..(Attempts - 1), quick : 0..Attempts, target : SUBSET Paths, work : [Paths -> WorkType],
   unverified : SUBSET Paths, instant : [Paths -> FileType], files : [Paths -> EntryType],
   pending : BOOLEAN, upserts : SUBSET Paths, removals : SUBSET Paths, hit : BOOLEAN]
BundleType == [known : BOOLEAN, files : [Paths -> EntryType], pending : BOOLEAN]

Types ==
  /\ disk \in [Paths -> FileType] /\ versions \in [Paths -> SUBSET VersionType]
  /\ bundle \in BundleType /\ op \in OpType /\ running.complete \in BOOLEAN
  /\ left \in [edits : 0..MaxEdits, operations : 0..MaxOperations]
-----------------------------------------------------------------------------
(* The inductive invariant *)

\* The stamp of the next edit.
Now(l) == 2 + MaxEdits - l.edits

\* What was seen has a stamp of before.
Bounded(x, l) == x.stamp.n < Now(l) /\ x.stamp.ms < Now(l)
FilesInv(files, l) == \A f \in Paths : Bounded(files[f], l)

\* The versions of a file are those it had, and that of now is one of them.
DiskInv(d, vs, l) == \A f \in Paths :
  /\ Bounded(d[f], l) /\ (d[f].stamp # NoStamp => Version(d[f]) \in vs[f])
  /\ \A v \in vs[f] : 0 < v.ms /\ v.ms < Now(l)

\* A file that a scan read, and that still has the stamp it is known by, holds
\* what was read; what was not read is what the index says of a version.
Sighted(mode, f, x, d, vs) == mode \in {"full", "quick"} =>
  /\ x.stamp = NoStamp => x.content = 0
  /\ IF x.loaded THEN x.stamp = d[f].stamp /\ x.stamp # NoStamp => x.content = d[f].content
     ELSE x = NoEntry \/ Version(x) \in vs[f]
SeenInv(o, d, vs, l) == \A f \in Paths :
  /\ Bounded(o.work[f], l) /\ Bounded(o.work[f].entry, l)
  /\ Sighted(o.mode, f, o.work[f].entry, d, vs)

\* How far the look at the files is.
WorkInv(o) == \A f \in Paths :
  /\ o.work[f].at = "done" <=> o.work[f].entry # NoEntry
  /\ o.work[f].at = "stat" => o.mode \in {"quick", "materialize"}
  /\ o.work[f].at \in {"todo", "reading"} /\ o.mode = "quick" => o.work[f].stamp # NoStamp
  /\ o.phase = "verify" => o.work[f].at \in {"none", "done"}
  /\ o.phase = "none" => o.work[f].at = "none"
  /\ o.phase = "verify" /\ o.mode = "quick" /\ o.work[f].at = "done" => o.work[f].entry.content # 0

\* A file that still has the signature it was read under has not changed since
\* the instant, and one that was looked at again had it at the instant.
SnapInv(o, d, vs) == o.phase = "verify" => \A f \in Paths : LET x == o.work[f].entry IN
  x.stamp # NoStamp =>
    /\ x.stamp = d[f].stamp => o.instant[f] = d[f]
    /\ o.mode \in {"full", "quick"} /\ f \notin o.unverified
         => /\ x.stamp = o.instant[f].stamp /\ Version(x) \in vs[f]
            /\ x.loaded => x.content = o.instant[f].content

\* What an operation looks at in each of its stages.
ModeInv(o) ==
  /\ o.kind = "none" => o = Idle
  /\ o.stage = "none" => o.kind = "none"
  /\ o.stage = "answer" => o.phase = "none"
  /\ o.phase = "none" => o.stage \in {"none", "answer"}
  /\ o.phase = "verify" => o.mode \in {"full", "quick"} \/ o.unverified = {}
  /\ o.stage = "scan" =>
       o.mode \in IF o.kind \in {"load", "configure"} THEN {"quick", "full"} ELSE {First(o.kind)}
  /\ o.stage = "scan" /\ o.quick # 0 => o.kind \in {"load", "configure"}
  /\ o.stage = "index" => o.kind \in Reloads /\ o.mode \in {"quick", "full"}
  /\ o.stage = "fill" => \/ o.kind = "load" /\ o.mode = "materialize"
                         \/ o.kind \in Reloads /\ o.mode \in {"hydrate", "none"}
ScopeInv(o) ==
  /\ o.stage = "scan" /\ o.kind = "reload_file" => \A f \in o.target : o.work[f].at # "none"
  /\ o.stage = "fill" /\ o.kind \in Reloads =>
       \A f \in Paths : o.work[f].at # "none" => f \in Listed(o.files)

\* The candidate of a reload is the bundle with what the request names.
Follows(o, b) ==
  /\ Listed(o.files) = (Listed(b.files) \ o.removals) \cup o.upserts
  /\ \A f \in Listed(o.files) \ o.upserts : o.files[f].content = b.files[f].content
Selection(o) ==
  CASE o.kind = "reload_file" -> o.target
    [] o.kind = "reload_folder" -> Folder
    [] OTHER -> Paths
Unselected(o, b) == \A f \in Paths \ Selection(o) : o.files[f].content = b.files[f].content
ReloadInv(o, b) == o.kind \in Reloads =>
  /\ b.known /\ ~o.hit
  /\ o.stage # "answer" => ~o.pending
  /\ o.stage # "scan" => Follows(o, b) /\ Unselected(o, b)
  /\ o.stage = "answer" => o.pending \/ ~b.pending \/ Listed(o.files) \subseteq o.upserts

IndexInv(ix, vs) == \A f \in Paths : ix[f] = NotIndexed \/ (ix[f].content # 0 /\ ix[f] \in vs[f])
IInv ==
  /\ Types /\ DiskInv(disk, versions, left) /\ IndexInv(index, versions)
  /\ FilesInv(bundle.files, left) /\ FilesInv(op.files, left) /\ SeenInv(op, disk, versions, left)
  /\ WorkInv(op) /\ SnapInv(op, disk, versions) /\ ModeInv(op) /\ ScopeInv(op) /\ ReloadInv(op, bundle)
-----------------------------------------------------------------------------
(* The three ways an operation changes *)

\* What stays when an operation looks at the files, or moves one of them on.
SameTask(p, o) ==
  /\ p.kind = o.kind /\ p.stage = o.stage /\ p.target = o.target /\ p.files = o.files
  /\ p.pending = o.pending /\ p.upserts = o.upserts /\ p.removals = o.removals /\ p.hit = o.hit

\* The values an operation starts with.
LEMMA Blank ==
  /\ Absent \in FileType /\ NoEntry \in EntryType /\ Unread \in EntryType
  /\ NoWork \in WorkType /\ NoWork.at = "none" /\ NoWork.stamp = NoStamp /\ NoWork.entry = NoEntry
<1>1. NoStamp \in StampType /\ 0 \in Contents \cup {0} /\ 0 \in 0..(Attempts - 1)
  BY SourcesAssumption DEF NoStamp, StampType
<1>2. FALSE \in BOOLEAN /\ TRUE \in BOOLEAN
  BY Zenon
<1>3. NoEntry \in EntryType /\ Unread \in EntryType
  BY <1>1, <1>2, Zenon DEF NoEntry, Unread, EntryType
<1>4. Absent \in FileType
  BY <1>1 DEF Absent, FileType
<1>5. NoWork \in WorkType /\ NoWork.at = "none" /\ NoWork.stamp = NoStamp /\ NoWork.entry = NoEntry
  BY <1>1, <1>3 DEF NoWork, WorkType
<1> QED
  BY <1>3, <1>4, <1>5

\* A look, and the quick scan that it stands in for.
LookFor(o, mode, attempt, quick) == [Look(o, mode, attempt) EXCEPT !.quick = quick]

\* The files are looked at: nothing is known of them yet.
LEMMA Looked ==
  ASSUME NEW o \in OpType, NEW mode \in Modes, NEW attempt \in 0..(Attempts - 1),
         NEW quick \in 0..Attempts
  PROVE  LET p == LookFor(o, mode, attempt, quick) IN
         /\ p \in OpType /\ SameTask(p, o) /\ p.quick = quick
         /\ Look(o, mode, attempt) = LookFor(o, mode, attempt, 0)
         /\ p.mode = mode /\ p.phase = "read" /\ p.unverified = {}
         /\ \A f \in Paths :
              /\ p.work[f].entry = NoEntry /\ p.work[f].stamp = NoStamp
              /\ f \notin Scope(mode, o) => p.work[f].at = "none"
              /\ f \in Scope(mode, o) =>
                   p.work[f].at = IF mode \in {"quick", "materialize"} THEN "stat" ELSE "todo"
<1> DEFINE p == LookFor(o, mode, attempt, quick)
           at == IF mode \in {"quick", "materialize"} THEN "stat" ELSE "todo"
           work == [f \in Paths |-> IF f \notin Scope(mode, o) THEN NoWork
                                    ELSE [NoWork EXCEPT !.at = at]]
           instant == [f \in Paths |-> Absent]
<1>1. NoWork \in WorkType /\ NoWork.at = "none" /\ NoWork.stamp = NoStamp /\ NoWork.entry = NoEntry
  BY Blank
<1>2. /\ [NoWork EXCEPT !.at = at] \in WorkType /\ [NoWork EXCEPT !.at = at].at = at
      /\ [NoWork EXCEPT !.at = at].stamp = NoStamp /\ [NoWork EXCEPT !.at = at].entry = NoEntry
  BY <1>1 DEF WorkType
<1>3. work \in [Paths -> WorkType]
  BY <1>1, <1>2
<1>4. instant \in [Paths -> FileType]
  BY Blank
<1> HIDE DEF work, instant
<1>5. p = [[o EXCEPT !.mode = mode, !.phase = "read", !.attempt = attempt, !.quick = 0,
                     !.unverified = {}, !.instant = instant, !.work = work] EXCEPT !.quick = quick]
  BY DEF LookFor, Look, work, instant
<1>6. p \in OpType
  BY <1>3, <1>4, <1>5, ZenonT(40) DEF OpType
<1>9. Look(o, mode, attempt) = LookFor(o, mode, attempt, 0)
  BY <1>3, <1>4 DEF LookFor, Look, work, instant, OpType
<1>7. SameTask(p, o) /\ p.quick = quick /\ p.mode = mode /\ p.phase = "read" /\ p.unverified = {} /\ p.work = work
  BY <1>5 DEF OpType, SameTask
<1> HIDE DEF p
<1>8. \A f \in Paths :
              /\ work[f].entry = NoEntry /\ work[f].stamp = NoStamp
              /\ f \notin Scope(mode, o) => work[f].at = "none"
              /\ f \in Scope(mode, o) => work[f].at = at
  BY <1>1, <1>2 DEF work
<1> QED
  BY <1>6, <1>7, <1>8, <1>9 DEF p

\* One file is moved on.
LEMMA Worked ==
  ASSUME NEW o \in OpType, NEW f \in Paths, NEW w \in WorkType
  PROVE  LET p == [o EXCEPT !.work = [o.work EXCEPT ![f] = w]] IN
         /\ p \in OpType /\ SameTask(p, o)
         /\ p.mode = o.mode /\ p.phase = o.phase /\ p.attempt = o.attempt /\ p.quick = o.quick
         /\ p.unverified = o.unverified /\ p.instant = o.instant
         /\ p.work[f] = w /\ \A g \in Paths \ {f} : p.work[g] = o.work[g]
<1> DEFINE work == [o.work EXCEPT ![f] = w]
           p == [o EXCEPT !.work = work]
<1>1. o.work \in [Paths -> WorkType]
  BY DEF OpType
<1>2. work \in [Paths -> WorkType] /\ work[f] = w /\ \A g \in Paths \ {f} : work[g] = o.work[g]
  BY <1>1
<1> HIDE DEF work
<1>3. p \in OpType
  BY <1>2 DEF OpType
<1>4. /\ SameTask(p, o) /\ p.mode = o.mode /\ p.phase = o.phase /\ p.attempt = o.attempt
      /\ p.quick = o.quick
      /\ p.unverified = o.unverified /\ p.instant = o.instant /\ p.work = work
  BY DEF OpType, SameTask
<1> QED
  BY <1>2, <1>3, <1>4 DEF work

\* The runtime is asked: the look is over.
LEMMA Asked ==
  ASSUME NEW o \in OpType
  PROVE  LET p == Ask(o) IN
         /\ p \in OpType /\ p.stage = "answer" /\ p.phase = "none"
         /\ p.kind = o.kind /\ p.target = o.target /\ p.files = o.files /\ p.pending = o.pending
         /\ p.upserts = o.upserts /\ p.removals = o.removals /\ p.hit = o.hit
         /\ \A f \in Paths : p.work[f] = NoWork
<1> DEFINE p == Ask(o)
           work == [f \in Paths |-> NoWork]
           instant == [f \in Paths |-> Absent]
<1>1. NoWork \in WorkType
  BY Blank
<1>2. work \in [Paths -> WorkType] /\ instant \in [Paths -> FileType]
  BY <1>1, Blank
<1>3. \A f \in Paths : work[f] = NoWork
  OBVIOUS
<1> HIDE DEF work, instant
<1>4. p = [o EXCEPT !.stage = "answer", !.phase = "none", !.instant = instant, !.work = work]
  BY DEF Ask, work, instant
<1>5. p \in OpType
  BY <1>2, <1>4, ZenonT(40) DEF OpType, Stages
<1>6. /\ p.stage = "answer" /\ p.phase = "none" /\ p.work = work
      /\ p.kind = o.kind /\ p.target = o.target /\ p.files = o.files /\ p.pending = o.pending
      /\ p.upserts = o.upserts /\ p.removals = o.removals /\ p.hit = o.hit
  BY <1>4 DEF OpType
<1> HIDE DEF p
<1> QED
  BY <1>3, <1>5, <1>6 DEF p

\* Nothing runs.
LEMMA IdleOp ==
  /\ Idle \in OpType /\ Idle.kind = "none" /\ Idle.stage = "none" /\ Idle.phase = "none"
  /\ \A f \in Paths : Idle.work[f] = NoWork /\ Idle.files[f] = NoEntry
<1> DEFINE work == [f \in Paths |-> NoWork]
           instant == [f \in Paths |-> Absent]
<1>1. /\ work \in [Paths -> WorkType] /\ instant \in [Paths -> FileType]
      /\ Nothing \in [Paths -> EntryType]
  BY Blank DEF Nothing
<1>2. \A f \in Paths : work[f] = NoWork /\ Nothing[f] = NoEntry
  BY DEF Nothing
<1>3. 0 \in 0..(Attempts - 1) /\ 0 \in 0..Attempts /\ FALSE \in BOOLEAN
  BY SourcesAssumption
<1> HIDE DEF work, instant
<1>4. Idle = [kind |-> "none", stage |-> "none", mode |-> "none", phase |-> "none", attempt |-> 0, quick |-> 0,
              target |-> {}, work |-> work, unverified |-> {}, instant |-> instant,
              files |-> Nothing, pending |-> FALSE, upserts |-> {}, removals |-> {}, hit |-> FALSE]
  BY DEF Idle, work, instant
<1>5. Idle \in OpType
  BY <1>1, <1>3, <1>4, Zenon DEF OpType, Stages, Modes
<1> QED
  BY <1>2, <1>4, <1>5
-----------------------------------------------------------------------------
(* What was seen, while the files are looked at *)

\* While the files stay as they are, it is enough to look at what changed.
LEMMA StillInv ==
  ASSUME IInv, UNCHANGED <<disk, versions, left>>, running'.complete \in BOOLEAN,
         IndexInv(index', versions),
         bundle' \in BundleType, FilesInv(bundle'.files, left),
         op' \in OpType, FilesInv(op'.files, left), SeenInv(op', disk, versions, left),
         WorkInv(op'), SnapInv(op', disk, versions), ModeInv(op'), ScopeInv(op'), ReloadInv(op', bundle')
  PROVE  IInv'
BY DEF IInv, Types

\* What changes only the operation keeps what does not depend on it.
LEMMA OnlyOp ==
  ASSUME IInv, UNCHANGED <<disk, versions, index, bundle, left, running>>,
         op' \in OpType, FilesInv(op'.files, left), SeenInv(op', disk, versions, left),
         WorkInv(op'), SnapInv(op', disk, versions), ModeInv(op'), ScopeInv(op'), ReloadInv(op', bundle)
  PROVE  IInv'
BY StillInv DEF IInv, Types

\* Nothing is known of a file that was not looked at.
LEMMA BlankSeen ==
  ASSUME Types
  PROVE  /\ Bounded(NoEntry, left) /\ Bounded(Unread, left) /\ Bounded(NoWork, left)
         /\ \A mode, f, d, vs : Sighted(mode, f, NoEntry, d, vs) /\ Sighted(mode, f, Unread, d, vs)
<1>1. left.edits \in 0..MaxEdits /\ MaxEdits \in Nat
  BY SourcesAssumption DEF Types
<1>2. 0 < Now(left)
  BY <1>1 DEF Now
<1>3. NoStamp.n = 0 /\ NoStamp.ms = 0
  BY DEF NoStamp
<1> QED
  BY <1>2, <1>3 DEF Sighted, Bounded, NoEntry, Unread, NoWork

\* A look that begins knows nothing, and is no picture of anything yet.
LEMMA LookSeen ==
  ASSUME Types, DiskInv(disk, versions, left), NEW o \in OpType, NEW mode \in Modes,
         NEW attempt \in 0..(Attempts - 1), NEW quick \in 0..Attempts
  PROVE  LET p == LookFor(o, mode, attempt, quick) IN
         SeenInv(p, disk, versions, left) /\ WorkInv(p) /\ SnapInv(p, disk, versions)
<1> DEFINE p == LookFor(o, mode, attempt, quick)
<1>1. /\ p.mode = mode /\ p.phase = "read"
      /\ \A f \in Paths :
           /\ p.work[f].entry = NoEntry /\ p.work[f].stamp = NoStamp
           /\ f \notin Scope(mode, o) => p.work[f].at = "none"
           /\ f \in Scope(mode, o) =>
                p.work[f].at = IF mode \in {"quick", "materialize"} THEN "stat" ELSE "todo"
  BY Looked
<1> HIDE DEF p
<1>2. SeenInv(p, disk, versions, left)
  BY <1>1, BlankSeen, Blank DEF SeenInv, Bounded
<1>3. WorkInv(p)
  BY <1>1 DEF WorkInv
<1>4. SnapInv(p, disk, versions)
  BY <1>1 DEF SnapInv
<1> QED
  BY <1>2, <1>3, <1>4 DEF p

\* The look that is over leaves nothing behind.
LEMMA AskSeen ==
  ASSUME Types, DiskInv(disk, versions, left), NEW p, p.phase = "none", \A f \in Paths : p.work[f] = NoWork
  PROVE  SeenInv(p, disk, versions, left) /\ WorkInv(p) /\ SnapInv(p, disk, versions)
<1>1. NoWork.at = "none" /\ NoWork.stamp = NoStamp /\ NoWork.entry = NoEntry
  BY Blank
<1>2. SeenInv(p, disk, versions, left)
  BY <1>1, BlankSeen DEF SeenInv
<1>3. WorkInv(p)
  BY <1>1 DEF WorkInv
<1>4. SnapInv(p, disk, versions)
  BY DEF SnapInv
<1> QED
  BY <1>2, <1>3, <1>4

\* An operation that ends, whatever becomes of the bundle.
LEMMA IdleInv ==
  ASSUME Types, DiskInv(disk, versions, left)
  PROVE  /\ Idle \in OpType /\ FilesInv(Idle.files, left)
         /\ SeenInv(Idle, disk, versions, left) /\ WorkInv(Idle) /\ SnapInv(Idle, disk, versions)
         /\ ModeInv(Idle) /\ ScopeInv(Idle) /\ \A b : ReloadInv(Idle, b)
<1>1. /\ Idle \in OpType /\ Idle.kind = "none" /\ Idle.stage = "none" /\ Idle.phase = "none"
      /\ \A f \in Paths : Idle.work[f] = NoWork /\ Idle.files[f] = NoEntry
  BY IdleOp
<1>2. SeenInv(Idle, disk, versions, left) /\ WorkInv(Idle) /\ SnapInv(Idle, disk, versions)
  BY <1>1, AskSeen
<1>3. FilesInv(Idle.files, left)
  BY <1>1, BlankSeen DEF FilesInv
<1>4. ModeInv(Idle) /\ ScopeInv(Idle)
  BY <1>1 DEF ModeInv, ScopeInv
<1>5. \A b : ReloadInv(Idle, b)
  BY <1>1 DEF ReloadInv, Reloads
<1> QED
  BY <1>1, <1>2, <1>3, <1>4, <1>5
-----------------------------------------------------------------------------
(* One file is moved on *)

Moved(f, w) ==
  /\ op.work[f].at \in {"stat", "todo", "reading"} /\ Bounded(w, left)
  /\ \/ /\ w.at = "done" /\ w.entry # NoEntry
        /\ Bounded(w.entry, left) /\ Sighted(op.mode, f, w.entry, disk, versions)
     \/ /\ w.at \in {"todo", "reading"} /\ w.entry = op.work[f].entry
        /\ op.mode = "quick" => w.stamp # NoStamp

\* One file that is moved on keeps the invariant.
LEMMA MovedKeeps ==
  ASSUME IInv, NEW f \in Paths, NEW w \in WorkType, Moved(f, w),
         op' = [op EXCEPT !.work = [op.work EXCEPT ![f] = w]],
         UNCHANGED <<disk, versions, index, bundle, running, left>>
  PROVE  IInv'
<1>0. op \in OpType /\ op.work[f].at \in {"stat", "todo", "reading"}
  BY DEF IInv, Types, Moved
<1>1. /\ op' \in OpType /\ SameTask(op', op)
      /\ op'.mode = op.mode /\ op'.phase = op.phase /\ op'.unverified = op.unverified
      /\ op'.quick = op.quick /\ op'.instant = op.instant
      /\ op'.work[f] = w /\ \A g \in Paths \ {f} : op'.work[g] = op.work[g]
  BY <1>0, Worked
<1>2. op.phase = "read"
  BY <1>0 DEF IInv, WorkInv, OpType
<1>3. SeenInv(op', disk, versions, left)
  <2>1. SeenInv(op, disk, versions, left)
    BY DEF IInv
  <2>2. /\ Bounded(w, left) /\ Bounded(w.entry, left)
        /\ Sighted(op.mode, f, w.entry, disk, versions)
    BY <2>1 DEF Moved, SeenInv
  <2> QED
    BY <1>1, <2>1, <2>2 DEF SeenInv
<1>4. WorkInv(op')
  <2>1. WorkInv(op)
    BY DEF IInv
  <2>2. op.work[f].entry = NoEntry
    BY <1>0, <2>1 DEF WorkInv
  <2> QED
    BY <1>1, <1>2, <2>1, <2>2 DEF WorkInv, Moved
<1>5. SnapInv(op', disk, versions)
  BY <1>1, <1>2 DEF SnapInv
<1>6. ModeInv(op')
  BY <1>1, <1>2, IdleOp DEF IInv, ModeInv, SameTask
<1>7. ScopeInv(op')
  <2>1. w.at # "none" /\ op.work[f].at # "none"
    BY <1>0 DEF Moved
  <2> QED
    BY <1>1, <2>1 DEF IInv, ScopeInv, SameTask
<1>8. ReloadInv(op', bundle)
  BY <1>1 DEF IInv, ReloadInv, SameTask, Follows, Unselected, Selection
<1>9. FilesInv(op'.files, left)
  BY <1>1 DEF IInv, SameTask
<1> QED
  BY <1>1, <1>3, <1>4, <1>5, <1>6, <1>7, <1>8, <1>9, OnlyOp

\* What a file is done with, or read again with.
LEMMA DoneMoves ==
  ASSUME IInv, NEW f \in Paths, op.work[f].at \in {"stat", "todo", "reading"},
         NEW entry \in EntryType, entry # NoEntry, Bounded(entry, left),
         Sighted(op.mode, f, entry, disk, versions)
  PROVE  \E w \in WorkType : Moved(f, w) /\ Done(f, entry) = [op EXCEPT !.work = [op.work EXCEPT ![f] = w]]
<1> DEFINE w == [op.work[f] EXCEPT !.at = "done", !.entry = entry]
<1>1. op \in OpType /\ op.work[f] \in WorkType
  BY DEF IInv, Types, OpType
<1>2. w \in WorkType /\ w.at = "done" /\ w.entry = entry /\ w.stamp = op.work[f].stamp
  BY <1>1 DEF WorkType
<1>3. Bounded(w, left)
  BY <1>2 DEF IInv, SeenInv, Bounded
<1>4. Done(f, entry) = [op EXCEPT !.work = [op.work EXCEPT ![f] = w]]
  BY <1>1 DEF Done, OpType
<1> QED
  BY <1>2, <1>3, <1>4 DEF Moved

\* An inspection moves its file on, or makes the quick scan a full one
\* (InspectQuick, InspectLoaded).
LEMMA InspectMoves ==
  ASSUME IInv, NEW f \in Paths, op.work[f].at = "stat",
         op' = (IF op.mode = "quick" THEN InspectQuick(f) ELSE InspectLoaded(f))
  PROVE  \/ \E w \in WorkType : Moved(f, w) /\ op' = [op EXCEPT !.work = [op.work EXCEPT ![f] = w]]
         \/ op.mode = "quick" /\ op' = FullInstead(op)
<1>1. op \in OpType /\ op.work[f] \in WorkType /\ op.files[f] \in EntryType
  BY DEF IInv, Types, OpType
<1>2. /\ disk[f] \in FileType /\ Bounded(disk[f], left) /\ versions[f] \subseteq VersionType
      /\ index[f] = NotIndexed \/ (index[f].content # 0 /\ index[f] \in versions[f])
      /\ Exists(f) => Version(disk[f]) \in versions[f]
      /\ \A v \in versions[f] : 0 < v.ms
  BY DEF IInv, Types, DiskInv, IndexInv, Exists
<1>3. CASE op.mode = "quick" /\ Exists(f) /\ index[f].ms = disk[f].stamp.ms
  <2> DEFINE entry == [content |-> index[f].content, stamp |-> disk[f].stamp, loaded |-> FALSE]
  <2>1. /\ entry.content = index[f].content /\ entry.stamp = disk[f].stamp /\ ~entry.loaded
        /\ entry.stamp # NoStamp
    BY <1>3 DEF Exists
  <2>2. index[f] # NotIndexed
    <3>1. 0 < Version(disk[f]).ms /\ Version(disk[f]).ms = disk[f].stamp.ms
      BY <1>2, <1>3 DEF Version
    <3>2. NotIndexed.ms = 0
      BY DEF NotIndexed
    <3> QED
      BY <1>3, <3>1, <3>2
  <2>3. index[f] \in versions[f] /\ index[f] \in VersionType
    BY <1>2, <2>2
  <2>4. FALSE \in BOOLEAN /\ index[f].content \in Contents \cup {0} /\ disk[f].stamp \in StampType
    BY <1>2, <2>3 DEF FileType, VersionType
  <2>5. entry \in EntryType
    BY <2>4, Zenon DEF EntryType
  <2>6. entry # NoEntry
    BY <2>1 DEF NoEntry
  <2>7. Version(entry) = index[f]
    BY <1>3, <2>1, <2>3 DEF Version, VersionType
  <2>8. Bounded(entry, left)
    BY <1>2, <2>1 DEF Bounded
  <2> HIDE DEF entry
  <2>9. Sighted(op.mode, f, entry, disk, versions)
    BY <2>1, <2>3, <2>7 DEF Sighted
  <2>10. op' = Done(f, entry)
    BY <1>3 DEF InspectQuick, entry
  <2> QED
    BY <2>5, <2>6, <2>8, <2>9, <2>10, DoneMoves
<1>4. CASE op.mode = "quick" /\ Exists(f) /\ index[f].ms # disk[f].stamp.ms
  <2> DEFINE w == [op.work[f] EXCEPT !.at = "todo", !.stamp = disk[f].stamp]
  <2>1. /\ w \in WorkType /\ w.at = "todo" /\ w.stamp = disk[f].stamp
        /\ w.entry = op.work[f].entry
    BY <1>1, <1>2 DEF WorkType, FileType
  <2>2. op' = [op EXCEPT !.work = [op.work EXCEPT ![f] = w]]
    BY <1>4 DEF InspectQuick
  <2> QED
    BY <1>2, <1>4, <2>1, <2>2 DEF Moved, Exists, Bounded
<1>5. CASE op.mode = "quick" /\ ~Exists(f)
  BY <1>5 DEF InspectQuick
<1>6. CASE op.mode # "quick" /\ op.files[f].loaded /\ op.files[f].stamp = disk[f].stamp
  <2>1. op.files[f] # NoEntry
    BY <1>6 DEF NoEntry
  <2>2. op.mode = "materialize"
    BY <1>6 DEF IInv, WorkInv
  <2>3. Bounded(op.files[f], left) /\ Sighted(op.mode, f, op.files[f], disk, versions)
    BY <2>2 DEF IInv, FilesInv, Sighted
  <2>4. op' = Done(f, op.files[f])
    BY <1>6 DEF InspectLoaded
  <2> QED
    BY <1>1, <2>1, <2>3, <2>4, DoneMoves
<1>7. CASE op.mode # "quick" /\ ~(op.files[f].loaded /\ op.files[f].stamp = disk[f].stamp)
  <2> DEFINE w == [op.work[f] EXCEPT !.at = "todo"]
  <2>1. /\ w \in WorkType /\ w.at = "todo" /\ w.stamp = op.work[f].stamp
        /\ w.entry = op.work[f].entry
    BY <1>1 DEF WorkType
  <2>2. op' = [op EXCEPT !.work[f].at = "todo"]
    BY <1>7 DEF InspectLoaded
  <2>3. op' = [op EXCEPT !.work = [op.work EXCEPT ![f] = w]]
    BY <2>2
  <2>4. Bounded(w, left)
    BY <2>1 DEF IInv, SeenInv, Bounded
  <2> QED
    BY <1>7, <2>1, <2>3, <2>4 DEF Moved
<1> QED
  BY <1>3, <1>4, <1>5, <1>6, <1>7

\* The beginning and the end of a stable read move their file on (BeginRead,
\* EndRead).
LEMMA ReadMoves ==
  ASSUME IInv, NEW f \in Paths,
         \/ op.work[f].at = "todo" /\ op' = BeginRead(f)
         \/ op.work[f].at = "reading" /\ op' = EndRead(f)
  PROVE  \E w \in WorkType : Moved(f, w) /\ op' = [op EXCEPT !.work = [op.work EXCEPT ![f] = w]]
<1>1. op \in OpType /\ op.work[f] \in WorkType
  BY DEF IInv, Types, OpType
<1>2. disk[f] \in FileType /\ Bounded(disk[f], left)
  BY DEF IInv, Types, DiskInv
<1>3. Bounded(op.work[f], left) /\ (op.mode = "quick" => op.work[f].stamp # NoStamp)
  BY DEF IInv, SeenInv, WorkInv
<1>4. CASE op' = Done(f, Unread)
  <2>1. Unread # NoEntry
    BY DEF Unread, NoEntry
  <2>2. Bounded(Unread, left) /\ Sighted(op.mode, f, Unread, disk, versions)
    BY BlankSeen DEF IInv
  <2> QED
    BY <1>4, <2>1, <2>2, Blank, DoneMoves
<1>5. CASE Exists(f) /\ op' = [op EXCEPT !.work[f] = [@ EXCEPT !.at = "reading", !.before = disk[f].stamp]]
  <2> DEFINE w == [op.work[f] EXCEPT !.at = "reading", !.before = disk[f].stamp]
  <2>1. /\ w \in WorkType /\ w.at = "reading" /\ w.stamp = op.work[f].stamp
        /\ w.entry = op.work[f].entry
    BY <1>1, <1>2 DEF WorkType, FileType
  <2>2. op' = [op EXCEPT !.work = [op.work EXCEPT ![f] = w]]
    BY <1>5
  <2> QED
    BY <1>3, <2>1, <2>2 DEF Moved, Bounded
<1>6. CASE Exists(f) /\ op' = Done(f, Read(f))
  <2>1. /\ Read(f).content = disk[f].content /\ Read(f).loaded
        /\ Read(f).stamp = IF op.mode = "quick" THEN op.work[f].stamp ELSE disk[f].stamp
    BY DEF Read
  <2>2. /\ disk[f].content \in Contents \cup {0} /\ disk[f].stamp \in StampType
        /\ op.work[f].stamp \in StampType /\ TRUE \in BOOLEAN
    BY <1>1, <1>2 DEF FileType, WorkType
  <2>3. Read(f) \in EntryType
    BY <2>2, Zenon DEF Read, EntryType
  <2>4. Read(f).stamp # NoStamp /\ Bounded(Read(f), left)
    BY <1>2, <1>3, <1>6, <2>1 DEF Exists, Bounded
  <2>5. Read(f) # NoEntry
    BY <2>4 DEF NoEntry
  <2>6. Sighted(op.mode, f, Read(f), disk, versions)
    BY <2>1, <2>4 DEF Sighted
  <2> QED
    BY <1>6, <2>3, <2>4, <2>5, <2>6, DoneMoves
<1>7. CASE /\ op.work[f].tries + 1 # Attempts
           /\ op' = [op EXCEPT !.work[f] = [@ EXCEPT !.at = "todo", !.tries = op.work[f].tries + 1]]
  <2> DEFINE w == [op.work[f] EXCEPT !.at = "todo", !.tries = op.work[f].tries + 1]
  <2>1. op.work[f].tries + 1 \in 0..(Attempts - 1)
    BY <1>1, <1>7, SourcesAssumption DEF WorkType
  <2>2. /\ w \in WorkType /\ w.at = "todo" /\ w.stamp = op.work[f].stamp
        /\ w.entry = op.work[f].entry
    BY <1>1, <2>1 DEF WorkType
  <2>3. op' = [op EXCEPT !.work = [op.work EXCEPT ![f] = w]]
    BY <1>7
  <2> QED
    BY <1>3, <2>2, <2>3 DEF Moved, Bounded
<1> QED
  BY <1>4, <1>5, <1>6, <1>7 DEF BeginRead, EndRead
-----------------------------------------------------------------------------
(* The look is over, begun again, or given up *)

\* The same is looked at again, or the quick scan becomes a full one, or a full
\* one the quick scan it stands in for.
LEMMA LookAgain ==
  ASSUME IInv, NEW attempt \in 0..(Attempts - 1), NEW mode \in Modes, op.phase # "none",
         NEW quick \in 0..Attempts, op' = LookFor(op, mode, attempt, quick),
         \/ mode = op.mode /\ quick = op.quick
         \/ mode = "full" /\ op.mode = "quick"
         \/ mode = "quick" /\ op.quick # 0 /\ quick = 0,
         op.mode \in {"full", "quick"}, UNCHANGED <<disk, versions, index, bundle, running, left>>
  PROVE  IInv'
<1>1. Types /\ DiskInv(disk, versions, left) /\ op \in OpType
  BY DEF IInv, Types
<1>2. SeenInv(op', disk, versions, left) /\ WorkInv(op') /\ SnapInv(op', disk, versions)
  BY <1>1, LookSeen
<1>3. /\ op' \in OpType /\ SameTask(op', op) /\ op'.mode = mode /\ op'.phase = "read"
      /\ op'.quick = quick
  BY <1>1, Looked
<1>4. FilesInv(op'.files, left) /\ ReloadInv(op', bundle)
  BY <1>3 DEF IInv, SameTask, ReloadInv, Follows, Unselected, Selection
<1>5. op.kind # "none" /\ ModeInv(op)
  BY IdleOp DEF IInv, ModeInv
<1>6. op.stage \in {"scan", "index"} /\ ~(op.stage = "scan" /\ op.kind = "reload_file")
  BY <1>1, <1>5 DEF ModeInv, First, OpType, Stages
<1>7. ScopeInv(op')
  BY <1>3, <1>6 DEF ScopeInv, SameTask
<1>8. ModeInv(op')
  <2>1. op.stage = "index" => op.kind \in Reloads
    BY <1>5 DEF ModeInv
  <2>2. op.stage = "scan" =>
          /\ mode \in IF op.kind \in {"load", "configure"} THEN {"quick", "full"} ELSE {First(op.kind)}
          /\ quick # 0 => op.kind \in {"load", "configure"}
    <3>1. op.kind \in {"load", "recompile", "reload_all", "reload_folder", "reload_file", "configure"}
      BY <1>1, <1>5, SourcesAssumption DEF OpType
    <3>2. op.stage = "scan" /\ op.kind \notin {"load", "configure"} => op.mode # "quick"
      BY <1>5, <3>1 DEF ModeInv, First
    <3> QED
      BY <1>5, <3>2 DEF ModeInv
  <2> QED
    BY <1>3, <1>5, <1>6, <2>1, <2>2 DEF ModeInv, SameTask
<1> QED
  BY <1>2, <1>3, <1>4, <1>7, <1>8, OnlyOp

\* What sends the quick scan to the full one (FullInstead).
LEMMA FullKeeps ==
  ASSUME IInv, op.phase # "none", op.mode = "quick", op' = FullInstead(op),
         UNCHANGED <<disk, versions, index, bundle, running, left>>
  PROVE  IInv'
<1>1. op.attempt \in 0..(Attempts - 1)
  BY DEF IInv, Types, OpType
<1>2. 0 \in 0..(Attempts - 1) /\ "full" \in Modes /\ op.attempt + 1 \in 0..Attempts
  BY <1>1, SourcesAssumption DEF Modes
<1>3. op' = LookFor(op, "full", 0, op.attempt + 1)
  BY DEF FullInstead, LookFor
<1> QED
  BY <1>2, <1>3, LookAgain

\* All is read: the quick scan becomes a full one, or the signatures are looked
\* at again.
LEMMA SettleKeeps ==
  ASSUME IInv, Settle
  PROVE  IInv'
<1>1. /\ op.phase = "read" /\ Reading = {} /\ Types /\ op \in OpType /\ WorkInv(op)
      /\ UNCHANGED <<disk, versions, index, bundle, running, left>>
  BY DEF Settle, Only, IInv, Types
<1>2. CASE op.mode = "quick" /\ \E f \in At("done") : ~HasHash(op.work[f].entry)
  <2>1. op' = FullInstead(op)
    BY <1>2 DEF Settle, Only
  <2> QED
    BY <1>1, <1>2, <2>1, FullKeeps
<1>3. CASE ~(op.mode = "quick" /\ \E f \in At("done") : ~HasHash(op.work[f].entry))
  <2> DEFINE rest == IF op.mode \in {"full", "quick"} THEN Unchecked ELSE {}
  <2>1. op' = [op EXCEPT !.phase = "verify", !.instant = disk, !.unverified = rest]
    BY <1>3 DEF Settle, Only
  <2>2. rest \in SUBSET Paths /\ disk \in [Paths -> FileType]
    BY <1>1 DEF Unchecked, At, Types
  <2>3. \A f \in Paths : op.work[f].at \in {"none", "done"}
    BY <1>1 DEF Reading, At, OpType, WorkType
  <2>4. \A f \in Paths : op.mode \in {"full", "quick"} /\ op.work[f].entry.stamp # NoStamp => f \in rest
    BY <1>1 DEF Unchecked, At, WorkInv, NoEntry
  <2>5. \A f \in Paths : op.mode = "quick" /\ op.work[f].at = "done" => op.work[f].entry.content # 0
    BY <1>3 DEF At, HasHash
  <2>6. op.mode \notin {"full", "quick"} => rest = {}
    OBVIOUS
  <2> HIDE DEF rest
  <2>7. /\ op' \in OpType /\ SameTask(op', op) /\ op'.work = op.work /\ op'.mode = op.mode
        /\ op'.phase = "verify" /\ op'.instant = disk /\ op'.unverified = rest
        /\ op'.quick = op.quick
    BY <1>1, <2>1, <2>2 DEF OpType, SameTask
  <2>8. SeenInv(op', disk, versions, left)
    BY <2>7 DEF IInv, SeenInv
  <2>9. WorkInv(op')
    BY <1>1, <2>3, <2>5, <2>7 DEF WorkInv
  <2>10. SnapInv(op', disk, versions)
    BY <2>4, <2>7 DEF SnapInv
  <2>11. ModeInv(op')
    BY <1>1, <2>6, <2>7, IdleOp DEF IInv, ModeInv, SameTask
  <2>12. ScopeInv(op') /\ FilesInv(op'.files, left) /\ ReloadInv(op', bundle)
    BY <2>7 DEF IInv, ScopeInv, SameTask, ReloadInv, Follows, Unselected, Selection
  <2> QED
    BY <1>1, <2>7, <2>8, <2>9, <2>10, <2>11, <2>12, OnlyOp
<1> QED
  BY <1>2, <1>3

\* One signature is looked at again: it is the same, or a scan begins again, or
\* is given up (_verify_stable_files).
LEMMA CheckKeeps ==
  ASSUME IInv, Check
  PROVE  IInv'
<1>1. PICK f \in op.unverified : op' = Verify(f)
  BY DEF Check, Only
<1>2. /\ op.phase = "verify" /\ Types /\ op \in OpType /\ f \in Paths
      /\ UNCHANGED <<disk, versions, index, bundle, running, left>>
  BY DEF Check, Only, IInv, Types, OpType
<1>3. op.mode \in {"full", "quick"}
  BY <1>2 DEF IInv, ModeInv
<1>4. CASE disk[f].stamp = op.work[f].entry.stamp
  <2> DEFINE rest == op.unverified \ {f}
  <2>1. op' = [op EXCEPT !.unverified = rest]
    BY <1>1, <1>4 DEF Verify
  <2>2. rest \in SUBSET Paths
    BY <1>2 DEF OpType
  <2> HIDE DEF rest
  <2>3. /\ op' \in OpType /\ SameTask(op', op) /\ op'.work = op.work /\ op'.mode = op.mode
        /\ op'.phase = op.phase /\ op'.instant = op.instant /\ op'.unverified = rest
        /\ op'.quick = op.quick
    BY <1>2, <2>1, <2>2 DEF OpType, SameTask
  <2>4. SnapInv(op', disk, versions)
    <3> DEFINE x == op.work[f].entry
    <3>1. /\ SnapInv(op, disk, versions) /\ Sighted(op.mode, f, x, disk, versions)
          /\ disk[f].stamp # NoStamp => Version(disk[f]) \in versions[f]
      BY <1>2 DEF IInv, SeenInv, DiskInv
    <3>2. x.stamp # NoStamp => op.instant[f] = disk[f]
      BY <1>2, <1>4, <3>1 DEF SnapInv
    <3>3. x.stamp # NoStamp /\ x.loaded => x.content = disk[f].content
      BY <1>3, <1>4, <3>1 DEF Sighted
    <3>4. x.stamp # NoStamp => Version(x) \in versions[f]
      BY <1>3, <1>4, <3>1, <3>3 DEF Sighted, Version, NoEntry
    <3> QED
      BY <1>2, <1>4, <2>3, <3>1, <3>2, <3>3, <3>4 DEF SnapInv, rest
  <2>5. SeenInv(op', disk, versions, left) /\ WorkInv(op')
    BY <2>3 DEF IInv, SeenInv, WorkInv
  <2>6. ModeInv(op')
    BY <1>2, <1>3, <2>3, IdleOp DEF IInv, ModeInv, SameTask
  <2>7. ScopeInv(op') /\ FilesInv(op'.files, left) /\ ReloadInv(op', bundle)
    BY <2>3 DEF IInv, ScopeInv, SameTask, ReloadInv, Follows, Unselected, Selection
  <2> QED
    BY <1>2, <2>3, <2>4, <2>5, <2>6, <2>7, OnlyOp
<1>5. CASE disk[f].stamp # op.work[f].entry.stamp /\ op.attempt + 1 < Attempts
  <2>1. op' = LookFor(op, op.mode, op.attempt + 1, op.quick)
    BY <1>1, <1>5 DEF Verify, LookFor
  <2>2. op.attempt + 1 \in 0..(Attempts - 1) /\ op.mode \in Modes /\ op.quick \in 0..Attempts
    BY <1>2, <1>5, SourcesAssumption DEF OpType
  <2> QED
    BY <1>2, <1>3, <2>1, <2>2, LookAgain
<1>6. CASE op.quick \in 1..(Attempts - 1) /\ op' = Look(op, "quick", op.quick)
  <2>1. /\ op.quick \in 0..(Attempts - 1) /\ 0 \in 0..Attempts /\ op.quick # 0
        /\ "quick" \in Modes
    BY <1>6, SourcesAssumption DEF Modes
  <2>2. op' = LookFor(op, "quick", op.quick, 0)
    BY <1>2, <1>6, <2>1, Looked
  <2> QED
    BY <1>2, <1>3, <2>1, <2>2, LookAgain
<1>7. CASE op' = Idle
  BY <1>2, <1>7, IdleInv, OnlyOp DEF IInv
<1> QED
  BY <1>1, <1>4, <1>5, <1>6, <1>7 DEF Verify
-----------------------------------------------------------------------------
(* The candidate of a reload *)

\* File by file, what makes a candidate follow the bundle.
LEMMA FollowsByFile ==
  ASSUME NEW o, NEW b, o.upserts \subseteq Paths,
         \A f \in Paths :
           /\ f \in o.upserts => o.files[f] # NoEntry
           /\ f \notin o.upserts =>
                /\ o.files[f] # NoEntry <=> b.files[f] # NoEntry /\ f \notin o.removals
                /\ o.files[f] # NoEntry => o.files[f].content = b.files[f].content
  PROVE  Follows(o, b)
BY DEF Follows, Listed

\* What a reload has seen and selected makes a candidate that follows the bundle
\* and leaves what it did not select.
LEMMA CandidateFollows ==
  ASSUME IInv, op.stage = "scan", op.kind \in Reloads, op.phase = "verify"
  PROVE  LET c == Candidate(Entries(op.work)) IN
         /\ c.files \in [Paths -> EntryType] /\ FilesInv(c.files, left)
         /\ c.upserts \in SUBSET Paths /\ c.removals \in SUBSET Paths
         /\ \A o : /\ o.files = c.files /\ o.upserts = c.upserts /\ o.removals = c.removals
                   /\ o.kind = op.kind /\ o.target = op.target
                   => Follows(o, bundle) /\ Unselected(o, bundle)
<1> DEFINE entries == Entries(op.work)
           c == Candidate(entries)
<1>1. op \in OpType /\ bundle.files \in [Paths -> EntryType] /\ op.target \subseteq Paths
  BY DEF IInv, Types, BundleType, OpType
<1>2. entries \in [Paths -> EntryType] /\ \A f \in Paths : entries[f] = op.work[f].entry
  BY <1>1 DEF Entries, OpType, WorkType
<1>3. \A f \in Paths : Bounded(entries[f], left) /\ Bounded(bundle.files[f], left)
  BY <1>2 DEF IInv, SeenInv, FilesInv
<1>4. op.mode = First(op.kind)
  BY DEF IInv, ModeInv, Reloads
<1> HIDE DEF entries
<1>5. ASSUME NEW selected \in SUBSET Paths, c = Selected(entries, selected),
             selected = Paths \/ op.mode # "full"
      PROVE  /\ c.files \in [Paths -> EntryType] /\ c.upserts \in SUBSET selected /\ c.removals \in SUBSET selected
             /\ \A f \in Paths :
                  /\ c.files[f] = entries[f] \/ c.files[f] = bundle.files[f]
                  /\ f \in c.upserts => c.files[f] # NoEntry
                  /\ f \notin c.upserts =>
                       /\ c.files[f] # NoEntry <=> bundle.files[f] # NoEntry /\ f \notin c.removals
                       /\ c.files[f] # NoEntry => c.files[f].content = bundle.files[f].content
                  /\ f \notin selected => c.files[f].content = bundle.files[f].content
  <2> DEFINE changed == {f \in selected : Differ(entries[f], bundle.files[f])}
             files == [f \in Paths |-> IF f \in changed \/ op.mode = "full" THEN entries[f] ELSE bundle.files[f]]
             upserts == {f \in changed : entries[f] # NoEntry}
             removals == {f \in changed : entries[f] = NoEntry}
  <2>1. c.files = files /\ c.upserts = upserts /\ c.removals = removals
    BY <1>5 DEF Selected
  <2>2. files \in [Paths -> EntryType] /\ upserts \in SUBSET selected /\ removals \in SUBSET selected
    BY <1>1, <1>2
  <2>3. ASSUME NEW f \in Paths
        PROVE  /\ files[f] = entries[f] \/ files[f] = bundle.files[f]
               /\ f \in upserts => files[f] # NoEntry
               /\ f \notin upserts =>
                    /\ files[f] # NoEntry <=> bundle.files[f] # NoEntry /\ f \notin removals
                    /\ files[f] # NoEntry => files[f].content = bundle.files[f].content
               /\ f \notin selected => files[f].content = bundle.files[f].content
    <3>1. CASE f \in changed
      BY <1>5, <3>1
    <3>2. CASE f \notin changed /\ op.mode = "full"
      BY <1>5, <3>2 DEF Differ
    <3>3. CASE f \notin changed /\ op.mode # "full"
      BY <1>5, <3>3
    <3> QED
      BY <3>1, <3>2, <3>3
  <2> HIDE DEF files, upserts, removals
  <2> QED
    BY <2>1, <2>2, <2>3
<1>6. CASE op.kind = "reload_all"
  <2>1. c = Selected(entries, Paths)
    BY <1>6 DEF Candidate
  <2> HIDE DEF c
  <2>2. \A o : o.kind = op.kind => Selection(o) = Paths
    BY <1>6 DEF Selection
  <2> QED
    BY <1>3, <1>5, <2>1, <2>2, FollowsByFile DEF FilesInv, Unselected, c, entries
<1>7. CASE op.kind = "reload_folder"
  <2>1. c = Selected(entries, Folder) /\ Folder \in SUBSET Paths /\ op.mode # "full"
    BY <1>4, <1>7, SourcesAssumption DEF Candidate, First
  <2> HIDE DEF c
  <2>2. \A o : o.kind = op.kind => Selection(o) = Folder
    BY <1>7 DEF Selection
  <2> QED
    BY <1>3, <1>5, <2>1, <2>2, FollowsByFile DEF FilesInv, Unselected, c, entries
<1>8. CASE op.kind = "reload_file"
  <2> DEFINE files == [f \in Paths |-> IF f \in op.target THEN entries[f] ELSE bundle.files[f]]
  <2>1. c = [files |-> files, upserts |-> op.target, removals |-> {}]
    BY <1>8 DEF Candidate
  <2>2. \A f \in op.target : entries[f] # NoEntry
    BY <1>1, <1>2, <1>8 DEF IInv, ScopeInv, WorkInv
  <2>3. /\ c.files \in [Paths -> EntryType]
        /\ \A f \in Paths : c.files[f] = IF f \in op.target THEN entries[f] ELSE bundle.files[f]
        /\ c.upserts = op.target /\ c.removals = {}
    BY <1>1, <1>2, <2>1
  <2> HIDE DEF c
  <2>4. \A o : o.kind = op.kind => Selection(o) = o.target
    BY <1>8 DEF Selection
  <2> QED
    BY <1>1, <1>3, <2>2, <2>3, <2>4, FollowsByFile DEF FilesInv, Unselected, c, entries
<1> QED
  BY <1>6, <1>7, <1>8 DEF Reloads

\* What the hydration does to a candidate: it follows the bundle still, and is
\* complete, or known not to be.
LEMMA HydrateFollows ==
  ASSUME IInv, op.stage = "fill", op.kind \in Reloads
  PROVE  LET o == Hydrate(Entries(op.work)) IN
         /\ o \in OpType /\ o.kind = op.kind /\ o.target = op.target /\ ~o.hit
         /\ FilesInv(o.files, left) /\ Follows(o, bundle) /\ Unselected(o, bundle)
         /\ o.pending \/ ~bundle.pending \/ Listed(o.files) \subseteq o.upserts
<1> DEFINE entries == Entries(op.work)
           files == Hydrated(entries)
           o == Hydrate(entries)
<1>1. /\ op \in OpType /\ ~op.hit /\ ~op.pending /\ FilesInv(op.files, left)
      /\ op.files \in [Paths -> EntryType] /\ bundle.files \in [Paths -> EntryType]
      /\ Follows(op, bundle) /\ Unselected(op, bundle)
  BY DEF IInv, Types, ReloadInv, OpType, BundleType
<1>2. CASE ~bundle.pending
  <2>1. o = op
    BY <1>2 DEF Hydrate
  <2> QED
    BY <1>1, <1>2, <2>1
<1>3. CASE bundle.pending
  <2>1. \A f \in Paths : entries[f] = op.work[f].entry /\ entries[f] \in EntryType
    BY <1>1 DEF Entries, OpType, WorkType
  <2>2. \A f \in Paths : Bounded(entries[f], left) /\ Bounded(op.files[f], left)
    BY <1>1, <2>1 DEF IInv, SeenInv, FilesInv
  <2>3. \A f \in Paths : op.work[f].at = "done" => entries[f] # NoEntry /\ op.files[f] # NoEntry
    BY <1>1, <2>1 DEF IInv, WorkInv, ScopeInv, Listed
  <2>4. files \in [Paths -> EntryType]
    BY <1>1, <2>1 DEF Hydrated
  <2>5. \A f \in Paths :
          /\ files[f] = entries[f] \/ files[f] = op.files[f]
          /\ files[f].content = op.files[f].content
          /\ files[f] # NoEntry <=> op.files[f] # NoEntry
    BY <2>3 DEF Hydrated, At
  <2> HIDE DEF entries, files
  <2>6. FilesInv(files, left)
    BY <2>2, <2>5 DEF FilesInv
  <2>7. Listed(files) = Listed(op.files) /\ Listed(files) \subseteq Paths
    BY <2>5 DEF Listed
  <2>8. CASE Sparse(files) # {}
    <3>1. o = [op EXCEPT !.files = files, !.pending = TRUE]
      BY <1>3, <2>8 DEF Hydrate, StillSparse, files
    <3> HIDE DEF o
    <3>2. /\ o \in OpType /\ o.files = files /\ o.pending /\ o.hit = op.hit /\ o.kind = op.kind
          /\ o.target = op.target /\ o.upserts = op.upserts /\ o.removals = op.removals
      BY <1>1, <2>4, <3>1 DEF OpType
    <3>3. Follows(o, bundle) /\ Unselected(o, bundle)
      BY <1>1, <2>5, <2>7, <3>2 DEF Follows, Unselected, Selection, Listed
    <3> QED
      BY <1>1, <2>6, <3>2, <3>3 DEF o, entries
  <2>9. CASE Sparse(files) = {}
    <3>1. o = [op EXCEPT !.files = files, !.pending = FALSE, !.upserts = Listed(files),
                         !.removals = Listed(bundle.files) \ Listed(files)]
      BY <1>3, <2>9 DEF Hydrate, StillSparse, Removals, files
    <3> HIDE DEF o
    <3>2. Listed(bundle.files) \ Listed(files) \in SUBSET Paths
      BY DEF Listed
    <3>3. /\ o \in OpType /\ o.files = files /\ o.hit = op.hit /\ o.kind = op.kind
          /\ o.target = op.target /\ o.upserts = Listed(files)
          /\ o.removals = Listed(bundle.files) \ Listed(files)
      BY <1>1, <2>4, <2>7, <3>1, <3>2 DEF OpType
    <3>4. Follows(o, bundle)
      BY <3>3 DEF Follows, Listed
    <3>5. Unselected(o, bundle)
      BY <1>1, <2>5, <3>3 DEF Unselected, Selection
    <3> QED
      BY <1>1, <2>6, <3>3, <3>4, <3>5 DEF o, entries
  <2> QED
    BY <2>8, <2>9
<1> QED
  BY <1>2, <1>3
-----------------------------------------------------------------------------
(* The next stage *)

\* The index that a quick scan writes is of files that have a hash, each a
\* version there was of its file.
LEMMA IndexKeeps ==
  ASSUME IInv, op.phase = "verify", op.unverified = {},
         index' = IF op.mode = "quick"
                  THEN [f \in Paths |-> IF f \in At("done") THEN IndexEntry(f) ELSE NotIndexed]
                  ELSE index
  PROVE  IndexInv(index', versions)
<1>1. CASE op.mode = "quick"
  <2>1. ASSUME NEW f \in Paths, op.work[f].at = "done"
        PROVE  IndexEntry(f).content # 0 /\ IndexEntry(f) \in versions[f]
    <3> DEFINE x == op.work[f].entry
    <3>1. x.content # 0 /\ Sighted(op.mode, f, x, disk, versions) /\ SnapInv(op, disk, versions)
      BY <1>1, <2>1 DEF IInv, SeenInv, WorkInv
    <3>2. x.stamp # NoStamp
      BY <1>1, <3>1 DEF Sighted
    <3>3. Version(x) \in versions[f]
      BY <1>1, <3>1, <3>2 DEF SnapInv
    <3>4. IndexEntry(f) = Version(x) /\ Version(x).content = x.content
      BY DEF IndexEntry, Version
    <3> QED
      BY <3>1, <3>3, <3>4
  <2>2. \A f \in Paths : index'[f] = IF op.work[f].at = "done" THEN IndexEntry(f) ELSE NotIndexed
    BY <1>1 DEF At
  <2> QED
    BY <2>1, <2>2 DEF IndexInv
<1>2. CASE op.mode # "quick"
  BY <1>2 DEF IInv
<1> QED
  BY <1>1, <1>2

\* An operation that asks the runtime: its candidate is what the caller says.
LEMMA AskKeeps ==
  ASSUME IInv, NEW o \in OpType, FilesInv(o.files, left), o.kind # "none",
         o.kind \in Reloads => /\ Follows(o, bundle) /\ Unselected(o, bundle) /\ ~o.hit /\ bundle.known
                               /\ o.pending \/ ~bundle.pending \/ Listed(o.files) \subseteq o.upserts
  PROVE  /\ Ask(o) \in OpType /\ FilesInv(Ask(o).files, left)
         /\ SeenInv(Ask(o), disk, versions, left) /\ WorkInv(Ask(o)) /\ SnapInv(Ask(o), disk, versions)
         /\ ModeInv(Ask(o)) /\ ScopeInv(Ask(o)) /\ ReloadInv(Ask(o), bundle)
<1> DEFINE p == Ask(o)
<1>1. /\ p \in OpType /\ p.stage = "answer" /\ p.phase = "none"
      /\ p.kind = o.kind /\ p.target = o.target /\ p.files = o.files /\ p.pending = o.pending
      /\ p.upserts = o.upserts /\ p.removals = o.removals /\ p.hit = o.hit
      /\ \A f \in Paths : p.work[f] = NoWork
  BY Asked
<1> HIDE DEF p
<1>2. SeenInv(p, disk, versions, left) /\ WorkInv(p) /\ SnapInv(p, disk, versions)
  BY <1>1, AskSeen DEF IInv
<1>3. ModeInv(p) /\ ScopeInv(p)
  BY <1>1 DEF ModeInv, ScopeInv
<1>4. ReloadInv(p, bundle)
  BY <1>1 DEF ReloadInv, Follows, Unselected, Selection
<1> QED
  BY <1>1, <1>2, <1>3, <1>4 DEF p

\* An operation that goes on with another look at the files.
LEMMA NextLook ==
  ASSUME IInv, NEW o \in OpType, FilesInv(o.files, left), NEW mode \in Modes,
         o.stage \in {"index", "fill"}, o.kind # "none",
         o.stage = "index" => o.kind \in Reloads /\ mode = "quick",
         o.stage = "fill" => \/ o.kind = "load" /\ mode = "materialize"
                             \/ o.kind \in Reloads /\ mode \in {"hydrate", "none"},
         o.kind \in Reloads => /\ Follows(o, bundle) /\ Unselected(o, bundle)
                               /\ ~o.hit /\ ~o.pending /\ bundle.known
  PROVE  LET p == Look(o, mode, 0) IN
         /\ p \in OpType /\ FilesInv(p.files, left)
         /\ SeenInv(p, disk, versions, left) /\ WorkInv(p) /\ SnapInv(p, disk, versions)
         /\ ModeInv(p) /\ ScopeInv(p) /\ ReloadInv(p, bundle)
<1> DEFINE p == Look(o, mode, 0)
<1>0. 0 \in 0..(Attempts - 1) /\ 0 \in 0..Attempts
  BY SourcesAssumption
<1>9. p = LookFor(o, mode, 0, 0)
  BY <1>0, Looked
<1> HIDE DEF p
<1>1. /\ p \in OpType /\ SameTask(p, o) /\ p.mode = mode /\ p.phase = "read" /\ p.quick = 0
      /\ \A f \in Paths : f \notin Scope(mode, o) => p.work[f].at = "none"
  BY <1>0, <1>9, Looked
<1>2. SeenInv(p, disk, versions, left) /\ WorkInv(p) /\ SnapInv(p, disk, versions)
  BY <1>0, <1>9, LookSeen DEF IInv
<1>3. ModeInv(p)
  BY <1>1 DEF ModeInv, SameTask
<1>4. ReloadInv(p, bundle)
  BY <1>1 DEF ReloadInv, SameTask, Follows, Unselected, Selection
<1>5. ScopeInv(p)
  <2>1. o.stage = "fill" /\ o.kind \in Reloads => Scope(mode, o) \subseteq Listed(o.files)
    BY DEF Scope, Sparse, Reloads
  <2> QED
    BY <1>1, <2>1 DEF ScopeInv, SameTask
<1> QED
  BY <1>1, <1>2, <1>3, <1>4, <1>5 DEF p, SameTask

\* What an operation has seen becomes its files.
LEMMA Seen ==
  ASSUME IInv
  PROVE  LET entries == Entries(op.work)
             seen == [op EXCEPT !.files = entries] IN
         /\ entries \in [Paths -> EntryType] /\ FilesInv(entries, left)
         /\ seen \in OpType /\ seen.files = entries /\ seen.kind = op.kind
         /\ [seen EXCEPT !.hit = TRUE] \in OpType /\ [seen EXCEPT !.hit = TRUE].files = entries
         /\ [seen EXCEPT !.hit = TRUE].kind = op.kind
         /\ [seen EXCEPT !.stage = "fill"] \in OpType /\ [seen EXCEPT !.stage = "fill"].files = entries
         /\ [seen EXCEPT !.stage = "fill"].kind = op.kind
         /\ [seen EXCEPT !.stage = "fill"].stage = "fill"
<1> DEFINE entries == Entries(op.work)
<1>1. op \in OpType
  BY DEF IInv, Types
<1>2. entries \in [Paths -> EntryType] /\ \A f \in Paths : entries[f] = op.work[f].entry
  BY <1>1 DEF Entries, OpType, WorkType
<1>3. FilesInv(entries, left)
  BY <1>2 DEF IInv, SeenInv, FilesInv
<1> HIDE DEF entries
<1>4. /\ [op EXCEPT !.files = entries] \in OpType /\ [op EXCEPT !.files = entries].files = entries
      /\ [op EXCEPT !.files = entries].kind = op.kind
  BY <1>1, <1>2 DEF OpType
<1> DEFINE seen == [op EXCEPT !.files = entries]
<1> HIDE DEF seen
<1>5. seen \in OpType /\ seen.files = entries /\ seen.kind = op.kind
  BY <1>4 DEF seen
<1>6. /\ [seen EXCEPT !.hit = TRUE] \in OpType /\ [seen EXCEPT !.hit = TRUE].files = entries
      /\ [seen EXCEPT !.hit = TRUE].kind = op.kind
  BY <1>5 DEF OpType
<1>7. /\ [seen EXCEPT !.stage = "fill"] \in OpType /\ [seen EXCEPT !.stage = "fill"].files = entries
      /\ [seen EXCEPT !.stage = "fill"].kind = op.kind /\ [seen EXCEPT !.stage = "fill"].stage = "fill"
  BY <1>5 DEF OpType, Stages
<1> QED
  BY <1>2, <1>3, <1>5, <1>6, <1>7 DEF seen, entries

\* The next stage of an operation, or its end.
LEMMA ProceedKeeps ==
  ASSUME IInv, Proceed
  PROVE  IInv'
<1> DEFINE entries == Entries(op.work)
           seen == [op EXCEPT !.files = entries]
           candidate == Candidate(entries)
           chosen == [op EXCEPT !.files = candidate.files, !.upserts = candidate.upserts,
                                !.removals = candidate.removals]
<1>1. /\ op.phase = "verify" /\ UNCHANGED <<disk, versions, running, left>>
      /\ op \in OpType /\ bundle \in BundleType /\ running'.complete \in BOOLEAN
  BY DEF Proceed, IInv, Types
<1>2. IndexInv(index', versions)
  BY <1>1, IndexKeeps DEF Proceed, Advance
<1>3. op.kind # "none" /\ op.stage \in {"scan", "index", "fill"}
  BY <1>1, IdleOp DEF IInv, ModeInv, OpType, Stages
<1>4. op.kind \in {"load", "recompile", "configure"} \cup Reloads
  BY <1>1, <1>3, SourcesAssumption DEF OpType, Reloads
<1>5. /\ entries \in [Paths -> EntryType] /\ FilesInv(entries, left)
      /\ seen \in OpType /\ seen.files = entries /\ seen.kind = op.kind
      /\ [seen EXCEPT !.hit = TRUE] \in OpType /\ [seen EXCEPT !.hit = TRUE].files = entries
      /\ [seen EXCEPT !.hit = TRUE].kind = op.kind
      /\ [seen EXCEPT !.stage = "fill"] \in OpType /\ [seen EXCEPT !.stage = "fill"].files = entries
      /\ [seen EXCEPT !.stage = "fill"].kind = op.kind
      /\ [seen EXCEPT !.stage = "fill"].stage = "fill"
  BY Seen
<1>6. "load" \notin Reloads /\ "recompile" \notin Reloads /\ "configure" \notin Reloads
  BY DEF Reloads
<1>7. /\ "materialize" \in Modes /\ "quick" \in Modes /\ "hydrate" \in Modes /\ "none" \in Modes
  BY DEF Modes
<1>8. FilesInv(bundle.files, left)
  BY DEF IInv
<1>9. SUFFICES /\ bundle' \in BundleType /\ FilesInv(bundle'.files, left)
               /\ op' \in OpType /\ FilesInv(op'.files, left) /\ SeenInv(op', disk, versions, left)
               /\ WorkInv(op') /\ SnapInv(op', disk, versions) /\ ModeInv(op') /\ ScopeInv(op')
               /\ ReloadInv(op', bundle')
  BY <1>1, <1>2, StillInv
<1>10. CASE op.kind = "load"
  <2>1. op.stage = "scan" \/ op.stage = "fill"
    BY <1>3, <1>6, <1>10 DEF IInv, ModeInv
  <2>2. bundle' = bundle /\ op' \in {Ask([seen EXCEPT !.hit = TRUE]), Ask(seen), Look([seen EXCEPT !.stage = "fill"], "materialize", 0)}
    BY <1>10, <2>1 DEF Proceed, Advance, Offer
  <2> HIDE DEF seen, entries, candidate, chosen
  <2>3. CASE op' = Ask([seen EXCEPT !.hit = TRUE])
    BY <1>1, <1>3, <1>5, <1>6, <1>8, <1>10, <2>2, <2>3, AskKeeps
  <2>4. CASE op' = Ask(seen)
    BY <1>1, <1>3, <1>5, <1>6, <1>8, <1>10, <2>2, <2>4, AskKeeps
  <2>5. CASE op' = Look([seen EXCEPT !.stage = "fill"], "materialize", 0)
    BY <1>1, <1>3, <1>5, <1>6, <1>7, <1>8, <1>10, <2>2, <2>5, NextLook
  <2> QED
    BY <2>2, <2>3, <2>4, <2>5
<1>11. CASE op.kind = "recompile"
  <2>1. op.stage = "scan"
    BY <1>3, <1>6, <1>11 DEF IInv, ModeInv
  <2>2. bundle' = bundle /\ op' = Ask(seen)
    BY <1>11, <2>1 DEF Proceed, Advance
  <2> HIDE DEF seen, entries, candidate, chosen
  <2> QED
    BY <1>1, <1>3, <1>5, <1>6, <1>8, <1>11, <2>2, AskKeeps
<1>12. CASE op.kind = "configure"
  <2>1. op.stage = "scan"
    BY <1>3, <1>6, <1>12 DEF IInv, ModeInv
  <2>2. bundle' = [known |-> TRUE, files |-> entries, pending |-> FALSE] /\ op' = Idle
    BY <1>12, <2>1 DEF Proceed, Advance
  <2> HIDE DEF seen, entries, candidate, chosen
  <2>3. TRUE \in BOOLEAN /\ FALSE \in BOOLEAN
    BY Zenon
  <2>4. bundle' \in BundleType
    BY <1>5, <2>2, <2>3, Zenon DEF BundleType
  <2>5. bundle'.files = entries
    BY <2>2
  <2> QED
    BY <1>5, <2>2, <2>4, <2>5, IdleInv DEF IInv
<1>13. CASE op.kind \in Reloads /\ op.stage = "scan"
  <2>1. bundle' = bundle /\ op' = Look([chosen EXCEPT !.stage = "index"], "quick", 0)
    BY <1>3, <1>6, <1>13 DEF Proceed, Advance
  <2>2. /\ candidate.files \in [Paths -> EntryType] /\ FilesInv(candidate.files, left)
        /\ candidate.upserts \in SUBSET Paths /\ candidate.removals \in SUBSET Paths
        /\ \A o : /\ o.files = candidate.files /\ o.upserts = candidate.upserts
                  /\ o.removals = candidate.removals /\ o.kind = op.kind /\ o.target = op.target
                  => Follows(o, bundle) /\ Unselected(o, bundle)
    BY <1>1, <1>13, CandidateFollows
  <2> HIDE DEF candidate
  <2>3. [chosen EXCEPT !.stage = "index"] =
          [op EXCEPT !.files = candidate.files, !.upserts = candidate.upserts,
                     !.removals = candidate.removals, !.stage = "index"]
    OBVIOUS
  <2> HIDE DEF seen, entries, chosen
  <2> DEFINE o == [chosen EXCEPT !.stage = "index"]
  <2>4. /\ o \in OpType /\ o.files = candidate.files /\ o.upserts = candidate.upserts
        /\ o.removals = candidate.removals /\ o.kind = op.kind /\ o.target = op.target
        /\ o.stage = "index" /\ o.hit = op.hit /\ o.pending = op.pending
    BY <1>1, <2>2, <2>3 DEF OpType, Stages
  <2> HIDE DEF o
  <2>5. ~op.hit /\ ~op.pending /\ bundle.known
    BY <1>13 DEF IInv, ReloadInv
  <2>6. Follows(o, bundle) /\ Unselected(o, bundle) /\ ~o.hit /\ ~o.pending
    BY <2>2, <2>4, <2>5
  <2>7. op' = Look(o, "quick", 0)
    BY <2>1 DEF o
  <2> QED
    BY <1>1, <1>3, <1>7, <1>8, <1>13, <2>1, <2>2, <2>4, <2>5, <2>6, <2>7, NextLook
<1>14. CASE op.kind \in Reloads /\ op.stage = "index"
  <2> DEFINE o == [op EXCEPT !.stage = "fill"]
             mode == IF bundle.pending THEN "hydrate" ELSE "none"
  <2>1. bundle' = bundle /\ op' = Look(o, mode, 0)
    BY <1>14 DEF Proceed, Advance
  <2> HIDE DEF seen, entries, candidate, chosen
  <2>2. /\ o \in OpType /\ o.files = op.files /\ o.upserts = op.upserts
        /\ o.removals = op.removals /\ o.kind = op.kind /\ o.target = op.target
        /\ o.stage = "fill" /\ o.hit = op.hit /\ o.pending = op.pending
    BY <1>1 DEF OpType, Stages
  <2>3. ~op.hit /\ ~op.pending /\ bundle.known /\ Follows(op, bundle) /\ Unselected(op, bundle)
    BY <1>14 DEF IInv, ReloadInv
  <2> HIDE DEF o
  <2>4. Follows(o, bundle) /\ Unselected(o, bundle) /\ ~o.hit /\ ~o.pending
    BY <2>2, <2>3 DEF Follows, Unselected, Selection
  <2>5. FilesInv(op.files, left)
    BY DEF IInv
  <2>6. mode \in Modes /\ mode \in {"hydrate", "none"}
    BY <1>7
  <2> HIDE DEF mode
  <2> QED
    BY <1>1, <1>3, <1>8, <1>14, <2>1, <2>2, <2>3, <2>4, <2>5, <2>6, NextLook
<1>15. CASE op.kind \in Reloads /\ op.stage = "fill"
  <2> DEFINE o == Hydrate(entries)
  <2>1. Submit(o)
    BY <1>6, <1>15 DEF Proceed, Advance
  <2>2. /\ o \in OpType /\ o.kind = op.kind /\ o.target = op.target /\ ~o.hit
        /\ FilesInv(o.files, left) /\ Follows(o, bundle) /\ Unselected(o, bundle)
        /\ o.pending \/ ~bundle.pending \/ Listed(o.files) \subseteq o.upserts
    BY <1>15, HydrateFollows
  <2> HIDE DEF seen, entries, candidate, chosen, o
  <2>3. bundle.known
    BY <1>15 DEF IInv, ReloadInv
  <2>4. CASE op' = Ask(o) /\ bundle' = bundle
    BY <1>1, <1>3, <1>8, <2>2, <2>3, <2>4, AskKeeps
  <2>5. CASE bundle' = [known |-> TRUE, files |-> o.files, pending |-> o.pending] /\ op' = Idle
    <3>1. TRUE \in BOOLEAN /\ o.pending \in BOOLEAN /\ o.files \in [Paths -> EntryType]
      BY <2>2, Zenon DEF OpType
    <3>2. bundle' \in BundleType
      BY <2>5, <3>1, Zenon DEF BundleType
    <3>3. bundle'.files = o.files
      BY <2>5
    <3> QED
      BY <2>2, <2>5, <3>2, <3>3, IdleInv DEF IInv
  <2> QED
    BY <2>1, <2>4, <2>5 DEF Submit
<1> QED
  BY <1>3, <1>4, <1>10, <1>11, <1>12, <1>13, <1>14, <1>15
-----------------------------------------------------------------------------
(* The other actions *)

\* An operation begins with a look at what its kind selects.
LEMMA BeginKeeps ==
  ASSUME IInv, Begin
  PROVE  IInv'
<1>0. PICK kind \in Kinds, target \in {{f} : f \in Paths} :
        /\ op.kind = "none" /\ left.operations > 0
        /\ kind \in {"load", "recompile"} \/ bundle.known
        /\ IF kind = "reload_file" THEN \A f \in target : Exists(f)
           ELSE target = {CHOOSE f \in Paths : TRUE}
        /\ op' = Look([Idle EXCEPT !.kind = kind, !.stage = "scan", !.target = target], First(kind), 0)
        /\ left' = [left EXCEPT !.operations = @ - 1]
        /\ IF kind \in {"load", "recompile"} THEN bundle' = NoBundle /\ running' = NotRunning
           ELSE UNCHANGED <<bundle, running>>
        /\ UNCHANGED <<disk, versions, index, cache>>
  BY Zenon DEF Begin
<1>1. /\ target \in SUBSET Paths
      /\ kind \in {"load", "recompile"} \/ bundle.known
      /\ op' = Look([Idle EXCEPT !.kind = kind, !.stage = "scan", !.target = target], First(kind), 0)
      /\ IF kind \in {"load", "recompile"} THEN bundle' = NoBundle /\ running' = NotRunning
         ELSE UNCHANGED <<bundle, running>>
  BY <1>0
<1>2. /\ left.operations > 0 /\ left' = [left EXCEPT !.operations = @ - 1]
      /\ UNCHANGED <<disk, versions, index>>
  BY <1>0
<1> DEFINE o == [Idle EXCEPT !.kind = kind, !.stage = "scan", !.target = target]
           mode == First(kind)
<1>3. kind # "none" /\ mode \in Modes /\ 0 \in 0..(Attempts - 1) /\ 0 \in 0..Attempts
  BY SourcesAssumption DEF First, Modes
<1>4. Idle \in OpType /\ ~Idle.hit /\ ~Idle.pending /\ \A f \in Paths : Idle.files[f] = NoEntry
  BY IdleOp DEF Idle
<1>5. /\ o \in OpType /\ o.kind = kind /\ o.stage = "scan" /\ o.target = target
      /\ o.files = Idle.files /\ o.hit = Idle.hit /\ o.pending = Idle.pending
  BY <1>4, ZenonT(40) DEF OpType, Stages
<1> HIDE DEF o, mode
<1>6. op' = LookFor(o, mode, 0, 0)
  <2>1. op' = Look(o, mode, 0)
    BY <1>1 DEF o, mode
  <2> QED
    BY <1>3, <1>5, <2>1, Looked
<1>7. /\ op' \in OpType /\ SameTask(op', o) /\ op'.mode = mode /\ op'.phase = "read"
      /\ op'.quick = 0
      /\ \A f \in Paths : f \in Scope(mode, o) =>
           op'.work[f].at = IF mode \in {"quick", "materialize"} THEN "stat" ELSE "todo"
  BY <1>3, <1>5, <1>6, Looked
<1>8. SeenInv(op', disk, versions, left) /\ WorkInv(op') /\ SnapInv(op', disk, versions)
  BY <1>3, <1>5, <1>6, LookSeen DEF IInv
<1>9. ModeInv(op')
  BY <1>3, <1>5, <1>7 DEF ModeInv, SameTask, mode, First
<1>10. ScopeInv(op')
  <2>1. kind = "reload_file" => mode = "file" /\ Scope(mode, o) = target
    BY <1>5 DEF mode, First, Scope
  <2> QED
    BY <1>5, <1>7, <2>1 DEF ScopeInv, SameTask
<1>11. bundle' \in BundleType /\ running'.complete \in BOOLEAN /\ FilesInv(bundle'.files, left)
  <2>1. NoBundle.files = Nothing /\ NotRunning.complete = FALSE /\ FALSE \in BOOLEAN
    BY DEF NoBundle, NotRunning
  <2>2. Nothing \in [Paths -> EntryType] /\ \A f \in Paths : Nothing[f] = NoEntry
    BY Blank DEF Nothing
  <2>3. NoBundle \in BundleType
    BY <2>1, <2>2, Zenon DEF NoBundle, BundleType
  <2>4. FilesInv(Nothing, left)
    BY <2>2, BlankSeen DEF IInv, FilesInv
  <2>5. NotRunning.complete \in BOOLEAN
    BY <2>1
  <2> QED
    BY <1>1, <2>1, <2>3, <2>4, <2>5 DEF IInv, Types
<1>12. ReloadInv(op', bundle')
  BY <1>1, <1>4, <1>5, <1>7 DEF ReloadInv, Reloads, SameTask
<1>13. FilesInv(op'.files, left)
  BY <1>4, <1>5, <1>7, BlankSeen DEF IInv, FilesInv, SameTask
<1>14. left' \in [edits : 0..MaxEdits, operations : 0..MaxOperations] /\ left'.edits = left.edits
  BY <1>2, SourcesAssumption DEF IInv, Types
<1>15. Now(left') = Now(left)
  BY <1>14 DEF Now
<1>16. Types'
  BY <1>2, <1>7, <1>11, <1>14 DEF IInv, Types
<1> QED
  BY <1>2, <1>7, <1>8, <1>9, <1>10, <1>11, <1>12, <1>13, <1>15, <1>16
  DEF IInv, DiskInv, FilesInv, SeenInv, Bounded

\* Whoever edits a file changes nothing of the program.
LEMMA EditOf == Edit => UNCHANGED <<index, cache, bundle, running, op>>
BY Zenon DEF Edit

\* Somebody edits a file: its stamp is new, so nothing that was seen has it.
LEMMA EditKeeps ==
  ASSUME IInv, Edit
  PROVE  IInv'
<1>0. PICK f \in Paths : \E now \in Written(f, Now(left)) :
          /\ left.edits > 0 /\ now # disk[f]
          /\ disk' = [disk EXCEPT ![f] = now]
          /\ versions' = [versions EXCEPT ![f] = @ \cup ({Version(now)} \ {NotIndexed})]
          /\ left' = [left EXCEPT !.edits = @ - 1]
          /\ UNCHANGED <<index, cache, bundle, running, op>>
  BY Zenon DEF Edit, Now
<1>1. PICK now \in Written(f, Now(left)) :
        /\ left.edits > 0 /\ now # disk[f]
        /\ disk' = [disk EXCEPT ![f] = now]
        /\ versions' = [versions EXCEPT ![f] = @ \cup ({Version(now)} \ {NotIndexed})]
        /\ left' = [left EXCEPT !.edits = @ - 1]
        /\ UNCHANGED <<index, cache, bundle, running, op>>
  BY <1>0, Zenon
<1>2. left.edits \in 0..MaxEdits /\ MaxEdits \in Nat
  BY SourcesAssumption DEF IInv, Types
<1>3. /\ left' \in [edits : 0..MaxEdits, operations : 0..MaxOperations]
      /\ left'.edits = left.edits - 1
  BY <1>1, <1>2 DEF IInv, Types
<1>4. Now(left) \in Nat /\ Now(left) > 0 /\ Now(left') = Now(left) + 1
  BY <1>2, <1>3 DEF Now
<1>5. NoStamp.n = 0 /\ NoStamp.ms = 0 /\ Absent.stamp = NoStamp /\ Absent.content = 0
  BY DEF Absent, NoStamp
<1>6. \A g \in Paths : \A v \in versions[g] : v \in VersionType /\ 0 < v.ms /\ v.ms < Now(left)
  BY DEF IInv, Types, DiskInv
<1>7. /\ now \in FileType
      /\ \/ now = Absent
         \/ now.stamp.n = Now(left) /\ 0 < now.stamp.ms /\ now.stamp.ms < Now(left')
  <2>1. CASE now = Absent
    BY <2>1, Blank
  <2>2. CASE now # Absent
    <3>1. PICK c \in Contents, ms \in {Now(left)} \cup {v.ms : v \in versions[f]} :
            now = [content |-> c, stamp |-> [n |-> Now(left), ms |-> ms]]
      BY <1>1, <2>2 DEF Written
    <3>2. ms \in Nat /\ 0 < ms /\ ms < Now(left')
      BY <1>4, <1>6, <3>1 DEF VersionType
    <3>3. now.stamp.n = Now(left) /\ now.stamp.ms = ms
      BY <3>1
    <3>4. now \in FileType
      BY <1>4, <3>1, <3>2 DEF FileType, StampType
    <3> QED
      BY <3>2, <3>3, <3>4
  <2> QED
    BY <2>1, <2>2
<1>8. /\ disk' \in [Paths -> FileType] /\ disk'[f] = now
      /\ \A g \in Paths \ {f} : disk'[g] = disk[g]
  BY <1>1, <1>7 DEF IInv, Types
<1>9. Version(now) \in VersionType /\ Version(now).ms = now.stamp.ms
  BY <1>7 DEF Version, VersionType, FileType, StampType
<1>10. /\ versions' \in [Paths -> SUBSET VersionType]
       /\ versions'[f] = versions[f] \cup ({Version(now)} \ {NotIndexed})
       /\ \A g \in Paths \ {f} : versions'[g] = versions[g]
  BY <1>1, <1>9 DEF IInv, Types
<1>11. \A g \in Paths : versions[g] \subseteq versions'[g]
  BY <1>10
<1>12. now # Absent => Version(now) # NotIndexed
  <2>1. NotIndexed.ms = 0
    BY DEF NotIndexed
  <2> QED
    BY <1>7, <1>9, <2>1
\* A stamp of before is on the disk now only if it was there before the edit.
<1>13. \A g \in Paths : \A x : x.stamp.n < Now(left) /\ x.stamp # NoStamp /\ x.stamp = disk'[g].stamp
                             => disk'[g] = disk[g]
  <2>1. ASSUME NEW g \in Paths, NEW x, x.stamp.n < Now(left), x.stamp # NoStamp,
               x.stamp = disk'[g].stamp
        PROVE  g # f
    <3> SUFFICES ASSUME g = f
                 PROVE  FALSE
      OBVIOUS
    <3>1. now # Absent /\ now.stamp = x.stamp
      BY <1>5, <1>8, <2>1
    <3> QED
      BY <1>4, <1>7, <2>1, <3>1
  <2> QED
    BY <1>8, <2>1
<1>14. ASSUME NEW x, x.stamp \in StampType, Bounded(x, left)
       PROVE  Bounded(x, left')
  BY <1>4, <1>14 DEF Bounded, StampType
<1>15. DiskInv(disk', versions', left')
  <2>1. ASSUME NEW g \in Paths
        PROVE  /\ Bounded(disk'[g], left')
               /\ disk'[g].stamp # NoStamp => Version(disk'[g]) \in versions'[g]
    <3>1. disk[g].stamp \in StampType /\ Bounded(disk[g], left)
          /\ (disk[g].stamp # NoStamp => Version(disk[g]) \in versions[g])
      BY DEF IInv, Types, FileType, DiskInv
    <3>2. CASE g # f
      BY <1>8, <1>11, <1>14, <3>1, <3>2
    <3>3. CASE g = f
      <4>1. Bounded(now, left')
        BY <1>4, <1>5, <1>7 DEF Bounded
      <4>2. now.stamp # NoStamp => Version(now) \in versions'[f]
        BY <1>5, <1>10, <1>12
      <4> QED
        BY <1>8, <3>3, <4>1, <4>2
    <3> QED
      BY <3>2, <3>3
  <2>2. ASSUME NEW g \in Paths, NEW v \in versions'[g]
        PROVE  0 < v.ms /\ v.ms < Now(left')
    <3>1. CASE v \in versions[g]
      BY <1>4, <1>6, <3>1 DEF VersionType
    <3>2. CASE v \notin versions[g]
      <4>1. v = Version(now) /\ v # NotIndexed
        BY <1>10, <3>2
      <4>2. now # Absent
        <5>1. Version(Absent) = NotIndexed
          BY DEF Version, Absent, NoStamp, NotIndexed
        <5> QED
          BY <4>1, <5>1
      <4> QED
        BY <1>7, <1>9, <4>1, <4>2
    <3> QED
      BY <3>1, <3>2
  <2> QED
    BY <2>1, <2>2 DEF DiskInv
<1>16. ASSUME NEW files \in [Paths -> EntryType], FilesInv(files, left)
       PROVE  FilesInv(files, left')
  BY <1>14, <1>16 DEF FilesInv, EntryType
<1>17. FilesInv(bundle.files, left') /\ FilesInv(op.files, left')
  BY <1>16 DEF IInv, Types, BundleType, OpType
<1>18. IndexInv(index, versions')
  BY <1>11 DEF IInv, IndexInv
<1>19. \A g \in Paths : /\ op.work[g].stamp \in StampType /\ op.work[g].entry.stamp \in StampType
                        /\ Bounded(op.work[g], left) /\ Bounded(op.work[g].entry, left)
                        /\ Sighted(op.mode, g, op.work[g].entry, disk, versions)
  BY DEF IInv, SeenInv, Types, OpType, WorkType, EntryType
<1>20. SeenInv(op, disk', versions', left')
  <2>1. ASSUME NEW g \in Paths
        PROVE  Sighted(op.mode, g, op.work[g].entry, disk', versions')
    BY <1>11, <1>13, <1>19 DEF Sighted, Bounded
  <2> QED
    BY <1>14, <1>19, <2>1 DEF SeenInv
<1>21. SnapInv(op, disk', versions')
  BY <1>11, <1>13, <1>19 DEF IInv, SnapInv, Bounded
<1>22. Types'
  BY <1>1, <1>3, <1>8, <1>10 DEF IInv, Types
<1> QED
  BY <1>1, <1>15, <1>17, <1>18, <1>20, <1>21, <1>22 DEF IInv

\* What the runtime takes becomes the bundle.
LEMMA AcceptKeeps ==
  ASSUME IInv, Accept
  PROVE  IInv'
<1>1. /\ bundle' = [known |-> TRUE, files |-> op.files, pending |-> op.hit \/ op.pending]
      /\ op' = Idle /\ UNCHANGED <<disk, versions, index, left>>
  BY DEF Accept
<1>2. op.files \in [Paths -> EntryType] /\ FilesInv(op.files, left)
  BY DEF IInv, Types, OpType
<1>3. TRUE \in BOOLEAN /\ (op.hit \/ op.pending) \in BOOLEAN
  BY Zenon
<1>4. bundle' \in BundleType
  BY <1>1, <1>2, <1>3, Zenon DEF BundleType
<1>5. bundle'.files = op.files
  BY <1>1
<1>6. running'.complete \in BOOLEAN
  <2>1. CASE op.kind \in {"load", "recompile"}
    <3>1. running' = [known |-> TRUE, contents |-> ContentsOf(op.files), complete |-> ~op.hit]
      BY <2>1 DEF Accept
    <3>2. running'.complete = ~op.hit
      BY <3>1
    <3> QED
      BY <3>2, Zenon
  <2>2. CASE op.kind \notin {"load", "recompile"}
    <3> DEFINE contents == [f \in (DOMAIN running.contents \ op.removals) \cup op.upserts |->
                              IF f \in op.upserts THEN op.files[f].content ELSE running.contents[f]]
               whole == running.complete \/ Listed(op.files) \subseteq op.upserts
    <3>1. running' = [known |-> TRUE, complete |-> whole, contents |-> contents]
      BY <2>2 DEF Accept
    <3> HIDE DEF contents
    <3>2. running'.complete = whole
      BY <3>1
    <3> QED
      BY <3>2, Zenon
  <2> QED
    BY <2>1, <2>2
<1>7. IndexInv(index, versions)
  BY DEF IInv
<1> QED
  BY <1>1, <1>2, <1>4, <1>5, <1>6, <1>7, IdleInv, StillInv DEF IInv

\* One file is inspected, or read: the three steps that only look at the disk.
LEMMA LookKeeps ==
  ASSUME IInv, Inspect \/ StartRead \/ FinishRead
  PROVE  IInv'
<1>1. op \in OpType
  BY DEF IInv, Types
<1>2. UNCHANGED <<disk, versions, index, bundle, running, left>>
  BY DEF Inspect, StartRead, FinishRead, Only
<1>3. CASE Inspect
  <2>1. PICK f \in At("stat") : op' = IF op.mode = "quick" THEN InspectQuick(f) ELSE InspectLoaded(f)
    BY <1>3 DEF Inspect, Only
  <2>2. f \in Paths /\ op.work[f].at = "stat"
    BY DEF At
  <2>3. CASE op.mode = "quick" /\ op' = FullInstead(op)
    <3>1. op.phase # "none"
      BY <2>2 DEF IInv, WorkInv
    <3> QED
      BY <1>2, <2>3, <3>1, FullKeeps
  <2> QED
    BY <1>2, <2>1, <2>2, <2>3, InspectMoves, MovedKeeps
<1>4. CASE StartRead \/ FinishRead
  <2>1. PICK f \in Paths : \/ op.work[f].at = "todo" /\ op' = BeginRead(f)
                           \/ op.work[f].at = "reading" /\ op' = EndRead(f)
    BY <1>4 DEF StartRead, FinishRead, Only, At
  <2> QED
    BY <1>2, <2>1, ReadMoves, MovedKeeps
<1> QED
  BY <1>3, <1>4

\* The files of the project are as they were when nothing has run yet.
LEMMA InitInv ==
  ASSUME Init
  PROVE  IInv
<1>1. MaxEdits \in Nat /\ MaxOperations \in Nat /\ 1 \in Contents
  BY SourcesAssumption
<1>2. left = [edits |-> MaxEdits, operations |-> MaxOperations]
  BY DEF Init
<1>3. left \in [edits : 0..MaxEdits, operations : 0..MaxOperations] /\ left.edits = MaxEdits
  BY <1>1, <1>2
<1>4. Now(left) = 2
  BY <1>1, <1>3 DEF Now
<1>5. \A f \in Paths : \/ disk[f] = Absent
                        \/ \E c \in Contents : disk[f] = [content |-> c, stamp |-> [n |-> 1, ms |-> 1]]
  BY DEF Init
<1>6. Absent \in FileType /\ Absent.stamp = NoStamp /\ Absent.content = 0
  BY Blank DEF Absent
<1>7. \A c \in Contents : [content |-> c, stamp |-> [n |-> 1, ms |-> 1]] \in FileType
  BY DEF FileType, StampType
<1>8. disk \in [Paths -> FileType]
  <2>1. \A f \in Paths : disk[f] \in FileType
    BY <1>5, <1>6, <1>7
  <2> QED
    BY <2>1 DEF Init
<1>9. DiskInv(disk, versions, left) /\ versions \in [Paths -> SUBSET VersionType]
  <2>1. ASSUME NEW f \in Paths
        PROVE  /\ Bounded(disk[f], left) /\ Version(disk[f]) \in VersionType
               /\ disk[f] = Absent \/ Version(disk[f]).ms = 1
    <3>1. CASE disk[f] = Absent
      BY <1>4, <1>6, <1>8, <3>1 DEF Bounded, NoStamp, Version, VersionType, FileType
    <3>2. CASE \E c \in Contents : disk[f] = [content |-> c, stamp |-> [n |-> 1, ms |-> 1]]
      BY <1>4, <3>2 DEF Bounded, Version, VersionType
    <3> QED
      BY <1>5, <3>1, <3>2
  <2>2. Version(Absent) = NotIndexed /\ NotIndexed.ms = 0
    BY DEF Version, Absent, NoStamp, NotIndexed
  <2>3. versions = [f \in Paths |-> {Version(disk[f])} \ {NotIndexed}]
    BY DEF Init
  <2>4. \A f \in Paths : \A v \in versions[f] : v = Version(disk[f]) /\ v.ms = 1
    BY <2>1, <2>2, <2>3
  <2>5. \A f \in Paths : disk[f].stamp # NoStamp => Version(disk[f]) \in versions[f]
    BY <1>6, <2>1, <2>2, <2>3
  <2> QED
    BY <1>4, <2>1, <2>3, <2>4, <2>5 DEF DiskInv
<1>10. IndexInv(index, versions)
  <2>1. CASE index = [f \in Paths |-> NotIndexed]
    BY <2>1 DEF IndexInv
  <2>2. CASE /\ \A f \in Paths : Exists(f) => disk[f].content # 0
             /\ index = [f \in Paths |-> Version(disk[f])]
    <3>1. ASSUME NEW f \in Paths
          PROVE  index[f] = NotIndexed \/ (index[f].content # 0 /\ index[f] \in versions[f])
      <4>1. CASE Exists(f)
        BY <1>9, <2>2, <4>1 DEF DiskInv, Exists, Version
      <4>2. CASE ~Exists(f)
        <5>1. disk[f] = Absent
          <6>1. SUFFICES ASSUME NEW c \in Contents,
                                disk[f] = [content |-> c, stamp |-> [n |-> 1, ms |-> 1]]
                         PROVE  FALSE
            BY <1>5
          <6>2. disk[f].stamp.n = 1 /\ NoStamp.n = 0
            BY <6>1 DEF NoStamp
          <6> QED
            BY <4>2, <6>2 DEF Exists
        <5>2. Version(Absent) = NotIndexed
          BY DEF Version, Absent, NoStamp, NotIndexed
        <5> QED
          BY <2>2, <5>1, <5>2
      <4> QED
        BY <4>1, <4>2
    <3> QED
      BY <3>1 DEF IndexInv
  <2> QED
    BY <2>1, <2>2 DEF Init
<1>11. bundle = NoBundle /\ running = NotRunning /\ op = Idle
  BY DEF Init
<1>12. /\ bundle \in BundleType /\ running.complete \in BOOLEAN
       /\ bundle.files = Nothing
  <2>1. FALSE \in BOOLEAN /\ NotRunning.complete = FALSE /\ NoBundle.files = Nothing
    BY DEF NotRunning, NoBundle
  <2>2. Nothing \in [Paths -> EntryType]
    BY Blank DEF Nothing
  <2>3. NoBundle \in BundleType
    BY <2>1, <2>2, Zenon DEF NoBundle, BundleType
  <2> QED
    BY <1>11, <2>1, <2>3
<1>13. Types
  BY <1>3, <1>8, <1>9, <1>11, <1>12, IdleOp DEF Types
<1>14. FilesInv(Nothing, left)
  BY <1>9, <1>13, BlankSeen DEF Nothing, FilesInv
<1> QED
  BY <1>9, <1>10, <1>11, <1>12, <1>13, <1>14, IdleInv DEF IInv

\* The invariant holds in every state.
LEMMA Invariant == Spec => []IInv
<1>1. Init => IInv
  BY InitInv
<1>2. IInv /\ [Next]_vars => IInv'
  <2> SUFFICES ASSUME IInv, [Next]_vars
               PROVE  IInv'
    OBVIOUS
  <2>1. CASE Begin
    BY <2>1, BeginKeeps
  <2>2. CASE Inspect \/ StartRead \/ FinishRead
    BY <2>2, LookKeeps
  <2>3. CASE Settle
    BY <2>3, SettleKeeps
  <2>4. CASE Check
    BY <2>4, CheckKeeps
  <2>5. CASE Proceed
    BY <2>5, ProceedKeeps
  <2>6. CASE Accept
    BY <2>6, AcceptKeeps
  <2>7. CASE Refuse
    BY <2>7, IdleInv, OnlyOp DEF Refuse, IInv
  <2>8. CASE Persist
    BY <2>8 DEF Persist, IInv, Types, IndexInv
  <2>9. CASE Edit
    BY <2>9, EditKeeps
  <2>10. CASE UNCHANGED vars
    BY <2>10 DEF vars, IInv, Types, IndexInv
  <2> QED
    BY <2>1, <2>2, <2>3, <2>4, <2>5, <2>6, <2>7, <2>8, <2>9, <2>10 DEF Next, Worker, Stopped
<1> QED
  BY <1>1, <1>2, PTL DEF Spec
-----------------------------------------------------------------------------
(* The properties *)

\* The types, of every state: a stamp is one of the edits there were.
THEOREM TypeCorrect == Spec => []TypeOK
<1>1. IInv => TypeOK
  <2> SUFFICES ASSUME IInv
               PROVE  TypeOK
    OBVIOUS
  <2>1. left.edits \in 0..MaxEdits /\ MaxEdits \in Nat
    BY SourcesAssumption DEF IInv, Types
  <2>2. \A n \in Nat : n < Now(left) => n \in 0..(MaxEdits + 1)
    BY <2>1 DEF Now
  <2>3. ASSUME NEW x, x.stamp \in StampType, Bounded(x, left)
        PROVE  x.stamp \in Stamps
    BY <2>2, <2>3 DEF StampType, Stamps, Bounded
  <2>4. ASSUME NEW f \in Paths
        PROVE  /\ disk[f] \in [content : Contents \cup {0}, stamp : Stamps]
               /\ \/ index[f] = NotIndexed
                  \/ index[f].content \in Contents \ {0} /\ index[f].ms \in 0..(MaxEdits + 1)
    <3>1. disk[f] \in FileType /\ versions[f] \subseteq VersionType /\ Bounded(disk[f], left)
          /\ (\A v \in versions[f] : v.ms < Now(left))
          /\ (index[f] = NotIndexed \/ (index[f].content # 0 /\ index[f] \in versions[f]))
      BY DEF IInv, Types, DiskInv, IndexInv
    <3>2. disk[f].stamp \in Stamps
      BY <2>3, <3>1 DEF FileType
    <3> QED
      BY <2>2, <3>1, <3>2 DEF FileType, VersionType
  <2>5. disk \in [Paths -> [content : Contents \cup {0}, stamp : Stamps]]
    BY <2>4 DEF IInv, Types
  <2>6. ASSUME NEW f \in Paths
        PROVE  /\ bundle.files[f] \in [content : Contents \cup {0}, stamp : Stamps, loaded : BOOLEAN]
               /\ op.work[f].entry \in [content : Contents \cup {0}, stamp : Stamps, loaded : BOOLEAN]
    <3>1. ASSUME NEW x \in EntryType, Bounded(x, left)
          PROVE  x \in [content : Contents \cup {0}, stamp : Stamps, loaded : BOOLEAN]
      BY <2>3, <3>1 DEF EntryType
    <3>2. bundle.files[f] \in EntryType /\ op.work[f].entry \in EntryType
      BY DEF IInv, Types, BundleType, OpType, WorkType
    <3>3. Bounded(bundle.files[f], left) /\ Bounded(op.work[f].entry, left)
      BY DEF IInv, FilesInv, SeenInv
    <3> QED
      BY <3>1, <3>2, <3>3
  <2>7. op.attempt \in 0..(Attempts - 1) /\ \A f \in Paths : op.work[f].tries \in 0..(Attempts - 1)
    BY DEF IInv, Types, OpType, WorkType
  <2> QED
    BY <2>4, <2>5, <2>6, <2>7 DEF TypeOK
<1> QED
  BY <1>1, Invariant, PTL

\* A scan that was verified shows the files it read as they all were at one
\* instant, however many are read, in any order, and edited meanwhile; of the
\* others it has what some version held that had their size and milliseconds
\* (_verify_stable_files).
THEOREM ScanSnapshot == Spec => []ScanIsSnapshot
<1>1. IInv => ScanIsSnapshot
  BY DEF IInv, SnapInv, ScanIsSnapshot, At
<1> QED
  BY <1>1, Invariant, PTL

\* An entry of the persistent index is of some version of its file: it has the
\* hash that version had, with its size and its milliseconds, whatever was
\* edited while the index was made (_scan_quick_once).
THEOREM IndexHonest == Spec => []IndexTrue
<1>1. IInv => IndexTrue
  BY DEF IInv, IndexInv, IndexTrue
<1> QED
  BY <1>1, Invariant, PTL

\* What a reload did not select is in the new bundle as it was in the old one,
\* though it was edited since (_reload_selected, _hydrate_reload_baseline).
THEOREM UnselectedStays == Spec => UnselectedKept
<1>1. IInv /\ [Next]_vars =>
        [\A f \in Paths :
           (op.kind = "reload_file" /\ f \notin op.target) \/ (op.kind = "reload_folder" /\ f \notin Folder)
             => \/ bundle'.files[f].content = bundle.files[f].content
                \/ ~bundle'.known]_vars
  <2> SUFFICES ASSUME IInv, [Next]_vars, NEW f \in Paths, bundle' # bundle,
                      \/ op.kind = "reload_file" /\ f \notin op.target
                      \/ op.kind = "reload_folder" /\ f \notin Folder
               PROVE  bundle'.files[f].content = bundle.files[f].content
    OBVIOUS
  <2>1. /\ op.kind \in {"reload_file", "reload_folder"} /\ op.kind \in Reloads
        /\ f \notin Selection(op)
    BY DEF Reloads, Selection
  <2>2. ReloadInv(op, bundle)
    BY DEF IInv
  <2>3. Accept \/ Proceed
    BY <2>1, EditOf DEF Next, Worker, Begin, Inspect, StartRead, FinishRead, Settle, Check, Only, Refuse,
                Persist, Stopped, vars
  <2>4. CASE Accept
    BY <2>1, <2>2, <2>4 DEF Accept, ReloadInv, Unselected
  <2>5. CASE Proceed
    <3>1. op.stage = "fill" /\ Submit(Hydrate(Entries(op.work)))
      <4>1. op.kind # "load" /\ op.kind # "recompile" /\ op.kind # "configure" /\ op.kind # "none"
        BY <2>1
      <4>2. op.stage \in {"scan", "index", "fill"}
        BY <2>5, <4>1 DEF Proceed, IInv, Types, OpType, Stages, ModeInv
      <4>3. op.stage # "fill" => bundle' = bundle
        BY <2>5, <4>1, <4>2 DEF Proceed, Advance
      <4>4. op.stage = "fill"
        BY <4>2, <4>3
      <4> QED
        BY <2>5, <4>1, <4>4 DEF Proceed, Advance
    <3>2. Unselected(Hydrate(Entries(op.work)), bundle) /\ Hydrate(Entries(op.work)).kind = op.kind
          /\ Hydrate(Entries(op.work)).target = op.target
      BY <2>1, <3>1, HydrateFollows
    <3> DEFINE o == Hydrate(Entries(op.work))
    <3> HIDE DEF o
    <3>3. Submit(o) /\ Unselected(o, bundle) /\ o.kind = op.kind /\ o.target = op.target
      BY <3>1, <3>2 DEF o
    <3> QED
      BY <2>1, <3>3 DEF Submit, Unselected, Selection
  <2> QED
    BY <2>3, <2>4, <2>5
<1> QED
  BY <1>1, Invariant, PTL DEF Spec, UnselectedKept
-----------------------------------------------------------------------------
(* The baseline *)

\* What the runtime takes of a reload is the bundle it makes, file by file, and
\* what is still owed is known.
LEMMA AcceptBaseline ==
  ASSUME IInv, BaselineTrue, Accept, "configure" \notin Kinds
  PROVE  BaselineTrue'
<1>1. /\ bundle' = [known |-> TRUE, files |-> op.files, pending |-> op.hit \/ op.pending]
      /\ op.stage = "answer"
  BY DEF Accept
<1>2. bundle'.known /\ bundle'.files = op.files /\ (bundle'.pending <=> op.hit \/ op.pending)
  BY <1>1, Zenon
<1>3. CASE op.kind \in {"load", "recompile"}
  <2>1. running' = [known |-> TRUE, contents |-> ContentsOf(op.files), complete |-> ~op.hit]
    BY <1>3 DEF Accept
  <2>2. running'.contents = ContentsOf(op.files) /\ (running'.complete <=> ~op.hit)
    BY <2>1, Zenon
  <2>3. BundleRuns'
    BY <1>2, <2>2 DEF BundleRuns, ContentsOf, Listed
  <2>4. BaselineDue'
    BY <1>2, <2>2, Zenon DEF BaselineDue
  <2> QED
    BY <2>3, <2>4, Zenon DEF BaselineTrue
<1>4. CASE op.kind \notin {"load", "recompile"}
  <2>1. op.kind \in Reloads
    BY <1>1, <1>4, IdleOp, SourcesAssumption, ZenonT(40) DEF IInv, Types, OpType, ModeInv, Reloads
  <2>2. /\ bundle.known /\ Follows(op, bundle)
        /\ op.pending \/ ~bundle.pending \/ Listed(op.files) \subseteq op.upserts
    BY <1>1, <2>1 DEF IInv, ReloadInv
  <2>3. running.contents = ContentsOf(bundle.files)
    BY <2>2 DEF BaselineTrue, BundleRuns
  <2>4. /\ DOMAIN running.contents = Listed(bundle.files)
        /\ \A f \in Listed(bundle.files) : running.contents[f] = bundle.files[f].content
    BY <2>3 DEF ContentsOf
  <2> DEFINE new == [f \in (DOMAIN running.contents \ op.removals) \cup op.upserts |->
                       IF f \in op.upserts THEN op.files[f].content ELSE running.contents[f]]
             whole == running.complete \/ Listed(op.files) \subseteq op.upserts
  <2>5. running' = [known |-> TRUE, complete |-> whole, contents |-> new]
    BY <1>4 DEF Accept
  <2>6. new = ContentsOf(op.files)
    BY <2>2, <2>4 DEF Follows, ContentsOf
  <2> HIDE DEF new
  <2>7. running'.contents = new /\ (running'.complete <=> whole)
    BY <2>5, Zenon
  <2>8. BundleRuns'
    BY <1>2, <2>6, <2>7 DEF BundleRuns, ContentsOf, Listed
  <2>9. BaselineDue'
    <3> SUFFICES ASSUME ~whole, ~op.pending
                 PROVE  FALSE
      BY <1>2, <2>7, Zenon DEF BaselineDue
    <3>1. ~bundle.pending /\ ~running.complete
      BY <2>2, Zenon
    <3>2. DOMAIN running.contents = {}
      BY <2>2, <3>1, Zenon DEF BaselineTrue, BaselineDue
    <3>3. Listed(op.files) \subseteq op.upserts
      BY <2>2, <2>4, <3>2 DEF Follows
    <3> QED
      BY <3>3, Zenon
  <2> QED
    BY <2>8, <2>9, Zenon DEF BaselineTrue
<1> QED
  BY <1>3, <1>4

\* A reload that changes nothing renews the bundle with the contents it had.
LEMMA ProceedBaseline ==
  ASSUME IInv, BaselineTrue, Proceed, "configure" \notin Kinds
  PROVE  BaselineTrue'
<1>1. running' = running /\ op.phase = "verify"
  BY DEF Proceed
<1>2. op.kind # "configure" /\ op.stage \in {"scan", "index", "fill"}
  BY <1>1, IdleOp DEF IInv, Types, OpType, Stages, ModeInv
<1>3. CASE bundle' = bundle
  BY <1>1, <1>3 DEF BaselineTrue, BundleRuns, BaselineDue, ContentsOf, Listed
<1>4. CASE bundle' # bundle
  <2>1. op.stage = "fill" /\ op.kind # "load"
    BY <1>2, <1>4 DEF Proceed, Advance
  <2>2. op.kind \in Reloads
    BY <2>1 DEF IInv, ModeInv
  <2> DEFINE o == Hydrate(Entries(op.work))
  <2>3. Submit(o)
    BY <2>1 DEF Proceed, Advance
  <2>4. /\ Follows(o, bundle)
        /\ o.pending \/ ~bundle.pending \/ Listed(o.files) \subseteq o.upserts
    BY <2>1, <2>2, HydrateFollows
  <2> HIDE DEF o
  <2>5. /\ o.upserts = {} /\ o.removals = {}
        /\ bundle' = [known |-> TRUE, files |-> o.files, pending |-> o.pending]
    BY <1>4, <2>3 DEF Submit
  <2>6. bundle'.known /\ bundle'.files = o.files /\ bundle'.pending = o.pending
    BY <2>5
  <2>7. bundle.known
    BY <2>2 DEF IInv, ReloadInv
  <2>8. ContentsOf(o.files) = ContentsOf(bundle.files) /\ Listed(o.files) = Listed(bundle.files)
    BY <2>4, <2>5 DEF Follows, ContentsOf
  <2>9. running.contents = ContentsOf(bundle.files)
    BY <2>7 DEF BaselineTrue, BundleRuns
  <2>10. BundleRuns'
    BY <1>1, <2>6, <2>8, <2>9 DEF BundleRuns, ContentsOf, Listed
  <2>11. BaselineDue'
    <3>1. DOMAIN running.contents = Listed(o.files)
      BY <2>8, <2>9 DEF ContentsOf
    <3>2. Listed(o.files) \subseteq o.upserts => DOMAIN running.contents = {}
      BY <2>5, <3>1
    <3> QED
      BY <1>1, <2>4, <2>6, <2>7, <3>2, Zenon DEF BaselineTrue, BaselineDue
  <2> QED
    BY <2>10, <2>11, Zenon DEF BaselineTrue
<1> QED
  BY <1>3, <1>4

\* While no configuration is written, the bundle of every state is what the
\* runtime runs, and what a reload from the cache owes the runtime is known
\* (_handle_project_report, reload_baseline_pending).
THEOREM Baseline ==
  ASSUME "configure" \notin Kinds
  PROVE  Spec => []BaselineTrue
<1>1. Init => BaselineTrue
  <2>1. NoBundle.known = FALSE
    BY DEF NoBundle
  <2> QED
    BY <2>1 DEF Init, BaselineTrue, BundleRuns, BaselineDue
<1>2. IInv /\ BaselineTrue /\ [Next]_vars => BaselineTrue'
  <2> SUFFICES ASSUME IInv, BaselineTrue, [Next]_vars
               PROVE  BaselineTrue'
    OBVIOUS
  <2>1. CASE Accept
    BY <2>1, AcceptBaseline
  <2>2. CASE Proceed
    BY <2>2, ProceedBaseline
  <2>3. CASE bundle' = NoBundle
    <3>1. ~NoBundle.known
      BY DEF NoBundle
    <3> QED
      BY <2>3, <3>1 DEF BaselineTrue, BundleRuns, BaselineDue
  <2>4. CASE UNCHANGED <<bundle, running>>
    BY <2>4 DEF BaselineTrue, BundleRuns, BaselineDue, ContentsOf, Listed
  <2> QED
    BY <2>1, <2>2, <2>3, <2>4, EditOf
    DEF Next, Worker, Begin, Inspect, StartRead, FinishRead, Settle, Check, Only, Refuse, Persist,
        Stopped, vars
<1> QED
  BY <1>1, <1>2, Invariant, PTL DEF Spec
=============================================================================
