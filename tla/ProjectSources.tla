---------------------------- MODULE ProjectSources ----------------------------
(***************************************************************************)
(* How the sources of a project are read while somebody edits them:        *)
(* ProjectBundle.scan, scan_quick with its persistent index, materialize   *)
(* (project_bundle_scan.py, project_scan.py), the three reloads and the    *)
(* hydration of a baseline that came from the compiled cache               *)
(* (project_bundle_reload.py).  One operation runs at a time, on the       *)
(* worker; the files are read by a pool, in any order, and an editor acts  *)
(* between any two looks at the disk.                                      *)
(* A file is a content and a stamp, its signature.  Every edit makes the   *)
(* signature new, in its nanoseconds or its change time, n; the index      *)
(* keeps less of it, the size and the milliseconds, ms, which an edit may  *)
(* leave as they were.  Content 0 cannot be decoded.  Categories, paths    *)
(* and links are left out; how the session and its answers go is in        *)
(* ProjectStart.                                                           *)
(***************************************************************************)
EXTENDS Naturals, FiniteSets

CONSTANTS
  Paths,       \* what may be a file of the project
  Folder,      \* the paths of the folder that may be reloaded
  Contents,    \* what a file may hold; 0 is undecodable
  Kinds,       \* the operations that are asked for
  Attempts,    \* STABLE_READ_ATTEMPTS
  MaxEdits, MaxOperations  \* bounds

ASSUME SourcesAssumption ==
  /\ Folder \subseteq Paths /\ Contents \subseteq Nat /\ 1 \in Contents
  /\ Kinds \subseteq {"load", "recompile", "reload_all", "reload_folder", "reload_file", "configure"}
  /\ Attempts \in Nat \ {0} /\ {MaxEdits, MaxOperations} \subseteq Nat

VARIABLES
  disk,     \* path to [content, stamp]; NoStamp: no such file
  versions, \* what the index could say of each file: [content, ms] of every version
  index,    \* the persistent source index, path to [content, ms]
  cache,    \* the contents the compiled cache was made of
  bundle,   \* RuntimeClient.bundle
  running,  \* what the runtime runs, and whether it holds the sources of it
  op,       \* the operation of the worker
  left      \* what is left of the bounds

vars == <<disk, versions, index, cache, bundle, running, op, left>>

NoStamp == [n |-> 0, ms |-> 0]
Absent == [content |-> 0, stamp |-> NoStamp]
NotIndexed == [content |-> 0, ms |-> 0]
NoEntry == [content |-> 0, stamp |-> NoStamp, loaded |-> FALSE]
\* An error payload: no hash and no source path.
Unread == [content |-> 0, stamp |-> NoStamp, loaded |-> TRUE]

Nothing == [f \in Paths |-> NoEntry]
NoBundle == [known |-> FALSE, files |-> Nothing, pending |-> FALSE]
NotRunning == [known |-> FALSE, contents |-> <<>>, complete |-> FALSE]

\* at: not listed, to be inspected, to be read, being read, done
NoWork == [at |-> "none", before |-> NoStamp, tries |-> 0, stamp |-> NoStamp, entry |-> NoEntry]
\* quick: the attempts of the quick scan that a full scan stands in for
Idle == [kind |-> "none", stage |-> "none", mode |-> "none", phase |-> "none", attempt |-> 0, quick |-> 0,
         target |-> {}, work |-> [f \in Paths |-> NoWork], unverified |-> {}, instant |-> [f \in Paths |-> Absent],
         files |-> Nothing, pending |-> FALSE, upserts |-> {}, removals |-> {}, hit |-> FALSE]

Exists(f) == disk[f].stamp # NoStamp

\* _portable_source_signature: what the index knows a version of a file by.
Version(file) == [content |-> file.content, ms |-> file.stamp.ms]
Listed(files) == {f \in Paths : files[f] # NoEntry}
Sparse(files) == {f \in Listed(files) : ~files[f].loaded}
ContentsOf(files) == [f \in Listed(files) |-> files[f].content]
At(place) == {f \in Paths : op.work[f].at = place}
Reading == At("stat") \cup At("todo") \cup At("reading")
Entries(work) == [f \in Paths |-> work[f].entry]
-----------------------------------------------------------------------------
(* One look at the files: scan, scan_quick, materialize, or some of them *)

\* What is looked at, and how: the enumeration of the files.
Scope(mode, o) ==
  CASE mode \in {"full", "quick"} -> {f \in Paths : Exists(f)}
    [] mode = "folder" -> {f \in Folder : Exists(f)}
    [] mode = "file" -> o.target
    [] mode = "materialize" -> Listed(o.files)
    [] mode = "hydrate" -> Sparse(o.files)
    [] mode = "none" -> {}

Look(o, mode, attempt) ==
  [o EXCEPT !.mode = mode, !.phase = "read", !.attempt = attempt, !.quick = 0, !.unverified = {},
            !.instant = [f \in Paths |-> Absent],
            !.work = [f \in Paths |->
              IF f \notin Scope(mode, o) THEN NoWork
              ELSE [NoWork EXCEPT !.at = IF mode \in {"quick", "materialize"} THEN "stat" ELSE "todo"]]]

Done(f, entry) == [op EXCEPT !.work[f] = [@ EXCEPT !.at = "done", !.entry = entry]]

\* What has no hash, or is gone, needs the diagnostic of the normal scanner.
FullInstead(o) == [Look(o, "full", 0) EXCEPT !.quick = o.attempt + 1]

\* scan_quick: an entry of the index is good for a file of the size and the
\* milliseconds it names; what is gone sends the scan to the full one.
InspectQuick(f) ==
  IF ~Exists(f) THEN FullInstead(op)
  ELSE IF index[f].ms = disk[f].stamp.ms
  THEN Done(f, [content |-> index[f].content, stamp |-> disk[f].stamp, loaded |-> FALSE])
  ELSE [op EXCEPT !.work[f] = [@ EXCEPT !.at = "todo", !.stamp = disk[f].stamp]]

\* materialize: what is loaded and still has its signature is kept.
InspectLoaded(f) ==
  IF op.files[f].loaded /\ op.files[f].stamp = disk[f].stamp THEN Done(f, op.files[f])
  ELSE [op EXCEPT !.work[f].at = "todo"]

\* _stable_read_project_file: the signature before and after must agree.
BeginRead(f) ==
  IF ~Exists(f) THEN Done(f, Unread)
  ELSE [op EXCEPT !.work[f] = [@ EXCEPT !.at = "reading", !.before = disk[f].stamp]]

\* scan_quick keeps the signature it inspected, for the index and the check.
Read(f) ==
  [content |-> disk[f].content, loaded |-> TRUE,
   stamp |-> IF op.mode = "quick" THEN op.work[f].stamp ELSE disk[f].stamp]

EndRead(f) ==
  LET tries == op.work[f].tries + 1 IN
  IF ~Exists(f) THEN Done(f, Unread)
  ELSE IF disk[f].stamp = op.work[f].before THEN Done(f, Read(f))
  ELSE IF tries = Attempts THEN Done(f, Unread)
  ELSE [op EXCEPT !.work[f] = [@ EXCEPT !.at = "todo", !.tries = tries]]

\* Mutant: only what was read is looked at again.
UncheckedIndexed == {f \in At("done") : op.work[f].entry.loaded /\ op.work[f].entry.stamp # NoStamp}

\* _verify_stable_files: an error has no signature to look at.
Unchecked == {f \in At("done") : op.work[f].entry.stamp # NoStamp}

\* A file that changed: the scan is tried again, and so is the quick scan that
\* an exhausted full one stood in for.
Verify(f) ==
  IF disk[f].stamp = op.work[f].entry.stamp THEN [op EXCEPT !.unverified = @ \ {f}]
  ELSE IF op.attempt + 1 < Attempts THEN [Look(op, op.mode, op.attempt + 1) EXCEPT !.quick = op.quick]
  ELSE IF op.quick \in 1..(Attempts - 1) THEN Look(op, "quick", op.quick)
  ELSE Idle

\* Mutant: a file without a hash is indexed like the others.
Hashed(entry) == TRUE

\* What has no hash sends scan_quick to the full scan.
HasHash(entry) == entry.content # 0

\* Mutant: the signature is taken when the index is written.
EntryNow(f) == [content |-> op.work[f].entry.content, ms |-> disk[f].stamp.ms]

\* next_index
IndexEntry(f) == Version(op.work[f].entry)
-----------------------------------------------------------------------------
(* What the operation makes of what it has seen *)

Differ(a, b) == (a = NoEntry) # (b = NoEntry) \/ a.content # b.content

\* rescan and _reload_selected: what was seen replaces what was selected.
Selected(entries, selected) ==
  LET changed == {f \in selected : Differ(entries[f], bundle.files[f])} IN
  [files |-> [f \in Paths |-> IF f \in changed \/ op.mode = "full" THEN entries[f] ELSE bundle.files[f]],
   upserts |-> {f \in changed : entries[f] # NoEntry},
   removals |-> {f \in changed : entries[f] = NoEntry}]

\* reload_file submits its file, changed or not.
Candidate(entries) ==
  CASE op.kind = "reload_all" -> Selected(entries, Paths)
    [] op.kind = "reload_folder" -> Selected(entries, Folder)
    [] op.kind = "reload_file" ->
         [files |-> [f \in Paths |-> IF f \in op.target THEN entries[f] ELSE bundle.files[f]],
          upserts |-> op.target, removals |-> {}]

\* Mutant: what is on disk now goes with the reload, selected or not.
HydratedAnyway(entries) ==
  [f \in Paths |-> IF f \in At("done") THEN entries[f] ELSE op.files[f]]

\* hydrate_if_unchanged
Hydrated(entries) ==
  [f \in Paths |-> IF f \in At("done") /\ entries[f].content = op.files[f].content
                   THEN entries[f] ELSE op.files[f]]

\* Mutant: nothing but what is there is named.
RemovalsForgotten(files) == {}

\* The removals of a request that replaces the whole baseline.
Removals(files) == Listed(bundle.files) \ Listed(files)

\* Mutant: a reload takes the baseline for complete.
StillSparseForgotten(files) == FALSE

\* reload_baseline_pending after _hydrate_reload_baseline
StillSparse(files) == Sparse(files) # {}

Hydrate(entries) ==
  LET files == Hydrated(entries) IN
  IF ~bundle.pending THEN op
  ELSE IF Sparse(files) # {} THEN [op EXCEPT !.files = files, !.pending = StillSparse(files)]
  ELSE [op EXCEPT !.files = files, !.pending = StillSparse(files),
                  !.upserts = Listed(files), !.removals = Removals(files)]

Ask(o) == [o EXCEPT !.stage = "answer", !.phase = "none", !.instant = [f \in Paths |-> Absent],
                    !.work = [f \in Paths |-> NoWork]]

\* _stage_persistent_cache_or_source: the runtime knows its cache by the identity.
Offer(o) ==
  IF cache.known /\ cache.contents = ContentsOf(o.files) THEN Ask([o EXCEPT !.hit = TRUE])
  ELSE IF Sparse(o.files) = {} THEN Ask(o)
  ELSE Look([o EXCEPT !.stage = "fill"], "materialize", 0)

\* _submit_reload; a reload that changes nothing only renews the bundle.
Submit(o) ==
  IF o.upserts = {} /\ o.removals = {}
  THEN /\ bundle' = [known |-> TRUE, files |-> o.files, pending |-> o.pending]
       /\ op' = Idle
  ELSE op' = Ask(o) /\ UNCHANGED bundle

\* The files were read, and verified where they are: the next stage.
Advance ==
  LET entries == Entries(op.work)
      seen == [op EXCEPT !.files = entries]
      candidate == Candidate(entries)
      chosen == [op EXCEPT !.files = candidate.files, !.upserts = candidate.upserts,
                           !.removals = candidate.removals]
  IN /\ index' = IF op.mode = "quick" THEN [f \in Paths |-> IF f \in At("done") THEN IndexEntry(f) ELSE NotIndexed]
                 ELSE index
     /\ CASE op.stage = "scan" /\ op.kind = "load" -> op' = Offer(seen) /\ UNCHANGED bundle
          [] op.stage = "scan" /\ op.kind = "recompile" -> op' = Ask(seen) /\ UNCHANGED bundle
          \* _write_configuration
          [] op.stage = "scan" /\ op.kind = "configure" ->
               /\ bundle' = [known |-> TRUE, files |-> entries, pending |-> FALSE]
               /\ op' = Idle
          [] op.stage = "scan" /\ op.kind \notin {"load", "recompile", "configure"} ->
               op' = Look([chosen EXCEPT !.stage = "index"], "quick", 0) /\ UNCHANGED bundle
          [] op.stage = "index" ->
               op' = Look([op EXCEPT !.stage = "fill"], IF bundle.pending THEN "hydrate" ELSE "none", 0)
               /\ UNCHANGED bundle
          [] op.stage = "fill" /\ op.kind = "load" -> op' = Ask(seen) /\ UNCHANGED bundle
          [] op.stage = "fill" /\ op.kind # "load" -> Submit(Hydrate(entries))
-----------------------------------------------------------------------------
(* The actions *)

First(kind) ==
  CASE kind \in {"load", "configure"} -> "quick"
    [] kind \in {"recompile", "reload_all"} -> "full"
    [] kind = "reload_folder" -> "folder"
    [] kind = "reload_file" -> "file"

\* begin_session_reset drops the project before it is loaded again.
Begin ==
  \E kind \in Kinds : \E target \in {{f} : f \in Paths} :
    /\ op.kind = "none" /\ left.operations > 0
    /\ kind \in {"load", "recompile"} \/ bundle.known
    /\ IF kind = "reload_file" THEN \A f \in target : Exists(f)
       ELSE target = {CHOOSE f \in Paths : TRUE}
    /\ op' = Look([Idle EXCEPT !.kind = kind, !.stage = "scan", !.target = target], First(kind), 0)
    /\ left' = [left EXCEPT !.operations = @ - 1]
    /\ IF kind \in {"load", "recompile"} THEN bundle' = NoBundle /\ running' = NotRunning
       ELSE UNCHANGED <<bundle, running>>
    /\ UNCHANGED <<disk, versions, index, cache>>

Only(next) == op' = next /\ UNCHANGED <<disk, versions, index, cache, bundle, running, left>>

\* All is inspected before the first of the misses is read.
Inspect == \E f \in At("stat") : Only(IF op.mode = "quick" THEN InspectQuick(f) ELSE InspectLoaded(f))
StartRead == \E f \in At("todo") :
  /\ op.mode = "quick" => At("stat") = {}
  /\ Only(BeginRead(f))
FinishRead == \E f \in At("reading") : Only(EndRead(f))

\* All is read: a scan looks at the signatures again.  The instant is the one
\* the scan claims to be a picture of.
Settle ==
  /\ op.phase = "read" /\ Reading = {}
  /\ Only(IF op.mode = "quick" /\ \E f \in At("done") : ~HasHash(op.work[f].entry) THEN FullInstead(op)
          ELSE [op EXCEPT !.phase = "verify", !.instant = disk,
                          !.unverified = IF op.mode \in {"full", "quick"} THEN Unchecked ELSE {}])
Check == op.phase = "verify" /\ \E f \in op.unverified : Only(Verify(f))
Proceed ==
  /\ op.phase = "verify" /\ op.unverified = {}
  /\ Advance
  /\ UNCHANGED <<disk, versions, cache, running, left>>

\* The runtime takes the project, or the changes, and _handle_project_report
\* makes the candidate the bundle; or it refuses, and the bundle stays.
Accept ==
  LET kept == DOMAIN running.contents \ op.removals IN
  /\ op.stage = "answer"
  /\ bundle' = [known |-> TRUE, files |-> op.files, pending |-> op.hit \/ op.pending]
  /\ running' =
       IF op.kind \in {"load", "recompile"}
       THEN [known |-> TRUE, contents |-> ContentsOf(op.files), complete |-> ~op.hit]
       ELSE [known |-> TRUE, complete |-> running.complete \/ Listed(op.files) \subseteq op.upserts,
             contents |-> [f \in kept \cup op.upserts |->
                             IF f \in op.upserts THEN op.files[f].content ELSE running.contents[f]]]
  /\ op' = Idle
  /\ UNCHANGED <<disk, versions, index, cache, left>>
Refuse ==
  /\ op.stage = "answer" /\ op' = Idle
  /\ UNCHANGED <<disk, versions, index, cache, bundle, running, left>>

\* The runtime exports what it compiled, and the front end keeps it (StateTransfer).
Persist ==
  /\ op.kind = "none" /\ running.known /\ cache # [known |-> TRUE, contents |-> running.contents]
  /\ cache' = [known |-> TRUE, contents |-> running.contents]
  /\ UNCHANGED <<disk, versions, index, bundle, running, op, left>>

\* What a file may become: what is written has a signature of its own, and may
\* have the size and the milliseconds of any version before it.
Written(f, n) ==
  {Absent} \cup {[content |-> c, stamp |-> [n |-> n, ms |-> ms]] :
                  c \in Contents, ms \in {n} \cup {v.ms : v \in versions[f]}}

\* Somebody writes, creates or deletes a file.
Edit ==
  \E f \in Paths : \E now \in Written(f, 2 + MaxEdits - left.edits) :
    /\ left.edits > 0 /\ now # disk[f]
    /\ disk' = [disk EXCEPT ![f] = now]
    /\ versions' = [versions EXCEPT ![f] = @ \cup ({Version(now)} \ {NotIndexed})]
    /\ left' = [left EXCEPT !.edits = @ - 1]
    /\ UNCHANGED <<index, cache, bundle, running, op>>

Stopped == op.kind = "none" /\ UNCHANGED vars

\* A project that was never loaded, or one that was, and has no undecodable
\* file: the index and the compiled cache are kept in one directory.
Init ==
  /\ disk \in [Paths -> {Absent} \cup {[content |-> c, stamp |-> [n |-> 1, ms |-> 1]] :
                                        c \in Contents \cap {0, 1}}]
  /\ versions = [f \in Paths |-> {Version(disk[f])} \ {NotIndexed}]
  /\ \/ index = [f \in Paths |-> NotIndexed] /\ cache = [known |-> FALSE, contents |-> <<>>]
     \/ /\ \A f \in Paths : Exists(f) => disk[f].content # 0
        /\ index = [f \in Paths |-> Version(disk[f])]
        /\ cache = [known |-> TRUE, contents |-> [f \in {g \in Paths : Exists(g)} |-> disk[f].content]]
  /\ bundle = NoBundle /\ running = NotRunning /\ op = Idle
  /\ left = [edits |-> MaxEdits, operations |-> MaxOperations]

Worker == Inspect \/ StartRead \/ FinishRead \/ Settle \/ Check \/ Proceed
Next == Begin \/ Worker \/ Accept \/ Refuse \/ Persist \/ Edit \/ Stopped
Spec == Init /\ [][Next]_vars

\* The worker runs, and the runtime answers.
FairSpec == Spec /\ WF_vars(Worker) /\ WF_vars(Accept \/ Refuse)
-----------------------------------------------------------------------------
(* Properties *)

Stamps == [n : 0..(MaxEdits + 1), ms : 0..(MaxEdits + 1)]

TypeOK ==
  /\ disk \in [Paths -> [content : Contents \cup {0}, stamp : Stamps]]
  \* An entry of the index has a hash.
  /\ \A f \in Paths :
       index[f] = NotIndexed \/ (index[f].content \in Contents \ {0} /\ index[f].ms \in 0..(MaxEdits + 1))
  /\ {bundle.files[f] : f \in Paths} \cup {op.work[f].entry : f \in Paths}
       \subseteq [content : Contents \cup {0}, stamp : Stamps, loaded : BOOLEAN]
  /\ op.attempt \in 0..(Attempts - 1) /\ \A f \in Paths : op.work[f].tries \in 0..(Attempts - 1)

\* A scan that is done shows the files it read as they all were at one instant,
\* though they were read one by one; and of a file it did not read the contents
\* of a version with the size and the milliseconds it had then, which are its
\* contents unless two of its versions share these (_verify_stable_files).
ScanIsSnapshot ==
  op.phase = "verify" /\ op.mode \in {"full", "quick"} /\ op.unverified = {}
    => \A f \in At("done") : LET entry == op.work[f].entry IN
         entry.stamp # NoStamp =>
           /\ entry.stamp = op.instant[f].stamp
           /\ IF entry.loaded THEN entry.content = op.instant[f].content
              ELSE Version(entry) \in versions[f]

\* What the index says of a file was once true: some version of that very file
\* had these contents with this size and these milliseconds, and so the file has
\* them unless two of its versions share a signature (_scan_quick_once).
IndexTrue == \A f \in Paths : index[f] # NotIndexed => index[f] \in versions[f]

\* The bundle, which the next reload compares the disk with, is what the
\* runtime runs, file by file, whichever way both came to it.
BundleRuns == bundle.known => ContentsOf(bundle.files) = running.contents

\* A reload that has to bring the runtime the sources its cache did not is
\* known to be due (reload_baseline_pending).
BaselineDue == bundle.known /\ ~running.complete /\ DOMAIN running.contents # {} => bundle.pending

\* A reload of a file or a folder leaves every other file as the runtime has
\* it, though the disk has newer ones (README: unselected changes are kept).
UnselectedKept ==
  [][\A f \in Paths :
       (op.kind = "reload_file" /\ f \notin op.target) \/ (op.kind = "reload_folder" /\ f \notin Folder)
         => \/ bundle'.files[f].content = bundle.files[f].content
            \/ ~bundle'.known]_vars

\* Every operation ends, whatever cannot be read or changes meanwhile.
OperationEnds == (op.kind # "none") ~> (op.kind = "none")

\* The next reload starts from what the runtime runs, and knows what it owes it.
BaselineTrue == BundleRuns /\ BaselineDue
=============================================================================
