---------------------- MODULE StateTransferFileProofs ----------------------
(***************************************************************************)
(* NothingLeft of StateTransfer for every user who waits for what he gave  *)
(* up, every bound and every disk but one that cannot make a folder.       *)
(*                                                                         *)
(* Tidy says whose the files are: every file is somebody's, what somebody  *)
(* has exists, and nobody has the file of another.  That it is kept rests  *)
(* on what StateTransferProofs says of the jobs and of what is under way.  *)
(***************************************************************************)
EXTENDS StateTransferProofs
-----------------------------------------------------------------------------
(* The temporary files *)

FileIds(c) == {f.id : f \in c.files}

\* What has a file, or the folder of a diagnosis.
Owned(c) ==
  ({c.export.file, c.project.file, c.import.file, c.diagnosis.folder} \cup c.diagnosis.parts) \ {0}

\* The export of a project file has the file of the project, any other one of its own.
Own(c) == IF c.export.stage = "project" THEN 0 ELSE c.export.file

\* Nobody has the file of another.
Apart(c) ==
  /\ c.export.stage = "project" => c.export.file = c.project.file
  /\ c.project.file \notin {Own(c), c.import.file, c.diagnosis.folder} \ {0}
  /\ c.import.file \notin {Own(c), c.diagnosis.folder} \ {0}
  /\ c.diagnosis.folder \notin {Own(c)} \ {0}
  /\ c.diagnosis.parts \cap {Own(c), c.project.file, c.import.file, c.diagnosis.folder} = {}
  /\ 0 \notin c.diagnosis.parts /\ (c.export.stage \in DiagnosisStages => c.export.file # 0)

\* In the folder of a diagnosis are its parts, and the part that is being exported.
InFolder(c) ==
  \A f \in c.files : f.folder # 0 =>
    /\ f.folder = c.diagnosis.folder
    /\ f.id \in c.diagnosis.parts \/ (f.id = c.export.file /\ c.export.stage \in DiagnosisStages)

\* Every file is somebody's, what is somebody's exists.
Claimed(c) == FileIds(c) \subseteq Owned(c) /\ InFolder(c)
Backed(c) == Owned(c) \subseteq FileIds(c) /\ Apart(c)
Tidy(c) == Claimed(c) /\ Backed(c)

\* Of the files of c, those with the numbers ids are gone.
Takes(c, r, ids) == r.files = {f \in c.files : f.id \notin ids}

\* What is left of the files, and of their numbers.
LEMMA Taken ==
  ASSUME NEW c, NEW r, NEW ids, Takes(c, r, ids)
  PROVE  FileIds(r) = FileIds(c) \ ids /\ r.files \subseteq c.files
BY DEF Takes, FileIds

\* What is gone in two steps is gone.
LEMMA TakenTwice ==
  ASSUME NEW c, NEW v, NEW r, NEW first, NEW second, Takes(c, v, first), Takes(v, r, second)
  PROVE  Takes(c, r, first \cup second)
BY DEF Takes

\* A message, an event, a request and an exception touch no file.
LEMMA Untouched ==
  ASSUME NEW c, Shape(c)
  PROVE  /\ \A event : Emit(c, event).files = c.files
         /\ \A tag, kind, transfer : Tell(c, tag, kind, transfer).files = c.files
         /\ Raise(c).files = c.files /\ Reschedule(c).files = c.files /\ Ask(c).files = c.files
BY DEF Shape, NewClient, Emit, Tell, Raise, Reschedule, Ask

\* What is given up takes its file with it.
LEMMA TakesFiles ==
  ASSUME NEW c, Shape(c)
  PROVE  /\ \A ids : Takes(c, Remove(c, ids), ids)
         /\ Takes(c, DropExport(c), {c.export.file})
         /\ Takes(c, FinishCache(c), {c.export.file})
         /\ Takes(c, ClearImport(c), {c.import.file})
         /\ Takes(c, CancelImport(c), {c.import.file})
<1>1. \A ids : Takes(c, Remove(c, ids), ids) /\ DOMAIN Remove(c, ids) = DOMAIN c
  BY DEF Shape, NewClient, Remove, Takes
<1>2. Takes(c, DropExport(c), {c.export.file}) /\ DOMAIN DropExport(c) = DOMAIN c
  <2> DEFINE kept == Remove(c, {c.export.file})
  <2>1. Takes(c, kept, {c.export.file}) /\ DOMAIN kept = DOMAIN c
    BY <1>1
  <2>2. DropExport(c) = [kept EXCEPT !.export = NoExport]
    BY DEF DropExport
  <2> HIDE DEF kept
  <2> QED
    BY <2>1, <2>2 DEF Takes, Shape, NewClient
<1>3. Takes(c, FinishCache(c), {c.export.file})
  <2> DEFINE w == DropExport(c)
  <2>1. FinishCache(c) = [w EXCEPT !.cache.prepared = FALSE]
    BY DEF FinishCache
  <2>2. Takes(c, w, {c.export.file}) /\ DOMAIN w = DOMAIN c
    BY <1>2
  <2> HIDE DEF w
  <2> QED
    BY <2>1, <2>2 DEF Takes, Shape, NewClient
<1>4. Takes(c, ClearImport(c), {c.import.file}) /\ DOMAIN ClearImport(c) = DOMAIN c
  <2> DEFINE kept == Remove(c, {c.import.file})
  <2>1. Takes(c, kept, {c.import.file}) /\ DOMAIN kept = DOMAIN c
    BY <1>1
  <2>2. ClearImport(c) = [kept EXCEPT !.import = NoImport]
    BY DEF ClearImport
  <2> HIDE DEF kept
  <2> QED
    BY <2>1, <2>2 DEF Takes, Shape, NewClient
<1>5. Takes(c, CancelImport(c), {c.import.file})
  <2>1. Shape(ClearImport(c))
    BY GivingUp DEF View
  <2>2. \A tag, kind, transfer :
          Tell(ClearImport(c), tag, kind, transfer).files = ClearImport(c).files
    BY <2>1, Untouched
  <2> QED
    BY <1>4, <2>2 DEF CancelImport, Takes
<1> QED
  BY <1>1, <1>2, <1>3, <1>4, <1>5

\* The folder goes with the parts when nothing else is in it.
LEMMA CleanedUp ==
  ASSUME NEW c, Shape(c), \A f \in c.files : f.folder # 0 => f.id \in c.diagnosis.parts
  PROVE  Takes(c, Cleanup(c), {c.diagnosis.folder} \cup c.diagnosis.parts)
<1> DEFINE d == c.diagnosis
           kept == Remove(c, d.parts)
           folder == IF \E f \in kept.files : f.folder = d.folder /\ d.folder # 0
                     THEN {} ELSE {d.folder}
           gone == Remove(kept, folder)
<1>1. Cleanup(c) = [gone EXCEPT !.diagnosis = NoDiagnosis]
  BY DEF Cleanup
<1>2. Takes(c, kept, d.parts) /\ Shape(kept)
  BY TakesFiles, Files DEF View
<1>3. folder = {d.folder}
  BY <1>2 DEF Takes
<1>4. Takes(kept, gone, {d.folder}) /\ Shape(gone)
  <2> HIDE DEF kept
  <2>1. Takes(kept, Remove(kept, {d.folder}), {d.folder}) /\ Shape(Remove(kept, {d.folder}))
    BY <1>2, TakesFiles, Files DEF View
  <2> QED
    BY <1>3, <2>1
<1>5. Cleanup(c).files = gone.files
  <2> HIDE DEF gone
  <2> QED
    BY <1>1, <1>4 DEF Shape, NewClient
<1> HIDE DEF gone, kept, folder
<1>6. Takes(c, gone, d.parts \cup {d.folder})
  BY <1>2, <1>4, TakenTwice
<1> QED
  BY <1>5, <1>6 DEF Takes

\* What ends a project file or a diagnosis takes what it had.
LEMMA EndTakes ==
  ASSUME NEW c, Shape(c), InFolder(c)
  PROVE  /\ Takes(c, FinishProject(c, FALSE), {c.export.file, c.project.file, c.import.file})
         /\ Takes(c, FinishProject(c, TRUE), {c.export.file})
         /\ Takes(c, FinishDiagnosis(c, FALSE), {c.export.file, c.import.file, c.diagnosis.folder}
                                                  \cup c.diagnosis.parts)
         /\ Takes(c, FinishDiagnosis(c, TRUE), {c.export.file, c.diagnosis.folder}
                                                 \cup c.diagnosis.parts)
<1>1. ASSUME NEW w, Shape(w)
      PROVE  LET r == Emit([DropExport(w) EXCEPT !.project = NoProject], "project")
             IN  Takes(w, r, {w.export.file})
  <2> DEFINE v == DropExport(w)
             u == [v EXCEPT !.project = NoProject]
  <2>1. View(v, NoExport, w.project, w.diagnosis, w.import, w.events)
    BY <1>1, GivingUp
  <2>2. Takes(w, v, {w.export.file}) /\ Shape(v)
    BY <1>1, <2>1, TakesFiles DEF View
  <2> HIDE DEF v
  <2>3. u.files = v.files /\ Shape(u)
    BY <2>2 DEF Shape, NewClient, NoProject
  <2> HIDE DEF u
  <2>4. Emit(u, "project").files = u.files
    BY <2>3, Untouched
  <2>5. Takes(w, Emit(u, "project"), {w.export.file})
    BY <2>2, <2>3, <2>4 DEF Takes
  <2> QED
    BY <2>5 DEF u, v
<1>2. Takes(c, FinishProject(c, TRUE), {c.export.file})
  BY <1>1 DEF FinishProject
<1>3. Takes(c, FinishProject(c, FALSE), {c.export.file, c.project.file, c.import.file})
  <2> DEFINE v == CancelImport(c)
             w == Remove(v, {c.project.file})
             r == Emit([DropExport(w) EXCEPT !.project = NoProject], "project")
  <2>1. View(v, c.export, c.project, c.diagnosis, NoImport, c.events)
    BY GivingUp
  <2>2. Takes(c, v, {c.import.file}) /\ Shape(v)
    BY <2>1, TakesFiles DEF View
  <2>3. View(w, v.export, v.project, v.diagnosis, v.import, v.events)
    <3> HIDE DEF v
    <3> QED
      BY <2>2, Files
  <2>4. Takes(v, w, {c.project.file}) /\ Shape(w) /\ w.export = c.export
    <3>1. Takes(v, w, {c.project.file})
      <4> HIDE DEF v
      <4> QED
        BY <2>2, TakesFiles
    <3> HIDE DEF v, w
    <3> QED
      BY <2>1, <2>3, <3>1 DEF View
  <2> HIDE DEF v, w
  <2>5. Takes(w, r, {c.export.file})
    BY <1>1, <2>4
  <2>6. Takes(c, w, {c.import.file} \cup {c.project.file})
    BY <2>2, <2>4, TakenTwice
  <2> HIDE DEF r
  <2>7. Takes(c, r, ({c.import.file} \cup {c.project.file}) \cup {c.export.file})
    BY <2>5, <2>6, TakenTwice
  <2>8. Takes(c, r, {c.export.file, c.project.file, c.import.file})
    BY <2>7 DEF Takes
  <2> QED
    BY <2>8 DEF FinishProject, r, w, v
<1>4. ASSUME NEW w, Shape(w), InFolder(w)
      PROVE  LET r == Emit(Cleanup(DropExport(w)), "diagnosis")
             IN  Takes(w, r, {w.export.file, w.diagnosis.folder} \cup w.diagnosis.parts)
  <2> DEFINE v == DropExport(w)
             u == Cleanup(v)
             r == Emit(u, "diagnosis")
  <2>1. View(v, NoExport, w.project, w.diagnosis, w.import, w.events)
    BY <1>4, GivingUp
  <2>2. Takes(w, v, {w.export.file}) /\ Shape(v) /\ v.diagnosis = w.diagnosis
    BY <1>4, <2>1, TakesFiles DEF View
  <2> HIDE DEF v
  <2>3. \A f \in v.files : f.folder # 0 => f.id \in v.diagnosis.parts
    BY <1>4, <2>2 DEF InFolder, Takes
  <2>4. Takes(v, u, {w.diagnosis.folder} \cup w.diagnosis.parts) /\ Shape(u)
    BY <2>2, <2>3, CleanedUp, GivingUp DEF View
  <2> HIDE DEF u
  <2>5. r.files = u.files
    BY <2>4, Untouched
  <2> HIDE DEF r
  <2>6. Takes(w, u, {w.export.file} \cup ({w.diagnosis.folder} \cup w.diagnosis.parts))
    BY <2>2, <2>4, TakenTwice
  <2>7. Takes(w, r, {w.export.file, w.diagnosis.folder} \cup w.diagnosis.parts)
    BY <2>5, <2>6 DEF Takes
  <2> QED
    BY <2>7 DEF r, u, v
<1>5. Takes(c, FinishDiagnosis(c, TRUE), {c.export.file, c.diagnosis.folder}
                                           \cup c.diagnosis.parts)
  <2>1. FinishDiagnosis(c, TRUE) = Emit(Cleanup(DropExport(c)), "diagnosis")
    BY DEF FinishDiagnosis
  <2> QED
    BY <1>4, <2>1
<1>6. Takes(c, FinishDiagnosis(c, FALSE), {c.export.file, c.import.file, c.diagnosis.folder}
                                            \cup c.diagnosis.parts)
  <2> DEFINE v == CancelImport(c)
             w == IF c.export.transfer # 0 THEN Tell(v, "release", "none", c.export.transfer)
                  ELSE IF c.export.stage \in DiagnosisStages
                       THEN Tell(v, "cancel", Kind(c.export.stage), 0)
                       ELSE v
             r == Emit(Cleanup(DropExport(w)), "diagnosis")
  <2>1. View(v, c.export, c.project, c.diagnosis, NoImport, c.events)
    BY GivingUp
  <2>2. Takes(c, v, {c.import.file}) /\ Shape(v)
    BY <2>1, TakesFiles DEF View
  <2>3. View(w, v.export, v.project, v.diagnosis, v.import, v.events) /\ w.files = v.files
    <3> HIDE DEF v
    <3>1. View(v, v.export, v.project, v.diagnosis, v.import, v.events)
      BY <2>2 DEF View
    <3>2. \A tag, kind, transfer :
            /\ View(Tell(v, tag, kind, transfer), v.export, v.project, v.diagnosis, v.import,
                    v.events)
            /\ Tell(v, tag, kind, transfer).files = v.files
      BY <2>2, Words, Untouched
    <3> QED
      BY <3>1, <3>2
  <2>4. Shape(w) /\ w.export = c.export /\ w.diagnosis = c.diagnosis /\ w.files = v.files
    <3> HIDE DEF v, w
    <3> QED
      BY <2>1, <2>3 DEF View
  <2>5. FinishDiagnosis(c, FALSE) = r
    BY DEF FinishDiagnosis
  <2> HIDE DEF v, w
  <2>6. InFolder(w)
    BY <2>2, <2>4 DEF Takes, InFolder
  <2>7. Takes(w, r, {c.export.file, c.diagnosis.folder} \cup c.diagnosis.parts)
    BY <1>4, <2>4, <2>6
  <2> HIDE DEF r
  <2>8. Takes(c, w, {c.import.file})
    BY <2>2, <2>4 DEF Takes
  <2>9. Takes(c, r, {c.import.file} \cup ({c.export.file, c.diagnosis.folder} \cup c.diagnosis.parts))
    BY <2>7, <2>8, TakenTwice
  <2> QED
    BY <2>5, <2>9 DEF Takes
<1> QED
  BY <1>2, <1>3, <1>5, <1>6

\* The files, the jobs and the import decide what is tidy.
LEMMA SameTidy ==
  ASSUME NEW c, NEW r, r.files = c.files, r.project.file = c.project.file,
         r.export.file = c.export.file, r.export.stage = c.export.stage,
         r.import.file = c.import.file, r.diagnosis.folder = c.diagnosis.folder,
         r.diagnosis.parts = c.diagnosis.parts
  PROVE  (Claimed(r) <=> Claimed(c)) /\ (Backed(r) <=> Backed(c))
BY DEF Claimed, Backed, FileIds, Owned, Own, Apart, InFolder

\* What an export or an import had goes with it.
LEMMA GivenUp ==
  ASSUME NEW c, Claimed(c), NEW r
  PROVE  /\ /\ View(r, NoExport, c.project, c.diagnosis, c.import, r.events)
            /\ Takes(c, r, {c.export.file})
            => Claimed(r) /\ (c.export.stage # "project" /\ Backed(c) => Backed(r))
         /\ /\ View(r, c.export, c.project, c.diagnosis, NoImport, r.events)
            /\ Takes(c, r, {c.import.file})
            => Claimed(r) /\ (Backed(c) => Backed(r))
<1>1. NoExport.file = 0 /\ NoExport.stage = "none" /\ NoImport.file = 0
  BY DEF NoExport, NoImport
<1>2. "none" \notin DiagnosisStages /\ "none" # "project"
  BY DEF DiagnosisStages
<1>3. ASSUME NEW ids, Takes(c, r, ids)
      PROVE  FileIds(r) = FileIds(c) \ ids /\ r.files \subseteq c.files
             /\ \A f \in r.files : f.id \notin ids
  BY <1>3, Taken DEF Takes
<1>4. ASSUME View(r, NoExport, c.project, c.diagnosis, c.import, r.events),
             Takes(c, r, {c.export.file})
      PROVE  Claimed(r) /\ (c.export.stage # "project" /\ Backed(c) => Backed(r))
  <2>1. r.export = NoExport /\ r.project = c.project /\ r.diagnosis = c.diagnosis
        /\ r.import = c.import
    BY <1>4 DEF View
  <2>2. /\ FileIds(r) = FileIds(c) \ {c.export.file} /\ r.files \subseteq c.files
        /\ \A f \in r.files : f.id # c.export.file
    BY <1>3, <1>4
  <2>3. Claimed(r)
    BY <1>1, <1>2, <2>1, <2>2 DEF Claimed, InFolder, Owned
  <2>4. ASSUME c.export.stage # "project", Backed(c)
        PROVE  Backed(r)
    BY <1>1, <1>2, <2>1, <2>2, <2>4 DEF Backed, Owned, Own, Apart
  <2> QED
    BY <2>3, <2>4
<1>5. ASSUME View(r, c.export, c.project, c.diagnosis, NoImport, r.events),
             Takes(c, r, {c.import.file})
      PROVE  Claimed(r) /\ (Backed(c) => Backed(r))
  <2>1. r.export = c.export /\ r.project = c.project /\ r.diagnosis = c.diagnosis
        /\ r.import = NoImport
    BY <1>5 DEF View
  <2>2. /\ FileIds(r) = FileIds(c) \ {c.import.file} /\ r.files \subseteq c.files
        /\ \A f \in r.files : f.id # c.import.file
    BY <1>3, <1>5
  <2>3. Claimed(r)
    BY <1>1, <2>1, <2>2 DEF Claimed, InFolder, Owned
  <2>4. ASSUME Backed(c)
        PROVE  Backed(r)
    BY <1>1, <2>1, <2>2, <2>4 DEF Backed, Owned, Own, Apart
  <2> QED
    BY <2>3, <2>4
<1> QED
  BY <1>4, <1>5

\* The end of a job gives up what the job had.
LEMMA EndTidy ==
  ASSUME NEW c, Shape(c), Claimed(c)
  PROVE  /\ Claimed(FinishCache(c))
         /\ c.export.stage # "project" /\ Backed(c) => Backed(FinishCache(c))
         /\ Claimed(FinishProject(c, FALSE))
         /\ c.project.file \notin FileIds(c) => Claimed(FinishProject(c, TRUE))
         /\ Apart(c) /\ Owned(c) \ {c.project.file} \subseteq FileIds(c) =>
              Backed(FinishProject(c, FALSE)) /\ Backed(FinishProject(c, TRUE))
         /\ Claimed(FinishDiagnosis(c, FALSE)) /\ Claimed(FinishDiagnosis(c, TRUE))
         /\ c.export.stage # "project" /\ Backed(c) =>
              Backed(FinishDiagnosis(c, FALSE)) /\ Backed(FinishDiagnosis(c, TRUE))
<1>1. NoExport.file = 0 /\ NoExport.stage = "none" /\ NoImport.file = 0 /\ NoProject.file = 0
      /\ NoDiagnosis.folder = 0 /\ NoDiagnosis.parts = {}
  BY DEF NoExport, NoImport, NoProject, NoDiagnosis
<1>2. "none" \notin DiagnosisStages /\ "none" # "project"
  BY DEF DiagnosisStages
<1>3. ASSUME NEW r, NEW ids, Takes(c, r, ids)
      PROVE  FileIds(r) = FileIds(c) \ ids /\ r.files \subseteq c.files
             /\ \A f \in r.files : f.id \notin ids
  BY <1>3, Taken DEF Takes
<1>4. InFolder(c) /\ FileIds(c) \subseteq Owned(c)
  BY DEF Claimed
<1>5. FALSE \in BOOLEAN /\ TRUE \in BOOLEAN
  OBVIOUS
<1>6. \A success \in BOOLEAN :
        /\ View(FinishCache(c), NoExport, c.project, c.diagnosis, c.import, c.events)
        /\ View(FinishProject(c, success), NoExport, NoProject, c.diagnosis,
                IF success THEN c.import ELSE NoImport, Append(c.events, "project"))
        /\ View(FinishDiagnosis(c, success), NoExport, c.project, NoDiagnosis,
                IF success THEN c.import ELSE NoImport, Append(c.events, "diagnosis"))
  BY Endings
<1>7. /\ Claimed(FinishCache(c))
      /\ c.export.stage # "project" /\ Backed(c) => Backed(FinishCache(c))
  <2> DEFINE r == FinishCache(c)
  <2>1. View(r, NoExport, c.project, c.diagnosis, c.import, c.events)
    BY <1>5, <1>6
  <2>2. View(r, NoExport, c.project, c.diagnosis, c.import, r.events)
    BY <2>1 DEF View
  <2>3. Takes(c, r, {c.export.file})
    BY TakesFiles
  <2> HIDE DEF r
  <2>4. Claimed(r) /\ (c.export.stage # "project" /\ Backed(c) => Backed(r))
    BY <2>2, <2>3, GivenUp
  <2> QED
    BY <2>4 DEF r
<1>8. /\ Claimed(FinishProject(c, FALSE))
      /\ Apart(c) /\ Owned(c) \ {c.project.file} \subseteq FileIds(c) =>
           Backed(FinishProject(c, FALSE))
  <2> DEFINE r == FinishProject(c, FALSE)
  <2>1. View(r, NoExport, NoProject, c.diagnosis, IF FALSE THEN c.import ELSE NoImport,
             Append(c.events, "project"))
    BY <1>5, <1>6
  <2>2. Takes(c, r, {c.export.file, c.project.file, c.import.file})
    BY <1>4, EndTakes
  <2> HIDE DEF r
  <2>3. r.export = NoExport /\ r.project = NoProject /\ r.diagnosis = c.diagnosis
        /\ r.import = NoImport
    BY <2>1 DEF View
  <2>4. /\ FileIds(r) = FileIds(c) \ {c.export.file, c.project.file, c.import.file}
        /\ r.files \subseteq c.files
        /\ \A f \in r.files : f.id \notin {c.export.file, c.project.file, c.import.file}
    BY <1>3, <2>2
  <2>5. Claimed(r)
    BY <1>1, <1>2, <1>4, <2>3, <2>4 DEF Claimed, InFolder, Owned
  <2>6. ASSUME Apart(c), Owned(c) \ {c.project.file} \subseteq FileIds(c)
        PROVE  Backed(r)
    BY <1>1, <1>2, <2>3, <2>4, <2>6 DEF Backed, Owned, Own, Apart
  <2> QED
    BY <2>5, <2>6 DEF r
<1>9. /\ c.project.file \notin FileIds(c) => Claimed(FinishProject(c, TRUE))
      /\ Apart(c) /\ Owned(c) \ {c.project.file} \subseteq FileIds(c) =>
           Backed(FinishProject(c, TRUE))
  <2> DEFINE r == FinishProject(c, TRUE)
  <2>1. View(r, NoExport, NoProject, c.diagnosis, IF TRUE THEN c.import ELSE NoImport,
             Append(c.events, "project"))
    BY <1>5, <1>6
  <2>2. Takes(c, r, {c.export.file})
    BY <1>4, EndTakes
  <2> HIDE DEF r
  <2>3. r.export = NoExport /\ r.project = NoProject /\ r.diagnosis = c.diagnosis
        /\ r.import = c.import
    BY <2>1 DEF View
  <2>4. /\ FileIds(r) = FileIds(c) \ {c.export.file} /\ r.files \subseteq c.files
        /\ \A f \in r.files : f.id # c.export.file
    BY <1>3, <2>2
  <2>5. ASSUME c.project.file \notin FileIds(c)
        PROVE  Claimed(r)
    BY <1>1, <1>2, <1>4, <2>3, <2>4, <2>5 DEF Claimed, InFolder, Owned
  <2>6. ASSUME Apart(c), Owned(c) \ {c.project.file} \subseteq FileIds(c)
        PROVE  Backed(r)
    BY <1>1, <1>2, <2>3, <2>4, <2>6 DEF Backed, Owned, Own, Apart
  <2> QED
    BY <2>5, <2>6 DEF r
<1>10. /\ Claimed(FinishDiagnosis(c, FALSE))
       /\ c.export.stage # "project" /\ Backed(c) => Backed(FinishDiagnosis(c, FALSE))
  <2> DEFINE r == FinishDiagnosis(c, FALSE)
             ids == {c.export.file, c.import.file, c.diagnosis.folder} \cup c.diagnosis.parts
  <2>1. View(r, NoExport, c.project, NoDiagnosis, IF FALSE THEN c.import ELSE NoImport,
             Append(c.events, "diagnosis"))
    BY <1>5, <1>6
  <2>2. Takes(c, r, ids)
    BY <1>4, EndTakes
  <2> HIDE DEF r
  <2>3. r.export = NoExport /\ r.project = c.project /\ r.diagnosis = NoDiagnosis
        /\ r.import = NoImport
    BY <2>1 DEF View
  <2>4. /\ FileIds(r) = FileIds(c) \ ids /\ r.files \subseteq c.files
        /\ \A f \in r.files : f.id \notin ids
    BY <1>3, <2>2
  <2>5. Claimed(r)
    BY <1>1, <1>2, <1>4, <2>3, <2>4 DEF Claimed, InFolder, Owned
  <2>6. ASSUME c.export.stage # "project", Backed(c)
        PROVE  Backed(r)
    BY <1>1, <1>2, <2>3, <2>4, <2>6 DEF Backed, Owned, Own, Apart
  <2> QED
    BY <2>5, <2>6 DEF r
<1>11. /\ Claimed(FinishDiagnosis(c, TRUE))
       /\ c.export.stage # "project" /\ Backed(c) => Backed(FinishDiagnosis(c, TRUE))
  <2> DEFINE r == FinishDiagnosis(c, TRUE)
             ids == {c.export.file, c.diagnosis.folder} \cup c.diagnosis.parts
  <2>1. View(r, NoExport, c.project, NoDiagnosis, IF TRUE THEN c.import ELSE NoImport,
             Append(c.events, "diagnosis"))
    BY <1>5, <1>6
  <2>2. Takes(c, r, ids)
    BY <1>4, EndTakes
  <2> HIDE DEF r
  <2>3. r.export = NoExport /\ r.project = c.project /\ r.diagnosis = NoDiagnosis
        /\ r.import = c.import
    BY <2>1 DEF View
  <2>4. /\ FileIds(r) = FileIds(c) \ ids /\ r.files \subseteq c.files
        /\ \A f \in r.files : f.id \notin ids
    BY <1>3, <2>2
  <2>5. Claimed(r)
    BY <1>1, <1>2, <1>4, <2>3, <2>4 DEF Claimed, InFolder, Owned
  <2>6. ASSUME c.export.stage # "project", Backed(c)
        PROVE  Backed(r)
    BY <1>1, <1>2, <2>3, <2>4, <2>6 DEF Backed, Owned, Own, Apart
  <2> QED
    BY <2>5, <2>6 DEF r
<1> QED
  BY <1>7, <1>8, <1>9, <1>10, <1>11

\* Nothing is left of what a game that is replaced had.
LEMMA RetiredTidy ==
  ASSUME NEW c, Shape(c), Claimed(c)
  PROVE  Cleanup(RetiredFiles(c)).files = {}
<1> DEFINE v == DropExport(c)
           w == ClearImport(v)
           u == Remove(w, {c.project.file})
           r == Cleanup(u)
<1>1. RetiredFiles(c) = u
  BY DEF RetiredFiles
<1>2. View(v, NoExport, c.project, c.diagnosis, c.import, c.events)
  BY GivingUp
<1>3. Takes(c, v, {c.export.file}) /\ Shape(v) /\ v.import = c.import /\ v.diagnosis = c.diagnosis
  BY <1>2, TakesFiles DEF View
<1> HIDE DEF v
<1>4. View(w, v.export, v.project, v.diagnosis, NoImport, v.events)
  BY <1>3, GivingUp
<1>5. Takes(v, w, {c.import.file}) /\ Shape(w) /\ w.diagnosis = c.diagnosis
  BY <1>3, <1>4, TakesFiles DEF View
<1> HIDE DEF w
<1>6. View(u, w.export, w.project, w.diagnosis, w.import, w.events)
  BY <1>5, Files
<1>7. Takes(w, u, {c.project.file}) /\ Shape(u) /\ u.diagnosis = c.diagnosis
  BY <1>5, <1>6, TakesFiles DEF View
<1> HIDE DEF u
<1>8. Takes(c, u, ({c.export.file} \cup {c.import.file}) \cup {c.project.file})
  <2>1. Takes(c, w, {c.export.file} \cup {c.import.file})
    BY <1>3, <1>5, TakenTwice
  <2> QED
    BY <1>7, <2>1, TakenTwice
<1>9. \A f \in u.files : f.folder # 0 => f.id \in u.diagnosis.parts
  BY <1>7, <1>8 DEF Claimed, InFolder, Takes
<1>10. Takes(u, r, {c.diagnosis.folder} \cup c.diagnosis.parts)
  BY <1>7, <1>9, CleanedUp
<1> HIDE DEF r
<1>11. \A f \in r.files : f \in c.files /\ f.id \notin Owned(c)
  BY <1>8, <1>10 DEF Takes, Owned
<1>12. r.files = {}
  BY <1>11 DEF Claimed, FileIds
<1> QED
  BY <1>1, <1>12 DEF r

\* A client that has nothing is tidy.
LEMMA EmptyTidy ==
  ASSUME NEW r, r.files = {}, r.export = NoExport, r.project = NoProject,
         r.diagnosis = NoDiagnosis, r.import = NoImport
  PROVE  Tidy(r)
<1>1. NoExport.file = 0 /\ NoExport.stage = "none" /\ NoImport.file = 0 /\ NoProject.file = 0
      /\ NoDiagnosis.folder = 0 /\ NoDiagnosis.parts = {}
  BY DEF NoExport, NoImport, NoProject, NoDiagnosis
<1>2. "none" \notin DiagnosisStages /\ "none" # "project"
  BY DEF DiagnosisStages
<1> QED
  BY <1>1, <1>2 DEF Tidy, Claimed, Backed, FileIds, Owned, Own, Apart, InFolder

\* The game is left or restarted.
LEMMA LeftTidy ==
  ASSUME NEW c, Shape(c), Claimed(c), NEW r \in {Transition(c), ResetSession(c)}
  PROVE  Tidy(r)
<1>1. View(r, NoExport, NoProject, NoDiagnosis, NoImport, r.events)
  BY Left
<1>2. CASE r = ResetSession(c)
  <2>1. Cleanup(RetiredFiles(c)).files = {}
    BY RetiredTidy
  <2>2. r.files = {}
    BY <1>2, <2>1 DEF ResetSession, NewClient
  <2> QED
    BY <1>1, <2>2, EmptyTidy DEF View
<1>3. CASE r = Transition(c)
  <2> DEFINE w == Tell(c, "transition", "none", 0)
             z == Cleanup(RetiredFiles(w))
             y == IF w.export.stage = "cache" THEN Reschedule(z) ELSE z
             u == [y EXCEPT !.project = NoProject, !.cache.prepared = FALSE,
                            !.events = @ \o EndedBy(w)]
  <2>1. View(w, c.export, c.project, c.diagnosis, c.import, c.events) /\ w.files = c.files
    BY Words, Untouched
  <2>2. Shape(w) /\ Claimed(w)
    <3> HIDE DEF w
    <3> QED
      BY <2>1, SameTidy DEF View
  <2>3. r = Emit(u, "reset")
    BY <1>3 DEF Transition, Retire
  <2> HIDE DEF w
  <2>4. z.files = {}
    BY <2>2, RetiredTidy
  <2>5. Shape(z)
    <3> DEFINE d == DropExport(w)
               i == ClearImport(d)
               p == Remove(i, {w.project.file})
    <3>1. Shape(d)
      BY <2>2, GivingUp DEF View
    <3> HIDE DEF d
    <3>2. Shape(i)
      BY <3>1, GivingUp DEF View
    <3> HIDE DEF i
    <3>3. Shape(p)
      BY <3>2, Files DEF View
    <3> HIDE DEF p
    <3>4. Shape(Cleanup(p))
      BY <3>3, GivingUp DEF View
    <3> QED
      BY <3>4 DEF p, i, d, RetiredFiles
  <2> HIDE DEF z
  <2>6. y.files = {} /\ DOMAIN y = DOMAIN NewClient
    BY <2>4, <2>5, Untouched, Aside DEF View, Shape
  <2> HIDE DEF y
  <2>7. u.files = {} /\ DOMAIN u = DOMAIN NewClient
    BY <2>6 DEF NewClient
  <2> HIDE DEF u
  <2>8. r.files = {}
    BY <2>3, <2>7 DEF Emit, NewClient
  <2> QED
    BY <1>1, <2>8, EmptyTidy DEF View
<1> QED
  BY <1>2, <1>3

\* Nothing is left when the worker ends, whatever it was about.
LEMMA WoundUp ==
  ASSUME NEW c, Shape(c), Claimed(c)
  PROVE  Tidy(WindUp(c)) /\ DOMAIN WindUp(c) = DOMAIN NewClient
<1> DEFINE p == IF c.project = NoProject THEN c ELSE FinishProject(c, FALSE)
           x == IF p.export.stage = "cache" THEN FinishCache(p) ELSE p
           d == IF x.diagnosis = NoDiagnosis THEN x ELSE FinishDiagnosis(x, FALSE)
           i == ClearImport(d)
           w == DropExport(i)
           z == Cleanup(w)
<1>1. FALSE \in BOOLEAN
  OBVIOUS
<1>2. Shape(p) /\ Claimed(p) /\ p.project = NoProject
  <2>1. \A success \in BOOLEAN :
          View(FinishProject(c, success), NoExport, NoProject, c.diagnosis,
               IF success THEN c.import ELSE NoImport, Append(c.events, "project"))
    BY Endings
  <2>2. Shape(FinishProject(c, FALSE)) /\ FinishProject(c, FALSE).project = NoProject
    BY <1>1, <2>1 DEF View
  <2>3. Claimed(FinishProject(c, FALSE))
    BY EndTidy
  <2> QED
    BY <2>2, <2>3
<1> HIDE DEF p
<1>3. Shape(x) /\ Claimed(x) /\ x.project = NoProject
  <2>1. \A success \in BOOLEAN :
          View(FinishCache(p), NoExport, p.project, p.diagnosis, p.import, p.events)
    BY <1>2, Endings
  <2>2. Shape(FinishCache(p)) /\ FinishCache(p).project = NoProject
    BY <1>1, <1>2, <2>1 DEF View
  <2>3. Claimed(FinishCache(p))
    BY <1>2, EndTidy
  <2> QED
    BY <1>2, <2>2, <2>3
<1> HIDE DEF x
<1>4. Shape(d) /\ Claimed(d) /\ d.project = NoProject
  <2>1. \A success \in BOOLEAN :
          View(FinishDiagnosis(x, success), NoExport, x.project, NoDiagnosis,
               IF success THEN x.import ELSE NoImport, Append(x.events, "diagnosis"))
    BY <1>3, Endings
  <2>2. Shape(FinishDiagnosis(x, FALSE)) /\ FinishDiagnosis(x, FALSE).project = NoProject
    BY <1>1, <1>3, <2>1 DEF View
  <2>3. Claimed(FinishDiagnosis(x, FALSE))
    BY <1>3, EndTidy
  <2> QED
    BY <1>3, <2>2, <2>3
<1> HIDE DEF d
<1>5. View(i, d.export, d.project, d.diagnosis, NoImport, i.events) /\ Claimed(i)
  <2>1. View(i, d.export, d.project, d.diagnosis, NoImport, i.events)
    BY <1>4, GivingUp DEF View
  <2>2. Takes(d, i, {d.import.file})
    BY <1>4, TakesFiles
  <2> HIDE DEF i
  <2> QED
    BY <1>4, <2>1, <2>2, GivenUp
<1>6. Shape(i) /\ i.project = NoProject /\ i.import = NoImport
  BY <1>4, <1>5 DEF View
<1> HIDE DEF i
<1>7. View(w, NoExport, i.project, i.diagnosis, i.import, w.events) /\ Claimed(w)
  <2>1. View(w, NoExport, i.project, i.diagnosis, i.import, w.events)
    BY <1>6, GivingUp DEF View
  <2>2. Takes(i, w, {i.export.file})
    BY <1>6, TakesFiles
  <2> HIDE DEF w
  <2> QED
    BY <1>5, <2>1, <2>2, GivenUp
<1>8. /\ Shape(w) /\ w.export = NoExport /\ w.project = NoProject /\ w.import = NoImport
  BY <1>6, <1>7 DEF View
<1> HIDE DEF w
<1>9. NoExport.file = 0 /\ NoExport.stage = "none" /\ NoImport.file = 0 /\ NoProject.file = 0
  BY DEF NoExport, NoImport, NoProject
<1>10. "none" \notin DiagnosisStages
  BY DEF DiagnosisStages
<1>11. \A f \in w.files : f.folder # 0 => f.id \in w.diagnosis.parts
  BY <1>7, <1>8, <1>9, <1>10 DEF Claimed, InFolder
<1>12. View(z, w.export, w.project, NoDiagnosis, w.import, w.events)
  BY <1>8, GivingUp
<1>13. Takes(w, z, {w.diagnosis.folder} \cup w.diagnosis.parts)
  BY <1>8, <1>11, CleanedUp
<1> HIDE DEF z
<1>14. z.files = {}
  <2>1. FileIds(w) \subseteq {w.diagnosis.folder} \cup w.diagnosis.parts
    BY <1>7, <1>8, <1>9 DEF Claimed, Owned
  <2> QED
    BY <1>13, <2>1 DEF FileIds, Takes
<1> DEFINE r == [z EXCEPT !.events = Append(@, "stopped"), !.project = NoProject,
                          !.cache = NoCache, !.sent = <<>>, !.polled = <<>>]
<1>15. WindUp(c) = r
  BY DEF WindUp, z, w, i, d, x, p
<1>16. /\ r.files = {} /\ r.export = NoExport /\ r.project = NoProject /\ r.import = NoImport
       /\ r.diagnosis = NoDiagnosis /\ DOMAIN r = DOMAIN NewClient
  BY <1>8, <1>12, <1>14 DEF View, Shape, NewClient
<1> HIDE DEF r
<1>17. Tidy(r)
  BY <1>16, EmptyTidy
<1> QED
  BY <1>15, <1>16, <1>17

\* A new file has a number no other file has.
LEMMA OwnFile ==
  ASSUME NEW c, Shape(c)
  PROVE  /\ NewFile(c) \in Nat \ {0} /\ NewFile(c) \notin FileIds(c)
         /\ \A folder : Create(c, folder).files =
                          c.files \cup {[id |-> NewFile(c), folder |-> folder]}
<1> DEFINE ids == {f.id : f \in c.files}
           number == [f \in c.files |-> f.id]
<1>1. number \in Surjection(c.files, ids)
  BY DEF Surjection
<1>2. IsFiniteSet(ids)
  <2> HIDE DEF ids, number
  <2> QED
    BY <1>1, FS_Surjection DEF Shape
<1>3. NewFile(c) \in Nat \ {0} /\ NewFile(c) \notin FileIds(c)
  BY <1>2, FreshNumber DEF NewFile, FileIds
<1>4. \A folder : Create(c, folder).files =
                    c.files \cup {[id |-> NewFile(c), folder |-> folder]}
  BY DEF Create, Shape, NewClient
<1> QED
  BY <1>3, <1>4

\* An export has a file of its own, that of a part in the folder of the diagnosis.
LEMMA RequestTidy ==
  ASSUME NEW c, Shape(c), Tidy(c), c.export = NoExport, NEW stage \in Stages \ {"project"},
         NEW folder, folder # 0 => folder = c.diagnosis.folder /\ stage \in DiagnosisStages
  PROVE  Tidy(Request(c, stage, folder))
<1> DEFINE n == NewFile(c)
           made == Create(c, folder)
           export == [NoExport EXCEPT !.stage = stage, !.file = n]
           w == [made EXCEPT !.export = export]
           r == Request(c, stage, folder)
<1>1. View(made, c.export, c.project, c.diagnosis, c.import, c.events)
  BY Files
<1>2. /\ n # 0 /\ n \notin FileIds(c)
      /\ made.files = c.files \cup {[id |-> n, folder |-> folder]}
  BY OwnFile
<1>3. export.stage = stage /\ export.file = n /\ DOMAIN export = DOMAIN NoExport
  BY DEF NoExport
<1> HIDE DEF n, made, export
<1>4. /\ Shape(w) /\ w.files = made.files /\ w.export = export /\ w.project = c.project
      /\ w.diagnosis = c.diagnosis /\ w.import = c.import
  BY <1>1, <1>3 DEF View, Shape, NewClient
<1>5. r = Ask(w)
  BY DEF Request, n, made, export
<1> HIDE DEF w
<1>6. /\ View(Ask(w), Ask(w).export, w.project, w.diagnosis, w.import, w.events)
      /\ Ask(w).files = w.files
  BY <1>4, Requests, Untouched
<1>7. Ask(w).export.file = w.export.file /\ Ask(w).export.stage = w.export.stage
  BY <1>4 DEF Ask, Shape, NewClient, NoExport
<1>8. FileIds(w) = FileIds(c) \cup {n}
  <2> DEFINE f == [id |-> n, folder |-> folder]
  <2>1. f.id = n /\ w.files = c.files \cup {f}
    BY <1>2, <1>4
  <2> HIDE DEF f
  <2> QED
    BY <2>1 DEF FileIds
<1>9. NoExport.file = 0 /\ NoExport.stage = "none"
  BY DEF NoExport
<1>10. "none" \notin DiagnosisStages /\ "none" # "project" /\ stage # "project"
  BY DEF DiagnosisStages
<1>11. Claimed(w)
  <2>1. FileIds(w) \subseteq Owned(w)
    BY <1>2, <1>3, <1>4, <1>8, <1>9 DEF Tidy, Claimed, Owned
  <2>2. InFolder(w)
    BY <1>2, <1>3, <1>4, <1>9, <1>10 DEF Tidy, Claimed, InFolder
  <2> QED
    BY <2>1, <2>2 DEF Claimed
<1>12. Backed(w)
  <2>1. Owned(w) \subseteq FileIds(w)
    BY <1>2, <1>3, <1>4, <1>8, <1>9 DEF Tidy, Backed, Owned
  <2>2. Owned(c) \subseteq FileIds(c) /\ Apart(c)
    BY DEF Tidy, Backed
  <2>3. n \notin Owned(c)
    BY <1>2, <2>2
  <2>4. Apart(w)
    BY <1>2, <1>3, <1>4, <1>9, <1>10, <2>2, <2>3 DEF Apart, Own, Owned
  <2> QED
    BY <2>1, <2>4 DEF Backed
<1>13. Tidy(Ask(w))
  <2> DEFINE v == Ask(w)
  <2>1. /\ v.files = w.files /\ v.project = w.project /\ v.diagnosis = w.diagnosis
        /\ v.import = w.import /\ v.export.file = w.export.file
        /\ v.export.stage = w.export.stage
    BY <1>6, <1>7 DEF View
  <2> HIDE DEF v
  <2>2. Claimed(v) /\ Backed(v)
    BY <1>11, <1>12, <2>1, SameTidy
  <2> QED
    BY <2>2 DEF Tidy, v
<1> QED
  BY <1>5, <1>13

\* The export of a project file has the file of the project.
LEMMA ProjectRequestTidy ==
  ASSUME NEW c, Shape(c), Tidy(c), c.export = NoExport
  PROVE  Tidy(RequestProject(c))
<1>1. CASE c.project = NoProject
  BY <1>1 DEF RequestProject
<1>2. CASE c.project # NoProject
  <2> DEFINE export == [NoExport EXCEPT !.stage = "project", !.file = c.project.file]
             w == [c EXCEPT !.export = export]
  <2>1. export.stage = "project" /\ export.file = c.project.file
        /\ DOMAIN export = DOMAIN NoExport
    BY DEF NoExport
  <2> HIDE DEF export
  <2>2. /\ Shape(w) /\ w.files = c.files /\ w.export = export /\ w.project = c.project
        /\ w.diagnosis = c.diagnosis /\ w.import = c.import
    BY <2>1 DEF Shape, NewClient, Stages
  <2>3. RequestProject(c) = Ask(w)
    BY <1>2 DEF RequestProject, export
  <2> HIDE DEF w
  <2>4. "cache" \in Stages
    BY DEF Stages
  <2>5. /\ View(Ask(w), Ask(w).export, w.project, w.diagnosis, w.import, w.events)
        /\ Ask(w).files = w.files
    BY <2>2, <2>4, Requests, Untouched
  <2>6. Ask(w).export.file = w.export.file /\ Ask(w).export.stage = w.export.stage
    BY <2>2 DEF Ask, Shape, NewClient, NoExport
  <2>7. NoExport.file = 0 /\ NoExport.stage = "none"
    BY DEF NoExport
  <2>8. "none" \notin DiagnosisStages /\ "project" \notin DiagnosisStages
    BY DEF DiagnosisStages
  <2>9. Claimed(w)
    BY <2>1, <2>2, <2>7, <2>8 DEF Tidy, Claimed, Owned, InFolder, FileIds
  <2>10. Backed(w)
    BY <2>1, <2>2, <2>7, <2>8 DEF Tidy, Backed, Owned, Own, Apart, FileIds
  <2> DEFINE v == Ask(w)
  <2>11. /\ v.files = w.files /\ v.project = w.project /\ v.diagnosis = w.diagnosis
         /\ v.import = w.import /\ v.export.file = w.export.file
         /\ v.export.stage = w.export.stage
    BY <2>5, <2>6 DEF View
  <2> HIDE DEF v
  <2>12. Claimed(v) /\ Backed(v)
    BY <2>9, <2>10, <2>11, SameTidy
  <2> QED
    BY <2>3, <2>12 DEF Tidy, v
<1> QED
  BY <1>1, <1>2

\* An import has a file of its own, unless it restores one of the user's.
LEMMA ImportTidy ==
  ASSUME NEW c, Shape(c), Tidy(c), NEW purpose \in Purposes
  PROVE  Tidy(BeginImport(c, purpose)) /\ Shape(BeginImport(c, purpose))
<1> DEFINE n == IF purpose = "restore" THEN 0 ELSE NewFile(c)
           staged == IF purpose = "restore" THEN c ELSE StageManifest(c)
           cleared == CancelImport(staged)
           id == NewMessage(cleared)
           import == [NoImport EXCEPT !.purpose = purpose, !.begin = id, !.file = n]
           r == BeginImport(c, purpose)
<1>1. View(staged, c.export, c.project, c.diagnosis, c.import, c.events)
  <2>1. View(Create(c, 0), c.export, c.project, c.diagnosis, c.import, c.events)
    BY Files
  <2> QED
    BY <2>1 DEF StageManifest, View
<1>2. n \notin FileIds(c) /\ (n # 0 \/ purpose = "restore")
  BY OwnFile DEF Tidy, Claimed, Owned
<1>3. /\ FileIds(staged) \ {0} = (FileIds(c) \cup {n}) \ {0}
      /\ \A f \in staged.files : f \in c.files \/ f.folder = 0
  <2> DEFINE f == [id |-> NewFile(c), folder |-> 0]
  <2>1. f.id = NewFile(c) /\ f.folder = 0 /\ Create(c, 0).files = c.files \cup {f}
    BY OwnFile
  <2> HIDE DEF f
  <2> QED
    BY <2>1 DEF FileIds, StageManifest
<1> HIDE DEF n, staged
<1>4. View(cleared, c.export, c.project, c.diagnosis, NoImport, c.events)
  <2>1. Shape(staged)
    BY <1>1 DEF View
  <2>2. View(cleared, staged.export, staged.project, staged.diagnosis, NoImport, staged.events)
    BY <2>1, GivingUp
  <2> HIDE DEF cleared
  <2> QED
    BY <1>1, <2>2 DEF View
<1>5. Takes(staged, cleared, {c.import.file})
  <2>1. Shape(staged) /\ staged.import = c.import
    BY <1>1 DEF View
  <2> QED
    BY <2>1, TakesFiles
<1>6. r = [cleared EXCEPT !.import = import,
                          !.sent = Append(@, Message("begin", id, "none", 0))]
  BY DEF BeginImport, n, staged
<1> HIDE DEF cleared, id
<1>7. import.file = n /\ import.purpose = purpose /\ DOMAIN import = DOMAIN NoImport
  BY DEF NoImport
<1> HIDE DEF import, r
<1>8. /\ Shape(r) /\ r.files = cleared.files /\ r.export = c.export /\ r.project = c.project
      /\ r.diagnosis = c.diagnosis /\ r.import = import
  BY <1>4, <1>6, <1>7 DEF View, Shape, NewClient
<1>9. /\ FileIds(r) = FileIds(staged) \ {c.import.file}
      /\ \A f \in r.files : f \in staged.files /\ f.id # c.import.file
  BY <1>5, <1>8 DEF Takes, FileIds
<1>10. FileIds(c) = Owned(c) /\ InFolder(c) /\ Apart(c) /\ 0 \notin FileIds(c)
  BY DEF Tidy, Claimed, Backed, Owned
<1>11. 0 \notin FileIds(staged)
  <2>1. CASE purpose = "restore"
    BY <1>10, <2>1 DEF staged
  <2>2. CASE purpose # "restore"
    <3> DEFINE f == [id |-> NewFile(c), folder |-> 0]
    <3>1. f.id = NewFile(c) /\ f.id # 0 /\ staged.files = c.files \cup {f}
      BY <2>2, OwnFile DEF staged, StageManifest
    <3> HIDE DEF f
    <3> QED
      BY <1>10, <3>1 DEF FileIds
  <2> QED
    BY <2>1, <2>2
<1>12. n # 0 => n \notin Owned(c)
  BY <1>2, <1>10
<1>13. FileIds(r) = Owned(r)
  BY <1>3, <1>7, <1>8, <1>9, <1>10, <1>11, <1>12 DEF Owned, Apart, Own
<1>14. InFolder(r)
  BY <1>3, <1>8, <1>9, <1>10 DEF InFolder
<1>15. Apart(r)
  BY <1>7, <1>8, <1>10, <1>12 DEF Apart, Own, Owned
<1>16. Tidy(r) /\ Shape(r)
  BY <1>8, <1>13, <1>14, <1>15 DEF Tidy, Claimed, Backed
<1> QED
  BY <1>16 DEF r

\* What an operation leaves: nothing that is nobody's, even when it raised an exception.
Accounted(r) == Shape(r) /\ Claimed(r) /\ (r.failed = TRUE \/ Backed(r))

\* A raised exception leaves the client as it is.
LEMMA RaiseAccounts ==
  ASSUME NEW c, Shape(c), Claimed(c)
  PROVE  Accounted(Raise(c))
<1> DEFINE r == Raise(c)
<1>1. /\ Shape(r) /\ r.failed = TRUE /\ r.files = c.files /\ r.project = c.project
      /\ r.export = c.export /\ r.import = c.import /\ r.diagnosis = c.diagnosis
  BY DEF Raise, Shape, NewClient
<1> HIDE DEF r
<1>2. Claimed(r)
  BY <1>1, SameTidy
<1>3. Accounted(r)
  BY <1>1, <1>2 DEF Accounted
<1> QED
  BY <1>3 DEF r

\* The parts of a diagnosis are exported into its folder.
LEMMA PartTidy ==
  ASSUME NEW c, Shape(c), Tidy(c), c.export = NoExport, NEW disk
  PROVE  /\ \A stage \in {"replay", "snapshot"} : Accounted(StartPart(c, stage, disk))
         /\ Accounted(RequestDiagnosisProject(c, disk))
         /\ Accounted(StartDiagnosisProject(c, disk))
<1>1. "diagnosis_project" \in Stages \ {"project"} /\ "diagnosis_project" \in DiagnosisStages
      /\ NoExport.stage = "none" /\ "none" # "project"
  BY DEF Stages, DiagnosisStages, NoExport
<1>2. ASSUME NEW w, Shape(w), Tidy(w), w.export = NoExport,
             NEW stage \in Stages \ {"project"}, stage \in DiagnosisStages
      PROVE  Accounted(Request(w, stage, w.diagnosis.folder))
  <2>1. Tidy(Request(w, stage, w.diagnosis.folder))
    BY <1>2, RequestTidy
  <2>2. Shape(Request(w, stage, w.diagnosis.folder))
    BY <1>2, Requests DEF View
  <2> QED
    BY <2>1, <2>2 DEF Accounted, Tidy
<1>3. ASSUME NEW stage
      PROVE  LET w == [c EXCEPT !.diagnosis.stage = stage]
             IN  /\ Shape(w) /\ Tidy(w) /\ w.export = NoExport /\ w.diagnosis.folder = c.diagnosis.folder
  <2> DEFINE w == [c EXCEPT !.diagnosis.stage = stage]
  <2>1. /\ Shape(w) /\ w.files = c.files /\ w.export = c.export /\ w.project = c.project
        /\ w.import = c.import /\ w.diagnosis.folder = c.diagnosis.folder
        /\ w.diagnosis.parts = c.diagnosis.parts
    BY DEF Shape, NewClient, NoDiagnosis
  <2> HIDE DEF w
  <2>2. Claimed(w) /\ Backed(w)
    BY <2>1, SameTidy DEF Tidy
  <2> QED
    BY <2>1, <2>2 DEF Tidy, w
<1>4. ASSUME NEW stage \in {"replay", "snapshot"}
      PROVE  Accounted(StartPart(c, stage, disk))
  <2> DEFINE w == [c EXCEPT !.diagnosis.stage = stage]
  <2>1. Shape(w) /\ Tidy(w) /\ w.export = NoExport /\ w.diagnosis.folder = c.diagnosis.folder
    BY <1>3
  <2>2. StartPart(c, stage, disk) = IF disk = "open" THEN Raise(w)
                                    ELSE Request(w, Part(stage), w.diagnosis.folder)
    BY <2>1 DEF StartPart
  <2> HIDE DEF w
  <2>3. Part(stage) \in Stages \ {"project"} /\ Part(stage) \in DiagnosisStages
    BY DEF Part, Stages, DiagnosisStages
  <2>4. Accounted(Raise(w))
    BY <2>1, RaiseAccounts DEF Tidy
  <2>5. Accounted(Request(w, Part(stage), w.diagnosis.folder))
    BY <1>2, <2>1, <2>3
  <2> QED
    BY <2>2, <2>4, <2>5
<1>5. ASSUME NEW w, Shape(w), Tidy(w), w.export = NoExport
      PROVE  Accounted(RequestDiagnosisProject(w, disk))
  <2>1. Accounted(w) /\ Accounted(Raise(w))
    BY <1>5, RaiseAccounts DEF Accounted, Tidy
  <2>2. Accounted(Request(w, "diagnosis_project", w.diagnosis.folder))
    BY <1>1, <1>2, <1>5
  <2> QED
    BY <2>1, <2>2 DEF RequestDiagnosisProject
<1>6. Accounted(StartDiagnosisProject(c, disk))
  <2> DEFINE w == [c EXCEPT !.diagnosis.stage = "project"]
  <2>1. Shape(w) /\ Tidy(w) /\ w.export = NoExport
    BY <1>3
  <2>2. StartDiagnosisProject(c, disk) =
          IF Packaged
          THEN IF disk = "open" THEN FinishDiagnosis(w, FALSE) ELSE RequestDiagnosisProject(w, disk)
          ELSE IF disk = "manifest" THEN FinishDiagnosis(w, FALSE) ELSE BeginImport(w, "diagnosis")
    BY DEF StartDiagnosisProject
  <2> HIDE DEF w
  <2>3. Accounted(RequestDiagnosisProject(w, disk))
    BY <1>5, <2>1
  <2>4. Accounted(FinishDiagnosis(w, FALSE))
    <3>1. \A success \in BOOLEAN : Shape(FinishDiagnosis(w, success))
      BY <2>1, Endings DEF View
    <3>2. FALSE \in BOOLEAN
      OBVIOUS
    <3>3. Shape(FinishDiagnosis(w, FALSE))
      BY <3>1, <3>2
    <3>4. Claimed(FinishDiagnosis(w, FALSE)) /\ Backed(FinishDiagnosis(w, FALSE))
      BY <1>1, <2>1, EndTidy DEF Tidy
    <3> QED
      BY <3>3, <3>4 DEF Accounted
  <2>5. Accounted(BeginImport(w, "diagnosis"))
    <3>1. "diagnosis" \in Purposes
      BY DEF Purposes
    <3> QED
      BY <2>1, <3>1, ImportTidy DEF Accounted, Tidy
  <2> QED
    BY <2>2, <2>3, <2>4, <2>5
<1> QED
  BY <1>4, <1>5, <1>6
-----------------------------------------------------------------------------
(* The files of the commands of the app *)

\* What ends a job accounts for its files.
LEMMA EndAccounts ==
  ASSUME NEW c, Shape(c), Claimed(c)
  PROVE  /\ c.export.stage # "project" /\ Backed(c) =>
              /\ Accounted(FinishCache(c)) /\ Accounted(DropExport(c))
              /\ Accounted(FinishDiagnosis(c, FALSE)) /\ Accounted(FinishDiagnosis(c, TRUE))
         /\ Apart(c) /\ Owned(c) \ {c.project.file} \subseteq FileIds(c) =>
              /\ Accounted(FinishProject(c, FALSE))
              /\ c.project.file \notin FileIds(c) => Accounted(FinishProject(c, TRUE))
<1>1. \A success \in BOOLEAN :
        /\ Shape(FinishCache(c)) /\ Shape(FinishProject(c, success))
        /\ Shape(FinishDiagnosis(c, success))
  BY Endings DEF View
<1>2. TRUE \in BOOLEAN /\ FALSE \in BOOLEAN
  OBVIOUS
<1>3. /\ Shape(FinishCache(c)) /\ Shape(FinishProject(c, FALSE)) /\ Shape(FinishProject(c, TRUE))
      /\ Shape(FinishDiagnosis(c, FALSE)) /\ Shape(FinishDiagnosis(c, TRUE))
  BY <1>1, <1>2
<1>4. c.export.stage # "project" /\ Backed(c) => Accounted(DropExport(c))
  <2> DEFINE r == DropExport(c)
  <2>1. View(r, NoExport, c.project, c.diagnosis, c.import, c.events) /\ Takes(c, r, {c.export.file})
    BY GivingUp, TakesFiles
  <2> HIDE DEF r
  <2>2. View(r, NoExport, c.project, c.diagnosis, c.import, r.events) /\ Shape(r)
    BY <2>1 DEF View
  <2>3. Claimed(r) /\ (c.export.stage # "project" /\ Backed(c) => Backed(r))
    BY <2>1, <2>2, GivenUp
  <2> QED
    BY <2>2, <2>3 DEF Accounted, r
<1> QED
  BY <1>3, <1>4, EndTidy DEF Accounted

\* A message and an event change no files.
LEMMA WordsTidy ==
  ASSUME NEW c, Shape(c)
  PROVE  /\ \A event \in Events : LET r == Emit(c, event)
                                  IN  /\ Shape(r) /\ r.export = c.export /\ r.project = c.project
                                      /\ r.import = c.import /\ r.diagnosis = c.diagnosis
                                      /\ r.files = c.files
                                      /\ (Claimed(r) <=> Claimed(c)) /\ (Backed(r) <=> Backed(c))
         /\ \A tag, kind, transfer :
              LET r == Tell(c, tag, kind, transfer)
              IN  /\ Shape(r) /\ r.export = c.export /\ r.project = c.project
                  /\ r.import = c.import /\ r.diagnosis = c.diagnosis /\ r.files = c.files
                  /\ (Claimed(r) <=> Claimed(c)) /\ (Backed(r) <=> Backed(c))
<1>1. ASSUME NEW r, View(r, c.export, c.project, c.diagnosis, c.import, r.events),
             r.files = c.files
      PROVE  /\ Shape(r) /\ r.export = c.export /\ r.project = c.project
             /\ r.import = c.import /\ r.diagnosis = c.diagnosis /\ r.files = c.files
             /\ (Claimed(r) <=> Claimed(c)) /\ (Backed(r) <=> Backed(c))
  <2>1. /\ Shape(r) /\ r.export = c.export /\ r.project = c.project
        /\ r.import = c.import /\ r.diagnosis = c.diagnosis /\ r.files = c.files
    BY <1>1 DEF View
  <2> QED
    BY <2>1, SameTidy
<1>2. ASSUME NEW event \in Events
      PROVE  LET r == Emit(c, event)
             IN  View(r, c.export, c.project, c.diagnosis, c.import, r.events) /\ r.files = c.files
  <2>1. View(Emit(c, event), c.export, c.project, c.diagnosis, c.import,
             Append(c.events, event))
    BY Words
  <2> QED
    BY <2>1, Untouched DEF View
<1>3. ASSUME NEW tag, NEW kind, NEW transfer
      PROVE  LET r == Tell(c, tag, kind, transfer)
             IN  View(r, c.export, c.project, c.diagnosis, c.import, r.events) /\ r.files = c.files
  <2>1. View(Tell(c, tag, kind, transfer), c.export, c.project, c.diagnosis, c.import, c.events)
    BY Words
  <2> QED
    BY <2>1, Untouched DEF View
<1> QED
  BY <1>1, <1>2, <1>3

\* A snapshot or a replay.
LEMMA ManualTidy ==
  ASSUME NEW c, Shape(c), Tidy(c), c.export.stage # "project", NEW stage \in Manual, NEW disk
  PROVE  Accounted(ManualExport(c, stage, disk))
<1>1. stage \in Stages \ {"project"} /\ stage \in Events
  BY DEF Manual, Stages, Events, UserJobs
<1> DEFINE w == DropExport(c)
<1>2. View(w, NoExport, c.project, c.diagnosis, c.import, c.events) /\ Takes(c, w, {c.export.file})
  BY GivingUp, TakesFiles
<1> HIDE DEF w
<1>3. View(w, NoExport, c.project, c.diagnosis, c.import, w.events) /\ Shape(w)
  BY <1>2 DEF View
<1>4. Claimed(w) /\ Backed(w)
  BY <1>2, <1>3, GivenUp DEF Tidy
<1>5. Accounted(Emit(w, stage))
  BY <1>1, <1>3, <1>4, WordsTidy DEF Accounted
<1>6. c.export = NoExport => Accounted(Request(c, stage, 0))
  BY <1>1, RequestTidy, Requests DEF Accounted, Tidy, View
<1> QED
  BY <1>5, <1>6 DEF ManualExport, w

\* A project file: it may overtake the cache.
LEMMA ProjectTidy ==
  ASSUME NEW c, Shape(c), Tidy(c), Free(c), NoneIsNone(c), NEW disk
  PROVE  Accounted(ExportProject(c, disk))
<1> DEFINE told == Tell(c, "cancel", "cache", 0)
           dropped == DropExport(told)
           late == [dropped EXCEPT !.cache.prepared = FALSE]
           ready == IF c.export.stage = "cache" \/ c.cache.prepared THEN Reschedule(late) ELSE c
           n == NewFile(ready)
           made == Create(ready, 0)
           project == [NoProject EXCEPT !.file = n]
           begun == [made EXCEPT !.project = project]
<1>1. /\ Shape(told) /\ told.export = c.export /\ told.project = c.project
      /\ told.import = c.import /\ told.diagnosis = c.diagnosis /\ Claimed(told) /\ Backed(told)
  BY WordsTidy DEF Tidy
<1> HIDE DEF told
<1>2. /\ Shape(dropped) /\ dropped.export = NoExport /\ dropped.project = c.project
      /\ dropped.import = c.import /\ dropped.diagnosis = c.diagnosis
      /\ Claimed(dropped) /\ Backed(dropped)
  <2>1. View(dropped, NoExport, told.project, told.diagnosis, told.import, told.events)
        /\ Takes(told, dropped, {told.export.file})
    BY <1>1, GivingUp, TakesFiles
  <2> HIDE DEF dropped
  <2>2. View(dropped, NoExport, told.project, told.diagnosis, told.import, dropped.events)
    BY <2>1 DEF View
  <2>3. told.export.stage # "project"
    BY <1>1 DEF Free
  <2>4. Claimed(dropped) /\ Backed(dropped)
    BY <1>1, <2>1, <2>2, <2>3, GivenUp
  <2> QED
    BY <1>1, <2>1, <2>4 DEF View
<1> HIDE DEF dropped
<1>3. /\ Shape(ready) /\ ready.export = NoExport /\ ready.project = NoProject
      /\ ready.import = NoImport /\ ready.diagnosis = NoDiagnosis /\ Tidy(ready)
  <2>1. CASE c.export.stage = "cache" \/ c.cache.prepared
    <3>1. /\ Shape(late) /\ late.export = NoExport /\ late.project = c.project
          /\ late.import = c.import /\ late.diagnosis = c.diagnosis /\ late.files = dropped.files
      BY <1>2 DEF Shape, NewClient, NoCache
    <3> HIDE DEF late
    <3>2. /\ View(ready, late.export, late.project, late.diagnosis, late.import, late.events)
          /\ ready.files = late.files
      BY <2>1, <3>1, Aside, Untouched
    <3> HIDE DEF ready
    <3>3. /\ Shape(ready) /\ ready.export = NoExport /\ ready.project = c.project
          /\ ready.import = c.import /\ ready.diagnosis = c.diagnosis
          /\ ready.files = dropped.files
      BY <3>1, <3>2 DEF View
    <3>4. Claimed(ready) /\ Backed(ready)
      BY <1>2, <3>3, SameTidy
    <3> QED
      BY <3>3, <3>4 DEF Free, Tidy
  <2>2. CASE ~(c.export.stage = "cache" \/ c.cache.prepared)
    BY <2>2 DEF Free, NoneIsNone
  <2> QED
    BY <2>1, <2>2
<1> HIDE DEF ready
<1>4. n # 0 /\ n \notin FileIds(ready) /\ made.files = ready.files \cup {[id |-> n, folder |-> 0]}
  BY <1>3, OwnFile
<1>5. View(made, ready.export, ready.project, ready.diagnosis, ready.import, ready.events)
  BY <1>3, Files
<1> HIDE DEF n, made
<1>6. project.file = n /\ DOMAIN project = DOMAIN NoProject
  BY DEF NoProject
<1> HIDE DEF project
<1>7. /\ Shape(begun) /\ begun.files = made.files /\ begun.export = NoExport
      /\ begun.project = project /\ begun.import = NoImport /\ begun.diagnosis = NoDiagnosis
  BY <1>3, <1>5, <1>6 DEF View, Shape, NewClient
<1> HIDE DEF begun
<1>8. NoExport.file = 0 /\ NoExport.stage = "none" /\ NoImport.file = 0 /\ NoProject.file = 0
      /\ NoDiagnosis.folder = 0 /\ NoDiagnosis.parts = {}
      /\ "none" \notin DiagnosisStages /\ "none" # "project"
  BY DEF NoExport, NoImport, NoProject, NoDiagnosis, DiagnosisStages
<1>9. ready.files = {}
  BY <1>3, <1>8, SMTT(40) DEF Tidy, Claimed, FileIds, Owned
<1>10. Tidy(begun)
  <2> DEFINE f == [id |-> n, folder |-> 0]
  <2>1. f.id = n /\ f.folder = 0 /\ begun.files = {f}
    BY <1>4, <1>7, <1>9
  <2> HIDE DEF f
  <2>2. FileIds(begun) = {n}
    BY <2>1 DEF FileIds
  <2>3. Claimed(begun)
    BY <1>4, <1>6, <1>7, <1>8, <2>1, <2>2 DEF Claimed, Owned, InFolder
  <2>4. Backed(begun)
    BY <1>4, <1>6, <1>7, <1>8, <2>1, <2>2 DEF Backed, Owned, Apart, Own
  <2> QED
    BY <2>3, <2>4 DEF Tidy
<1>11. Accounted(FinishProject(ready, FALSE))
  BY <1>3, EndAccounts DEF Tidy, Backed
<1>12. Accounted(FinishProject(FinishProject(begun, FALSE), FALSE))
  <2> DEFINE w == FinishProject(begun, FALSE)
  <2>1. \A success \in BOOLEAN : FinishProject(begun, success).export = NoExport
                                 /\ Shape(FinishProject(begun, success))
    BY <1>7, Endings DEF View
  <2>2. FALSE \in BOOLEAN
    OBVIOUS
  <2>3. Shape(w) /\ w.export = NoExport
    BY <2>1, <2>2
  <2>4. Claimed(w) /\ Backed(w)
    BY <1>7, <1>10, EndTidy DEF Tidy, Backed
  <2> HIDE DEF w
  <2>5. Accounted(FinishProject(w, FALSE))
    BY <2>3, <2>4, EndAccounts DEF Backed
  <2> QED
    BY <2>5 DEF w
<1>13. Accounted(RequestProject(begun))
  <2>1. Tidy(RequestProject(begun))
    BY <1>7, <1>10, ProjectRequestTidy
  <2>2. begun.project # NoProject
    BY <1>4, <1>6, <1>7, <1>8
  <2>3. Shape(RequestProject(begun))
    BY <1>7, <2>2, ProjectRequest DEF View
  <2> QED
    BY <2>1, <2>3 DEF Accounted, Tidy
<1>14. Accounted(BeginImport(begun, "project"))
  <2>1. "project" \in Purposes
    BY DEF Purposes
  <2> QED
    BY <1>7, <1>10, <2>1, ImportTidy DEF Accounted, Tidy
<1>15. ExportProject(c, disk) =
         CASE disk = "open" -> FinishProject(ready, FALSE)
           [] disk = "manifest" /\ ~Packaged -> FinishProject(FinishProject(begun, FALSE), FALSE)
           [] OTHER -> IF Packaged THEN RequestProject(begun) ELSE BeginImport(begun, "project")
  BY DEF ExportProject, begun, project, made, n, ready, late, dropped, told
<1> QED
  BY <1>11, <1>12, <1>13, <1>14, <1>15

\* A diagnosis has a folder of its own.
LEMMA DiagnosisTidy ==
  ASSUME NEW c, Shape(c), Tidy(c), c.diagnosis = NoDiagnosis, NEW disk, disk # "folder"
  PROVE  Accounted(ExportDiagnosis(c, disk))
<1> DEFINE n == NewFile(c)
           made == Create(c, 0)
           diagnosis == [NoDiagnosis EXCEPT !.stage = "export_wait", !.folder = n]
           begun == [made EXCEPT !.diagnosis = diagnosis]
<1>1. View(made, c.export, c.project, c.diagnosis, c.import, c.events)
  BY Files
<1>2. n # 0 /\ n \notin FileIds(c) /\ made.files = c.files \cup {[id |-> n, folder |-> 0]}
  BY OwnFile
<1>3. diagnosis.folder = n /\ diagnosis.parts = {} /\ DOMAIN diagnosis = DOMAIN NoDiagnosis
  BY DEF NoDiagnosis
<1>4. ExportDiagnosis(c, disk) =
        IF c.export # NoExport THEN begun
        ELSE IF disk = "open" THEN FinishDiagnosis(FinishDiagnosis(begun, FALSE), FALSE)
        ELSE StartPart(begun, "replay", disk)
  BY DEF ExportDiagnosis
<1> HIDE DEF n, made, diagnosis
<1>5. /\ Shape(begun) /\ begun.files = made.files /\ begun.export = c.export
      /\ begun.project = c.project /\ begun.import = c.import /\ begun.diagnosis = diagnosis
  BY <1>1, <1>3 DEF View, Shape, NewClient
<1> HIDE DEF begun
<1>6. NoDiagnosis.folder = 0 /\ NoDiagnosis.parts = {}
  BY DEF NoDiagnosis
<1>7. FileIds(c) = Owned(c) /\ InFolder(c) /\ Apart(c)
  BY DEF Tidy, Claimed, Backed
<1>8. Tidy(begun)
  <2> DEFINE f == [id |-> n, folder |-> 0]
  <2>1. f.id = n /\ f.folder = 0 /\ begun.files = c.files \cup {f}
    BY <1>2, <1>5
  <2> HIDE DEF f
  <2>2. FileIds(begun) = FileIds(c) \cup {n}
    BY <2>1 DEF FileIds
  <2>3. FileIds(begun) = Owned(begun)
    BY <1>2, <1>3, <1>5, <1>6, <1>7, <2>2 DEF Owned
  <2>4. InFolder(begun)
    BY <1>5, <1>6, <1>7, <2>1 DEF InFolder
  <2>5. Apart(begun)
    BY <1>2, <1>3, <1>5, <1>6, <1>7 DEF Apart, Own, Owned
  <2> QED
    BY <2>3, <2>4, <2>5 DEF Tidy, Claimed, Backed
<1>9. NoExport.stage = "none"
  BY DEF NoExport
<1>10. c.export = NoExport => Accounted(FinishDiagnosis(FinishDiagnosis(begun, FALSE), FALSE))
  <2>1. SUFFICES ASSUME c.export = NoExport
                 PROVE  Accounted(FinishDiagnosis(FinishDiagnosis(begun, FALSE), FALSE))
    OBVIOUS
  <2> DEFINE w == FinishDiagnosis(begun, FALSE)
  <2>2. \A success \in BOOLEAN : FinishDiagnosis(begun, success).export = NoExport
                                 /\ Shape(FinishDiagnosis(begun, success))
    BY <1>5, Endings DEF View
  <2>3. FALSE \in BOOLEAN
    OBVIOUS
  <2>4. Shape(w) /\ w.export.stage # "project"
    BY <1>9, <2>2, <2>3
  <2>5. Claimed(w) /\ Backed(w)
    BY <1>5, <1>8, <1>9, <2>1, EndTidy DEF Tidy
  <2> HIDE DEF w
  <2>6. Accounted(FinishDiagnosis(w, FALSE))
    BY <2>4, <2>5, EndAccounts
  <2> QED
    BY <2>6 DEF w
<1>11. c.export = NoExport => Accounted(StartPart(begun, "replay", disk))
  BY <1>5, <1>8, PartTidy
<1>12. Accounted(begun)
  BY <1>5, <1>8 DEF Accounted, Tidy
<1> QED
  BY <1>4, <1>10, <1>11, <1>12

\* The progress dialog of a project file is cancelled.
LEMMA CancelTidy ==
  ASSUME NEW c, Shape(c), Tidy(c)
  PROVE  Accounted(CancelProject(c))
<1> DEFINE w == Tell(c, "cancel", "project", 0)
<1>1. Shape(w) /\ Claimed(w) /\ Backed(w)
  BY WordsTidy DEF Tidy
<1>2. CancelProject(c) = IF c.export.stage # "project" /\ c.project = NoProject THEN c
                         ELSE FinishProject(w, FALSE)
  BY DEF CancelProject
<1> HIDE DEF w
<1>3. Accounted(FinishProject(w, FALSE))
  BY <1>1, EndAccounts DEF Backed
<1> QED
  BY <1>2, <1>3 DEF Accounted, Tidy

\* Every command of the app, given when it may be.
LEMMA ProcessTidy ==
  ASSUME NEW c, Coherent(c), Tidy(c), NEW command \in Commands, NEW disk, disk # "folder",
         command \in UserJobs \ {"diagnosis"} => Free(c),
         command = "diagnosis" => c.diagnosis = NoDiagnosis
  PROVE  Accounted(Process(c, command, disk))
<1>1. Shape(c) /\ NoneIsNone(c)
  BY DEF Coherent
<1>2. CASE command \in Manual
  <2>1. command \in UserJobs \ {"diagnosis"}
    BY <1>2 DEF Manual, UserJobs
  <2>2. c.export.stage # "project"
    BY <2>1 DEF Free
  <2>3. Accounted(ManualExport(c, command, disk))
    BY <1>1, <1>2, <2>2, ManualTidy
  <2>4. command \notin {"project", "cancel", "diagnosis", "restore", "title", "restart"}
    BY <1>2 DEF Manual
  <2> QED
    BY <1>2, <2>3, <2>4 DEF Process
<1>3. CASE command = "project"
  BY <1>1, <1>3, ProjectTidy DEF Process, Manual, UserJobs
<1>4. CASE command = "cancel"
  BY <1>1, <1>4, CancelTidy DEF Process, Manual
<1>5. CASE command = "diagnosis"
  BY <1>1, <1>5, DiagnosisTidy DEF Process, Manual
<1>6. CASE command = "restore"
  <2>1. Accounted(BeginImport(c, "restore"))
    BY <1>1, ImportTidy DEF Accounted, Tidy, Purposes
  <2> QED
    BY <1>6, <2>1 DEF Process, Manual
<1>7. CASE command \in {"title", "restart"}
  <2>1. \A r \in {Transition(c), ResetSession(c)} : Tidy(r) /\ Shape(r)
    BY <1>1, LeftTidy, Left DEF Tidy, View
  <2>2. Accounted(Transition(c)) /\ Accounted(ResetSession(c))
    BY <2>1 DEF Accounted, Tidy
  <2> QED
    BY <1>7, <2>2 DEF Process, Manual
<1> QED
  BY <1>2, <1>3, <1>4, <1>5, <1>6, <1>7 DEF Commands, UserJobs, Manual
-----------------------------------------------------------------------------
(* The files of the outputs of the runtime *)

\* An export that is dropped takes the file of a project with it.
LEMMA Dropped ==
  ASSUME NEW c, Shape(c), Tidy(c), NEW w, w = DropExport(c)
  PROVE  /\ Shape(w) /\ w.export = NoExport /\ w.project = c.project /\ w.import = c.import
         /\ w.diagnosis = c.diagnosis /\ w.events = c.events /\ Claimed(w)
         /\ c.export.stage # "project" => Backed(w)
         /\ Apart(w) /\ Owned(w) \ {w.project.file} \subseteq FileIds(w)
         /\ c.export.stage = "project" => w.project.file \notin FileIds(w)
<1>1. View(w, NoExport, c.project, c.diagnosis, c.import, c.events) /\ Takes(c, w, {c.export.file})
  BY GivingUp, TakesFiles
<1>2. View(w, NoExport, c.project, c.diagnosis, c.import, w.events)
  BY <1>1 DEF View
<1>3. /\ Shape(w) /\ w.export = NoExport /\ w.project = c.project /\ w.import = c.import
      /\ w.diagnosis = c.diagnosis /\ w.events = c.events
  BY <1>1 DEF View
<1>4. Claimed(w) /\ (c.export.stage # "project" => Backed(w))
  BY <1>1, <1>2, GivenUp DEF Tidy
<1>5. FileIds(w) = FileIds(c) \ {c.export.file}
  BY <1>1, Taken
<1>6. NoExport.file = 0 /\ NoExport.stage = "none"
      /\ "none" \notin DiagnosisStages /\ "none" # "project"
  BY DEF NoExport, DiagnosisStages
<1>7. Apart(c) /\ Owned(c) \subseteq FileIds(c)
  BY DEF Tidy, Backed
<1>8. Apart(w)
  BY <1>3, <1>6, <1>7 DEF Apart, Own
<1>9. Owned(w) \ {w.project.file} \subseteq FileIds(w)
  BY <1>3, <1>5, <1>6, <1>7 DEF Apart, Own, Owned
<1>10. c.export.stage = "project" => w.project.file \notin FileIds(w)
  BY <1>3, <1>5, <1>7 DEF Apart
<1> QED
  BY <1>3, <1>4, <1>8, <1>9, <1>10

\* An export that produced nothing ends.
LEMMA FailTidy ==
  ASSUME NEW c, Coherent(c), Tidy(c), c.export # NoExport
  PROVE  Accounted(Fail(c))
<1> DEFINE w == DropExport(c)
<1>1. Shape(c) /\ c.export.stage \in Stages
  BY DEF Coherent, Shape, NoneIsNone
<1>2. /\ Shape(w) /\ w.export = NoExport /\ Claimed(w)
      /\ c.export.stage # "project" => Backed(w)
      /\ Apart(w) /\ Owned(w) \ {w.project.file} \subseteq FileIds(w)
  BY <1>1, Dropped
<1>3. NoExport.stage # "project"
  BY DEF NoExport
<1> HIDE DEF w
<1>4. c.export.stage # "project" => Accounted(FinishCache(w)) /\ Accounted(FinishDiagnosis(w, FALSE))
  BY <1>2, <1>3, EndAccounts
<1>5. Accounted(FinishProject(w, FALSE))
  BY <1>2, EndAccounts
<1>6. c.export.stage \in Manual => Accounted(Emit(w, c.export.stage))
  <2>1. c.export.stage \in Manual => c.export.stage \in Events /\ c.export.stage # "project"
    BY DEF Manual, Events, UserJobs
  <2> QED
    BY <1>2, <2>1, WordsTidy DEF Accounted
<1>7. CASE c.export.stage = "cache"
  BY <1>4, <1>7 DEF Fail, w, Manual, DiagnosisStages
<1>8. CASE c.export.stage = "project"
  BY <1>5, <1>8 DEF Fail, w, Manual, DiagnosisStages
<1>9. CASE c.export.stage \in DiagnosisStages
  BY <1>4, <1>9 DEF Fail, w, Manual, DiagnosisStages
<1>10. CASE c.export.stage \in Manual
  BY <1>6, <1>10 DEF Fail, w, Manual, DiagnosisStages
<1> QED
  BY <1>1, <1>7, <1>8, <1>9, <1>10 DEF Stages

\* An export that is ready or ineligible.
LEMMA ReadyTidy ==
  ASSUME NEW c, Coherent(c), Tidy(c), NEW m
  PROVE  Accounted(HandleReady(c, m))
<1>1. Shape(c) /\ Accounted(c)
  BY DEF Coherent, Accounted, Tidy
<1>2. Accounted(Mismatch(c))
  <2>1. c.export.stage \in DiagnosisStages => Accounted(FinishDiagnosis(c, FALSE))
    BY <1>1, EndAccounts DEF Tidy, DiagnosisStages
  <2> DEFINE w == DropExport(c)
  <2>2. Shape(w) /\ Claimed(w)
    BY <1>1, Dropped
  <2> HIDE DEF w
  <2>3. Accounted(Raise(w))
    BY <2>2, RaiseAccounts
  <2> QED
    BY <2>1, <2>3 DEF Mismatch, w
<1>3. c.export # NoExport => Accounted(Fail(c))
  BY FailTidy
<1>4. Accounted(Tell([c EXCEPT !.export.message = 0, !.export.transfer = m.transfer],
                     "read", "none", m.transfer))
  <2> DEFINE w == [c EXCEPT !.export.message = 0, !.export.transfer = m.transfer]
  <2>1. /\ Shape(w) /\ w.files = c.files /\ w.project = c.project /\ w.import = c.import
        /\ w.diagnosis = c.diagnosis /\ w.export.file = c.export.file
        /\ w.export.stage = c.export.stage
    BY <1>1 DEF Shape, NewClient, NoExport
  <2> HIDE DEF w
  <2>2. Claimed(w) /\ Backed(w)
    BY <2>1, SameTidy DEF Tidy
  <2>3. Accounted(Tell(w, "read", "none", m.transfer))
    BY <2>1, <2>2, WordsTidy DEF Accounted
  <2> QED
    BY <2>3 DEF w
<1>5. CASE c.export = NoExport
  BY <1>1, <1>5 DEF HandleReady
<1>6. CASE c.export # NoExport /\ ~Expected(c, m)
  BY <1>2, <1>6 DEF HandleReady
<1>7. CASE c.export # NoExport /\ Expected(c, m)
  BY <1>3, <1>4, <1>7 DEF HandleReady
<1> QED
  BY <1>5, <1>6, <1>7

\* The file of a part stays in the folder of the diagnosis.
LEMMA PartKept ==
  ASSUME NEW c, Shape(c), Tidy(c), c.export.stage \in DiagnosisStages, NEW w,
         w = [c EXCEPT !.export = NoExport, !.diagnosis.parts = @ \cup {c.export.file}]
  PROVE  Shape(w) /\ Tidy(w) /\ w.export = NoExport
<1>1. /\ Shape(w) /\ w.export = NoExport /\ w.files = c.files /\ w.project = c.project
      /\ w.import = c.import /\ w.diagnosis.folder = c.diagnosis.folder
      /\ w.diagnosis.parts = c.diagnosis.parts \cup {c.export.file}
  BY DEF Shape, NewClient, NoExport, NoDiagnosis
<1>2. NoExport.file = 0 /\ NoExport.stage = "none"
      /\ "none" \notin DiagnosisStages /\ "none" # "project" /\ "project" \notin DiagnosisStages
  BY DEF NoExport, DiagnosisStages
<1>3. Claimed(w)
  BY <1>1, <1>2 DEF Tidy, Claimed, Owned, FileIds, InFolder
<1>4. Owned(w) \subseteq FileIds(w)
  BY <1>1, <1>2 DEF Tidy, Backed, Owned, FileIds
<1>5. Apart(w)
  BY <1>1, <1>2 DEF Tidy, Backed, Apart, Own
<1> QED
  BY <1>1, <1>3, <1>4, <1>5 DEF Tidy, Backed

\* The last chunk of an export.
LEMMA CompleteTidy ==
  ASSUME NEW c, Coherent(c), Tidy(c), c.export # NoExport, NEW disk
  PROVE  Accounted(Complete(c, disk))
<1> DEFINE done == DropExport(c)
           part == [c EXCEPT !.export = NoExport, !.diagnosis.parts = @ \cup {c.export.file}]
<1>1. Shape(c) /\ c.export.stage \in Stages
  BY DEF Coherent, Shape, NoneIsNone
<1>2. /\ Shape(done) /\ done.export = NoExport /\ Claimed(done)
      /\ c.export.stage # "project" => Backed(done)
      /\ Apart(done) /\ Owned(done) \ {done.project.file} \subseteq FileIds(done)
      /\ c.export.stage = "project" => done.project.file \notin FileIds(done)
  BY <1>1, Dropped
<1>3. NoExport.stage # "project"
  BY DEF NoExport
<1>4. c.export.stage \in DiagnosisStages => Shape(part) /\ Tidy(part) /\ part.export = NoExport
  BY <1>1, PartKept
<1>5. Complete(c, disk) =
        CASE c.export.stage = "cache" -> FinishCache(done)
          [] c.export.stage = "project" ->
               IF c.project = NoProject THEN Raise(done) ELSE FinishProject(done, TRUE)
          [] c.export.stage \in Manual -> Emit(done, c.export.stage)
          [] c.export.stage = "diagnosis_replay" -> StartPart(part, "snapshot", disk)
          [] c.export.stage = "diagnosis_snapshot" -> StartDiagnosisProject(part, disk)
          [] c.export.stage = "diagnosis_project" -> FinishDiagnosis(part, Archived(disk))
  BY DEF Complete, DropExport
<1> HIDE DEF done, part
<1>6. CASE c.export.stage = "cache"
  <2>1. Accounted(FinishCache(done))
    BY <1>2, <1>3, <1>6, EndAccounts
  <2> QED
    BY <1>5, <1>6, <2>1 DEF Manual
<1>7. CASE c.export.stage = "project"
  <2>1. Accounted(Raise(done)) /\ Accounted(FinishProject(done, TRUE))
    BY <1>2, <1>7, EndAccounts, RaiseAccounts
  <2> QED
    BY <1>5, <1>7, <2>1 DEF Manual
<1>8. CASE c.export.stage \in Manual
  <2>1. c.export.stage \in Events /\ c.export.stage # "project"
    BY <1>8 DEF Manual, Events, UserJobs
  <2>2. Accounted(Emit(done, c.export.stage))
    BY <1>2, <2>1, WordsTidy DEF Accounted
  <2> QED
    BY <1>5, <1>8, <2>2 DEF Manual
<1>9. CASE c.export.stage \in DiagnosisStages
  <2>1. Accounted(StartPart(part, "snapshot", disk)) /\ Accounted(StartDiagnosisProject(part, disk))
    BY <1>4, <1>9, PartTidy
  <2>2. Accounted(FinishDiagnosis(part, FALSE)) /\ Accounted(FinishDiagnosis(part, TRUE))
    BY <1>3, <1>4, <1>9, EndAccounts DEF Tidy
  <2>3. CASE Archived(disk)
    <3>1. FinishDiagnosis(part, Archived(disk)) = FinishDiagnosis(part, TRUE)
      BY <2>3 DEF FinishDiagnosis
    <3> QED
      BY <1>5, <1>9, <2>1, <2>2, <3>1 DEF DiagnosisStages, Manual
  <2>4. CASE ~Archived(disk)
    <3>1. FinishDiagnosis(part, Archived(disk)) = FinishDiagnosis(part, FALSE)
      BY <2>4 DEF FinishDiagnosis
    <3> QED
      BY <1>5, <1>9, <2>1, <2>2, <3>1 DEF DiagnosisStages, Manual
  <2> QED
    BY <2>3, <2>4
<1> QED
  BY <1>1, <1>6, <1>7, <1>8, <1>9 DEF Stages

\* A chunk of an export.
LEMMA ChunkTidy ==
  ASSUME NEW c, Coherent(c), Tidy(c), NEW m, NEW disk
  PROVE  Accounted(HandleChunk(c, m, disk))
<1>1. Shape(c) /\ Accounted(c)
  BY DEF Coherent, Accounted, Tidy
<1>2. c.export.stage \in DiagnosisStages => Accounted(FinishDiagnosis(c, FALSE))
  BY <1>1, EndAccounts DEF Tidy, DiagnosisStages
<1>3. Accounted(Raise(c))
  BY <1>1, RaiseAccounts DEF Tidy
<1>4. Accounted(Raise(DropExport(c)))
  <2> DEFINE w == DropExport(c)
  <2>1. Shape(w) /\ Claimed(w)
    BY <1>1, Dropped
  <2> HIDE DEF w
  <2>2. Accounted(Raise(w))
    BY <2>1, RaiseAccounts
  <2> QED
    BY <2>2 DEF w
<1>5. Accounted(Tell(c, "read", "none", m.transfer))
  BY <1>1, WordsTidy DEF Accounted, Tidy
<1>6. c.export # NoExport => Accounted(Complete(c, disk))
  BY CompleteTidy
<1>7. CASE c.export = NoExport
  BY <1>1, <1>7 DEF HandleChunk
<1>8. CASE c.export # NoExport /\ (c.export.transfer = 0 \/ c.export.transfer # m.transfer)
  BY <1>2, <1>3, <1>8 DEF HandleChunk
<1>9. CASE c.export # NoExport /\ c.export.transfer = m.transfer /\ m.transfer # 0
  BY <1>2, <1>3, <1>4, <1>5, <1>6, <1>9 DEF HandleChunk
<1> QED
  BY <1>7, <1>8, <1>9

\* An import that is given up.
LEMMA Cancelled ==
  ASSUME NEW c, Shape(c), Tidy(c), NEW w \in {CancelImport(c), ClearImport(c)}
  PROVE  /\ Shape(w) /\ Tidy(w) /\ w.export = c.export /\ w.project = c.project
         /\ w.diagnosis = c.diagnosis
<1>1. View(w, c.export, c.project, c.diagnosis, NoImport, c.events) /\ Takes(c, w, {c.import.file})
  BY GivingUp, TakesFiles
<1>2. View(w, c.export, c.project, c.diagnosis, NoImport, w.events)
  BY <1>1 DEF View
<1>3. Claimed(w) /\ Backed(w)
  BY <1>1, <1>2, GivenUp DEF Tidy
<1> QED
  BY <1>1, <1>3 DEF View, Tidy

\* An import that fails takes its job with it.
LEMMA FailImportTidy ==
  ASSUME NEW c, Shape(c), Tidy(c), c.import.purpose \in Purposes,
         c.import.purpose = "diagnosis" => c.export.stage # "project"
  PROVE  Accounted(FailImport(c))
<1> DEFINE w == CancelImport(c)
<1>1. Shape(w) /\ Tidy(w) /\ w.export = c.export
  BY Cancelled
<1> HIDE DEF w
<1>2. Accounted(w) /\ Accounted(FinishProject(w, FALSE))
  BY <1>1, EndAccounts DEF Accounted, Tidy, Backed
<1>3. c.import.purpose = "diagnosis" => Accounted(FinishDiagnosis(w, FALSE))
  BY <1>1, EndAccounts DEF Tidy
<1> QED
  BY <1>2, <1>3 DEF FailImport, w, Purposes

\* An import that is accepted.
LEMMA AcceptedTidy ==
  ASSUME NEW c, Coherent(c), Tidy(c), NEW m, NEW disk,
         c.import.purpose = "diagnosis" => c.export.stage # "project"
  PROVE  Accounted(HandleAccepted(c, m, disk))
<1>1. Shape(c) /\ Accounted(c) /\ Claimed(c) /\ Backed(c)
  BY DEF Coherent, Accounted, Tidy
<1>2. c.import # NoImport => c.import.purpose \in Purposes
  BY DEF Coherent, Shape, NoneIsNone
<1>3. Accounted(Tell(c, "release", "none", m.transfer))
  BY <1>1, WordsTidy DEF Accounted
<1>4. c.import # NoImport => Accounted(FailImport([c EXCEPT !.import.transfer = m.transfer]))
  <2> DEFINE w == [c EXCEPT !.import.transfer = m.transfer]
  <2>1. /\ Shape(w) /\ w.files = c.files /\ w.project = c.project /\ w.export = c.export
        /\ w.diagnosis = c.diagnosis /\ w.import.file = c.import.file
        /\ w.import.purpose = c.import.purpose
    BY <1>1 DEF Shape, NewClient, NoImport
  <2> HIDE DEF w
  <2>2. Claimed(w) /\ Backed(w)
    BY <1>1, <2>1, SameTidy
  <2>3. c.import # NoImport => Accounted(FailImport(w))
    BY <1>2, <2>1, <2>2, FailImportTidy DEF Tidy
  <2> QED
    BY <2>3 DEF w
<1> DEFINE id == NewMessage(c)
           kept == Remove(c, {c.import.file})
           r == [kept EXCEPT !.import = [@ EXCEPT !.transfer = m.transfer, !.file = 0, !.commit = id],
                             !.sent = Append(@, Message("commit", id, "none", m.transfer))]
<1>5. Accounted(r)
  <2>1. View(kept, c.export, c.project, c.diagnosis, c.import, c.events)
        /\ Takes(c, kept, {c.import.file})
    BY <1>1, Files, TakesFiles
  <2> HIDE DEF kept, id
  <2>2. /\ Shape(r) /\ r.files = kept.files /\ r.project = c.project /\ r.export = c.export
        /\ r.diagnosis = c.diagnosis /\ r.import.file = 0
    BY <2>1 DEF View, Shape, NewClient, NoImport
  <2> HIDE DEF r
  <2>3. Takes(c, r, {c.import.file})
    BY <2>1, <2>2 DEF Takes
  <2>4. /\ FileIds(r) = FileIds(c) \ {c.import.file} /\ r.files \subseteq c.files
    BY <2>3, Taken
  <2>5. Claimed(r)
    BY <1>1, <2>2, <2>4 DEF Claimed, Owned, InFolder
  <2>6. Backed(r)
    BY <1>1, <2>2, <2>4 DEF Backed, Owned, Own, Apart
  <2> QED
    BY <2>2, <2>5, <2>6 DEF Accounted
<1>6. HandleAccepted(c, m, disk) =
        IF c.import = NoImport \/ m.id # c.import.begin
        THEN Tell(c, "release", "none", m.transfer)
        ELSE IF c.import.transfer # 0 THEN c
        ELSE IF disk = "open" THEN FailImport([c EXCEPT !.import.transfer = m.transfer])
        ELSE r
  BY DEF HandleAccepted
<1> HIDE DEF r
<1> QED
  BY <1>1, <1>3, <1>4, <1>5, <1>6

\* An import that is complete hands over to the export it was for.
LEMMA ImportedTidy ==
  ASSUME NEW c, Coherent(c), Tidy(c), NEW m, NEW disk,
         c.import.purpose \in {"project", "diagnosis"} => c.export = NoExport
  PROVE  Accounted(HandleImported(c, m, disk))
<1>1. Shape(c) /\ Accounted(c)
  BY DEF Coherent, Accounted, Tidy
<1>2. c.import # NoImport => c.import.purpose \in Purposes
  BY DEF Coherent, Shape, NoneIsNone
<1>3. ASSUME NEW w, Accounted(w)
      PROVE  Accounted(ClearImport(w))
  <2> DEFINE r == ClearImport(w)
             kept == Remove(w, {w.import.file})
  <2>1. View(r, w.export, w.project, w.diagnosis, NoImport, w.events)
        /\ Takes(w, r, {w.import.file})
    BY <1>3, GivingUp, TakesFiles DEF Accounted
  <2>2. r.failed = w.failed
    <3>1. kept.failed = w.failed /\ DOMAIN kept = DOMAIN w
      BY <1>3 DEF Accounted, Shape, NewClient, Remove
    <3>2. r = [kept EXCEPT !.import = NoImport]
      BY DEF ClearImport
    <3> HIDE DEF kept, r
    <3> QED
      BY <1>3, <3>1, <3>2 DEF Accounted, Shape, NewClient
  <2> HIDE DEF r
  <2>3. View(r, w.export, w.project, w.diagnosis, NoImport, r.events) /\ Shape(r)
    BY <2>1 DEF View
  <2>4. Claimed(r) /\ (Backed(w) => Backed(r))
    BY <1>3, <2>1, <2>3, GivenUp DEF Accounted
  <2>5. Accounted(r)
    BY <1>3, <2>2, <2>3, <2>4 DEF Accounted
  <2> QED
    BY <2>5 DEF r
<1>4. CASE ~ImportMatches(c, m)
  BY <1>1, <1>4 DEF HandleImported
<1>5. CASE ImportMatches(c, m) /\ c.import.purpose = "project"
  <2>1. c.export = NoExport /\ c.project # NoProject
    BY <1>5 DEF Coherent, Serves
  <2>2. Tidy(RequestProject(c)) /\ Shape(RequestProject(c))
    BY <1>1, <2>1, ProjectRequestTidy, ProjectRequest DEF View
  <2>3. Accounted(ClearImport(RequestProject(c)))
    BY <1>3, <2>2 DEF Accounted, Tidy
  <2> QED
    BY <1>5, <2>3 DEF HandleImported
<1>6. CASE ImportMatches(c, m) /\ c.import.purpose = "diagnosis"
  <2>1. Accounted(RequestDiagnosisProject(c, disk))
    BY <1>1, <1>6, PartTidy
  <2>2. Accounted(ClearImport(RequestDiagnosisProject(c, disk)))
    BY <1>3, <2>1
  <2> QED
    BY <1>6, <2>2 DEF HandleImported
<1>7. CASE ImportMatches(c, m) /\ c.import.purpose = "restore"
  <2> DEFINE w == ClearImport(c)
  <2>1. Shape(w) /\ Tidy(w)
    BY <1>1, Cancelled
  <2> HIDE DEF w
  <2>2. Tidy(Transition(w)) /\ Shape(Transition(w))
    BY <2>1, LeftTidy, Left DEF Tidy, View
  <2> QED
    BY <1>7, <2>2 DEF HandleImported, Accounted, Tidy, w
<1> QED
  BY <1>2, <1>4, <1>5, <1>6, <1>7 DEF ImportMatches, Purposes

\* A command the runtime rejects.
LEMMA RejectedTidy ==
  ASSUME NEW c, Coherent(c), Tidy(c), NEW m,
         c.import.purpose = "diagnosis" => c.export.stage # "project"
  PROVE  Accounted(HandleRejected(c, m))
<1> DEFINE stage == IF c.export.message # 0 /\ m.id = c.export.message THEN c.export.stage
                    ELSE "none"
           invalid == m.tag = "invalid_state"
           w == DropExport(c)
           waits == [w EXCEPT !.diagnosis.stage = "project_wait", !.diagnosis.waiting = TRUE]
           forgot == [c EXCEPT !.export = NoExport]
           kept == [c EXCEPT !.export = NoExport, !.project.waiting = (@ \/ c.project # NoProject)]
<1>1. Shape(c) /\ Accounted(c) /\ (c.import # NoImport => c.import.purpose \in Purposes)
  BY DEF Coherent, Accounted, Tidy, Shape, NoneIsNone
<1>2. HandleRejected(c, m) =
        IF c.import # NoImport /\ m.id \in {c.import.begin, c.import.commit} \ {0}
        THEN FailImport(c)
        ELSE CASE stage = "cache" -> IF invalid THEN Reschedule(w) ELSE FinishCache(w)
               [] stage \in DiagnosisStages ->
                    IF stage = "diagnosis_project" /\ invalid /\ c.diagnosis # NoDiagnosis
                    THEN waits ELSE FinishDiagnosis(w, FALSE)
               [] stage \in Manual -> Emit(w, stage)
               [] stage = "project" -> IF invalid THEN kept ELSE FinishProject(forgot, FALSE)
               [] OTHER -> c
  BY DEF HandleRejected
<1>3. c.import # NoImport => Accounted(FailImport(c))
  BY <1>1, FailImportTidy
<1>4. stage = c.export.stage \/ stage = "none"
  OBVIOUS
<1>5. stage \in Stages \cup {"none"}
  BY <1>1, <1>4 DEF Shape
<1>6. /\ Shape(w) /\ w.export = NoExport /\ w.diagnosis = c.diagnosis /\ Claimed(w)
      /\ c.export.stage # "project" => Backed(w)
  BY <1>1, Dropped
<1>7. NoExport.stage = "none" /\ NoExport.file = 0 /\ DOMAIN NoExport = DOMAIN c.export
  BY <1>1 DEF NoExport, Shape
<1> HIDE DEF w
<1>8. stage \notin {"project", "none"} =>
        /\ Accounted(Reschedule(w)) /\ Accounted(FinishCache(w)) /\ Accounted(waits)
        /\ Accounted(FinishDiagnosis(w, FALSE))
        /\ stage \in Manual => Accounted(Emit(w, stage))
  <2>1. SUFFICES ASSUME stage \notin {"project", "none"}
                 PROVE  /\ Accounted(Reschedule(w)) /\ Accounted(FinishCache(w))
                        /\ Accounted(waits) /\ Accounted(FinishDiagnosis(w, FALSE))
                        /\ stage \in Manual => Accounted(Emit(w, stage))
    OBVIOUS
  <2>2. Backed(w) /\ w.export.stage # "project"
    BY <1>4, <1>6, <1>7, <2>1
  <2>3. Accounted(FinishCache(w)) /\ Accounted(FinishDiagnosis(w, FALSE))
    BY <1>6, <2>2, EndAccounts
  <2>4. stage \in Manual => Accounted(Emit(w, stage))
    <3>1. stage \in Manual => stage \in Events
      BY DEF Manual, Events, UserJobs
    <3> HIDE DEF stage
    <3> QED
      BY <1>6, <2>2, <3>1, WordsTidy DEF Accounted
  <2>5. Accounted(waits)
    <3>1. /\ Shape(waits) /\ waits.files = w.files /\ waits.project = w.project
          /\ waits.export = w.export /\ waits.import = w.import
          /\ waits.diagnosis.folder = w.diagnosis.folder
          /\ waits.diagnosis.parts = w.diagnosis.parts
      BY <1>6 DEF Shape, NewClient, NoDiagnosis
    <3> HIDE DEF waits
    <3>2. Claimed(waits) /\ Backed(waits)
      BY <1>6, <2>2, <3>1, SameTidy
    <3> QED
      BY <3>1, <3>2 DEF Accounted
  <2>6. Accounted(Reschedule(w))
    <3> DEFINE r == Reschedule(w)
    <3>1. View(r, w.export, w.project, w.diagnosis, w.import, w.events) /\ r.files = w.files
      BY <1>6, Aside, Untouched
    <3> HIDE DEF r
    <3>2. /\ Shape(r) /\ r.files = w.files /\ r.project = w.project /\ r.export = w.export
          /\ r.import = w.import /\ r.diagnosis = w.diagnosis
      BY <3>1 DEF View
    <3>3. Claimed(r) /\ Backed(r)
      BY <1>6, <2>2, <3>2, SameTidy
    <3> QED
      BY <3>2, <3>3 DEF Accounted, r
  <2> QED
    BY <2>3, <2>4, <2>5, <2>6
<1>9. stage = "project" => Accounted(kept) /\ Accounted(FinishProject(forgot, FALSE))
  <2>1. SUFFICES ASSUME c.export.stage = "project"
                 PROVE  Accounted(kept) /\ Accounted(FinishProject(forgot, FALSE))
    BY <1>4
  <2>2. "none" \notin DiagnosisStages /\ "none" # "project" /\ "project" \notin DiagnosisStages
    BY DEF DiagnosisStages
  <2>3. ASSUME NEW r, Shape(r), r.files = c.files, r.export = NoExport, r.import = c.import,
               r.diagnosis = c.diagnosis, r.project.file = c.project.file
        PROVE  Accounted(r)
    <3>1. Claimed(c) /\ Backed(c)
      BY DEF Tidy
    <3>2. Claimed(r)
      BY <1>7, <2>1, <2>2, <2>3, <3>1 DEF Claimed, Backed, Owned, FileIds, InFolder, Apart
    <3>3. Backed(r)
      BY <1>7, <2>1, <2>2, <2>3, <3>1 DEF Backed, Owned, FileIds, Apart, Own
    <3> QED
      BY <2>3, <3>2, <3>3 DEF Accounted
  <2>4. /\ Shape(kept) /\ kept.files = c.files /\ kept.export = NoExport
        /\ kept.import = c.import /\ kept.diagnosis = c.diagnosis
        /\ kept.project.file = c.project.file
    BY <1>1 DEF Shape, NewClient, NoProject, NoExport
  <2>5. /\ Shape(forgot) /\ forgot.files = c.files /\ forgot.export = NoExport
        /\ forgot.import = c.import /\ forgot.diagnosis = c.diagnosis
        /\ forgot.project.file = c.project.file /\ forgot.failed = c.failed
    BY <1>1 DEF Shape, NewClient, NoProject, NoExport
  <2> HIDE DEF kept, forgot
  <2>6. Accounted(kept) /\ Accounted(forgot)
    BY <2>3, <2>4, <2>5
  <2>7. Backed(forgot)
    BY <1>7, <2>1, <2>2, <2>5 DEF Tidy, Backed, Owned, FileIds, Apart, Own
  <2>8. Accounted(FinishProject(forgot, FALSE))
    BY <2>5, <2>6, <2>7, EndAccounts DEF Accounted, Backed
  <2> QED
    BY <2>6, <2>8
<1>10. DiagnosisStages \cap {"cache", "project", "none"} = {}
       /\ Manual \cap (DiagnosisStages \cup {"cache", "project", "none"}) = {}
  BY DEF DiagnosisStages, Manual
<1> HIDE DEF stage, invalid, waits, forgot, kept
<1>11. CASE c.import # NoImport /\ m.id \in {c.import.begin, c.import.commit} \ {0}
  BY <1>2, <1>3, <1>11
<1>12. CASE ~(c.import # NoImport /\ m.id \in {c.import.begin, c.import.commit} \ {0})
  <2>1. CASE stage = "cache"
    BY <1>2, <1>8, <1>10, <1>12, <2>1
  <2>2. CASE stage \in DiagnosisStages
    BY <1>2, <1>8, <1>10, <1>12, <2>2
  <2>3. CASE stage \in Manual
    BY <1>2, <1>8, <1>10, <1>12, <2>3
  <2>4. CASE stage = "project"
    BY <1>2, <1>9, <1>10, <1>12, <2>4
  <2>5. CASE stage = "none"
    BY <1>1, <1>2, <1>10, <1>12, <2>5
  <2> QED
    BY <1>5, <2>1, <2>2, <2>3, <2>4, <2>5 DEF Stages
<1> QED
  BY <1>11, <1>12

\* Every output of the runtime, whatever it belongs to.
LEMMA HandleTidy ==
  ASSUME NEW c, Coherent(c), Tidy(c), NEW m, m.tag \in Outputs, NEW disk,
         c.import.purpose \in {"project", "diagnosis"} => c.export = NoExport
  PROVE  Accounted(Handle(c, m, disk))
<1>1. c.import.purpose = "diagnosis" => c.export.stage # "project"
  BY DEF NoExport
<1>2. Accounted(HandleFault(c))
  <2> DEFINE w == ClearImport(c)
  <2>1. Shape(w) /\ Tidy(w)
    BY Cancelled DEF Coherent
  <2> HIDE DEF w
  <2>2. "fault" \in Events
    BY DEF Events
  <2>3. Accounted(Emit(w, "fault"))
    BY <2>1, <2>2, WordsTidy DEF Accounted, Tidy
  <2> QED
    BY <2>3 DEF HandleFault, w
<1>3. /\ Accounted(HandleReady(c, m)) /\ Accounted(HandleChunk(c, m, disk))
      /\ Accounted(HandleAccepted(c, m, disk)) /\ Accounted(HandleImported(c, m, disk))
      /\ Accounted(HandleRejected(c, m))
  BY <1>1, ReadyTidy, ChunkTidy, AcceptedTidy, ImportedTidy, RejectedTidy
<1>4. CASE m.tag \in {"ready", "ineligible"}
  BY <1>3, <1>4 DEF Handle
<1>5. CASE m.tag \in {"chunk", "last_chunk"}
  BY <1>3, <1>5 DEF Handle
<1>6. CASE m.tag \in {"accepted", "imported"}
  BY <1>3, <1>6 DEF Handle
<1>7. CASE m.tag \in {"rejected", "invalid_state"}
  BY <1>3, <1>7 DEF Handle
<1>8. CASE m.tag = "fault"
  BY <1>2, <1>8 DEF Handle
<1> QED
  BY <1>4, <1>5, <1>6, <1>7, <1>8 DEF Outputs

\* The look for postponed work after a pump.
LEMMA RefreshTidy ==
  ASSUME NEW c, Coherent(c), Tidy(c), NEW disk
  PROVE  Accounted(Refresh(c, disk))
<1>1. Shape(c) /\ Accounted(c)
  BY DEF Coherent, Accounted, Tidy
<1>2. CASE c.project # NoProject
  <2>1. c.export = NoExport => Accounted(RequestProject(c))
    BY <1>1, <1>2, ProjectRequestTidy, ProjectRequest DEF Accounted, Tidy, View
  <2> QED
    BY <1>1, <1>2, <2>1 DEF Refresh
<1>3. CASE c.project = NoProject /\ c.diagnosis # NoDiagnosis
  <2>1. c.export = NoExport => /\ Accounted(StartPart(c, "replay", disk))
                               /\ Accounted(RequestDiagnosisProject(c, disk))
    BY <1>1, PartTidy
  <2> QED
    BY <1>1, <1>3, <2>1 DEF Refresh
<1>4. CASE c.project = NoProject /\ c.diagnosis = NoDiagnosis
  <2> DEFINE begun == [c EXCEPT !.cache.due = FALSE]
             ready == [begun EXCEPT !.cache.prepared = TRUE]
  <2>1. /\ Shape(begun) /\ begun.files = c.files /\ begun.project = c.project
        /\ begun.export = c.export /\ begun.import = c.import /\ begun.diagnosis = c.diagnosis
    BY <1>1 DEF Shape, NewClient, NoCache
  <2> HIDE DEF begun
  <2>2. /\ Shape(ready) /\ ready.files = c.files /\ ready.project = c.project
        /\ ready.export = c.export /\ ready.import = c.import /\ ready.diagnosis = c.diagnosis
    BY <2>1 DEF Shape, NewClient, NoCache
  <2> HIDE DEF ready
  <2>3. Claimed(begun) /\ Claimed(ready) /\ Backed(ready)
    BY <2>1, <2>2, SameTidy DEF Tidy
  <2>4. Accounted(Raise(begun))
    BY <2>1, <2>3, RaiseAccounts
  <2>5. c.export = NoExport => Accounted(Request(ready, "cache", 0))
    <3>1. "cache" \in Stages \ {"project"}
      BY DEF Stages
    <3> QED
      BY <2>2, <2>3, <3>1, RequestTidy, Requests DEF Accounted, Tidy, View
  <2>6. Refresh(c, disk) = IF ~(c.cache.due /\ c.export = NoExport /\ ~c.cache.waiting) THEN c
                           ELSE IF disk = "open" THEN Raise(begun)
                           ELSE Request(ready, "cache", 0)
    BY <1>4 DEF Refresh, begun, ready
  <2> QED
    BY <1>1, <2>4, <2>5, <2>6
<1> QED
  BY <1>2, <1>3, <1>4
-----------------------------------------------------------------------------
(* The files through the steps *)

FilesInv == Tidy(client) /\ DOMAIN client = DOMAIN NewClient

\* What is left of the client goes on, or is wound up.
LEMMA ContinuesTidy ==
  ASSUME NEW r, Accounted(r), NEW next, Continue(r, next)
  PROVE  FilesInv'
<1>1. Shape(r) /\ Claimed(r) /\ (r.failed = TRUE \/ Backed(r))
  BY DEF Accounted
<1>2. Tidy(WindUp(r)) /\ DOMAIN WindUp(r) = DOMAIN NewClient
  BY <1>1, WoundUp
<1>3. client' = WindUp(r) \/ (client' = r /\ r.failed # TRUE)
  BY DEF Continue
<1>4. CASE client' = WindUp(r)
  BY <1>2, <1>4 DEF FilesInv
<1>5. CASE client' = r /\ r.failed # TRUE
  <2>1. Tidy(r) /\ DOMAIN r = DOMAIN NewClient
    BY <1>1, <1>5 DEF Tidy, Shape
  <2> QED
    BY <1>5, <2>1 DEF FilesInv
<1> QED
  BY <1>3, <1>4, <1>5

\* A step that leaves the files and who has them keeps them in order.
LEMMA UnchangedTidy ==
  ASSUME FilesInv, NEW r, client' = r, DOMAIN r = DOMAIN client, r.files = client.files,
         r.export = client.export, r.import = client.import,
         r.project.file = client.project.file, r.diagnosis.folder = client.diagnosis.folder,
         r.diagnosis.parts = client.diagnosis.parts
  PROVE  FilesInv'
<1>1. Claimed(r) /\ Backed(r)
  BY SameTidy DEF FilesInv, Tidy
<1>2. Tidy(r) /\ DOMAIN r = DOMAIN NewClient
  BY <1>1 DEF FilesInv, Tidy
<1> QED
  BY <1>2 DEF FilesInv

\* A new client has no files.
LEMMA InitTidy ==
  ASSUME Init
  PROVE  FilesInv
<1>1. PICK due \in {FALSE, ~Packaged} : client = [NewClient EXCEPT !.cache.due = due]
  BY DEF Init
<1>2. /\ client.export = NoExport /\ client.project = NoProject /\ client.diagnosis = NoDiagnosis
      /\ client.import = NoImport /\ client.files = {} /\ DOMAIN client = DOMAIN NewClient
  BY <1>1 DEF NewClient, NoCache
<1>3. Tidy(client)
  BY <1>2, EmptyTidy
<1> QED
  BY <1>2, <1>3 DEF FilesInv

\* A command is processed.
LEMMA ProcessFiles ==
  ASSUME JobInv, FilesInv, "folder" \notin DiskFailures, ProcessCommand
  PROVE  FilesInv'
<1>1. Orderly /\ commands # <<>>
  BY DEF JobInv, ProcessCommand
<1> DEFINE command == Head(commands)
<1>2. PICK disk \in Disks : Continue(Process(client, command, disk), "commands")
  BY DEF ProcessCommand
<1>3. disk # "folder"
  BY DEF Disks
<1>4. command \in Commands /\ Pending(command)
  BY <1>1, CommandQueue DEF Orderly, FirstCommand, Pending
<1>5. command \in UserJobs \ {"diagnosis"} => Free(client)
  BY <1>1, <1>4, FreeClient DEF Orderly, Alone
<1>6. command = "diagnosis" => client.diagnosis = NoDiagnosis
  BY <1>1, <1>4 DEF Orderly, Alone, Runs, UserJobs, Manual
<1>7. Coherent(client) /\ Tidy(client)
  BY <1>1 DEF Orderly, FilesInv
<1> HIDE DEF command
<1>8. Accounted(Process(client, command, disk))
  BY <1>3, <1>4, <1>5, <1>6, <1>7, ProcessTidy
<1> DEFINE r == Process(client, command, disk)
<1>9. Accounted(r) /\ Continue(r, "commands")
  BY <1>2, <1>8
<1> HIDE DEF r
<1> QED
  BY <1>9, ContinuesTidy

\* An output is handled.
LEMMA HandleFiles ==
  ASSUME JobInv, TalkInv, FilesInv, HandleOutput
  PROVE  FilesInv'
<1>1. Orderly /\ client.polled # <<>> /\ Placed(client)
  BY DEF JobInv, TalkInv, Converses, HandleOutput
<1> DEFINE c == [client EXCEPT !.polled = Tail(client.polled)]
           m == Head(client.polled)
<1>2. PICK disk \in Disks : Continue(Handle(c, m, disk), "polling")
  BY DEF HandleOutput
<1>3. m.tag \in Outputs /\ OutputQueue(Tail(client.polled))
  BY <1>1, OutputQueues DEF Orderly, Coherent, Shape
<1>4. View(c, client.export, client.project, client.diagnosis, client.import, client.events)
      /\ c.files = client.files
  BY <1>1, <1>3 DEF View, Orderly, Coherent, Shape, NewClient
<1> HIDE DEF c, m
<1>5. Coherent(c)
  BY <1>1, <1>4 DEF Orderly, Coherent, View, NoneIsNone, Serves, ManualAlone
<1>6. c.import.purpose \in {"project", "diagnosis"} => c.export = NoExport
  BY <1>1, <1>4 DEF View, Placed
<1>7. Tidy(c)
  <2>1. /\ c.files = client.files /\ c.export = client.export /\ c.project = client.project
        /\ c.diagnosis = client.diagnosis /\ c.import = client.import
    BY <1>4 DEF View
  <2> QED
    BY <2>1, SameTidy DEF FilesInv, Tidy
<1> DEFINE r == Handle(c, m, disk)
<1>8. Accounted(r) /\ Continue(r, "polling")
  BY <1>2, <1>3, <1>5, <1>6, <1>7, HandleTidy
<1> HIDE DEF r
<1> QED
  BY <1>8, ContinuesTidy

\* The worker looks for postponed work.
LEMMA RefreshFiles ==
  ASSUME JobInv, FilesInv, MaybeRefresh
  PROVE  FilesInv'
<1>1. Coherent(client) /\ Tidy(client)
  BY DEF JobInv, MaybeRefresh, Orderly, FilesInv
<1>2. PICK disk \in Disks : Continue(Refresh(client, disk), "commands")
  BY DEF MaybeRefresh
<1> DEFINE r == Refresh(client, disk)
<1>3. Accounted(r) /\ Continue(r, "commands")
  BY <1>1, <1>2, RefreshTidy
<1> HIDE DEF r
<1> QED
  BY <1>3, ContinuesTidy

\* Nobody else touches the files.
LEMMA OtherFiles ==
  ASSUME JobInv, FilesInv, [Next]_vars, ~ProcessCommand, ~HandleOutput, ~MaybeRefresh
  PROVE  FilesInv'
<1>1. CASE UNCHANGED client
  BY <1>1, UnchangedTidy
<1>2. CASE TimePasses \/ Defer
  <2> DEFINE late == [client EXCEPT !.cache.waiting = TRUE]
             due == [client EXCEPT !.project.waiting = FALSE, !.diagnosis.waiting = FALSE,
                                   !.cache.waiting = FALSE]
  <2>1. client' = late \/ client' = due
    BY <1>2 DEF TimePasses, Defer
  <2>2. Shape(client)
    BY <1>2 DEF TimePasses, Defer, JobInv, Orderly, Coherent
  <2>3. /\ DOMAIN late = DOMAIN client /\ late.files = client.files
        /\ late.export = client.export /\ late.import = client.import
        /\ late.project = client.project /\ late.diagnosis = client.diagnosis
    BY <2>2 DEF Shape, NewClient
  <2>4. /\ DOMAIN due = DOMAIN client /\ due.files = client.files
        /\ due.export = client.export /\ due.import = client.import
        /\ due.project.file = client.project.file
        /\ due.diagnosis.folder = client.diagnosis.folder
        /\ due.diagnosis.parts = client.diagnosis.parts
    BY <2>2 DEF Shape, NewClient, NoProject, NoDiagnosis
  <2> HIDE DEF late, due
  <2>5. client' = late => FilesInv'
    BY <2>3, UnchangedTidy
  <2>6. client' = due => FilesInv'
    BY <2>4, UnchangedTidy
  <2> QED
    BY <2>1, <2>5, <2>6
<1>3. CASE RtConsume \/ RtFault \/ HandleEvent
  <2>1. /\ DOMAIN client' = DOMAIN client /\ client'.files = client.files
        /\ client'.export = client.export /\ client'.import = client.import
        /\ client'.project = client.project /\ client'.diagnosis = client.diagnosis
    <3>1. CASE RtFault
      BY <3>1 DEF RtFault, FilesInv, NewClient
    <3>2. CASE HandleEvent
      BY <3>2 DEF HandleEvent, FilesInv, NewClient
    <3>3. CASE RtConsume
      <4>1. \E messages, rest : Reply(messages, rest)
        BY <3>3 DEF RtConsume, RtExport, RtRead, RtImport, RtClose
      <4> QED
        BY <4>1 DEF Reply, FilesInv, NewClient
    <3> QED
      BY <1>3, <3>1, <3>2, <3>3
  <2> QED
    BY <2>1, UnchangedTidy
<1>4. \/ UNCHANGED client \/ TimePasses \/ Defer \/ RtConsume \/ RtFault \/ HandleEvent
  BY DEF Next, Worker, BeginPump, EndDrive, EndPoll, StartExport, StartDiagnosis, CancelExport,
         Leave, Choose, Stopped, vars
<1> QED
  BY <1>1, <1>2, <1>3, <1>4

\* Every step keeps the files in order.
LEMMA NextTidy ==
  ASSUME JobInv, TalkInv, FilesInv, "folder" \notin DiskFailures, [Next]_vars
  PROVE  FilesInv'
BY ProcessFiles, HandleFiles, RefreshFiles, OtherFiles

\* Nothing of a transfer that is over is left, on either side: every temporary file
\* belongs to what is under way and exists, whatever the disk, the runtime and the
\* user do, also when the worker has ended (_PendingExport, DiagnosisExport.cleanup,
\* _clear_pending_import); and the runtime holds no export open that the client has
\* given up (_cancel_runtime_export, _release_transfer).  This is for a user who
\* Waits: the invariant says that at most one export is spoken of at a time.
THEOREM NothingIsLeft ==
  ASSUME Careful, "folder" \notin DiskFailures
  PROVE  Spec /\ [][Waits]_vars => []NothingLeft
<1>1. Init => LineInv /\ FilesInv
  BY InitTalks, InitTidy
<1>2. LineInv /\ FilesInv /\ [Next]_vars /\ [Waits]_vars => (LineInv /\ FilesInv)'
  BY NextTalks, NextTidy DEF LineInv
<1>3. LineInv /\ FilesInv => NothingLeft
  <2>1. FilesInv => TemporariesOwned
    BY DEF FilesInv, Tidy, Claimed, Backed, FileIds, Owned, TemporariesOwned, OwnedFiles
  <2>2. LineInv => RuntimeReleased
    BY TalkReleased DEF LineInv
  <2> QED
    BY <2>1, <2>2 DEF NothingLeft
<1> QED
  BY <1>1, <1>2, <1>3, PTL DEF Spec
=============================================================================
