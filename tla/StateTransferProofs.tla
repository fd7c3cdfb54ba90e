------------------------ MODULE StateTransferProofs ------------------------
(***************************************************************************)
(* JobTracked and WorkerSurvives of StateTransfer for every user who waits *)
(* for what he gave up, every bound and every disk but one that cannot     *)
(* make a folder.                                                          *)
(*                                                                         *)
(* Coherent says what the client keeps among its four jobs, Steps what one *)
(* operation may do to them: it begins no job but the one commanded, it    *)
(* ends none without an event, and it queues no event that ends a job      *)
(* which still runs.  Every operation is shown to be such a step; JobInv   *)
(* relates the jobs to the commands and the flags of the app.              *)
(*                                                                         *)
(* TalkInv says what the client and the runtime have to say to each other: *)
(* at most one message is about an export, and it fits the one under way;  *)
(* an import waits for a message that is under way, and what is left of an *)
(* export that was given up comes before it; what the runtime holds open   *)
(* the client holds too, or has closed.                                    *)
(***************************************************************************)
EXTENDS StateTransfer, FiniteSetTheorems, WellFoundedInduction, TLAPS

UserJobs == {"snapshot", "replay", "project", "diagnosis"}
Commands == UserJobs \cup {"cancel", "title", "restart", "restore"}
Events == UserJobs \cup {"fault", "stopped", "reset"}
Outputs == {"ready", "ineligible", "chunk", "last_chunk", "accepted", "imported", "rejected",
            "invalid_state", "fault"}

\* A queue of outputs of the runtime.
OutputQueue(queue) == \E S : queue \in Seq(S) /\ \A m \in S : m.tag \in Outputs

\* The records of a client, and its queues.
Shape(c) ==
  /\ DOMAIN c = DOMAIN NewClient
  /\ DOMAIN c.export = DOMAIN NoExport /\ c.export.stage \in Stages \cup {"none"}
  /\ DOMAIN c.project = DOMAIN NoProject
  /\ DOMAIN c.diagnosis = DOMAIN NoDiagnosis
  /\ DOMAIN c.import = DOMAIN NoImport /\ c.import.purpose \in Purposes \cup {"none"}
  /\ DOMAIN c.cache = DOMAIN NoCache
  /\ IsFiniteSet(c.files)
  /\ c.events \in Seq(Events)
  /\ OutputQueue(c.polled)

\* An export, an import or a diagnosis without a stage is none at all, and so is a
\* project file without a file.
NoneIsNone(c) ==
  /\ c.export.stage = "none" => c.export = NoExport
  /\ c.import.purpose = "none" => c.import = NoImport
  /\ c.diagnosis.stage = "none" => c.diagnosis = NoDiagnosis
  /\ c.project.file = 0 => c.project = NoProject

\* What serves a project file or a diagnosis has one to serve, at its stage of it.
Serves(c) ==
  /\ c.export.stage = "project" => c.project # NoProject /\ c.import.purpose # "project"
  /\ c.import.purpose = "project" => c.project # NoProject
  /\ c.export.stage = "diagnosis_replay" => c.diagnosis.stage = "replay"
  /\ c.export.stage = "diagnosis_snapshot" => c.diagnosis.stage = "snapshot"
  /\ c.export.stage = "diagnosis_project" =>
       c.diagnosis # NoDiagnosis /\ c.import.purpose # "diagnosis"
  /\ c.import.purpose = "diagnosis" => c.diagnosis.stage = "project"

\* Nothing but a restore, or a diagnosis that waits, besides a manual export.
ManualAlone(c) ==
  c.export.stage \in Manual =>
    /\ c.project = NoProject /\ c.import.purpose \in {"none", "restore"}
    /\ c.diagnosis.stage \in {"none", "export_wait"}

Coherent(c) == Shape(c) /\ NoneIsNone(c) /\ Serves(c) /\ ManualAlone(c)

\* Working, of any client.
Runs(c, job) ==
  IF job \in Manual THEN c.export.stage = job
  ELSE IF job = "project" THEN c.project # NoProject
  ELSE c.diagnosis # NoDiagnosis

\* The app has still to handle an event that ends the job.
Ending(c, job) == job \in In(c.events) \/ "reset" \in In(c.events)

\* c became r, begun are the commands that were processed.
Steps(c, r, begun) ==
  /\ Coherent(r)
  /\ In(c.events) \subseteq In(r.events)
  /\ "stopped" \in In(r.events) => "stopped" \in In(c.events)
  /\ \A job \in UserJobs :
       /\ Runs(r, job) => /\ Runs(c, job) \/ job \in begun
                          /\ Ending(r, job) => Ending(c, job)
       /\ Runs(c, job) \/ job \in begun => Runs(r, job) \/ Ending(r, job)
       /\ Ending(r, job) => \/ Ending(c, job) \/ Runs(c, job) \/ job \in begun
                           \/ c.import.purpose = "restore"
                           \/ "title" \in begun \/ "restart" \in begun
  /\ r.import.purpose = "restore" => c.import.purpose = "restore" \/ "restore" \in begun

Pending(job) == job \in In(commands)
Leaving == Pending("title") \/ Pending("restart")

\* A job is commanded only while no command waits.
FirstCommand ==
  /\ commands \in Seq(Commands)
  /\ \A i \in DOMAIN commands : commands[i] \in UserJobs => i = 1

\* A job is commanded only when it can begin.
Alone ==
  \A job \in UserJobs : Pending(job) =>
    /\ ~Runs(client, job) /\ client.import.purpose # "restore"
    /\ job # "diagnosis" => \A other \in UserJobs : ~Runs(client, other)

\* The app shows what runs, unless it is being left.
Shown ==
  \A job \in UserJobs : Pending(job) \/ Runs(client, job) =>
    /\ ~Ending(client, job)
    /\ \/ job \in app.flags
       \/ job = "project" /\ Pending("cancel")
       \/ job \in Manual /\ (app.fatal \/ Leaving)

Tracked ==
  \A job \in app.flags :
    \/ Pending(job) \/ Runs(client, job)
    \/ \E event \in In(client.events) : job \in Cleared(event)

\* The inductive invariant, while the worker runs.
Orderly ==
  /\ Coherent(client) /\ "stopped" \notin In(client.events)
  /\ app \in [flags : SUBSET UserJobs, fatal : BOOLEAN]
  /\ FirstCommand /\ Alone /\ Shown /\ Tracked

JobInv == pc # "closed" => Orderly
-----------------------------------------------------------------------------
(* Numbers, queues and files *)

\* The number Fresh chooses exists: it is not taken, and not 0, which is None.
LEMMA FreshNumber ==
  ASSUME NEW used, IsFiniteSet(used)
  PROVE  Fresh(used) \in Nat \ {0} /\ Fresh(used) \notin used
<1> DEFINE n == Cardinality(used)
           Less == {pair \in Nat \X Nat : pair[1] < pair[2]}
           Free == {k \in 1..(n + 1) : k \notin used}
<1>1. n \in Nat
  BY FS_CardinalityType
<1>2. Free # {}
  <2>1. SUFFICES ASSUME 1..(n + 1) \subseteq used PROVE FALSE
    OBVIOUS
  <2>2. Cardinality(1..(n + 1)) <= n
    BY <2>1, FS_Subset
  <2>3. Cardinality(1..(n + 1)) = n + 1
    BY <1>1, FS_Interval
  <2> QED
    BY <1>1, <2>2, <2>3
<1>3. IsWellFoundedOn(Less, Nat)
  BY NatLessThanWellFounded DEF OpToRel
<1>4. PICK k \in Free : \A other \in Free : <<other, k>> \notin Less
  <2>1. Free \subseteq Nat
    BY <1>1
  <2> HIDE DEF Free, Less
  <2> QED
    BY <1>2, <1>3, <2>1, WFMin
<1>5. k \in 1..(n + 1) /\ k \notin used
  BY <1>4
<1>6. 1..(k - 1) \subseteq used
  <2>1. SUFFICES ASSUME NEW other \in 1..(k - 1), other \notin used PROVE FALSE
    OBVIOUS
  <2>2. other \in Free /\ <<other, k>> \in Less
    BY <1>1, <1>5, <2>1
  <2> QED
    BY <1>4, <2>2
<1>7. /\ Fresh(used) \in 1..(n + 1) /\ Fresh(used) \notin used
  BY <1>5, <1>6 DEF Fresh
<1> QED
  BY <1>1, <1>7

\* An event at the end of the queue, or the one the game transition adds.
LEMMA EventQueue ==
  ASSUME NEW events \in Seq(Events)
  PROVE  /\ \A event \in Events : /\ Append(events, event) \in Seq(Events)
                                  /\ In(Append(events, event)) = In(events) \cup {event}
         /\ In(events) \subseteq Events
         /\ events # <<>> => /\ Head(events) \in In(events) /\ Tail(events) \in Seq(Events)
                             /\ In(events) = In(Tail(events)) \cup {Head(events)}
<1>1. ASSUME NEW event \in Events
      PROVE  In(Append(events, event)) = In(events) \cup {event}
  <2>1. /\ Len(Append(events, event)) = Len(events) + 1
        /\ Append(events, event)[Len(events) + 1] = event
        /\ \A i \in 1..Len(events) : Append(events, event)[i] = events[i]
    OBVIOUS
  <2> QED
    BY <2>1 DEF In
<1>2. ASSUME events # <<>>
      PROVE  /\ Head(events) \in In(events) /\ Tail(events) \in Seq(Events)
             /\ In(events) = In(Tail(events)) \cup {Head(events)}
  <2>1. /\ Len(events) \in Nat \ {0} /\ Head(events) = events[1]
        /\ Tail(events) \in Seq(Events) /\ Len(Tail(events)) = Len(events) - 1
        /\ \A i \in 1..(Len(events) - 1) : Tail(events)[i] = events[i + 1]
    BY <1>2
  <2>2. In(events) \subseteq In(Tail(events)) \cup {Head(events)}
    <3>1. SUFFICES ASSUME NEW i \in 1..Len(events)
                   PROVE  events[i] \in In(Tail(events)) \cup {Head(events)}
      BY DEF In
    <3>2. ASSUME i # 1
          PROVE  i - 1 \in DOMAIN Tail(events) /\ events[i] = Tail(events)[i - 1]
      BY <2>1, <3>2
    <3> QED
      BY <2>1, <3>2 DEF In
  <2>3. In(Tail(events)) \cup {Head(events)} \subseteq In(events)
    BY <2>1 DEF In
  <2> QED
    BY <2>1, <2>2, <2>3 DEF In
<1>3. In(events) \subseteq Events
  BY DEF In
<1> QED
  BY <1>1, <1>2, <1>3

\* A message at the end of a queue of outputs, and the first one taken off.
LEMMA OutputQueues ==
  /\ OutputQueue(<<>>)
  /\ \A queue : OutputQueue(queue) =>
       /\ \A m : m.tag \in Outputs => OutputQueue(queue \o <<m>>)
       /\ OutputQueue(queue \o <<>>)
       /\ queue # <<>> => Head(queue).tag \in Outputs /\ OutputQueue(Tail(queue))
<1>1. OutputQueue(<<>>)
  <2>1. PICK S : S = {}
    OBVIOUS
  <2> QED
    BY <2>1 DEF OutputQueue
<1>2. ASSUME NEW queue, OutputQueue(queue)
      PROVE  /\ \A m : m.tag \in Outputs => OutputQueue(queue \o <<m>>)
             /\ OutputQueue(queue \o <<>>)
             /\ queue # <<>> => Head(queue).tag \in Outputs /\ OutputQueue(Tail(queue))
  <2>1. PICK S : queue \in Seq(S) /\ \A m \in S : m.tag \in Outputs
    BY <1>2 DEF OutputQueue
  <2>2. ASSUME NEW m, m.tag \in Outputs
        PROVE  OutputQueue(queue \o <<m>>)
    <3>1. queue \o <<m>> \in Seq(S \cup {m})
      BY <2>1
    <3> QED
      BY <2>1, <2>2, <3>1 DEF OutputQueue
  <2>3. queue \o <<>> \in Seq(S)
    BY <2>1
  <2>4. queue # <<>> => Head(queue) \in S /\ Tail(queue) \in Seq(S)
    BY <2>1
  <2> QED
    BY <2>1, <2>2, <2>3, <2>4 DEF OutputQueue
<1> QED
  BY <1>1, <1>2
-----------------------------------------------------------------------------
(* What the operations are made of *)

\* What r has under way, and the events it has for the app.
View(r, export, project, diagnosis, import, events) ==
  /\ Shape(r) /\ r.export = export /\ r.project = project /\ r.diagnosis = diagnosis
  /\ r.import = import /\ r.events = events

\* A file has a number, and not that of None.
LEMMA FileNumber ==
  ASSUME NEW c, Shape(c)
  PROVE  NewFile(c) \in Nat \ {0}
<1> DEFINE ids == {f.id : f \in c.files}
           number == [f \in c.files |-> f.id]
<1>1. number \in Surjection(c.files, ids)
  BY DEF Surjection
<1>2. IsFiniteSet(ids)
  <2> HIDE DEF ids, number
  <2> QED
    BY <1>1, FS_Surjection DEF Shape
<1> QED
  BY <1>2, FreshNumber DEF NewFile

\* Files come and go without anything else.
LEMMA Files ==
  ASSUME NEW c, Shape(c)
  PROVE  /\ \A ids : View(Remove(c, ids), c.export, c.project, c.diagnosis, c.import, c.events)
         /\ \A folder :
              View(Create(c, folder), c.export, c.project, c.diagnosis, c.import, c.events)
<1>1. ASSUME NEW ids
      PROVE  View(Remove(c, ids), c.export, c.project, c.diagnosis, c.import, c.events)
  <2>1. IsFiniteSet({f \in c.files : f.id \notin ids})
    BY FS_Subset DEF Shape
  <2> QED
    BY <2>1 DEF View, Shape, Remove, NewClient
<1>2. ASSUME NEW folder
      PROVE  View(Create(c, folder), c.export, c.project, c.diagnosis, c.import, c.events)
  <2>1. IsFiniteSet(c.files \cup {[id |-> NewFile(c), folder |-> folder]})
    BY FS_AddElement DEF Shape
  <2> QED
    BY <2>1 DEF View, Shape, Create, NewClient
<1> QED
  BY <1>1, <1>2

\* An event and a message change nothing but their queues.
LEMMA Words ==
  ASSUME NEW c, Shape(c)
  PROVE  /\ \A event \in Events :
              View(Emit(c, event), c.export, c.project, c.diagnosis, c.import,
                   Append(c.events, event))
         /\ \A tag, kind, transfer :
              View(Tell(c, tag, kind, transfer), c.export, c.project, c.diagnosis, c.import,
                   c.events)
<1>1. ASSUME NEW event \in Events
      PROVE  View(Emit(c, event), c.export, c.project, c.diagnosis, c.import,
                  Append(c.events, event))
  BY EventQueue DEF View, Shape, Emit, NewClient
<1>2. ASSUME NEW tag, NEW kind, NEW transfer
      PROVE  View(Tell(c, tag, kind, transfer), c.export, c.project, c.diagnosis, c.import,
                  c.events)
  BY DEF View, Shape, Tell, NewClient
<1> QED
  BY <1>1, <1>2

\* What gives up an export, an import or a diagnosis leaves the others alone.
LEMMA GivingUp ==
  ASSUME NEW c, Shape(c)
  PROVE  /\ View(DropExport(c), NoExport, c.project, c.diagnosis, c.import, c.events)
         /\ View(ClearImport(c), c.export, c.project, c.diagnosis, NoImport, c.events)
         /\ View(CancelImport(c), c.export, c.project, c.diagnosis, NoImport, c.events)
         /\ View(Cleanup(c), c.export, c.project, NoDiagnosis, c.import, c.events)
<1>1. View(DropExport(c), NoExport, c.project, c.diagnosis, c.import, c.events)
  <2> DEFINE kept == Remove(c, {c.export.file})
  <2>1. View(kept, c.export, c.project, c.diagnosis, c.import, c.events)
    BY Files
  <2> HIDE DEF kept
  <2>2. View([kept EXCEPT !.export = NoExport], NoExport, c.project, c.diagnosis, c.import,
             c.events)
    BY <2>1 DEF View, Shape, NewClient, NoExport
  <2> QED
    BY <2>2 DEF DropExport, kept
<1>2. View(ClearImport(c), c.export, c.project, c.diagnosis, NoImport, c.events)
  <2> DEFINE kept == Remove(c, {c.import.file})
  <2>1. View(kept, c.export, c.project, c.diagnosis, c.import, c.events)
    BY Files
  <2> HIDE DEF kept
  <2>2. View([kept EXCEPT !.import = NoImport], c.export, c.project, c.diagnosis, NoImport,
             c.events)
    BY <2>1 DEF View, Shape, NewClient, NoImport
  <2> QED
    BY <2>2 DEF ClearImport, kept
<1>3. View(CancelImport(c), c.export, c.project, c.diagnosis, NoImport, c.events)
  <2>1. View(Tell(ClearImport(c), "release", "none", c.import.transfer), c.export, c.project,
             c.diagnosis, NoImport, c.events)
    BY <1>2, Words DEF View
  <2> QED
    BY <1>2, <2>1 DEF CancelImport
<1>4. View(Cleanup(c), c.export, c.project, NoDiagnosis, c.import, c.events)
  <2> DEFINE kept == Remove(c, c.diagnosis.parts)
             folder == IF \E f \in kept.files : f.folder = c.diagnosis.folder /\ c.diagnosis.folder # 0
                       THEN {} ELSE {c.diagnosis.folder}
             gone == Remove(kept, folder)
  <2>1. View(kept, c.export, c.project, c.diagnosis, c.import, c.events)
    BY Files
  <2>2. View(gone, c.export, c.project, c.diagnosis, c.import, c.events)
    <3> HIDE DEF kept, folder
    <3> QED
      BY <2>1, Files DEF View
  <2>3. Cleanup(c) = [gone EXCEPT !.diagnosis = NoDiagnosis]
    BY DEF Cleanup
  <2> HIDE DEF gone
  <2> QED
    BY <2>2, <2>3 DEF View, Shape, NewClient, NoDiagnosis
<1> QED
  BY <1>1, <1>2, <1>3, <1>4

\* A request is sent for an export that has its file.
LEMMA Requests ==
  ASSUME NEW c, Shape(c), NEW stage \in Stages, NEW folder
  PROVE  /\ View(Ask(c), Ask(c).export, c.project, c.diagnosis, c.import, c.events)
         /\ Ask(c).export.stage = c.export.stage
         /\ View(Request(c, stage, folder), Request(c, stage, folder).export, c.project,
                 c.diagnosis, c.import, c.events)
         /\ Request(c, stage, folder).export.stage = stage
<1>1. ASSUME NEW w, Shape(w)
      PROVE  /\ View(Ask(w), Ask(w).export, w.project, w.diagnosis, w.import, w.events)
             /\ Ask(w).export.stage = w.export.stage
  BY <1>1 DEF View, Shape, Ask, NewClient, NoExport
<1> DEFINE made == Create(c, folder)
           export == [NoExport EXCEPT !.stage = stage, !.file = NewFile(c)]
           w == [made EXCEPT !.export = export]
<1>2. View(made, c.export, c.project, c.diagnosis, c.import, c.events)
  BY Files
<1>3. DOMAIN export = DOMAIN NoExport /\ export.stage = stage
  BY DEF NoExport
<1>4. View(w, export, c.project, c.diagnosis, c.import, c.events)
  <2> HIDE DEF made, export
  <2> QED
    BY <1>2, <1>3 DEF View, Shape, NewClient
<1>5. Request(c, stage, folder) = Ask(w)
  BY DEF Request
<1>6. w.export.stage = stage /\ Shape(w)
  <2> HIDE DEF export
  <2> QED
    BY <1>3, <1>4 DEF View
<1> HIDE DEF w
<1>7. /\ View(Ask(w), Ask(w).export, c.project, c.diagnosis, c.import, c.events)
      /\ Ask(w).export.stage = stage
  BY <1>1, <1>4, <1>6 DEF View
<1> QED
  BY <1>1, <1>5, <1>7

\* The stream of a project file is asked for, when there is one.
LEMMA ProjectRequest ==
  ASSUME NEW c, Shape(c), c.project # NoProject
  PROVE  /\ View(RequestProject(c), RequestProject(c).export, c.project, c.diagnosis, c.import,
                 c.events)
         /\ RequestProject(c).export.stage = "project"
<1> DEFINE export == [NoExport EXCEPT !.stage = "project", !.file = c.project.file]
           w == [c EXCEPT !.export = export]
<1>1. DOMAIN export = DOMAIN NoExport /\ export.stage = "project"
  BY DEF NoExport
<1>2. View(w, export, c.project, c.diagnosis, c.import, c.events)
  <2> HIDE DEF export
  <2> QED
    BY <1>1 DEF View, Shape, NewClient, Stages
<1>3. w.export.stage = "project" /\ Shape(w)
  <2> HIDE DEF export
  <2> QED
    BY <1>1, <1>2 DEF View
<1>4. RequestProject(c) = Ask(w)
  BY DEF RequestProject
<1> HIDE DEF w
<1>5. View(Ask(w), Ask(w).export, w.project, w.diagnosis, w.import, w.events)
      /\ Ask(w).export.stage = "project"
  BY <1>3, Requests DEF Stages
<1> QED
  BY <1>2, <1>4, <1>5 DEF View

\* An import begins in the place of the one before.
LEMMA ImportBegun ==
  ASSUME NEW c, Shape(c), NEW purpose \in Purposes
  PROVE  /\ View(BeginImport(c, purpose), c.export, c.project, c.diagnosis,
                 BeginImport(c, purpose).import, c.events)
         /\ BeginImport(c, purpose).import.purpose = purpose
<1> DEFINE staged == IF purpose = "restore" THEN c ELSE StageManifest(c)
           cleared == CancelImport(staged)
           id == NewMessage(cleared)
           import == [NoImport EXCEPT !.purpose = purpose, !.begin = id,
                      !.file = IF purpose = "restore" THEN 0 ELSE NewFile(c)]
<1>1. View(staged, c.export, c.project, c.diagnosis, c.import, c.events)
  BY Files DEF StageManifest, View
<1>2. View(cleared, c.export, c.project, c.diagnosis, NoImport, c.events)
  <2> HIDE DEF staged
  <2> QED
    BY <1>1, GivingUp DEF View
<1>3. DOMAIN import = DOMAIN NoImport /\ import.purpose = purpose
  <2> HIDE DEF cleared, id
  <2> QED
    BY DEF NoImport
<1>4. BeginImport(c, purpose) =
        [cleared EXCEPT !.import = import, !.sent = Append(@, Message("begin", id, "none", 0))]
  BY DEF BeginImport
<1> HIDE DEF cleared, import, id
<1> QED
  BY <1>2, <1>3, <1>4 DEF View, Shape, NewClient

\* The end of a cache, of a project file and of a diagnosis.
LEMMA Endings ==
  ASSUME NEW c, Shape(c), NEW success \in BOOLEAN
  PROVE  /\ View(FinishCache(c), NoExport, c.project, c.diagnosis, c.import, c.events)
         /\ View(FinishProject(c, success), NoExport, NoProject, c.diagnosis,
                 IF success THEN c.import ELSE NoImport, Append(c.events, "project"))
         /\ View(FinishDiagnosis(c, success), NoExport, c.project, NoDiagnosis,
                 IF success THEN c.import ELSE NoImport, Append(c.events, "diagnosis"))
<1> DEFINE imports == IF success THEN c.import ELSE NoImport
<1>1. View(FinishCache(c), NoExport, c.project, c.diagnosis, c.import, c.events)
  <2> DEFINE w == DropExport(c)
  <2>1. View(w, NoExport, c.project, c.diagnosis, c.import, c.events)
    BY GivingUp
  <2> HIDE DEF w
  <2>2. View([w EXCEPT !.cache.prepared = FALSE], NoExport, c.project, c.diagnosis, c.import,
             c.events)
    BY <2>1 DEF View, Shape, NewClient, NoCache
  <2> QED
    BY <2>2 DEF FinishCache, w
<1>2. View(FinishProject(c, success), NoExport, NoProject, c.diagnosis, imports,
           Append(c.events, "project"))
  <2> DEFINE settled == IF success THEN c ELSE Remove(CancelImport(c), {c.project.file})
             dropped == DropExport(settled)
             w == [dropped EXCEPT !.project = NoProject]
  <2>1. View(settled, c.export, c.project, c.diagnosis, imports, c.events)
    <3>1. View(CancelImport(c), c.export, c.project, c.diagnosis, NoImport, c.events)
      BY GivingUp
    <3>2. View(Remove(CancelImport(c), {c.project.file}), c.export, c.project, c.diagnosis,
               NoImport, c.events)
      BY <3>1, Files DEF View
    <3> QED
      BY <3>2 DEF View
  <2>2. View(dropped, NoExport, c.project, c.diagnosis, imports, c.events)
    <3> HIDE DEF settled, imports
    <3> QED
      BY <2>1, GivingUp DEF View
  <2>3. View(w, NoExport, NoProject, c.diagnosis, imports, c.events)
    <3> HIDE DEF dropped, imports
    <3> QED
      BY <2>2 DEF View, Shape, NewClient, NoProject
  <2>4. FinishProject(c, success) = Emit(w, "project")
    BY DEF FinishProject
  <2> HIDE DEF w, imports
  <2> QED
    BY <2>3, <2>4, Words DEF View, Events, UserJobs
<1>3. View(FinishDiagnosis(c, success), NoExport, c.project, NoDiagnosis, imports,
           Append(c.events, "diagnosis"))
  <2> DEFINE cancelled == CancelImport(c)
             told == IF c.export.transfer # 0
                     THEN Tell(cancelled, "release", "none", c.export.transfer)
                     ELSE IF c.export.stage \in DiagnosisStages
                          THEN Tell(cancelled, "cancel", Kind(c.export.stage), 0)
                          ELSE cancelled
             settled == IF success THEN c ELSE told
             w == Cleanup(DropExport(settled))
  <2>1. View(cancelled, c.export, c.project, c.diagnosis, NoImport, c.events)
    BY GivingUp
  <2>2. View(told, c.export, c.project, c.diagnosis, NoImport, c.events)
    <3> HIDE DEF cancelled
    <3> QED
      BY <2>1, Words DEF View
  <2>3. View(settled, c.export, c.project, c.diagnosis, imports, c.events)
    <3> HIDE DEF told
    <3> QED
      BY <2>2 DEF View
  <2>4. View(w, NoExport, c.project, NoDiagnosis, imports, c.events)
    <3> HIDE DEF settled, imports
    <3>1. View(DropExport(settled), NoExport, c.project, c.diagnosis, imports, c.events)
      BY <2>3, GivingUp DEF View
    <3> QED
      BY <3>1, GivingUp DEF View
  <2>5. FinishDiagnosis(c, success) = Emit(w, "diagnosis")
    BY DEF FinishDiagnosis
  <2> HIDE DEF w, imports
  <2> QED
    BY <2>4, <2>5, Words DEF View, Events, UserJobs
<1> QED
  BY <1>1, <1>2, <1>3

\* A postponed cache, and a raised exception.
LEMMA Aside ==
  ASSUME NEW c, Shape(c)
  PROVE  /\ View(Reschedule(c), c.export, c.project, c.diagnosis, c.import, c.events)
         /\ Raise(c).failed = TRUE
BY DEF View, Shape, Reschedule, Raise, NewClient, NoCache

\* A game that is replaced takes everything with it, and the app is told.
LEMMA Left ==
  ASSUME NEW c, Shape(c), NEW r \in {Transition(c), ResetSession(c)}
  PROVE  /\ View(r, NoExport, NoProject, NoDiagnosis, NoImport, r.events)
         /\ In(c.events) \cup {"reset"} \subseteq In(r.events)
         /\ "stopped" \in In(r.events) => "stopped" \in In(c.events)
<1>1. ASSUME NEW w, Shape(w)
      PROVE  /\ View(Cleanup(RetiredFiles(w)), NoExport, w.project, NoDiagnosis, NoImport,
                     w.events)
  <2> DEFINE dropped == DropExport(w)
             cleared == ClearImport(dropped)
             kept == Remove(cleared, {w.project.file})
  <2>1. View(dropped, NoExport, w.project, w.diagnosis, w.import, w.events)
    BY <1>1, GivingUp
  <2>2. View(cleared, NoExport, w.project, w.diagnosis, NoImport, w.events)
    <3> HIDE DEF dropped
    <3> QED
      BY <2>1, GivingUp DEF View
  <2>3. View(kept, NoExport, w.project, w.diagnosis, NoImport, w.events)
    <3> HIDE DEF cleared
    <3> QED
      BY <2>2, Files DEF View
  <2>4. View(Cleanup(kept), NoExport, w.project, NoDiagnosis, NoImport, w.events)
    <3> HIDE DEF kept
    <3> QED
      BY <2>3, GivingUp DEF View
  <2> QED
    BY <2>4 DEF RetiredFiles
<1>2. CASE r = Transition(c)
  <2> DEFINE told == Tell(c, "transition", "none", 0)
             cleaned == Cleanup(RetiredFiles(told))
             rescheduled == IF told.export.stage = "cache" THEN Reschedule(cleaned) ELSE cleaned
             ended == EndedBy(told)
             retired == [rescheduled EXCEPT !.project = NoProject, !.cache.prepared = FALSE,
                                            !.events = @ \o ended]
  <2>1. View(told, c.export, c.project, c.diagnosis, c.import, c.events)
    BY Words
  <2>2. View(cleaned, NoExport, c.project, NoDiagnosis, NoImport, c.events)
    <3> HIDE DEF told
    <3> QED
      BY <1>1, <2>1 DEF View
  <2>3. View(rescheduled, NoExport, c.project, NoDiagnosis, NoImport, c.events)
    <3> HIDE DEF cleaned
    <3> QED
      BY <2>2, Aside DEF View
  <2>4. \/ ended = <<>>
        \/ \E event \in UserJobs : ended = <<event>>
    <3> HIDE DEF told
    <3> QED
      BY DEF EndedBy, UserJobs, Manual
  <2>5. /\ c.events \o ended \in Seq(Events)
        /\ In(c.events) \subseteq In(c.events \o ended)
        /\ In(c.events \o ended) \subseteq In(c.events) \cup UserJobs
    <3> HIDE DEF ended
    <3>1. c.events \in Seq(Events)
      BY DEF Shape
    <3>2. CASE ended = <<>>
      BY <3>1, <3>2
    <3>3. ASSUME NEW event \in UserJobs, ended = <<event>>
          PROVE  /\ c.events \o ended \in Seq(Events)
                 /\ In(c.events) \subseteq In(c.events \o ended)
                 /\ In(c.events \o ended) \subseteq In(c.events) \cup UserJobs
      <4>1. c.events \o ended = Append(c.events, event) /\ event \in Events
        BY <3>1, <3>3 DEF Events
      <4> QED
        BY <3>1, <4>1, EventQueue
    <3> QED
      BY <2>4, <3>2, <3>3
  <2>6. View(retired, NoExport, NoProject, NoDiagnosis, NoImport, c.events \o ended)
    <3> HIDE DEF rescheduled, ended
    <3> QED
      BY <2>3, <2>5 DEF View, Shape, NewClient, NoCache, NoProject
  <2>7. r = Emit(retired, "reset")
    BY <1>2 DEF Transition, Retire
  <2>8. "reset" \in Events /\ "stopped" \notin UserJobs
    BY DEF Events, UserJobs
  <2> HIDE DEF retired, ended
  <2>9. View(r, NoExport, NoProject, NoDiagnosis, NoImport, Append(c.events \o ended, "reset"))
    <3>1. /\ Shape(retired) /\ retired.export = NoExport /\ retired.project = NoProject
          /\ retired.diagnosis = NoDiagnosis /\ retired.import = NoImport
          /\ retired.events = c.events \o ended
      BY <2>6 DEF View
    <3>2. View(Emit(retired, "reset"), retired.export, retired.project, retired.diagnosis,
               retired.import, Append(retired.events, "reset"))
      BY <2>8, <3>1, Words
    <3> QED
      BY <2>7, <3>1, <3>2
  <2>10. r.events = Append(c.events \o ended, "reset")
    BY <2>9 DEF View
  <2>11. In(r.events) = In(c.events \o ended) \cup {"reset"}
    BY <2>5, <2>8, <2>10, EventQueue
  <2>12. View(r, NoExport, NoProject, NoDiagnosis, NoImport, r.events)
    BY <2>9 DEF View
  <2> QED
    BY <2>5, <2>8, <2>11, <2>12
<1>3. CASE r = ResetSession(c)
  <2> DEFINE files == Cleanup(RetiredFiles(c)).files
             events == Append(c.events, "reset")
  <2>1. IsFiniteSet(files)
    BY <1>1 DEF View, Shape
  <2>2. events \in Seq(Events) /\ In(events) = In(c.events) \cup {"reset"}
    BY EventQueue DEF Shape, Events
  <2>3. r = [NewClient EXCEPT !.events = events, !.files = files]
    BY <1>3 DEF ResetSession
  <2>4. View(r, NoExport, NoProject, NoDiagnosis, NoImport, events)
    <3> HIDE DEF files, events
    <3> QED
      BY <2>1, <2>2, <2>3, OutputQueues
      DEF View, Shape, NewClient, NoExport, NoProject, NoDiagnosis, NoImport, NoCache
  <2> QED
    BY <2>2, <2>4 DEF View
<1> QED
  BY <1>2, <1>3

\* The next part of a diagnosis: its export, or the import of the project before.
LEMMA Parts ==
  ASSUME NEW c, Shape(c), NEW disk
  PROVE  /\ \A stage \in {"replay", "snapshot"} :
              LET r == StartPart(c, stage, disk)
              IN  \/ r.failed = TRUE
                  \/ /\ View(r, r.export, c.project, r.diagnosis, c.import, c.events)
                     /\ r.export.stage = Part(stage) /\ r.diagnosis.stage = stage
         /\ LET r == RequestDiagnosisProject(c, disk)
            IN  \/ r.failed = TRUE \/ (c.diagnosis = NoDiagnosis /\ r = c)
                \/ /\ View(r, r.export, c.project, c.diagnosis, c.import, c.events)
                   /\ c.diagnosis # NoDiagnosis /\ r.export.stage = "diagnosis_project"
<1>1. ASSUME NEW stage \in {"replay", "snapshot"}, NEW r, r = StartPart(c, stage, disk)
      PROVE  \/ r.failed = TRUE
             \/ /\ View(r, r.export, c.project, r.diagnosis, c.import, c.events)
                /\ r.export.stage = Part(stage) /\ r.diagnosis.stage = stage
  <2> DEFINE diagnosis == [c.diagnosis EXCEPT !.stage = stage]
             staged == [c EXCEPT !.diagnosis = diagnosis]
  <2>1. View(staged, c.export, c.project, diagnosis, c.import, c.events)
    BY DEF View, Shape, NewClient
  <2>2. diagnosis.stage = stage
    BY DEF Shape, NoDiagnosis
  <2>3. Part(stage) \in Stages
    BY DEF Part, Stages, DiagnosisStages
  <2>4. \/ r = Raise(staged)
        \/ r = Request(staged, Part(stage), c.diagnosis.folder)
    BY <1>1 DEF StartPart
  <2> HIDE DEF staged, diagnosis
  <2>5. CASE r = Raise(staged)
    <3>1. Shape(staged)
      BY <2>1 DEF View
    <3> QED
      BY <2>5, <3>1, Aside
  <2>6. CASE r = Request(staged, Part(stage), c.diagnosis.folder)
    <3>1. /\ View(r, r.export, staged.project, staged.diagnosis, staged.import, staged.events)
          /\ r.export.stage = Part(stage)
      BY <2>1, <2>3, <2>6, Requests DEF View
    <3> QED
      BY <2>1, <2>2, <3>1 DEF View
  <2> QED
    BY <2>4, <2>5, <2>6
<1>2. ASSUME NEW r, r = RequestDiagnosisProject(c, disk)
      PROVE  \/ r.failed = TRUE \/ (c.diagnosis = NoDiagnosis /\ r = c)
             \/ /\ View(r, r.export, c.project, c.diagnosis, c.import, c.events)
                /\ c.diagnosis # NoDiagnosis /\ r.export.stage = "diagnosis_project"
  <2>1. \/ c.diagnosis = NoDiagnosis /\ r = c
        \/ r = Raise(c)
        \/ c.diagnosis # NoDiagnosis /\ r = Request(c, "diagnosis_project", c.diagnosis.folder)
    BY <1>2 DEF RequestDiagnosisProject
  <2>2. "diagnosis_project" \in Stages
    BY DEF Stages, DiagnosisStages
  <2>3. CASE r = Raise(c)
    BY <2>3, Aside
  <2>4. CASE c.diagnosis # NoDiagnosis /\ r = Request(c, "diagnosis_project", c.diagnosis.folder)
    BY <2>2, <2>4, Requests
  <2> QED
    BY <2>1, <2>3, <2>4
<1> QED
  BY <1>1, <1>2
-----------------------------------------------------------------------------
(* The kinds of steps *)

\* What an event adds to those on their way.
LEMMA OneMore ==
  ASSUME NEW c, Shape(c), NEW event \in UserJobs
  PROVE  In(Append(c.events, event)) = In(c.events) \cup {event}
BY EventQueue DEF Shape, Events

\* No job is concerned: an export that is no job, or an import, may go.
LEMMA Aloof ==
  ASSUME NEW c, Coherent(c), NEW r, NEW begun,
         View(r, r.export, c.project, c.diagnosis, r.import, c.events),
         \/ r.export.stage = c.export.stage /\ (r.export.stage = "none" => r.export = NoExport)
         \/ r.export = NoExport /\ c.export.stage \notin Manual,
         r.import \in {c.import, NoImport}, begun \cap UserJobs = {}
  PROVE  Steps(c, r, begun)
<1>1. Coherent(r)
  BY DEF Coherent, View, Shape, NoneIsNone, Serves, ManualAlone, NoExport, NoImport, Manual
<1>2. \A job \in UserJobs : Runs(r, job) <=> Runs(c, job)
  BY DEF View, Runs, NoExport, UserJobs, Manual
<1>3. r.events = c.events /\ (r.import.purpose = "restore" => c.import.purpose = "restore")
  BY DEF View, NoImport
<1> QED
  BY <1>1, <1>2, <1>3 DEF Steps, Ending

\* A job of the client ends, with its export and its import, and the app is told.
LEMMA Ends ==
  ASSUME NEW c, Coherent(c), NEW r, NEW job \in UserJobs, NEW begun,
         View(r, NoExport, r.project, r.diagnosis, r.import, Append(c.events, job)),
         IF job = "project" THEN r.project = NoProject ELSE r.project = c.project,
         IF job = "diagnosis" THEN r.diagnosis = NoDiagnosis ELSE r.diagnosis = c.diagnosis,
         \/ r.import = NoImport
         \/ r.import = c.import /\ c.import.purpose # job,
         c.export.stage \notin Manual \ {job}, begun \cap UserJobs \subseteq {job},
         Runs(c, job) \/ job \in begun \/ Ending(c, job)
  PROVE  Steps(c, r, begun)
<1>1. Coherent(r)
  BY DEF Coherent, View, Shape, NoneIsNone, Serves, ManualAlone, NoExport, NoImport, NoProject,
         NoDiagnosis, Manual
<1>2. /\ ~Runs(r, job)
      /\ \A other \in UserJobs \ {job} : Runs(r, other) <=> Runs(c, other)
  BY DEF View, Runs, NoExport, UserJobs, Manual
<1>3. r.import.purpose = "restore" => c.import.purpose = "restore"
  BY DEF View, NoImport
<1>4. In(r.events) = In(c.events) \cup {job} /\ "stopped" # job /\ "reset" # job
  <2>1. Shape(c) /\ r.events = Append(c.events, job)
    BY DEF Coherent, View
  <2> QED
    BY <2>1, OneMore DEF UserJobs
<1> QED
  BY <1>1, <1>2, <1>3, <1>4 DEF Steps, Ending

\* A cache export ends; no job of the user does.
LEMMA CacheEnds ==
  ASSUME NEW c, Coherent(c), NEW w,
         View(w, NoExport, c.project, c.diagnosis, c.import, c.events),
         c.export.stage \notin Manual
  PROVE  Steps(c, FinishCache(w), {})
<1>1. Shape(w)
  BY DEF View
<1>2. View(FinishCache(w), NoExport, w.project, w.diagnosis, w.import, w.events)
  BY <1>1, Endings
<1> DEFINE r == FinishCache(w)
<1> HIDE DEF r
<1>3. View(r, r.export, c.project, c.diagnosis, r.import, c.events) /\ r.export = NoExport
      /\ r.import = c.import
  BY <1>2 DEF View, r
<1>4. Steps(c, r, {})
  BY <1>3, Aloof
<1> QED
  BY <1>4 DEF r

\* A project file is given up.
LEMMA ProjectEnds ==
  ASSUME NEW c, Coherent(c), NEW w,
         View(w, w.export, w.project, c.diagnosis, w.import, c.events),
         c.export.stage \notin Manual, NEW begun, begun \cap UserJobs \subseteq {"project"},
         c.project # NoProject \/ "project" \in begun \/ Ending(c, "project")
  PROVE  Steps(c, FinishProject(w, FALSE), begun)
<1>1. Shape(w)
  BY DEF View
<1>2. View(FinishProject(w, FALSE), NoExport, NoProject, w.diagnosis,
           IF FALSE THEN w.import ELSE NoImport, Append(w.events, "project"))
  BY <1>1, Endings
<1> DEFINE r == FinishProject(w, FALSE)
<1> HIDE DEF r
<1>3. /\ View(r, NoExport, r.project, r.diagnosis, r.import, Append(c.events, "project"))
      /\ r.project = NoProject /\ r.diagnosis = c.diagnosis /\ r.import = NoImport
  BY <1>2 DEF View, r
<1>4. /\ "project" \in UserJobs /\ c.export.stage \notin Manual \ {"project"}
      /\ Runs(c, "project") \/ "project" \in begun \/ Ending(c, "project")
  BY DEF UserJobs, Runs, Manual
<1>5. Steps(c, r, begun)
  BY <1>3, <1>4, Ends
<1> QED
  BY <1>5 DEF r

\* A diagnosis is given up.
LEMMA DiagnosisEnds ==
  ASSUME NEW c, Coherent(c), NEW w,
         View(w, w.export, c.project, w.diagnosis, w.import, c.events),
         c.export.stage \notin Manual, NEW begun, begun \cap UserJobs \subseteq {"diagnosis"},
         c.diagnosis # NoDiagnosis \/ "diagnosis" \in begun \/ Ending(c, "diagnosis")
  PROVE  Steps(c, FinishDiagnosis(w, FALSE), begun)
<1>1. Shape(w)
  BY DEF View
<1>2. View(FinishDiagnosis(w, FALSE), NoExport, w.project, NoDiagnosis,
           IF FALSE THEN w.import ELSE NoImport, Append(w.events, "diagnosis"))
  BY <1>1, Endings
<1> DEFINE r == FinishDiagnosis(w, FALSE)
<1> HIDE DEF r
<1>3. /\ View(r, NoExport, r.project, r.diagnosis, r.import, Append(c.events, "diagnosis"))
      /\ r.project = c.project /\ r.diagnosis = NoDiagnosis /\ r.import = NoImport
  BY <1>2 DEF View, r
<1>4. /\ "diagnosis" \in UserJobs /\ c.export.stage \notin Manual \ {"diagnosis"}
      /\ Runs(c, "diagnosis") \/ "diagnosis" \in begun \/ Ending(c, "diagnosis")
  BY DEF UserJobs, Runs, Manual
<1>5. Steps(c, r, begun)
  BY <1>3, <1>4, Ends
<1> QED
  BY <1>5 DEF r

\* The app is told of the end of a snapshot or a replay.
LEMMA ManualEnds ==
  ASSUME NEW c, Coherent(c), NEW w, NEW job \in Manual, NEW begun,
         View(w, w.export, c.project, c.diagnosis, c.import, c.events), w.export = NoExport,
         c.export.stage \notin Manual \ {job}, begun \cap UserJobs \subseteq {job},
         c.export.stage = job \/ job \in begun
  PROVE  Steps(c, Emit(w, job), begun)
<1>1. job \in UserJobs \ {"project", "diagnosis"} /\ job \in Events
  BY DEF Manual, UserJobs, Events
<1>2. View(Emit(w, job), w.export, w.project, w.diagnosis, w.import, Append(w.events, job))
  BY <1>1, Words DEF View
<1> DEFINE r == Emit(w, job)
<1> HIDE DEF r
<1>3. /\ View(r, NoExport, r.project, r.diagnosis, r.import, Append(c.events, job))
      /\ r.project = c.project /\ r.diagnosis = c.diagnosis /\ r.import = c.import
  BY <1>2 DEF View, r
<1>4. c.import.purpose # job /\ (Runs(c, job) \/ job \in begun)
  BY DEF Coherent, Shape, Purposes, Manual, Runs
<1>5. Steps(c, r, begun)
  BY <1>1, <1>3, <1>4, Ends
<1> QED
  BY <1>5 DEF r

\* The export or the import of a job that goes on.
LEMMA GoesOn ==
  ASSUME NEW c, Coherent(c), NEW r, Coherent(r), NEW begun,
         r.events = c.events, c.export.stage \notin Manual, r.export.stage \notin Manual,
         r.project # NoProject <=> c.project # NoProject,
         r.diagnosis # NoDiagnosis <=> c.diagnosis # NoDiagnosis,
         r.import.purpose = "restore" => c.import.purpose = "restore",
         begun \cap UserJobs = {}
  PROVE  Steps(c, r, begun)
<1>1. \A job \in UserJobs : Runs(r, job) <=> Runs(c, job)
  BY DEF Runs, UserJobs, Manual
<1> QED
  BY <1>1 DEF Steps, Ending

\* The game is replaced: every job ends at once.
LEMMA Leaves ==
  ASSUME NEW c, Coherent(c), NEW w, Shape(w), w.events = c.events,
         NEW r \in {Transition(w), ResetSession(w)}, NEW begun, begun \cap UserJobs = {},
         c.import.purpose = "restore" \/ "title" \in begun \/ "restart" \in begun
  PROVE  Steps(c, r, begun) /\ \A job \in UserJobs : ~Runs(r, job)
<1>1. /\ View(r, NoExport, NoProject, NoDiagnosis, NoImport, r.events)
      /\ In(c.events) \cup {"reset"} \subseteq In(r.events)
      /\ "stopped" \in In(r.events) => "stopped" \in In(c.events)
  BY Left
<1>2. Coherent(r)
  BY <1>1 DEF Coherent, View, Shape, NoneIsNone, Serves, ManualAlone, NoExport, NoImport,
              NoProject, NoDiagnosis, Manual
<1>3. /\ \A job \in UserJobs : ~Runs(r, job)
      /\ r.import.purpose # "restore"
  BY <1>1 DEF View, Runs, NoExport, NoImport, UserJobs, Manual
<1> QED
  BY <1>1, <1>2, <1>3 DEF Steps, Ending

\* Steps sees of a client its jobs, its import and its events.
LEMMA Rebased ==
  ASSUME NEW c, NEW v, NEW r, NEW begun, Steps(v, r, begun),
         v.events = c.events, v.export.stage = c.export.stage, v.project = c.project,
         v.diagnosis = c.diagnosis, v.import.purpose = c.import.purpose
  PROVE  Steps(c, r, begun)
BY DEF Steps, Runs, Ending

\* A step that begins nothing, after one that may.
LEMMA Composed ==
  ASSUME NEW c, NEW v, NEW r, NEW begun, Steps(c, v, begun), Steps(v, r, {}),
         "restore" \notin begun
  PROVE  Steps(c, r, begun)
<1>1. \A job \in UserJobs : Runs(r, job) => Runs(v, job) /\ (Ending(r, job) => Ending(v, job))
  BY DEF Steps
<1>2. \A job \in UserJobs : Runs(v, job) => Runs(r, job) \/ Ending(r, job)
  BY DEF Steps
<1>3. \A job \in UserJobs : Ending(v, job) => Ending(r, job)
  BY DEF Steps, Ending
<1>4. \A job \in UserJobs :
        Ending(r, job) => Ending(v, job) \/ Runs(v, job) \/ v.import.purpose = "restore"
  BY DEF Steps
<1> QED
  BY <1>1, <1>2, <1>3, <1>4 DEF Steps

\* Nothing happens.
LEMMA Idles ==
  ASSUME NEW c, Coherent(c)
  PROVE  Steps(c, c, {})
BY DEF Steps

-----------------------------------------------------------------------------
(* Outputs of the runtime *)

\* The export of a part belongs to a diagnosis.
LEMMA DiagnosisHeld ==
  ASSUME NEW c, Coherent(c), c.export.stage \in DiagnosisStages
  PROVE  c.diagnosis # NoDiagnosis
BY DEF Coherent, Serves, DiagnosisStages, NoDiagnosis

\* An export that produced nothing ends, and its job with it.
LEMMA FailSteps ==
  ASSUME NEW c, Coherent(c), c.export # NoExport
  PROVE  Steps(c, Fail(c), {})
<1> DEFINE w == DropExport(c)
<1>1. View(w, NoExport, c.project, c.diagnosis, c.import, c.events)
  BY GivingUp DEF Coherent
<1>2. c.export.stage \in Stages
  BY DEF Coherent, Shape, NoneIsNone
<1>3. Fail(c) = CASE c.export.stage = "cache" -> FinishCache(w)
                  [] c.export.stage = "project" -> FinishProject(w, FALSE)
                  [] c.export.stage \in DiagnosisStages -> FinishDiagnosis(w, FALSE)
                  [] c.export.stage \in Manual -> Emit(w, c.export.stage)
  BY DEF Fail
<1> HIDE DEF w
<1>4. CASE c.export.stage = "cache"
  <2>1. Fail(c) = FinishCache(w)
    BY <1>3, <1>4 DEF DiagnosisStages, Manual
  <2> QED
    BY <1>1, <1>4, <2>1, CacheEnds DEF Manual
<1>5. CASE c.export.stage = "project"
  <2>1. Fail(c) = FinishProject(w, FALSE)
    BY <1>3, <1>5 DEF DiagnosisStages, Manual
  <2>2. View(w, w.export, w.project, c.diagnosis, w.import, c.events)
    BY <1>1 DEF View
  <2> QED
    BY <1>5, <2>1, <2>2, ProjectEnds DEF Manual, Coherent, Serves
<1>6. CASE c.export.stage \in DiagnosisStages
  <2>1. Fail(c) = FinishDiagnosis(w, FALSE)
    BY <1>3, <1>6 DEF DiagnosisStages, Manual
  <2>2. View(w, w.export, c.project, w.diagnosis, w.import, c.events)
    BY <1>1 DEF View
  <2> QED
    BY <1>6, <2>1, <2>2, DiagnosisHeld, DiagnosisEnds DEF Manual, DiagnosisStages
<1>7. CASE c.export.stage \in Manual
  <2>1. Fail(c) = Emit(w, c.export.stage)
    BY <1>3, <1>7 DEF DiagnosisStages, Manual
  <2>2. View(w, w.export, c.project, c.diagnosis, c.import, c.events) /\ w.export = NoExport
    BY <1>1 DEF View
  <2> QED
    BY <1>7, <2>1, <2>2, ManualEnds
<1> QED
  BY <1>2, <1>4, <1>5, <1>6, <1>7 DEF Stages

\* The project of a diagnosis: its stream, or the import of a directory.
LEMMA DiagnosisProjectSteps ==
  ASSUME NEW c, Coherent(c), c.export.stage = "diagnosis_snapshot", NEW w, NEW disk,
         View(w, NoExport, c.project, w.diagnosis, c.import, c.events)
  PROVE  LET r == StartDiagnosisProject(w, disk) IN r.failed = TRUE \/ Steps(c, r, {})
<1> DEFINE diagnosis == [w.diagnosis EXCEPT !.stage = "project"]
           staged == [w EXCEPT !.diagnosis = diagnosis]
           r == StartDiagnosisProject(w, disk)
<1>1. diagnosis.stage = "project" /\ diagnosis # NoDiagnosis
  BY DEF View, Shape, NoDiagnosis
<1>2. View(staged, NoExport, c.project, diagnosis, c.import, c.events)
  BY DEF View, Shape, NewClient
<1>3. \/ r = FinishDiagnosis(staged, FALSE)
      \/ r = RequestDiagnosisProject(staged, disk)
      \/ r = BeginImport(staged, "diagnosis")
  BY DEF StartDiagnosisProject
<1> HIDE DEF staged, diagnosis, r
<1>4. Shape(staged) /\ staged.diagnosis = diagnosis /\ staged.events = c.events
      /\ staged.project = c.project /\ staged.import = c.import /\ staged.export = NoExport
  BY <1>2 DEF View
<1>5. c.export.stage \notin Manual /\ c.import.purpose # "diagnosis" /\ c.diagnosis # NoDiagnosis
  BY DEF Coherent, Serves, Manual, NoDiagnosis
<1>6. CASE r = FinishDiagnosis(staged, FALSE)
  <2>1. View(staged, staged.export, c.project, staged.diagnosis, staged.import, c.events)
    BY <1>2, <1>4 DEF View
  <2>2. Steps(c, FinishDiagnosis(staged, FALSE), {})
    BY <1>5, <2>1, DiagnosisEnds
  <2> QED
    BY <1>6, <2>2 DEF r
<1>7. CASE r = RequestDiagnosisProject(staged, disk)
  <2>1. \/ r.failed = TRUE \/ (staged.diagnosis = NoDiagnosis /\ r = staged)
        \/ /\ View(r, r.export, staged.project, staged.diagnosis, staged.import, staged.events)
           /\ staged.diagnosis # NoDiagnosis /\ r.export.stage = "diagnosis_project"
    BY <1>4, <1>7, Parts
  <2>2. ASSUME r.failed # TRUE
        PROVE  /\ View(r, r.export, c.project, diagnosis, c.import, c.events)
               /\ r.export.stage = "diagnosis_project"
    BY <1>1, <1>4, <2>1, <2>2
  <2>3. ASSUME r.failed # TRUE
        PROVE  Coherent(r)
    BY <1>1, <1>5, <2>2, <2>3
    DEF Coherent, View, NoneIsNone, Serves, ManualAlone, Manual
  <2>4. ASSUME r.failed # TRUE
        PROVE  Steps(c, r, {})
    BY <1>1, <1>5, <2>2, <2>3, <2>4, GoesOn DEF View, Manual
  <2> QED
    BY <2>4 DEF r
<1>8. CASE r = BeginImport(staged, "diagnosis")
  <2>1. View(r, staged.export, staged.project, staged.diagnosis, r.import, staged.events)
        /\ r.import.purpose = "diagnosis"
    BY <1>4, <1>8, ImportBegun DEF Purposes
  <2>2. Coherent(r)
    BY <1>1, <1>4, <1>5, <2>1
    DEF Coherent, View, NoneIsNone, Serves, ManualAlone, Manual, NoExport
  <2>3. Steps(c, r, {})
    BY <1>1, <1>4, <1>5, <2>1, <2>2, GoesOn DEF View, Manual, NoExport
  <2> QED
    BY <2>3 DEF r
<1> QED
  BY <1>3, <1>6, <1>7, <1>8 DEF r

\* The last chunk of an export ends its job, or takes a diagnosis a part further.
LEMMA CompleteSteps ==
  ASSUME NEW c, Coherent(c), c.export # NoExport, NEW disk
  PROVE  LET r == Complete(c, disk) IN r.failed = TRUE \/ Steps(c, r, {})
<1> DEFINE kept == Remove(c, {c.export.file})
           done == [kept EXCEPT !.export = NoExport]
           part == [c EXCEPT !.export = NoExport,
                             !.diagnosis.parts = c.diagnosis.parts \cup {c.export.file}]
           stage == c.export.stage
           r == Complete(c, disk)
<1>1. View(done, NoExport, c.project, c.diagnosis, c.import, c.events)
  <2>1. View(kept, c.export, c.project, c.diagnosis, c.import, c.events)
    BY Files DEF Coherent
  <2> HIDE DEF kept
  <2> QED
    BY <2>1 DEF View, Shape, NewClient, NoExport
<1>2. /\ View(part, NoExport, c.project, part.diagnosis, c.import, c.events)
      /\ part.diagnosis.stage = c.diagnosis.stage
  BY DEF Coherent, View, Shape, NewClient, NoExport, NoDiagnosis
<1>3. stage \in Stages
  BY DEF Coherent, Shape, NoneIsNone
<1>4. r = CASE stage = "cache" -> FinishCache(done)
            [] stage = "project" ->
                 IF c.project = NoProject THEN Raise(done) ELSE FinishProject(done, TRUE)
            [] stage \in Manual -> Emit(done, stage)
            [] stage = "diagnosis_replay" -> StartPart(part, "snapshot", disk)
            [] stage = "diagnosis_snapshot" -> StartDiagnosisProject(part, disk)
            [] stage = "diagnosis_project" -> FinishDiagnosis(part, Archived(disk))
  BY DEF Complete
<1> HIDE DEF done, part, r
<1>5. Shape(done) /\ Shape(part)
  BY <1>1, <1>2 DEF View
<1>6. CASE stage = "cache"
  <2>1. r = FinishCache(done)
    BY <1>4, <1>6 DEF Manual
  <2> QED
    BY <1>1, <1>6, <2>1, CacheEnds DEF Manual, r
<1>7. CASE stage = "project"
  <2>1. r = FinishProject(done, TRUE)
    BY <1>4, <1>7 DEF Manual, Coherent, Serves
  <2>2. View(r, NoExport, NoProject, done.diagnosis, IF TRUE THEN done.import ELSE NoImport,
             Append(done.events, "project"))
    BY <1>5, <2>1, Endings
  <2>3. /\ View(r, NoExport, r.project, r.diagnosis, r.import, Append(c.events, "project"))
        /\ r.project = NoProject /\ r.diagnosis = c.diagnosis /\ r.import = c.import
    BY <1>1, <2>2 DEF View
  <2>4. c.import.purpose # "project" /\ stage \notin Manual /\ Runs(c, "project")
    BY <1>7 DEF Coherent, Serves, Manual, Runs
  <2>5. Steps(c, r, {})
    BY <2>3, <2>4, Ends DEF UserJobs
  <2> QED
    BY <2>5 DEF r
<1>8. CASE stage \in Manual
  <2>1. r = Emit(done, stage)
    BY <1>4, <1>8 DEF Manual
  <2>2. View(done, done.export, c.project, c.diagnosis, c.import, c.events)
        /\ done.export = NoExport
    BY <1>1 DEF View
  <2>3. Steps(c, Emit(done, stage), {})
    BY <1>8, <2>2, ManualEnds
  <2> QED
    BY <2>1, <2>3 DEF r
<1>9. CASE stage = "diagnosis_replay"
  <2>1. r = StartPart(part, "snapshot", disk)
    BY <1>4, <1>9 DEF Manual
  <2>2. \/ r.failed = TRUE
        \/ /\ View(r, r.export, part.project, r.diagnosis, part.import, part.events)
           /\ r.export.stage = Part("snapshot") /\ r.diagnosis.stage = "snapshot"
    BY <1>5, <2>1, Parts
  <2>3. ASSUME r.failed # TRUE
        PROVE  /\ View(r, r.export, c.project, r.diagnosis, c.import, c.events)
               /\ r.export.stage = "diagnosis_snapshot" /\ r.diagnosis.stage = "snapshot"
    BY <1>2, <2>2, <2>3 DEF View, Part
  <2>4. /\ stage \notin Manual /\ c.import.purpose # "diagnosis" /\ c.diagnosis # NoDiagnosis
    BY <1>9 DEF Coherent, Serves, Manual, NoDiagnosis
  <2>5. ASSUME r.failed # TRUE
        PROVE  Coherent(r)
    BY <2>3, <2>4, <2>5
    DEF Coherent, View, NoneIsNone, Serves, ManualAlone, Manual, NoDiagnosis
  <2>6. ASSUME r.failed # TRUE
        PROVE  Steps(c, r, {})
    BY <2>3, <2>4, <2>5, <2>6, GoesOn DEF View, Manual, NoDiagnosis
  <2> QED
    BY <2>6 DEF r
<1>10. CASE stage = "diagnosis_snapshot"
  <2>1. r = StartDiagnosisProject(part, disk)
    BY <1>4, <1>10 DEF Manual
  <2> QED
    BY <1>2, <1>10, <2>1, DiagnosisProjectSteps DEF r
<1>11. CASE stage = "diagnosis_project"
  <2>1. r = FinishDiagnosis(part, Archived(disk)) /\ Archived(disk) \in BOOLEAN
    BY <1>4, <1>11 DEF Manual, Archived
  <2>2. View(r, NoExport, part.project, NoDiagnosis,
             IF Archived(disk) THEN part.import ELSE NoImport, Append(part.events, "diagnosis"))
    BY <1>5, <2>1, Endings
  <2>3. /\ View(r, NoExport, r.project, r.diagnosis, r.import, Append(c.events, "diagnosis"))
        /\ r.project = c.project /\ r.diagnosis = NoDiagnosis /\ r.import \in {c.import, NoImport}
    BY <1>2, <2>2 DEF View
  <2>4. c.import.purpose # "diagnosis" /\ stage \notin Manual /\ Runs(c, "diagnosis")
    BY <1>11 DEF Coherent, Serves, Manual, Runs
  <2>5. Steps(c, r, {})
    BY <2>3, <2>4, Ends DEF UserJobs
  <2> QED
    BY <2>5 DEF r
<1> QED
  BY <1>3, <1>6, <1>7, <1>8, <1>9, <1>10, <1>11 DEF Stages, DiagnosisStages, r

\* An export that is ready or ineligible.
LEMMA ReadySteps ==
  ASSUME NEW c, Coherent(c), NEW m
  PROVE  LET r == HandleReady(c, m) IN r.failed = TRUE \/ Steps(c, r, {})
<1> DEFINE r == HandleReady(c, m)
           told == [c EXCEPT !.export.message = 0, !.export.transfer = m.transfer]
           asked == Tell(told, "read", "none", m.transfer)
<1>1. \/ r = c
      \/ c.export # NoExport /\ r = Mismatch(c)
      \/ c.export # NoExport /\ r = Fail(c)
      \/ c.export # NoExport /\ r = asked
  BY DEF HandleReady
<1>2. View(told, told.export, c.project, c.diagnosis, c.import, c.events)
      /\ told.export.stage = c.export.stage
  BY DEF Coherent, View, Shape, NewClient, NoExport
<1>3. View(asked, told.export, c.project, c.diagnosis, c.import, c.events)
  <2> HIDE DEF told
  <2> QED
    BY <1>2, Words DEF View
<1> HIDE DEF asked, told, r
<1>4. CASE c.export # NoExport /\ r = Mismatch(c)
  <2>1. View(c, c.export, c.project, c.diagnosis, c.import, c.events)
    BY DEF Coherent, View
  <2>2. CASE c.export.stage \in DiagnosisStages
    <3>1. r = FinishDiagnosis(c, FALSE)
      BY <1>4, <2>2 DEF Mismatch
    <3>2. Steps(c, FinishDiagnosis(c, FALSE), {})
      BY <2>1, <2>2, DiagnosisHeld, DiagnosisEnds DEF DiagnosisStages, Manual
    <3> QED
      BY <3>1, <3>2 DEF r
  <2>3. CASE c.export.stage \notin DiagnosisStages
    <3>1. r = Raise(DropExport(c)) /\ Shape(DropExport(c))
      BY <1>4, <2>3, GivingUp DEF Mismatch, View, Coherent
    <3> QED
      BY <3>1, Aside DEF r
  <2> QED
    BY <2>2, <2>3
<1>5. CASE c.export # NoExport /\ r = asked
  <2>1. /\ View(r, r.export, c.project, c.diagnosis, r.import, c.events)
        /\ r.export.stage = c.export.stage /\ r.export.stage # "none" /\ r.import = c.import
    BY <1>2, <1>3, <1>5 DEF View, Coherent, NoneIsNone
  <2>2. Steps(c, r, {})
    BY <2>1, Aloof
  <2> QED
    BY <2>2 DEF r
<1> QED
  BY <1>1, <1>4, <1>5, FailSteps, Idles DEF r

\* A chunk of an export.
LEMMA ChunkSteps ==
  ASSUME NEW c, Coherent(c), NEW m, NEW disk
  PROVE  LET r == HandleChunk(c, m, disk) IN r.failed = TRUE \/ Steps(c, r, {})
<1> DEFINE r == HandleChunk(c, m, disk)
           asked == Tell(c, "read", "none", m.transfer)
           dropped == DropExport(c)
<1>1. \/ r = c \/ r = Raise(c) \/ r = Raise(dropped)
      \/ c.export.stage \in DiagnosisStages /\ r = FinishDiagnosis(c, FALSE)
      \/ r = asked
      \/ c.export # NoExport /\ r = Complete(c, disk)
  BY DEF HandleChunk
<1>2. View(asked, c.export, c.project, c.diagnosis, c.import, c.events)
  BY Words DEF Coherent
<1>3. Shape(c) /\ Shape(dropped)
  BY GivingUp DEF Coherent, View
<1> HIDE DEF asked, dropped, r
<1>4. CASE r = Raise(c) \/ r = Raise(dropped)
  <2>1. r.failed = TRUE
    BY <1>3, <1>4, Aside
  <2> QED
    BY <2>1 DEF r
<1>5. CASE c.export.stage \in DiagnosisStages /\ r = FinishDiagnosis(c, FALSE)
  <2>1. View(c, c.export, c.project, c.diagnosis, c.import, c.events)
    BY DEF Coherent, View
  <2>2. Steps(c, FinishDiagnosis(c, FALSE), {})
    BY <1>5, <2>1, DiagnosisHeld, DiagnosisEnds DEF DiagnosisStages, Manual
  <2> QED
    BY <1>5, <2>2 DEF r
<1>6. CASE r = asked
  <2>1. /\ View(r, r.export, c.project, c.diagnosis, r.import, c.events)
        /\ r.export = c.export /\ r.import = c.import
        /\ (r.export.stage = "none" => r.export = NoExport)
    BY <1>2, <1>6 DEF View, Coherent, NoneIsNone
  <2>2. Steps(c, r, {})
    BY <2>1, Aloof
  <2> QED
    BY <2>2 DEF r
<1> QED
  BY <1>1, <1>4, <1>5, <1>6, CompleteSteps, Idles DEF r

\* An import that fails takes its job with it.
LEMMA FailImportSteps ==
  ASSUME NEW c, Coherent(c), c.import # NoImport
  PROVE  Steps(c, FailImport(c), {})
<1> DEFINE w == CancelImport(c)
<1>1. View(w, c.export, c.project, c.diagnosis, NoImport, c.events)
  BY GivingUp DEF Coherent
<1>2. c.import.purpose \in Purposes
  BY DEF Coherent, Shape, NoneIsNone
<1>3. FailImport(c) = CASE c.import.purpose = "project" -> FinishProject(w, FALSE)
                        [] c.import.purpose = "diagnosis" -> FinishDiagnosis(w, FALSE)
                        [] c.import.purpose = "restore" -> w
  BY DEF FailImport
<1>4. /\ c.import.purpose \in {"project", "diagnosis"} => c.export.stage \notin Manual
      /\ c.import.purpose = "project" => c.project # NoProject
      /\ c.import.purpose = "diagnosis" => c.diagnosis # NoDiagnosis
  BY DEF Coherent, ManualAlone, Serves, NoDiagnosis
<1> HIDE DEF w
<1>5. /\ View(w, w.export, w.project, c.diagnosis, w.import, c.events)
      /\ View(w, w.export, c.project, w.diagnosis, w.import, c.events)
      /\ View(w, w.export, c.project, c.diagnosis, w.import, c.events)
      /\ w.import = NoImport /\ w.export = c.export
  BY <1>1 DEF View
<1>6. CASE c.import.purpose = "project"
  <2>1. FailImport(c) = FinishProject(w, FALSE)
    BY <1>3, <1>6
  <2> QED
    BY <1>4, <1>5, <1>6, <2>1, ProjectEnds
<1>7. CASE c.import.purpose = "diagnosis"
  <2>1. FailImport(c) = FinishDiagnosis(w, FALSE)
    BY <1>3, <1>7
  <2> QED
    BY <1>4, <1>5, <1>7, <2>1, DiagnosisEnds
<1>8. CASE c.import.purpose = "restore"
  <2>1. FailImport(c) = w
    BY <1>3, <1>8
  <2>2. w.export.stage = c.export.stage /\ (w.export.stage = "none" => w.export = NoExport)
    BY <1>5 DEF Coherent, NoneIsNone
  <2> QED
    BY <1>5, <2>1, <2>2, Aloof
<1> QED
  BY <1>2, <1>6, <1>7, <1>8 DEF Purposes

\* An import that is accepted.
LEMMA AcceptedSteps ==
  ASSUME NEW c, Coherent(c), NEW m, NEW disk
  PROVE  Steps(c, HandleAccepted(c, m, disk), {})
<1> DEFINE r == HandleAccepted(c, m, disk)
           released == Tell(c, "release", "none", m.transfer)
           known == [c EXCEPT !.import.transfer = m.transfer]
           kept == Remove(c, {c.import.file})
           import == [kept.import EXCEPT !.transfer = m.transfer, !.file = 0,
                                         !.commit = NewMessage(c)]
           committed == [kept EXCEPT
                           !.import = import,
                           !.sent = Append(@, Message("commit", NewMessage(c), "none", m.transfer))]
<1>1. \/ r = c \/ r = released
      \/ c.import # NoImport /\ r = FailImport(known)
      \/ c.import # NoImport /\ r = committed
  BY DEF HandleAccepted
<1>2. View(released, c.export, c.project, c.diagnosis, c.import, c.events)
  BY Words DEF Coherent
<1>3. /\ View(known, c.export, c.project, c.diagnosis, known.import, c.events)
      /\ known.import.purpose = c.import.purpose
  BY DEF Coherent, View, Shape, NewClient, NoImport
<1>4. /\ View(committed, c.export, c.project, c.diagnosis, committed.import, c.events)
      /\ committed.import.purpose = c.import.purpose
  <2>1. View(kept, c.export, c.project, c.diagnosis, c.import, c.events)
    BY Files DEF Coherent
  <2> HIDE DEF kept
  <2>2. DOMAIN import = DOMAIN NoImport /\ import.purpose = c.import.purpose
    BY <2>1 DEF View, Shape, NoImport
  <2> HIDE DEF import
  <2> QED
    BY <2>1, <2>2 DEF View, Shape, NewClient
<1> HIDE DEF released, known, committed, r
<1>5. CASE r = released
  <2>1. /\ View(r, r.export, c.project, c.diagnosis, r.import, c.events)
        /\ r.export = c.export /\ r.import = c.import
        /\ (r.export.stage = "none" => r.export = NoExport)
    BY <1>2, <1>5 DEF View, Coherent, NoneIsNone
  <2>2. Steps(c, r, {})
    BY <2>1, Aloof
  <2> QED
    BY <2>2 DEF r
<1>6. CASE c.import # NoImport /\ r = FailImport(known)
  <2>1. Coherent(known) /\ known.import # NoImport
    BY <1>3, <1>6 DEF Coherent, View, NoneIsNone, Serves, ManualAlone, NoImport
  <2>2. Steps(known, r, {})
    BY <1>6, <2>1, FailImportSteps
  <2>3. Steps(c, r, {})
    BY <1>3, <2>2, Rebased DEF View
  <2> QED
    BY <2>3 DEF r
<1>7. CASE c.import # NoImport /\ r = committed
  <2>1. Coherent(r)
    BY <1>4, <1>7 DEF Coherent, View, NoneIsNone, Serves, ManualAlone, NoImport
  <2>2. \A job \in UserJobs : Runs(r, job) <=> Runs(c, job)
    BY <1>4, <1>7 DEF View, Runs
  <2>3. Steps(c, r, {})
    BY <1>4, <1>7, <2>1, <2>2 DEF View, Steps, Ending
  <2> QED
    BY <2>3 DEF r
<1>8. Steps(c, c, {})
  BY Idles
<1> QED
  BY <1>1, <1>5, <1>6, <1>7, <1>8 DEF r

\* An import that is complete hands over to the export it was for.
LEMMA ImportedSteps ==
  ASSUME NEW c, Coherent(c), NEW m, NEW disk
  PROVE  LET r == HandleImported(c, m, disk) IN r.failed = TRUE \/ Steps(c, r, {})
<1> DEFINE r == HandleImported(c, m, disk)
           requested == RequestProject(c)
           parted == RequestDiagnosisProject(c, disk)
           cleared == ClearImport(c)
<1>1. Steps(c, c, {}) /\ Shape(c)
  BY Idles DEF Coherent
<1>2. CASE ~ImportMatches(c, m)
  BY <1>1, <1>2 DEF HandleImported
<1>3. ASSUME ImportMatches(c, m)
      PROVE  /\ c.import.purpose \in Purposes
             /\ r = CASE c.import.purpose = "project" -> ClearImport(requested)
                      [] c.import.purpose = "diagnosis" -> ClearImport(parted)
                      [] c.import.purpose = "restore" -> Transition(cleared)
  <2>1. c.import.purpose \in Purposes
    BY <1>3 DEF ImportMatches, Coherent, Shape, NoneIsNone
  <2> QED
    BY <1>3, <2>1 DEF HandleImported
<1>4. View(cleared, c.export, c.project, c.diagnosis, NoImport, c.events)
  BY <1>1, GivingUp
<1> HIDE DEF r, requested, parted, cleared
<1>5. CASE ImportMatches(c, m) /\ c.import.purpose = "project"
  <2>1. c.project # NoProject /\ c.export.stage \notin Manual
    BY <1>5 DEF Coherent, Serves, ManualAlone
  <2>2. /\ View(requested, requested.export, c.project, c.diagnosis, c.import, c.events)
        /\ requested.export.stage = "project"
    BY <1>1, <2>1, ProjectRequest DEF requested
  <2>3. r = ClearImport(requested) /\ Shape(requested)
    BY <1>3, <1>5, <2>2 DEF View
  <2>4. /\ View(r, requested.export, requested.project, requested.diagnosis, NoImport,
                requested.events)
    BY <2>3, GivingUp
  <2>5. /\ View(r, r.export, c.project, c.diagnosis, NoImport, c.events)
        /\ r.export.stage = "project"
    BY <2>2, <2>4 DEF View
  <2>6. Coherent(r)
    BY <2>1, <2>5
    DEF Coherent, View, NoneIsNone, Serves, ManualAlone, Manual, NoImport
  <2>7. Steps(c, r, {})
    BY <2>1, <2>5, <2>6, GoesOn DEF View, Manual, NoImport
  <2> QED
    BY <2>7 DEF r
<1>6. CASE ImportMatches(c, m) /\ c.import.purpose = "diagnosis"
  <2>1. c.diagnosis # NoDiagnosis /\ c.export.stage \notin Manual
    BY <1>6 DEF Coherent, Serves, ManualAlone, NoDiagnosis
  <2>2. r = ClearImport(parted)
    BY <1>3, <1>6
  <2>3. parted = Raise(c) \/ parted = Request(c, "diagnosis_project", c.diagnosis.folder)
    BY <2>1 DEF parted, RequestDiagnosisProject
  <2>4. CASE parted = Raise(c)
    <3>1. ClearImport(Raise(c)).failed = TRUE
      BY <1>1 DEF ClearImport, Remove, Raise, Shape, NewClient
    <3> QED
      BY <2>2, <2>4, <3>1 DEF r
  <2>5. CASE parted = Request(c, "diagnosis_project", c.diagnosis.folder)
    <3>1. "diagnosis_project" \in Stages
      BY DEF Stages, DiagnosisStages
    <3>2. /\ View(parted, parted.export, c.project, c.diagnosis, c.import, c.events)
          /\ parted.export.stage = "diagnosis_project"
      BY <1>1, <2>5, <3>1, Requests
    <3>3. View(r, parted.export, parted.project, parted.diagnosis, NoImport, parted.events)
      BY <2>2, <3>2, GivingUp DEF View
    <3>4. /\ View(r, r.export, c.project, c.diagnosis, NoImport, c.events)
          /\ r.export.stage = "diagnosis_project"
      BY <3>2, <3>3 DEF View
    <3>5. Coherent(r)
      BY <2>1, <3>4
      DEF Coherent, View, NoneIsNone, Serves, ManualAlone, Manual, NoImport
    <3>6. Steps(c, r, {})
      BY <2>1, <3>4, <3>5, GoesOn DEF View, Manual, NoImport
    <3> QED
      BY <3>6 DEF r
  <2> QED
    BY <2>3, <2>4, <2>5
<1>7. CASE ImportMatches(c, m) /\ c.import.purpose = "restore"
  <2>1. r = Transition(cleared)
    BY <1>3, <1>7
  <2>2. View(cleared, cleared.export, c.project, c.diagnosis, cleared.import, c.events)
        /\ cleared.export = c.export /\ cleared.import = NoImport
    BY <1>4 DEF View
  <2>3. Shape(cleared) /\ cleared.events = c.events
    BY <2>2 DEF View
  <2>4. Steps(c, r, {})
    BY <1>7, <2>1, <2>3, Leaves
  <2> QED
    BY <2>4 DEF r
<1> QED
  BY <1>2, <1>3, <1>5, <1>6, <1>7 DEF Purposes

\* A command the runtime rejects.
LEMMA RejectedSteps ==
  ASSUME NEW c, Coherent(c), NEW m
  PROVE  Steps(c, HandleRejected(c, m), {})
<1> DEFINE r == HandleRejected(c, m)
           stage == IF c.export.message # 0 /\ m.id = c.export.message
                    THEN c.export.stage ELSE "none"
           invalid == m.tag = "invalid_state"
           dropped == DropExport(c)
           unasked == [c EXCEPT !.export = NoExport]
           kept == [c EXCEPT !.export = NoExport,
                             !.project.waiting = (@ \/ c.project # NoProject)]
           waits == [dropped EXCEPT !.diagnosis.stage = "project_wait",
                                    !.diagnosis.waiting = TRUE]
<1>1. r = IF c.import # NoImport /\ m.id \in {c.import.begin, c.import.commit} \ {0}
          THEN FailImport(c)
          ELSE CASE stage = "cache" ->
                      IF invalid THEN Reschedule(dropped) ELSE FinishCache(dropped)
                 [] stage \in DiagnosisStages ->
                      IF stage = "diagnosis_project" /\ invalid /\ c.diagnosis # NoDiagnosis
                      THEN waits ELSE FinishDiagnosis(dropped, FALSE)
                 [] stage \in Manual -> Emit(dropped, stage)
                 [] stage = "project" -> IF invalid THEN kept ELSE FinishProject(unasked, FALSE)
                 [] OTHER -> c
  BY DEF HandleRejected
<1>2. View(dropped, NoExport, c.project, c.diagnosis, c.import, c.events)
  BY GivingUp DEF Coherent
<1>3. View(unasked, NoExport, c.project, c.diagnosis, c.import, c.events)
  BY DEF Coherent, View, Shape, NewClient, NoExport
<1>4. /\ View(kept, NoExport, kept.project, c.diagnosis, c.import, c.events)
      /\ kept.project.file = c.project.file
  BY DEF Coherent, View, Shape, NewClient, NoExport, NoProject
<1>5. /\ View(waits, NoExport, c.project, waits.diagnosis, c.import, c.events)
      /\ waits.diagnosis.stage = "project_wait"
  <2> HIDE DEF dropped
  <2> QED
    BY <1>2 DEF View, Shape, NewClient, NoDiagnosis
<1> HIDE DEF r, dropped, unasked, kept, waits, stage
<1>6. \/ r = c
      \/ c.import # NoImport /\ r = FailImport(c)
      \/ stage = "cache" /\ r \in {Reschedule(dropped), FinishCache(dropped)}
      \/ stage = "diagnosis_project" /\ r = waits
      \/ stage \in DiagnosisStages /\ r = FinishDiagnosis(dropped, FALSE)
      \/ stage \in Manual /\ r = Emit(dropped, stage)
      \/ stage = "project" /\ r \in {kept, FinishProject(unasked, FALSE)}
  <2>1. CASE c.import # NoImport /\ m.id \in {c.import.begin, c.import.commit} \ {0}
    BY <1>1, <2>1
  <2>2. ASSUME ~(c.import # NoImport /\ m.id \in {c.import.begin, c.import.commit} \ {0})
        PROVE  \/ stage = "cache" /\ r \in {Reschedule(dropped), FinishCache(dropped)}
               \/ stage = "diagnosis_project" /\ r = waits
               \/ stage \in DiagnosisStages /\ r = FinishDiagnosis(dropped, FALSE)
               \/ stage \in Manual /\ r = Emit(dropped, stage)
               \/ stage = "project" /\ r \in {kept, FinishProject(unasked, FALSE)}
               \/ r = c
    <3>1. CASE stage = "cache"
      BY <1>1, <2>2, <3>1 DEF DiagnosisStages, Manual
    <3>2. CASE stage \in DiagnosisStages
      BY <1>1, <2>2, <3>2 DEF DiagnosisStages, Manual
    <3>3. CASE stage \in Manual
      BY <1>1, <2>2, <3>3 DEF DiagnosisStages, Manual
    <3>4. CASE stage = "project"
      BY <1>1, <2>2, <3>4 DEF DiagnosisStages, Manual
    <3>5. CASE stage \notin DiagnosisStages \cup Manual \cup {"cache", "project"}
      BY <1>1, <2>2, <3>5
    <3> QED
      BY <3>1, <3>2, <3>3, <3>4, <3>5
  <2> QED
    BY <2>1, <2>2
<1>7. stage # "none" => stage = c.export.stage
  BY DEF stage
<1>8. CASE stage = "cache" /\ r \in {Reschedule(dropped), FinishCache(dropped)}
  <2>1. c.export.stage \notin Manual /\ Shape(dropped)
    BY <1>2, <1>7, <1>8 DEF Manual, View
  <2>2. CASE r = FinishCache(dropped)
    BY <1>2, <2>1, <2>2, CacheEnds DEF r
  <2>3. CASE r = Reschedule(dropped)
    <3>1. View(r, dropped.export, dropped.project, dropped.diagnosis, dropped.import,
               dropped.events)
      BY <2>1, <2>3, Aside
    <3>2. /\ View(r, r.export, c.project, c.diagnosis, r.import, c.events)
          /\ r.export = NoExport /\ r.import = c.import
      BY <1>2, <3>1 DEF View
    <3>3. Steps(c, r, {})
      BY <2>1, <3>2, Aloof
    <3> QED
      BY <3>3 DEF r
  <2> QED
    BY <1>8, <2>2, <2>3
<1>9. CASE stage = "diagnosis_project" /\ r = waits
  <2>1. /\ c.export.stage \notin Manual /\ c.import.purpose # "diagnosis"
        /\ c.diagnosis # NoDiagnosis
    BY <1>7, <1>9 DEF Coherent, Serves, Manual
  <2>2. /\ View(r, NoExport, c.project, r.diagnosis, c.import, c.events)
        /\ r.diagnosis.stage = "project_wait"
    BY <1>5, <1>9
  <2>3. r.diagnosis # NoDiagnosis
    BY <2>2 DEF NoDiagnosis
  <2>4. Coherent(r)
    BY <2>1, <2>2, <2>3
    DEF Coherent, View, NoneIsNone, Serves, ManualAlone, Manual, NoExport
  <2>5. Steps(c, r, {})
    BY <2>1, <2>2, <2>3, <2>4, GoesOn DEF View, Manual, NoExport
  <2> QED
    BY <2>5 DEF r
<1>10. CASE stage \in DiagnosisStages /\ r = FinishDiagnosis(dropped, FALSE)
  <2>1. c.export.stage \notin Manual /\ c.diagnosis # NoDiagnosis
    BY <1>7, <1>10, DiagnosisHeld DEF DiagnosisStages, Manual
  <2>2. View(dropped, dropped.export, c.project, dropped.diagnosis, dropped.import, c.events)
    BY <1>2 DEF View
  <2>3. Steps(c, FinishDiagnosis(dropped, FALSE), {})
    BY <2>1, <2>2, DiagnosisEnds
  <2> QED
    BY <1>10, <2>3 DEF r
<1>11. CASE stage \in Manual /\ r = Emit(dropped, stage)
  <2>1. c.export.stage \notin Manual \ {stage} /\ c.export.stage = stage
    BY <1>7, <1>11 DEF Manual
  <2>2. View(dropped, dropped.export, c.project, c.diagnosis, c.import, c.events)
        /\ dropped.export = NoExport
    BY <1>2 DEF View
  <2>3. Steps(c, Emit(dropped, stage), {})
    BY <1>11, <2>1, <2>2, ManualEnds
  <2> QED
    BY <1>11, <2>3 DEF r
<1>12. CASE stage = "project" /\ r \in {kept, FinishProject(unasked, FALSE)}
  <2>1. c.export.stage \notin Manual /\ c.project # NoProject
    BY <1>7, <1>12 DEF Manual, Coherent, Serves
  <2>2. CASE r = FinishProject(unasked, FALSE)
    <3>1. View(unasked, unasked.export, unasked.project, c.diagnosis, unasked.import, c.events)
      BY <1>3 DEF View
    <3>2. Steps(c, FinishProject(unasked, FALSE), {})
      BY <2>1, <3>1, ProjectEnds
    <3> QED
      BY <2>2, <3>2 DEF r
  <2>3. CASE r = kept
    <3>1. /\ View(r, NoExport, r.project, c.diagnosis, c.import, c.events)
          /\ r.project.file = c.project.file
      BY <1>4, <2>3
    <3>2. c.project.file # 0 /\ r.project # NoProject
      BY <2>1, <3>1 DEF Coherent, NoneIsNone, NoProject
    <3>3. Coherent(r)
      BY <2>1, <3>1, <3>2
      DEF Coherent, View, NoneIsNone, Serves, ManualAlone, Manual, NoExport
    <3>4. Steps(c, r, {})
      BY <2>1, <3>1, <3>2, <3>3, GoesOn DEF View, Manual, NoExport
    <3> QED
      BY <3>4 DEF r
  <2> QED
    BY <1>12, <2>2, <2>3
<1>13. CASE c.import # NoImport /\ r = FailImport(c)
  BY <1>13, FailImportSteps DEF r
<1>14. CASE r = c
  BY <1>14, Idles DEF r
<1> QED
  BY <1>6, <1>8, <1>9, <1>10, <1>11, <1>12, <1>13, <1>14

\* A fault of the game ends the import under way.
LEMMA FaultSteps ==
  ASSUME NEW c, Coherent(c)
  PROVE  Steps(c, HandleFault(c), {})
<1> DEFINE w == ClearImport(c)
           r == HandleFault(c)
<1>1. View(w, c.export, c.project, c.diagnosis, NoImport, c.events)
  BY GivingUp DEF Coherent
<1>2. r = Emit(w, "fault") /\ "fault" \in Events
  BY DEF HandleFault, Events
<1> HIDE DEF w, r
<1>3. View(r, c.export, c.project, c.diagnosis, NoImport, Append(c.events, "fault"))
  BY <1>1, <1>2, Words DEF View
<1>4. In(r.events) = In(c.events) \cup {"fault"}
  <2>1. c.events \in Seq(Events) /\ r.events = Append(c.events, "fault")
    BY <1>3 DEF View, Coherent, Shape
  <2> QED
    BY <1>2, <2>1, EventQueue
<1>5. Coherent(r)
  BY <1>3 DEF Coherent, View, NoneIsNone, Serves, ManualAlone, NoImport
<1>6. \A job \in UserJobs : (Runs(r, job) <=> Runs(c, job)) /\ job # "fault"
  BY <1>3 DEF View, Runs, UserJobs
<1>7. r.import.purpose # "restore"
  BY <1>3 DEF View, NoImport
<1>8. Steps(c, r, {})
  BY <1>4, <1>5, <1>6, <1>7 DEF Steps, Ending
<1> QED
  BY <1>8 DEF r

\* Every output of the runtime, whatever it belongs to.
LEMMA HandleSteps ==
  ASSUME NEW c, Coherent(c), NEW m, m.tag \in Outputs, NEW disk
  PROVE  LET r == Handle(c, m, disk) IN r.failed = TRUE \/ Steps(c, r, {})
<1> DEFINE r == Handle(c, m, disk)
<1>1. r \in {HandleReady(c, m), HandleChunk(c, m, disk), HandleAccepted(c, m, disk),
             HandleImported(c, m, disk), HandleRejected(c, m), HandleFault(c)}
  BY DEF Handle, Outputs
<1> HIDE DEF r
<1>2. r.failed = TRUE \/ Steps(c, r, {})
  BY <1>1, ReadySteps, ChunkSteps, AcceptedSteps, ImportedSteps, RejectedSteps, FaultSteps
<1> QED
  BY <1>2 DEF r

\* The look for postponed work after a pump.
LEMMA RefreshSteps ==
  ASSUME NEW c, Coherent(c), NEW disk
  PROVE  LET r == Refresh(c, disk) IN r.failed = TRUE \/ Steps(c, r, {})
<1> DEFINE r == Refresh(c, disk)
           begun == [c EXCEPT !.cache.due = FALSE]
           prepared == [begun EXCEPT !.cache.prepared = TRUE]
<1>1. \/ r = c
      \/ c.project # NoProject /\ c.import = NoImport /\ c.export = NoExport
         /\ r = RequestProject(c)
      \/ c.diagnosis.stage = "export_wait" /\ c.export = NoExport
         /\ r = StartPart(c, "replay", disk)
      \/ c.diagnosis.stage = "project_wait" /\ c.export = NoExport
         /\ r = RequestDiagnosisProject(c, disk)
      \/ c.export = NoExport /\ r \in {Raise(begun), Request(prepared, "cache", 0)}
  BY DEF Refresh
<1>2. Steps(c, c, {}) /\ Shape(c)
  BY Idles DEF Coherent
<1>3. View(begun, c.export, c.project, c.diagnosis, c.import, c.events)
  BY DEF Coherent, View, Shape, NewClient, NoCache
<1>4. View(prepared, c.export, c.project, c.diagnosis, c.import, c.events)
  <2> HIDE DEF begun
  <2> QED
    BY <1>3 DEF View, Shape, NewClient, NoCache
<1> HIDE DEF r, begun, prepared
<1>5. CASE c.project # NoProject /\ c.import = NoImport /\ c.export = NoExport
           /\ r = RequestProject(c)
  <2>1. View(r, r.export, c.project, c.diagnosis, c.import, c.events)
        /\ r.export.stage = "project"
    BY <1>2, <1>5, ProjectRequest
  <2>2. Coherent(r)
    BY <1>5, <2>1
    DEF Coherent, View, NoneIsNone, Serves, ManualAlone, Manual, NoImport
  <2>3. Steps(c, r, {})
    BY <1>5, <2>1, <2>2, GoesOn DEF View, Manual, NoExport
  <2> QED
    BY <2>3 DEF r
<1>6. CASE c.diagnosis.stage = "export_wait" /\ c.export = NoExport
           /\ r = StartPart(c, "replay", disk)
  <2>1. \/ r.failed = TRUE
        \/ /\ View(r, r.export, c.project, r.diagnosis, c.import, c.events)
           /\ r.export.stage = Part("replay") /\ r.diagnosis.stage = "replay"
    BY <1>2, <1>6, Parts
  <2>2. ASSUME r.failed # TRUE
        PROVE  Steps(c, r, {})
    <3>1. /\ View(r, r.export, c.project, r.diagnosis, c.import, c.events)
          /\ r.export.stage = "diagnosis_replay" /\ r.diagnosis.stage = "replay"
      BY <2>1, <2>2 DEF Part
    <3>2. c.import.purpose # "diagnosis"
      BY <1>6 DEF Coherent, Serves
    <3>3. c.diagnosis # NoDiagnosis /\ r.diagnosis # NoDiagnosis
      BY <1>6, <3>1 DEF NoDiagnosis
    <3>4. Coherent(r)
      BY <3>1, <3>2, <3>3 DEF Coherent, View, NoneIsNone, Serves, ManualAlone, Manual
    <3> QED
      BY <1>6, <3>1, <3>3, <3>4, GoesOn DEF View, Manual, NoExport
  <2> QED
    BY <2>2 DEF r
<1>7. CASE c.diagnosis.stage = "project_wait" /\ c.export = NoExport
           /\ r = RequestDiagnosisProject(c, disk)
  <2>1. c.import.purpose # "diagnosis" /\ c.diagnosis # NoDiagnosis
    BY <1>7 DEF Coherent, Serves, NoDiagnosis
  <2>2. \/ r.failed = TRUE
        \/ /\ View(r, r.export, c.project, c.diagnosis, c.import, c.events)
           /\ r.export.stage = "diagnosis_project"
    BY <1>2, <1>7, <2>1, Parts
  <2>3. ASSUME r.failed # TRUE
        PROVE  Steps(c, r, {})
    <3>1. /\ View(r, r.export, c.project, c.diagnosis, c.import, c.events)
          /\ r.export.stage = "diagnosis_project"
      BY <2>2, <2>3
    <3>2. Coherent(r)
      BY <2>1, <3>1 DEF Coherent, View, NoneIsNone, Serves, ManualAlone, Manual
    <3> QED
      BY <1>7, <3>1, <3>2, GoesOn DEF View, Manual, NoExport
  <2> QED
    BY <2>3 DEF r
<1>8. CASE c.export = NoExport /\ r = Raise(begun)
  <2>1. Shape(begun)
    BY <1>3 DEF View
  <2> QED
    BY <1>8, <2>1, Aside DEF r
<1>9. CASE c.export = NoExport /\ r = Request(prepared, "cache", 0)
  <2>1. Shape(prepared) /\ "cache" \in Stages
    BY <1>4 DEF View, Stages
  <2>2. /\ View(r, r.export, prepared.project, prepared.diagnosis, prepared.import,
                prepared.events)
        /\ r.export.stage = "cache"
    BY <1>9, <2>1, Requests
  <2>3. View(r, r.export, c.project, c.diagnosis, c.import, c.events)
    BY <1>4, <2>2 DEF View
  <2>4. Coherent(r)
    BY <2>2, <2>3 DEF Coherent, View, NoneIsNone, Serves, ManualAlone, Manual
  <2>5. Steps(c, r, {})
    BY <1>9, <2>2, <2>3, <2>4, GoesOn DEF View, Manual, NoExport
  <2> QED
    BY <2>5 DEF r
<1> QED
  BY <1>1, <1>2, <1>5, <1>6, <1>7, <1>8, <1>9 DEF r
-----------------------------------------------------------------------------
(* Commands of the app *)

\* No job and no import: what a job but a diagnosis is commanded into.
Free(c) ==
  /\ c.project = NoProject /\ c.diagnosis = NoDiagnosis /\ c.import = NoImport
  /\ c.export.stage \in {"none", "cache"}

\* When no job runs and nothing is restored, the client is free.
LEMMA FreeClient ==
  ASSUME NEW c, Coherent(c), \A job \in UserJobs : ~Runs(c, job),
         c.import.purpose # "restore"
  PROVE  Free(c)
<1>1. /\ c.export.stage \notin Manual /\ c.project = NoProject /\ c.diagnosis = NoDiagnosis
  BY DEF Runs, UserJobs, Manual
<1>2. c.import = NoImport /\ c.export.stage \in {"none", "cache"}
  BY <1>1
  DEF Coherent, Shape, NoneIsNone, Serves, Stages, Purposes, Manual, DiagnosisStages,
      NoDiagnosis
<1> QED
  BY <1>1, <1>2 DEF Free

\* A job that has begun, and nothing else.
LEMMA Begins ==
  ASSUME NEW c, Coherent(c), NEW r, Coherent(r), NEW job \in UserJobs,
         r.events = c.events, ~Ending(c, job), Runs(r, job),
         \A other \in UserJobs \ {job} : Runs(r, other) <=> Runs(c, other),
         r.import.purpose = "restore" => c.import.purpose = "restore"
  PROVE  Steps(c, r, {job})
BY DEF Steps, Ending

\* A snapshot or a replay begins, or the app is told that it did not.
LEMMA ManualSteps ==
  ASSUME NEW c, Coherent(c), Free(c), NEW job \in Manual, ~Ending(c, job), NEW disk
  PROVE  LET r == ManualExport(c, job, disk) IN r.failed = TRUE \/ Steps(c, r, {job})
<1> DEFINE r == ManualExport(c, job, disk)
           dropped == DropExport(c)
<1>1. r = Emit(dropped, job) \/ r = Request(c, job, 0)
  BY DEF ManualExport
<1>2. View(dropped, NoExport, c.project, c.diagnosis, c.import, c.events) /\ Shape(c)
  BY GivingUp DEF Coherent
<1>3. c.export.stage \notin Manual /\ job \in UserJobs /\ job \in Stages
  BY DEF Free, Manual, UserJobs, Stages
<1> HIDE DEF r, dropped
<1>4. CASE r = Emit(dropped, job)
  <2>1. View(dropped, dropped.export, c.project, c.diagnosis, c.import, c.events)
        /\ dropped.export = NoExport
    BY <1>2 DEF View
  <2>2. Steps(c, Emit(dropped, job), {job})
    BY <1>3, <2>1, ManualEnds
  <2> QED
    BY <1>4, <2>2 DEF r
<1>5. CASE r = Request(c, job, 0)
  <2>1. /\ View(r, r.export, c.project, c.diagnosis, c.import, c.events)
        /\ r.export.stage = job
    BY <1>2, <1>3, <1>5, Requests
  <2>2. Coherent(r)
    BY <2>1
    DEF Coherent, View, NoneIsNone, Serves, ManualAlone, Manual, Free, NoImport, NoDiagnosis
  <2>3. /\ Runs(r, job) /\ \A other \in UserJobs \ {job} : Runs(r, other) <=> Runs(c, other)
    BY <1>3, <2>1 DEF View, Runs, UserJobs, Manual
  <2>4. Steps(c, r, {job})
    BY <1>3, <2>1, <2>2, <2>3, Begins DEF View
  <2> QED
    BY <2>4 DEF r
<1> QED
  BY <1>1, <1>4, <1>5

\* The export of a project file begins, or the app is told that it did not.
LEMMA ProjectSteps ==
  ASSUME NEW c, Coherent(c), Free(c), ~Ending(c, "project"), NEW disk
  PROVE  LET r == ExportProject(c, disk) IN r.failed = TRUE \/ Steps(c, r, {"project"})
<1> DEFINE r == ExportProject(c, disk)
           told == Tell(c, "cancel", "cache", 0)
           dropped == DropExport(told)
           unprepared == [dropped EXCEPT !.cache.prepared = FALSE]
           ready == IF c.export.stage = "cache" \/ c.cache.prepared
                    THEN Reschedule(unprepared) ELSE c
           made == Create(ready, 0)
           project == [NoProject EXCEPT !.file = NewFile(ready)]
           begun == [made EXCEPT !.project = project]
<1>1. \/ r = FinishProject(ready, FALSE)
      \/ r = FinishProject(FinishProject(begun, FALSE), FALSE)
      \/ r = RequestProject(begun)
      \/ r = BeginImport(begun, "project")
  BY DEF ExportProject
<1>2. /\ c.export.stage \notin Manual /\ c.project = NoProject /\ c.diagnosis = NoDiagnosis
      /\ c.import = NoImport /\ (c.export.stage # "cache" => c.export = NoExport)
  BY DEF Free, Manual, Coherent, NoneIsNone
<1>3. View(ready, NoExport, c.project, c.diagnosis, c.import, c.events)
  <2>1. View(told, c.export, c.project, c.diagnosis, c.import, c.events)
    BY Words DEF Coherent
  <2>2. View(dropped, NoExport, c.project, c.diagnosis, c.import, c.events)
    <3> HIDE DEF told
    <3> QED
      BY <2>1, GivingUp DEF View
  <2>3. View(unprepared, NoExport, c.project, c.diagnosis, c.import, c.events)
    <3> HIDE DEF dropped
    <3> QED
      BY <2>2 DEF View, Shape, NewClient, NoCache
  <2>4. View(Reschedule(unprepared), NoExport, c.project, c.diagnosis, c.import, c.events)
    <3> HIDE DEF unprepared
    <3> QED
      BY <2>3, Aside DEF View
  <2> HIDE DEF unprepared
  <2> QED
    BY <1>2, <2>4 DEF View, Coherent
<1>4. Shape(ready) /\ project.file # 0 /\ project # NoProject
      /\ DOMAIN project = DOMAIN NoProject
  <2> HIDE DEF ready
  <2>1. Shape(ready)
    BY <1>3 DEF View
  <2> QED
    BY <2>1, FileNumber DEF NoProject
<1>5. View(begun, NoExport, project, c.diagnosis, c.import, c.events)
  <2>1. View(made, NoExport, c.project, c.diagnosis, c.import, c.events)
    <3> HIDE DEF ready
    <3> QED
      BY <1>3, Files DEF View
  <2> HIDE DEF made, project
  <2> QED
    BY <1>4, <2>1 DEF View, Shape, NewClient
<1> HIDE DEF r, ready, begun, project
<1>6. /\ Shape(begun) /\ begun.project = project /\ begun.diagnosis = c.diagnosis
      /\ begun.import = c.import /\ begun.events = c.events /\ begun.export = NoExport
  BY <1>5 DEF View
<1>7. CASE r = FinishProject(ready, FALSE)
  <2>1. View(ready, ready.export, ready.project, c.diagnosis, ready.import, c.events)
    BY <1>3 DEF View
  <2>2. Steps(c, FinishProject(ready, FALSE), {"project"})
    BY <1>2, <2>1, ProjectEnds
  <2> QED
    BY <1>7, <2>2 DEF r
<1>8. CASE r = FinishProject(FinishProject(begun, FALSE), FALSE)
  <2> DEFINE first == FinishProject(begun, FALSE)
  <2>1. View(begun, begun.export, begun.project, c.diagnosis, begun.import, c.events)
    BY <1>5, <1>6
  <2>2. Steps(c, first, {"project"})
    BY <1>2, <2>1, ProjectEnds
  <2>3. View(first, NoExport, NoProject, begun.diagnosis,
             IF FALSE THEN begun.import ELSE NoImport, Append(begun.events, "project"))
    BY <1>6, Endings
  <2> HIDE DEF first
  <2>4. /\ Coherent(first) /\ first.export.stage \notin Manual
        /\ View(first, first.export, first.project, first.diagnosis, first.import, first.events)
        /\ first.project = NoProject
    BY <2>2, <2>3 DEF Steps, View, NoExport, Manual
  <2>5. Ending(first, "project")
    BY <2>2, <2>4 DEF Steps, Runs, UserJobs, Manual
  <2>6. Steps(first, FinishProject(first, FALSE), {})
    BY <2>4, <2>5, ProjectEnds
  <2>7. Steps(c, FinishProject(first, FALSE), {"project"})
    BY <2>2, <2>6, Composed
  <2> QED
    BY <1>8, <2>7 DEF r, first
<1>9. CASE r \in {RequestProject(begun), BeginImport(begun, "project")}
  <2>1. /\ View(r, r.export, project, c.diagnosis, r.import, c.events)
        /\ \/ r.export.stage = "project" /\ r.import = NoImport
           \/ r.export = NoExport /\ r.import.purpose = "project"
    <3>1. CASE r = RequestProject(begun)
      <4>1. View(r, r.export, begun.project, begun.diagnosis, begun.import, begun.events)
            /\ r.export.stage = "project"
        BY <1>4, <1>6, <3>1, ProjectRequest
      <4> QED
        BY <1>2, <1>6, <4>1 DEF View
    <3>2. CASE r = BeginImport(begun, "project")
      <4>1. View(r, begun.export, begun.project, begun.diagnosis, r.import, begun.events)
            /\ r.import.purpose = "project"
        BY <1>6, <3>2, ImportBegun DEF Purposes
      <4> QED
        BY <1>6, <4>1 DEF View
    <3> QED
      BY <1>9, <3>1, <3>2
  <2>2. Coherent(r)
    BY <1>2, <1>4, <2>1
    DEF Coherent, View, NoneIsNone, Serves, ManualAlone, Manual, NoImport, NoExport, NoDiagnosis
  <2>3. /\ Runs(r, "project")
        /\ \A other \in UserJobs \ {"project"} : Runs(r, other) <=> Runs(c, other)
    BY <1>2, <1>4, <2>1 DEF View, Runs, UserJobs, Manual, NoExport
  <2>4. r.import.purpose # "restore" /\ r.events = c.events
    BY <2>1 DEF View, NoImport
  <2>5. Steps(c, r, {"project"})
    BY <2>2, <2>3, <2>4, Begins DEF UserJobs
  <2> QED
    BY <2>5 DEF r
<1> QED
  BY <1>1, <1>7, <1>8, <1>9

\* A diagnosis begins, waits for the export under way, or the app is told.
LEMMA DiagnosisSteps ==
  ASSUME NEW c, Coherent(c), c.diagnosis = NoDiagnosis, ~Ending(c, "diagnosis"),
         NEW disk, disk # "folder"
  PROVE  LET r == ExportDiagnosis(c, disk) IN r.failed = TRUE \/ Steps(c, r, {"diagnosis"})
<1> DEFINE r == ExportDiagnosis(c, disk)
           made == Create(c, 0)
           diagnosis == [NoDiagnosis EXCEPT !.stage = "export_wait", !.folder = NewFile(c)]
           begun == [made EXCEPT !.diagnosis = diagnosis]
<1>1. \/ c.export # NoExport /\ r = begun
      \/ c.export = NoExport /\ r = FinishDiagnosis(FinishDiagnosis(begun, FALSE), FALSE)
      \/ c.export = NoExport /\ r = StartPart(begun, "replay", disk)
  BY DEF ExportDiagnosis
<1>2. /\ diagnosis.stage = "export_wait" /\ diagnosis # NoDiagnosis
      /\ DOMAIN diagnosis = DOMAIN NoDiagnosis
  BY DEF NoDiagnosis
<1>3. View(begun, c.export, c.project, diagnosis, c.import, c.events)
  <2>1. View(made, c.export, c.project, c.diagnosis, c.import, c.events)
    BY Files DEF Coherent
  <2> HIDE DEF made, diagnosis
  <2> QED
    BY <1>2, <2>1 DEF View, Shape, NewClient
<1>4. c.import.purpose # "diagnosis" /\ c.export.stage \notin DiagnosisStages
  BY DEF Coherent, Serves, DiagnosisStages, NoDiagnosis
<1> HIDE DEF r, begun, diagnosis
<1>5. /\ Shape(begun) /\ begun.diagnosis = diagnosis /\ begun.project = c.project
      /\ begun.import = c.import /\ begun.events = c.events /\ begun.export = c.export
  BY <1>3 DEF View
<1>6. CASE c.export # NoExport /\ r = begun
  <2>1. View(r, c.export, c.project, diagnosis, c.import, c.events)
    BY <1>3, <1>6
  <2>2. Coherent(r)
    BY <1>2, <1>4, <2>1
    DEF Coherent, View, NoneIsNone, Serves, ManualAlone, Manual, DiagnosisStages
  <2>3. /\ Runs(r, "diagnosis")
        /\ \A other \in UserJobs \ {"diagnosis"} : Runs(r, other) <=> Runs(c, other)
    BY <1>2, <2>1 DEF View, Runs, UserJobs, Manual
  <2>4. Steps(c, r, {"diagnosis"})
    BY <2>1, <2>2, <2>3, Begins DEF View, UserJobs
  <2> QED
    BY <2>4 DEF r
<1>7. CASE c.export = NoExport /\ r = FinishDiagnosis(FinishDiagnosis(begun, FALSE), FALSE)
  <2> DEFINE first == FinishDiagnosis(begun, FALSE)
  <2>1. View(begun, begun.export, c.project, begun.diagnosis, begun.import, c.events)
        /\ c.export.stage \notin Manual
    BY <1>3, <1>5, <1>7 DEF NoExport, Manual
  <2>2. Steps(c, first, {"diagnosis"})
    BY <2>1, DiagnosisEnds
  <2>3. View(first, NoExport, begun.project, NoDiagnosis,
             IF FALSE THEN begun.import ELSE NoImport, Append(begun.events, "diagnosis"))
    BY <1>5, Endings
  <2> HIDE DEF first
  <2>4. /\ Coherent(first) /\ first.export.stage \notin Manual
        /\ View(first, first.export, first.project, first.diagnosis, first.import, first.events)
        /\ first.diagnosis = NoDiagnosis
    BY <2>2, <2>3 DEF Steps, View, NoExport, Manual
  <2>5. Ending(first, "diagnosis")
    BY <2>2, <2>4 DEF Steps, Runs, UserJobs, Manual
  <2>6. Steps(first, FinishDiagnosis(first, FALSE), {})
    BY <2>4, <2>5, DiagnosisEnds
  <2>7. Steps(c, FinishDiagnosis(first, FALSE), {"diagnosis"})
    BY <2>2, <2>6, Composed
  <2> QED
    BY <1>7, <2>7 DEF r, first
<1>8. CASE c.export = NoExport /\ r = StartPart(begun, "replay", disk)
  <2>1. \/ r.failed = TRUE
        \/ /\ View(r, r.export, begun.project, r.diagnosis, begun.import, begun.events)
           /\ r.export.stage = Part("replay") /\ r.diagnosis.stage = "replay"
    BY <1>5, <1>8, Parts
  <2>2. ASSUME r.failed # TRUE
        PROVE  Steps(c, r, {"diagnosis"})
    <3>1. /\ View(r, r.export, c.project, r.diagnosis, c.import, c.events)
          /\ r.export.stage = "diagnosis_replay" /\ r.diagnosis.stage = "replay"
      BY <1>5, <2>1, <2>2 DEF View, Part
    <3>2. Coherent(r)
      BY <1>4, <3>1 DEF Coherent, View, NoneIsNone, Serves, ManualAlone, Manual
    <3>3. r.diagnosis # NoDiagnosis
      BY <3>1 DEF NoDiagnosis
    <3>4. /\ Runs(r, "diagnosis")
          /\ \A other \in UserJobs \ {"diagnosis"} : Runs(r, other) <=> Runs(c, other)
      BY <1>8, <3>1, <3>3 DEF View, Runs, UserJobs, Manual, NoExport
    <3> QED
      BY <3>1, <3>2, <3>4, Begins DEF View, UserJobs
  <2> QED
    BY <2>2 DEF r
<1> QED
  BY <1>1, <1>6, <1>7, <1>8

\* The progress dialog of a project file is cancelled.
LEMMA CancelSteps ==
  ASSUME NEW c, Coherent(c)
  PROVE  Steps(c, CancelProject(c), {"cancel"}) /\ ~Runs(CancelProject(c), "project")
<1> DEFINE told == Tell(c, "cancel", "project", 0)
<1>1. \/ CancelProject(c) = c /\ c.project = NoProject
      \/ CancelProject(c) = FinishProject(told, FALSE) /\ c.project # NoProject
  BY DEF CancelProject, Coherent, Serves
<1>2. View(told, c.export, c.project, c.diagnosis, c.import, c.events)
  BY Words DEF Coherent
<1> HIDE DEF told
<1>3. {"cancel"} \cap UserJobs = {}
  BY DEF UserJobs
<1>4. CASE CancelProject(c) = c /\ c.project = NoProject
  <2>1. Steps(c, c, {"cancel"}) /\ ~Runs(c, "project")
    BY <1>3, <1>4 DEF Steps, Runs, Manual
  <2> QED
    BY <1>4, <2>1
<1>5. CASE CancelProject(c) = FinishProject(told, FALSE) /\ c.project # NoProject
  <2>1. View(told, told.export, told.project, c.diagnosis, told.import, c.events)
    BY <1>2 DEF View
  <2>2. c.export.stage \notin Manual
    BY <1>5 DEF Coherent, ManualAlone
  <2>3. {"cancel"} \cap UserJobs \subseteq {"project"}
    BY <1>3
  <2>4. Steps(c, FinishProject(told, FALSE), {"cancel"})
    BY <1>5, <2>1, <2>2, <2>3, ProjectEnds
  <2>5. View(FinishProject(told, FALSE), NoExport, NoProject, told.diagnosis,
             IF FALSE THEN told.import ELSE NoImport, Append(told.events, "project"))
    BY <2>1, Endings DEF View
  <2>6. ~Runs(FinishProject(told, FALSE), "project")
    BY <2>5 DEF View, Runs, Manual
  <2> QED
    BY <1>5, <2>4, <2>6
<1> QED
  BY <1>1, <1>4, <1>5

\* A saved state is restored: the import under way gives way.
LEMMA RestoreSteps ==
  ASSUME NEW c, Coherent(c)
  PROVE  Steps(c, BeginImport(c, "restore"), {"restore"})
<1> DEFINE r == BeginImport(c, "restore")
<1> HIDE DEF r
<1>1. View(r, c.export, c.project, c.diagnosis, r.import, c.events)
      /\ r.import.purpose = "restore"
  BY ImportBegun DEF Coherent, Purposes, r
<1>2. Coherent(r)
  BY <1>1 DEF Coherent, View, NoneIsNone, Serves, ManualAlone
<1>3. \A job \in UserJobs : (Runs(r, job) <=> Runs(c, job)) /\ job # "restore"
  BY <1>1 DEF View, Runs, UserJobs
<1>4. Steps(c, r, {"restore"})
  BY <1>1, <1>2, <1>3 DEF View, Steps, Ending
<1> QED
  BY <1>4 DEF r

\* Every command of the app, given when it may be.
LEMMA ProcessSteps ==
  ASSUME NEW c, Coherent(c), NEW command \in Commands, NEW disk, disk # "folder",
         command \in UserJobs => ~Ending(c, command),
         command \in UserJobs \ {"diagnosis"} => Free(c),
         command = "diagnosis" => c.diagnosis = NoDiagnosis
  PROVE  LET r == Process(c, command, disk)
         IN  \/ r.failed = TRUE
             \/ /\ Steps(c, r, {command})
                /\ command = "cancel" => ~Runs(r, "project")
                /\ command \in {"title", "restart"} => \A job \in UserJobs : ~Runs(r, job)
<1> DEFINE r == Process(c, command, disk)
<1> HIDE DEF r
<1>1. CASE command \in Manual
  <2>1. r = ManualExport(c, command, disk)
    BY <1>1 DEF Process, Manual, r
  <2> QED
    BY <1>1, <2>1, ManualSteps DEF r, Manual, UserJobs
<1>2. CASE command = "project"
  <2>1. r = ExportProject(c, disk)
    BY <1>2 DEF Process, Manual, r
  <2> QED
    BY <1>2, <2>1, ProjectSteps DEF r, UserJobs
<1>3. CASE command = "diagnosis"
  <2>1. r = ExportDiagnosis(c, disk)
    BY <1>3 DEF Process, Manual, r
  <2> QED
    BY <1>3, <2>1, DiagnosisSteps DEF r, UserJobs
<1>4. CASE command = "cancel"
  <2>1. r = CancelProject(c)
    BY <1>4 DEF Process, Manual, r
  <2> QED
    BY <1>4, <2>1, CancelSteps DEF r
<1>5. CASE command = "restore"
  <2>1. r = BeginImport(c, "restore")
    BY <1>5 DEF Process, Manual, r
  <2> QED
    BY <1>5, <2>1, RestoreSteps DEF r
<1>6. CASE command \in {"title", "restart"}
  <2>1. r \in {Transition(c), ResetSession(c)} /\ {command} \cap UserJobs = {}
    BY <1>6 DEF Process, Manual, UserJobs, r
  <2>2. Shape(c)
    BY DEF Coherent
  <2>3. Steps(c, r, {command}) /\ \A job \in UserJobs : ~Runs(r, job)
    BY <1>6, <2>1, <2>2, Leaves
  <2> QED
    BY <1>6, <2>3 DEF r
<1> QED
  BY <1>1, <1>2, <1>3, <1>4, <1>5, <1>6 DEF Commands, UserJobs, Manual
-----------------------------------------------------------------------------
(* The invariant *)

\* The commands in the queue, the first one taken or one more at the end.
LEMMA CommandQueue ==
  ASSUME commands \in Seq(Commands)
  PROVE  /\ \A command \in Commands : /\ Append(commands, command) \in Seq(Commands)
                                      /\ In(Append(commands, command)) = In(commands) \cup {command}
         /\ commands # <<>> => /\ Tail(commands) \in Seq(Commands)
                               /\ Head(commands) \in In(commands) /\ Head(commands) \in Commands
                               /\ In(commands) = In(Tail(commands)) \cup {Head(commands)}
<1>1. ASSUME NEW command \in Commands
      PROVE  /\ Append(commands, command) \in Seq(Commands)
             /\ In(Append(commands, command)) = In(commands) \cup {command}
  <2>1. /\ Append(commands, command) \in Seq(Commands)
        /\ Len(Append(commands, command)) = Len(commands) + 1
        /\ Append(commands, command)[Len(commands) + 1] = command
        /\ \A i \in 1..Len(commands) : Append(commands, command)[i] = commands[i]
    OBVIOUS
  <2> QED
    BY <2>1 DEF In
<1>2. ASSUME commands # <<>>
      PROVE  /\ Tail(commands) \in Seq(Commands)
             /\ Head(commands) \in In(commands) /\ Head(commands) \in Commands
             /\ In(commands) = In(Tail(commands)) \cup {Head(commands)}
  <2>1. /\ Len(commands) \in Nat \ {0} /\ Head(commands) = commands[1]
        /\ Head(commands) \in Commands
        /\ Tail(commands) \in Seq(Commands) /\ Len(Tail(commands)) = Len(commands) - 1
        /\ \A i \in 1..(Len(commands) - 1) : Tail(commands)[i] = commands[i + 1]
    BY <1>2
  <2>2. In(commands) \subseteq In(Tail(commands)) \cup {Head(commands)}
    <3>1. SUFFICES ASSUME NEW i \in 1..Len(commands)
                   PROVE  commands[i] \in In(Tail(commands)) \cup {Head(commands)}
      BY DEF In
    <3>2. ASSUME i # 1
          PROVE  i - 1 \in DOMAIN Tail(commands) /\ commands[i] = Tail(commands)[i - 1]
      BY <2>1, <3>2
    <3> QED
      BY <2>1, <3>2 DEF In
  <2>3. In(Tail(commands)) \cup {Head(commands)} \subseteq In(commands)
    BY <2>1 DEF In
  <2> QED
    BY <2>1, <2>2, <2>3 DEF In
<1> QED
  BY <1>1, <1>2

\* The event of a job, like a reset, clears its flag.
LEMMA EndingClears ==
  ASSUME NEW c, NEW job \in UserJobs, Ending(c, job)
  PROVE  \E event \in In(c.events) : job \in Cleared(event)
<1>1. job \in Cleared(job) /\ job \in Cleared("reset")
  BY DEF Cleared, UserJobs
<1> QED
  BY <1>1 DEF Ending

\* What is tracked stays so, through a step of the client that begins `begun'.
LEMMA TrackedOn ==
  ASSUME Tracked, app.flags \subseteq UserJobs, NEW begun, Steps(client, client', begun),
         \A job \in UserJobs : Pending(job) => Pending(job)' \/ job \in begun,
         UNCHANGED app
  PROVE  Tracked'
<1>1. SUFFICES ASSUME NEW job \in app.flags
               PROVE  \/ Pending(job)' \/ Runs(client', job)
                      \/ \E event \in In(client'.events) : job \in Cleared(event)
  BY DEF Tracked
<1>2. job \in UserJobs
  BY <1>1
<1>3. CASE Runs(client, job) \/ job \in begun
  <2>1. Runs(client', job) \/ Ending(client', job)
    BY <1>2, <1>3 DEF Steps
  <2> QED
    BY <1>2, <2>1, EndingClears
<1>4. CASE \E event \in In(client.events) : job \in Cleared(event)
  BY <1>4 DEF Steps
<1> QED
  BY <1>1, <1>2, <1>3, <1>4 DEF Tracked

\* A step of the client that takes no command.
LEMMA StepOrderly ==
  ASSUME Orderly, Steps(client, client', {}), UNCHANGED <<app, commands>>
  PROVE  Orderly'
<1>1. Coherent(client') /\ "stopped" \notin In(client'.events)
      /\ (app \in [flags : SUBSET UserJobs, fatal : BOOLEAN])'
  BY DEF Orderly, Steps
<1>2. \A job : Pending(job)' <=> Pending(job)
  BY DEF Pending
<1>3. FirstCommand'
  BY DEF Orderly, FirstCommand
<1>4. Alone'
  BY <1>2 DEF Orderly, Alone, Steps
<1>5. \A job \in UserJobs : Pending(job) \/ Runs(client, job) =>
        /\ ~Ending(client, job)
        /\ Pending(job) => ~Runs(client, job) /\ client.import.purpose # "restore"
  BY DEF Orderly, Shown, Alone
<1>6. \A job \in UserJobs : Pending(job) \/ Runs(client', job) =>
        (Pending(job) \/ Runs(client, job)) /\ ~Ending(client', job)
  BY <1>5 DEF Steps
<1>7. Shown'
  BY <1>2, <1>6 DEF Orderly, Shown, Leaving
<1>8. Tracked'
  BY <1>2, TrackedOn DEF Orderly
<1> QED
  BY <1>1, <1>3, <1>4, <1>7, <1>8 DEF Orderly

\* A step of the client that takes the first command.
LEMMA CommandOrderly ==
  ASSUME Orderly, commands # <<>>, commands' = Tail(commands), UNCHANGED app,
         Steps(client, client', {Head(commands)}),
         Head(commands) = "cancel" => ~Runs(client', "project"),
         Head(commands) \in {"title", "restart"} => \A job \in UserJobs : ~Runs(client', job)
  PROVE  Orderly'
<1> DEFINE command == Head(commands)
<1>1. /\ commands' \in Seq(Commands) /\ command \in In(commands) /\ command \in Commands
      /\ In(commands) = In(commands') \cup {command}
  BY CommandQueue DEF Orderly, FirstCommand
<1>2. \A i \in DOMAIN commands' : commands'[i] \notin UserJobs
  <2>1. SUFFICES ASSUME NEW i \in DOMAIN commands' PROVE commands'[i] \notin UserJobs
    OBVIOUS
  <2>2. i + 1 \in DOMAIN commands /\ commands'[i] = commands[i + 1] /\ i + 1 # 1
    BY DEF Orderly, FirstCommand
  <2> QED
    BY <2>2 DEF Orderly, FirstCommand
<1>3. FirstCommand' /\ \A job \in UserJobs : ~Pending(job)'
  BY <1>1, <1>2 DEF FirstCommand, Pending, In
<1>4. \A any : Pending(any) => Pending(any)' \/ any = command
  BY <1>1 DEF Pending
<1>5. Coherent(client') /\ "stopped" \notin In(client'.events)
      /\ (app \in [flags : SUBSET UserJobs, fatal : BOOLEAN])'
  BY DEF Orderly, Steps
<1>6. Alone'
  BY <1>3 DEF Alone
<1>7. Shown'
  <2>1. SUFFICES ASSUME NEW job \in UserJobs, Runs(client', job)
                 PROVE  /\ ~Ending(client', job)
                        /\ \/ job \in app.flags
                           \/ job = "project" /\ Pending("cancel")'
                           \/ job \in Manual /\ (app.fatal \/ Leaving')
    BY <1>3 DEF Shown
  <2>2. Pending(job) \/ Runs(client, job)
    BY <1>1, <2>1 DEF Steps, Pending
  <2>3. /\ ~Ending(client, job)
        /\ \/ job \in app.flags
           \/ job = "project" /\ Pending("cancel")
           \/ job \in Manual /\ (app.fatal \/ Leaving)
    BY <2>2 DEF Orderly, Shown
  <2>4. ~Ending(client', job)
    BY <2>1, <2>3 DEF Steps
  <2>5. job = "project" /\ Pending("cancel") => Pending("cancel")'
    BY <1>4, <2>1
  <2>6. Leaving => Leaving'
    BY <1>4, <2>1 DEF Leaving
  <2> QED
    BY <2>3, <2>4, <2>5, <2>6
<1>8. Tracked'
  BY <1>4, TrackedOn DEF Orderly
<1> QED
  BY <1>3, <1>5, <1>6, <1>7, <1>8 DEF Orderly

\* A step of the client that none of its jobs notices.
LEMMA UnseenOrderly ==
  ASSUME Orderly, UNCHANGED <<app, commands>>,
         View(client', client.export, client.project, client.diagnosis, client.import,
              client.events)
  PROVE  Orderly'
<1> DEFINE r == client'
<1>1. Coherent(client) /\ (client.export.stage = "none" => client.export = NoExport)
  BY DEF Orderly, Coherent, NoneIsNone
<1>2. View(r, r.export, client.project, client.diagnosis, r.import, client.events)
      /\ r.export = client.export /\ r.import = client.import
  BY DEF View
<1> HIDE DEF r
<1>3. Steps(client, r, {})
  BY <1>1, <1>2, Aloof
<1> QED
  BY <1>3, StepOrderly DEF r
-----------------------------------------------------------------------------
(* The worker and the runtime *)

\* A command is processed.
LEMMA ProcessKeeps ==
  ASSUME JobInv, "folder" \notin DiskFailures, ProcessCommand
  PROVE  JobInv'
<1>1. Orderly /\ commands # <<>> /\ commands' = Tail(commands) /\ UNCHANGED app
  BY DEF JobInv, ProcessCommand
<1> DEFINE command == Head(commands)
<1>2. PICK disk \in Disks : Continue(Process(client, command, disk), "commands")
  BY DEF ProcessCommand
<1>3. disk # "folder"
  BY DEF Disks
<1>4. command \in Commands /\ Pending(command)
  BY <1>1, CommandQueue DEF Orderly, FirstCommand, Pending
<1>5. command \in UserJobs => ~Ending(client, command)
  BY <1>1, <1>4 DEF Orderly, Shown
<1>6. command \in UserJobs \ {"diagnosis"} => Free(client)
  BY <1>1, <1>4, FreeClient DEF Orderly, Alone
<1>7. command = "diagnosis" => client.diagnosis = NoDiagnosis
  BY <1>1, <1>4 DEF Orderly, Alone, Runs, UserJobs, Manual
<1> DEFINE r == Process(client, command, disk)
<1>8. \/ r.failed = TRUE
      \/ /\ Steps(client, r, {command})
         /\ command = "cancel" => ~Runs(r, "project")
         /\ command \in {"title", "restart"} => \A job \in UserJobs : ~Runs(r, job)
  BY <1>1, <1>3, <1>4, <1>5, <1>6, <1>7, ProcessSteps DEF Orderly
<1> HIDE DEF r
<1>9. CASE r.failed = TRUE
  <2>1. pc' = "closed"
    BY <1>2, <1>9 DEF Continue, r
  <2> QED
    BY <2>1 DEF JobInv
<1>10. CASE r.failed # TRUE
  <2>1. pc' = "closed" \/ client' = r
    BY <1>2 DEF Continue, r
  <2>2. ASSUME client' = r
        PROVE  Orderly'
    BY <1>1, <1>8, <1>10, <2>2, CommandOrderly
  <2> QED
    BY <2>1, <2>2 DEF JobInv
<1> QED
  BY <1>9, <1>10

\* An output is handled.
LEMMA HandleKeeps ==
  ASSUME JobInv, HandleOutput
  PROVE  JobInv'
<1>1. /\ Orderly /\ UNCHANGED app /\ client.polled # <<>>
      /\ commands' = IF pc' = "closed" THEN <<>> ELSE commands
  BY DEF JobInv, HandleOutput
<1> DEFINE c == [client EXCEPT !.polled = Tail(client.polled)]
           m == Head(client.polled)
<1>2. PICK disk \in Disks : Continue(Handle(c, m, disk), "polling")
  BY DEF HandleOutput
<1>3. m.tag \in Outputs /\ OutputQueue(Tail(client.polled))
  BY <1>1, OutputQueues DEF Orderly, Coherent, Shape
<1>4. View(c, client.export, client.project, client.diagnosis, client.import, client.events)
  BY <1>1, <1>3 DEF View, Orderly, Coherent, Shape, NewClient
<1> HIDE DEF c, m
<1>5. Coherent(c)
  BY <1>1, <1>4 DEF Orderly, Coherent, View, NoneIsNone, Serves, ManualAlone
<1> DEFINE r == Handle(c, m, disk)
<1>6. r.failed = TRUE \/ Steps(c, r, {})
  BY <1>3, <1>5, HandleSteps
<1> HIDE DEF r
<1>7. r.failed = TRUE \/ Steps(client, r, {})
  BY <1>4, <1>6, Rebased DEF View
<1>8. CASE r.failed = TRUE
  <2>1. pc' = "closed"
    BY <1>2, <1>8 DEF Continue, r
  <2> QED
    BY <2>1 DEF JobInv
<1>9. CASE r.failed # TRUE
  <2>1. pc' = "closed" \/ client' = r
    BY <1>2 DEF Continue, r
  <2>2. ASSUME client' = r, pc' # "closed"
        PROVE  Orderly'
    BY <1>1, <1>7, <1>9, <2>2, StepOrderly
  <2> QED
    BY <2>1, <2>2 DEF JobInv
<1> QED
  BY <1>8, <1>9

\* The worker looks for postponed work.
LEMMA RefreshKeeps ==
  ASSUME JobInv, MaybeRefresh
  PROVE  JobInv'
<1>1. /\ Orderly /\ UNCHANGED app
      /\ commands' = IF pc' = "closed" THEN <<>> ELSE commands
  BY DEF JobInv, MaybeRefresh
<1>2. PICK disk \in Disks : Continue(Refresh(client, disk), "commands")
  BY DEF MaybeRefresh
<1> DEFINE r == Refresh(client, disk)
<1>3. r.failed = TRUE \/ Steps(client, r, {})
  BY <1>1, RefreshSteps DEF Orderly
<1> HIDE DEF r
<1>4. CASE r.failed = TRUE
  <2>1. pc' = "closed"
    BY <1>2, <1>4 DEF Continue, r
  <2> QED
    BY <2>1 DEF JobInv
<1>5. CASE r.failed # TRUE
  <2>1. pc' = "closed" \/ client' = r
    BY <1>2 DEF Continue, r
  <2>2. ASSUME client' = r, pc' # "closed"
        PROVE  Orderly'
    BY <1>1, <1>3, <1>5, <2>2, StepOrderly
  <2> QED
    BY <2>1, <2>2 DEF JobInv
<1> QED
  BY <1>4, <1>5

\* A delay is over, or begins again.
LEMMA DelayKeeps ==
  ASSUME JobInv, TimePasses \/ Defer
  PROVE  JobInv'
<1>1. Orderly /\ UNCHANGED <<app, commands, pc>>
  BY DEF JobInv, TimePasses, Defer
<1>2. CASE Defer
  <2>1. View(client', client.export, client.project, client.diagnosis, client.import,
             client.events)
    BY <1>1, <1>2 DEF Defer, Orderly, Coherent, View, Shape, NewClient, NoCache
  <2> QED
    BY <1>1, <2>1, UnseenOrderly DEF JobInv
<1>3. CASE TimePasses
  <2> DEFINE project == [client.project EXCEPT !.waiting = FALSE]
             diagnosis == [client.diagnosis EXCEPT !.waiting = FALSE]
  <2>1. View(client', client.export, client'.project, client'.diagnosis, client.import,
             client.events)
        /\ client'.project = project /\ client'.diagnosis = diagnosis
    BY <1>1, <1>3 DEF TimePasses, Orderly, Coherent, View, Shape, NewClient, NoCache, NoProject,
                     NoDiagnosis
  <2>2. /\ project = NoProject <=> client.project = NoProject
        /\ project.file = 0 => project = NoProject
    <3>1. project.file = client.project.file
      BY <1>1 DEF Orderly, Coherent, Shape, NoProject
    <3>2. client.project = NoProject => project = NoProject
      <4>1. NoProject \in [file : Nat, waiting : BOOLEAN] /\ NoProject.waiting = FALSE
        BY DEF NoProject
      <4>2. [NoProject EXCEPT !.waiting = FALSE] = NoProject
        BY <4>1
      <4> QED
        BY <4>2
    <3>3. client.project.file = 0 => client.project = NoProject
      BY <1>1 DEF Orderly, Coherent, NoneIsNone
    <3>4. NoProject.file = 0
      BY DEF NoProject
    <3> QED
      BY <3>1, <3>2, <3>3, <3>4
  <2>3. /\ diagnosis = NoDiagnosis <=> client.diagnosis = NoDiagnosis
        /\ diagnosis.stage = client.diagnosis.stage
        /\ diagnosis.stage = "none" => diagnosis = NoDiagnosis
    <3>1. diagnosis.stage = client.diagnosis.stage
      BY <1>1 DEF Orderly, Coherent, Shape, NoDiagnosis
    <3>2. client.diagnosis = NoDiagnosis => diagnosis = NoDiagnosis
      <4>1. /\ NoDiagnosis \in [stage : {"none"}, folder : Nat, parts : {{}},
                                waiting : BOOLEAN]
            /\ NoDiagnosis.waiting = FALSE
        BY DEF NoDiagnosis
      <4>2. [NoDiagnosis EXCEPT !.waiting = FALSE] = NoDiagnosis
        BY <4>1
      <4> QED
        BY <4>2
    <3>3. client.diagnosis.stage = "none" => client.diagnosis = NoDiagnosis
      BY <1>1 DEF Orderly, Coherent, NoneIsNone
    <3>4. NoDiagnosis.stage = "none"
      BY DEF NoDiagnosis
    <3> QED
      BY <3>1, <3>2, <3>3, <3>4
  <2> HIDE DEF project, diagnosis
  <2> DEFINE r == client'
  <2> HIDE DEF r
  <2>4. View(r, client.export, project, diagnosis, client.import, client.events)
    BY <2>1 DEF View, r
  <2>5. Coherent(r)
    BY <1>1, <2>2, <2>3, <2>4
    DEF Orderly, Coherent, View, NoneIsNone, Serves, ManualAlone
  <2>6. \A job \in UserJobs : Runs(r, job) <=> Runs(client, job)
    BY <2>2, <2>3, <2>4 DEF View, Runs
  <2>7. Steps(client, r, {})
    BY <2>4, <2>5, <2>6 DEF View, Steps, Ending
  <2> QED
    BY <1>1, <2>7, StepOrderly DEF JobInv, r
<1> QED
  BY <1>2, <1>3

\* The runtime answers what was submitted, or the game fails.
LEMMA RuntimeKeeps ==
  ASSUME JobInv, RtConsume \/ RtFault
  PROVE  JobInv'
<1>1. Orderly /\ UNCHANGED <<app, commands, pc>>
  BY DEF JobInv, RtConsume, RtFault
<1>2. ASSUME NEW sent, NEW messages, OutputQueue(client.polled \o messages),
             client' = [client EXCEPT !.sent = sent, !.polled = client.polled \o messages]
      PROVE  JobInv'
  <2>1. View(client', client.export, client.project, client.diagnosis, client.import,
             client.events)
    BY <1>1, <1>2 DEF Orderly, Coherent, View, Shape, NewClient
  <2> QED
    BY <1>1, <2>1, UnseenOrderly DEF JobInv
<1>3. /\ OutputQueue(client.polled \o <<>>)
      /\ \A tag \in Outputs : \A id, kind, transfer :
           OutputQueue(client.polled \o <<Message(tag, id, kind, transfer)>>)
  BY <1>1, OutputQueues DEF Orderly, Coherent, Shape, Message
<1>4. CASE RtFault
  <2>1. Append(client.polled, Message("fault", 0, "none", 0))
          = client.polled \o <<Message("fault", 0, "none", 0)>>
    <3>1. PICK S : client.polled \in Seq(S)
      BY <1>1 DEF Orderly, Coherent, Shape, OutputQueue
    <3> QED
      BY <3>1
  <2>2. client' = [client EXCEPT !.sent = client.sent,
                                 !.polled = client.polled
                                              \o <<Message("fault", 0, "none", 0)>>]
    BY <1>1, <1>4, <2>1 DEF RtFault, Orderly, Coherent, Shape, NewClient
  <2>3. "fault" \in Outputs
    BY DEF Outputs
  <2> QED
    BY <1>2, <1>3, <2>2, <2>3
<1>5. CASE RtConsume
  <2> DEFINE m == Head(client.sent)
  <2>1. \/ RtExport(m) \/ RtRead(m) \/ RtImport(m) \/ RtClose(m)
    BY <1>5 DEF RtConsume
  <2>2. \A messages, stillOpen :
          Reply(messages, stillOpen) =>
            client' = [client EXCEPT !.sent = Tail(client.sent),
                                     !.polled = client.polled \o messages]
    BY DEF Reply
  <2>3. {"ready", "ineligible", "invalid_state", "rejected", "last_chunk", "chunk", "accepted",
         "imported"} \subseteq Outputs
    BY DEF Outputs
  <2> HIDE DEF m
  <2>4. \E messages, stillOpen :
          Reply(messages, stillOpen) /\ OutputQueue(client.polled \o messages)
    <3>1. CASE RtExport(m)
      <4>1. CASE \E chunks \in 1..MaxChunks :
                   Reply(<<Message("ready", m.id, m.kind, NewTransfer)>>,
                         open \cup {[id |-> NewTransfer, kind |-> m.kind, chunks |-> chunks]})
        BY <1>3, <2>3, <4>1
      <4>2. CASE \E tag \in {"ineligible", "invalid_state", "rejected"} :
                   Reply(<<Message(tag, m.id, m.kind, 0)>>, open)
        BY <1>3, <2>3, <4>2
      <4> QED
        BY <3>1, <4>1, <4>2 DEF RtExport
    <3>2. CASE RtRead(m)
      BY <1>3, <2>3, <3>2 DEF RtRead
    <3>3. CASE RtImport(m)
      BY <1>3, <2>3, <3>3 DEF RtImport
    <3>4. CASE RtClose(m)
      BY <1>3, <3>4 DEF RtClose
    <3> QED
      BY <2>1, <3>1, <3>2, <3>3, <3>4
  <2> QED
    BY <1>2, <2>2, <2>4
<1> QED
  BY <1>4, <1>5
-----------------------------------------------------------------------------
(* The app *)

\* While no export is shown and the app is not left, nothing runs.
LEMMA MenuMeansFree ==
  ASSUME Orderly, MenuOpen, commands = <<>>
  PROVE  \A job \in UserJobs : ~Runs(client, job)
<1>1. \A any : ~Pending(any)
  BY DEF Pending, In
<1> QED
  BY <1>1 DEF Orderly, Shown, MenuOpen, Leaving

\* The app keeps its shape.
LEMMA AppFields ==
  ASSUME app \in [flags : SUBSET UserJobs, fatal : BOOLEAN]
  PROVE  /\ \A flags : [app EXCEPT !.flags = flags] = [flags |-> flags, fatal |-> app.fatal]
         /\ \A fatal : [app EXCEPT !.fatal = fatal] = [flags |-> app.flags, fatal |-> fatal]
  OBVIOUS

\* A job is chosen.
LEMMA ChooseKeeps ==
  ASSUME JobInv, Careful, StartExport \/ StartDiagnosis
  PROVE  JobInv'
<1>1. /\ pc # "closed" /\ Orderly
      /\ app \in [flags : SUBSET UserJobs, fatal : BOOLEAN]
  BY DEF StartExport, StartDiagnosis, Choose, JobInv, Orderly
<1>2. PICK job \in UserJobs :
        /\ Choose(job) /\ Patient(job) /\ job \notin app.flags
        /\ app' = [app EXCEPT !.flags = app.flags \cup {job}]
        /\ job # "diagnosis" => MenuOpen
  <2>1. CASE StartExport
    BY <2>1, TransferAssumption DEF StartExport, UserJobs, MenuOpen
  <2>2. CASE StartDiagnosis
    BY <2>2 DEF StartDiagnosis, UserJobs
  <2> QED
    BY <2>1, <2>2
<1>3. app'.fatal = app.fatal /\ app'.flags = app.flags \cup {job} /\ app.flags \subseteq UserJobs
      /\ (app \in [flags : SUBSET UserJobs, fatal : BOOLEAN])'
  BY <1>1, <1>2, AppFields
<1>4. commands = <<>> /\ ~Ending(client, job) /\ client.import.purpose # "restore"
  BY <1>2 DEF Patient, Ending, NoImport
<1>5. commands' = <<job>> /\ UNCHANGED <<client, pc>>
  BY <1>2, <1>4 DEF Choose
<1>6. /\ \A any : ~Pending(any)
      /\ \A any : Pending(any)' <=> any = job
  BY <1>4, <1>5 DEF Pending, In
<1>7. job # "diagnosis" => \A other \in UserJobs : ~Runs(client, other)
  BY <1>1, <1>2, <1>4, MenuMeansFree
<1>8. ~Runs(client, job)
  BY <1>1, <1>2, <1>6, <1>7 DEF Orderly, Shown, Manual
<1>9. FirstCommand'
  BY <1>5 DEF FirstCommand, Commands
<1>10. Alone'
  BY <1>4, <1>5, <1>6, <1>7, <1>8 DEF Alone
<1>11. Shown'
  <2>1. SUFFICES ASSUME NEW other \in UserJobs, other = job \/ Runs(client, other)
                 PROVE  /\ ~Ending(client, other)
                        /\ other \in app'.flags \/ (other \in Manual /\ app'.fatal)
    BY <1>5, <1>6 DEF Shown
  <2>2. CASE other = job
    BY <1>3, <1>4, <2>2
  <2>3. CASE Runs(client, other)
    <3>1. /\ ~Ending(client, other)
          /\ other \in app.flags \/ (other \in Manual /\ app.fatal)
      BY <1>1, <1>6, <2>3 DEF Orderly, Shown, Leaving
    <3> QED
      BY <1>3, <3>1
  <2> QED
    BY <2>1, <2>2, <2>3
<1>12. Tracked'
  BY <1>1, <1>3, <1>5, <1>6 DEF Orderly, Tracked
<1> QED
  BY <1>1, <1>3, <1>5, <1>9, <1>10, <1>11, <1>12 DEF JobInv, Orderly

\* What is no job is queued behind whatever waits.
LEMMA MoveQueued ==
  ASSUME FirstCommand, NEW move \in Commands \ UserJobs, commands' = Append(commands, move)
  PROVE  FirstCommand' /\ \A any : Pending(any)' <=> Pending(any) \/ any = move
<1>1. commands' \in Seq(Commands) /\ In(commands') = In(commands) \cup {move}
  BY CommandQueue DEF FirstCommand
<1>2. \A i \in DOMAIN commands' : commands'[i] \in UserJobs => i = 1
  <2>1. SUFFICES ASSUME NEW i \in DOMAIN commands', commands'[i] \in UserJobs PROVE i = 1
    OBVIOUS
  <2>2. i \in DOMAIN commands /\ commands'[i] = commands[i]
    BY <2>1 DEF FirstCommand
  <2> QED
    BY <2>1, <2>2 DEF FirstCommand
<1> QED
  BY <1>1, <1>2 DEF FirstCommand, Pending

\* The project file is cancelled.
LEMMA CancelKeeps ==
  ASSUME JobInv, CancelExport
  PROVE  JobInv'
<1>1. /\ pc # "closed" /\ Orderly /\ Choose("cancel")
      /\ app' = [app EXCEPT !.flags = app.flags \ {"project"}]
      /\ app \in [flags : SUBSET UserJobs, fatal : BOOLEAN]
  BY DEF CancelExport, Choose, JobInv, Orderly
<1>2. app'.fatal = app.fatal /\ app'.flags = app.flags \ {"project"}
      /\ (app \in [flags : SUBSET UserJobs, fatal : BOOLEAN])'
  BY <1>1, AppFields
<1>3. "cancel" \in Commands \ UserJobs
  BY DEF Commands, UserJobs
<1>4. FirstCommand' /\ \A any : Pending(any)' <=> Pending(any) \/ any = "cancel"
  BY <1>1, <1>3, MoveQueued DEF Orderly, Choose
<1>5. UNCHANGED <<client, pc>>
  BY <1>1 DEF Choose
<1>6. Alone'
  BY <1>1, <1>3, <1>4, <1>5 DEF Orderly, Alone
<1>7. Shown'
  <2>1. SUFFICES ASSUME NEW job \in UserJobs, Pending(job) \/ Runs(client, job)
                 PROVE  /\ ~Ending(client, job)
                        /\ \/ job \in app'.flags
                           \/ job = "project" /\ Pending("cancel")'
                           \/ job \in Manual /\ (app'.fatal \/ Leaving')
    BY <1>3, <1>4, <1>5 DEF Shown
  <2>2. /\ ~Ending(client, job)
        /\ \/ job \in app.flags
           \/ job = "project" /\ Pending("cancel")
           \/ job \in Manual /\ (app.fatal \/ Leaving)
    BY <1>1, <2>1 DEF Orderly, Shown
  <2>3. Pending("cancel")' /\ (Leaving => Leaving')
    BY <1>4 DEF Leaving
  <2> QED
    BY <1>2, <2>2, <2>3
<1>8. Tracked'
  BY <1>1, <1>2, <1>4, <1>5 DEF Orderly, Tracked
<1> QED
  BY <1>1, <1>2, <1>4, <1>5, <1>6, <1>7, <1>8 DEF JobInv, Orderly

\* The game is left, restarted or restored.
LEMMA LeaveKeeps ==
  ASSUME JobInv, Leave
  PROVE  JobInv'
<1>1. PICK move \in {"title", "restart", "restore"} :
        /\ Choose(move) /\ app' = [app EXCEPT !.fatal = FALSE]
        /\ (app.flags = {} /\ ~app.fatal) \/ move # "restore"
  BY TransferAssumption DEF Leave, MenuOpen
<1>2. /\ pc # "closed" /\ Orderly
      /\ app \in [flags : SUBSET UserJobs, fatal : BOOLEAN]
  BY <1>1 DEF Choose, JobInv, Orderly
<1>3. app'.fatal = FALSE /\ app'.flags = app.flags
      /\ (app \in [flags : SUBSET UserJobs, fatal : BOOLEAN])'
  BY <1>1, <1>2, AppFields
<1>4. move \in Commands \ UserJobs
  BY DEF Commands, UserJobs
<1>5. FirstCommand' /\ \A any : Pending(any)' <=> Pending(any) \/ any = move
  BY <1>1, <1>2, <1>4, MoveQueued DEF Orderly, Choose
<1>6. UNCHANGED <<client, pc>>
  BY <1>1 DEF Choose
<1>7. Alone'
  BY <1>2, <1>4, <1>5, <1>6 DEF Orderly, Alone
<1>8. Leaving \/ app.fatal => Leaving' \/ (app.flags = {} /\ ~app.fatal)
  BY <1>1, <1>5 DEF Leaving
<1>9. Leaving => Leaving'
  BY <1>5 DEF Leaving
<1>10. Shown'
  <2>1. SUFFICES ASSUME NEW job \in UserJobs, Pending(job) \/ Runs(client, job)
                 PROVE  /\ ~Ending(client, job)
                        /\ \/ job \in app.flags
                           \/ job = "project" /\ Pending("cancel")'
                           \/ job \in Manual /\ Leaving'
    BY <1>3, <1>4, <1>5, <1>6 DEF Shown
  <2>2. /\ ~Ending(client, job)
        /\ \/ job \in app.flags
           \/ job = "project" /\ Pending("cancel")
           \/ job \in Manual /\ (app.fatal \/ Leaving)
    BY <1>2, <2>1 DEF Orderly, Shown
  <2>3. Pending("cancel") => Pending("cancel")'
    BY <1>5
  <2> QED
    BY <1>8, <1>9, <2>2, <2>3
<1>11. Tracked'
  BY <1>2, <1>3, <1>5, <1>6 DEF Orderly, Tracked
<1> QED
  BY <1>2, <1>3, <1>5, <1>6, <1>7, <1>10, <1>11 DEF JobInv, Orderly

\* An event is handled.
LEMMA EventKeeps ==
  ASSUME JobInv, HandleEvent
  PROVE  JobInv'
<1> DEFINE event == Head(client.events)
<1>1. /\ UNCHANGED <<commands, pc>> /\ client.events # <<>>
      /\ client' = [client EXCEPT !.events = Tail(client.events)]
      /\ app' = [flags |-> app.flags \ Cleared(event),
                 fatal |-> event = "fault" \/ (app.fatal /\ event # "reset")]
  BY DEF HandleEvent
<1>2. SUFFICES ASSUME Orderly PROVE Orderly'
  BY <1>1 DEF JobInv
<1>3. Coherent(client) /\ Shape(client)
  BY <1>2 DEF Orderly, Coherent
<1>4. /\ event \in In(client.events) /\ event \in Events /\ Tail(client.events) \in Seq(Events)
      /\ In(client.events) = In(Tail(client.events)) \cup {event}
  BY <1>1, <1>3, EventQueue DEF Shape
<1> HIDE DEF event
<1>5. View(client', client.export, client.project, client.diagnosis, client.import,
           Tail(client.events))
  BY <1>1, <1>3, <1>4 DEF View, Shape, NewClient
<1> DEFINE r == client'
<1>6. View(r, client.export, client.project, client.diagnosis, client.import,
           Tail(client.events))
  BY <1>5
<1> HIDE DEF r
<1>7. Coherent(r)
  BY <1>3, <1>6 DEF Coherent, View, NoneIsNone, Serves, ManualAlone
<1>8. /\ \A job : Runs(r, job) <=> Runs(client, job)
      /\ r.import = client.import /\ r.events = Tail(client.events)
  BY <1>6 DEF View, Runs
<1>9. event # "stopped" /\ "stopped" \notin In(r.events)
  BY <1>2, <1>4, <1>8 DEF Orderly
<1>10. (app \in [flags : SUBSET UserJobs, fatal : BOOLEAN])'
  BY <1>1, <1>2 DEF Orderly
<1>11. app'.flags = app.flags \ Cleared(event)
  BY <1>1
<1>12. app'.fatal <=> event = "fault" \/ (app.fatal /\ event # "reset")
  BY <1>1
<1>13. FirstCommand' /\ \A any : Pending(any)' <=> Pending(any)
  BY <1>1, <1>2 DEF Orderly, FirstCommand, Pending
<1>14. Alone'
  BY <1>2, <1>8, <1>13 DEF Orderly, Alone, r
<1>15. \A job \in UserJobs : job \in Cleared(event) =>
         \/ event = job \/ event = "reset" \/ (event = "fault" /\ job \in Manual)
  BY <1>4, <1>9 DEF Cleared, UserJobs, Events
<1>16. Shown'
  <2>1. SUFFICES ASSUME NEW job \in UserJobs, Pending(job) \/ Runs(client, job)
                 PROVE  /\ ~Ending(r, job)
                        /\ \/ job \in app'.flags
                           \/ job = "project" /\ Pending("cancel")
                           \/ job \in Manual /\ (app'.fatal \/ Leaving)
    BY <1>8, <1>13 DEF Shown, Leaving, r
  <2>2. /\ ~Ending(client, job)
        /\ \/ job \in app.flags
           \/ job = "project" /\ Pending("cancel")
           \/ job \in Manual /\ (app.fatal \/ Leaving)
    BY <1>2, <2>1 DEF Orderly, Shown
  <2>3. ~Ending(r, job) /\ event # job /\ event # "reset"
    BY <1>4, <1>8, <2>2 DEF Ending
  <2>4. job \in app.flags => job \in app'.flags \/ (job \in Manual /\ event = "fault")
    BY <1>11, <1>15, <2>3
  <2>5. app.fatal \/ event = "fault" => app'.fatal
    BY <1>12, <2>3
  <2> QED
    BY <2>2, <2>3, <2>4, <2>5
<1>17. Tracked'
  <2>1. SUFFICES ASSUME NEW job \in app.flags, job \notin Cleared(event)
                 PROVE  \/ Pending(job) \/ Runs(client, job)
                        \/ \E other \in In(r.events) : job \in Cleared(other)
    BY <1>8, <1>11, <1>13 DEF Tracked, r
  <2>2. \/ Pending(job) \/ Runs(client, job)
        \/ \E other \in In(client.events) : job \in Cleared(other)
    BY <1>2, <2>1 DEF Orderly, Tracked
  <2> QED
    BY <1>4, <1>8, <2>1, <2>2
<1> QED
  BY <1>7, <1>9, <1>10, <1>13, <1>14, <1>16, <1>17 DEF Orderly, r

\* The pump goes on, or nothing happens.
LEMMA PumpKeeps ==
  ASSUME JobInv, BeginPump \/ EndDrive \/ EndPoll \/ UNCHANGED vars
  PROVE  JobInv'
<1>1. UNCHANGED <<client, app, commands>> /\ (pc' # "closed" => pc # "closed")
  BY DEF BeginPump, EndDrive, EndPoll, vars
<1>2. Orderly => Orderly'
  BY <1>1 DEF Orderly, FirstCommand, Alone, Shown, Tracked, Pending, Leaving
<1> QED
  BY <1>1, <1>2 DEF JobInv
-----------------------------------------------------------------------------
(* The theorem *)

\* A new client does nothing and nothing is shown.
LEMMA InitHolds ==
  ASSUME Init
  PROVE  JobInv
<1>1. PICK due \in BOOLEAN : client = [NewClient EXCEPT !.cache.due = due]
  BY TransferAssumption DEF Init
<1>2. View(client, NoExport, NoProject, NoDiagnosis, NoImport, <<>>)
  <2>1. OutputQueue(<<>>) /\ IsFiniteSet({})
    BY OutputQueues, FS_EmptySet
  <2> QED
    BY <1>1, <2>1 DEF View, Shape, NewClient, NoCache, NoExport, NoImport
<1>3. Coherent(client)
  BY <1>2 DEF Coherent, View, NoneIsNone, Serves, ManualAlone, NoExport, NoImport, NoProject,
             NoDiagnosis, Manual
<1>4. In(client.events) = {} /\ \A job \in UserJobs : ~Runs(client, job)
  BY <1>2 DEF View, In, Runs, NoExport, Manual
<1>5. /\ app = [flags |-> {}, fatal |-> FALSE] /\ commands = <<>>
      /\ app \in [flags : SUBSET UserJobs, fatal : BOOLEAN] /\ app.flags = {}
  BY DEF Init
<1>6. FirstCommand /\ \A any : ~Pending(any)
  BY <1>5 DEF FirstCommand, Pending, In
<1> QED
  BY <1>3, <1>4, <1>5, <1>6 DEF JobInv, Orderly, Alone, Shown, Tracked

\* Every step of the worker, the runtime, the app and the user keeps the invariant.
LEMMA NextKeeps ==
  ASSUME JobInv, Careful, "folder" \notin DiskFailures, [Next]_vars
  PROVE  JobInv'
<1>1. CASE ProcessCommand
  BY <1>1, ProcessKeeps
<1>2. CASE BeginPump \/ EndDrive \/ EndPoll \/ Stopped \/ UNCHANGED vars
  BY <1>2, PumpKeeps DEF Stopped
<1>3. CASE HandleOutput
  BY <1>3, HandleKeeps
<1>4. CASE MaybeRefresh
  BY <1>4, RefreshKeeps
<1>5. CASE TimePasses \/ Defer
  BY <1>5, DelayKeeps
<1>6. CASE RtConsume \/ RtFault
  BY <1>6, RuntimeKeeps
<1>7. CASE StartExport \/ StartDiagnosis
  BY <1>7, ChooseKeeps
<1>8. CASE CancelExport
  BY <1>8, CancelKeeps
<1>9. CASE Leave
  BY <1>9, LeaveKeeps
<1>10. CASE HandleEvent
  BY <1>10, EventKeeps
<1> QED
  BY <1>1, <1>2, <1>3, <1>4, <1>5, <1>6, <1>7, <1>8, <1>9, <1>10 DEF Next, Worker

\* The invariant says what JobTracked asks.
LEMMA OrderlyTracked ==
  ASSUME JobInv
  PROVE  JobTracked
<1>1. SUFFICES ASSUME pc # "closed", NEW job \in app.flags
               PROVE  \/ job \in In(commands) \/ Working(job)
                      \/ \E event \in In(client.events) : job \in Cleared(event)
  BY DEF JobTracked
<1>2. job \in UserJobs
  BY <1>1 DEF JobInv, Orderly
<1>3. Working(job) <=> Runs(client, job)
  BY <1>2 DEF Working, Runs, UserJobs, Manual
<1> QED
  BY <1>1, <1>3 DEF JobInv, Orderly, Tracked, Pending

\* No menu stays locked by an export that is gone: while the worker runs, every flag
\* the app shows (_handle_export_event clears them) has a command that will begin its
\* job, the job itself, or an event that will clear it.  Careful is needed: the event
\* of a job given up clears the flag of the next one.  So is the folder: a diagnosis
\* that cannot make its archive drops the export of another job with it.
THEOREM JobsTracked ==
  ASSUME Careful, "folder" \notin DiskFailures
  PROVE  Spec => []JobTracked
<1>1. Init => JobInv
  BY InitHolds
<1>2. JobInv /\ [Next]_vars => JobInv'
  BY NextKeeps
<1>3. JobInv => JobTracked
  BY OrderlyTracked
<1> QED
  BY <1>1, <1>2, <1>3, PTL DEF Spec
-----------------------------------------------------------------------------
(* What is under way between the client and the runtime *)

\* Everything under way, the oldest first: what was consumed comes before what waits.
Line(c) == c.polled \o c.sent

Inputs == {"export", "read", "begin", "commit", "release", "cancel", "transition"}
Messages == [tag : Inputs \cup Outputs, id : Nat, kind : Kinds \cup {"none"}, transfer : Nat]
Requested == {"export", "ready", "ineligible"}
Streamed == {"read", "chunk", "last_chunk"}
Refusals == {"rejected", "invalid_state"}
Closings == {"release", "cancel", "transition"}

\* The message belongs to an export: to the one under way if it refuses a request.
About(x, m) ==
  \/ m.tag \in Requested \cup Streamed
  \/ m.tag \in Refusals /\ m.id # 0 /\ m.id = x.message

\* What is said of the export that is under way is what comes next in it.
Fits(x, m) ==
  /\ m.tag \in Requested \cup Refusals => m.id = x.message /\ x.message # 0 /\ x.transfer = 0
  /\ m.tag \in Requested => m.kind = Kind(x.stage)
  /\ m.tag \in Streamed => x.message = 0 /\ m.transfer = x.transfer /\ x.transfer # 0

\* A message that closes an export the runtime holds open, or one it will open.
Closes(m, e) ==
  m.tag \in Closings /\ (m.tag = "transition" \/ m.transfer = e.id \/ m.kind = e.kind)
Stops(m, kind) == m.tag \in Closings /\ (m.tag = "transition" \/ m.kind = kind)

\* The message an import waits for.
Awaited(i) == IF i.transfer = 0 THEN i.begin ELSE i.commit

\* At most one message is about an export, and it fits the one under way.
OneTalk(L, x) ==
  /\ \A p, q \in DOMAIN L : About(x, L[p]) /\ About(x, L[q]) => p = q
  /\ x # NoExport => \A p \in DOMAIN L : About(x, L[p]) => Fits(x, L[p])

\* Requests have numbers of their own.
Numbered(L, x, i) ==
  /\ L \in Seq(Messages)
  /\ {x.message, x.transfer, i.begin, i.transfer, i.commit} \subseteq Nat
  /\ x.message # 0 => x.message \notin {i.begin, i.commit}
  /\ i # NoImport => i.begin \notin {0, i.commit} /\ (i.transfer = 0 <=> i.commit = 0)
  /\ \A p \in DOMAIN L :
       /\ L[p].tag \in {"accepted", "ready", "commit", "imported"} => L[p].transfer # 0
       /\ L[p].id # 0 /\ L[p].id = x.message => L[p].tag \in Requested \cup Refusals
       /\ L[p].id # 0 /\ L[p].id = i.begin => L[p].tag \in {"begin", "accepted", "rejected"}
       /\ L[p].id # 0 /\ L[p].id = i.commit =>
            \/ L[p].tag \in {"commit", "imported"} /\ L[p].transfer = i.transfer
            \/ L[p].tag = "rejected"

\* An import is never forgotten: what it waits for is under way.
Awaits(L, i) == i # NoImport => \E p \in DOMAIN L : L[p].id = Awaited(i)

\* What is left of an export that was given up comes before what an import waits for.
InTurn(L, x, i) ==
  x = NoExport /\ i # NoImport =>
    \A p, q \in DOMAIN L : About(x, L[p]) /\ L[q].id = Awaited(i) => p < q

\* The client holds the export the runtime has open, or will hold it.
Held(L, x, e) ==
  /\ x # NoExport
  /\ \/ x.transfer = e.id
     \/ \E p \in DOMAIN L : L[p].tag = "ready" /\ L[p].transfer = e.id

\* What the runtime holds or will hold open, the client holds or has closed.
Covered(L, x, o) ==
  /\ \A e \in o : Held(L, x, e) \/ \E p \in DOMAIN L : Closes(L[p], e)
  /\ x = NoExport => \A p \in DOMAIN L : L[p].tag = "export" =>
                       \E q \in DOMAIN L : p < q /\ Stops(L[q], L[p].kind)

\* Transfers have numbers of their own, and are over with their last chunk.
Registered(L, x, o) ==
  /\ IsFiniteSet(o)
  /\ \A e \in o :
       /\ e.id \in Nat \ {0}
       /\ e.id = x.transfer => e.kind = Kind(x.stage)
       /\ \A other \in o : other.id = e.id => other = e
       /\ \A p \in DOMAIN L : L[p].transfer = e.id =>
            (L[p].tag = "ready" => e.kind = L[p].kind) /\ L[p].tag # "last_chunk"

Conversation(L, x, i, o) ==
  /\ OneTalk(L, x) /\ Numbered(L, x, i) /\ Awaits(L, i) /\ InTurn(L, x, i)
  /\ Covered(L, x, o) /\ Registered(L, x, o)

\* The queues hold what either side says.
Wired(c) ==
  /\ c.sent \in Seq({m \in Messages : m.tag \in Inputs})
  /\ c.polled \in Seq({m \in Messages : m.tag \in Outputs})

\* What excludes what among the jobs of the client.
Placed(c) ==
  /\ c.import.purpose \in {"project", "diagnosis"} => c.export = NoExport
  /\ c.import.purpose = "restore" =>
       c.project = NoProject /\ c.diagnosis = NoDiagnosis /\ c.export.stage \in {"none", "cache"}
  /\ c.project # NoProject => c.export.stage # "cache"
  /\ {c.cache.due, c.cache.waiting, c.cache.prepared, c.failed} \subseteq BOOLEAN
  /\ Packaged => ~c.cache.due /\ ~c.cache.prepared /\ c.export.stage # "cache"

Converses(c, o) ==
  Wired(c) /\ Placed(c) /\ Conversation(Line(c), c.export, c.import, o)

\* Nothing of an export is under way.
Silent(c) == \A p \in DOMAIN Line(c) : ~About(c.export, Line(c)[p])

\* A job is commanded only when it can begin at once: no import is under way and
\* nothing is left of an export.  A diagnosis besides a project file is the fatal dialog's.
Ready ==
  /\ \A job \in UserJobs : Pending(job) =>
       client.import = NoImport /\ (client.export = NoExport => Silent(client))
  /\ \A job \in Manual : Pending(job) => client.export = NoExport /\ ~client.cache.due
  /\ (Runs(client, "diagnosis") \/ Pending("diagnosis"))
       /\ (Runs(client, "project") \/ Pending("project")) => app.fatal /\ ~Pending("cancel")

\* Before a restore comes what ends the jobs.
RestoreWaits ==
  \A p \in DOMAIN commands : commands[p] = "restore" =>
    \A job \in UserJobs : Runs(client, job) \/ Pending(job) =>
      \E q \in DOMAIN commands :
        /\ q < p
        /\ commands[q] \in {"title", "restart"} \/ (job = "project" /\ commands[q] = "cancel")

\* What the client asks for and then gives up in a pump is a game that is replaced.
Pumped ==
  /\ pc \in {"commands", "refreshing"} => client.polled = <<>>
  /\ pc \in {"polling", "refreshing"} /\ client.export = NoExport
       /\ (\E p \in DOMAIN client.sent : client.sent[p].tag \in {"export", "read"}) =>
       /\ client.project = NoProject /\ client.diagnosis = NoDiagnosis
       /\ client.import = NoImport /\ (client.cache.due => client.cache.waiting)

TalkInv ==
  pc # "closed" =>
    /\ Converses(client, open) /\ client.failed = FALSE
    /\ Ready /\ RestoreWaits /\ Pumped
\* The user begins nothing while a message about what he gave up is on its way.
Waits ==
  StartExport \/ StartDiagnosis => (client.export = NoExport => MessagesOf(client) = {})
-----------------------------------------------------------------------------
(* The line: a message more, a message less, a message answered *)

\* K is L and m behind it, at n.
Grown(L, K, n, m) ==
  /\ K \in Seq(Messages) /\ m \in Messages /\ n \in Nat
  /\ DOMAIN K = DOMAIN L \cup {n} /\ K[n] = m
  /\ \A p \in DOMAIN L : K[p] = L[p] /\ p < n /\ p \in Nat

\* K is L without the message at h; f says where the others were.
Thinned(L, K, h, f) ==
  /\ K \in Seq(Messages) /\ h \in DOMAIN L
  /\ \A p \in DOMAIN K : f[p] \in DOMAIN L /\ f[p] # h /\ K[p] = L[f[p]]
  /\ \A p, q \in DOMAIN K : (f[p] < f[q] => p < q) /\ (f[p] = f[q] => p = q)
  /\ \A p \in DOMAIN L : p = h \/ \E q \in DOMAIN K : f[q] = p

\* A message is added at the end.
LEMMA Growing ==
  ASSUME NEW L \in Seq(Messages), NEW m \in Messages
  PROVE  Grown(L, Append(L, m), Len(L) + 1, m)
<1>1. /\ Append(L, m) \in Seq(Messages) /\ Len(L) \in Nat
      /\ DOMAIN L = 1..Len(L) /\ DOMAIN Append(L, m) = 1..(Len(L) + 1)
      /\ Append(L, m)[Len(L) + 1] = m
      /\ \A p \in 1..Len(L) : Append(L, m)[p] = L[p]
  OBVIOUS
<1> QED
  BY <1>1 DEF Grown

\* The first message is taken off.
LEMMA Thinning ==
  ASSUME NEW P \in Seq(Messages), P # <<>>, NEW S \in Seq(Messages)
  PROVE  Thinned(P \o S, Tail(P) \o S, 1, [p \in Nat |-> p + 1]) /\ (P \o S)[1] = Head(P)
<1> DEFINE L == P \o S
           K == Tail(P) \o S
           f == [p \in Nat |-> p + 1]
<1>1. /\ Len(P) \in Nat \ {0} /\ Len(S) \in Nat /\ Tail(P) \in Seq(Messages)
      /\ Len(Tail(P)) = Len(P) - 1 /\ \A p \in 1..(Len(P) - 1) : Tail(P)[p] = P[p + 1]
      /\ Head(P) = P[1]
  OBVIOUS
<1>2. /\ K \in Seq(Messages) /\ Len(K) = Len(P) + Len(S) - 1 /\ Len(L) = Len(P) + Len(S)
      /\ DOMAIN K = 1..Len(K) /\ DOMAIN L = 1..Len(L)
  BY <1>1
<1>3. \A p \in DOMAIN K : K[p] = L[p + 1]
  <2>1. SUFFICES ASSUME NEW p \in DOMAIN K PROVE K[p] = L[p + 1]
    OBVIOUS
  <2>2. p \in Nat \ {0}
    BY <1>2, <2>1
  <2>3. CASE p <= Len(P) - 1
    BY <1>1, <1>2, <2>1, <2>2, <2>3
  <2>4. CASE p > Len(P) - 1
    <3>1. K[p] = S[p - (Len(P) - 1)]
      BY <1>1, <1>2, <2>1, <2>2, <2>4
    <3>2. L[p + 1] = S[p + 1 - Len(P)]
      BY <1>1, <1>2, <2>1, <2>2, <2>4
    <3> QED
      BY <1>1, <2>2, <3>1, <3>2
  <2> QED
    BY <1>1, <2>2, <2>3, <2>4
<1>4. L[1] = P[1]
  BY <1>1
<1> HIDE DEF K, L
<1>5. \A p \in DOMAIN K : f[p] = p + 1 /\ p \in Nat /\ p + 1 \in DOMAIN L /\ p + 1 # 1
  <2>1. \A p \in DOMAIN K : p \in Nat /\ p + 1 \in DOMAIN L /\ p + 1 # 1
    BY <1>1, <1>2
  <2>2. \A p \in Nat : f[p] = p + 1
    OBVIOUS
  <2> HIDE DEF f
  <2> QED
    BY <2>1, <2>2
<1>6. \A p \in DOMAIN L : p = 1 \/ (p - 1 \in DOMAIN K /\ f[p - 1] = p)
  <2>1. SUFFICES ASSUME NEW p \in DOMAIN L, p # 1 PROVE p - 1 \in DOMAIN K /\ f[p - 1] = p
    OBVIOUS
  <2>2. p - 1 \in DOMAIN K /\ p - 1 + 1 = p
    BY <1>1, <1>2, <2>1
  <2> QED
    BY <1>5, <2>2
<1> HIDE DEF f
<1>7. Thinned(L, K, 1, f)
  BY <1>1, <1>2, <1>3, <1>5, <1>6 DEF Thinned
<1> QED
  BY <1>1, <1>4, <1>7 DEF K, L, f

\* The first message of the second queue is consumed without an answer, or answered.
LEMMA Consuming ==
  ASSUME NEW P \in Seq(Messages), NEW S \in Seq(Messages), S # <<>>
  PROVE  LET h == Len(P) + 1 IN
         /\ h \in DOMAIN (P \o S) /\ (P \o S)[h] = Head(S)
         /\ \A p \in DOMAIN P : p \in DOMAIN (P \o S) /\ (P \o S)[p] = P[p] /\ p < h
         /\ \A p \in DOMAIN (P \o S) : p \in DOMAIN P \/ ~(p < h)
         /\ \E f : Thinned(P \o S, (P \o <<>>) \o Tail(S), h, f)
         /\ \A r \in Messages :
              LET K == (P \o <<r>>) \o Tail(S) IN
              /\ K \in Seq(Messages) /\ DOMAIN K = DOMAIN (P \o S) /\ K[h] = r
              /\ \A p \in DOMAIN (P \o S) : p # h => K[p] = (P \o S)[p]
<1> DEFINE L == P \o S
           h == Len(P) + 1
           K == (P \o <<>>) \o Tail(S)
           f == [p \in Nat |-> IF p < h THEN p ELSE p + 1]
<1>1. /\ Len(P) \in Nat /\ Len(S) \in Nat \ {0} /\ Tail(S) \in Seq(Messages)
      /\ Len(Tail(S)) = Len(S) - 1 /\ \A p \in 1..(Len(S) - 1) : Tail(S)[p] = S[p + 1]
      /\ Head(S) = S[1] /\ DOMAIN P = 1..Len(P) /\ h \in Nat \ {0}
  OBVIOUS
<1>2. /\ L \in Seq(Messages) /\ Len(L) = Len(P) + Len(S) /\ DOMAIN L = 1..Len(L)
      /\ \A p \in 1..Len(P) : L[p] = P[p]
      /\ \A p \in 1..Len(S) : L[Len(P) + p] = S[p]
  BY <1>1
<1>3. /\ h \in DOMAIN L /\ L[h] = Head(S)
      /\ \A p \in DOMAIN P : p \in DOMAIN L /\ L[p] = P[p] /\ p < h
      /\ \A p \in DOMAIN L : p \in DOMAIN P \/ ~(p < h)
  BY <1>1, <1>2
<1>4. \E g : Thinned(L, K, h, g)
  <2>1. /\ K \in Seq(Messages) /\ Len(K) = Len(P) + Len(S) - 1 /\ DOMAIN K = 1..Len(K)
        /\ \A p \in 1..Len(P) : K[p] = P[p]
        /\ \A p \in 1..(Len(S) - 1) : K[Len(P) + p] = Tail(S)[p]
    <3>1. P \o <<>> = P
      OBVIOUS
    <3> QED
      BY <1>1, <3>1
  <2> HIDE DEF L, K
  <2>2. \A p \in DOMAIN K : K[p] = IF p < h THEN L[p] ELSE L[p + 1]
    <3>1. SUFFICES ASSUME NEW p \in DOMAIN K PROVE K[p] = IF p < h THEN L[p] ELSE L[p + 1]
      OBVIOUS
    <3>2. p \in Nat \ {0} /\ p <= Len(P) + Len(S) - 1
      BY <1>1, <2>1, <3>1
    <3>3. CASE p < h
      BY <1>1, <1>2, <2>1, <3>2, <3>3
    <3>4. CASE ~(p < h)
      <4>1. p - Len(P) \in 1..(Len(S) - 1)
        BY <1>1, <3>2, <3>4
      <4>2. K[Len(P) + (p - Len(P))] = S[p - Len(P) + 1]
        BY <1>1, <2>1, <4>1
      <4>3. p - Len(P) + 1 \in 1..Len(S)
        BY <1>1, <4>1
      <4>4. L[Len(P) + (p - Len(P) + 1)] = S[p - Len(P) + 1]
        BY <1>2, <4>3
      <4>5. Len(P) + (p - Len(P)) = p /\ Len(P) + (p - Len(P) + 1) = p + 1
        BY <1>1, <3>2
      <4> QED
        BY <3>4, <4>2, <4>4, <4>5
    <3> QED
      BY <3>3, <3>4
  <2>3. \A p \in DOMAIN K : /\ p \in Nat /\ f[p] = IF p < h THEN p ELSE p + 1
                            /\ f[p] \in DOMAIN L /\ f[p] # h
    <3>1. SUFFICES ASSUME NEW p \in DOMAIN K
                   PROVE  /\ p \in Nat /\ f[p] = IF p < h THEN p ELSE p + 1
                          /\ f[p] \in DOMAIN L /\ f[p] # h
      OBVIOUS
    <3>2. p \in Nat /\ 1 <= p /\ p <= Len(P) + Len(S) - 1
      BY <1>1, <2>1, <3>1
    <3>3. f[p] = IF p < h THEN p ELSE p + 1
      BY <3>2
    <3> QED
      BY <1>1, <1>2, <3>2, <3>3
  <2>4. \A p \in DOMAIN L : p # h =>
          \E q \in DOMAIN K : (IF q < h THEN q ELSE q + 1) = p
    <3>1. SUFFICES ASSUME NEW p \in DOMAIN L, p # h
                   PROVE  \E q \in DOMAIN K : (IF q < h THEN q ELSE q + 1) = p
      OBVIOUS
    <3>2. p \in Nat /\ 1 <= p /\ p <= Len(P) + Len(S)
      BY <1>1, <1>2, <3>1
    <3>3. CASE p < h
      BY <1>1, <2>1, <3>2, <3>3
    <3>4. CASE ~(p < h)
      <4>1. p - 1 \in DOMAIN K /\ ~(p - 1 < h) /\ p - 1 + 1 = p
        BY <1>1, <2>1, <3>1, <3>2, <3>4
      <4> QED
        BY <4>1
    <3> QED
      BY <3>3, <3>4
  <2> HIDE DEF f
  <2>5. \A p, q \in DOMAIN K : (f[p] < f[q] => p < q) /\ (f[p] = f[q] => p = q)
    <3>1. SUFFICES ASSUME NEW p \in DOMAIN K, NEW q \in DOMAIN K
                   PROVE  (f[p] < f[q] => p < q) /\ (f[p] = f[q] => p = q)
      OBVIOUS
    <3>2. p \in Nat /\ q \in Nat /\ h \in Nat /\ f[p] = (IF p < h THEN p ELSE p + 1)
          /\ f[q] = (IF q < h THEN q ELSE q + 1)
      BY <1>1, <2>3
    <3> HIDE DEF h
    <3> QED
      BY <3>2
  <2>6. \A p \in DOMAIN K : f[p] \in DOMAIN L /\ f[p] # h /\ K[p] = L[f[p]]
    BY <2>2, <2>3
  <2>7. \A p \in DOMAIN L : p = h \/ \E q \in DOMAIN K : f[q] = p
    BY <2>3, <2>4
  <2> HIDE DEF h
  <2>8. Thinned(L, K, h, f)
    BY <1>3, <2>1, <2>5, <2>6, <2>7 DEF Thinned
  <2> QED
    BY <2>8
<1>5. ASSUME NEW r \in Messages, NEW J, J = (P \o <<r>>) \o Tail(S)
      PROVE  /\ J \in Seq(Messages) /\ DOMAIN J = DOMAIN L /\ J[h] = r
             /\ \A p \in DOMAIN L : p # h => J[p] = L[p]
  <2>1. /\ P \o <<r>> \in Seq(Messages) /\ Len(P \o <<r>>) = h
        /\ \A p \in 1..Len(P) : (P \o <<r>>)[p] = P[p]
        /\ (P \o <<r>>)[h] = r
    BY <1>1
  <2>2. /\ J \in Seq(Messages) /\ Len(J) = Len(P) + Len(S) /\ DOMAIN J = 1..Len(J)
        /\ \A p \in 1..h : J[p] = (P \o <<r>>)[p]
        /\ \A p \in 1..(Len(S) - 1) : J[h + p] = Tail(S)[p]
    BY <1>1, <1>5, <2>1
  <2> HIDE DEF L
  <2>3. ASSUME NEW p \in DOMAIN L, p # h
        PROVE  J[p] = L[p]
    <3>1. p \in Nat /\ 1 <= p /\ p <= Len(P) + Len(S)
      BY <1>1, <1>2, <2>3
    <3>2. CASE p < h
      BY <1>1, <1>2, <2>1, <2>2, <3>1, <3>2
    <3>3. CASE ~(p < h)
      <4>1. p - h \in 1..(Len(S) - 1) /\ h + (p - h) = p
        BY <1>1, <2>3, <3>1, <3>3
      <4>2. J[p] = S[p - h + 1]
        BY <1>1, <2>2, <4>1
      <4>3. p - h + 1 \in 1..Len(S) /\ Len(P) + (p - h + 1) = p
        BY <1>1, <2>3, <3>1, <3>3
      <4>4. L[Len(P) + (p - h + 1)] = S[p - h + 1]
        BY <1>2, <4>3
      <4> QED
        BY <4>2, <4>3, <4>4
    <3> QED
      BY <3>2, <3>3
  <2>4. h \in 1..h /\ h = Len(P) + 1
    BY <1>1
  <2>5. J[h] = r
    BY <2>1, <2>2, <2>4
  <2>6. DOMAIN J = DOMAIN L
    BY <1>2, <2>2
  <2> QED
    BY <2>2, <2>3, <2>5, <2>6
<1> QED
  BY <1>3, <1>4, <1>5
-----------------------------------------------------------------------------
(* The conversation goes on *)

\* A message that closes exports disturbs nothing.
LEMMA ClosingSaid ==
  ASSUME NEW L, NEW K, NEW n, NEW m, NEW x, NEW i, NEW o,
         Conversation(L, x, i, o), Grown(L, K, n, m), m.tag \in Closings, m.id = 0
  PROVE  Conversation(K, x, i, o)
<1>1. \A y : ~About(y, m)
  BY DEF About, Closings, Requested, Streamed, Refusals
<1>2. OneTalk(K, x)
  BY <1>1 DEF Conversation, OneTalk, Grown
<1>3. Numbered(K, x, i)
  <2>1. m.tag \notin {"accepted", "ready", "commit", "imported"}
    BY DEF Closings
  <2> QED
    BY <2>1 DEF Conversation, Numbered, Grown
<1>4. Awaits(K, i)
  BY DEF Conversation, Awaits, Grown
<1>5. InTurn(K, x, i)
  <2>1. i # NoImport => Awaited(i) # 0
    BY DEF Conversation, Numbered, Awaited
  <2> QED
    BY <1>1, <2>1 DEF Conversation, InTurn, Grown
<1>6. Covered(K, x, o)
  <2>1. ASSUME NEW e \in o
        PROVE  Held(K, x, e) \/ \E p \in DOMAIN K : Closes(K[p], e)
    <3>1. Held(L, x, e) => Held(K, x, e)
      BY DEF Held, Grown
    <3>2. \A p \in DOMAIN L : p \in DOMAIN K /\ K[p] = L[p]
      BY DEF Grown
    <3> QED
      BY <3>1, <3>2 DEF Conversation, Covered
  <2>2. ASSUME x = NoExport, NEW p \in DOMAIN K, K[p].tag = "export"
        PROVE  \E q \in DOMAIN K : p < q /\ Stops(K[q], K[p].kind)
    <3>1. p \in DOMAIN L /\ K[p] = L[p]
      BY <2>2 DEF Grown, Closings
    <3>2. PICK q \in DOMAIN L : p < q /\ Stops(L[q], L[p].kind)
      BY <2>2, <3>1 DEF Conversation, Covered
    <3>3. q \in DOMAIN K /\ K[q] = L[q]
      BY DEF Grown
    <3> QED
      BY <3>1, <3>2, <3>3
  <2> QED
    BY <2>1, <2>2 DEF Covered
<1>7. Registered(K, x, o)
  <2>1. m.tag \notin {"ready", "last_chunk"}
    BY DEF Closings
  <2> QED
    BY <2>1 DEF Conversation, Registered, Grown
<1> QED
  BY <1>2, <1>3, <1>4, <1>5, <1>6, <1>7 DEF Conversation

\* An import is given up.
LEMMA ImportForgotten ==
  ASSUME NEW L, NEW x, NEW i, NEW o, Conversation(L, x, i, o)
  PROVE  Conversation(L, x, NoImport, o)
<1>1. NoImport.begin = 0 /\ NoImport.transfer = 0 /\ NoImport.commit = 0
  BY DEF NoImport
<1>2. Numbered(L, x, NoImport)
  BY <1>1 DEF Conversation, Numbered
<1> QED
  BY <1>2 DEF Conversation, Awaits, InTurn

\* With one message less all that is said of every message remains.
LEMMA LessSaid ==
  ASSUME NEW L, NEW K, NEW h, NEW f, NEW x, NEW i, NEW o, NEW P \in SUBSET o,
         Conversation(L, x, i, o), Thinned(L, K, h, f)
  PROVE  /\ OneTalk(K, x) /\ Numbered(K, x, i) /\ InTurn(K, x, i) /\ Registered(K, x, P)
         /\ About(x, L[h]) => \A p \in DOMAIN K : ~About(x, K[p])
<1>1. OneTalk(K, x)
  <2>1. OneTalk(L, x)
    BY DEF Conversation
  <2>2. \A p \in DOMAIN K : f[p] \in DOMAIN L /\ K[p] = L[f[p]]
    BY DEF Thinned
  <2>3. \A p, q \in DOMAIN K : f[p] = f[q] => p = q
    BY DEF Thinned
  <2>4. \A p, q \in DOMAIN K : About(x, K[p]) /\ About(x, K[q]) => p = q
    BY <2>1, <2>2, <2>3 DEF OneTalk
  <2>5. x # NoExport => \A p \in DOMAIN K : About(x, K[p]) => Fits(x, K[p])
    BY <2>1, <2>2 DEF OneTalk
  <2> QED
    BY <2>4, <2>5 DEF OneTalk
<1>2. Numbered(K, x, i)
  BY DEF Conversation, Numbered, Thinned
<1>3. InTurn(K, x, i)
  <2>1. SUFFICES ASSUME x = NoExport, i # NoImport, NEW p \in DOMAIN K, NEW q \in DOMAIN K,
                        About(x, K[p]), K[q].id = Awaited(i)
                 PROVE  p < q
    BY DEF InTurn
  <2>2. f[p] \in DOMAIN L /\ f[q] \in DOMAIN L /\ K[p] = L[f[p]] /\ K[q] = L[f[q]]
    BY DEF Thinned
  <2>3. f[p] < f[q]
    BY <2>1, <2>2 DEF Conversation, InTurn
  <2> QED
    BY <2>3 DEF Thinned
<1>4. Registered(K, x, P)
  <2>1. IsFiniteSet(P)
    BY FS_Subset DEF Conversation, Registered
  <2>2. ASSUME NEW e \in P
        PROVE  /\ e.id \in Nat \ {0}
               /\ e.id = x.transfer => e.kind = Kind(x.stage)
               /\ \A other \in P : other.id = e.id => other = e
               /\ \A p \in DOMAIN K : K[p].transfer = e.id =>
                    (K[p].tag = "ready" => e.kind = K[p].kind) /\ K[p].tag # "last_chunk"
    BY DEF Conversation, Registered, Thinned
  <2> QED
    BY <2>1, <2>2 DEF Registered
<1>5. About(x, L[h]) => \A p \in DOMAIN K : ~About(x, K[p])
  BY DEF Conversation, OneTalk, Thinned
<1> QED
  BY <1>1, <1>2, <1>3, <1>4, <1>5

\* A message is consumed that nothing waits for; what it closes is closed.
LEMMA Consumed ==
  ASSUME NEW L, NEW K, NEW h, NEW f, NEW x, NEW i, NEW o, NEW P \in SUBSET o,
         NEW j \in {i, NoImport},
         Conversation(L, x, i, o), Thinned(L, K, h, f),
         j # NoImport => L[h].id # Awaited(j),
         L[h].tag = "ready" => x = NoExport,
         \A e \in P : ~Closes(L[h], e),
         L[h].tag \in Closings => \A p \in DOMAIN L : L[p].tag = "export" => ~(p < h)
  PROVE  Conversation(K, x, j, P)
<1>1. OneTalk(K, x) /\ Numbered(K, x, i) /\ InTurn(K, x, i) /\ Registered(K, x, P)
  BY LessSaid
<1>2. Numbered(K, x, j) /\ InTurn(K, x, j)
  <2>1. NoImport.begin = 0 /\ NoImport.transfer = 0 /\ NoImport.commit = 0
    BY DEF NoImport
  <2>2. Numbered(K, x, NoImport) /\ InTurn(K, x, NoImport)
    BY <1>1, <2>1 DEF Numbered, InTurn
  <2> QED
    BY <1>1, <2>2
<1>3. Awaits(K, j)
  <2>1. SUFFICES ASSUME j # NoImport PROVE \E p \in DOMAIN K : K[p].id = Awaited(j)
    BY DEF Awaits
  <2>2. PICK p \in DOMAIN L : L[p].id = Awaited(j)
    BY <2>1 DEF Conversation, Awaits
  <2>3. PICK q \in DOMAIN K : f[q] = p
    BY <2>1, <2>2 DEF Thinned
  <2> QED
    BY <2>2, <2>3 DEF Thinned
<1>4. Covered(K, x, P)
  <2>1. ASSUME NEW e \in P
        PROVE  Held(K, x, e) \/ \E p \in DOMAIN K : Closes(K[p], e)
    <3>1. CASE Held(L, x, e)
      <4>1. x # NoExport
        BY <3>1 DEF Held
      <4>2. CASE x.transfer = e.id
        BY <4>1, <4>2 DEF Held
      <4>3. ASSUME NEW p \in DOMAIN L, L[p].tag = "ready", L[p].transfer = e.id
            PROVE  Held(K, x, e)
        <5>1. p # h
          BY <4>1, <4>3
        <5>2. PICK q \in DOMAIN K : f[q] = p
          BY <5>1 DEF Thinned
        <5> QED
          BY <4>1, <4>3, <5>2 DEF Held, Thinned
      <4> QED
        BY <3>1, <4>2, <4>3 DEF Held
    <3>2. ASSUME NEW p \in DOMAIN L, Closes(L[p], e)
          PROVE  \E q \in DOMAIN K : Closes(K[q], e)
      <4>1. PICK q \in DOMAIN K : f[q] = p
        BY <3>2 DEF Thinned
      <4> QED
        BY <3>2, <4>1 DEF Thinned
    <3> QED
      BY <3>1, <3>2 DEF Conversation, Covered
  <2>2. ASSUME x = NoExport, NEW p \in DOMAIN K, K[p].tag = "export"
        PROVE  \E q \in DOMAIN K : p < q /\ Stops(K[q], K[p].kind)
    <3>1. f[p] \in DOMAIN L /\ L[f[p]] = K[p]
      BY DEF Thinned
    <3>2. PICK q \in DOMAIN L : f[p] < q /\ Stops(L[q], L[f[p]].kind)
      BY <2>2, <3>1 DEF Conversation, Covered
    <3>3. q # h
      BY <2>2, <3>1, <3>2 DEF Stops
    <3>4. PICK t \in DOMAIN K : f[t] = q
      BY <3>3 DEF Thinned
    <3> QED
      BY <3>1, <3>2, <3>4 DEF Thinned
  <2> QED
    BY <2>1, <2>2 DEF Covered
<1> QED
  BY <1>1, <1>2, <1>3, <1>4 DEF Conversation

\* An export is given up that has been closed, or that is over.
LEMMA ExportForgotten ==
  ASSUME NEW L, NEW x, NEW i, NEW o, Conversation(L, x, i, o),
         \A e \in o : Held(L, x, e) => \E p \in DOMAIN L : Closes(L[p], e),
         \A p \in DOMAIN L : L[p].tag = "export" =>
           \E q \in DOMAIN L : p < q /\ Stops(L[q], L[p].kind),
         i # NoImport => \A p \in DOMAIN L : ~About(NoExport, L[p])
  PROVE  Conversation(L, NoExport, i, o)
<1>1. NoExport.message = 0 /\ NoExport.transfer = 0
  BY DEF NoExport
<1>2. \A m : About(NoExport, m) => About(x, m)
  BY <1>1 DEF About
<1>3. OneTalk(L, NoExport)
  BY <1>2 DEF Conversation, OneTalk
<1>4. Numbered(L, NoExport, i)
  BY <1>1 DEF Conversation, Numbered
<1>5. InTurn(L, NoExport, i) /\ Awaits(L, i)
  BY DEF Conversation, InTurn, Awaits
<1>6. Covered(L, NoExport, o)
  BY DEF Conversation, Covered
<1>7. Registered(L, NoExport, o)
  BY <1>1 DEF Conversation, Registered
<1> QED
  BY <1>3, <1>4, <1>5, <1>6, <1>7 DEF Conversation

\* An export is asked for when nothing is left of another.
LEMMA ExportAsked ==
  ASSUME NEW L, NEW K, NEW n, NEW x, NEW i, NEW o, Conversation(L, NoExport, i, o),
         \A p \in DOMAIN L : ~About(NoExport, L[p]) /\ L[p].id # x.message,
         Grown(L, K, n, Message("export", x.message, Kind(x.stage), 0)),
         x # NoExport, x.message \in Nat \ {0}, x.transfer = 0,
         x.message \notin {i.begin, i.commit}
  PROVE  Conversation(K, x, i, o)
<1> DEFINE m == Message("export", x.message, Kind(x.stage), 0)
<1>1. /\ m.tag = "export" /\ m.id = x.message /\ m.kind = Kind(x.stage) /\ m.transfer = 0
      /\ Grown(L, K, n, m)
  BY DEF Message
<1> HIDE DEF m
<1>2. \A p \in DOMAIN L : ~About(x, L[p])
  BY DEF About
<1>3. OneTalk(K, x)
  <2>1. Fits(x, m)
    BY <1>1 DEF Fits, Requested, Refusals, Streamed
  <2> QED
    BY <1>1, <1>2, <2>1 DEF OneTalk, Grown
<1>4. Numbered(K, x, i)
  <2>1. m.tag \in Requested /\ m.tag \notin {"accepted", "ready", "commit", "imported"}
    BY <1>1 DEF Requested
  <2>2. K \in Seq(Messages) /\ {x.message, x.transfer, i.begin, i.transfer, i.commit} \subseteq Nat
    BY DEF Conversation, Numbered, Grown
  <2>3. i # NoImport => i.begin \notin {0, i.commit} /\ (i.transfer = 0 <=> i.commit = 0)
    BY DEF Conversation, Numbered
  <2>4. ASSUME NEW p \in DOMAIN K
        PROVE  /\ K[p].tag \in {"accepted", "ready", "commit", "imported"} => K[p].transfer # 0
               /\ K[p].id # 0 /\ K[p].id = x.message => K[p].tag \in Requested \cup Refusals
               /\ K[p].id # 0 /\ K[p].id = i.begin => K[p].tag \in {"begin", "accepted", "rejected"}
               /\ K[p].id # 0 /\ K[p].id = i.commit =>
                    \/ K[p].tag \in {"commit", "imported"} /\ K[p].transfer = i.transfer
                    \/ K[p].tag = "rejected"
    <3>1. CASE p = n
      BY <1>1, <2>1, <3>1 DEF Grown
    <3>2. CASE p \in DOMAIN L
      <4>1. K[p] = L[p]
        BY <3>2 DEF Grown
      <4> QED
        BY <3>2, <4>1 DEF Conversation, Numbered
    <3> QED
      BY <3>1, <3>2 DEF Grown
  <2> QED
    BY <2>2, <2>3, <2>4 DEF Numbered
<1>5. Awaits(K, i) /\ InTurn(K, x, i)
  BY DEF Conversation, Awaits, InTurn, Grown
<1>6. Covered(K, x, o)
  <2>1. ASSUME NEW e \in o
        PROVE  \E p \in DOMAIN K : Closes(K[p], e)
    <3>1. PICK p \in DOMAIN L : Closes(L[p], e)
      BY DEF Conversation, Covered, Held
    <3> QED
      BY <3>1 DEF Grown
  <2> QED
    BY <2>1 DEF Covered
<1>7. Registered(K, x, o)
  BY <1>1 DEF Conversation, Registered, Grown
<1> QED
  BY <1>3, <1>4, <1>5, <1>6, <1>7 DEF Conversation

\* The next chunk is asked for.
LEMMA ChunkAsked ==
  ASSUME NEW L, NEW K, NEW n, NEW x, NEW i, NEW o, Conversation(L, x, i, o),
         \A p \in DOMAIN L : ~About(x, L[p]),
         Grown(L, K, n, Message("read", 0, "none", x.transfer)),
         x # NoExport, x.message = 0, x.transfer # 0
  PROVE  Conversation(K, x, i, o)
<1> DEFINE m == Message("read", 0, "none", x.transfer)
<1>1. m.tag = "read" /\ m.id = 0 /\ m.transfer = x.transfer /\ Grown(L, K, n, m)
  BY DEF Message
<1> HIDE DEF m
<1>2. OneTalk(K, x)
  <2>1. Fits(x, m)
    BY <1>1 DEF Fits, Requested, Refusals, Streamed
  <2> QED
    BY <1>1, <2>1 DEF OneTalk, Grown
<1>3. Numbered(K, x, i)
  BY <1>1 DEF Conversation, Numbered, Grown
<1>4. Awaits(K, i) /\ InTurn(K, x, i)
  BY DEF Conversation, Awaits, InTurn, Grown
<1>5. Covered(K, x, o)
  <2>1. ASSUME NEW e \in o
        PROVE  Held(K, x, e) \/ \E p \in DOMAIN K : Closes(K[p], e)
    <3>1. Held(L, x, e) => Held(K, x, e)
      BY DEF Held, Grown
    <3>2. \A p \in DOMAIN L : p \in DOMAIN K /\ K[p] = L[p]
      BY DEF Grown
    <3> QED
      BY <3>1, <3>2 DEF Conversation, Covered
  <2> QED
    BY <2>1 DEF Covered
<1>6. Registered(K, x, o)
  BY <1>1 DEF Conversation, Registered, Grown
<1> QED
  BY <1>2, <1>3, <1>4, <1>5, <1>6 DEF Conversation

\* The runtime is ready to export: its first chunk is asked for.
LEMMA ReadyTaken ==
  ASSUME NEW L, NEW K, NEW J, NEW h, NEW f, NEW n, NEW x, NEW y, NEW i, NEW o,
         Conversation(L, x, i, o), Thinned(L, K, h, f), L[h].tag = "ready",
         Grown(K, J, n, Message("read", 0, "none", y.transfer)),
         x # NoExport, y # NoExport, y.stage = x.stage, y.message = 0,
         y.transfer = L[h].transfer
  PROVE  Conversation(J, y, i, o)
<1> DEFINE m == Message("read", 0, "none", y.transfer)
<1>1. m.tag = "read" /\ m.id = 0 /\ m.transfer = y.transfer /\ Grown(K, J, n, m)
  BY DEF Message
<1> HIDE DEF m
<1>2. About(x, L[h]) /\ h \in DOMAIN L
  BY DEF About, Requested, Thinned
<1>3. /\ Numbered(K, x, i) /\ Registered(K, x, o)
      /\ \A p \in DOMAIN K : ~About(x, K[p])
  BY <1>2, LessSaid
<1>4. Fits(x, L[h])
  BY <1>2 DEF Conversation, OneTalk
<1>5. x.transfer = 0 /\ L[h].kind = Kind(y.stage) /\ x.message # 0 /\ x.message = L[h].id
  BY <1>4 DEF Fits, Requested
<1>6. y.transfer \in Nat \ {0}
  <2>1. L[h] \in Messages
    BY <1>2 DEF Conversation, Numbered
  <2> QED
    BY <1>2, <2>1 DEF Conversation, Numbered, Messages
<1>7. \A p \in DOMAIN K : ~About(y, K[p])
  BY <1>3 DEF About
<1>8. OneTalk(J, y)
  <2>1. Fits(y, m)
    BY <1>1, <1>6 DEF Fits, Requested, Refusals, Streamed
  <2> QED
    BY <1>1, <1>7, <2>1 DEF OneTalk, Grown
<1>9. Numbered(J, y, i)
  <2>1. y.message = 0 /\ y.transfer \in Nat
    BY <1>6
  <2> QED
    BY <1>1, <1>3, <2>1 DEF Numbered, Grown
<1>10. Awaits(J, i)
  <2>1. SUFFICES ASSUME i # NoImport PROVE \E p \in DOMAIN J : J[p].id = Awaited(i)
    BY DEF Awaits
  <2>2. PICK p \in DOMAIN L : L[p].id = Awaited(i)
    BY <2>1 DEF Conversation, Awaits
  <2>3. Awaited(i) \in {i.begin, i.commit}
    BY DEF Awaited
  <2>4. p # h
    BY <1>5, <2>2, <2>3 DEF Conversation, Numbered
  <2>5. PICK q \in DOMAIN K : f[q] = p
    BY <2>4 DEF Thinned
  <2>6. q \in DOMAIN J /\ J[q] = K[q] /\ K[q] = L[p]
    BY <2>5 DEF Thinned, Grown
  <2> QED
    BY <2>2, <2>6
<1>11. InTurn(J, y, i)
  BY DEF InTurn
<1>12. Covered(J, y, o)
  <2>1. ASSUME NEW e \in o
        PROVE  Held(J, y, e) \/ \E p \in DOMAIN J : Closes(J[p], e)
    <3>1. CASE Held(L, x, e)
      <4>1. e.id # 0
        BY DEF Conversation, Registered
      <4>2. PICK p \in DOMAIN L : L[p].tag = "ready" /\ L[p].transfer = e.id
        BY <1>5, <3>1, <4>1 DEF Held
      <4>3. About(x, L[p])
        BY <4>2 DEF About, Requested
      <4>4. p = h
        BY <1>2, <4>3 DEF Conversation, OneTalk
      <4> QED
        BY <4>2, <4>4 DEF Held
    <3>2. ASSUME NEW p \in DOMAIN L, Closes(L[p], e)
          PROVE  \E q \in DOMAIN J : Closes(J[q], e)
      <4>1. p # h
        BY <3>2 DEF Closes, Closings
      <4>2. PICK q \in DOMAIN K : f[q] = p
        BY <4>1 DEF Thinned
      <4>3. q \in DOMAIN J /\ J[q] = K[q] /\ K[q] = L[p]
        BY <4>2 DEF Thinned, Grown
      <4> QED
        BY <3>2, <4>3
    <3> QED
      BY <3>1, <3>2 DEF Conversation, Covered
  <2> QED
    BY <2>1 DEF Covered
<1>13. Registered(J, y, o)
  <2>1. ASSUME NEW e \in o, e.id = y.transfer
        PROVE  e.kind = Kind(y.stage)
    BY <1>2, <1>5, <2>1 DEF Conversation, Registered
  <2> QED
    BY <1>1, <1>3, <2>1 DEF Registered, Grown
<1> QED
  BY <1>8, <1>9, <1>10, <1>11, <1>12, <1>13 DEF Conversation

\* An import begins.
LEMMA ImportBegins ==
  ASSUME NEW L, NEW K, NEW n, NEW x, NEW i, NEW o, Conversation(L, x, NoImport, o),
         Grown(L, K, n, Message("begin", i.begin, "none", 0)),
         i # NoImport, i.begin \in Nat \ {0}, i.transfer = 0, i.commit = 0,
         i.begin # x.message, \A p \in DOMAIN L : L[p].id # i.begin
  PROVE  Conversation(K, x, i, o)
<1> DEFINE m == Message("begin", i.begin, "none", 0)
<1>1. m.tag = "begin" /\ m.id = i.begin /\ m.transfer = 0 /\ Grown(L, K, n, m)
  BY DEF Message
<1> HIDE DEF m
<1>2. \A y : y.message # i.begin => ~About(y, m)
  BY <1>1 DEF About, Requested, Streamed, Refusals
<1>3. OneTalk(K, x)
  <2>1. ~About(x, m)
    BY <1>2
  <2> QED
    BY <1>1, <2>1 DEF Conversation, OneTalk, Grown
<1>4. Numbered(K, x, i)
  <2>1. K \in Seq(Messages) /\ {x.message, x.transfer, i.begin, i.transfer, i.commit} \subseteq Nat
        /\ (x.message # 0 => x.message \notin {i.begin, i.commit})
        /\ i.begin \notin {0, i.commit}
    BY DEF Conversation, Numbered, Grown
  <2>2. ASSUME NEW p \in DOMAIN K
        PROVE  /\ K[p].tag \in {"accepted", "ready", "commit", "imported"} => K[p].transfer # 0
               /\ K[p].id # 0 /\ K[p].id = x.message => K[p].tag \in Requested \cup Refusals
               /\ K[p].id # 0 /\ K[p].id = i.begin => K[p].tag \in {"begin", "accepted", "rejected"}
               /\ ~(K[p].id # 0 /\ K[p].id = i.commit)
    <3>1. CASE p = n
      BY <1>1, <3>1 DEF Grown
    <3>2. CASE p \in DOMAIN L
      <4>1. K[p] = L[p]
        BY <3>2 DEF Grown
      <4> QED
        BY <3>2, <4>1 DEF Conversation, Numbered
    <3> QED
      BY <3>1, <3>2 DEF Grown
  <2> QED
    BY <2>1, <2>2 DEF Numbered
<1>5. Awaited(i) = i.begin
  BY DEF Awaited
<1>6. Awaits(K, i)
  BY <1>1, <1>5 DEF Awaits, Grown
<1>7. InTurn(K, x, i)
  <2>1. SUFFICES ASSUME x = NoExport, NEW p \in DOMAIN K, NEW q \in DOMAIN K, About(x, K[p]),
                        K[q].id = i.begin
                 PROVE  p < q
    BY <1>5 DEF InTurn
  <2>2. q = n /\ p \in DOMAIN L
    <3>1. NoExport.message # i.begin
      BY DEF NoExport
    <3>2. ~About(x, m)
      BY <1>2, <2>1, <3>1
    <3> QED
      BY <1>1, <2>1, <3>2 DEF Grown
  <2> QED
    BY <2>2 DEF Grown
<1>8. Covered(K, x, o)
  <2>1. ASSUME NEW e \in o
        PROVE  Held(K, x, e) \/ \E p \in DOMAIN K : Closes(K[p], e)
    <3>1. Held(L, x, e) => Held(K, x, e)
      BY DEF Held, Grown
    <3>2. \A p \in DOMAIN L : p \in DOMAIN K /\ K[p] = L[p]
      BY DEF Grown
    <3> QED
      BY <3>1, <3>2 DEF Conversation, Covered
  <2>2. ASSUME x = NoExport, NEW p \in DOMAIN K, K[p].tag = "export"
        PROVE  \E q \in DOMAIN K : p < q /\ Stops(K[q], K[p].kind)
    <3>1. p \in DOMAIN L /\ K[p] = L[p]
      BY <1>1, <2>2 DEF Grown
    <3>2. PICK q \in DOMAIN L : p < q /\ Stops(L[q], L[p].kind)
      BY <2>2, <3>1 DEF Conversation, Covered
    <3>3. q \in DOMAIN K /\ K[q] = L[q]
      BY DEF Grown
    <3> QED
      BY <3>1, <3>2, <3>3
  <2> QED
    BY <2>1, <2>2 DEF Covered
<1>9. Registered(K, x, o)
  BY <1>1 DEF Conversation, Registered, Grown
<1> QED
  BY <1>3, <1>4, <1>6, <1>7, <1>8, <1>9 DEF Conversation

\* The runtime accepts the import: the commit is sent.
LEMMA AcceptedTaken ==
  ASSUME NEW L, NEW K, NEW J, NEW h, NEW f, NEW n, NEW x, NEW i, NEW j, NEW o,
         Conversation(L, x, i, o), Thinned(L, K, h, f), L[h].tag = "accepted",
         i # NoImport, L[h].id = i.begin, i.transfer = 0,
         Grown(K, J, n, Message("commit", j.commit, "none", j.transfer)),
         j # NoImport, j.begin = i.begin, j.transfer = L[h].transfer,
         j.commit \in Nat \ {0}, j.commit \notin {x.message, i.begin},
         \A p \in DOMAIN L : L[p].id # j.commit
  PROVE  Conversation(J, x, j, o)
<1> DEFINE m == Message("commit", j.commit, "none", j.transfer)
<1>1. m.tag = "commit" /\ m.id = j.commit /\ m.transfer = j.transfer /\ Grown(K, J, n, m)
  BY DEF Message
<1> HIDE DEF m
<1>2. /\ OneTalk(K, x) /\ Numbered(K, x, i) /\ Registered(K, x, o)
  <2>1. o \in SUBSET o
    OBVIOUS
  <2> QED
    BY <2>1, LessSaid
<1>3. \A y : y.message # j.commit => ~About(y, m)
  BY <1>1 DEF About, Requested, Streamed, Refusals
<1>4. j.transfer \in Nat \ {0}
  <2>1. h \in DOMAIN L
    BY DEF Thinned
  <2>2. L[h] \in Messages
    BY <2>1 DEF Conversation, Numbered
  <2> QED
    BY <2>1, <2>2 DEF Conversation, Numbered, Messages
<1>5. OneTalk(J, x)
  <2>1. ~About(x, m)
    BY <1>3
  <2> QED
    BY <1>1, <1>2, <2>1 DEF OneTalk, Grown
<1>6. \A p \in DOMAIN K : K[p].id # j.commit
  BY DEF Thinned
<1>7. Numbered(J, x, j)
  <2>1. J \in Seq(Messages) /\ {x.message, x.transfer, j.begin, j.transfer, j.commit} \subseteq Nat
        /\ (x.message # 0 => x.message \notin {j.begin, j.commit})
        /\ j.begin \notin {0, j.commit} /\ (j.transfer = 0 <=> j.commit = 0)
    BY <1>2, <1>4 DEF Numbered, Grown
  <2>2. ASSUME NEW p \in DOMAIN J
        PROVE  /\ J[p].tag \in {"accepted", "ready", "commit", "imported"} => J[p].transfer # 0
               /\ J[p].id # 0 /\ J[p].id = x.message => J[p].tag \in Requested \cup Refusals
               /\ J[p].id # 0 /\ J[p].id = j.begin => J[p].tag \in {"begin", "accepted", "rejected"}
               /\ J[p].id # 0 /\ J[p].id = j.commit =>
                    \/ J[p].tag \in {"commit", "imported"} /\ J[p].transfer = j.transfer
                    \/ J[p].tag = "rejected"
    <3>1. CASE p = n
      BY <1>1, <2>1, <3>1 DEF Grown
    <3>2. CASE p \in DOMAIN K
      <4>1. J[p] = K[p]
        BY <3>2 DEF Grown
      <4> QED
        BY <1>2, <1>6, <3>2, <4>1 DEF Numbered
    <3> QED
      BY <3>1, <3>2 DEF Grown
  <2> QED
    BY <2>1, <2>2 DEF Numbered
<1>8. Awaited(j) = j.commit
  BY <1>4 DEF Awaited
<1>9. Awaits(J, j)
  BY <1>1, <1>8 DEF Awaits, Grown
<1>10. InTurn(J, x, j)
  <2>1. SUFFICES ASSUME x = NoExport, NEW p \in DOMAIN J, NEW q \in DOMAIN J, About(x, J[p]),
                        J[q].id = j.commit
                 PROVE  p < q
    BY <1>8 DEF InTurn
  <2>2. q = n /\ p \in DOMAIN K
    <3>1. NoExport.message # j.commit
      BY DEF NoExport
    <3>2. ~About(x, m)
      BY <1>3, <2>1, <3>1
    <3> QED
      BY <1>1, <1>6, <2>1, <3>2 DEF Grown
  <2> QED
    BY <2>2 DEF Grown
<1>11. \A p \in DOMAIN L : p # h => \E q \in DOMAIN J : q \in DOMAIN K /\ f[q] = p /\ J[q] = L[p]
  <2>1. SUFFICES ASSUME NEW p \in DOMAIN L, p # h
                 PROVE  \E q \in DOMAIN J : q \in DOMAIN K /\ f[q] = p /\ J[q] = L[p]
    OBVIOUS
  <2>2. PICK q \in DOMAIN K : f[q] = p
    BY <2>1 DEF Thinned
  <2> QED
    BY <2>2 DEF Thinned, Grown
<1>12. Covered(J, x, o)
  <2>1. ASSUME NEW e \in o
        PROVE  Held(J, x, e) \/ \E p \in DOMAIN J : Closes(J[p], e)
    <3>1. CASE Held(L, x, e)
      <4>1. \A p \in DOMAIN L : L[p].tag = "ready" => p # h
        OBVIOUS
      <4> QED
        BY <1>11, <3>1, <4>1 DEF Held
    <3>2. ASSUME NEW p \in DOMAIN L, Closes(L[p], e)
          PROVE  \E q \in DOMAIN J : Closes(J[q], e)
      <4>1. p # h
        BY <3>2 DEF Closes, Closings
      <4> QED
        BY <1>11, <3>2, <4>1
    <3> QED
      BY <3>1, <3>2 DEF Conversation, Covered
  <2>2. ASSUME x = NoExport, NEW p \in DOMAIN J, J[p].tag = "export"
        PROVE  \E q \in DOMAIN J : p < q /\ Stops(J[q], J[p].kind)
    <3>1. p \in DOMAIN K /\ J[p] = L[f[p]] /\ f[p] \in DOMAIN L
      BY <1>1, <2>2 DEF Grown, Thinned
    <3>2. PICK q \in DOMAIN L : f[p] < q /\ Stops(L[q], L[f[p]].kind)
      BY <2>2, <3>1 DEF Conversation, Covered
    <3>3. q # h
      BY <3>2 DEF Stops, Closings
    <3>4. PICK t \in DOMAIN J : t \in DOMAIN K /\ f[t] = q /\ J[t] = L[q]
      BY <1>11, <3>3
    <3>5. p < t
      BY <3>1, <3>2, <3>4 DEF Thinned
    <3> QED
      BY <3>1, <3>2, <3>4, <3>5
  <2> QED
    BY <2>1, <2>2 DEF Covered
<1>13. Registered(J, x, o)
  BY <1>1, <1>2 DEF Registered, Grown
<1> QED
  BY <1>5, <1>7, <1>9, <1>10, <1>12, <1>13 DEF Conversation

\* K is L with r in the place of the message at h.
Exchanged(L, K, h, r) ==
  /\ K \in Seq(Messages) /\ DOMAIN K = DOMAIN L /\ h \in DOMAIN L /\ K[h] = r
  /\ \A p \in DOMAIN L : p # h => K[p] = L[p]

\* The runtime answers in the place of what it consumed.
LEMMA Answered ==
  ASSUME NEW L, NEW K, NEW h, NEW r, NEW x, NEW i, NEW o, NEW P,
         Conversation(L, x, i, o), Exchanged(L, K, h, r), Registered(K, x, P),
         L[h].tag \in {"export", "read", "begin", "commit"}, r.tag \in Outputs,
         About(x, r) => About(x, L[h]) /\ (x # NoExport => Fits(x, r)),
         r.id = L[h].id \/ (r.id = 0 /\ L[h].tag = "read"),
         r.tag \in {"accepted", "ready", "commit", "imported"} => r.transfer # 0,
         r.id # 0 /\ r.id = x.message => r.tag \in Requested \cup Refusals,
         L[h].tag = "begin" => r.tag \in {"accepted", "rejected"},
         L[h].tag = "commit" => \/ r.tag = "imported" /\ r.transfer = L[h].transfer
                                \/ r.tag = "rejected",
         \A e \in P : \/ Held(K, x, e) \/ (\E p \in DOMAIN L : p # h /\ Closes(L[p], e))
                      \/ \E d \in o : d.id = e.id /\ d.kind = e.kind
  PROVE  Conversation(K, x, i, P)
<1>1. OneTalk(K, x)
  BY DEF Conversation, OneTalk, Exchanged
<1>2. \A p \in DOMAIN L : L[p].id # 0 /\ L[p].id \in {i.begin, i.commit} =>
         L[p].tag \in {"begin", "accepted", "rejected", "commit", "imported"}
  BY DEF Conversation, Numbered
<1>3. r.id # 0 /\ r.id \in {i.begin, i.commit} =>
        r.id = L[h].id /\ L[h].tag \in {"begin", "commit"}
  BY <1>2 DEF Exchanged
<1>4. Numbered(K, x, i)
  <2>1. ASSUME NEW p \in DOMAIN K
        PROVE  /\ K[p].tag \in {"accepted", "ready", "commit", "imported"} => K[p].transfer # 0
               /\ K[p].id # 0 /\ K[p].id = x.message => K[p].tag \in Requested \cup Refusals
               /\ K[p].id # 0 /\ K[p].id = i.begin => K[p].tag \in {"begin", "accepted", "rejected"}
               /\ K[p].id # 0 /\ K[p].id = i.commit =>
                    \/ K[p].tag \in {"commit", "imported"} /\ K[p].transfer = i.transfer
                    \/ K[p].tag = "rejected"
    <3>1. CASE p # h
      BY <2>1, <3>1 DEF Conversation, Numbered, Exchanged
    <3>2. CASE p = h
      <4>1. K[p] = r /\ h \in DOMAIN L
        BY <3>2 DEF Exchanged
      <4>2. L[h].id # 0 /\ L[h].id = i.begin => L[h].tag \in {"begin", "accepted", "rejected"}
        BY <4>1 DEF Conversation, Numbered
      <4>3. L[h].id # 0 /\ L[h].id = i.commit =>
              \/ L[h].tag \in {"commit", "imported"} /\ L[h].transfer = i.transfer
              \/ L[h].tag = "rejected"
        BY <4>1 DEF Conversation, Numbered
      <4> QED
        BY <1>3, <4>1, <4>2, <4>3
    <3> QED
      BY <3>1, <3>2
  <2> QED
    BY <2>1 DEF Conversation, Numbered, Exchanged
<1>5. i # NoImport => Awaited(i) \in {i.begin, i.commit} /\ Awaited(i) # 0
  BY DEF Conversation, Numbered, Awaited
<1>6. Awaits(K, i)
  <2>1. SUFFICES ASSUME i # NoImport PROVE \E p \in DOMAIN K : K[p].id = Awaited(i)
    BY DEF Awaits
  <2>2. PICK p \in DOMAIN L : L[p].id = Awaited(i)
    BY <2>1 DEF Conversation, Awaits
  <2>3. p = h => L[h].tag # "read"
    BY <1>2, <1>5, <2>1, <2>2
  <2> QED
    BY <2>2, <2>3 DEF Exchanged
<1>7. InTurn(K, x, i)
  <2>1. SUFFICES ASSUME x = NoExport, i # NoImport, NEW p \in DOMAIN K, NEW q \in DOMAIN K,
                        About(x, K[p]), K[q].id = Awaited(i)
                 PROVE  p < q
    BY DEF InTurn
  <2>2. p \in DOMAIN L /\ q \in DOMAIN L
    BY DEF Exchanged
  <2>3. About(x, L[p])
    BY <2>1 DEF Exchanged
  <2>4. L[q].id = Awaited(i)
    BY <1>5, <2>1 DEF Exchanged
  <2> QED
    BY <2>1, <2>2, <2>3, <2>4 DEF Conversation, InTurn
<1>8. \A p \in DOMAIN L : L[p].tag \in Closings => p # h /\ p \in DOMAIN K /\ K[p] = L[p]
  BY DEF Exchanged, Closings
<1>9. Covered(K, x, P)
  <2>1. ASSUME NEW e \in P
        PROVE  Held(K, x, e) \/ \E p \in DOMAIN K : Closes(K[p], e)
    <3>1. ASSUME NEW p \in DOMAIN L, Closes(L[p], e)
          PROVE  \E q \in DOMAIN K : Closes(K[q], e)
      BY <1>8, <3>1 DEF Closes
    <3>2. ASSUME NEW d \in o, d.id = e.id, d.kind = e.kind
          PROVE  Held(K, x, e) \/ \E q \in DOMAIN K : Closes(K[q], e)
      <4>1. CASE Held(L, x, d)
        <5>1. \A p \in DOMAIN L : L[p].tag = "ready" => p \in DOMAIN K /\ K[p] = L[p]
          BY DEF Exchanged
        <5> QED
          BY <3>2, <4>1, <5>1 DEF Held
      <4>2. ASSUME NEW p \in DOMAIN L, Closes(L[p], d)
            PROVE  \E q \in DOMAIN K : Closes(K[q], e)
        BY <3>1, <3>2, <4>2 DEF Closes
      <4> QED
        BY <4>1, <4>2 DEF Conversation, Covered
    <3> QED
      BY <3>1, <3>2
  <2>2. ASSUME x = NoExport, NEW p \in DOMAIN K, K[p].tag = "export"
        PROVE  \E q \in DOMAIN K : p < q /\ Stops(K[q], K[p].kind)
    <3>1. p # h /\ p \in DOMAIN L /\ K[p] = L[p]
      BY <2>2 DEF Exchanged, Outputs
    <3>2. PICK q \in DOMAIN L : p < q /\ Stops(L[q], L[p].kind)
      BY <2>2, <3>1 DEF Conversation, Covered
    <3> QED
      BY <1>8, <3>1, <3>2 DEF Stops
  <2> QED
    BY <2>1, <2>2 DEF Covered
<1> QED
  BY <1>1, <1>4, <1>6, <1>7, <1>9 DEF Conversation

\* What is over is given up.
LEMMA OverForgotten ==
  ASSUME NEW L, NEW x, NEW i, NEW o, Conversation(L, x, i, o),
         \A p \in DOMAIN L : ~About(x, L[p]), \A e \in o : e.id # x.transfer
  PROVE  Conversation(L, NoExport, i, o)
<1>1. \A e \in o : ~Held(L, x, e)
  BY DEF Held, About, Requested
<1>2. \A p \in DOMAIN L : L[p].tag # "export" /\ ~About(NoExport, L[p])
  BY DEF About, Requested, NoExport
<1> QED
  BY <1>1, <1>2, ExportForgotten

\* What the runtime has been told to close is given up.
LEMMA ClosedForgotten ==
  ASSUME NEW L, NEW K, NEW n, NEW m, NEW x, NEW i, NEW o,
         Conversation(L, x, i, o), Grown(L, K, n, m), m.id = 0,
         x # NoExport => Stops(m, Kind(x.stage)), m.tag \in Closings
  PROVE  Conversation(K, NoExport, NoImport, o)
<1>1. CASE x = NoExport
  BY <1>1, ClosingSaid, ImportForgotten
<1>2. CASE x # NoExport
  <2>1. Stops(m, Kind(x.stage))
    BY <1>2
  <2>2. Conversation(K, x, NoImport, o)
    BY ClosingSaid, ImportForgotten
  <2>3. n \in DOMAIN K /\ K[n] = m
    BY DEF Grown
  <2>4. ASSUME NEW e \in o, Held(K, x, e)
        PROVE  \E p \in DOMAIN K : Closes(K[p], e)
    <3>1. e.kind = Kind(x.stage)
      <4>1. CASE x.transfer = e.id
        BY <2>2, <2>4, <4>1 DEF Conversation, Registered
      <4>2. ASSUME NEW p \in DOMAIN K, K[p].tag = "ready", K[p].transfer = e.id
            PROVE  e.kind = Kind(x.stage)
        <5>1. About(x, K[p]) /\ K[p].tag \in Requested
          BY <4>2 DEF About, Requested
        <5>2. Fits(x, K[p])
          BY <1>2, <2>2, <5>1 DEF Conversation, OneTalk
        <5>3. e.kind = K[p].kind
          BY <2>2, <2>4, <4>2 DEF Conversation, Registered
        <5> QED
          BY <5>1, <5>2, <5>3 DEF Fits
      <4> QED
        BY <2>4, <4>1, <4>2 DEF Held
    <3>2. Closes(m, e)
      BY <2>1, <3>1 DEF Stops, Closes
    <3> QED
      BY <2>3, <3>2
  <2>5. ASSUME NEW p \in DOMAIN K, K[p].tag = "export"
        PROVE  \E q \in DOMAIN K : p < q /\ Stops(K[q], K[p].kind)
    <3>1. About(x, K[p]) /\ K[p].tag \in Requested
      BY <2>5 DEF About, Requested
    <3>2. K[p].kind = Kind(x.stage)
      BY <1>2, <2>2, <3>1 DEF Conversation, OneTalk, Fits
    <3>3. p \in DOMAIN L
      BY <2>5 DEF Grown, Closings
    <3>4. p < n
      BY <3>3 DEF Grown
    <3> QED
      BY <2>1, <2>3, <3>2, <3>4
  <2> QED
    BY <2>2, <2>4, <2>5, ExportForgotten
<1> QED
  BY <1>1, <1>2
-----------------------------------------------------------------------------
(* The operations of the client, and what they say *)

\* Nothing is said of the export x, or asked of any export.
Hushed(c, x) == \A p \in DOMAIN Line(c) : ~About(x, Line(c)[p])
Calm(c) == \A p \in DOMAIN c.sent : c.sent[p].tag \notin {"export", "read"}

\* r has at most told the runtime to close what c had.
Winds(c, r) ==
  /\ Wired(r) /\ r.polled = c.polled /\ r.failed = c.failed
  /\ \A x, i, o : Conversation(Line(c), x, i, o) => Conversation(Line(r), x, i, o)
  /\ \A x : Hushed(c, x) => Hushed(r, x)
  /\ Calm(c) => Calm(r)

\* The line of a client whose queues are well formed.
LEMMA Lines ==
  ASSUME NEW c, Wired(c)
  PROVE  /\ c.polled \in Seq(Messages) /\ c.sent \in Seq(Messages) /\ Line(c) \in Seq(Messages)
         /\ \A p \in DOMAIN c.polled : c.polled[p] \in Messages /\ c.polled[p].tag \in Outputs
         /\ \A p \in DOMAIN c.sent : c.sent[p] \in Messages /\ c.sent[p].tag \in Inputs
         /\ \A m \in Messages :
              c.polled \o Append(c.sent, m) = Append(Line(c), m)
<1> DEFINE In1 == {m \in Messages : m.tag \in Inputs}
           Out1 == {m \in Messages : m.tag \in Outputs}
<1>1. c.sent \in Seq(In1) /\ c.polled \in Seq(Out1) /\ In1 \subseteq Messages /\ Out1 \subseteq Messages
  BY DEF Wired
<1>2. /\ \A p \in DOMAIN c.polled : c.polled[p] \in Out1
      /\ \A p \in DOMAIN c.sent : c.sent[p] \in In1
  BY <1>1
<1>3. c.polled \in Seq(Messages) /\ c.sent \in Seq(Messages)
  <2> HIDE DEF In1, Out1
  <2> QED
    BY <1>1
<1>4. ASSUME NEW P \in Seq(Messages), NEW S \in Seq(Messages), NEW m \in Messages
      PROVE  P \o S \in Seq(Messages) /\ P \o Append(S, m) = Append(P \o S, m)
  <2> DEFINE A == P \o Append(S, m)
             B == Append(P \o S, m)
             n == Len(P) + Len(S) + 1
  <2>1. /\ Len(P) \in Nat /\ Len(S) \in Nat /\ n \in Nat /\ P \o S \in Seq(Messages)
        /\ A \in Seq(Messages) /\ Len(A) = n /\ B \in Seq(Messages) /\ Len(B) = n
    BY <1>4
  <2>2. A \in [1..n -> Messages] /\ B \in [1..n -> Messages]
    <3> HIDE DEF A, B, n
    <3> QED
      BY <2>1
  <2>3. \A p \in 1..n : A[p] = B[p]
    BY <1>4, <2>1
  <2> HIDE DEF A, B, n
  <2>4. A = B
    <3>1. A = [p \in 1..n |-> A[p]] /\ B = [p \in 1..n |-> B[p]]
      BY <2>2
    <3>2. [p \in 1..n |-> A[p]] = [p \in 1..n |-> B[p]]
      BY <2>3
    <3> QED
      BY <3>1, <3>2
  <2> QED
    BY <2>1, <2>4 DEF A, B
<1> HIDE DEF In1, Out1
<1>5. \A m \in Messages : c.polled \o Append(c.sent, m) = Append(Line(c), m)
  BY <1>3, <1>4 DEF Line
<1>6. Line(c) \in Seq(Messages)
  BY <1>3, <1>4 DEF Line
<1> QED
  BY <1>2, <1>3, <1>5, <1>6 DEF In1, Out1

\* A message more is said.
LEMMA Said ==
  ASSUME NEW c, Wired(c), NEW m \in Messages, m.tag \in Inputs,
         NEW r, r.sent = Append(c.sent, m), r.polled = c.polled
  PROVE  /\ Wired(r) /\ Grown(Line(c), Line(r), Len(Line(c)) + 1, m)
         /\ \A x : ~About(x, m) /\ Hushed(c, x) => Hushed(r, x)
         /\ m.tag \notin {"export", "read"} /\ Calm(c) => Calm(r)
<1>1. Line(r) = Append(Line(c), m)
  BY Lines DEF Line
<1>2. Grown(Line(c), Line(r), Len(Line(c)) + 1, m)
  BY <1>1, Lines, Growing
<1>3. Wired(r)
  <2> DEFINE In1 == {w \in Messages : w.tag \in Inputs}
  <2>1. m \in In1 /\ c.sent \in Seq(In1)
    BY DEF Wired
  <2> HIDE DEF In1
  <2>2. Append(c.sent, m) \in Seq(In1)
    BY <2>1
  <2> QED
    BY <2>2 DEF Wired, In1
<1>4. \A x : ~About(x, m) /\ Hushed(c, x) => Hushed(r, x)
  BY <1>2 DEF Hushed, Grown
<1>5. m.tag \notin {"export", "read"} /\ Calm(c) => Calm(r)
  <2>1. c.sent \in Seq(Messages)
    BY Lines
  <2>2. /\ DOMAIN c.sent = 1..Len(c.sent) /\ DOMAIN r.sent = 1..(Len(c.sent) + 1)
        /\ Len(c.sent) \in Nat /\ r.sent[Len(c.sent) + 1] = m
        /\ \A p \in 1..Len(c.sent) : r.sent[p] = c.sent[p]
    BY <2>1
  <2> QED
    BY <2>2 DEF Calm
<1> QED
  BY <1>2, <1>3, <1>4, <1>5

\* Who says nothing winds nothing up.
LEMMA Mute ==
  ASSUME NEW c, Wired(c), NEW r, r.sent = c.sent, r.polled = c.polled, r.failed = c.failed
  PROVE  Winds(c, r)
BY DEF Winds, Wired, Line, Hushed, Calm

\* One after the other.
LEMMA WindsOn ==
  ASSUME NEW c, NEW d, NEW r, Winds(c, d), Winds(d, r)
  PROVE  Winds(c, r)
BY DEF Winds

\* The runtime is told to close something.
LEMMA Told ==
  ASSUME NEW c, Shape(c), Wired(c), NEW tag \in Closings, NEW kind \in Kinds \cup {"none"},
         NEW transfer \in Nat
  PROVE  LET r == Tell(c, tag, kind, transfer) IN
         /\ Winds(c, r) /\ r.cache = c.cache
         /\ Grown(Line(c), Line(r), Len(Line(c)) + 1, Message(tag, 0, kind, transfer))
<1> DEFINE m == Message(tag, 0, kind, transfer)
           r == Tell(c, tag, kind, transfer)
<1>1. /\ m \in Messages /\ m.tag = tag /\ m.id = 0 /\ m.tag \in Inputs
      /\ m.tag \notin {"export", "read"}
  BY DEF Message, Messages, Closings, Inputs
<1>2. /\ r.sent = Append(c.sent, m) /\ r.polled = c.polled /\ r.failed = c.failed
      /\ r.cache = c.cache
  BY DEF Tell, Shape, NewClient
<1> HIDE DEF m, r
<1>3. /\ Wired(r) /\ Grown(Line(c), Line(r), Len(Line(c)) + 1, m)
      /\ \A x : ~About(x, m) /\ Hushed(c, x) => Hushed(r, x)
      /\ Calm(c) => Calm(r)
  BY <1>1, <1>2, Said
<1>4. \A x, i, o : Conversation(Line(c), x, i, o) => Conversation(Line(r), x, i, o)
  BY <1>1, <1>3, ClosingSaid
<1>5. \A x : Hushed(c, x) => Hushed(r, x)
  <2>1. \A x : ~About(x, m)
    BY <1>1 DEF About, Requested, Streamed, Refusals, Closings
  <2> QED
    BY <1>3, <2>1
<1>6. Winds(c, r)
  BY <1>2, <1>3, <1>4, <1>5 DEF Winds
<1> QED
  BY <1>2, <1>3, <1>6 DEF m, r

\* What r says, is told and remembers of the cache is what c did.
Same(c, r) ==
  r.sent = c.sent /\ r.polled = c.polled /\ r.failed = c.failed /\ r.cache = c.cache

\* Files, events and what is forgotten are nothing to the runtime.
LEMMA Silently ==
  ASSUME NEW c, Shape(c)
  PROVE  /\ \A ids : Same(c, Remove(c, ids))
         /\ \A folder : Same(c, Create(c, folder))
         /\ \A event : Same(c, Emit(c, event))
         /\ Same(c, DropExport(c)) /\ Same(c, ClearImport(c)) /\ Same(c, Cleanup(c))
         /\ Same(c, [c EXCEPT !.export = NoExport])
         /\ \A project : Same(c, [c EXCEPT !.project = project])
         /\ \A diagnosis : Same(c, [c EXCEPT !.diagnosis = diagnosis])
<1>1. \A ids : Same(c, Remove(c, ids)) /\ DOMAIN Remove(c, ids) = DOMAIN c
  BY DEF Same, Remove, Shape, NewClient
<1>2. \A folder : Same(c, Create(c, folder))
  BY DEF Same, Create, Shape, NewClient
<1>3. \A event : Same(c, Emit(c, event))
  BY DEF Same, Emit, Shape, NewClient
<1>4. /\ Same(c, DropExport(c)) /\ Same(c, ClearImport(c))
      /\ Same(c, [c EXCEPT !.export = NoExport])
      /\ \A project : Same(c, [c EXCEPT !.project = project])
      /\ \A diagnosis : Same(c, [c EXCEPT !.diagnosis = diagnosis])
  BY DEF Same, DropExport, ClearImport, Remove, Shape, NewClient
<1>5. Same(c, Cleanup(c))
  <2> DEFINE kept == Remove(c, c.diagnosis.parts)
             folder == IF \E f \in kept.files : f.folder = c.diagnosis.folder /\ c.diagnosis.folder # 0
                       THEN {} ELSE {c.diagnosis.folder}
             gone == Remove(kept, folder)
  <2>1. Same(c, kept) /\ Shape(kept)
    BY <1>1, Files DEF View
  <2>2. Cleanup(c) = [gone EXCEPT !.diagnosis = NoDiagnosis]
    BY DEF Cleanup
  <2> HIDE DEF kept, folder
  <2>3. Same(kept, [gone EXCEPT !.diagnosis = NoDiagnosis])
    BY <2>1 DEF Same, Remove, Shape, NewClient
  <2> QED
    BY <2>1, <2>2, <2>3 DEF Same
<1> QED
  BY <1>1, <1>2, <1>3, <1>4, <1>5

\* What an end or a postponement leaves of the cache.
LEMMA CacheLeft ==
  ASSUME NEW c, Shape(c)
  PROVE  /\ LET r == FinishCache(c) IN
            /\ r.sent = c.sent /\ r.polled = c.polled /\ r.failed = c.failed
            /\ r.cache = [c.cache EXCEPT !.prepared = FALSE]
         /\ LET r == Reschedule(c) IN
            /\ r.sent = c.sent /\ r.polled = c.polled /\ r.failed = c.failed
            /\ r.cache = [c.cache EXCEPT !.due = TRUE, !.waiting = TRUE]
<1>1. Same(c, DropExport(c)) /\ Shape(DropExport(c))
  BY Silently, GivingUp DEF View
<1>2. LET r == FinishCache(c) IN
      /\ r.sent = c.sent /\ r.polled = c.polled /\ r.failed = c.failed
      /\ r.cache = [c.cache EXCEPT !.prepared = FALSE]
  <2> DEFINE d == DropExport(c)
  <2>1. FinishCache(c) = [d EXCEPT !.cache.prepared = FALSE]
    BY DEF FinishCache
  <2> HIDE DEF d
  <2>2. Same(c, d) /\ Shape(d)
    BY <1>1 DEF d
  <2> QED
    BY <2>1, <2>2 DEF Same, Shape, NewClient
<1>3. LET r == Reschedule(c) IN
      /\ r.sent = c.sent /\ r.polled = c.polled /\ r.failed = c.failed
      /\ r.cache = [c.cache EXCEPT !.due = TRUE, !.waiting = TRUE]
  BY DEF Reschedule, Shape, NewClient
<1> QED
  BY <1>2, <1>3

\* The kind of an export is one the runtime knows.
LEMMA KindKnown ==
  ASSUME NEW stage \in Stages
  PROVE  Kind(stage) \in Kinds
BY DEF Stages, Manual, DiagnosisStages, Kind, Kinds

\* Giving up an import, a project file or a diagnosis tells the runtime to close things.
LEMMA Windings ==
  ASSUME NEW c, Shape(c), Wired(c), c.export.transfer \in Nat, c.import.transfer \in Nat,
         NEW success \in BOOLEAN
  PROVE  /\ Winds(c, CancelImport(c)) /\ CancelImport(c).cache = c.cache
         /\ Winds(c, FinishProject(c, success)) /\ FinishProject(c, success).cache = c.cache
         /\ Winds(c, FinishDiagnosis(c, success)) /\ FinishDiagnosis(c, success).cache = c.cache
<1>1. \A d, r : Same(d, r) /\ Wired(d) => Winds(d, r) /\ r.cache = d.cache
  BY Mute DEF Same
<1>2. "none" \in Kinds \cup {"none"} /\ {"release", "cancel"} \subseteq Closings
  BY DEF Closings
<1>3. /\ Winds(c, CancelImport(c)) /\ CancelImport(c).cache = c.cache
      /\ Shape(CancelImport(c)) /\ CancelImport(c).export = c.export
  <2> DEFINE d == ClearImport(c)
  <2>1. Winds(c, d) /\ d.cache = c.cache /\ Shape(d) /\ Wired(d)
    BY <1>1, Silently, GivingUp DEF View, Winds
  <2>2. Winds(d, Tell(d, "release", "none", c.import.transfer))
        /\ Tell(d, "release", "none", c.import.transfer).cache = d.cache
    <3> HIDE DEF d
    <3> QED
      BY <1>2, <2>1, Told
  <2>3. CancelImport(c) \in {d, Tell(d, "release", "none", c.import.transfer)}
    BY DEF CancelImport
  <2>4. Winds(c, Tell(d, "release", "none", c.import.transfer))
    <3> HIDE DEF d
    <3> QED
      BY <2>1, <2>2, WindsOn
  <2>5. Shape(CancelImport(c)) /\ CancelImport(c).export = c.export
    BY GivingUp DEF View
  <2> HIDE DEF d
  <2> QED
    BY <2>1, <2>2, <2>3, <2>4, <2>5
<1>4. Winds(c, FinishProject(c, success)) /\ FinishProject(c, success).cache = c.cache
  <2> DEFINE b == CancelImport(c)
             settled == IF success THEN c ELSE Remove(b, {c.project.file})
             dropped == DropExport(settled)
             d == [dropped EXCEPT !.project = NoProject]
  <2>1. FinishProject(c, success) = Emit(d, "project")
    BY DEF FinishProject
  <2>2. Winds(c, c) /\ Winds(c, b) /\ b.cache = c.cache /\ Shape(b)
    BY <1>3, Mute
  <2> HIDE DEF b
  <2>3. Winds(c, settled) /\ settled.cache = c.cache /\ Shape(settled)
    <3>1. Same(b, Remove(b, {c.project.file})) /\ Shape(Remove(b, {c.project.file}))
      BY <2>2, Silently, Files DEF View
    <3>2. Winds(b, Remove(b, {c.project.file}))
      BY <1>1, <2>2, <3>1 DEF Winds
    <3> QED
      BY <2>2, <3>1, <3>2, WindsOn DEF Same
  <2> HIDE DEF settled
  <2>4. Winds(c, dropped) /\ dropped.cache = c.cache /\ Shape(dropped)
    <3>1. Same(settled, dropped) /\ Shape(dropped)
      BY <2>3, Silently, GivingUp DEF View
    <3>2. Winds(settled, dropped)
      BY <1>1, <2>3, <3>1 DEF Winds
    <3> QED
      BY <2>3, <3>1, <3>2, WindsOn DEF Same
  <2> HIDE DEF dropped
  <2>5. Winds(c, d) /\ d.cache = c.cache /\ Shape(d)
    <3>1. Same(dropped, d)
      BY <2>4, Silently
    <3>2. Winds(dropped, d)
      BY <1>1, <2>4, <3>1 DEF Winds
    <3>3. Shape(d)
      BY <2>4 DEF Shape, NewClient, NoProject
    <3> QED
      BY <2>4, <3>1, <3>2, <3>3, WindsOn DEF Same
  <2> HIDE DEF d
  <2>6. Same(d, Emit(d, "project"))
    BY <2>5, Silently
  <2>7. Winds(d, Emit(d, "project"))
    BY <1>1, <2>5, <2>6 DEF Winds
  <2> QED
    BY <2>1, <2>5, <2>6, <2>7, WindsOn DEF Same
<1>5. Winds(c, FinishDiagnosis(c, success)) /\ FinishDiagnosis(c, success).cache = c.cache
  <2> DEFINE b == CancelImport(c)
             told == IF c.export.transfer # 0
                     THEN Tell(b, "release", "none", c.export.transfer)
                     ELSE IF c.export.stage \in DiagnosisStages
                          THEN Tell(b, "cancel", Kind(c.export.stage), 0)
                          ELSE b
             settled == IF success THEN c ELSE told
             dropped == DropExport(settled)
             d == Cleanup(dropped)
  <2>1. FinishDiagnosis(c, success) = Emit(d, "diagnosis")
    BY DEF FinishDiagnosis
  <2>2. Winds(c, c) /\ Winds(c, b) /\ b.cache = c.cache /\ Shape(b) /\ Wired(b)
    BY <1>3, Mute DEF Winds
  <2> HIDE DEF b
  <2>3. Winds(c, told) /\ told.cache = c.cache /\ Shape(told)
    <3>1. c.export.stage \in DiagnosisStages => Kind(c.export.stage) \in Kinds \cup {"none"}
      BY KindKnown DEF Stages
    <3>2. CASE c.export.transfer # 0
      <4>1. told = Tell(b, "release", "none", c.export.transfer)
        BY <3>2
      <4> DEFINE r == Tell(b, "release", "none", c.export.transfer)
      <4>2. "release" \in Closings
        BY <1>2
      <4>3. Winds(b, r) /\ r.cache = b.cache
        BY <1>2, <2>2, <4>2, Told
      <4>4. Shape(r)
        BY <2>2, Words DEF View
      <4> HIDE DEF r
      <4>5. Winds(c, r)
        BY <2>2, <4>3, WindsOn
      <4> QED
        BY <2>2, <4>1, <4>3, <4>4, <4>5 DEF r
    <3>3. CASE c.export.transfer = 0 /\ c.export.stage \in DiagnosisStages
      <4>1. told = Tell(b, "cancel", Kind(c.export.stage), 0) /\ 0 \in Nat
        BY <3>3
      <4> QED
        BY <1>2, <2>2, <3>1, <3>3, <4>1, Told, WindsOn, Words DEF View
    <3> QED
      BY <2>2, <3>2, <3>3
  <2> HIDE DEF told
  <2>4. Winds(c, settled) /\ settled.cache = c.cache /\ Shape(settled)
    BY <2>2, <2>3
  <2> HIDE DEF settled
  <2>5. Winds(c, dropped) /\ dropped.cache = c.cache /\ Shape(dropped)
    <3>1. Same(settled, dropped) /\ Shape(dropped)
      BY <2>4, Silently, GivingUp DEF View
    <3>2. Winds(settled, dropped)
      BY <1>1, <2>4, <3>1 DEF Winds
    <3> QED
      BY <2>4, <3>1, <3>2, WindsOn DEF Same
  <2> HIDE DEF dropped
  <2>6. Winds(c, d) /\ d.cache = c.cache /\ Shape(d)
    <3>1. Same(dropped, d) /\ Shape(d)
      BY <2>5, Silently, GivingUp DEF View
    <3>2. Winds(dropped, d)
      BY <1>1, <2>5, <3>1 DEF Winds
    <3> QED
      BY <2>5, <3>1, <3>2, WindsOn DEF Same
  <2> HIDE DEF d
  <2>7. Same(d, Emit(d, "diagnosis"))
    BY <2>6, Silently
  <2>8. Winds(d, Emit(d, "diagnosis"))
    BY <1>1, <2>6, <2>7 DEF Winds
  <2> QED
    BY <2>1, <2>6, <2>7, <2>8, WindsOn DEF Same
<1> QED
  BY <1>3, <1>4, <1>5

\* The messages under way are finitely many, and in line.
LEMMA UnderWay ==
  ASSUME NEW c, Wired(c)
  PROVE  /\ IsFiniteSet(MessagesOf(c))
         /\ \A p \in DOMAIN Line(c) : Line(c)[p] \in MessagesOf(c)
<1>1. c.polled \in Seq(Messages) /\ c.sent \in Seq(Messages)
  BY Lines
<1>2. ASSUME NEW queue \in Seq(Messages)
      PROVE  IsFiniteSet(In(queue))
  <2> DEFINE item == [p \in 1..Len(queue) |-> queue[p]]
  <2>1. Len(queue) \in Nat /\ DOMAIN queue = 1..Len(queue)
    OBVIOUS
  <2>2. item \in Surjection(1..Len(queue), In(queue))
    BY <2>1 DEF Surjection, In
  <2>3. IsFiniteSet(1..Len(queue))
    BY <2>1, FS_Interval
  <2> HIDE DEF item
  <2> QED
    BY <2>2, <2>3, FS_Surjection
<1>3. IsFiniteSet(MessagesOf(c))
  BY <1>1, <1>2, FS_Union DEF MessagesOf
<1>4. \A p \in DOMAIN Line(c) : Line(c)[p] \in MessagesOf(c)
  <2>1. ASSUME NEW P \in Seq(Messages), NEW S \in Seq(Messages), NEW p \in DOMAIN (P \o S)
        PROVE  (P \o S)[p] \in In(S) \cup In(P)
    <3>1. /\ Len(P) \in Nat /\ Len(S) \in Nat /\ DOMAIN P = 1..Len(P) /\ DOMAIN S = 1..Len(S)
          /\ p \in 1..(Len(P) + Len(S))
      BY <2>1
    <3>2. CASE p <= Len(P)
      BY <2>1, <3>1, <3>2 DEF In
    <3>3. CASE ~(p <= Len(P))
      <4>1. p - Len(P) \in DOMAIN S
        BY <3>1, <3>3
      <4>2. (P \o S)[p] = S[p - Len(P)]
        BY <2>1, <3>1, <3>3
      <4> QED
        BY <4>1, <4>2 DEF In
    <3> QED
      BY <3>2, <3>3
  <2> QED
    BY <1>1, <2>1 DEF Line, MessagesOf
<1> QED
  BY <1>3, <1>4

\* The image of a finite set is finite.
LEMMA FiniteImage ==
  ASSUME NEW S, IsFiniteSet(S), NEW f
  PROVE  IsFiniteSet({f[s] : s \in S})
<1> DEFINE g == [s \in S |-> f[s]]
<1>1. g \in Surjection(S, {f[s] : s \in S})
  BY DEF Surjection
<1> HIDE DEF g
<1> QED
  BY <1>1, FS_Surjection

\* A request has a number of its own.
LEMMA MessageNumber ==
  ASSUME NEW c, Shape(c), Wired(c)
  PROVE  /\ NewMessage(c) \in Nat \ {0}
         /\ NewMessage(c) \notin {c.export.message, c.import.begin, c.import.commit}
         /\ \A p \in DOMAIN Line(c) : Line(c)[p].id # NewMessage(c)
<1> DEFINE told == MessagesOf(c)
           number == [m \in told |-> m.id]
           ids == {m.id : m \in told}
           used == (ids \cup {c.export.message, c.import.begin, c.import.commit}) \ {0}
<1>1. IsFiniteSet(ids)
  <2>1. ids = {number[m] : m \in told} /\ IsFiniteSet(told)
    BY UnderWay
  <2> HIDE DEF ids, number, told
  <2> QED
    BY <2>1, FiniteImage
<1>2. IsFiniteSet({c.export.message, c.import.begin, c.import.commit})
  <2>1. IsFiniteSet({c.import.commit} \cup {c.import.begin})
    BY FS_Singleton, FS_AddElement
  <2>2. IsFiniteSet(({c.import.commit} \cup {c.import.begin}) \cup {c.export.message})
    BY <2>1, FS_AddElement
  <2> QED
    BY <2>2, Zenon
<1>3. IsFiniteSet(used)
  <2> HIDE DEF ids
  <2> QED
    BY <1>1, <1>2, FS_Union, FS_Subset
<1>4. Fresh(used) \in Nat \ {0} /\ Fresh(used) \notin used
  BY <1>3, FreshNumber
<1>5. NewMessage(c) = Fresh(used)
  BY DEF NewMessage
<1>6. \A p \in DOMAIN Line(c) : Line(c)[p] \in told
  BY UnderWay
<1> HIDE DEF told, used
<1> QED
  BY <1>4, <1>5, <1>6 DEF used

\* A transfer has a number of its own, that is not on the way either.
LEMMA TransferNumber ==
  ASSUME Wired(client), IsFiniteSet(open)
  PROVE  /\ NewTransfer \in Nat \ {0}
         /\ \A e \in open : e.id # NewTransfer
         /\ NewTransfer \notin {client.export.transfer, client.import.transfer}
         /\ \A p \in DOMAIN Line(client) : Line(client)[p].transfer # NewTransfer
<1> DEFINE told == MessagesOf(client)
           carried == [m \in told |-> m.transfer]
           number == [e \in open |-> e.id]
           ids == {e.id : e \in open}
           transfers == {m.transfer : m \in told}
           used == (ids \cup transfers \cup {client.export.transfer, client.import.transfer}) \ {0}
<1>1. IsFiniteSet(ids)
  <2>1. ids = {number[e] : e \in open}
    OBVIOUS
  <2> HIDE DEF ids, number
  <2> QED
    BY <2>1, FiniteImage
<1>2. IsFiniteSet(transfers)
  <2>1. transfers = {carried[m] : m \in told} /\ IsFiniteSet(told)
    BY UnderWay
  <2> HIDE DEF transfers, carried, told
  <2> QED
    BY <2>1, FiniteImage
<1>3. IsFiniteSet({client.import.transfer} \cup {client.export.transfer})
  BY FS_Singleton, FS_AddElement
<1>4. IsFiniteSet(used)
  <2> HIDE DEF ids, transfers
  <2>1. IsFiniteSet(ids \cup transfers)
    BY <1>1, <1>2, FS_Union
  <2>2. {client.export.transfer, client.import.transfer}
          = {client.import.transfer} \cup {client.export.transfer}
    OBVIOUS
  <2>3. IsFiniteSet(ids \cup transfers \cup {client.export.transfer, client.import.transfer})
    BY <1>3, <2>1, <2>2, FS_Union
  <2> QED
    BY <2>3, FS_Subset
<1>5. Fresh(used) \in Nat \ {0} /\ Fresh(used) \notin used
  BY <1>4, FreshNumber
<1>6. NewTransfer = Fresh(used)
  BY DEF NewTransfer
<1>7. \A p \in DOMAIN Line(client) : Line(client)[p] \in told
  BY UnderWay
<1> HIDE DEF told
<1>8. /\ \A e \in open : e.id \in used \cup {0}
      /\ {client.export.transfer, client.import.transfer} \subseteq used \cup {0}
      /\ \A m \in told : m.transfer \in used \cup {0}
  OBVIOUS
<1> HIDE DEF used
<1> QED
  BY <1>5, <1>6, <1>7, <1>8

\* r has asked for an export, where no other was and nothing was left of one.
Asks(c, r) ==
  /\ Wired(r) /\ r.polled = c.polled /\ r.failed = c.failed /\ r.cache = c.cache
  /\ r.export # NoExport
  /\ \A i \in {c.import, NoImport} : \A o :
       Conversation(Line(c), NoExport, i, o) => Conversation(Line(r), r.export, i, o)

\* The request of the export that is in place.
LEMMA Asking ==
  ASSUME NEW c, Shape(c), Wired(c), Hushed(c, NoExport), c.export.stage # "none",
         c.export.transfer = 0
  PROVE  Asks(c, Ask(c))
<1> DEFINE id == NewMessage(c)
           kind == Kind(c.export.stage)
           m == Message("export", id, kind, 0)
           r == Ask(c)
<1>1. /\ id \in Nat \ {0} /\ id \notin {c.export.message, c.import.begin, c.import.commit}
      /\ \A p \in DOMAIN Line(c) : Line(c)[p].id # id
  BY MessageNumber
<1>2. c.export.stage \in Stages
  BY DEF Shape
<1>3. kind \in Kinds \cup {"none"}
  BY <1>2, KindKnown
<1>4. /\ r.sent = Append(c.sent, m) /\ r.polled = c.polled /\ r.failed = c.failed
      /\ r.cache = c.cache /\ r.import = c.import /\ r.export.message = id
      /\ r.export.stage = c.export.stage /\ r.export.transfer = 0
  BY DEF Ask, Shape, NewClient, NoExport
<1> HIDE DEF id, kind
<1>5. m \in Messages /\ m.tag \in Inputs
  BY <1>1, <1>3 DEF Message, Messages, Inputs
<1> HIDE DEF m, r
<1>6. Line(r) = Append(Line(c), m)
  BY <1>4, <1>5, Lines DEF Line
<1>7. Grown(Line(c), Line(r), Len(Line(c)) + 1, m)
  BY <1>5, <1>6, Lines, Growing
<1>8. Wired(r)
  <2> DEFINE In1 == {w \in Messages : w.tag \in Inputs}
  <2>1. m \in In1 /\ c.sent \in Seq(In1)
    BY <1>5 DEF Wired
  <2> HIDE DEF In1
  <2>2. Append(c.sent, m) \in Seq(In1)
    BY <2>1
  <2> QED
    BY <1>4, <2>2 DEF Wired, In1
<1>9. r.export # NoExport
  BY <1>4 DEF NoExport
<1>10. ASSUME NEW i \in {c.import, NoImport}, NEW o, Conversation(Line(c), NoExport, i, o)
       PROVE  Conversation(Line(r), r.export, i, o)
  <2>1. r.export.message \notin {i.begin, i.commit}
    BY <1>1, <1>4 DEF NoImport
  <2>2. m = Message("export", r.export.message, Kind(r.export.stage), 0)
    BY <1>4 DEF m, kind
  <2>3. \A p \in DOMAIN Line(c) : ~About(NoExport, Line(c)[p]) /\ Line(c)[p].id # r.export.message
    BY <1>1, <1>4 DEF Hushed
  <2> QED
    BY <1>1, <1>4, <1>7, <1>9, <1>10, <2>1, <2>2, <2>3, ExportAsked
<1> QED
  BY <1>4, <1>8, <1>9, <1>10 DEF Asks, r

\* An export begins, or the stream of a project file is asked for.
LEMMA Requesting ==
  ASSUME NEW c, Shape(c), Wired(c), Hushed(c, NoExport)
  PROVE  /\ \A stage \in Stages : \A folder : Asks(c, Request(c, stage, folder))
         /\ c.project # NoProject => Asks(c, RequestProject(c))
<1>1. ASSUME NEW w, NEW x, Shape(w), w.export = x, Same(c, w), w.import = c.import,
             x.stage # "none", x.transfer = 0
      PROVE  Asks(c, Ask(w))
  <2>1. Wired(w) /\ Line(w) = Line(c) /\ Hushed(w, NoExport)
    BY <1>1 DEF Same, Wired, Line, Hushed
  <2>2. Asks(w, Ask(w))
    BY <1>1, <2>1, Asking
  <2> QED
    BY <1>1, <2>1, <2>2 DEF Asks, Same
<1>2. ASSUME NEW stage \in Stages, NEW folder
      PROVE  Asks(c, Request(c, stage, folder))
  <2> DEFINE made == Create(c, folder)
             export == [NoExport EXCEPT !.stage = stage, !.file = NewFile(c)]
             w == [made EXCEPT !.export = export]
  <2>1. View(made, c.export, c.project, c.diagnosis, c.import, c.events) /\ Same(c, made)
    BY Files, Silently
  <2>2. /\ DOMAIN export = DOMAIN NoExport /\ export.stage = stage /\ stage # "none"
        /\ export.transfer = 0
    BY DEF NoExport, Stages, Manual, DiagnosisStages
  <2> HIDE DEF made, export
  <2>3. Shape(w) /\ w.export = export /\ w.import = c.import /\ Same(c, w)
    BY <2>1, <2>2 DEF View, Shape, NewClient, Same
  <2>4. Request(c, stage, folder) = Ask(w)
    BY DEF Request, made, export
  <2> HIDE DEF w
  <2> QED
    BY <1>1, <2>2, <2>3, <2>4
<1>3. ASSUME c.project # NoProject
      PROVE  Asks(c, RequestProject(c))
  <2> DEFINE export == [NoExport EXCEPT !.stage = "project", !.file = c.project.file]
             w == [c EXCEPT !.export = export]
  <2>1. /\ DOMAIN export = DOMAIN NoExport /\ export.stage = "project" /\ export.transfer = 0
        /\ "project" \in Stages
    BY DEF NoExport, Stages
  <2> HIDE DEF export
  <2>2. Shape(w) /\ w.export = export /\ w.import = c.import /\ Same(c, w)
    BY <2>1 DEF Shape, NewClient, Same
  <2>3. RequestProject(c) = Ask(w)
    BY <1>3 DEF RequestProject, export
  <2> HIDE DEF w
  <2> QED
    BY <1>1, <2>1, <2>2, <2>3
<1> QED
  BY <1>2, <1>3

\* An import begins in the place of the one before.
LEMMA Beginning ==
  ASSUME NEW c, Shape(c), Wired(c), c.import.transfer \in Nat, c.export.transfer \in Nat,
         NEW purpose \in Purposes
  PROVE  LET r == BeginImport(c, purpose) IN
         /\ Wired(r) /\ r.polled = c.polled /\ r.failed = c.failed /\ r.cache = c.cache
         /\ r.import # NoImport
         /\ \A i, o : Conversation(Line(c), c.export, i, o) =>
                        Conversation(Line(r), c.export, r.import, o)
         /\ \A x : Hushed(c, x) => Hushed(r, x)
         /\ Calm(c) => Calm(r)
<1> DEFINE staged == IF purpose = "restore" THEN c ELSE StageManifest(c)
           cleared == CancelImport(staged)
           id == NewMessage(cleared)
           import == [NoImport EXCEPT !.purpose = purpose, !.begin = id,
                      !.file = IF purpose = "restore" THEN 0 ELSE NewFile(c)]
           m == Message("begin", id, "none", 0)
           r == BeginImport(c, purpose)
<1>1. /\ Shape(staged) /\ Wired(staged) /\ Winds(c, staged) /\ staged.cache = c.cache
      /\ staged.export = c.export /\ staged.import = c.import
  <2>1. Shape(StageManifest(c)) /\ Same(c, StageManifest(c))
        /\ StageManifest(c).export = c.export /\ StageManifest(c).import = c.import
    BY Files, Silently DEF StageManifest, View
  <2>2. Winds(c, c) /\ Winds(c, StageManifest(c))
    BY <2>1, Mute DEF Same
  <2> QED
    BY <2>1, <2>2 DEF Same, Winds
<1> HIDE DEF staged
<1>2. /\ Shape(cleared) /\ Winds(c, cleared) /\ cleared.cache = c.cache /\ Wired(cleared)
      /\ cleared.export = c.export /\ cleared.import = NoImport
  <2>1. Winds(staged, cleared) /\ cleared.cache = staged.cache
    BY <1>1, Windings
  <2>2. View(cleared, staged.export, staged.project, staged.diagnosis, NoImport, staged.events)
    BY <1>1, GivingUp
  <2>3. Winds(c, cleared)
    BY <1>1, <2>1, WindsOn
  <2> QED
    BY <1>1, <2>1, <2>2, <2>3 DEF View, Winds
<1>3. r = [cleared EXCEPT !.import = import, !.sent = Append(@, m)]
  BY DEF BeginImport, staged
<1> HIDE DEF cleared
<1>4. /\ id \in Nat \ {0} /\ id # c.export.message
      /\ \A p \in DOMAIN Line(cleared) : Line(cleared)[p].id # id
  BY <1>2, MessageNumber
<1>5. /\ import.begin = id /\ import.transfer = 0 /\ import.commit = 0 /\ import # NoImport
  <2>1. import.purpose = purpose /\ purpose # "none"
    BY DEF NoImport, Purposes
  <2>2. import.begin = id /\ import.transfer = 0 /\ import.commit = 0
    BY DEF NoImport
  <2> HIDE DEF import
  <2> QED
    BY <2>1, <2>2 DEF NoImport
<1>6. m \in Messages /\ m.tag \in Inputs
  BY <1>4 DEF Message, Messages, Inputs
<1> HIDE DEF id, import, r
<1>7. /\ r.sent = Append(cleared.sent, m) /\ r.polled = cleared.polled /\ r.import = import
      /\ r.failed = cleared.failed /\ r.cache = cleared.cache
  BY <1>2, <1>3 DEF Shape, NewClient
<1>8. m = Message("begin", r.import.begin, "none", 0)
  BY <1>5, <1>7
<1> HIDE DEF m
<1>9. m.tag = "begin"
  BY <1>8 DEF Message
<1>10. Grown(Line(cleared), Line(r), Len(Line(cleared)) + 1, m) /\ Wired(r)
  BY <1>2, <1>6, <1>7, Said
<1>11. /\ \A x : ~About(x, m) /\ Hushed(cleared, x) => Hushed(r, x)
       /\ Calm(cleared) => Calm(r)
  BY <1>2, <1>6, <1>7, <1>9, Said
<1>12. ASSUME NEW i, NEW o, Conversation(Line(c), c.export, i, o)
       PROVE  Conversation(Line(r), c.export, r.import, o)
  <2>1. Conversation(Line(c), c.export, NoImport, o)
    BY <1>12, ImportForgotten
  <2>2. Conversation(Line(cleared), c.export, NoImport, o)
    BY <1>2, <2>1 DEF Winds
  <2>3. /\ r.import # NoImport /\ r.import.begin \in Nat \ {0} /\ r.import.transfer = 0
        /\ r.import.commit = 0 /\ r.import.begin # c.export.message
        /\ \A p \in DOMAIN Line(cleared) : Line(cleared)[p].id # r.import.begin
    BY <1>4, <1>5, <1>7
  <2> QED
    BY <1>8, <1>10, <2>2, <2>3, ImportBegins
<1>13. \A x : ~About(x, m)
  BY <1>9 DEF About, Requested, Streamed, Refusals
<1>14. (\A x : Hushed(c, x) => Hushed(r, x)) /\ (Calm(c) => Calm(r))
  BY <1>2, <1>11, <1>13 DEF Winds
<1> QED
  BY <1>2, <1>5, <1>7, <1>10, <1>12, <1>14 DEF Winds, r
-----------------------------------------------------------------------------
(* The client hears an output *)

\* C is about to hear m, c is C without it.
Hears(C, c, m, o) ==
  /\ Coherent(C) /\ Converses(C, o) /\ C.failed = FALSE
  /\ C.polled # <<>> /\ m = Head(C.polled) /\ c = [C EXCEPT !.polled = Tail(C.polled)]

\* Of what ends nothing is left, and nothing begins but the next part of a diagnosis.
Heard(c, r, o) ==
  /\ Wired(r) /\ Placed(r) /\ r.failed = FALSE /\ r.polled = c.polled
  /\ Conversation(Line(r), r.export, r.import, o)
  /\ r.import # NoImport => c.import # NoImport \/ c.diagnosis # NoDiagnosis
  /\ c.export = NoExport /\ c.import = NoImport =>
       r.export = NoExport /\ r.cache.due = c.cache.due /\ r.cache.waiting = c.cache.waiting
  /\ r.export = NoExport =>
       \/ Hushed(r, NoExport)
       \/ /\ c.export = NoExport /\ (Calm(c) => Calm(r))
          /\ Hushed(c, NoExport) => Hushed(r, NoExport)
       \/ /\ r.project = NoProject /\ r.diagnosis = NoDiagnosis /\ r.import = NoImport
          /\ r.cache.due => r.cache.waiting
          /\ c.import # NoImport

\* r has nothing under way that c had not, and told of nothing but ends.
CacheKept(c, r) ==
  /\ r.cache.prepared \in {c.cache.prepared, FALSE}
  /\ \/ r.cache.due = c.cache.due /\ r.cache.waiting = c.cache.waiting
     \/ c.export.stage = "cache" /\ r.cache.due = TRUE /\ r.cache.waiting = TRUE
Ebbs(c, r) ==
  /\ r.export \in {c.export, NoExport} /\ r.import \in {c.import, NoImport}
  /\ (c.project = NoProject => r.project = NoProject)
  /\ (c.diagnosis = NoDiagnosis => r.diagnosis = NoDiagnosis)
  /\ CacheKept(c, r)

\* What is left of the jobs is still in its place.
LEMMA PlacedLess ==
  ASSUME NEW c, NEW r, Placed(c), Ebbs(c, r), r.failed = c.failed
  PROVE  Placed(r)
<1>1. NoExport.stage = "none" /\ NoImport.purpose = "none"
  BY DEF NoExport, NoImport
<1>2. {r.cache.due, r.cache.waiting, r.cache.prepared, r.failed} \subseteq BOOLEAN
  BY DEF Placed, Ebbs, CacheKept
<1>3. Packaged => ~r.cache.due /\ ~r.cache.prepared /\ r.export.stage # "cache"
  BY <1>1 DEF Placed, Ebbs, CacheKept
<1> QED
  BY <1>1, <1>2, <1>3 DEF Placed, Ebbs

\* What ends while the rest goes on is heard.
LEMMA Quietens ==
  ASSUME NEW c, NEW r, NEW o, Placed(c), c.failed = FALSE, Ebbs(c, r), Winds(c, r),
         NoneIsNone(c), Conversation(Line(c), r.export, r.import, o),
         r.export = NoExport => c.export = NoExport \/ Hushed(c, NoExport)
  PROVE  Heard(c, r, o)
<1>1. Placed(r) /\ Wired(r) /\ r.failed = FALSE /\ r.polled = c.polled
  BY PlacedLess DEF Winds
<1>2. Conversation(Line(r), r.export, r.import, o)
  BY DEF Winds
<1>3. c.export = NoExport /\ c.import = NoImport =>
        r.export = NoExport /\ r.cache.due = c.cache.due /\ r.cache.waiting = c.cache.waiting
  BY DEF Ebbs, CacheKept, NoExport
<1>4. r.import # NoImport => c.import # NoImport
  BY DEF Ebbs
<1> QED
  BY <1>1, <1>2, <1>3, <1>4 DEF Heard, Winds

\* What is known of the output that is heard, and of the client without it.
LEMMA Hearing ==
  ASSUME NEW C, NEW c, NEW m, NEW o, Hears(C, c, m, o)
  PROVE  /\ View(c, C.export, C.project, C.diagnosis, C.import, C.events) /\ Coherent(c)
         /\ Wired(c) /\ Placed(c) /\ c.failed = FALSE /\ c.sent = C.sent /\ c.cache = C.cache
         /\ c.export.transfer \in Nat /\ c.export.message \in Nat /\ c.import.transfer \in Nat
         /\ c.import.begin \in Nat /\ c.import.commit \in Nat
         /\ m \in Messages /\ m.tag \in Outputs
         /\ \E h, f : /\ Thinned(Line(C), Line(c), h, f) /\ Line(C)[h] = m
               /\ \A p \in DOMAIN Line(C) : ~(p < h)
<1>1. Shape(C) /\ Wired(C) /\ C.polled # <<>>
  BY DEF Hears, Coherent, Converses
<1>2. /\ C.polled \in Seq(Messages) /\ C.sent \in Seq(Messages)
      /\ \A p \in DOMAIN C.polled : C.polled[p] \in Messages /\ C.polled[p].tag \in Outputs
  BY <1>1, Lines
<1>3. m = C.polled[1] /\ 1 \in DOMAIN C.polled
  BY <1>1, <1>2 DEF Hears
<1>4. m \in Messages /\ m.tag \in Outputs
  BY <1>2, <1>3
<1>5. /\ c.export = C.export /\ c.project = C.project /\ c.diagnosis = C.diagnosis
      /\ c.import = C.import /\ c.cache = C.cache /\ c.events = C.events /\ c.sent = C.sent
      /\ c.failed = C.failed /\ c.files = C.files /\ c.polled = Tail(C.polled)
      /\ DOMAIN c = DOMAIN C
  BY <1>1 DEF Hears, Shape, NewClient
<1>6. OutputQueue(Tail(C.polled))
  BY <1>1, OutputQueues DEF Shape
<1>7. View(c, C.export, C.project, C.diagnosis, C.import, C.events)
  BY <1>1, <1>5, <1>6 DEF View, Shape
<1>8. Coherent(c)
  BY <1>7 DEF Hears, Coherent, View, NoneIsNone, Serves, ManualAlone
<1>9. Wired(c)
  <2> DEFINE Out1 == {w \in Messages : w.tag \in Outputs}
  <2>1. C.polled \in Seq(Out1)
    BY <1>1 DEF Wired
  <2> HIDE DEF Out1
  <2>2. Tail(C.polled) \in Seq(Out1)
    BY <1>1, <2>1
  <2> QED
    BY <1>1, <1>5, <2>2 DEF Wired, Out1
<1>10. Placed(c)
  <2>1. Placed(C)
    BY DEF Hears, Converses
  <2> QED
    BY <1>5, <2>1 DEF Placed
<1>11. /\ c.export.transfer \in Nat /\ c.export.message \in Nat /\ c.import.transfer \in Nat
       /\ c.import.begin \in Nat /\ c.import.commit \in Nat
  <2>1. Numbered(Line(C), C.export, C.import)
    BY DEF Hears, Converses, Conversation
  <2> QED
    BY <1>5, <2>1 DEF Numbered
<1>12. \E h, f : /\ Thinned(Line(C), Line(c), h, f) /\ Line(C)[h] = m
               /\ \A p \in DOMAIN Line(C) : ~(p < h)
  <2>1. Line(C) = C.polled \o C.sent /\ Line(c) = Tail(C.polled) \o C.sent
    BY <1>5 DEF Line
  <2>2. /\ Thinned(Line(C), Line(c), 1, [p \in Nat |-> p + 1])
        /\ Line(C)[1] = Head(C.polled)
    BY <1>1, <1>2, <2>1, Thinning
  <2>3. Head(C.polled) = m
    BY DEF Hears
  <2>4. \A p \in DOMAIN Line(C) : ~(p < 1)
    <3>1. Line(C) \in Seq(Messages)
      BY <1>2, <2>1
    <3> QED
      BY <3>1
  <2> DEFINE h == 1
             f == [p \in Nat |-> p + 1]
  <2>5. Thinned(Line(C), Line(c), h, f) /\ Line(C)[h] = m /\ \A p \in DOMAIN Line(C) : ~(p < h)
    BY <2>2, <2>3, <2>4
  <2> HIDE DEF h, f
  <2> QED
    BY <2>5
<1>13. c.failed = FALSE
  BY <1>5 DEF Hears
<1> QED
  BY <1>4, <1>5, <1>7, <1>8, <1>9, <1>10, <1>11, <1>12, <1>13

\* How the conversation stands when an output has been taken off the queue.
LEMMA Taking ==
  ASSUME NEW C, NEW c, NEW m, NEW o, Hears(C, c, m, o)
  PROVE  LET x == c.export IN
         /\ m.tag # "ready" \/ x = NoExport =>
              /\ Conversation(Line(c), x, NoImport, o)
              /\ c.import = NoImport \/ m.id # Awaited(c.import) =>
                   Conversation(Line(c), x, c.import, o)
         /\ About(x, m) => Hushed(c, x) /\ Hushed(c, NoExport) /\ (x # NoExport => Fits(x, m))
         /\ About(x, m) /\ x # NoExport /\ m.tag \notin {"ready", "chunk"} =>
              /\ Conversation(Line(c), NoExport, NoImport, o)
              /\ Conversation(Line(c), NoExport, c.import, o)
         /\ c.import # NoImport /\ m.id = Awaited(c.import) =>
              /\ m.tag \in {"accepted", "imported", "rejected"}
              /\ m.tag = "accepted" => m.id = c.import.begin /\ c.import.transfer = 0
              /\ m.tag = "imported" => ImportMatches(c, m)
              /\ x = NoExport => Hushed(c, NoExport)
<1>14. \E h, f : /\ Thinned(Line(C), Line(c), h, f) /\ Line(C)[h] = m
               /\ \A p \in DOMAIN Line(C) : ~(p < h)
  BY Hearing
<1> DEFINE x == c.export
           i == c.import
           L == Line(C)
           K == Line(c)
<1>1. PICK h, f : Thinned(L, K, h, f) /\ L[h] = m /\ \A p \in DOMAIN L : ~(p < h)
  BY <1>14
<1>2. Conversation(L, x, i, o) /\ m \in Messages /\ m.tag \in Outputs /\ h \in DOMAIN L
  <2>1. x = C.export /\ i = C.import
    BY Hearing DEF View
  <2>2. Conversation(L, C.export, C.import, o)
    BY DEF Hears, Converses
  <2>3. m \in Messages /\ m.tag \in Outputs
    BY Hearing
  <2> HIDE DEF L, K, x, i
  <2> QED
    BY <1>1, <2>1, <2>2, <2>3 DEF Thinned
<1>3. m.tag \notin Closings /\ \A e : ~Closes(m, e)
  BY <1>2 DEF Outputs, Closings, Closes
<1>4. o \in SUBSET o
  OBVIOUS
<1> HIDE DEF L, K
<1>5. ASSUME NEW j \in {i, NoImport}, j # NoImport => m.id # Awaited(j),
             m.tag # "ready" \/ x = NoExport
      PROVE  Conversation(K, x, j, o)
  <2>1. /\ j # NoImport => L[h].id # Awaited(j)
        /\ L[h].tag = "ready" => x = NoExport
        /\ \A e \in o : ~Closes(L[h], e)
        /\ L[h].tag \in Closings => \A p \in DOMAIN L : L[p].tag = "export" => ~(p < h)
    BY <1>1, <1>3, <1>5
  <2> HIDE DEF x, i
  <2> QED
    BY <1>1, <1>2, <1>4, <1>5, <2>1, Consumed
<1>6. m.tag # "ready" \/ x = NoExport =>
        /\ Conversation(K, x, NoImport, o)
        /\ i = NoImport \/ m.id # Awaited(i) => Conversation(K, x, i, o)
  BY <1>5
<1>7. About(x, m) => (\A p \in DOMAIN K : ~About(x, K[p]) /\ ~About(NoExport, K[p]))
                     /\ (x # NoExport => Fits(x, m))
  <2>1. SUFFICES ASSUME About(x, m)
                 PROVE  (\A p \in DOMAIN K : ~About(x, K[p]) /\ ~About(NoExport, K[p]))
                        /\ (x # NoExport => Fits(x, m))
    OBVIOUS
  <2>2. \A p \in DOMAIN K : ~About(x, K[p])
    BY <1>1, <1>2, <1>4, <2>1, LessSaid
  <2>3. x # NoExport => Fits(x, m)
    BY <1>1, <1>2, <2>1 DEF Conversation, OneTalk
  <2> QED
    BY <2>2, <2>3 DEF About, NoExport
<1>8. i # NoImport =>
        /\ Awaited(i) # 0 /\ Awaited(i) = (IF i.transfer = 0 THEN i.begin ELSE i.commit)
        /\ i.transfer # 0 => i.commit # 0
  BY <1>2 DEF Conversation, Numbered, Awaited
<1>9. /\ m.id # 0 /\ m.id = x.message => m.tag \in Requested \cup Refusals
      /\ m.id # 0 /\ m.id = i.begin => m.tag \in {"begin", "accepted", "rejected"}
      /\ m.id # 0 /\ m.id = i.commit =>
           \/ m.tag \in {"commit", "imported"} /\ m.transfer = i.transfer
           \/ m.tag = "rejected"
      /\ x.message # 0 => x.message \notin {i.begin, i.commit}
  BY <1>1, <1>2 DEF Conversation, Numbered
<1>10. i # NoImport /\ m.id = Awaited(i) =>
         /\ m.tag \in {"accepted", "imported", "rejected"}
         /\ m.tag = "accepted" => m.id = i.begin /\ i.transfer = 0
         /\ m.tag = "imported" => ImportMatches(c, m)
  <2>1. SUFFICES ASSUME i # NoImport, m.id = Awaited(i)
                 PROVE  /\ m.tag \in {"accepted", "imported", "rejected"}
                        /\ m.tag = "accepted" => m.id = i.begin /\ i.transfer = 0
                        /\ m.tag = "imported" => ImportMatches(c, m)
    OBVIOUS
  <2>2. CASE i.transfer = 0
    BY <1>2, <1>8, <1>9, <2>1, <2>2 DEF Outputs
  <2>3. CASE i.transfer # 0
    BY <1>2, <1>8, <1>9, <2>1, <2>3 DEF Outputs, ImportMatches
  <2> QED
    BY <2>2, <2>3
<1>11. i # NoImport /\ m.id = Awaited(i) /\ x = NoExport =>
         \A p \in DOMAIN K : ~About(NoExport, K[p])
  <2>1. SUFFICES ASSUME i # NoImport, m.id = Awaited(i), x = NoExport,
                        NEW p \in DOMAIN K, About(NoExport, K[p])
                 PROVE  FALSE
    OBVIOUS
  <2>2. f[p] \in DOMAIN L /\ K[p] = L[f[p]]
    BY <1>1 DEF Thinned
  <2>3. f[p] < h
    BY <1>1, <1>2, <2>1, <2>2 DEF Conversation, InTurn
  <2> QED
    BY <1>1, <2>2, <2>3
<1>12. About(x, m) /\ x # NoExport /\ m.tag \notin {"ready", "chunk"} =>
         Conversation(K, NoExport, NoImport, o) /\ Conversation(K, NoExport, i, o)
  <2>1. SUFFICES ASSUME About(x, m), x # NoExport, m.tag \notin {"ready", "chunk"}
                 PROVE  Conversation(K, NoExport, NoImport, o) /\ Conversation(K, NoExport, i, o)
    OBVIOUS
  <2>2. i = NoImport \/ m.id # Awaited(i)
    <3>1. SUFFICES ASSUME i # NoImport, m.id = Awaited(i) PROVE FALSE
      OBVIOUS
    <3>4. m.tag \in {"accepted", "imported", "rejected"}
      BY <1>10, <3>1
    <3>5. m.tag \in Refusals /\ m.id # 0 /\ m.id = x.message
      BY <2>1, <3>4 DEF About, Requested, Streamed
    <3>2. m.tag = "rejected" /\ m.id = x.message /\ m.id # 0
      BY <3>4, <3>5 DEF Refusals
    <3>3. m.id \in {i.begin, i.commit}
      BY <1>8, <3>1
    <3> QED
      BY <1>9, <3>2, <3>3
  <2>3. Conversation(K, x, NoImport, o) /\ Conversation(K, x, i, o)
    BY <1>6, <2>1, <2>2
  <2>4. \A e \in o : e.id # x.transfer
    <3>1. Fits(x, m)
      BY <1>7, <2>1
    <3>2. CASE m.tag = "last_chunk"
      <4>1. m.transfer = x.transfer
        BY <3>1, <3>2 DEF Fits, Streamed
      <4> QED
        BY <1>1, <1>2, <3>2, <4>1 DEF Conversation, Registered
    <3>3. CASE m.tag # "last_chunk"
      <4>1. m.tag \in Requested \cup Refusals
        BY <1>2, <2>1, <3>3 DEF About, Requested, Streamed, Outputs
      <4>2. x.transfer = 0
        BY <3>1, <4>1 DEF Fits
      <4> QED
        BY <1>2, <4>2 DEF Conversation, Registered
    <3> QED
      BY <3>2, <3>3
  <2>5. \A p \in DOMAIN K : ~About(x, K[p])
    BY <1>7, <2>1
  <2> HIDE DEF x, i
  <2> QED
    BY <2>3, <2>4, <2>5, OverForgotten
<1> QED
  BY <1>6, <1>7, <1>10, <1>11, <1>12 DEF Hushed, K
-----------------------------------------------------------------------------
(* The handlers of the outputs *)

\* r is c of which something has ended, and the runtime knows.
Wanes(c, r) == Shape(r) /\ Wired(r) /\ Ebbs(c, r) /\ Winds(c, r)

Sound(c) == Shape(c) /\ Wired(c) /\ c.export.transfer \in Nat /\ c.import.transfer \in Nat

\* One after the other.
LEMMA WanesOn ==
  ASSUME NEW c, NEW d, NEW r, Wanes(c, d), Wanes(d, r)
  PROVE  Wanes(c, r)
<1>1. Winds(c, r)
  BY WindsOn DEF Wanes
<1>2. NoExport.stage # "cache"
  BY DEF NoExport
<1>3. d.export.stage = "cache" => c.export.stage = "cache"
  BY <1>2 DEF Wanes, Ebbs
<1>4. CacheKept(c, d) /\ CacheKept(d, r)
  BY DEF Wanes, Ebbs
<1>5. r.cache.prepared \in {c.cache.prepared, FALSE}
  BY <1>4 DEF CacheKept
<1>6. CacheKept(c, r)
  BY <1>3, <1>4, <1>5 DEF CacheKept
<1> QED
  BY <1>1, <1>6 DEF Wanes, Ebbs

\* What has ended is none, and has no transfer.
LEMMA SoundLeft ==
  ASSUME NEW c, NEW r, Sound(c), Wanes(c, r)
  PROVE  Sound(r)
<1>1. NoExport.transfer \in Nat /\ NoImport.transfer \in Nat
  BY DEF NoExport, NoImport
<1> QED
  BY <1>1 DEF Sound, Wanes, Ebbs

\* What leaves the words and the cache as they were wanes, if nothing begins.
LEMMA Waned ==
  ASSUME NEW c, NEW r, Sound(c), Shape(r), Winds(c, r), r.cache = c.cache,
         r.export \in {c.export, NoExport}, r.import \in {c.import, NoImport},
         c.project = NoProject => r.project = NoProject,
         c.diagnosis = NoDiagnosis => r.diagnosis = NoDiagnosis
  PROVE  Wanes(c, r) /\ Sound(r)
<1>1. CacheKept(c, r)
  BY DEF CacheKept
<1>2. Wanes(c, r)
  BY <1>1 DEF Wanes, Ebbs, Winds
<1> QED
  BY <1>2, SoundLeft

\* Whatever ends an export, an import, a project file or a diagnosis.
LEMMA Waning ==
  ASSUME NEW c, Sound(c)
  PROVE  /\ Wanes(c, c) /\ Wanes(c, DropExport(c)) /\ Wanes(c, ClearImport(c))
         /\ Wanes(c, CancelImport(c))
         /\ Wanes(c, FinishCache(c))
         /\ \A event \in Events : Wanes(c, Emit(c, event))
         /\ Wanes(c, [c EXCEPT !.export = NoExport])
         /\ \A success \in BOOLEAN : Wanes(c, FinishProject(c, success))
         /\ \A success \in BOOLEAN : Wanes(c, FinishDiagnosis(c, success))
<1>1. Shape(c) /\ Wired(c) /\ \A r : Same(c, r) => Winds(c, r) /\ r.cache = c.cache
  BY Mute DEF Sound, Same
<1>2. Wanes(c, c)
  <2>1. Same(c, c)
    BY DEF Same
  <2> QED
    BY <1>1, <2>1, Waned
<1>3. Wanes(c, DropExport(c)) /\ Wanes(c, ClearImport(c))
  <2>1. Same(c, DropExport(c)) /\ Same(c, ClearImport(c))
    BY <1>1, Silently
  <2>2. /\ View(DropExport(c), NoExport, c.project, c.diagnosis, c.import, c.events)
        /\ View(ClearImport(c), c.export, c.project, c.diagnosis, NoImport, c.events)
    BY <1>1, GivingUp
  <2> QED
    BY <1>1, <2>1, <2>2, Waned DEF View
<1>4. Wanes(c, CancelImport(c))
  <2>1. TRUE \in BOOLEAN
    OBVIOUS
  <2>2. Winds(c, CancelImport(c)) /\ CancelImport(c).cache = c.cache
    BY <2>1, Windings DEF Sound
  <2>3. View(CancelImport(c), c.export, c.project, c.diagnosis, NoImport, c.events)
    BY <1>1, GivingUp
  <2> QED
    BY <2>2, <2>3, Waned DEF View
<1>5. Wanes(c, FinishCache(c))
  <2> DEFINE r == FinishCache(c)
  <2>1. /\ r.sent = c.sent /\ r.polled = c.polled /\ r.failed = c.failed
        /\ r.cache = [c.cache EXCEPT !.prepared = FALSE]
    BY <1>1, CacheLeft
  <2>2. View(r, NoExport, c.project, c.diagnosis, c.import, c.events)
    <3>1. TRUE \in BOOLEAN
      OBVIOUS
    <3> QED
      BY <1>1, <3>1, Endings
  <2> HIDE DEF r
  <2>3. Winds(c, r)
    BY <1>1, <2>1, Mute
  <2>4. CacheKept(c, r)
    BY <1>1, <2>1 DEF CacheKept, Shape, NoCache
  <2>5. Wanes(c, r)
    BY <2>2, <2>3, <2>4 DEF Wanes, Ebbs, Winds, View
  <2> QED
    BY <2>5 DEF r
<1>6. ASSUME NEW event \in Events
      PROVE  Wanes(c, Emit(c, event))
  <2>1. Same(c, Emit(c, event))
    BY <1>1, Silently
  <2>2. View(Emit(c, event), c.export, c.project, c.diagnosis, c.import,
             Append(c.events, event))
    BY <1>1, Words
  <2> QED
    BY <1>1, <2>1, <2>2, Waned DEF View
<1>7. Wanes(c, [c EXCEPT !.export = NoExport])
  <2> DEFINE r == [c EXCEPT !.export = NoExport]
  <2>1. Same(c, r)
    BY <1>1, Silently
  <2>2. /\ Shape(r) /\ r.export = NoExport /\ r.import = c.import /\ r.project = c.project
        /\ r.diagnosis = c.diagnosis
    BY <1>1 DEF Shape, NewClient, NoExport
  <2> HIDE DEF r
  <2>3. Wanes(c, r)
    BY <1>1, <2>1, <2>2, Waned
  <2> QED
    BY <2>3 DEF r
<1>8. ASSUME NEW success \in BOOLEAN
      PROVE  Wanes(c, FinishProject(c, success)) /\ Wanes(c, FinishDiagnosis(c, success))
  <2>1. /\ Winds(c, FinishProject(c, success)) /\ FinishProject(c, success).cache = c.cache
        /\ Winds(c, FinishDiagnosis(c, success)) /\ FinishDiagnosis(c, success).cache = c.cache
    BY Windings DEF Sound
  <2>2. /\ View(FinishProject(c, success), NoExport, NoProject, c.diagnosis,
                IF success THEN c.import ELSE NoImport, Append(c.events, "project"))
        /\ View(FinishDiagnosis(c, success), NoExport, c.project, NoDiagnosis,
                IF success THEN c.import ELSE NoImport, Append(c.events, "diagnosis"))
    BY <1>1, Endings
  <2> QED
    BY <2>1, <2>2, Waned DEF View
<1> QED
  BY <1>2, <1>3, <1>4, <1>5, <1>6, <1>7, <1>8

\* What is done when an export has come to its end.
LEMMA Over ==
  ASSUME NEW c, NEW d, Sound(c), Wanes(c, d), Sound(d)
  PROVE  /\ Wanes(c, FinishCache(d)) /\ FinishCache(d).export = NoExport
         /\ Wanes(c, DropExport(d)) /\ DropExport(d).export = NoExport /\ Sound(DropExport(d))
         /\ \A success \in BOOLEAN :
              /\ Wanes(c, FinishProject(d, success))
              /\ FinishProject(d, success).export = NoExport
              /\ Wanes(c, FinishDiagnosis(d, success))
              /\ FinishDiagnosis(d, success).export = NoExport
         /\ \A event \in Events : Wanes(c, Emit(d, event)) /\ Emit(d, event).export = d.export
<1>1. Shape(d) /\ TRUE \in BOOLEAN
  BY DEF Sound
<1>2. /\ Wanes(d, FinishCache(d)) /\ Wanes(d, DropExport(d))
      /\ \A success \in BOOLEAN :
           Wanes(d, FinishProject(d, success)) /\ Wanes(d, FinishDiagnosis(d, success))
      /\ \A event \in Events : Wanes(d, Emit(d, event))
  BY Waning
<1>3. FinishCache(d).export = NoExport /\ DropExport(d).export = NoExport
  BY <1>1, Endings, GivingUp DEF View
<1>4. \A success \in BOOLEAN : /\ FinishProject(d, success).export = NoExport
                               /\ FinishDiagnosis(d, success).export = NoExport
  BY <1>1, Endings DEF View
<1>5. \A event \in Events : Emit(d, event).export = d.export
  BY <1>1, Words DEF View
<1>6. Sound(DropExport(d))
  BY <1>2, SoundLeft
<1>7. Wanes(c, FinishCache(d)) /\ Wanes(c, DropExport(d))
  BY <1>2, WanesOn
<1>8. \A success \in BOOLEAN :
        Wanes(c, FinishProject(d, success)) /\ Wanes(c, FinishDiagnosis(d, success))
  BY <1>2, WanesOn
<1>9. \A event \in Events : Wanes(c, Emit(d, event))
  BY <1>2, WanesOn
<1> QED
  BY <1>3, <1>4, <1>5, <1>6, <1>7, <1>8, <1>9

\* What the client is that hears an output.
LEMMA Listening ==
  ASSUME NEW C, NEW c, NEW m, NEW o, Hears(C, c, m, o)
  PROVE  /\ Coherent(c) /\ Shape(c) /\ Wired(c) /\ Placed(c) /\ Sound(c) /\ c.failed = FALSE
         /\ c.export # NoExport => c.export.stage \in Stages
         /\ m \in Messages /\ m.tag \in Outputs
<1>1. Coherent(c) /\ Wired(c) /\ Placed(c) /\ c.failed = FALSE
  BY Hearing
<1>2. c.export.transfer \in Nat /\ c.import.transfer \in Nat
  BY Hearing
<1>3. m \in Messages /\ m.tag \in Outputs
  BY Hearing
<1> QED
  BY <1>1, <1>2, <1>3 DEF Sound, Coherent, Shape, NoneIsNone

\* The export the output is about ends with it.
LEMMA Ceasing ==
  ASSUME NEW C, NEW c, NEW m, NEW o, Hears(C, c, m, o), About(c.export, m),
         c.export # NoExport, m.tag \notin {"ready", "chunk"},
         NEW r, Wanes(c, r), r.export = NoExport
  PROVE  Heard(c, r, o)
<1>1. Conversation(Line(c), NoExport, NoImport, o) /\ Conversation(Line(c), NoExport, c.import, o)
  BY Taking
<1>2. Hushed(c, NoExport)
  BY Taking
<1>3. Conversation(Line(c), r.export, r.import, o)
  BY <1>1 DEF Wanes, Ebbs
<1>4. Placed(c) /\ c.failed = FALSE /\ NoneIsNone(c)
  BY Listening DEF Coherent
<1> QED
  BY <1>2, <1>3, <1>4, Quietens DEF Wanes

\* The output changes nothing, or what it says of an import ends that.
LEMMA Staying ==
  ASSUME NEW C, NEW c, NEW m, NEW o, Hears(C, c, m, o), m.tag # "ready" \/ c.export = NoExport,
         NEW r, Wanes(c, r), r.export = c.export,
         \/ r.import = NoImport
         \/ r.import = c.import /\ m.id # Awaited(c.import)
  PROVE  Heard(c, r, o)
<1>1. /\ Conversation(Line(c), c.export, NoImport, o)
      /\ m.id # Awaited(c.import) => Conversation(Line(c), c.export, c.import, o)
  BY Taking
<1>2. Conversation(Line(c), r.export, r.import, o)
  BY <1>1
<1>3. Placed(c) /\ c.failed = FALSE /\ NoneIsNone(c)
  BY Listening DEF Coherent
<1> QED
  BY <1>2, <1>3, Quietens DEF Wanes

\* _handle_export_ready.
LEMMA ReadyHeard ==
  ASSUME NEW C, NEW c, NEW m, NEW o, Hears(C, c, m, o), m.tag \in {"ready", "ineligible"}
  PROVE  Heard(c, HandleReady(c, m), o)
<1>1. Coherent(c) /\ Shape(c) /\ Wired(c) /\ Placed(c) /\ Sound(c) /\ c.failed = FALSE
  BY Listening
<1>2. m.id # Awaited(c.import) \/ c.import = NoImport
  BY Taking
<1>3. About(c.export, m)
  BY DEF About, Requested
<1>4. CASE c.export = NoExport
  <2>1. HandleReady(c, m) = c
    BY <1>4 DEF HandleReady
  <2>2. Wanes(c, c)
    BY <1>1, Waning
  <2> QED
    BY <1>2, <1>4, <2>1, <2>2, Staying
<1>5. ASSUME c.export # NoExport
      PROVE  Heard(c, HandleReady(c, m), o)
  <2>1. Fits(c.export, m) /\ Hushed(c, c.export)
    BY <1>3, <1>5, Taking
  <2>2. Expected(c, m) /\ c.export.message # 0
    BY <2>1 DEF Fits, Expected, Requested
  <2>3. c.export.stage \in Stages
    BY <1>5, Listening
  <2>4. CASE m.tag = "ineligible"
    <3>1. HandleReady(c, m) = Fail(c)
      BY <1>5, <2>2, <2>4 DEF HandleReady
    <3> DEFINE d == DropExport(c)
    <3>2. Wanes(c, d) /\ Sound(d) /\ d.export = NoExport
      BY <1>1, Waning, Over
    <3> HIDE DEF d
    <3>4. \A success \in BOOLEAN :
            /\ Wanes(c, FinishProject(d, success)) /\ FinishProject(d, success).export = NoExport
            /\ Wanes(c, FinishDiagnosis(d, success))
            /\ FinishDiagnosis(d, success).export = NoExport
      BY <1>1, <3>2, Over
    <3>3. Wanes(c, Fail(c)) /\ Fail(c).export = NoExport
      <4>1. FALSE \in BOOLEAN
        OBVIOUS
      <4>2. CASE c.export.stage = "cache"
        <5>1. Fail(c) = FinishCache(d)
          BY <4>2 DEF Fail, d, DiagnosisStages, Manual
        <5> QED
          BY <1>1, <3>2, <5>1, Over
      <4>3. CASE c.export.stage = "project"
        <5>1. Fail(c) = FinishProject(d, FALSE)
          BY <4>3 DEF Fail, d, DiagnosisStages, Manual
        <5> QED
          BY <3>4, <4>1, <5>1
      <4>4. CASE c.export.stage \in DiagnosisStages
        <5>1. Fail(c) = FinishDiagnosis(d, FALSE)
          BY <4>4 DEF Fail, d, DiagnosisStages, Manual
        <5> QED
          BY <3>4, <4>1, <5>1
      <4>5. CASE c.export.stage \in Manual
        <5>1. Fail(c) = Emit(d, c.export.stage) /\ c.export.stage \in Events
          BY <4>5 DEF Fail, d, DiagnosisStages, Manual, Events, UserJobs
        <5> QED
          BY <1>1, <3>2, <5>1, Over
      <4> QED
        BY <2>3, <4>2, <4>3, <4>4, <4>5 DEF Stages
    <3> QED
      BY <1>3, <1>5, <2>4, <3>1, <3>3, Ceasing
  <2>5. CASE m.tag = "ready"
    <3> DEFINE export == [c.export EXCEPT !.message = 0, !.transfer = m.transfer]
               d == [c EXCEPT !.export.message = 0, !.export.transfer = m.transfer]
               r == HandleReady(c, m)
    <3>1. r = Tell(d, "read", "none", m.transfer)
      BY <1>5, <2>2, <2>5 DEF HandleReady
    <3>2. m \in Messages
      BY Listening
    <3>3. /\ r.sent = Append(c.sent, Message("read", 0, "none", m.transfer))
          /\ r.polled = c.polled /\ r.failed = c.failed /\ r.cache = c.cache
          /\ r.export = export /\ r.import = c.import /\ r.project = c.project
          /\ r.diagnosis = c.diagnosis
      BY <1>1, <3>1 DEF Tell, Shape, NewClient
    <3>4. /\ export.stage = c.export.stage /\ export.message = 0
          /\ export.transfer = m.transfer
      BY <1>1 DEF Shape, NoExport
    <3>5. export # NoExport
      <4>1. c.export.stage # "none"
        BY <2>3 DEF Stages, Manual, DiagnosisStages
      <4> HIDE DEF export
      <4> QED
        BY <3>4, <4>1 DEF NoExport
    <3> HIDE DEF r, export, d
    <3> DEFINE w == Message("read", 0, "none", m.transfer)
    <3>6. w \in Messages /\ w.tag \in Inputs
      BY <3>2 DEF Message, Messages, Inputs
    <3>7. w = Message("read", 0, "none", r.export.transfer) /\ r.sent = Append(c.sent, w)
      BY <3>3, <3>4
    <3> HIDE DEF w
    <3>8. Wired(r) /\ Grown(Line(c), Line(r), Len(Line(c)) + 1, w)
      BY <1>1, <3>3, <3>6, <3>7, Said
    <3>9. Conversation(Line(r), r.export, r.import, o)
      <4>1. PICK h, f : /\ Thinned(Line(C), Line(c), h, f) /\ Line(C)[h] = m
                        /\ \A p \in DOMAIN Line(C) : ~(p < h)
        BY Hearing
      <4>2. Conversation(Line(C), c.export, c.import, o)
        BY Hearing DEF Hears, Converses, View
      <4>3. Conversation(Line(r), r.export, c.import, o)
        BY <1>5, <2>5, <3>3, <3>4, <3>5, <3>7, <3>8, <4>1, <4>2, ReadyTaken
      <4> QED
        BY <3>3, <4>3
    <3>10. Placed(r)
      BY <1>1, <1>5, <3>3, <3>4 DEF Placed
    <3> QED
      BY <1>1, <1>5, <3>3, <3>5, <3>8, <3>9, <3>10 DEF Heard, r
  <2> QED
    BY <2>4, <2>5
<1> QED
  BY <1>4, <1>5

\* The next part of a diagnosis is asked for.
LEMMA PartHeard ==
  ASSUME NEW C, NEW c, NEW m, NEW o, Hears(C, c, m, o), About(c.export, m),
         c.export # NoExport, m.tag \notin {"ready", "chunk"}, c.diagnosis # NoDiagnosis,
         NEW d, Wanes(c, d), d.import = c.import,
         NEW r, Asks(d, r), r.import = d.import, r.export.stage \in DiagnosisStages
  PROVE  Heard(c, r, o)
<1>1. Conversation(Line(c), NoExport, c.import, o)
  BY Taking
<1>2. Conversation(Line(d), NoExport, d.import, o)
  BY <1>1 DEF Wanes, Winds
<1>3. Conversation(Line(r), r.export, r.import, o)
  BY <1>2 DEF Asks
<1>4. Placed(c) /\ c.failed = FALSE
  BY Listening
<1>5. r.cache = d.cache /\ r.failed = FALSE /\ r.polled = c.polled /\ Wired(r) /\ r.export # NoExport
  BY <1>4 DEF Asks, Wanes, Winds
<1>6. r.export.stage # "cache"
  BY DEF DiagnosisStages
<1>7. c.import.purpose \notin {"project", "diagnosis", "restore"}
  BY <1>4 DEF Placed
<1>8. {d.cache.due, d.cache.waiting, d.cache.prepared, r.failed} \subseteq BOOLEAN
  BY <1>4, <1>5 DEF Placed, Wanes, Ebbs, CacheKept
<1>9. Packaged => ~d.cache.due /\ ~d.cache.prepared
  BY <1>4 DEF Placed, Wanes, Ebbs, CacheKept
<1>10. Placed(r)
  BY <1>5, <1>6, <1>7, <1>8, <1>9 DEF Placed
<1> QED
  BY <1>3, <1>5, <1>10 DEF Heard

\* The export the output is about makes room for the import of a diagnosis.
LEMMA ProjectHeard ==
  ASSUME NEW C, NEW c, NEW m, NEW o, Hears(C, c, m, o), About(c.export, m),
         c.export # NoExport, m.tag \notin {"ready", "chunk"}, c.diagnosis # NoDiagnosis,
         NEW d, Wanes(c, d), Sound(d), d.export = NoExport
  PROVE  Heard(c, BeginImport(d, "diagnosis"), o)
<1> DEFINE r == BeginImport(d, "diagnosis")
<1>1. Conversation(Line(c), NoExport, NoImport, o) /\ Hushed(c, NoExport)
  BY Taking
<1>2. Conversation(Line(d), NoExport, NoImport, o) /\ Hushed(d, NoExport)
  BY <1>1 DEF Wanes, Winds
<1>3. "diagnosis" \in Purposes /\ Shape(d) /\ Wired(d)
  BY DEF Purposes, Sound
<1>4. /\ Wired(r) /\ r.polled = d.polled /\ r.failed = d.failed /\ r.cache = d.cache
      /\ \A i, x : Conversation(Line(d), d.export, i, x) =>
                     Conversation(Line(r), d.export, r.import, x)
      /\ \A x : Hushed(d, x) => Hushed(r, x)
  BY <1>3, Beginning DEF Sound
<1>5. /\ View(r, d.export, d.project, d.diagnosis, r.import, d.events)
      /\ r.import.purpose = "diagnosis"
  BY <1>3, ImportBegun
<1> HIDE DEF r
<1>6. Conversation(Line(r), r.export, r.import, o) /\ Hushed(r, NoExport) /\ r.export = NoExport
  BY <1>2, <1>4, <1>5 DEF View
<1>7. Placed(c) /\ c.failed = FALSE
  BY Listening
<1>8. {d.cache.due, d.cache.waiting, d.cache.prepared, FALSE} \subseteq BOOLEAN
  BY <1>7 DEF Placed, Wanes, Ebbs, CacheKept
<1>9. Packaged => ~d.cache.due /\ ~d.cache.prepared
  BY <1>7 DEF Placed, Wanes, Ebbs, CacheKept
<1>10. r.failed = FALSE /\ r.polled = c.polled
  BY <1>4, <1>7 DEF Wanes, Winds
<1>11. Placed(r)
  <2>1. NoExport.stage = "none"
    BY DEF NoExport
  <2> QED
    BY <1>4, <1>5, <1>6, <1>8, <1>9, <1>10, <2>1 DEF Placed
<1>12. Heard(c, r, o)
  BY <1>4, <1>6, <1>10, <1>11 DEF Heard
<1> QED
  BY <1>12 DEF r

\* The last chunk of an export.
LEMMA CompleteHeard ==
  ASSUME NEW C, NEW c, NEW m, NEW o, Hears(C, c, m, o), m.tag = "last_chunk",
         c.export # NoExport, NEW disk, NEW r, r = Complete(c, disk)
  PROVE  (r.failed = TRUE /\ disk # "fine") \/ Heard(c, r, o)
<1>1. Coherent(c) /\ Shape(c) /\ Wired(c) /\ Placed(c) /\ Sound(c) /\ c.export.stage \in Stages
  BY Listening
<1>2. About(c.export, m) /\ m.tag \notin {"ready", "chunk"}
  BY DEF About, Streamed
<1>3. \A w : Wanes(c, w) /\ w.export = NoExport => Heard(c, w, o)
  BY <1>2, Ceasing
<1> DEFINE done == DropExport(c)
           part == [c EXCEPT !.export = NoExport, !.diagnosis.parts = @ \cup {c.export.file}]
<1>4. Wanes(c, done) /\ Sound(done) /\ done.export = NoExport
  BY <1>1, Waning, Over
<1>5. r = CASE c.export.stage = "cache" -> FinishCache(done)
            [] c.export.stage = "project" ->
                 IF c.project = NoProject THEN Raise(done) ELSE FinishProject(done, TRUE)
            [] c.export.stage \in Manual -> Emit(done, c.export.stage)
            [] c.export.stage = "diagnosis_replay" -> StartPart(part, "snapshot", disk)
            [] c.export.stage = "diagnosis_snapshot" -> StartDiagnosisProject(part, disk)
            [] c.export.stage = "diagnosis_project" -> FinishDiagnosis(part, Archived(disk))
  BY DEF Complete, DropExport
<1>6. /\ Wanes(c, FinishCache(done)) /\ FinishCache(done).export = NoExport
      /\ \A success \in BOOLEAN : /\ Wanes(c, FinishProject(done, success))
                                  /\ FinishProject(done, success).export = NoExport
      /\ \A event \in Events : Wanes(c, Emit(done, event)) /\ Emit(done, event).export = NoExport
  <2> HIDE DEF done
  <2> QED
    BY <1>1, <1>4, Over
<1> HIDE DEF done
<1>7. CASE c.export.stage = "cache"
  <2>1. r = FinishCache(done)
    BY <1>5, <1>7 DEF Manual
  <2> QED
    BY <1>3, <1>6, <2>1
<1>8. CASE c.export.stage = "project"
  <2>1. c.project # NoProject
    BY <1>1, <1>8 DEF Coherent, Serves
  <2>2. r = FinishProject(done, TRUE) /\ TRUE \in BOOLEAN
    BY <1>5, <1>8, <2>1 DEF Manual
  <2> QED
    BY <1>3, <1>6, <2>2
<1>9. CASE c.export.stage \in Manual
  <2>1. r = Emit(done, c.export.stage) /\ c.export.stage \in Events
    BY <1>5, <1>9 DEF Manual, Events, UserJobs
  <2> QED
    BY <1>3, <1>6, <2>1
<1>10. ASSUME c.export.stage \in DiagnosisStages
       PROVE  (r.failed = TRUE /\ disk # "fine") \/ Heard(c, r, o)
  <2>1. c.diagnosis # NoDiagnosis
    BY <1>1, <1>10, DiagnosisHeld
  <2>2. /\ Wanes(c, part) /\ Sound(part) /\ part.export = NoExport /\ part.import = c.import
        /\ part.diagnosis.folder = c.diagnosis.folder
        /\ \A stage : LET d == [part EXCEPT !.diagnosis.stage = stage] IN
             /\ Wanes(c, d) /\ Sound(d) /\ d.export = NoExport /\ d.import = c.import
             /\ stage # "none" => d.diagnosis # NoDiagnosis
    <3>1. ASSUME NEW d, Shape(d), Same(c, d), d.export = NoExport, d.import = c.import,
                 d.project = c.project
          PROVE  Wanes(c, d) /\ Sound(d)
      BY <1>1, <2>1, <3>1, Mute, Waned DEF Same
    <3>2. /\ Shape(part) /\ Same(c, part) /\ part.export = NoExport /\ part.import = c.import
          /\ part.project = c.project /\ part.diagnosis.folder = c.diagnosis.folder
      BY <1>1 DEF Shape, NewClient, NoExport, NoDiagnosis, Same
    <3>3. ASSUME NEW stage, NEW d, d = [part EXCEPT !.diagnosis.stage = stage]
          PROVE  /\ Shape(d) /\ Same(c, d) /\ d.export = NoExport /\ d.import = c.import
                 /\ d.project = c.project /\ d.diagnosis.stage = stage
      <4> HIDE DEF part
      <4> QED
        BY <3>2, <3>3 DEF Shape, NewClient, NoDiagnosis, Same
    <3>4. NoDiagnosis.stage = "none"
      BY DEF NoDiagnosis
    <3> HIDE DEF part
    <3> QED
      BY <3>1, <3>2, <3>3, <3>4
  <2> HIDE DEF part
  <2>3. Hushed(c, NoExport)
    BY <1>2, Taking
  <2>4. CASE c.export.stage = "diagnosis_replay"
    <3> DEFINE d == [part EXCEPT !.diagnosis.stage = "snapshot"]
               stage == Part("snapshot")
    <3>1. r = StartPart(part, "snapshot", disk)
      BY <1>5, <2>4 DEF Manual
    <3>2. Wanes(c, d) /\ Sound(d) /\ d.import = c.import
      BY <2>2
    <3>3. stage \in Stages /\ stage \in DiagnosisStages
      BY DEF Part, Stages, DiagnosisStages
    <3>4. CASE disk = "open"
      <4>1. r = Raise(d)
        BY <3>1, <3>4 DEF StartPart
      <4> QED
        BY <3>2, <3>4, <4>1 DEF Raise, Sound, Shape, NewClient
    <3>5. CASE disk # "open"
      <4>1. r = Request(d, stage, part.diagnosis.folder)
        BY <3>1, <3>5 DEF StartPart
      <4> HIDE DEF d, stage
      <4>2. Hushed(d, NoExport) /\ Shape(d) /\ Wired(d)
        BY <2>3, <3>2 DEF Wanes, Winds
      <4>3. Asks(d, r)
        BY <3>3, <4>1, <4>2, Requesting
      <4>4. r.import = d.import /\ r.export.stage = stage
        BY <3>3, <4>1, <4>2, Requests DEF View
      <4> QED
        BY <1>2, <2>1, <3>2, <3>3, <4>3, <4>4, PartHeard
    <3> QED
      BY <3>4, <3>5
  <2>5. CASE c.export.stage = "diagnosis_snapshot"
    <3> DEFINE d == [part EXCEPT !.diagnosis.stage = "project"]
    <3>1. r = StartDiagnosisProject(part, disk)
      BY <1>5, <2>5 DEF Manual
    <3>2. Wanes(c, d) /\ Sound(d) /\ d.import = c.import /\ d.export = NoExport
          /\ d.diagnosis # NoDiagnosis
      BY <2>2
    <3>3. r \in {FinishDiagnosis(d, FALSE), RequestDiagnosisProject(d, disk),
                 BeginImport(d, "diagnosis")}
          /\ (disk = "open" => r # RequestDiagnosisProject(d, disk)
                               \/ r \in {FinishDiagnosis(d, FALSE), BeginImport(d, "diagnosis")})
      BY <3>1 DEF StartDiagnosisProject
    <3> HIDE DEF d
    <3>4. CASE r = FinishDiagnosis(d, FALSE)
      <4>1. \A s \in BOOLEAN : Wanes(c, FinishDiagnosis(d, s)) /\ FinishDiagnosis(d, s).export = NoExport
        BY <1>1, <3>2, Over
      <4>2. FALSE \in BOOLEAN
        OBVIOUS
      <4> QED
        BY <1>3, <3>4, <4>1, <4>2
    <3>5. CASE r = BeginImport(d, "diagnosis")
      BY <1>2, <2>1, <3>2, <3>5, ProjectHeard
    <3>6. CASE r = RequestDiagnosisProject(d, disk) /\ disk # "open"
      <4>1. r = Request(d, "diagnosis_project", d.diagnosis.folder)
        BY <3>2, <3>6 DEF RequestDiagnosisProject
      <4>2. Hushed(d, NoExport) /\ Shape(d) /\ Wired(d)
        BY <2>3, <3>2 DEF Wanes, Winds
      <4>3. "diagnosis_project" \in Stages /\ "diagnosis_project" \in DiagnosisStages
        BY DEF Stages, DiagnosisStages
      <4>4. Asks(d, r)
        BY <4>1, <4>2, <4>3, Requesting
      <4>5. r.import = d.import /\ r.export.stage = "diagnosis_project"
        BY <4>1, <4>2, <4>3, Requests DEF View
      <4> QED
        BY <1>2, <2>1, <3>2, <4>3, <4>4, <4>5, PartHeard
    <3> QED
      BY <3>3, <3>4, <3>5, <3>6
  <2>6. CASE c.export.stage = "diagnosis_project"
    <3>1. r = FinishDiagnosis(part, Archived(disk)) /\ Archived(disk) \in BOOLEAN
      BY <1>5, <2>6 DEF Manual, Archived
    <3>2. \A s \in BOOLEAN : /\ Wanes(c, FinishDiagnosis(part, s))
                             /\ FinishDiagnosis(part, s).export = NoExport
      BY <1>1, <2>2, Over
    <3> QED
      BY <1>3, <3>1, <3>2
  <2> QED
    BY <1>10, <2>4, <2>5, <2>6 DEF DiagnosisStages
<1> QED
  BY <1>1, <1>7, <1>8, <1>9, <1>10 DEF Stages

\* _handle_export_chunk.
LEMMA ChunkHeard ==
  ASSUME NEW C, NEW c, NEW m, NEW o, Hears(C, c, m, o), m.tag \in {"chunk", "last_chunk"},
         NEW disk, NEW r, r = HandleChunk(c, m, disk)
  PROVE  (r.failed = TRUE /\ disk # "fine") \/ Heard(c, r, o)
<1>1. Coherent(c) /\ Shape(c) /\ Wired(c) /\ Placed(c) /\ Sound(c) /\ c.failed = FALSE
  BY Listening
<1>2. m.id # Awaited(c.import) \/ c.import = NoImport
  BY Taking
<1>3. About(c.export, m) /\ m.tag # "ready"
  BY DEF About, Streamed
<1>4. CASE c.export = NoExport
  <2>1. r = c
    BY <1>4 DEF HandleChunk
  <2>2. Wanes(c, c)
    BY <1>1, Waning
  <2> QED
    BY <1>2, <1>4, <2>1, <2>2, Staying
<1>5. ASSUME c.export # NoExport
      PROVE  (r.failed = TRUE /\ disk # "fine") \/ Heard(c, r, o)
  <2>1. Fits(c.export, m) /\ Hushed(c, c.export)
    BY <1>3, <1>5, Taking
  <2>2. c.export.message = 0 /\ m.transfer = c.export.transfer /\ c.export.transfer # 0
    BY <2>1 DEF Fits, Streamed
  <2>3. r = IF disk = "write" THEN Raise(c)
            ELSE IF m.tag = "chunk" THEN Tell(c, "read", "none", m.transfer)
            ELSE IF disk # "finish" THEN Complete(c, disk)
            ELSE IF c.export.stage \in DiagnosisStages THEN FinishDiagnosis(c, FALSE)
            ELSE Raise(DropExport(c))
    BY <1>5, <2>2 DEF HandleChunk
  <2>4. CASE disk = "write" \/ (r = Raise(DropExport(c)) /\ disk = "finish")
    BY <1>1, <2>3, <2>4, GivingUp DEF Raise, View, Shape, NewClient
  <2>5. CASE m.tag = "chunk" /\ disk # "write"
    <3> DEFINE w == Message("read", 0, "none", m.transfer)
    <3>1. r = Tell(c, "read", "none", m.transfer)
      BY <2>3, <2>5
    <3>2. /\ r.sent = Append(c.sent, w) /\ r.polled = c.polled /\ r.failed = c.failed
          /\ r.cache = c.cache /\ r.export = c.export /\ r.import = c.import
          /\ r.project = c.project /\ r.diagnosis = c.diagnosis
      BY <1>1, <3>1 DEF Tell, Shape, NewClient
    <3>3. m \in Messages
      BY Listening
    <3>4. w \in Messages /\ w.tag \in Inputs
      BY <3>3 DEF Message, Messages, Inputs
    <3>5. w = Message("read", 0, "none", c.export.transfer)
      BY <2>2
    <3> HIDE DEF w
    <3>6. Wired(r) /\ Grown(Line(c), Line(r), Len(Line(c)) + 1, w)
      BY <1>1, <3>2, <3>4, Said
    <3>7. Conversation(Line(c), c.export, c.import, o)
      <4>1. /\ Conversation(Line(c), c.export, NoImport, o)
            /\ c.import = NoImport \/ m.id # Awaited(c.import) =>
                 Conversation(Line(c), c.export, c.import, o)
        BY <1>3, Taking
      <4> QED
        BY <1>2, <4>1
    <3>8. Conversation(Line(r), c.export, c.import, o)
      BY <1>5, <2>1, <2>2, <3>5, <3>6, <3>7, ChunkAsked DEF Hushed
    <3>9. Placed(r)
      BY <1>1, <3>2 DEF Placed
    <3> QED
      BY <1>1, <1>5, <3>2, <3>6, <3>8, <3>9 DEF Heard
  <2>6. CASE m.tag = "last_chunk" /\ disk \notin {"write", "finish"}
    BY <1>5, <2>3, <2>6, CompleteHeard
  <2>7. CASE m.tag = "last_chunk" /\ r = FinishDiagnosis(c, FALSE)
    <3>1. \A s \in BOOLEAN : /\ Wanes(c, FinishDiagnosis(c, s))
                             /\ FinishDiagnosis(c, s).export = NoExport
      <4>1. Wanes(c, c)
        BY <1>1, Waning
      <4> QED
        BY <1>1, <4>1, Over
    <3>2. FALSE \in BOOLEAN
      OBVIOUS
    <3>3. m.tag \notin {"ready", "chunk"}
      BY <2>7
    <3> QED
      BY <1>3, <1>5, <2>7, <3>1, <3>2, <3>3, Ceasing
  <2>8. CASE m.tag = "last_chunk" /\ disk = "finish"
    <3>1. r = FinishDiagnosis(c, FALSE) \/ r = Raise(DropExport(c))
      BY <2>3, <2>8
    <3> QED
      BY <2>4, <2>7, <2>8, <3>1
  <2>9. m.tag = "chunk" \/ m.tag = "last_chunk"
    OBVIOUS
  <2>10. CASE m.tag = "last_chunk"
    BY <2>4, <2>6, <2>8, <2>10
  <2>11. CASE m.tag = "chunk"
    BY <2>4, <2>5, <2>11
  <2> QED
    BY <2>9, <2>10, <2>11
<1> QED
  BY <1>4, <1>5

\* _fail_pending_import.
LEMMA FailHeard ==
  ASSUME NEW C, NEW c, NEW m, NEW o, Hears(C, c, m, o), m.tag # "ready", c.import # NoImport,
         NEW d, Shape(d), Same(c, d), d.export = c.export, d.project = c.project,
         d.diagnosis = c.diagnosis, d.import.purpose = c.import.purpose, d.import.transfer \in Nat,
         NEW r, r = FailImport(d)
  PROVE  Heard(c, r, o)
<1>1. Coherent(c) /\ Shape(c) /\ Wired(c) /\ Placed(c) /\ Sound(c) /\ c.failed = FALSE
  BY Listening
<1>2. Winds(c, d) /\ Sound(d)
  BY <1>1, Mute DEF Same, Sound, Wired
<1> DEFINE e == CancelImport(d)
<1>3. Wanes(d, e) /\ Sound(e) /\ e.import = NoImport /\ e.export = c.export /\ Shape(e)
  BY <1>2, Waning, SoundLeft, GivingUp DEF View
<1>4. \A success \in BOOLEAN :
        /\ Wanes(d, FinishProject(e, success)) /\ Wanes(d, FinishDiagnosis(e, success))
        /\ FinishProject(e, success).export = NoExport
        /\ FinishDiagnosis(e, success).export = NoExport
        /\ FinishProject(e, success).import = NoImport
        /\ FinishDiagnosis(e, success).import = NoImport
  <2> HIDE DEF e
  <2>1. \A success \in BOOLEAN :
          /\ Wanes(d, FinishProject(e, success)) /\ FinishProject(e, success).export = NoExport
          /\ Wanes(d, FinishDiagnosis(e, success))
          /\ FinishDiagnosis(e, success).export = NoExport
    BY <1>2, <1>3, Over
  <2>2. \A success \in BOOLEAN : /\ FinishProject(e, success).import = NoImport
                                 /\ FinishDiagnosis(e, success).import = NoImport
    BY <1>3, Endings DEF View
  <2> QED
    BY <2>1, <2>2
<1>5. /\ c.import.purpose = "project" => r = FinishProject(e, FALSE)
      /\ c.import.purpose = "diagnosis" => r = FinishDiagnosis(e, FALSE)
      /\ c.import.purpose = "restore" => r = e
  BY DEF FailImport
<1>6. c.import.purpose \in {"project", "diagnosis", "restore"} /\ FALSE \in BOOLEAN
  BY <1>1 DEF Coherent, Shape, NoneIsNone, Purposes
<1> HIDE DEF e
<1>7. Wanes(d, r) /\ r.export = c.export /\ r.import = NoImport
  <2>1. CASE c.import.purpose = "restore"
    BY <1>3, <1>5, <2>1
  <2>2. CASE c.import.purpose = "project"
    <3>1. c.export = NoExport
      BY <1>1, <2>2 DEF Placed
    <3> QED
      BY <1>4, <1>5, <1>6, <2>2, <3>1
  <2>3. CASE c.import.purpose = "diagnosis"
    <3>1. c.export = NoExport
      BY <1>1, <2>3 DEF Placed
    <3> QED
      BY <1>4, <1>5, <1>6, <2>3, <3>1
  <2> QED
    BY <1>6, <2>1, <2>2, <2>3
<1>8. Winds(c, r)
  BY <1>2, <1>7, WindsOn DEF Wanes
<1>9. CacheKept(c, r)
  BY <1>7 DEF Wanes, Ebbs, CacheKept, Same
<1>10. Wanes(c, r)
  BY <1>7, <1>8, <1>9 DEF Wanes, Ebbs
<1> QED
  BY <1>7, <1>10, Staying

\* _handle_import_accepted.
LEMMA AcceptedHeard ==
  ASSUME NEW C, NEW c, NEW m, NEW o, Hears(C, c, m, o), m.tag = "accepted",
         NEW disk, NEW r, r = HandleAccepted(c, m, disk)
  PROVE  Heard(c, r, o)
<1>1. Coherent(c) /\ Shape(c) /\ Wired(c) /\ Placed(c) /\ Sound(c) /\ c.failed = FALSE
  BY Listening
<1>2. c.import # NoImport /\ m.id = Awaited(c.import) =>
        m.id = c.import.begin /\ c.import.transfer = 0
  BY Taking
<1>3. m \in Messages /\ m.transfer \in Nat
  <2>1. m \in Messages
    BY Listening
  <2> QED
    BY <2>1 DEF Messages
<1>4. CASE c.import = NoImport \/ m.id # c.import.begin
  <2> DEFINE w == Tell(c, "release", "none", m.transfer)
  <2>1. r = w
    BY <1>4 DEF HandleAccepted
  <2>2. "release" \in Closings /\ "none" \in Kinds \cup {"none"}
    BY DEF Closings
  <2>3. Winds(c, w) /\ w.cache = c.cache
    BY <1>1, <1>3, <2>2, Told
  <2>4. View(w, c.export, c.project, c.diagnosis, c.import, c.events)
    BY <1>1, Words
  <2> HIDE DEF w
  <2>5. Wanes(c, r)
    BY <1>1, <2>1, <2>3, <2>4, Waned DEF View
  <2>6. r.export = c.export /\ r.import = c.import
    BY <2>1, <2>4 DEF View
  <2> QED
    BY <1>2, <1>4, <2>5, <2>6, Staying
<1>5. CASE c.import # NoImport /\ m.id = c.import.begin /\ c.import.transfer # 0
  <2>1. r = c
    BY <1>5 DEF HandleAccepted
  <2>2. Wanes(c, c)
    BY <1>1, Waning
  <2> QED
    BY <1>2, <1>5, <2>1, <2>2, Staying
<1>6. CASE c.import # NoImport /\ m.id = c.import.begin /\ c.import.transfer = 0 /\ disk = "open"
  <2> DEFINE d == [c EXCEPT !.import.transfer = m.transfer]
  <2>1. r = FailImport(d)
    BY <1>6 DEF HandleAccepted
  <2>2. /\ Shape(d) /\ Same(c, d) /\ d.export = c.export /\ d.project = c.project
        /\ d.diagnosis = c.diagnosis /\ d.import.purpose = c.import.purpose
        /\ d.import.transfer = m.transfer
    BY <1>1 DEF Shape, NewClient, NoImport, Same
  <2> HIDE DEF d
  <2> QED
    BY <1>3, <1>6, <2>1, <2>2, FailHeard
<1>7. CASE c.import # NoImport /\ m.id = c.import.begin /\ c.import.transfer = 0 /\ disk # "open"
  <2> DEFINE id == NewMessage(c)
             kept == Remove(c, {c.import.file})
             import == [c.import EXCEPT !.transfer = m.transfer, !.file = 0, !.commit = id]
             w == Message("commit", id, "none", m.transfer)
  <2>1. r = [kept EXCEPT !.import = [@ EXCEPT !.transfer = m.transfer, !.file = 0, !.commit = id],
                         !.sent = Append(@, w)]
    BY <1>7 DEF HandleAccepted
  <2>2. Same(c, kept) /\ View(kept, c.export, c.project, c.diagnosis, c.import, c.events)
    BY <1>1, Silently, Files
  <2>3. /\ id \in Nat \ {0} /\ id \notin {c.export.message, c.import.begin, c.import.commit}
        /\ \A p \in DOMAIN Line(c) : Line(c)[p].id # id
    BY <1>1, MessageNumber
  <2>4. /\ import.begin = c.import.begin /\ import.transfer = m.transfer /\ import.commit = id
        /\ import.purpose = c.import.purpose
    BY <1>1 DEF Shape, NoImport
  <2>5. w \in Messages /\ w.tag \in Inputs /\ w.tag = "commit"
    <3>1. id \in Nat
      BY <2>3
    <3> HIDE DEF id
    <3> QED
      BY <1>3, <3>1 DEF Message, Messages, Inputs
  <2> HIDE DEF id, w, kept
  <2>6. /\ r.sent = Append(c.sent, w) /\ r.polled = c.polled /\ r.failed = c.failed
        /\ r.cache = c.cache /\ r.export = c.export /\ r.import = import
        /\ r.project = c.project /\ r.diagnosis = c.diagnosis
    BY <2>1, <2>2 DEF Same, View, Shape, NewClient
  <2> HIDE DEF import
  <2>7. /\ Wired(r) /\ Grown(Line(c), Line(r), Len(Line(c)) + 1, w)
        /\ \A x : ~About(x, w) /\ Hushed(c, x) => Hushed(r, x)
        /\ Calm(c) => Calm(r)
    BY <1>1, <2>5, <2>6, Said
  <2>8. \A x : ~About(x, w)
    BY <2>5 DEF About, Requested, Streamed, Refusals
  <2>9. import # NoImport
    <3>1. c.import.purpose # "none"
      BY <1>1, <1>7 DEF Coherent, NoneIsNone
    <3> QED
      BY <2>4, <3>1 DEF NoImport
  <2>10. Conversation(Line(r), c.export, import, o)
    <3>1. PICK h, f : /\ Thinned(Line(C), Line(c), h, f) /\ Line(C)[h] = m
                      /\ \A p \in DOMAIN Line(C) : ~(p < h)
      BY Hearing
    <3>2. Conversation(Line(C), c.export, c.import, o)
      BY Hearing DEF Hears, Converses, View
    <3>3. \A p \in DOMAIN Line(C) : Line(C)[p].id # id
      BY <1>7, <2>3, <3>1 DEF Thinned
    <3>4. w = Message("commit", import.commit, "none", import.transfer)
      BY <2>4 DEF w
    <3>5. import.commit \in Nat \ {0} /\ import.commit \notin {c.export.message, c.import.begin}
      BY <2>3, <2>4
    <3>6. \A p \in DOMAIN Line(C) : Line(C)[p].id # import.commit
      BY <2>4, <3>3
    <3>7. Line(C)[h].tag = "accepted" /\ Line(C)[h].id = c.import.begin
          /\ import.transfer = Line(C)[h].transfer /\ import.begin = c.import.begin
      BY <1>7, <2>4, <3>1
    <3> QED
      BY <1>7, <2>7, <2>9, <3>1, <3>2, <3>4, <3>5, <3>6, <3>7, AcceptedTaken
  <2>11. Placed(r)
    <3>1. r.import.purpose = c.import.purpose
      BY <2>4, <2>6
    <3> QED
      BY <1>1, <2>6, <3>1 DEF Placed
  <2>12. r.export = NoExport =>
           /\ c.export = NoExport /\ (Calm(c) => Calm(r))
           /\ Hushed(c, NoExport) => Hushed(r, NoExport)
    BY <2>6, <2>7, <2>8
  <2> QED
    BY <1>1, <1>7, <2>6, <2>7, <2>10, <2>11, <2>12 DEF Heard
<1> QED
  BY <1>4, <1>5, <1>6, <1>7

\* A fault of the game.
LEMMA FaultHeard ==
  ASSUME NEW C, NEW c, NEW m, NEW o, Hears(C, c, m, o), m.tag = "fault"
  PROVE  Heard(c, HandleFault(c), o)
<1> DEFINE d == ClearImport(c)
<1>1. Shape(c) /\ Sound(c)
  BY Listening
<1>2. Wanes(c, d) /\ Sound(d)
  BY <1>1, Waning, SoundLeft
<1>3. View(d, c.export, c.project, c.diagnosis, NoImport, c.events)
  BY <1>1, GivingUp
<1>4. "fault" \in Events
  BY DEF Events
<1> HIDE DEF d
<1>5. Wanes(c, Emit(d, "fault")) /\ Emit(d, "fault").export = d.export
  <2>1. Sound(c) /\ Wanes(c, d) /\ Sound(d)
    BY <1>1, <1>2
  <2>2. \A event \in Events : Wanes(c, Emit(d, event)) /\ Emit(d, event).export = d.export
    BY <2>1, Over
  <2> QED
    BY <1>4, <2>2
<1>6. Emit(d, "fault").import = NoImport
  BY <1>3, <1>4, Words DEF View
<1>7. HandleFault(c) = Emit(d, "fault")
  BY DEF HandleFault, d
<1>8. d.export = c.export
  BY <1>3 DEF View
<1> QED
  BY <1>5, <1>6, <1>7, <1>8, Staying

\* A game that is replaced leaves nothing under way, and the runtime is told.
LEMMA Ceded ==
  ASSUME NEW c, Shape(c), Wired(c), NEW r, r = Transition(c)
  PROVE  /\ View(r, NoExport, NoProject, NoDiagnosis, NoImport, r.events)
         /\ Wired(r) /\ r.polled = c.polled /\ r.failed = c.failed /\ r.cache.prepared = FALSE
         /\ c.export.stage = "cache" => r.cache.due = TRUE /\ r.cache.waiting = TRUE
         /\ c.export.stage # "cache" =>
              r.cache.due = c.cache.due /\ r.cache.waiting = c.cache.waiting
         /\ \A x, i, o : (x = NoExport \/ x = c.export) /\ Conversation(Line(c), x, i, o) =>
                           Conversation(Line(r), NoExport, NoImport, o)
         /\ Hushed(c, NoExport) => Hushed(r, NoExport)
         /\ Calm(c) => Calm(r)
<1> DEFINE d == Tell(c, "transition", "none", 0)
           m == Message("transition", 0, "none", 0)
           dropped == DropExport(d)
           cleared == ClearImport(dropped)
           kept == Remove(cleared, {d.project.file})
           cleaned == Cleanup(kept)
           rescheduled == IF d.export.stage = "cache" THEN Reschedule(cleaned) ELSE cleaned
           w == [rescheduled EXCEPT !.project = NoProject, !.cache.prepared = FALSE,
                                    !.events = @ \o EndedBy(d)]
<1>1. r = Emit(w, "reset")
  BY DEF Transition, Retire, RetiredFiles
<1>2. "transition" \in Closings /\ "none" \in Kinds \cup {"none"} /\ 0 \in Nat
  BY DEF Closings
<1>3. /\ Winds(c, d) /\ d.cache = c.cache
      /\ Grown(Line(c), Line(d), Len(Line(c)) + 1, m)
  BY <1>2, Told
<1>4. View(d, c.export, c.project, c.diagnosis, c.import, c.events)
  BY Words
<1>5. m.tag = "transition" /\ m.id = 0 /\ \A kind : Stops(m, kind)
  BY <1>2 DEF Message, Stops
<1> HIDE DEF d, m
<1>6. Same(d, dropped) /\ Shape(dropped)
  BY <1>4, Silently, GivingUp DEF View
<1> HIDE DEF dropped
<1>7. Same(d, cleared) /\ Shape(cleared)
  BY <1>6, Silently, GivingUp DEF View, Same
<1> HIDE DEF cleared
<1>8. Same(d, kept) /\ Shape(kept)
  BY <1>7, Silently, Files DEF View, Same
<1> HIDE DEF kept
<1>9. Same(d, cleaned) /\ Shape(cleaned)
  BY <1>8, Silently, GivingUp DEF View, Same
<1> HIDE DEF cleaned
<1>10. /\ rescheduled.sent = d.sent /\ rescheduled.polled = d.polled
       /\ rescheduled.failed = d.failed
       /\ d.export.stage = "cache" =>
            rescheduled.cache.due = TRUE /\ rescheduled.cache.waiting = TRUE
       /\ d.export.stage # "cache" =>
            rescheduled.cache.due = d.cache.due /\ rescheduled.cache.waiting = d.cache.waiting
       /\ DOMAIN rescheduled = DOMAIN NewClient /\ DOMAIN rescheduled.cache = DOMAIN NoCache
  <2>1. CASE d.export.stage = "cache"
    <3>1. rescheduled = Reschedule(cleaned)
      BY <2>1
    <3> HIDE DEF rescheduled
    <3> QED
      BY <1>9, <2>1, <3>1 DEF Same, Shape, Reschedule, NewClient, NoCache
  <2>2. CASE d.export.stage # "cache"
    <3>1. rescheduled = cleaned
      BY <2>2
    <3> HIDE DEF rescheduled
    <3> QED
      BY <1>9, <2>2, <3>1 DEF Same, Shape
  <2> QED
    BY <2>1, <2>2
<1> HIDE DEF rescheduled
<1>11. /\ r.sent = d.sent /\ r.polled = d.polled /\ r.failed = d.failed
       /\ r.cache.due = rescheduled.cache.due /\ r.cache.waiting = rescheduled.cache.waiting
       /\ r.cache.prepared = FALSE
  BY <1>1, <1>10 DEF Emit, NewClient, NoCache
<1>12. View(r, NoExport, NoProject, NoDiagnosis, NoImport, r.events)
  BY Left
<1> HIDE DEF w
<1>13. Wired(r) /\ Line(r) = Line(d)
  BY <1>3, <1>11 DEF Winds, Wired, Line
<1>14. ASSUME NEW x, NEW i, NEW o, Conversation(Line(c), x, i, o)
       PROVE  Conversation(Line(r), NoExport, NoImport, o)
  <2>1. m.tag \in Closings
    BY <1>2, <1>5
  <2> QED
    BY <1>3, <1>5, <1>13, <1>14, <2>1, ClosedForgotten
<1>15. (Hushed(c, NoExport) => Hushed(r, NoExport)) /\ (Calm(c) => Calm(r))
  BY <1>3, <1>11, <1>13 DEF Winds, Hushed, Calm
<1>16. r.polled = c.polled /\ r.failed = c.failed
  BY <1>3, <1>11 DEF Winds
<1>17. d.export = c.export
  BY <1>4 DEF View
<1> QED
  BY <1>3, <1>10, <1>11, <1>12, <1>13, <1>14, <1>15, <1>16, <1>17

\* _handle_import_ready.
LEMMA ImportedHeard ==
  ASSUME NEW C, NEW c, NEW m, NEW o, Hears(C, c, m, o), m.tag = "imported",
         NEW disk, NEW r, r = HandleImported(c, m, disk)
  PROVE  (r.failed = TRUE /\ disk # "fine") \/ Heard(c, r, o)
<1>1. Coherent(c) /\ Shape(c) /\ Wired(c) /\ Placed(c) /\ Sound(c) /\ c.failed = FALSE
  BY Listening
<1>2. /\ Conversation(Line(c), c.export, NoImport, o)
      /\ c.import # NoImport /\ m.id = Awaited(c.import) =>
           ImportMatches(c, m) /\ (c.export = NoExport => Hushed(c, NoExport))
  BY Taking
<1>3. CASE ~ImportMatches(c, m)
  <2>1. r = c
    BY <1>3 DEF HandleImported
  <2>2. Wanes(c, c)
    BY <1>1, Waning
  <2>3. c.import = NoImport \/ m.id # Awaited(c.import)
    BY <1>2, <1>3
  <2> QED
    BY <2>1, <2>2, <2>3, Staying
<1>4. ASSUME ImportMatches(c, m)
      PROVE  (r.failed = TRUE /\ disk # "fine") \/ Heard(c, r, o)
  <2>1. c.import # NoImport /\ m.id = c.import.commit /\ m.transfer = c.import.transfer
    BY <1>4 DEF ImportMatches
  <2>2. m.id = Awaited(c.import)
    <3>1. PICK h, f : /\ Thinned(Line(C), Line(c), h, f) /\ Line(C)[h] = m
                      /\ \A p \in DOMAIN Line(C) : ~(p < h)
      BY Hearing
    <3>2. Conversation(Line(C), c.export, c.import, o)
      BY Hearing DEF Hears, Converses, View
    <3>3. m.transfer # 0
      BY <3>1, <3>2 DEF Conversation, Numbered, Thinned
    <3> QED
      BY <2>1, <3>3 DEF Awaited
  <2>3. c.export = NoExport => Hushed(c, NoExport)
    BY <1>2, <2>1, <2>2
  <2>4. CASE c.import.purpose = "project"
    <3> DEFINE d == RequestProject(c)
    <3>1. r = ClearImport(d)
      BY <1>4, <2>4 DEF HandleImported
    <3>2. c.project # NoProject /\ c.export = NoExport
      BY <1>1, <2>4 DEF Coherent, Serves, Placed
    <3>3. Asks(c, d)
      BY <1>1, <2>3, <3>2, Requesting
    <3>4. View(d, d.export, c.project, c.diagnosis, c.import, c.events)
          /\ d.export.stage = "project"
      BY <1>1, <3>2, ProjectRequest
    <3> HIDE DEF d
    <3>10. Shape(d)
      BY <3>4 DEF View
    <3>5. Same(d, r) /\ View(r, d.export, d.project, d.diagnosis, NoImport, d.events)
      BY <3>1, <3>10, Silently, GivingUp
    <3>6. Conversation(Line(r), r.export, NoImport, o) /\ Wired(r) /\ r.export # NoExport
      BY <1>2, <3>2, <3>3, <3>5 DEF Asks, Same, View, Line, Wired
    <3>7. /\ r.failed = FALSE /\ r.polled = c.polled /\ r.cache = c.cache
          /\ r.export.stage = "project" /\ r.import = NoImport
      BY <1>1, <3>3, <3>4, <3>5 DEF Asks, Same, View
    <3>8. NoImport.purpose = "none"
      BY DEF NoImport
    <3>9. Placed(r)
      BY <1>1, <3>7, <3>8 DEF Placed
    <3> QED
      BY <2>1, <3>6, <3>7, <3>9 DEF Heard
  <2>5. CASE c.import.purpose = "diagnosis"
    <3> DEFINE d == RequestDiagnosisProject(c, disk)
    <3>1. r = ClearImport(d)
      BY <1>4, <2>5 DEF HandleImported
    <3>2. c.diagnosis # NoDiagnosis /\ c.export = NoExport
      BY <1>1, <2>5 DEF Coherent, Serves, Placed, NoDiagnosis
    <3>3. CASE disk = "open"
      <4>1. r = ClearImport(Raise(c))
        BY <3>1, <3>2, <3>3 DEF RequestDiagnosisProject
      <4> QED
        BY <1>1, <3>3, <4>1 DEF Raise, ClearImport, Remove, Shape, NewClient
    <3>4. CASE disk # "open"
      <4>1. d = Request(c, "diagnosis_project", c.diagnosis.folder)
        BY <3>2, <3>4 DEF RequestDiagnosisProject
      <4> HIDE DEF d
      <4>2. "diagnosis_project" \in Stages
        BY DEF Stages, DiagnosisStages
      <4>3. Asks(c, d)
        BY <1>1, <2>3, <3>2, <4>1, <4>2, Requesting
      <4>4. View(d, d.export, c.project, c.diagnosis, c.import, c.events)
            /\ d.export.stage = "diagnosis_project"
        BY <1>1, <4>1, <4>2, Requests
      <4>10. Shape(d)
        BY <4>4 DEF View
      <4>5. Same(d, r) /\ View(r, d.export, d.project, d.diagnosis, NoImport, d.events)
        BY <3>1, <4>10, Silently, GivingUp
      <4>6. Conversation(Line(r), r.export, NoImport, o) /\ Wired(r) /\ r.export # NoExport
        BY <1>2, <3>2, <4>3, <4>5 DEF Asks, Same, View, Line, Wired
      <4>7. /\ r.failed = FALSE /\ r.polled = c.polled /\ r.cache = c.cache
            /\ r.export.stage = "diagnosis_project" /\ r.import = NoImport
        BY <1>1, <4>3, <4>4, <4>5 DEF Asks, Same, View
      <4>8. NoImport.purpose = "none"
        BY DEF NoImport
      <4>9. Placed(r)
        BY <1>1, <4>7, <4>8 DEF Placed
      <4> QED
        BY <2>1, <4>6, <4>7, <4>9 DEF Heard
    <3> QED
      BY <3>3, <3>4
  <2>6. CASE c.import.purpose = "restore"
    <3> DEFINE d == ClearImport(c)
    <3>1. r = Transition(d)
      BY <1>4, <2>6 DEF HandleImported
    <3>2. Same(c, d) /\ View(d, c.export, c.project, c.diagnosis, NoImport, c.events)
      BY <1>1, Silently, GivingUp
    <3> HIDE DEF d
    <3>3. Shape(d) /\ Wired(d) /\ Line(d) = Line(c) /\ d.export = c.export
      BY <1>1, <3>2 DEF Same, View, Wired, Line
    <3>4. /\ View(r, NoExport, NoProject, NoDiagnosis, NoImport, r.events)
          /\ Wired(r) /\ r.polled = d.polled /\ r.failed = d.failed /\ r.cache.prepared = FALSE
          /\ d.export.stage = "cache" => r.cache.due = TRUE /\ r.cache.waiting = TRUE
          /\ d.export.stage # "cache" =>
               r.cache.due = d.cache.due /\ r.cache.waiting = d.cache.waiting
          /\ \A x, i, y : (x = NoExport \/ x = d.export) /\ Conversation(Line(d), x, i, y) =>
                            Conversation(Line(r), NoExport, NoImport, y)
          /\ Hushed(d, NoExport) => Hushed(r, NoExport)
          /\ Calm(d) => Calm(r)
      BY <3>1, <3>3, Ceded
    <3>5. Conversation(Line(r), NoExport, NoImport, o)
      BY <1>2, <3>3, <3>4
    <3>6. Wired(r) /\ r.polled = c.polled /\ r.failed = FALSE /\ r.export = NoExport
          /\ r.import = NoImport /\ r.project = NoProject /\ r.diagnosis = NoDiagnosis
      BY <1>1, <3>2, <3>4 DEF Same, View
    <3>7. Placed(r)
      <4>1. NoExport.stage = "none" /\ NoImport.purpose = "none"
        BY DEF NoExport, NoImport
      <4>2. r.cache.due \in BOOLEAN /\ r.cache.waiting \in BOOLEAN /\ r.cache.prepared \in BOOLEAN
        BY <1>1, <3>2, <3>4 DEF Same, Placed
      <4>3. Packaged => ~r.cache.due
        BY <1>1, <3>2, <3>3, <3>4 DEF Same, Placed
      <4> QED
        BY <3>4, <3>6, <4>1, <4>2, <4>3 DEF Placed
    <3>8. CASE c.export = NoExport
      <4>1. (Hushed(c, NoExport) => Hushed(r, NoExport)) /\ (Calm(c) => Calm(r))
        BY <3>2, <3>3, <3>4 DEF Same, Hushed, Calm
      <4> QED
        BY <2>1, <3>5, <3>6, <3>7, <3>8, <4>1 DEF Heard
    <3>9. CASE c.export # NoExport
      <4>1. c.export.stage = "cache"
        BY <1>1, <2>6, <3>9 DEF Placed, Coherent, NoneIsNone
      <4>2. r.cache.waiting = TRUE
        BY <3>3, <3>4, <4>1
      <4> QED
        BY <2>1, <3>5, <3>6, <3>7, <3>9, <4>2 DEF Heard
    <3> QED
      BY <3>8, <3>9
  <2>7. c.import.purpose \in {"project", "diagnosis", "restore"}
    BY <1>1, <2>1 DEF Coherent, Shape, NoneIsNone, Purposes
  <2> QED
    BY <2>4, <2>5, <2>6, <2>7
<1> QED
  BY <1>3, <1>4

\* _handle_command_rejection.
LEMMA RejectedHeard ==
  ASSUME NEW C, NEW c, NEW m, NEW o, Hears(C, c, m, o), m.tag \in {"rejected", "invalid_state"},
         NEW r, r = HandleRejected(c, m)
  PROVE  Heard(c, r, o)
<1>1. Coherent(c) /\ Shape(c) /\ Wired(c) /\ Placed(c) /\ Sound(c) /\ c.failed = FALSE
  BY Listening
<1>2. m.tag # "ready" /\ m.tag \notin {"ready", "chunk"} /\ m.tag \in Refusals
  BY DEF Refusals
<1> DEFINE dropped == DropExport(c)
           invalid == m.tag = "invalid_state"
           stage == IF c.export.message # 0 /\ m.id = c.export.message THEN c.export.stage
                    ELSE "none"
           waits == c.import # NoImport /\ m.id \in {c.import.begin, c.import.commit} \ {0}
<1>3. r = IF waits THEN FailImport(c)
          ELSE CASE stage = "cache" -> IF invalid THEN Reschedule(dropped) ELSE FinishCache(dropped)
                 [] stage \in DiagnosisStages ->
                      IF stage = "diagnosis_project" /\ invalid /\ c.diagnosis # NoDiagnosis
                      THEN [dropped EXCEPT !.diagnosis.stage = "project_wait",
                                           !.diagnosis.waiting = TRUE]
                      ELSE FinishDiagnosis(dropped, FALSE)
                 [] stage \in Manual -> Emit(dropped, stage)
                 [] stage = "project" ->
                      IF invalid
                      THEN [c EXCEPT !.export = NoExport,
                                     !.project.waiting = (@ \/ c.project # NoProject)]
                      ELSE FinishProject([c EXCEPT !.export = NoExport], FALSE)
                 [] OTHER -> c
  BY DEF HandleRejected
<1>4. CASE waits
  <2>1. Same(c, c) /\ c.import.transfer \in Nat
    BY <1>1 DEF Same, Sound
  <2> QED
    BY <1>1, <1>2, <1>3, <1>4, <2>1, FailHeard
<1>5. CASE ~waits /\ stage = "none"
  <2>1. r = c
    BY <1>3, <1>5 DEF DiagnosisStages, Manual
  <2>2. Wanes(c, c)
    BY <1>1, Waning
  <2>3. c.import = NoImport \/ m.id # Awaited(c.import)
    <3>1. SUFFICES ASSUME c.import # NoImport, m.id = Awaited(c.import) PROVE FALSE
      OBVIOUS
    <3>2. Awaited(c.import) # 0
      <4>1. PICK h, f : /\ Thinned(Line(C), Line(c), h, f) /\ Line(C)[h] = m
                        /\ \A p \in DOMAIN Line(C) : ~(p < h)
        BY Hearing
      <4>2. Conversation(Line(C), c.export, c.import, o)
        BY Hearing DEF Hears, Converses, View
      <4> QED
        BY <3>1, <4>2 DEF Conversation, Numbered, Awaited
    <3>3. m.id \in {c.import.begin, c.import.commit}
      BY <3>1 DEF Awaited
    <3> QED
      BY <1>5, <3>1, <3>2, <3>3
  <2> QED
    BY <1>2, <2>1, <2>2, <2>3, Staying
<1>6. ASSUME ~waits, stage # "none"
      PROVE  Heard(c, r, o)
  <2>1. /\ c.export.message # 0 /\ m.id = c.export.message /\ stage = c.export.stage
        /\ c.export # NoExport
    BY <1>6 DEF NoExport
  <2>2. About(c.export, m) /\ c.export.stage \in Stages
    BY <1>2, <2>1, Listening DEF About
  <2>3. \A w : Wanes(c, w) /\ w.export = NoExport => Heard(c, w, o)
    BY <1>2, <2>1, <2>2, Ceasing
  <2>4. Wanes(c, dropped) /\ Sound(dropped) /\ Shape(dropped) /\ dropped.export = NoExport
        /\ dropped.diagnosis = c.diagnosis
    BY <1>1, Waning, SoundLeft, GivingUp DEF View
  <2>5. FALSE \in BOOLEAN /\ invalid \in BOOLEAN
    OBVIOUS
  <2> HIDE DEF dropped, waits, invalid, stage
  <2>6. /\ Wanes(c, FinishCache(dropped)) /\ FinishCache(dropped).export = NoExport
        /\ \A event \in Events : Wanes(c, Emit(dropped, event))
                                 /\ Emit(dropped, event).export = NoExport
    BY <1>1, <2>4, Over
  <2>7. \A success \in BOOLEAN :
          /\ Wanes(c, FinishDiagnosis(dropped, success))
          /\ FinishDiagnosis(dropped, success).export = NoExport
    BY <1>1, <2>4, Over
  <2>8. CASE stage = "cache"
    <3>1. r = IF invalid THEN Reschedule(dropped) ELSE FinishCache(dropped)
      BY <1>3, <1>6, <2>8 DEF DiagnosisStages, Manual
    <3>2. Wanes(c, Reschedule(dropped)) /\ Reschedule(dropped).export = NoExport
      <4> DEFINE w == Reschedule(dropped)
      <4>1. /\ w.sent = dropped.sent /\ w.polled = dropped.polled /\ w.failed = dropped.failed
            /\ w.cache = [dropped.cache EXCEPT !.due = TRUE, !.waiting = TRUE]
        BY <2>4, CacheLeft
      <4>2. Shape(w) /\ w.export = NoExport /\ w.import = dropped.import
            /\ w.project = dropped.project /\ w.diagnosis = dropped.diagnosis
        BY <2>4 DEF Reschedule, Shape, NewClient, NoCache
      <4> HIDE DEF w
      <4>3. Winds(c, w)
        <5>1. Winds(dropped, w)
          BY <2>4, <4>1, Mute DEF Wanes
        <5> QED
          BY <2>4, <5>1, WindsOn DEF Wanes
      <4>4. w.cache.due = TRUE /\ w.cache.waiting = TRUE /\ w.cache.prepared = dropped.cache.prepared
        BY <2>4, <4>1 DEF Shape, NoCache
      <4>5. CacheKept(c, w)
        BY <2>1, <2>4, <2>8, <4>4 DEF CacheKept, Wanes, Ebbs
      <4>6. Ebbs(c, w)
        BY <2>4, <4>2, <4>5 DEF Wanes, Ebbs
      <4>7. Wanes(c, w)
        BY <4>2, <4>3, <4>6 DEF Wanes, Winds
      <4> QED
        BY <4>2, <4>7 DEF w
    <3>3. CASE invalid
      BY <2>3, <3>1, <3>2, <3>3
    <3>4. CASE ~invalid
      BY <2>3, <2>6, <3>1, <3>4
    <3> QED
      BY <3>3, <3>4
  <2>9. CASE stage \in DiagnosisStages
    <3> DEFINE w == [dropped EXCEPT !.diagnosis.stage = "project_wait", !.diagnosis.waiting = TRUE]
    <3>1. r = FinishDiagnosis(dropped, FALSE) \/ r = w
      BY <1>3, <1>6, <2>9 DEF DiagnosisStages, Manual
    <3>2. Wanes(c, w) /\ w.export = NoExport
      <4>1. c.diagnosis # NoDiagnosis
        BY <1>1, <2>1, <2>9, DiagnosisHeld
      <4>2. Shape(w) /\ Same(dropped, w) /\ w.export = NoExport /\ w.import = dropped.import
            /\ w.project = dropped.project
        BY <2>4 DEF Shape, NewClient, NoDiagnosis, Same
      <4> HIDE DEF w
      <4>3. Winds(c, w)
        <5>1. Winds(dropped, w)
          BY <2>4, <4>2, Mute DEF Wanes, Same
        <5> QED
          BY <2>4, <5>1, WindsOn DEF Wanes
      <4>4. CacheKept(c, w)
        BY <2>4, <4>2 DEF CacheKept, Wanes, Ebbs, Same
      <4>5. Ebbs(c, w)
        BY <2>4, <4>1, <4>2, <4>4 DEF Wanes, Ebbs
      <4> QED
        BY <4>2, <4>3, <4>5 DEF Wanes, Winds
    <3> HIDE DEF w
    <3>3. CASE r = w
      BY <2>3, <3>2, <3>3
    <3>4. CASE r = FinishDiagnosis(dropped, FALSE)
      BY <2>3, <2>5, <2>7, <3>4
    <3> QED
      BY <3>1, <3>3, <3>4
  <2>10. CASE stage \in Manual
    <3>1. r = Emit(dropped, stage) /\ stage \in Events
      BY <1>3, <1>6, <2>10 DEF DiagnosisStages, Manual, Events, UserJobs
    <3> QED
      BY <2>3, <2>6, <3>1
  <2>11. CASE stage = "project"
    <3> DEFINE d == [c EXCEPT !.export = NoExport]
               w == [c EXCEPT !.export = NoExport, !.project.waiting = (@ \/ c.project # NoProject)]
    <3>1. r = IF invalid THEN w ELSE FinishProject(d, FALSE)
      BY <1>3, <1>6, <2>11 DEF DiagnosisStages, Manual
    <3>2. Wanes(c, d) /\ Sound(d)
      BY <1>1, Waning, SoundLeft
    <3>3. \A success \in BOOLEAN : Wanes(c, FinishProject(d, success))
                                   /\ FinishProject(d, success).export = NoExport
      <4> HIDE DEF d
      <4> QED
        BY <1>1, <3>2, Over
    <3>4. Wanes(c, w) /\ w.export = NoExport
      <4>1. c.project # NoProject
        BY <1>1, <2>1, <2>11 DEF Coherent, Serves
      <4>2. Shape(w) /\ Same(c, w) /\ w.export = NoExport /\ w.import = c.import
            /\ w.diagnosis = c.diagnosis
        BY <1>1 DEF Shape, NewClient, NoProject, NoExport, Same
      <4> HIDE DEF w
      <4>3. Winds(c, w)
        BY <1>1, <4>2, Mute DEF Same
      <4> QED
        BY <1>1, <4>1, <4>2, <4>3, Waned DEF Same
    <3> HIDE DEF d, w
    <3>5. CASE invalid
      BY <2>3, <3>1, <3>4, <3>5
    <3>6. CASE ~invalid
      <4>1. r = FinishProject(d, FALSE)
        BY <3>1, <3>6
      <4> QED
        BY <2>3, <2>5, <3>3, <4>1
    <3> QED
      BY <3>5, <3>6
  <2> QED
    BY <2>1, <2>2, <2>8, <2>9, <2>10, <2>11 DEF Stages
<1> QED
  BY <1>4, <1>5, <1>6

\* Whatever the client hears.
LEMMA HandleHeard ==
  ASSUME NEW C, NEW c, NEW m, NEW o, Hears(C, c, m, o), NEW disk, NEW r, r = Handle(c, m, disk)
  PROVE  (r.failed = TRUE /\ disk # "fine") \/ Heard(c, r, o)
<1>1. m.tag \in Outputs
  BY Listening
<1>2. CASE m.tag \in {"ready", "ineligible"}
  <2>1. r = HandleReady(c, m)
    BY <1>2 DEF Handle
  <2> QED
    BY <1>2, <2>1, ReadyHeard
<1>3. CASE m.tag \in {"chunk", "last_chunk"}
  <2>1. r = HandleChunk(c, m, disk)
    BY <1>3 DEF Handle
  <2> QED
    BY <1>3, <2>1, ChunkHeard
<1>4. CASE m.tag = "accepted"
  <2>1. r = HandleAccepted(c, m, disk)
    BY <1>4 DEF Handle
  <2> QED
    BY <1>4, <2>1, AcceptedHeard
<1>5. CASE m.tag = "imported"
  <2>1. r = HandleImported(c, m, disk)
    BY <1>5 DEF Handle
  <2> QED
    BY <1>5, <2>1, ImportedHeard
<1>6. CASE m.tag \in {"rejected", "invalid_state"}
  <2>1. r = HandleRejected(c, m)
    BY <1>6 DEF Handle
  <2> QED
    BY <1>6, <2>1, RejectedHeard
<1>7. CASE m.tag = "fault"
  <2>1. r = HandleFault(c)
    BY <1>7 DEF Handle
  <2> QED
    BY <1>7, <2>1, FaultHeard
<1> QED
  BY <1>1, <1>2, <1>3, <1>4, <1>5, <1>6, <1>7 DEF Outputs
-----------------------------------------------------------------------------
(* The look for postponed work *)

\* The client asks for an export, or does nothing.
Sought(c, r, o) ==
  /\ Converses(r, o) /\ r.failed = FALSE /\ r.polled = <<>>
  /\ \/ r = c
     \/ /\ c.export = NoExport /\ r.export # NoExport /\ r.import = c.import
        /\ c.project # NoProject \/ c.diagnosis # NoDiagnosis \/ c.cache.due

\* An export is asked for, by a client that differs from c in nothing the runtime knows.
LEMMA Seeks ==
  ASSUME NEW c, NEW o, Converses(c, o), c.failed = FALSE, c.polled = <<>>,
         c.export = NoExport, NEW d, NEW r, Asks(d, r), d.sent = c.sent, d.polled = c.polled,
         d.failed = c.failed, r.import = d.import, d.import = c.import, Placed(r),
         c.project # NoProject \/ c.diagnosis # NoDiagnosis \/ c.cache.due
  PROVE  Sought(c, r, o)
<1>1. Line(d) = Line(c)
  BY DEF Line
<1>2. Conversation(Line(r), r.export, r.import, o)
  BY <1>1 DEF Converses, Asks
<1> QED
  BY <1>2 DEF Asks, Sought, Converses

\* maybe_refresh_compiled_cache.
LEMMA RefreshSeeks ==
  ASSUME NEW c, NEW o, Coherent(c), Converses(c, o), c.failed = FALSE, c.polled = <<>>,
         c.export = NoExport /\ (\E p \in DOMAIN c.sent : c.sent[p].tag \in {"export", "read"}) =>
           c.project = NoProject /\ c.diagnosis = NoDiagnosis /\ (c.cache.due => c.cache.waiting),
         NEW disk, NEW r, r = Refresh(c, disk)
  PROVE  (r.failed = TRUE /\ disk # "fine") \/ Sought(c, r, o)
<1> DEFINE begun == [c EXCEPT !.cache.due = FALSE]
           prepared == [begun EXCEPT !.cache.prepared = TRUE]
<1>1. \/ r = c
      \/ c.project # NoProject /\ c.import = NoImport /\ c.export = NoExport
         /\ r = RequestProject(c)
      \/ c.project = NoProject /\ c.diagnosis.stage = "export_wait" /\ c.export = NoExport
         /\ c.diagnosis # NoDiagnosis /\ r = StartPart(c, "replay", disk)
      \/ c.project = NoProject /\ c.diagnosis.stage = "project_wait" /\ c.export = NoExport
         /\ c.diagnosis # NoDiagnosis /\ r = RequestDiagnosisProject(c, disk)
      \/ c.project = NoProject /\ c.diagnosis = NoDiagnosis /\ c.export = NoExport
         /\ c.cache.due /\ ~c.cache.waiting
         /\ ((disk = "open" /\ r = Raise(begun)) \/ r = Request(prepared, "cache", 0))
  BY DEF Refresh
<1>2. Shape(c) /\ Wired(c) /\ Placed(c)
  BY DEF Coherent, Converses
<1>3. c.export = NoExport
        /\ (c.project # NoProject \/ c.diagnosis # NoDiagnosis \/ (c.cache.due /\ ~c.cache.waiting)) =>
        Hushed(c, NoExport)
  <2>1. SUFFICES ASSUME c.export = NoExport, NEW p \in DOMAIN Line(c),
                        ~(\E q \in DOMAIN c.sent : c.sent[q].tag \in {"export", "read"})
                 PROVE  ~About(NoExport, Line(c)[p])
    BY DEF Hushed
  <2>2. Line(c) = c.sent
    <3>1. c.sent \in Seq(Messages)
      BY <1>2, Lines
    <3> QED
      BY <3>1 DEF Line
  <2>3. c.sent[p].tag \in Inputs \ {"export", "read"}
    BY <1>2, <2>1, <2>2, Lines
  <2>4. NoExport.message = 0
    BY DEF NoExport
  <2> QED
    BY <2>2, <2>3, <2>4 DEF About, Requested, Streamed, Inputs
<1>4. CASE r = c
  BY <1>4 DEF Sought
<1>5. CASE c.project # NoProject /\ c.import = NoImport /\ c.export = NoExport
           /\ r = RequestProject(c)
  <2>1. Asks(c, r)
    BY <1>2, <1>3, <1>5, Requesting
  <2>2. View(r, r.export, c.project, c.diagnosis, c.import, c.events)
        /\ r.export.stage = "project"
    BY <1>2, <1>5, ProjectRequest
  <2>3. NoImport.purpose = "none"
    BY DEF NoImport
  <2>4. Placed(r)
    BY <1>2, <1>5, <2>1, <2>2, <2>3 DEF Placed, Asks, View
  <2>5. r.import = c.import
    BY <2>2 DEF View
  <2> QED
    BY <1>5, <2>1, <2>4, <2>5, Seeks
<1>6. ASSUME NEW d, Shape(d), d.sent = c.sent, d.polled = c.polled, d.failed = c.failed,
             d.cache = c.cache, d.import = c.import, d.project = c.project,
             d.diagnosis # NoDiagnosis,
             c.diagnosis # NoDiagnosis, c.project = NoProject, c.export = NoExport,
             c.diagnosis.stage # "project", NEW stage \in DiagnosisStages, NEW folder,
             r = Request(d, stage, folder)
      PROVE  Sought(c, r, o)
  <2>1. Wired(d) /\ Hushed(d, NoExport) /\ stage \in Stages
    BY <1>2, <1>3, <1>6 DEF Wired, Hushed, Line, Stages
  <2>2. Asks(d, r)
    BY <1>6, <2>1, Requesting
  <2>3. View(r, r.export, d.project, d.diagnosis, d.import, d.events) /\ r.export.stage = stage
    BY <1>6, <2>1, Requests
  <2>4. c.import.purpose \notin {"project", "diagnosis", "restore"}
    BY <1>2, <1>6 DEF Coherent, Serves, Placed
  <2>5. r.import = d.import /\ r.cache = c.cache /\ r.failed = c.failed
    BY <1>6, <2>2, <2>3 DEF View, Asks
  <2>6. r.export.stage # "cache"
    BY <2>3 DEF DiagnosisStages
  <2>7. Placed(r)
    BY <1>2, <1>6, <2>4, <2>5, <2>6 DEF Placed
  <2> QED
    BY <1>6, <2>2, <2>5, <2>7, Seeks
<1>7. CASE c.project = NoProject /\ c.diagnosis.stage = "export_wait" /\ c.export = NoExport
           /\ c.diagnosis # NoDiagnosis /\ r = StartPart(c, "replay", disk)
  <2> DEFINE d == [c EXCEPT !.diagnosis.stage = "replay"]
             stage == Part("replay")
  <2>1. r = IF disk = "open" THEN Raise(d) ELSE Request(d, stage, c.diagnosis.folder)
    BY <1>7 DEF StartPart
  <2>2. /\ Shape(d) /\ d.sent = c.sent /\ d.polled = c.polled /\ d.failed = c.failed
        /\ d.cache = c.cache /\ d.import = c.import /\ d.project = c.project
        /\ d.diagnosis.stage = "replay"
    BY <1>2 DEF Shape, NewClient, NoDiagnosis
  <2>3. stage \in DiagnosisStages /\ NoDiagnosis.stage = "none"
    BY DEF Part, DiagnosisStages, NoDiagnosis
  <2> HIDE DEF d, stage
  <2>4. CASE disk = "open"
    BY <2>1, <2>2, <2>4 DEF Raise, Shape, NewClient
  <2>5. CASE disk # "open"
    BY <1>6, <1>7, <2>1, <2>2, <2>3, <2>5
  <2> QED
    BY <2>4, <2>5
<1>8. CASE c.project = NoProject /\ c.diagnosis.stage = "project_wait" /\ c.export = NoExport
           /\ c.diagnosis # NoDiagnosis /\ r = RequestDiagnosisProject(c, disk)
  <2>1. r = IF disk = "open" THEN Raise(c)
            ELSE Request(c, "diagnosis_project", c.diagnosis.folder)
    BY <1>8 DEF RequestDiagnosisProject
  <2>2. "diagnosis_project" \in DiagnosisStages
    BY DEF DiagnosisStages
  <2>3. CASE disk = "open"
    BY <1>2, <2>1, <2>3 DEF Raise, Shape, NewClient
  <2>4. CASE disk # "open"
    BY <1>2, <1>6, <1>8, <2>1, <2>2, <2>4
  <2> QED
    BY <2>3, <2>4
<1>9. CASE c.project = NoProject /\ c.diagnosis = NoDiagnosis /\ c.export = NoExport
           /\ c.cache.due /\ ~c.cache.waiting
           /\ ((disk = "open" /\ r = Raise(begun)) \/ r = Request(prepared, "cache", 0))
  <2>1. /\ Shape(begun) /\ begun.sent = c.sent /\ begun.polled = c.polled
        /\ begun.failed = c.failed /\ begun.cache = [c.cache EXCEPT !.due = FALSE]
        /\ begun.import = c.import /\ begun.project = c.project
        /\ begun.diagnosis = c.diagnosis
    BY <1>2 DEF Shape, NewClient, NoCache
  <2> HIDE DEF begun
  <2>2. CASE disk = "open" /\ r = Raise(begun)
    BY <2>1, <2>2 DEF Raise, Shape, NewClient
  <2>3. CASE r = Request(prepared, "cache", 0)
    <3>1. /\ Shape(prepared) /\ prepared.sent = c.sent /\ prepared.polled = c.polled
          /\ prepared.failed = c.failed /\ prepared.import = c.import
          /\ prepared.project = c.project /\ prepared.diagnosis = c.diagnosis
          /\ prepared.cache = [begun.cache EXCEPT !.prepared = TRUE]
      BY <2>1 DEF Shape, NewClient, NoCache
    <3> HIDE DEF prepared
    <3>2. prepared.cache.due = FALSE /\ prepared.cache.waiting = c.cache.waiting
          /\ prepared.cache.prepared = TRUE
      BY <1>2, <2>1, <3>1 DEF Shape, NoCache
    <3>3. Wired(prepared) /\ Hushed(prepared, NoExport) /\ "cache" \in Stages
      BY <1>2, <1>3, <1>9, <3>1 DEF Wired, Hushed, Line, Stages
    <3>4. Asks(prepared, r)
      BY <2>3, <3>1, <3>3, Requesting
    <3>5. /\ View(r, r.export, prepared.project, prepared.diagnosis, prepared.import,
                  prepared.events)
          /\ r.export.stage = "cache"
      BY <2>3, <3>1, <3>3, Requests
    <3>6. /\ r.import = c.import /\ r.project = NoProject /\ r.diagnosis = NoDiagnosis
          /\ r.cache = prepared.cache /\ r.failed = FALSE
      BY <1>9, <3>1, <3>4, <3>5 DEF Asks, View
    <3>7. c.import.purpose \notin {"project", "diagnosis"} /\ ~Packaged
      <4>1. NoDiagnosis.stage = "none"
        BY DEF NoDiagnosis
      <4> QED
        BY <1>2, <1>9, <4>1 DEF Coherent, Serves, Placed
    <3>8. r.cache.waiting \in BOOLEAN
      BY <1>2, <3>2, <3>6 DEF Placed
    <3>9. Placed(r)
      BY <3>2, <3>5, <3>6, <3>7, <3>8 DEF Placed
    <3> QED
      BY <1>9, <3>1, <3>4, <3>6, <3>9, Seeks
  <2> QED
    BY <1>9, <2>2, <2>3
<1> QED
  BY <1>1, <1>4, <1>5, <1>7, <1>8, <1>9
-----------------------------------------------------------------------------
(* What the commands of the app make of the conversation *)

\* The client goes on after a command.
Talks(r, o) == Converses(r, o) /\ r.failed = FALSE /\ r.polled = <<>>

\* The client before a command.
Listens(c, o) == Coherent(c) /\ Sound(c) /\ Talks(c, o)

\* Nothing is under way and nothing is said.
LEMMA NothingSaid ==
  Conversation(<<>>, NoExport, NoImport, {})
<1>1. DOMAIN <<>> = {} /\ <<>> \in Seq(Messages) /\ IsFiniteSet({})
  BY FS_EmptySet
<1>2. /\ NoExport.message = 0 /\ NoExport.transfer = 0 /\ NoImport.begin = 0
      /\ NoImport.transfer = 0 /\ NoImport.commit = 0
  BY DEF NoExport, NoImport
<1>3. OneTalk(<<>>, NoExport) /\ Awaits(<<>>, NoImport) /\ InTurn(<<>>, NoExport, NoImport)
  BY <1>1 DEF OneTalk, Awaits, InTurn
<1>4. Numbered(<<>>, NoExport, NoImport)
  BY <1>1, <1>2 DEF Numbered
<1>5. Covered(<<>>, NoExport, {}) /\ Registered(<<>>, NoExport, {})
  BY <1>1 DEF Covered, Registered
<1> QED
  BY <1>3, <1>4, <1>5 DEF Conversation

\* Something has ended.
LEMMA Settled ==
  ASSUME NEW d, NEW r, NEW o, Placed(d), d.failed = FALSE, d.polled = <<>>, Wanes(d, r),
         Conversation(Line(d), r.export, r.import, o)
  PROVE  Talks(r, o)
<1>1. Placed(r)
  BY PlacedLess DEF Wanes, Winds
<1> QED
  BY <1>1 DEF Talks, Converses, Wanes, Winds

\* An export is asked for while no import is under way.
LEMMA AskedFor ==
  ASSUME NEW d, NEW r, NEW o, Placed(d), d.failed = FALSE, d.polled = <<>>, Asks(d, r),
         d.import = NoImport, r.import = NoImport, r.export.stage # "cache",
         Conversation(Line(d), NoExport, NoImport, o)
  PROVE  Talks(r, o)
<1>1. NoImport.purpose = "none"
  BY DEF NoImport
<1>2. r.cache = d.cache /\ r.failed = FALSE /\ r.polled = <<>> /\ Wired(r)
  BY DEF Asks
<1>3. Placed(r)
  BY <1>1, <1>2 DEF Placed
<1>4. Conversation(Line(r), r.export, r.import, o)
  BY DEF Asks
<1> QED
  BY <1>2, <1>3, <1>4 DEF Talks, Converses

\* An import begins for a client without export.
LEMMA ImportFor ==
  ASSUME NEW d, NEW o, Sound(d), Placed(d), d.failed = FALSE, d.polled = <<>>,
         NEW purpose \in Purposes,
         purpose # "restore" => d.export = NoExport,
         purpose = "restore" => d.project = NoProject /\ d.diagnosis = NoDiagnosis
                                /\ d.export.stage \in {"none", "cache"},
         Conversation(Line(d), d.export, d.import, o)
  PROVE  Talks(BeginImport(d, purpose), o)
<1> DEFINE r == BeginImport(d, purpose)
<1>1. Shape(d) /\ Wired(d)
  BY DEF Sound
<1>2. /\ Wired(r) /\ r.polled = d.polled /\ r.failed = d.failed /\ r.cache = d.cache
      /\ \A i, x : Conversation(Line(d), d.export, i, x) =>
                     Conversation(Line(r), d.export, r.import, x)
  BY <1>1, Beginning DEF Sound
<1>3. /\ View(r, d.export, d.project, d.diagnosis, r.import, d.events)
      /\ r.import.purpose = purpose
  BY <1>1, ImportBegun
<1> HIDE DEF r
<1>4. r.export = d.export /\ r.project = d.project /\ r.diagnosis = d.diagnosis
  BY <1>3 DEF View
<1>5. Placed(r)
  BY <1>2, <1>3, <1>4 DEF Placed
<1>6. Conversation(Line(r), r.export, r.import, o)
  BY <1>2, <1>4
<1>7. Talks(r, o)
  BY <1>2, <1>5, <1>6 DEF Talks, Converses
<1> QED
  BY <1>7 DEF r

\* What a client is that listens.
LEMMA Listened ==
  ASSUME NEW c, NEW o, Listens(c, o)
  PROVE  /\ Shape(c) /\ Wired(c) /\ Placed(c) /\ c.failed = FALSE /\ c.polled = <<>>
         /\ Conversation(Line(c), c.export, c.import, o)
         /\ c.export # NoExport => c.export.stage \in Stages
BY DEF Listens, Talks, Converses, Sound, Coherent, Shape, NoneIsNone

\* export_snapshot, export_input_replay.
LEMMA ManualTalks ==
  ASSUME NEW c, NEW o, Listens(c, o), c.export = NoExport, c.import = NoImport,
         Hushed(c, NoExport), NEW stage \in Manual, NEW disk
  PROVE  Talks(ManualExport(c, stage, disk), o)
<1>1. /\ Shape(c) /\ Wired(c) /\ Placed(c) /\ c.failed = FALSE /\ c.polled = <<>>
      /\ Conversation(Line(c), NoExport, NoImport, o) /\ Hushed(c, NoExport)
  BY Listened DEF Listens
<1>2. stage \in Stages /\ stage # "cache" /\ stage \in Events
  BY DEF Stages, Manual, Events, UserJobs
<1>3. CASE disk = "open"
  <2> DEFINE d == DropExport(c)
             r == Emit(d, stage)
  <2>1. ManualExport(c, stage, disk) = r
    BY <1>3 DEF ManualExport
  <2>2. Wanes(c, d) /\ Sound(d) /\ View(d, NoExport, c.project, c.diagnosis, c.import, c.events)
    BY <1>1, Waning, SoundLeft, GivingUp DEF Listens
  <2>3. Sound(c)
    BY DEF Listens
  <2> HIDE DEF d
  <2>4. Wanes(c, r) /\ r.export = NoExport /\ r.import = NoImport
    <3>1. Wanes(c, r) /\ r.export = d.export
      BY <1>2, <2>2, <2>3, Over
    <3>2. View(r, d.export, d.project, d.diagnosis, d.import, Append(d.events, stage))
      BY <1>2, <2>2, Words DEF View
    <3> QED
      BY <2>2, <3>1, <3>2 DEF View
  <2> HIDE DEF r
  <2> QED
    BY <1>1, <2>1, <2>4, Settled
<1>4. CASE disk # "open"
  <2> DEFINE r == Request(c, stage, 0)
  <2>1. ManualExport(c, stage, disk) = r
    BY <1>4 DEF ManualExport
  <2>2. Asks(c, r)
    BY <1>1, <1>2, Requesting
  <2>3. View(r, r.export, c.project, c.diagnosis, c.import, c.events) /\ r.export.stage = stage
    BY <1>1, <1>2, Requests
  <2> HIDE DEF r
  <2>4. r.import = NoImport
    BY <2>3 DEF View
  <2> QED
    BY <1>1, <1>2, <2>1, <2>2, <2>3, <2>4, AskedFor
<1> QED
  BY <1>3, <1>4

\* cancel_project_file_export.
LEMMA CancelTalks ==
  ASSUME NEW c, NEW o, Listens(c, o),
         c.project # NoProject => c.diagnosis = NoDiagnosis
  PROVE  Talks(CancelProject(c), o)
<1>1. /\ Shape(c) /\ Wired(c) /\ Placed(c) /\ c.failed = FALSE /\ c.polled = <<>>
      /\ Conversation(Line(c), c.export, c.import, o) /\ Coherent(c)
  BY Listened DEF Listens
<1>2. CASE c.export.stage # "project" /\ c.project = NoProject
  BY <1>2 DEF CancelProject, Listens
<1>3. CASE c.export.stage = "project" \/ c.project # NoProject
  <2> DEFINE d == Tell(c, "cancel", "project", 0)
             m == Message("cancel", 0, "project", 0)
             r == FinishProject(d, FALSE)
  <2>1. CancelProject(c) = r
    BY <1>3 DEF CancelProject
  <2>2. "cancel" \in Closings /\ "project" \in Kinds \cup {"none"} /\ 0 \in Nat /\ FALSE \in BOOLEAN
    BY DEF Closings, Kinds
  <2>3. Winds(c, d) /\ d.cache = c.cache /\ Grown(Line(c), Line(d), Len(Line(c)) + 1, m)
    BY <1>1, <2>2, Told
  <2>4. View(d, c.export, c.project, c.diagnosis, c.import, c.events)
    BY <1>1, Words
  <2>5. m.tag = "cancel" /\ m.id = 0 /\ m.kind = "project"
    BY DEF Message
  <2> HIDE DEF d, m
  <2>6. c.export # NoExport => c.export.stage = "project"
    <3>1. c.project # NoProject /\ c.diagnosis = NoDiagnosis
      BY <1>1, <1>3 DEF Coherent, Serves
    <3>2. c.export.stage \notin Manual
      BY <1>1, <3>1 DEF Coherent, ManualAlone
    <3>3. c.export.stage \notin DiagnosisStages
      BY <1>1, <3>1, DiagnosisHeld
    <3>4. c.export.stage # "cache"
      BY <1>1, <3>1 DEF Placed
    <3>5. c.export # NoExport => c.export.stage \in Stages
      BY Listened
    <3> QED
      BY <3>2, <3>3, <3>4, <3>5 DEF Stages
  <2>7. c.export # NoExport => Stops(m, Kind(c.export.stage))
    BY <2>2, <2>5, <2>6 DEF Stops, Kind
  <2>8. Conversation(Line(d), NoExport, NoImport, o)
    BY <1>1, <2>2, <2>3, <2>5, <2>7, ClosedForgotten
  <2>9. Sound(d) /\ Placed(d) /\ d.failed = FALSE /\ d.polled = <<>>
    BY <1>1, <2>3, <2>4 DEF Listens, Sound, View, Winds, Placed
  <2>10. \A s \in BOOLEAN :
           /\ Wanes(d, FinishProject(d, s))
           /\ FinishProject(d, s).export = NoExport
           /\ s = FALSE => FinishProject(d, s).import = NoImport
    <3>1. \A s \in BOOLEAN : Wanes(d, FinishProject(d, s))
      BY <2>9, Waning
    <3>2. Shape(d)
      BY <2>9 DEF Sound
    <3>3. \A s \in BOOLEAN : View(FinishProject(d, s), NoExport, NoProject, d.diagnosis,
                                  IF s THEN d.import ELSE NoImport, Append(d.events, "project"))
      BY <3>2, Endings
    <3> QED
      BY <3>1, <3>3 DEF View
  <2>11. Wanes(d, r) /\ r.export = NoExport /\ r.import = NoImport
    BY <2>2, <2>10
  <2> HIDE DEF r
  <2> QED
    BY <2>1, <2>8, <2>9, <2>11, Settled
<1> QED
  BY <1>2, <1>3

\* A game is replaced.
LEMMA TransitionTalks ==
  ASSUME NEW c, NEW o, Listens(c, o)
  PROVE  Talks(Transition(c), o)
<1> DEFINE r == Transition(c)
<1>1. /\ Shape(c) /\ Wired(c) /\ Placed(c) /\ c.failed = FALSE /\ c.polled = <<>>
      /\ Conversation(Line(c), c.export, c.import, o)
  BY Listened
<1>2. /\ View(r, NoExport, NoProject, NoDiagnosis, NoImport, r.events)
      /\ Wired(r) /\ r.polled = c.polled /\ r.failed = c.failed /\ r.cache.prepared = FALSE
      /\ c.export.stage = "cache" => r.cache.due = TRUE /\ r.cache.waiting = TRUE
      /\ c.export.stage # "cache" =>
           r.cache.due = c.cache.due /\ r.cache.waiting = c.cache.waiting
      /\ \A x, i, y : (x = NoExport \/ x = c.export) /\ Conversation(Line(c), x, i, y) =>
                        Conversation(Line(r), NoExport, NoImport, y)
  BY <1>1, Ceded
<1> HIDE DEF r
<1>3. Conversation(Line(r), NoExport, NoImport, o)
  BY <1>1, <1>2
<1>4. NoExport.stage = "none" /\ NoImport.purpose = "none"
  BY DEF NoExport, NoImport
<1>5. r.cache.due \in BOOLEAN /\ r.cache.waiting \in BOOLEAN /\ (Packaged => ~r.cache.due)
  BY <1>1, <1>2 DEF Placed
<1>6. Placed(r)
  BY <1>1, <1>2, <1>4, <1>5 DEF Placed, View
<1>7. Talks(r, o)
  BY <1>1, <1>2, <1>3, <1>6 DEF Talks, Converses, View
<1> QED
  BY <1>7 DEF r

\* begin_session_reset.
LEMMA ResetTalks ==
  ASSUME NEW c
  PROVE  Talks(ResetSession(c), {})
<1> DEFINE r == ResetSession(c)
<1>1. /\ r.export = NoExport /\ r.project = NoProject /\ r.diagnosis = NoDiagnosis
      /\ r.import = NoImport /\ r.cache = NoCache /\ r.sent = <<>> /\ r.polled = <<>>
      /\ r.failed = FALSE
  BY DEF ResetSession, NewClient
<1> HIDE DEF r
<1>2. Line(r) = <<>>
  BY <1>1 DEF Line
<1>3. Wired(r)
  BY <1>1 DEF Wired
<1>4. /\ NoExport.stage = "none" /\ NoImport.purpose = "none"
      /\ NoCache.due = FALSE /\ NoCache.waiting = FALSE /\ NoCache.prepared = FALSE
  BY DEF NoExport, NoImport, NoCache
<1>5. Placed(r)
  BY <1>1, <1>4 DEF Placed
<1>6. Talks(r, {})
  BY <1>1, <1>2, <1>3, <1>5, NothingSaid DEF Talks, Converses
<1> QED
  BY <1>6 DEF r

\* What differs from a client in what the runtime does not know listens as well.
LEMMA SameListens ==
  ASSUME NEW c, NEW d, NEW o, Sound(c), Placed(c), c.failed = FALSE, c.polled = <<>>,
         Conversation(Line(c), c.export, NoImport, o), c.import = NoImport,
         Shape(d), Same(c, d), d.export = c.export, d.import = c.import,
         d.project # NoProject => d.export = NoExport
  PROVE  /\ Sound(d) /\ Placed(d) /\ d.failed = FALSE /\ d.polled = <<>>
         /\ Conversation(Line(d), d.export, NoImport, o) /\ Talks(d, o)
         /\ \A x : Hushed(c, x) => Hushed(d, x)
<1>1. Line(d) = Line(c) /\ Wired(d)
  BY DEF Same, Line, Wired, Sound
<1>2. NoImport.purpose = "none" /\ NoExport.stage = "none"
  BY DEF NoImport, NoExport
<1>3. Sound(d)
  BY <1>1 DEF Sound
<1>4. Placed(d)
  BY <1>2 DEF Placed, Same
<1>5. d.failed = FALSE /\ d.polled = <<>>
  BY DEF Same
<1>6. Conversation(Line(d), d.export, NoImport, o)
  BY <1>1
<1>7. Talks(d, o)
  BY <1>1, <1>4, <1>5, <1>6 DEF Talks, Converses
<1> QED
  BY <1>1, <1>3, <1>4, <1>5, <1>6, <1>7 DEF Hushed

\* A project file or a diagnosis that ends twice has ended.
LEMMA EndsTwice ==
  ASSUME NEW d, NEW o, Sound(d), Placed(d), d.failed = FALSE, d.polled = <<>>,
         Conversation(Line(d), NoExport, NoImport, o), NEW success \in BOOLEAN, success = FALSE
  PROVE  /\ Talks(FinishProject(d, success), o)
         /\ Talks(FinishProject(FinishProject(d, success), success), o)
         /\ Talks(FinishDiagnosis(FinishDiagnosis(d, success), success), o)
<1> DEFINE p == FinishProject(d, success)
           q == FinishDiagnosis(d, success)
<1>1. Shape(d)
  BY DEF Sound
<1>2. ASSUME NEW w, Shape(w)
      PROVE  /\ FinishProject(w, success).export = NoExport
             /\ FinishProject(w, success).import = NoImport
             /\ FinishDiagnosis(w, success).export = NoExport
             /\ FinishDiagnosis(w, success).import = NoImport
  BY <1>2, Endings DEF View
<1>3. Wanes(d, p) /\ Wanes(d, q)
  BY Waning
<1>4. Sound(p) /\ Sound(q) /\ Shape(p) /\ Shape(q)
  BY <1>3, SoundLeft DEF Sound
<1>5. Talks(p, o)
  BY <1>1, <1>2, <1>3, Settled
<1> HIDE DEF p, q
<1>6. Wanes(d, FinishProject(p, success)) /\ Wanes(d, FinishDiagnosis(q, success))
  BY <1>3, <1>4, Over
<1>7. /\ FinishProject(p, success).export = NoExport
      /\ FinishProject(p, success).import = NoImport
      /\ FinishDiagnosis(q, success).export = NoExport
      /\ FinishDiagnosis(q, success).import = NoImport
  BY <1>2, <1>4
<1>8. Talks(FinishProject(p, success), o) /\ Talks(FinishDiagnosis(q, success), o)
  BY <1>6, <1>7, Settled
<1> QED
  BY <1>5, <1>8 DEF p, q

\* export_diagnosis.
LEMMA DiagnosisTalks ==
  ASSUME NEW c, NEW o, Listens(c, o), c.import = NoImport, c.diagnosis = NoDiagnosis,
         c.export = NoExport => Hushed(c, NoExport),
         NEW disk, disk # "folder", NEW r, r = ExportDiagnosis(c, disk)
  PROVE  Talks(r, o)
<1>1. /\ Shape(c) /\ Wired(c) /\ Placed(c) /\ c.failed = FALSE /\ c.polled = <<>>
      /\ Conversation(Line(c), c.export, NoImport, o) /\ Coherent(c) /\ Sound(c)
  BY Listened DEF Listens
<1> DEFINE made == Create(c, 0)
           diagnosis == [NoDiagnosis EXCEPT !.stage = "export_wait", !.folder = NewFile(c)]
           begun == [made EXCEPT !.diagnosis = diagnosis]
<1>2. r = IF c.export # NoExport THEN begun
          ELSE IF disk = "open" THEN FinishDiagnosis(FinishDiagnosis(begun, FALSE), FALSE)
          ELSE StartPart(begun, "replay", disk)
  BY DEF ExportDiagnosis
<1>3. Same(c, made) /\ View(made, c.export, c.project, c.diagnosis, c.import, c.events)
  BY <1>1, Silently, Files
<1>4. DOMAIN diagnosis = DOMAIN NoDiagnosis
  BY DEF NoDiagnosis
<1> HIDE DEF made, diagnosis
<1>5. Shape(begun) /\ Same(c, begun) /\ begun.export = c.export /\ begun.import = c.import
      /\ begun.project = c.project
  BY <1>3, <1>4 DEF View, Same, Shape, NewClient
<1> HIDE DEF begun
<1>6. CASE c.export # NoExport
  <2>1. begun.polled = <<>> /\ begun.failed = FALSE /\ Line(begun) = Line(c) /\ Wired(begun)
    BY <1>1, <1>5 DEF Same, Line, Wired
  <2>2. NoImport.purpose = "none"
    BY DEF NoImport
  <2>3. Placed(begun)
    BY <1>1, <1>5, <2>2 DEF Placed, Same
  <2>4. Conversation(Line(begun), begun.export, begun.import, o)
    BY <1>1, <1>5, <2>1
  <2> QED
    BY <1>2, <1>6, <2>1, <2>3, <2>4 DEF Talks, Converses
<1>7. ASSUME c.export = NoExport, NEW d, Shape(d), Same(c, d), d.export = NoExport,
             d.import = NoImport, d.project = c.project
      PROVE  /\ Sound(d) /\ Wired(d) /\ Placed(d) /\ d.failed = FALSE /\ d.polled = <<>>
             /\ Conversation(Line(d), NoExport, NoImport, o) /\ Hushed(d, NoExport)
  <2>1. Hushed(c, NoExport)
    BY <1>7 DEF Listens
  <2>2. d.export = c.export /\ d.import = c.import
    BY <1>7
  <2>3. d.project # NoProject => d.export = NoExport
    BY <1>7
  <2>4. /\ Sound(d) /\ Placed(d) /\ d.failed = FALSE /\ d.polled = <<>>
        /\ Conversation(Line(d), d.export, NoImport, o)
        /\ \A x : Hushed(c, x) => Hushed(d, x)
    BY <1>1, <1>7, <2>2, <2>3, SameListens
  <2>5. Wired(d)
    BY <2>4 DEF Sound
  <2> QED
    BY <1>7, <2>1, <2>4, <2>5
<1>8. CASE c.export = NoExport /\ disk = "open"
  <2>1. r = FinishDiagnosis(FinishDiagnosis(begun, FALSE), FALSE)
    BY <1>2, <1>8
  <2>2. \A s \in BOOLEAN : s = FALSE => Talks(FinishDiagnosis(FinishDiagnosis(begun, s), s), o)
    <3>1. /\ Sound(begun) /\ Placed(begun) /\ begun.failed = FALSE /\ begun.polled = <<>>
          /\ Conversation(Line(begun), NoExport, NoImport, o)
      BY <1>5, <1>7, <1>8
    <3> QED
      BY <3>1, EndsTwice
  <2> QED
    BY <2>1, <2>2
<1>9. CASE c.export = NoExport /\ disk # "open"
  <2> DEFINE d == [begun EXCEPT !.diagnosis.stage = "replay"]
             stage == Part("replay")
  <2>1. r = Request(d, stage, begun.diagnosis.folder)
    BY <1>2, <1>9 DEF StartPart
  <2>2. Shape(d) /\ Same(c, d) /\ d.export = NoExport /\ d.import = NoImport
        /\ d.project = c.project
    BY <1>5, <1>9 DEF Shape, NewClient, NoDiagnosis, Same
  <2>3. stage \in Stages /\ stage # "cache"
    BY DEF Part, Stages, DiagnosisStages
  <2> HIDE DEF d, stage
  <2>4. /\ Wired(d) /\ Placed(d) /\ d.failed = FALSE /\ d.polled = <<>>
        /\ Conversation(Line(d), NoExport, NoImport, o) /\ Hushed(d, NoExport)
    BY <1>7, <1>9, <2>2
  <2>5. Asks(d, r)
    BY <2>1, <2>2, <2>3, <2>4, Requesting
  <2>6. r.import = NoImport /\ r.export.stage = stage
    BY <2>1, <2>2, <2>3, Requests DEF View
  <2> QED
    BY <2>2, <2>3, <2>4, <2>5, <2>6, AskedFor
<1> QED
  BY <1>6, <1>8, <1>9

\* export_project_file.
LEMMA ProjectTalks ==
  ASSUME NEW c, NEW o, Listens(c, o), c.import = NoImport, c.diagnosis = NoDiagnosis,
         c.export = NoExport => Hushed(c, NoExport),
         c.project = NoProject, c.export.stage \notin Manual,
         NEW disk, NEW r, r = ExportProject(c, disk)
  PROVE  Talks(r, o)
<1>1. /\ Shape(c) /\ Wired(c) /\ Placed(c) /\ c.failed = FALSE /\ c.polled = <<>>
      /\ Conversation(Line(c), c.export, NoImport, o) /\ Coherent(c) /\ Sound(c)
      /\ c.export = NoExport => Hushed(c, NoExport)
  BY Listened DEF Listens
<1>2. c.export # NoExport => c.export.stage = "cache"
  <2>1. c.export.stage # "project" /\ c.export.stage \notin DiagnosisStages
    BY <1>1, DiagnosisHeld DEF Coherent, Serves
  <2>2. c.export # NoExport => c.export.stage \in Stages
    BY Listened
  <2> QED
    BY <2>1, <2>2 DEF Stages
<1> DEFINE w == Tell(c, "cancel", "cache", 0)
           dropped == DropExport(w)
           over == c.export.stage = "cache" \/ c.cache.prepared
           ready == IF over THEN Reschedule([dropped EXCEPT !.cache.prepared = FALSE]) ELSE c
           begun == [Create(ready, 0) EXCEPT !.project = [NoProject EXCEPT !.file = NewFile(ready)]]
<1>3. r = CASE disk = "open" -> FinishProject(ready, FALSE)
            [] disk = "manifest" /\ ~Packaged -> FinishProject(FinishProject(begun, FALSE), FALSE)
            [] OTHER -> IF Packaged THEN RequestProject(begun) ELSE BeginImport(begun, "project")
  BY DEF ExportProject
<1>4. /\ Sound(ready) /\ Placed(ready) /\ ready.failed = FALSE /\ ready.polled = <<>>
      /\ ready.export = NoExport /\ ready.import = NoImport
      /\ Conversation(Line(ready), NoExport, NoImport, o)
      /\ Packaged => Hushed(ready, NoExport)
  <2>1. CASE ~over
    <3>1. ready = c
      BY <2>1
    <3> HIDE DEF ready
    <3>2. c.export = NoExport
      BY <1>2, <2>1
    <3> QED
      BY <1>1, <3>1, <3>2
  <2>2. CASE over
    <3> DEFINE m == Message("cancel", 0, "cache", 0)
    <3>1. "cancel" \in Closings /\ "cache" \in Kinds \cup {"none"} /\ 0 \in Nat
      BY DEF Closings, Kinds
    <3>2. Winds(c, w) /\ w.cache = c.cache /\ Grown(Line(c), Line(w), Len(Line(c)) + 1, m)
      BY <1>1, <3>1, Told
    <3>3. View(w, c.export, c.project, c.diagnosis, c.import, c.events)
      BY <1>1, Words
    <3>4. m.tag = "cancel" /\ m.id = 0 /\ m.kind = "cache"
      BY DEF Message
    <3> HIDE DEF m, w
    <3>5. c.export # NoExport => Stops(m, Kind(c.export.stage))
      BY <1>2, <3>1, <3>4 DEF Stops, Kind, Manual, DiagnosisStages
    <3>6. Conversation(Line(w), NoExport, NoImport, o)
      BY <1>1, <3>1, <3>2, <3>4, <3>5, ClosedForgotten
    <3>7. Same(w, dropped) /\ View(dropped, NoExport, c.project, c.diagnosis, c.import, c.events)
      BY <3>3, Silently, GivingUp DEF View
    <3>8. ready = Reschedule([dropped EXCEPT !.cache.prepared = FALSE])
      BY <2>2
    <3>9. ~Packaged
      BY <1>1, <2>2 DEF Placed
    <3> HIDE DEF dropped, ready, over
    <3>10. /\ Shape(ready) /\ ready.sent = w.sent /\ ready.polled = w.polled
           /\ ready.failed = w.failed /\ ready.export = NoExport /\ ready.import = NoImport
           /\ ready.project = NoProject /\ ready.diagnosis = NoDiagnosis
           /\ ready.cache.due = TRUE /\ ready.cache.waiting = TRUE /\ ready.cache.prepared = FALSE
      BY <3>7, <3>8 DEF Reschedule, View, Same, Shape, NewClient, NoCache
    <3>11. Line(ready) = Line(w) /\ Wired(ready) /\ ready.failed = FALSE /\ ready.polled = <<>>
      BY <1>1, <3>2, <3>10 DEF Line, Wired, Winds
    <3>12. NoExport.transfer = 0 /\ NoImport.transfer = 0 /\ NoImport.purpose = "none"
           /\ NoExport.stage = "none"
      BY DEF NoExport, NoImport
    <3>13. Sound(ready)
      BY <3>1, <3>10, <3>11, <3>12 DEF Sound
    <3>14. Placed(ready)
      BY <3>9, <3>10, <3>11, <3>12 DEF Placed
    <3> QED
      BY <3>6, <3>9, <3>10, <3>11, <3>13, <3>14
  <2> QED
    BY <2>1, <2>2
<1> HIDE DEF ready
<1>5. /\ Sound(begun) /\ Placed(begun) /\ begun.failed = FALSE /\ begun.polled = <<>>
      /\ begun.export = NoExport /\ begun.import = NoImport /\ begun.project # NoProject
      /\ Conversation(Line(begun), NoExport, NoImport, o)
      /\ Packaged => Hushed(begun, NoExport)
  <2> DEFINE made == Create(ready, 0)
             project == [NoProject EXCEPT !.file = NewFile(ready)]
  <2>1. Shape(ready)
    BY <1>4 DEF Sound
  <2>2. Same(ready, made)
        /\ View(made, NoExport, ready.project, ready.diagnosis, NoImport, ready.events)
    BY <1>4, <2>1, Silently, Files
  <2>3. DOMAIN project = DOMAIN NoProject /\ project # NoProject
    <3>1. NewFile(ready) # 0
      BY <2>1, FileNumber
    <3>2. project.file = NewFile(ready) /\ NoProject.file = 0 /\ DOMAIN project = DOMAIN NoProject
      BY DEF NoProject
    <3> HIDE DEF project
    <3> QED
      BY <3>1, <3>2
  <2>4. begun = [made EXCEPT !.project = project]
    OBVIOUS
  <2> HIDE DEF made, project, begun
  <2>5. Shape(begun) /\ Same(ready, begun) /\ begun.export = NoExport /\ begun.import = NoImport
        /\ begun.project = project
    BY <2>2, <2>3, <2>4 DEF View, Same, Shape, NewClient
  <2>6. ready.project # NoProject \/ begun.project # NoProject
    BY <2>3, <2>5
  <2>7. Shape(begun) /\ Same(ready, begun) /\ begun.export = ready.export
        /\ begun.import = ready.import /\ begun.export = NoExport
    BY <1>4, <2>5
  <2>8. /\ Sound(ready) /\ Placed(ready) /\ ready.failed = FALSE /\ ready.polled = <<>>
        /\ ready.import = NoImport /\ Conversation(Line(ready), ready.export, NoImport, o)
    BY <1>4
  <2>9. /\ Sound(begun) /\ Placed(begun) /\ begun.failed = FALSE /\ begun.polled = <<>>
        /\ Conversation(Line(begun), begun.export, NoImport, o)
        /\ \A x : Hushed(ready, x) => Hushed(begun, x)
    BY <2>7, <2>8, SameListens
  <2> QED
    BY <1>4, <2>3, <2>5, <2>9
<1> HIDE DEF begun
<1>6. \A s \in BOOLEAN : s = FALSE => /\ Talks(FinishProject(ready, s), o)
                                      /\ Talks(FinishProject(FinishProject(begun, s), s), o)
  BY <1>4, <1>5, EndsTwice
<1>7. CASE disk = "open"
  <2>1. r = FinishProject(ready, FALSE)
    BY <1>3, <1>7
  <2> QED
    BY <1>6, <2>1
<1>8. CASE disk = "manifest" /\ ~Packaged
  <2>1. r = FinishProject(FinishProject(begun, FALSE), FALSE)
    BY <1>3, <1>8
  <2> QED
    BY <1>6, <2>1
<1>9. CASE r = RequestProject(begun) /\ Packaged
  <2>1. Shape(begun) /\ Wired(begun) /\ Hushed(begun, NoExport)
    BY <1>5, <1>9 DEF Sound
  <2>2. Asks(begun, r)
    BY <1>5, <1>9, <2>1, Requesting
  <2>3. r.import = NoImport /\ r.export.stage = "project"
    BY <1>5, <1>9, <2>1, ProjectRequest DEF View
  <2> QED
    BY <1>5, <2>2, <2>3, AskedFor
<1>10. CASE r = BeginImport(begun, "project")
  <2>1. "project" \in Purposes
    BY DEF Purposes
  <2> QED
    BY <1>5, <1>10, <2>1, ImportFor
<1> QED
  BY <1>3, <1>7, <1>8, <1>9, <1>10
\* Every command of the app, given when it can begin at once.
LEMMA ProcessTalks ==
  ASSUME NEW c, NEW o, Listens(c, o), NEW command \in Commands, NEW disk, disk # "folder",
         command \in UserJobs => c.import = NoImport /\ (c.export = NoExport => Hushed(c, NoExport)),
         command \in Manual => c.export = NoExport,
         command = "project" => Free(c),
         command = "diagnosis" => c.diagnosis = NoDiagnosis,
         command = "cancel" => c.project = NoProject \/ c.diagnosis = NoDiagnosis,
         command = "restore" => \A job \in UserJobs : ~Runs(c, job),
         NEW r, r = Process(c, command, disk)
  PROVE  Talks(r, IF command = "restart" THEN {} ELSE o)
<1>1. CASE command \in Manual
  <2>1. r = ManualExport(c, command, disk) /\ command \in UserJobs /\ command # "restart"
    BY <1>1 DEF Process, Manual, UserJobs
  <2> QED
    BY <1>1, <2>1, ManualTalks
<1>2. CASE command = "project"
  <2>1. r = ExportProject(c, disk) /\ command \in UserJobs
    BY <1>2 DEF Process, Manual, UserJobs
  <2>2. c.project = NoProject /\ c.diagnosis = NoDiagnosis /\ c.export.stage \notin Manual
    BY <1>2 DEF Free, Manual
  <2> QED
    BY <1>2, <2>1, <2>2, ProjectTalks
<1>3. CASE command = "diagnosis"
  <2>1. r = ExportDiagnosis(c, disk) /\ command \in UserJobs
    BY <1>3 DEF Process, Manual, UserJobs
  <2> QED
    BY <1>3, <2>1, DiagnosisTalks
<1>4. CASE command = "cancel"
  <2>1. r = CancelProject(c)
    BY <1>4 DEF Process, Manual
  <2> QED
    BY <1>4, <2>1, CancelTalks
<1>5. CASE command = "restore"
  <2>1. r = BeginImport(c, "restore")
    BY <1>5 DEF Process, Manual
  <2>2. c.export.stage \notin Manual /\ c.project = NoProject /\ c.diagnosis = NoDiagnosis
    BY <1>5 DEF Runs, UserJobs, Manual
  <2>3. c.export.stage \in {"none", "cache"}
    BY <2>2 DEF Listens, Coherent, Shape, Serves, Stages, Manual, DiagnosisStages, NoDiagnosis
  <2>4. Sound(c) /\ Placed(c) /\ c.failed = FALSE /\ c.polled = <<>>
        /\ Conversation(Line(c), c.export, c.import, o) /\ "restore" \in Purposes
    BY Listened DEF Listens, Purposes
  <2>5. Talks(BeginImport(c, "restore"), o)
    BY <2>2, <2>3, <2>4, ImportFor
  <2> QED
    BY <1>5, <2>1, <2>5
<1>6. CASE command = "title"
  <2>1. r = Transition(c)
    BY <1>6 DEF Process, Manual
  <2> QED
    BY <1>6, <2>1, TransitionTalks
<1>7. CASE command = "restart"
  <2>1. r = ResetSession(c)
    BY <1>7 DEF Process, Manual
  <2> QED
    BY <1>7, <2>1, ResetTalks
<1> QED
  BY <1>1, <1>2, <1>3, <1>4, <1>5, <1>6, <1>7 DEF Commands, UserJobs, Manual
-----------------------------------------------------------------------------
(* The worker *)

\* A client that converses knows its transfers.
LEMMA Sounds ==
  ASSUME NEW c, NEW o, Coherent(c), Converses(c, o)
  PROVE  Sound(c)
<1>1. Numbered(Line(c), c.export, c.import) /\ Wired(c)
  BY DEF Converses, Conversation
<1>2. c.export.transfer \in Nat /\ c.import.transfer \in Nat
  BY <1>1 DEF Numbered
<1> QED
  BY <1>1, <1>2 DEF Sound, Coherent

\* Taking the first command leaves the others in their order, and no job among them.
LEMMA CommandTaken ==
  ASSUME FirstCommand, commands # <<>>, commands' = Tail(commands)
  PROVE  /\ 1 \in DOMAIN commands /\ commands[1] = Head(commands)
         /\ Pending(Head(commands)) /\ Head(commands) \in Commands
         /\ \A job \in UserJobs : ~Pending(job)'
         /\ \A any : Pending(any)' => Pending(any)
         /\ \A p \in DOMAIN commands' : /\ p \in Nat \ {0} /\ p + 1 \in DOMAIN commands
                                        /\ commands'[p] = commands[p + 1]
         /\ \A q \in DOMAIN commands : q # 1 => q - 1 \in DOMAIN commands'
                                                /\ commands'[q - 1] = commands[q]
<1>1. /\ commands' \in Seq(Commands) /\ Head(commands) \in In(commands)
      /\ Head(commands) \in Commands /\ In(commands) = In(commands') \cup {Head(commands)}
  BY CommandQueue DEF FirstCommand
<1>2. /\ 1 \in DOMAIN commands /\ commands[1] = Head(commands)
      /\ \A p \in DOMAIN commands' : /\ p \in Nat \ {0} /\ p + 1 \in DOMAIN commands
                                     /\ commands'[p] = commands[p + 1]
      /\ \A q \in DOMAIN commands : q # 1 => q - 1 \in DOMAIN commands'
                                             /\ commands'[q - 1] = commands[q]
  BY DEF FirstCommand
<1>3. \A p \in DOMAIN commands' : commands'[p] \notin UserJobs
  <2>1. SUFFICES ASSUME NEW p \in DOMAIN commands' PROVE commands'[p] \notin UserJobs
    OBVIOUS
  <2>2. p + 1 \in DOMAIN commands /\ commands'[p] = commands[p + 1] /\ p + 1 # 1
    BY <1>2
  <2> QED
    BY <2>2 DEF FirstCommand
<1>4. \A job \in UserJobs : ~Pending(job)'
  BY <1>3 DEF Pending, In
<1> QED
  BY <1>1, <1>2, <1>4 DEF Pending

\* What the commands are given into lets them begin at once.
LEMMA CommandFits ==
  ASSUME Orderly, Ready, RestoreWaits, commands # <<>>, NEW command, command = Head(commands)
  PROVE  /\ command \in Commands
         /\ command \in UserJobs => /\ client.import = NoImport
                                    /\ client.export = NoExport => Hushed(client, NoExport)
                                    /\ ~Ending(client, command)
         /\ command \in Manual => client.export = NoExport
         /\ command \in UserJobs \ {"diagnosis"} => Free(client)
         /\ command = "diagnosis" => client.diagnosis = NoDiagnosis
         /\ command = "cancel" => client.project = NoProject \/ client.diagnosis = NoDiagnosis
         /\ command = "restore" => \A job \in UserJobs : ~Runs(client, job)
<1>1. command \in Commands /\ Pending(command) /\ 1 \in DOMAIN commands /\ commands[1] = command
      /\ commands \in Seq(Commands)
  BY CommandQueue DEF Orderly, FirstCommand, Pending
<1>2. Manual \subseteq UserJobs /\ "diagnosis" \in UserJobs /\ "cancel" \notin UserJobs
  BY DEF Manual, UserJobs
<1>3. command \in UserJobs => /\ client.import = NoImport
                              /\ client.export = NoExport => Hushed(client, NoExport)
                              /\ ~Ending(client, command)
  BY <1>1 DEF Ready, Silent, Hushed, Orderly, Shown
<1>4. command \in Manual => client.export = NoExport
  BY <1>1 DEF Ready
<1>5. command \in UserJobs \ {"diagnosis"} => Free(client)
  BY <1>1, FreeClient DEF Orderly, Alone
<1>6. command = "diagnosis" => client.diagnosis = NoDiagnosis
  BY <1>1, <1>2 DEF Orderly, Alone, Runs, Manual
<1>7. command = "cancel" => client.project = NoProject \/ client.diagnosis = NoDiagnosis
  BY <1>1 DEF Ready, Runs, Manual
<1>8. command = "restore" => \A job \in UserJobs : ~Runs(client, job)
  <2>1. \A q \in DOMAIN commands : ~(q < 1)
    BY <1>1
  <2> QED
    BY <1>1, <2>1 DEF RestoreWaits
<1> QED
  BY <1>1, <1>3, <1>4, <1>5, <1>6, <1>7, <1>8

\* A command is processed.
LEMMA ProcessGoes ==
  ASSUME JobInv, TalkInv, "folder" \notin DiskFailures, ProcessCommand
  PROVE  TalkInv' /\ pc' # "closed"
<1>1. /\ pc = "commands" /\ Orderly /\ commands # <<>> /\ commands' = Tail(commands)
      /\ UNCHANGED app /\ open' = IF Head(commands) = "restart" THEN {} ELSE open
  BY DEF JobInv, ProcessCommand
<1>2. /\ Converses(client, open) /\ client.failed = FALSE /\ client.polled = <<>>
      /\ Ready /\ RestoreWaits /\ Coherent(client)
  BY <1>1 DEF TalkInv, Pumped, Orderly
<1> DEFINE command == Head(commands)
<1>3. PICK disk \in Disks : Continue(Process(client, command, disk), "commands")
  BY DEF ProcessCommand
<1>4. disk # "folder"
  BY DEF Disks
<1>5. Listens(client, open)
  BY <1>2, Sounds DEF Listens, Talks
<1> DEFINE r == Process(client, command, disk)
<1>6. Talks(r, open')
  <2>1. Talks(r, IF command = "restart" THEN {} ELSE open)
    <3>1. command = "project" => Free(client)
      BY <1>1, <1>2, CommandFits DEF UserJobs
    <3> QED
      BY <1>1, <1>2, <1>4, <1>5, <3>1, CommandFits, ProcessTalks
  <2> QED
    BY <1>1, <2>1
<1>7. r.failed = TRUE \/ /\ Steps(client, r, {command})
                         /\ command = "cancel" => ~Runs(r, "project")
                         /\ command \in {"title", "restart"} => \A job \in UserJobs : ~Runs(r, job)
  BY <1>1, <1>2, <1>4, CommandFits, ProcessSteps
<1> HIDE DEF r
<1>8. client' = r /\ pc' = "commands" /\ r.failed = FALSE
  BY <1>3, <1>6 DEF Continue, Talks, r
<1>9. /\ \A job \in UserJobs : ~Pending(job)'
      /\ \A any : Pending(any)' => Pending(any)
      /\ Pending(command)
  BY <1>1, CommandTaken DEF Orderly
<1>10. \A job \in UserJobs : Runs(r, job) => Runs(client, job) \/ Pending(job)
  BY <1>7, <1>8, <1>9 DEF Steps
<1>11. Ready'
  <2>1. Manual \subseteq UserJobs /\ {"diagnosis", "project"} \subseteq UserJobs
    BY DEF Manual, UserJobs
  <2>2. Runs(r, "diagnosis") /\ Runs(r, "project") => app.fatal /\ ~Pending("cancel")
    BY <1>2, <1>10, <2>1 DEF Ready
  <2> QED
    BY <1>1, <1>8, <1>9, <2>1, <2>2 DEF Ready
<1>12. RestoreWaits'
  <2>1. SUFFICES ASSUME NEW p \in DOMAIN commands', commands'[p] = "restore",
                        NEW job \in UserJobs, Runs(r, job)
                 PROVE  \E q \in DOMAIN commands' :
                          /\ q < p
                          /\ \/ commands'[q] \in {"title", "restart"}
                             \/ job = "project" /\ commands'[q] = "cancel"
    BY <1>8, <1>9 DEF RestoreWaits
  <2>2. p \in Nat \ {0} /\ p + 1 \in DOMAIN commands /\ commands[p + 1] = "restore"
    BY <1>1, <2>1, CommandTaken DEF Orderly
  <2>3. PICK q \in DOMAIN commands :
          /\ q < p + 1
          /\ commands[q] \in {"title", "restart"} \/ (job = "project" /\ commands[q] = "cancel")
    BY <1>2, <1>10, <2>1, <2>2 DEF RestoreWaits
  <2>4. q # 1
    <3>1. commands[1] = command
      BY <1>1, CommandTaken DEF Orderly
    <3>2. command \notin {"title", "restart"} /\ (job = "project" => command # "cancel")
      BY <1>7, <1>8, <2>1
    <3> QED
      BY <2>3, <3>1, <3>2
  <2>5. q - 1 \in DOMAIN commands' /\ commands'[q - 1] = commands[q] /\ q \in Nat
    BY <1>1, <2>4, CommandTaken DEF Orderly, FirstCommand
  <2> QED
    BY <2>2, <2>3, <2>5
<1>13. Pumped'
  BY <1>6, <1>8 DEF Pumped, Talks
<1> QED
  BY <1>6, <1>8, <1>11, <1>12, <1>13 DEF TalkInv, Talks

\* What the line holds of either queue.
LEMMA InLine ==
  ASSUME NEW c, Wired(c)
  PROVE  /\ \A p \in DOMAIN c.sent : \E q \in DOMAIN Line(c) : Line(c)[q] = c.sent[p]
         /\ \A x : Hushed(c, x) => Calm(c)
<1>1. c.polled \in Seq(Messages) /\ c.sent \in Seq(Messages)
  BY Lines
<1>2. \A p \in DOMAIN c.sent : \E q \in DOMAIN Line(c) : Line(c)[q] = c.sent[p]
  <2>1. SUFFICES ASSUME NEW p \in DOMAIN c.sent
                 PROVE  \E q \in DOMAIN Line(c) : Line(c)[q] = c.sent[p]
    OBVIOUS
  <2> DEFINE P == c.polled
             S == c.sent
  <2>2. P \in Seq(Messages) /\ S \in Seq(Messages) /\ p \in DOMAIN S
    BY <1>1
  <2> HIDE DEF P, S
  <2>3. Len(P) + p \in DOMAIN (P \o S) /\ (P \o S)[Len(P) + p] = S[p]
    BY <2>2
  <2> QED
    BY <2>3 DEF Line, P, S
<1>3. \A x : Hushed(c, x) => Calm(c)
  BY <1>2 DEF Hushed, Calm, About, Requested, Streamed
<1> QED
  BY <1>2, <1>3

\* Commands that wait find the jobs they found before, or fewer.
LEMMA RestoreStillWaits ==
  ASSUME RestoreWaits, UNCHANGED commands,
         \A job \in UserJobs : Runs(client', job) => Runs(client, job)
  PROVE  RestoreWaits'
BY DEF RestoreWaits, Pending

\* An output is handled.
LEMMA HandleGoes ==
  ASSUME JobInv, TalkInv, HandleOutput
  PROVE  /\ TalkInv'
         /\ pc' = "closed" => \E disk \in Disks : disk # "fine" /\ Spend(disk)
<1>1. /\ pc = "polling" /\ Orderly /\ UNCHANGED <<app, open>> /\ client.polled # <<>>
      /\ commands' = IF pc' = "closed" THEN <<>> ELSE commands
  BY DEF JobInv, HandleOutput
<1>2. /\ Converses(client, open) /\ client.failed = FALSE /\ Ready /\ RestoreWaits
      /\ Coherent(client) /\ Pumped
  BY <1>1 DEF TalkInv, Orderly
<1> DEFINE c == [client EXCEPT !.polled = Tail(client.polled)]
           m == Head(client.polled)
<1>3. PICK disk \in Disks : Continue(Handle(c, m, disk), "polling") /\ Spend(disk)
  BY DEF HandleOutput
<1>4. Hears(client, c, m, open)
  BY <1>1, <1>2 DEF Hears
<1> HIDE DEF c, m
<1> DEFINE r == Handle(c, m, disk)
<1>5. (r.failed = TRUE /\ disk # "fine") \/ Heard(c, r, open)
  BY <1>4, HandleHeard
<1>6. Coherent(c) /\ m.tag \in Outputs
  BY <1>4, Listening
<1>7. r.failed = TRUE \/ Steps(c, r, {})
  BY <1>6, HandleSteps
<1> HIDE DEF r
<1>8. CASE r.failed = TRUE /\ disk # "fine"
  <2>1. pc' = "closed"
    BY <1>3, <1>8 DEF Continue, r
  <2> QED
    BY <1>3, <1>8, <2>1 DEF TalkInv
<1>9. CASE Heard(c, r, open)
  <2>1. client' = r /\ pc' = "polling" /\ r.failed = FALSE /\ commands' = commands
    BY <1>1, <1>3, <1>9 DEF Continue, Heard, r
  <2>2. /\ View(c, client.export, client.project, client.diagnosis, client.import, client.events)
        /\ Wired(c) /\ c.sent = client.sent /\ c.cache = client.cache
        /\ \E h, f : /\ Thinned(Line(client), Line(c), h, f) /\ Line(client)[h] = m
              /\ \A p \in DOMAIN Line(client) : ~(p < h)
    BY <1>4, Hearing
  <2>3. /\ c.export = client.export /\ c.project = client.project
        /\ c.diagnosis = client.diagnosis /\ c.import = client.import
    BY <2>2 DEF View
  <2>4. Hushed(client, NoExport) => Hushed(c, NoExport)
    <3>1. PICK h, f : /\ Thinned(Line(client), Line(c), h, f) /\ Line(client)[h] = m
                      /\ \A p \in DOMAIN Line(client) : ~(p < h)
      BY <2>2
    <3> QED
      BY <3>1 DEF Thinned, Hushed
  <2>5. \A job \in UserJobs : Runs(r, job) => Runs(client, job)
    <3>1. \A job \in UserJobs : Runs(r, job) => Runs(c, job)
      BY <1>7, <2>1 DEF Steps
    <3> QED
      BY <2>3, <3>1 DEF Runs
  <2>6. Converses(r, open)
    BY <1>9 DEF Heard, Converses
  <2>7. Manual \subseteq UserJobs /\ {"diagnosis", "project"} \subseteq UserJobs
    BY DEF Manual, UserJobs
  <2>8. ASSUME NEW job \in UserJobs, Pending(job)
        PROVE  /\ client.import = NoImport /\ client.diagnosis = NoDiagnosis
               /\ r.import = NoImport
    <3>1. client.import = NoImport
      BY <1>2, <2>8 DEF Ready
    <3>2. ~Runs(client, "diagnosis")
      BY <1>1, <2>7, <2>8 DEF Orderly, Alone
    <3>3. client.diagnosis = NoDiagnosis
      BY <3>2 DEF Runs, Manual
    <3> QED
      BY <1>9, <2>3, <3>1, <3>3 DEF Heard
  <2>9. ASSUME NEW job \in UserJobs, Pending(job), r.export = NoExport
        PROVE  Hushed(r, NoExport)
    <3>1. client.export = NoExport => Hushed(client, NoExport)
      BY <1>2, <2>9 DEF Ready, Silent, Hushed
    <3> QED
      BY <1>9, <2>3, <2>4, <2>8, <2>9, <3>1 DEF Heard
  <2>10. ASSUME NEW job \in Manual, Pending(job)
         PROVE  r.export = NoExport /\ ~r.cache.due
    <3>1. client.export = NoExport /\ ~client.cache.due
      BY <1>2, <2>10 DEF Ready
    <3>2. client.import = NoImport
      BY <2>7, <2>8, <2>10
    <3> QED
      BY <1>9, <2>2, <2>3, <3>1, <3>2 DEF Heard
  <2>11. Ready'
    <3>1. \A any : Pending(any)' <=> Pending(any)
      BY <2>1 DEF Pending
    <3>2. \A job \in UserJobs : Pending(job) =>
            r.import = NoImport /\ (r.export = NoExport => Silent(r))
      BY <2>8, <2>9 DEF Silent, Hushed
    <3>3. \A job \in Manual : Pending(job) => r.export = NoExport /\ ~r.cache.due
      BY <2>10
    <3>4. (Runs(r, "diagnosis") \/ Pending("diagnosis"))
            /\ (Runs(r, "project") \/ Pending("project")) => app.fatal /\ ~Pending("cancel")
      BY <1>2, <2>5, <2>7 DEF Ready
    <3> QED
      BY <1>1, <2>1, <3>1, <3>2, <3>3, <3>4 DEF Ready
  <2>12. RestoreWaits'
    BY <1>2, <2>1, <2>5, RestoreStillWaits
  <2>13. ASSUME r.export = NoExport, ~Calm(r)
         PROVE  /\ r.project = NoProject /\ r.diagnosis = NoDiagnosis
                /\ r.import = NoImport /\ (r.cache.due => r.cache.waiting)
    <3>1. ~Hushed(r, NoExport)
      BY <1>9, <2>13, InLine DEF Heard
    <3>2. CASE client.export = NoExport /\ ~Calm(client)
      <4>1. /\ client.project = NoProject /\ client.diagnosis = NoDiagnosis
            /\ client.import = NoImport /\ (client.cache.due => client.cache.waiting)
        BY <1>1, <1>2, <3>2 DEF Pumped, Calm
      <4>2. r.project = NoProject /\ r.diagnosis = NoDiagnosis
        BY <2>5, <2>7, <4>1 DEF Runs, Manual
      <4>3. r.import = NoImport /\ r.cache.due = c.cache.due /\ r.cache.waiting = c.cache.waiting
        BY <1>9, <2>3, <3>2, <4>1 DEF Heard
      <4> QED
        BY <2>2, <4>1, <4>2, <4>3
    <3>3. CASE ~(client.export = NoExport /\ ~Calm(client))
      <4>1. ~(c.export = NoExport /\ (Calm(c) => Calm(r)))
        BY <2>2, <2>3, <2>13, <3>3 DEF Calm
      <4> QED
        BY <1>9, <2>13, <3>1, <4>1 DEF Heard
    <3> QED
      BY <3>2, <3>3
  <2>14. Pumped'
    BY <2>1, <2>13 DEF Pumped, Calm
  <2> QED
    BY <1>1, <2>1, <2>6, <2>11, <2>12, <2>14 DEF TalkInv
<1> QED
  BY <1>5, <1>8, <1>9

\* The worker looks for postponed work.
LEMMA RefreshGoes ==
  ASSUME JobInv, TalkInv, MaybeRefresh
  PROVE  /\ TalkInv'
         /\ pc' = "closed" => \E disk \in Disks : disk # "fine" /\ Spend(disk)
<1>1. /\ pc = "refreshing" /\ Orderly /\ UNCHANGED <<app, open>>
      /\ commands' = IF pc' = "closed" THEN <<>> ELSE commands
  BY DEF JobInv, MaybeRefresh
<1>2. /\ Converses(client, open) /\ client.failed = FALSE /\ Ready /\ RestoreWaits
      /\ Coherent(client) /\ Pumped /\ client.polled = <<>>
  BY <1>1 DEF TalkInv, Orderly, Pumped
<1>3. PICK disk \in Disks : Continue(Refresh(client, disk), "commands") /\ Spend(disk)
  BY DEF MaybeRefresh
<1> DEFINE r == Refresh(client, disk)
<1>4. (r.failed = TRUE /\ disk # "fine") \/ Sought(client, r, open)
  <2>1. client.export = NoExport
          /\ (\E p \in DOMAIN client.sent : client.sent[p].tag \in {"export", "read"}) =>
            client.project = NoProject /\ client.diagnosis = NoDiagnosis
              /\ (client.cache.due => client.cache.waiting)
    BY <1>1, <1>2 DEF Pumped
  <2> QED
    BY <1>2, <2>1, RefreshSeeks
<1>5. r.failed = TRUE \/ Steps(client, r, {})
  BY <1>2, RefreshSteps
<1> HIDE DEF r
<1>6. CASE r.failed = TRUE /\ disk # "fine"
  <2>1. pc' = "closed"
    BY <1>3, <1>6 DEF Continue, r
  <2> QED
    BY <1>3, <1>6, <2>1 DEF TalkInv
<1>7. CASE Sought(client, r, open)
  <2>1. client' = r /\ pc' = "commands" /\ r.failed = FALSE /\ commands' = commands
    BY <1>1, <1>3, <1>7 DEF Continue, Sought, r
  <2>2. \A job \in UserJobs : Runs(r, job) => Runs(client, job)
    BY <1>5, <2>1 DEF Steps
  <2>3. Manual \subseteq UserJobs /\ {"diagnosis", "project"} \subseteq UserJobs
    BY DEF Manual, UserJobs
  <2>4. Ready'
    <3>1. \A any : Pending(any)' <=> Pending(any)
      BY <2>1 DEF Pending
    <3>2. \A job \in UserJobs : Pending(job) =>
            r.import = NoImport /\ (r.export = NoExport => Silent(r))
      BY <1>2, <1>7 DEF Ready, Sought
    <3>3. ASSUME NEW job \in Manual, Pending(job)
          PROVE  r.export = NoExport /\ ~r.cache.due
      <4>1. client.export = NoExport /\ ~client.cache.due
        BY <1>2, <3>3 DEF Ready
      <4>2. \A other \in UserJobs : ~Runs(client, other)
        BY <1>1, <2>3, <3>3 DEF Orderly, Alone, Manual
      <4>3. client.project = NoProject /\ client.diagnosis = NoDiagnosis
        BY <2>3, <4>2 DEF Runs, Manual
      <4> QED
        BY <1>7, <4>1, <4>3 DEF Sought
    <3>4. (Runs(r, "diagnosis") \/ Pending("diagnosis"))
            /\ (Runs(r, "project") \/ Pending("project")) => app.fatal /\ ~Pending("cancel")
      BY <1>2, <2>2, <2>3 DEF Ready
    <3> QED
      BY <1>1, <2>1, <3>1, <3>2, <3>3, <3>4 DEF Ready
  <2>5. RestoreWaits'
    BY <1>2, <2>1, <2>2, RestoreStillWaits
  <2>6. Pumped' /\ Converses(r, open)
    BY <1>7, <2>1 DEF Pumped, Sought
  <2> QED
    BY <1>1, <2>1, <2>4, <2>5, <2>6 DEF TalkInv
<1> QED
  BY <1>4, <1>6, <1>7

-----------------------------------------------------------------------------
(* The runtime *)

\* What the runtime holds open is an export with its chunks.
Opened ==
  \A e \in open : DOMAIN e = {"id", "kind", "chunks"} /\ e.kind \in Kinds \cup {"none"}

\* The message the runtime consumes, where it stands, and what takes its place.
Meets(m, h) ==
  /\ h \in DOMAIN Line(client) /\ Line(client)[h] = m
  /\ m \in Messages /\ m.tag \in Inputs
  /\ \A p \in DOMAIN Line(client) : p < h => Line(client)[p].tag \in Outputs
  /\ \A p \in DOMAIN Line(client) : p \in Nat

\* A message is consumed with an answer or without.
LEMMA Replies ==
  ASSUME Shape(client), Wired(client), client.sent # <<>>
  PROVE  LET m == Head(client.sent)
             h == Len(client.polled) + 1
         IN  /\ Meets(m, h)
             /\ \A stillOpen : Reply(<<>>, stillOpen) =>
                  /\ Wired(client') /\ open' = stillOpen
                  /\ \E f : Thinned(Line(client), Line(client'), h, f)
             /\ \A r \in Messages : \A stillOpen :
                  r.tag \in Outputs /\ Reply(<<r>>, stillOpen) =>
                    /\ Wired(client') /\ open' = stillOpen
                    /\ Exchanged(Line(client), Line(client'), h, r)
<1> DEFINE P == client.polled
           S == client.sent
           m == Head(S)
           h == Len(P) + 1
<1>1. /\ P \in Seq(Messages) /\ S \in Seq(Messages) /\ Line(client) \in Seq(Messages)
      /\ \A p \in DOMAIN P : P[p].tag \in Outputs
      /\ \A p \in DOMAIN S : S[p] \in Messages /\ S[p].tag \in Inputs
  BY Lines
<1>2. /\ P \in Seq({n \in Messages : n.tag \in Outputs})
      /\ S \in Seq({n \in Messages : n.tag \in Inputs}) /\ S # <<>>
  BY DEF Wired
<1>3. /\ Tail(S) \in Seq({n \in Messages : n.tag \in Inputs})
      /\ P \o <<>> \in Seq({n \in Messages : n.tag \in Outputs})
      /\ \A r \in Messages : r.tag \in Outputs =>
           P \o <<r>> \in Seq({n \in Messages : n.tag \in Outputs})
  <2> HIDE DEF P, S
  <2> QED
    BY <1>2
<1>4. \A messages, stillOpen : Reply(messages, stillOpen) =>
        client'.sent = Tail(S) /\ client'.polled = P \o messages /\ open' = stillOpen
  BY DEF Reply, Shape, NewClient
<1>5. Line(client) = P \o S
  BY DEF Line
<1>6. 1 \in DOMAIN S /\ S[1] = Head(S)
  <2> HIDE DEF S
  <2> QED
    BY <1>1, <1>2
<1> HIDE DEF P, S
<1>7. Meets(m, h)
  <2>1. /\ h \in DOMAIN (P \o S) /\ (P \o S)[h] = Head(S)
        /\ \A p \in DOMAIN P : (P \o S)[p] = P[p]
        /\ \A p \in DOMAIN (P \o S) : p \in DOMAIN P \/ ~(p < h)
    BY <1>1, <1>2, Consuming
  <2>2. \A p \in DOMAIN Line(client) : p \in Nat
    BY <1>1
  <2> QED
    BY <1>1, <1>5, <1>6, <2>1, <2>2 DEF Meets
<1>8. ASSUME NEW stillOpen, Reply(<<>>, stillOpen)
      PROVE  /\ Wired(client') /\ open' = stillOpen
             /\ \E f : Thinned(Line(client), Line(client'), h, f)
  <2>1. Line(client') = (P \o <<>>) \o Tail(S) /\ Wired(client') /\ open' = stillOpen
    BY <1>3, <1>4, <1>8 DEF Line, Wired
  <2>2. \E f : Thinned(P \o S, (P \o <<>>) \o Tail(S), h, f)
    BY <1>1, <1>2, Consuming
  <2> QED
    BY <1>5, <2>1, <2>2
<1>9. ASSUME NEW r \in Messages, NEW stillOpen, r.tag \in Outputs, Reply(<<r>>, stillOpen)
      PROVE  /\ Wired(client') /\ open' = stillOpen
             /\ Exchanged(Line(client), Line(client'), h, r)
  <2>1. Line(client') = (P \o <<r>>) \o Tail(S) /\ Wired(client') /\ open' = stillOpen
    BY <1>3, <1>4, <1>9 DEF Line, Wired
  <2>2. LET K == (P \o <<r>>) \o Tail(S) IN
        /\ K \in Seq(Messages) /\ DOMAIN K = DOMAIN (P \o S) /\ K[h] = r
        /\ \A p \in DOMAIN (P \o S) : p # h => K[p] = (P \o S)[p]
    BY <1>1, <1>2, <1>9, Consuming
  <2>3. h \in DOMAIN Line(client)
    BY <1>7 DEF Meets
  <2> QED
    BY <1>5, <2>1, <2>2, <2>3 DEF Exchanged
<1> QED
  BY <1>7, <1>8, <1>9 DEF P, S

\* While the runtime is driven only the conversation changes.
LEMMA DriveGoes ==
  ASSUME JobInv, TalkInv, pc = "driving", UNCHANGED <<app, commands, pc>>,
         NEW sent, NEW polled,
         client' = [client EXCEPT !.sent = sent, !.polled = polled],
         Wired(client'), Conversation(Line(client'), client.export, client.import, open'),
         Hushed(client, NoExport) => Hushed(client', NoExport)
  PROVE  TalkInv'
<1>1. /\ Orderly /\ Converses(client, open) /\ client.failed = FALSE
      /\ Ready /\ RestoreWaits /\ Shape(client)
  BY DEF JobInv, TalkInv, Orderly, Coherent
<1> DEFINE r == client'
<1>2. /\ r.export = client.export /\ r.project = client.project /\ r.cache = client.cache
      /\ r.diagnosis = client.diagnosis /\ r.import = client.import /\ r.failed = client.failed
  BY <1>1 DEF Shape, NewClient
<1>3. Wired(r) /\ Conversation(Line(r), r.export, r.import, open')
      /\ (Hushed(client, NoExport) => Hushed(r, NoExport))
  BY <1>2
<1> HIDE DEF r
<1>4. Placed(r)
  BY <1>1, <1>2 DEF Converses, Placed
<1>5. \A job : Runs(r, job) <=> Runs(client, job)
  BY <1>2 DEF Runs
<1>6. Ready'
  <2>1. \A job \in UserJobs : Pending(job) =>
          r.import = NoImport /\ (r.export = NoExport => Silent(r))
    BY <1>1, <1>2, <1>3 DEF Ready, Silent, Hushed
  <2>2. \A any : Pending(any)' <=> Pending(any)
    BY DEF Pending
  <2>3. \A job \in Manual : Pending(job) => r.export = NoExport /\ ~r.cache.due
    BY <1>1, <1>2 DEF Ready
  <2>4. (Runs(r, "diagnosis") \/ Pending("diagnosis"))
          /\ (Runs(r, "project") \/ Pending("project")) => app.fatal /\ ~Pending("cancel")
    BY <1>1, <1>5 DEF Ready
  <2> QED
    BY <2>1, <2>2, <2>3, <2>4 DEF Ready, r
<1>7. RestoreWaits'
  BY <1>1, <1>5, RestoreStillWaits DEF r
<1>8. Pumped'
  BY DEF Pumped
<1>9. Converses(r, open')
  BY <1>3, <1>4 DEF Converses
<1> QED
  BY <1>1, <1>2, <1>6, <1>7, <1>8, <1>9 DEF TalkInv, r

\* A message is consumed without an answer.
LEMMA NoReply ==
  ASSUME JobInv, TalkInv, pc = "driving", UNCHANGED <<app, commands, pc>>, client.sent # <<>>,
         NEW m, m = Head(client.sent), m.tag \in {"read"} \cup Closings,
         NEW P \in SUBSET open, \A e \in P : ~Closes(m, e), Reply(<<>>, P)
  PROVE  TalkInv'
<1> DEFINE L == Line(client)
           h == Len(client.polled) + 1
           i == client.import
<1>1. /\ Shape(client) /\ Wired(client) /\ Conversation(L, client.export, i, open)
  BY DEF JobInv, Orderly, Coherent, TalkInv, Converses
<1>2. Meets(m, h) /\ Wired(client') /\ open' = P
  BY <1>1, Replies
<1>3. PICK f : Thinned(L, Line(client'), h, f)
  BY <1>1, Replies
<1>4. \A p \in DOMAIN L : L[p].tag = "export" => ~(p < h)
  BY <1>2 DEF Meets, Outputs
<1>5. i # NoImport => m.id # Awaited(i)
  <2>1. ASSUME i # NoImport
        PROVE  Awaited(i) # 0 /\ Awaited(i) \in {i.begin, i.commit}
    BY <1>1, <2>1 DEF Conversation, Numbered, Awaited
  <2>2. m.id # 0 /\ m.id \in {i.begin, i.commit} =>
          m.tag \in {"begin", "accepted", "rejected", "commit", "imported"}
    BY <1>1, <1>2 DEF Conversation, Numbered, Meets
  <2>3. m.tag \notin {"begin", "accepted", "rejected", "commit", "imported"}
    BY DEF Closings
  <2> QED
    BY <2>1, <2>2, <2>3
<1>6. L[h] = m /\ m.tag # "ready"
  BY <1>2 DEF Meets, Closings
<1> HIDE DEF h, i, L
<1>7. Conversation(Line(client'), client.export, i, P)
  BY <1>1, <1>3, <1>4, <1>5, <1>6, Consumed
<1>8. Hushed(client, NoExport) => Hushed(client', NoExport)
  BY <1>3 DEF Hushed, Thinned, L
<1>9. client' = [client EXCEPT !.sent = Tail(client.sent), !.polled = client.polled \o <<>>]
  BY DEF Reply
<1> QED
  BY <1>2, <1>7, <1>8, <1>9, DriveGoes DEF i

\* A message is answered.
LEMMA Replied ==
  ASSUME JobInv, TalkInv, pc = "driving", UNCHANGED <<app, commands, pc>>, client.sent # <<>>,
         NEW m, m = Head(client.sent), NEW r \in Messages, r.tag \in Outputs,
         NEW P, Reply(<<r>>, P),
         Conversation(Line(client'), client.export, client.import, P),
         About(NoExport, r) => About(NoExport, m)
  PROVE  TalkInv'
<1> DEFINE h == Len(client.polled) + 1
<1>1. Shape(client) /\ Wired(client)
  BY DEF JobInv, Orderly, Coherent, TalkInv, Converses
<1>2. /\ Meets(m, h) /\ Wired(client') /\ open' = P
      /\ Exchanged(Line(client), Line(client'), h, r)
  BY <1>1, Replies
<1> HIDE DEF h
<1>3. Hushed(client, NoExport) => Hushed(client', NoExport)
  BY <1>2 DEF Hushed, Exchanged, Meets
<1>4. client' = [client EXCEPT !.sent = Tail(client.sent), !.polled = client.polled \o <<r>>]
  BY DEF Reply
<1>5. Conversation(Line(client'), client.export, client.import, open')
  BY <1>2
<1> QED
  BY <1>2, <1>3, <1>4, <1>5, DriveGoes

\* What is known when a message is consumed.
LEMMA Consumes ==
  ASSUME JobInv, TalkInv, RtConsume, NEW m, m = Head(client.sent),
         NEW L, L = Line(client), NEW h, h = Len(client.polled) + 1
  PROVE  /\ pc = "driving" /\ UNCHANGED <<app, commands, pc>> /\ client.sent # <<>>
         /\ Conversation(L, client.export, client.import, open)
         /\ Wired(client) /\ Shape(client) /\ Meets(m, h) /\ L[h] = m /\ h \in DOMAIN L
         /\ m \in Messages /\ m.tag \in Inputs
         /\ \A r \in Messages : \A stillOpen :
              r.tag \in Outputs /\ Reply(<<r>>, stillOpen) =>
                Exchanged(L, Line(client'), h, r)
<1>1. pc = "driving" /\ UNCHANGED <<app, commands, pc>> /\ client.sent # <<>>
  BY DEF RtConsume
<1>2. Conversation(L, client.export, client.import, open) /\ Wired(client) /\ Shape(client)
  BY <1>1 DEF JobInv, TalkInv, Orderly, Coherent, Converses
<1>3. Meets(m, h)
  BY <1>1, <1>2, Replies
<1>4. \A r \in Messages : \A stillOpen :
        r.tag \in Outputs /\ Reply(<<r>>, stillOpen) => Exchanged(L, Line(client'), h, r)
  BY <1>1, <1>2, Replies
<1> QED
  BY <1>1, <1>2, <1>3, <1>4 DEF Meets

\* What is still open is registered, whatever is said of none of it.
LEMMA StillRegistered ==
  ASSUME NEW L, NEW K, NEW h, NEW r, NEW x, NEW o, Registered(L, x, o),
         Exchanged(L, K, h, r), NEW P \in SUBSET o, \A e \in P : r.transfer # e.id
  PROVE  Registered(K, x, P)
<1>1. IsFiniteSet(P)
  BY FS_Subset DEF Registered
<1> QED
  BY <1>1 DEF Registered, Exchanged

\* A request for an export is refused.
LEMMA RefusalGoes ==
  ASSUME JobInv, TalkInv, RtConsume, NEW m, m = Head(client.sent), m.tag = "export",
         NEW tag \in {"ineligible", "invalid_state", "rejected"},
         Reply(<<Message(tag, m.id, m.kind, 0)>>, open)
  PROVE  TalkInv'
<1> DEFINE L == Line(client)
           K == Line(client')
           h == Len(client.polled) + 1
           r == Message(tag, m.id, m.kind, 0)
           x == client.export
           i == client.import
<1>1. /\ pc = "driving" /\ UNCHANGED <<app, commands, pc>> /\ client.sent # <<>>
      /\ Conversation(L, x, i, open) /\ L[h] = m /\ m \in Messages /\ h \in DOMAIN L
  BY Consumes
<1>2. /\ r.tag = tag /\ r.id = m.id /\ r.kind = m.kind /\ r.transfer = 0
      /\ r \in Messages /\ r.tag \in Outputs
  BY <1>1 DEF Message, Messages, Outputs, Inputs
<1>3. Exchanged(L, K, h, r)
  BY <1>2, Consumes
<1> HIDE DEF r, h
<1>4. Registered(K, x, open)
  <2>1. \A e \in open : r.transfer # e.id
    BY <1>1, <1>2 DEF Conversation, Registered
  <2> QED
    BY <1>1, <1>3, <2>1, StillRegistered DEF Conversation
<1>5. About(x, m) /\ About(NoExport, m)
  BY DEF About, Requested
<1>6. x # NoExport => Fits(x, m)
  BY <1>1, <1>5 DEF Conversation, OneTalk
<1>7. x # NoExport => Fits(x, r)
  BY <1>2, <1>6 DEF Fits, Requested, Refusals, Streamed
<1>8. r.tag \in Requested \cup Refusals
      /\ r.tag \notin {"accepted", "ready", "commit", "imported"}
  BY <1>2 DEF Requested, Refusals
<1>9. \A e \in open : \E d \in open : d.id = e.id /\ d.kind = e.kind
  OBVIOUS
<1> HIDE DEF K, L, x, i
<1>10. Conversation(K, x, i, open)
  BY <1>1, <1>2, <1>3, <1>4, <1>5, <1>7, <1>8, <1>9, Answered
<1>11. Reply(<<r>>, open)
  BY DEF r
<1> QED
  BY <1>1, <1>2, <1>5, <1>10, <1>11, Replied DEF K, x, i

\* An export is opened.
LEMMA ReadyGoes ==
  ASSUME JobInv, TalkInv, RtConsume, NEW m, m = Head(client.sent), m.tag = "export",
         NEW chunks,
         NEW e, e = [id |-> NewTransfer, kind |-> m.kind, chunks |-> chunks],
         Reply(<<Message("ready", m.id, m.kind, NewTransfer)>>, open \cup {e})
  PROVE  TalkInv'
<1> DEFINE L == Line(client)
           K == Line(client')
           h == Len(client.polled) + 1
           r == Message("ready", m.id, m.kind, NewTransfer)
           x == client.export
           i == client.import
           P == open \cup {e}
<1>1. /\ pc = "driving" /\ UNCHANGED <<app, commands, pc>> /\ client.sent # <<>>
      /\ Conversation(L, x, i, open) /\ Wired(client) /\ L[h] = m /\ m \in Messages
      /\ h \in DOMAIN L
  BY Consumes
<1>2. /\ NewTransfer \in Nat \ {0} /\ \A d \in open : d.id # NewTransfer
      /\ NewTransfer \notin {x.transfer, i.transfer}
      /\ \A p \in DOMAIN L : L[p].transfer # NewTransfer
  BY <1>1, TransferNumber DEF Conversation, Registered
<1>3. /\ r.tag = "ready" /\ r.id = m.id /\ r.kind = m.kind /\ r.transfer = NewTransfer
      /\ r \in Messages /\ r.tag \in Outputs
  BY <1>1, <1>2 DEF Message, Messages, Outputs, Inputs
<1>4. Exchanged(L, K, h, r)
  BY <1>3, Consumes
<1>5. e.id = NewTransfer /\ e.kind = m.kind
  OBVIOUS
<1> HIDE DEF r, h
<1>6. Registered(K, x, P)
  <2>1. Registered(K, x, open)
    <3>1. \A d \in open : r.transfer # d.id
      BY <1>2, <1>3
    <3> QED
      BY <1>1, <1>4, <3>1, StillRegistered DEF Conversation
  <2>2. \A p \in DOMAIN K : K[p].transfer = e.id => p = h
    BY <1>2, <1>4, <1>5 DEF Exchanged
  <2>3. IsFiniteSet(P)
    BY <2>1, FS_AddElement DEF Registered
  <2> HIDE DEF K, L, x, i
  <2>4. /\ e.id \in Nat \ {0} /\ e.id # x.transfer
        /\ \A d \in open : d.id # e.id
        /\ \A p \in DOMAIN K : K[p].transfer = e.id =>
             (K[p].tag = "ready" => e.kind = K[p].kind) /\ K[p].tag # "last_chunk"
    BY <1>2, <1>3, <1>4, <1>5, <2>2 DEF Exchanged, x
  <2> HIDE DEF P
  <2>5. \A d \in P : d \in open \/ d = e
    BY DEF P
  <2> QED
    BY <2>1, <2>3, <2>4, <2>5 DEF Registered
<1>7. About(x, m) /\ About(NoExport, m)
  BY DEF About, Requested
<1>8. x # NoExport => Fits(x, m)
  BY <1>1, <1>7 DEF Conversation, OneTalk
<1>9. x # NoExport => Fits(x, r)
  BY <1>3, <1>8 DEF Fits, Requested, Refusals, Streamed
<1>10. r.tag \in Requested \cup Refusals /\ r.transfer # 0
  BY <1>2, <1>3 DEF Requested
<1> HIDE DEF K, L, x, i
<1>11. \A d \in P : \/ Held(K, x, d) \/ (\E p \in DOMAIN L : p # h /\ Closes(L[p], d))
                    \/ \E other \in open : other.id = d.id /\ other.kind = d.kind
  <2>1. CASE x # NoExport
    <3>1. Held(K, x, e)
      BY <1>3, <1>4, <1>5, <2>1 DEF Held, Exchanged
    <3> QED
      BY <3>1
  <2>2. CASE x = NoExport
    <3>1. PICK q \in DOMAIN L : h < q /\ Stops(L[q], m.kind)
      BY <1>1, <2>2 DEF Conversation, Covered
    <3>2. q # h
      BY <1>1, <3>1, Consumes DEF Meets, L, h
    <3>3. Closes(L[q], e)
      BY <1>5, <3>1 DEF Stops, Closes
    <3> QED
      BY <3>2, <3>3
  <2> QED
    BY <2>1, <2>2
<1> HIDE DEF P
<1>12. Conversation(K, x, i, P)
  BY <1>1, <1>3, <1>4, <1>6, <1>7, <1>9, <1>10, <1>11, Answered
<1>13. Reply(<<r>>, P)
  BY DEF r, P
<1> QED
  BY <1>1, <1>3, <1>7, <1>12, <1>13, Replied DEF K, x, i

\* A chunk is read.
LEMMA ReadGoes ==
  ASSUME JobInv, TalkInv, Opened, RtConsume, NEW m, m = Head(client.sent), m.tag = "read",
         RtRead(m)
  PROVE  TalkInv'
<1> DEFINE L == Line(client)
           K == Line(client')
           h == Len(client.polled) + 1
           x == client.export
           i == client.import
<1>1. /\ pc = "driving" /\ UNCHANGED <<app, commands, pc>> /\ client.sent # <<>>
      /\ Conversation(L, x, i, open) /\ L[h] = m /\ m \in Messages /\ h \in DOMAIN L
  BY Consumes
<1>2. CASE Reply(<<>>, open)
  <2>1. \A e \in open : ~Closes(m, e)
    BY DEF Closes, Closings
  <2> QED
    BY <1>1, <1>2, <2>1, NoReply
<1>3. ASSUME NEW e \in open, e.id = m.transfer, NEW tag \in {"chunk", "last_chunk"},
             NEW P, \A d \in P : d \in open \ {e}
                                 \/ (tag = "chunk" /\ d.id = e.id /\ d.kind = e.kind),
             \A d, other \in P : d.id = e.id /\ other.id = e.id => d = other,
             IsFiniteSet(P), Reply(<<Message(tag, 0, e.kind, e.id)>>, P)
      PROVE  TalkInv'
  <2> DEFINE r == Message(tag, 0, e.kind, e.id)
  <2>1. e.id \in Nat \ {0} /\ e.kind \in Kinds \cup {"none"}
    BY <1>1, <1>3 DEF Conversation, Registered, Opened
  <2>2. /\ r.tag = tag /\ r.id = 0 /\ r.transfer = e.id /\ r \in Messages /\ r.tag \in Outputs
    BY <2>1 DEF Message, Messages, Outputs
  <2>3. Exchanged(L, K, h, r)
    BY <1>3, <2>2, Consumes
  <2> HIDE DEF r, h
  <2>4. About(x, m) /\ About(NoExport, m)
    BY DEF About, Streamed
  <2>5. x # NoExport => Fits(x, m)
    BY <1>1, <2>4 DEF Conversation, OneTalk
  <2>6. x # NoExport => Fits(x, r)
    BY <1>3, <2>2, <2>5 DEF Fits, Requested, Refusals, Streamed
  <2> HIDE DEF K, L, x, i
  <2>7. Registered(K, x, P)
    <3>1. /\ Registered(L, x, open) /\ DOMAIN K = DOMAIN L /\ K[h] = r
          /\ \A p \in DOMAIN L : p # h => K[p] = L[p]
      BY <1>1, <2>3 DEF Conversation, Exchanged
    <3>2. ASSUME NEW d \in P, d \in open \ {e}
          PROVE  /\ d.id \in Nat \ {0} /\ d.id # e.id
                 /\ d.id = x.transfer => d.kind = Kind(x.stage)
                 /\ \A p \in DOMAIN K : K[p].transfer = d.id =>
                      (K[p].tag = "ready" => d.kind = K[p].kind) /\ K[p].tag # "last_chunk"
      BY <2>2, <3>1, <3>2 DEF Registered
    <3>3. ASSUME NEW d \in P, tag = "chunk", d.id = e.id, d.kind = e.kind
          PROVE  /\ d.id \in Nat \ {0}
                 /\ d.id = x.transfer => d.kind = Kind(x.stage)
                 /\ \A p \in DOMAIN K : K[p].transfer = d.id =>
                      (K[p].tag = "ready" => d.kind = K[p].kind) /\ K[p].tag # "last_chunk"
      BY <2>2, <3>1, <3>3 DEF Registered
    <3>4. ASSUME NEW d \in P, NEW other \in P, other.id = d.id
          PROVE  other = d
      <4>1. CASE d \in open \ {e} /\ other \in open \ {e}
        BY <3>1, <3>4, <4>1 DEF Registered
      <4>2. CASE d.id = e.id
        BY <1>3, <3>4, <4>2
      <4>3. CASE d.id # e.id
        BY <1>3, <3>4, <4>1, <4>3
      <4> QED
        BY <4>2, <4>3
    <3> QED
      BY <1>3, <3>2, <3>3, <3>4 DEF Registered
  <2>8. \A d \in P : \E other \in open : other.id = d.id /\ other.kind = d.kind
    BY <1>3
  <2>9. Conversation(K, x, i, P)
    <3>1. r.tag \notin {"accepted", "ready", "commit", "imported"}
      BY <2>2
    <3> QED
      BY <1>1, <2>2, <2>3, <2>4, <2>6, <2>7, <2>8, <3>1, Answered
  <2>10. Reply(<<r>>, P)
    BY <1>3 DEF r
  <2> QED
    BY <1>1, <2>2, <2>4, <2>9, <2>10, Replied DEF K, x, i
<1>4. ASSUME NEW e \in open, e.id = m.transfer
      PROVE  /\ Reply(<<Message("last_chunk", 0, e.kind, e.id)>>, open \ {e}) => TalkInv'
             /\ Reply(<<Message("chunk", 0, e.kind, e.id)>>,
                      (open \ {e}) \cup {[e EXCEPT !.chunks = e.chunks - 1]}) => TalkInv'
  <2>1. IsFiniteSet(open) /\ IsFiniteSet(open \ {e})
        /\ \A d \in open \ {e} : d.id # e.id
    BY <1>1, <1>4, FS_Subset DEF Conversation, Registered
  <2> DEFINE rest == [e EXCEPT !.chunks = e.chunks - 1]
             P == (open \ {e}) \cup {rest}
  <2>2. rest.id = e.id /\ rest.kind = e.kind
    BY <1>4 DEF Opened
  <2>3. IsFiniteSet(P)
    BY <2>1, FS_AddElement
  <2>4. Reply(<<Message("last_chunk", 0, e.kind, e.id)>>, open \ {e}) => TalkInv'
    BY <1>3, <1>4, <2>1
  <2> HIDE DEF rest
  <2>5. /\ \A d \in P : d \in open \ {e} \/ (d.id = e.id /\ d.kind = e.kind)
        /\ \A d, other \in P : d.id = e.id /\ other.id = e.id => d = other
    BY <2>1, <2>2
  <2> HIDE DEF P
  <2>6. Reply(<<Message("chunk", 0, e.kind, e.id)>>, P) => TalkInv'
    BY <1>3, <1>4, <2>3, <2>5
  <2> QED
    BY <2>4, <2>6 DEF P, rest
<1> QED
  BY <1>2, <1>4 DEF RtRead

\* An import is accepted, committed or refused.
LEMMA ImportGoes ==
  ASSUME JobInv, TalkInv, RtConsume, NEW m, m = Head(client.sent), m.tag \in {"begin", "commit"},
         RtImport(m)
  PROVE  TalkInv'
<1> DEFINE L == Line(client)
           K == Line(client')
           h == Len(client.polled) + 1
           x == client.export
           i == client.import
<1>1. /\ pc = "driving" /\ UNCHANGED <<app, commands, pc>> /\ client.sent # <<>>
      /\ Conversation(L, x, i, open) /\ Wired(client) /\ L[h] = m /\ m \in Messages
      /\ h \in DOMAIN L
  BY Consumes
<1>2. NewTransfer \in Nat \ {0} /\ \A d \in open : d.id # NewTransfer
  BY <1>1, TransferNumber DEF Conversation, Registered
<1>3. ASSUME NEW r \in Messages, r.tag \in {"accepted", "imported", "rejected"}, r.id = m.id,
             r.tag \in {"accepted", "imported"} => r.transfer # 0,
             m.tag = "begin" => r.tag \in {"accepted", "rejected"},
             m.tag = "commit" => \/ r.tag = "imported" /\ r.transfer = m.transfer
                                 \/ r.tag = "rejected",
             Reply(<<r>>, open)
      PROVE  TalkInv'
  <2>1. r.tag \in Outputs
    BY <1>3 DEF Outputs
  <2>2. Exchanged(L, K, h, r)
    BY <1>3, <2>1, Consumes
  <2> HIDE DEF h
  <2>3. ~About(NoExport, r)
    BY <1>3 DEF About, Requested, Streamed, Refusals, NoExport
  <2>4. ~(r.id # 0 /\ r.id = x.message)
    <3>1. m.id # 0 /\ m.id = x.message => m.tag \in Requested \cup Refusals
      BY <1>1 DEF Conversation, Numbered
    <3> QED
      BY <1>3, <3>1 DEF Requested, Refusals
  <2>5. ~About(x, r)
    BY <1>3, <2>4 DEF About, Requested, Streamed
  <2> HIDE DEF K, L, x, i
  <2>6. Registered(K, x, open)
    <3>1. Registered(L, x, open)
      BY <1>1 DEF Conversation
    <3>2. r.tag # "ready" /\ r.tag # "last_chunk"
      BY <1>3
    <3> QED
      BY <2>2, <3>1, <3>2 DEF Registered, Exchanged
  <2>7. \A e \in open : \E d \in open : d.id = e.id /\ d.kind = e.kind
    OBVIOUS
  <2>8. Conversation(K, x, i, open)
    <3>1. r.tag \in {"accepted", "ready", "commit", "imported"} => r.transfer # 0
      BY <1>3
    <3> QED
      BY <1>1, <1>3, <2>1, <2>2, <2>4, <2>5, <2>6, <2>7, <3>1, Answered
  <2> QED
    BY <1>1, <1>3, <2>1, <2>3, <2>8, Replied DEF K, x, i
<1>4. \A tag \in {"accepted", "imported", "rejected"} : \A transfer \in Nat :
        LET r == Message(tag, m.id, "none", transfer) IN
        r \in Messages /\ r.tag = tag /\ r.id = m.id /\ r.transfer = transfer
  BY <1>1 DEF Message, Messages, Outputs
<1>5. m.transfer \in Nat /\ (m.tag = "commit" => m.transfer # 0)
  BY <1>1 DEF Conversation, Numbered, Messages
<1>6. CASE m.tag = "begin" /\ Reply(<<Message("accepted", m.id, "none", NewTransfer)>>, open)
  BY <1>2, <1>3, <1>4, <1>6
<1>7. CASE m.tag = "commit" /\ Reply(<<Message("imported", m.id, "none", m.transfer)>>, open)
  BY <1>3, <1>4, <1>5, <1>7
<1>8. CASE Reply(<<Message("rejected", m.id, "none", 0)>>, open)
  BY <1>3, <1>4, <1>8
<1> QED
  BY <1>6, <1>7, <1>8 DEF RtImport

\* Exports are closed.
LEMMA CloseGoes ==
  ASSUME JobInv, TalkInv, RtConsume, NEW m, m = Head(client.sent), m.tag \in Closings, RtClose(m)
  PROVE  TalkInv'
<1> DEFINE P == {e \in open : m.tag # "transition" /\ e.id # m.transfer /\ e.kind # m.kind}
<1>1. pc = "driving" /\ UNCHANGED <<app, commands, pc>> /\ client.sent # <<>>
  BY Consumes
<1>2. P \in SUBSET open /\ \A e \in P : ~Closes(m, e)
  BY DEF Closes
<1>3. Reply(<<>>, P)
  BY DEF RtClose
<1> HIDE DEF P
<1> QED
  BY <1>1, <1>2, <1>3, NoReply

\* Whatever the runtime consumes.
LEMMA ConsumeGoes ==
  ASSUME JobInv, TalkInv, Opened, RtConsume
  PROVE  TalkInv' /\ pc' # "closed"
<1> DEFINE m == Head(client.sent)
<1>1. m.tag \in Inputs /\ pc = "driving" /\ pc' = pc
  BY Consumes
<1>2. CASE m.tag = "export"
  <2>1. RtExport(m)
    BY <1>2 DEF RtConsume
  <2>2. CASE \E chunks \in 1..MaxChunks :
               Reply(<<Message("ready", m.id, m.kind, NewTransfer)>>,
                     open \cup {[id |-> NewTransfer, kind |-> m.kind, chunks |-> chunks]})
    <3>1. PICK chunks \in 1..MaxChunks :
            Reply(<<Message("ready", m.id, m.kind, NewTransfer)>>,
                  open \cup {[id |-> NewTransfer, kind |-> m.kind, chunks |-> chunks]})
      BY <2>2
    <3> QED
      BY <1>1, <1>2, <3>1, ReadyGoes
  <2>3. CASE \E tag \in {"ineligible", "invalid_state", "rejected"} :
               Reply(<<Message(tag, m.id, m.kind, 0)>>, open)
    <3>1. PICK tag \in {"ineligible", "invalid_state", "rejected"} :
            Reply(<<Message(tag, m.id, m.kind, 0)>>, open)
      BY <2>3
    <3> QED
      BY <1>1, <1>2, <3>1, RefusalGoes
  <2> QED
    BY <2>1, <2>2, <2>3 DEF RtExport
<1>3. CASE m.tag = "read"
  <2>1. RtRead(m)
    BY <1>3 DEF RtConsume
  <2> QED
    BY <1>1, <1>3, <2>1, ReadGoes
<1>4. CASE m.tag \in {"begin", "commit"}
  <2>1. RtImport(m)
    BY <1>4 DEF RtConsume
  <2> QED
    BY <1>1, <1>4, <2>1, ImportGoes
<1>5. CASE m.tag \in Closings
  <2>1. RtClose(m)
    BY <1>5 DEF RtConsume, Closings
  <2> QED
    BY <1>1, <1>5, <2>1, CloseGoes
<1> QED
  BY <1>1, <1>2, <1>3, <1>4, <1>5 DEF Inputs, Closings

\* A message that says nothing of a transfer may stand anywhere in the line.
LEMMA Interrupted ==
  ASSUME NEW L, NEW K, NEW h, NEW f, NEW x, NEW i, NEW o,
         Conversation(L, x, i, o), Thinned(K, L, h, f), K \in Seq(Messages),
         K[h].tag = "fault", K[h].id = 0, K[h].transfer = 0
  PROVE  Conversation(K, x, i, o)
<1>1. \A p \in DOMAIN K : p = h \/ \E q \in DOMAIN L : f[q] = p /\ K[p] = L[q]
  BY DEF Thinned
<1>2. \A p \in DOMAIN L : f[p] \in DOMAIN K /\ L[p] = K[f[p]]
  BY DEF Thinned
<1>3. \A p, q \in DOMAIN L : p < q => f[p] < f[q]
  <2>1. \A p \in DOMAIN L : p \in Nat /\ f[p] \in Nat
    BY <1>2 DEF Conversation, Numbered
  <2>2. \A p, q \in DOMAIN L : (f[p] < f[q] => p < q) /\ (f[p] = f[q] => p = q)
    BY DEF Thinned
  <2>3. \A p, q \in DOMAIN L : f[q] < f[p] => q < p
    BY <2>2
  <2> QED
    BY <2>1, <2>2, <2>3
<1>4. \A y : ~About(y, K[h])
  BY DEF About, Requested, Streamed, Refusals
<1>5. OneTalk(K, x)
  <2>1. ASSUME NEW p \in DOMAIN K, NEW q \in DOMAIN K, About(x, K[p]), About(x, K[q])
        PROVE  p = q
    <3>1. PICK a \in DOMAIN L : f[a] = p /\ K[p] = L[a]
      BY <1>1, <1>4, <2>1
    <3>2. PICK b \in DOMAIN L : f[b] = q /\ K[q] = L[b]
      BY <1>1, <1>4, <2>1
    <3>3. a = b
      BY <2>1, <3>1, <3>2 DEF Conversation, OneTalk
    <3> QED
      BY <3>1, <3>2, <3>3
  <2>2. ASSUME x # NoExport, NEW p \in DOMAIN K, About(x, K[p])
        PROVE  Fits(x, K[p])
    BY <1>1, <1>4, <2>2 DEF Conversation, OneTalk
  <2> QED
    BY <2>1, <2>2 DEF OneTalk
<1>6. Numbered(K, x, i)
  <2>1. /\ {x.message, x.transfer, i.begin, i.transfer, i.commit} \subseteq Nat
        /\ x.message # 0 => x.message \notin {i.begin, i.commit}
        /\ i # NoImport => i.begin \notin {0, i.commit} /\ (i.transfer = 0 <=> i.commit = 0)
    BY DEF Conversation, Numbered
  <2>2. ASSUME NEW p \in DOMAIN K
        PROVE  /\ K[p].tag \in {"accepted", "ready", "commit", "imported"} => K[p].transfer # 0
               /\ K[p].id # 0 /\ K[p].id = x.message => K[p].tag \in Requested \cup Refusals
               /\ K[p].id # 0 /\ K[p].id = i.begin =>
                    K[p].tag \in {"begin", "accepted", "rejected"}
               /\ K[p].id # 0 /\ K[p].id = i.commit =>
                    \/ K[p].tag \in {"commit", "imported"} /\ K[p].transfer = i.transfer
                    \/ K[p].tag = "rejected"
    <3>1. CASE p = h
      BY <3>1
    <3>2. CASE p # h
      BY <1>1, <3>2 DEF Conversation, Numbered
    <3> QED
      BY <3>1, <3>2
  <2> QED
    BY <2>1, <2>2 DEF Numbered
<1>7. Awaits(K, i)
  BY <1>2 DEF Conversation, Awaits
<1>8. InTurn(K, x, i)
  <2>1. SUFFICES ASSUME x = NoExport, i # NoImport, NEW p \in DOMAIN K, NEW q \in DOMAIN K,
                        About(x, K[p]), K[q].id = Awaited(i)
                 PROVE  p < q
    BY DEF InTurn
  <2>2. Awaited(i) # 0
    BY <2>1 DEF Conversation, Numbered, Awaited
  <2>3. PICK a \in DOMAIN L : f[a] = p /\ K[p] = L[a]
    BY <1>1, <1>4, <2>1
  <2>4. PICK b \in DOMAIN L : f[b] = q /\ K[q] = L[b]
    BY <1>1, <2>1, <2>2
  <2>5. a < b
    BY <2>1, <2>3, <2>4 DEF Conversation, InTurn
  <2> QED
    BY <1>3, <2>3, <2>4, <2>5
<1>9. Covered(K, x, o)
  <2>1. ASSUME NEW e \in o
        PROVE  Held(K, x, e) \/ \E p \in DOMAIN K : Closes(K[p], e)
    <3>1. Held(L, x, e) \/ \E p \in DOMAIN L : Closes(L[p], e)
      BY DEF Conversation, Covered
    <3> QED
      BY <1>2, <3>1 DEF Held
  <2>2. ASSUME x = NoExport, NEW p \in DOMAIN K, K[p].tag = "export"
        PROVE  \E q \in DOMAIN K : p < q /\ Stops(K[q], K[p].kind)
    <3>1. PICK a \in DOMAIN L : f[a] = p /\ K[p] = L[a]
      BY <1>1, <2>2
    <3>2. PICK b \in DOMAIN L : a < b /\ Stops(L[b], L[a].kind)
      BY <2>2, <3>1 DEF Conversation, Covered
    <3> QED
      BY <1>2, <1>3, <3>1, <3>2
  <2> QED
    BY <2>1, <2>2 DEF Covered
<1>10. Registered(K, x, o)
  <2>1. \A e \in o : e.id # 0
    BY DEF Conversation, Registered
  <2>2. ASSUME NEW e \in o, NEW p \in DOMAIN K, K[p].transfer = e.id
        PROVE  (K[p].tag = "ready" => e.kind = K[p].kind) /\ K[p].tag # "last_chunk"
    BY <1>1, <2>1, <2>2 DEF Conversation, Registered
  <2> QED
    BY <2>2 DEF Conversation, Registered
<1> QED
  BY <1>5, <1>6, <1>7, <1>8, <1>9, <1>10 DEF Conversation

\* The game fails.
LEMMA FaultGoes ==
  ASSUME JobInv, TalkInv, RtFault
  PROVE  TalkInv' /\ pc' # "closed"
<1> DEFINE m == Message("fault", 0, "none", 0)
           P == client.polled
           S == client.sent
           L == Line(client)
           K == Line(client')
           h == Len(P) + 1
<1>1. /\ pc = "driving" /\ UNCHANGED <<app, commands, open, pc>>
      /\ client' = [client EXCEPT !.polled = Append(P, m)]
  BY DEF RtFault
<1>2. /\ Wired(client) /\ Shape(client) /\ Conversation(L, client.export, client.import, open)
  BY <1>1 DEF JobInv, TalkInv, Orderly, Coherent, Converses
<1>3. m \in Messages /\ m.tag = "fault" /\ m.id = 0 /\ m.transfer = 0 /\ m.tag \in Outputs
  BY DEF Message, Messages, Outputs
<1>4. client'.polled = Append(P, m) /\ client'.sent = S
  BY <1>1, <1>2 DEF Shape, NewClient
<1>5. /\ P \in Seq({n \in Messages : n.tag \in Outputs})
      /\ S \in Seq({n \in Messages : n.tag \in Inputs})
      /\ P \in Seq(Messages) /\ S \in Seq(Messages)
  BY <1>2, Lines DEF Wired
<1> HIDE DEF P, S, m
<1>6. Append(P, m) \in Seq({n \in Messages : n.tag \in Outputs}) /\ Append(P, m) \in Seq(Messages)
      /\ Append(P, m) = P \o <<m>>
  <2>1. m \in {n \in Messages : n.tag \in Outputs}
    BY <1>3
  <2>2. Append(P, m) \in Seq({n \in Messages : n.tag \in Outputs})
    BY <1>5, <2>1
  <2>3. Append(P, m) \in Seq(Messages)
    BY <1>3, <1>5
  <2>4. Append(P, m) = P \o <<m>>
    BY <1>3, <1>5
  <2> QED
    BY <2>2, <2>3, <2>4
<1>7. Wired(client')
  BY <1>4, <1>5, <1>6 DEF Wired, S
<1> DEFINE T == <<m>> \o S
<1>8. T \in Seq(Messages) /\ T # <<>> /\ Tail(T) = S /\ Head(T) = m
  BY <1>3, <1>5
<1>9. (P \o <<m>>) \o S = P \o T
  BY <1>3, <1>5
<1> HIDE DEF T
<1>10. /\ P \o T \in Seq(Messages) /\ (P \o T)[h] = m
       /\ \E f : Thinned(P \o T, (P \o <<>>) \o S, h, f)
  <2>1. \A A \in Seq(Messages) : \A B \in Seq(Messages) : B # <<>> =>
          /\ Len(A) + 1 \in DOMAIN (A \o B) /\ (A \o B)[Len(A) + 1] = Head(B)
          /\ \E f : Thinned(A \o B, (A \o <<>>) \o Tail(B), Len(A) + 1, f)
    BY Consuming
  <2>2. P \o T \in Seq(Messages)
    BY <1>5, <1>8
  <2> QED
    BY <1>5, <1>8, <2>1, <2>2
<1>11. P \o <<>> = P
  BY <1>5
<1>12. L = P \o S /\ K = P \o T
  BY <1>4, <1>6, <1>9 DEF Line, P, S
<1> HIDE DEF K, L
<1>13. PICK f : Thinned(K, L, h, f)
  BY <1>10, <1>11, <1>12
<1>14. Conversation(K, client.export, client.import, open)
  BY <1>2, <1>3, <1>10, <1>12, <1>13, Interrupted
<1>15. Hushed(client, NoExport) => Hushed(client', NoExport)
  <2>1. ~About(NoExport, m)
    BY <1>3 DEF About, Requested, Streamed, Refusals
  <2>2. /\ K[h] = m
        /\ \A p \in DOMAIN K : p = h \/ \E q \in DOMAIN L : f[q] = p
        /\ \A p \in DOMAIN L : L[p] = K[f[p]]
    BY <1>10, <1>12, <1>13 DEF Thinned
  <2>3. \A p \in DOMAIN K : K[p] = m \/ \E q \in DOMAIN L : K[p] = L[q]
    BY <2>2
  <2> QED
    BY <2>1, <2>3 DEF Hushed, K, L
<1>16. client' = [client EXCEPT !.sent = client.sent, !.polled = Append(P, m)]
  BY <1>1, <1>2 DEF Shape, NewClient
<1> QED
  BY <1>1, <1>7, <1>14, <1>15, <1>16, DriveGoes DEF K

-----------------------------------------------------------------------------
(* The app and the pump *)

\* What an empty line says: no import waits.
LEMMA NothingUnderWay ==
  ASSUME Wired(client), MessagesOf(client) = {}, Awaits(Line(client), client.import)
  PROVE  client.import = NoImport /\ Hushed(client, NoExport)
BY UnderWay DEF Awaits, Hushed

\* A job is chosen.
LEMMA ChooseGoes ==
  ASSUME JobInv, TalkInv, Careful, Waits, StartExport \/ StartDiagnosis
  PROVE  TalkInv' /\ pc' # "closed"
<1>1. /\ pc # "closed" /\ Orderly
      /\ app \in [flags : SUBSET UserJobs, fatal : BOOLEAN]
  BY DEF StartExport, StartDiagnosis, Choose, JobInv, Orderly
<1>2. /\ Converses(client, open) /\ client.failed = FALSE /\ Ready /\ RestoreWaits /\ Pumped
      /\ Coherent(client)
  BY <1>1 DEF TalkInv, Orderly
<1>3. PICK job \in UserJobs :
        /\ Choose(job) /\ Patient(job) /\ job \notin app.flags
        /\ app' = [app EXCEPT !.flags = app.flags \cup {job}]
        /\ job # "diagnosis" => MenuOpen
        /\ job = "diagnosis" => app.fatal \/ "project" \notin app.flags
  <2>1. CASE StartExport
    BY <2>1, TransferAssumption DEF StartExport, UserJobs, MenuOpen
  <2>2. CASE StartDiagnosis
    BY <2>2 DEF StartDiagnosis, UserJobs
  <2> QED
    BY <2>1, <2>2
<1>4. app'.fatal = app.fatal
  BY <1>1, <1>3, AppFields
<1>5. /\ commands = <<>> /\ ~Ending(client, job) /\ client.import = NoImport
      /\ client.export = NoExport => MessagesOf(client) = {}
      /\ job \in Manual => client.export.stage # "cache" /\ ~client.cache.due
  BY <1>3 DEF Patient, Ending, Waits
<1>6. commands' = <<job>> /\ UNCHANGED <<client, pc, open>>
  BY <1>3, <1>5 DEF Choose
<1>7. /\ \A any : ~Pending(any)
      /\ \A any : Pending(any)' <=> any = job
  BY <1>5, <1>6 DEF Pending, In
<1>8. job # "diagnosis" => \A other \in UserJobs : ~Runs(client, other)
  BY <1>1, <1>3, <1>5, MenuMeansFree
<1>9. client.export = NoExport => Silent(client)
  BY <1>2, <1>5, NothingUnderWay DEF Converses, Conversation, Silent, Hushed
<1>10. job \in Manual => client.export = NoExport /\ ~client.cache.due
  <2>1. job \in Manual => Free(client)
    BY <1>2, <1>5, <1>8, FreeClient DEF Manual, NoImport
  <2> QED
    BY <1>2, <1>5, <2>1 DEF Free, Coherent, NoneIsNone
<1>11. (Runs(client, "diagnosis") \/ job = "diagnosis")
         /\ (Runs(client, "project") \/ job = "project") => app.fatal
  <2>1. {"diagnosis", "project"} \subseteq UserJobs
    BY DEF UserJobs
  <2>2. CASE job = "diagnosis"
    <3>1. Runs(client, "project") => "project" \in app.flags
      BY <1>1, <1>7, <2>1 DEF Orderly, Shown, Manual
    <3> QED
      BY <1>3, <2>2, <3>1
  <2>3. CASE job # "diagnosis"
    BY <1>8, <2>1, <2>3
  <2> QED
    BY <2>2, <2>3
<1>12. Manual \subseteq UserJobs /\ "cancel" # job
  BY DEF Manual, UserJobs
<1>13. Ready'
  BY <1>4, <1>5, <1>6, <1>7, <1>9, <1>10, <1>11, <1>12 DEF Ready
<1>14. RestoreWaits'
  <2>1. \A p \in DOMAIN commands' : commands'[p] = job
    BY <1>6
  <2>2. job # "restore"
    BY DEF UserJobs
  <2> QED
    BY <2>1, <2>2 DEF RestoreWaits
<1>15. Pumped'
  BY <1>2, <1>6 DEF Pumped
<1> QED
  BY <1>1, <1>2, <1>6, <1>13, <1>14, <1>15 DEF TalkInv

\* What is no job comes behind whatever waits.
LEMMA Behind ==
  ASSUME FirstCommand, NEW move \in Commands \ UserJobs, commands' = Append(commands, move)
  PROVE  /\ \A p \in DOMAIN commands : /\ p \in DOMAIN commands' /\ commands'[p] = commands[p]
                                       /\ p \in Nat /\ p < Len(commands) + 1
         /\ \A p \in DOMAIN commands' : p \in DOMAIN commands
                                        \/ (p = Len(commands) + 1 /\ commands'[p] = move)
         /\ \A any : Pending(any)' <=> Pending(any) \/ any = move
<1>1. \A any : Pending(any)' <=> Pending(any) \/ any = move
  BY MoveQueued
<1> QED
  BY <1>1 DEF FirstCommand

\* What waits before a restore still does, when another move is queued.
LEMMA MoveBehind ==
  ASSUME FirstCommand, RestoreWaits, NEW move \in Commands \ UserJobs,
         commands' = Append(commands, move), UNCHANGED client,
         move = "restore" =>
           \A job \in UserJobs : Runs(client, job) \/ Pending(job) =>
             \/ Pending("title") \/ Pending("restart")
             \/ job = "project" /\ Pending("cancel")
  PROVE  RestoreWaits'
<1>1. SUFFICES ASSUME NEW p \in DOMAIN commands', commands'[p] = "restore",
                      NEW job \in UserJobs, Runs(client, job) \/ Pending(job)
               PROVE  \E q \in DOMAIN commands' :
                        /\ q < p
                        /\ \/ commands'[q] \in {"title", "restart"}
                           \/ job = "project" /\ commands'[q] = "cancel"
  BY Behind DEF RestoreWaits
<1>2. CASE p \in DOMAIN commands
  <2>1. commands[p] = "restore"
    BY <1>1, <1>2, Behind
  <2>2. PICK q \in DOMAIN commands :
          /\ q < p
          /\ commands[q] \in {"title", "restart"} \/ (job = "project" /\ commands[q] = "cancel")
    BY <1>1, <1>2, <2>1 DEF RestoreWaits
  <2> QED
    BY <2>2, Behind
<1>3. CASE p \notin DOMAIN commands
  <2>1. p = Len(commands) + 1 /\ move = "restore"
    BY <1>1, <1>3, Behind
  <2>2. \/ Pending("title") \/ Pending("restart") \/ (job = "project" /\ Pending("cancel"))
    BY <1>1, <2>1
  <2>3. \A any : Pending(any) => \E q \in DOMAIN commands : commands[q] = any
    BY DEF Pending, In
  <2>4. PICK q \in DOMAIN commands :
          commands[q] \in {"title", "restart"} \/ (job = "project" /\ commands[q] = "cancel")
    BY <2>2, <2>3
  <2> QED
    BY <2>1, <2>4, Behind
<1> QED
  BY <1>2, <1>3

\* The project file is cancelled, or the game is left, restarted or restored.
LEMMA MoveGoes ==
  ASSUME JobInv, TalkInv, CancelExport \/ Leave
  PROVE  TalkInv' /\ pc' # "closed"
<1>1. PICK move \in {"cancel", "title", "restart", "restore"} :
        /\ Choose(move)
        /\ app'.fatal = app.fatal \/ move # "cancel"
        /\ ~app.fatal \/ (move # "restore" /\ "diagnosis" \notin app.flags)
        /\ move = "restore" => app.flags = {}
  <2>1. pc # "closed" /\ app \in [flags : SUBSET UserJobs, fatal : BOOLEAN]
    BY DEF CancelExport, Leave, Choose, JobInv, Orderly
  <2>2. CASE CancelExport
    <3>1. Choose("cancel") /\ ~app.fatal /\ app' = [app EXCEPT !.flags = app.flags \ {"project"}]
      BY <2>2 DEF CancelExport
    <3>2. app'.fatal = app.fatal
      BY <2>1, <3>1, AppFields
    <3> QED
      BY <3>1, <3>2
  <2>3. CASE Leave
    BY <2>3, TransferAssumption DEF Leave, MenuOpen
  <2> QED
    BY <2>2, <2>3
<1>2. /\ pc # "closed" /\ commands' = Append(commands, move) /\ UNCHANGED <<client, open, pc>>
      /\ Orderly /\ FirstCommand
  BY <1>1 DEF Choose, JobInv, Orderly
<1>3. /\ Converses(client, open) /\ client.failed = FALSE /\ Ready /\ RestoreWaits /\ Pumped
  BY <1>2 DEF TalkInv
<1>4. move \in Commands \ UserJobs
  BY DEF Commands, UserJobs
<1>5. \A any : Pending(any)' <=> Pending(any) \/ any = move
  BY <1>2, <1>4, Behind
<1>6. Manual \subseteq UserJobs /\ {"diagnosis", "project"} \subseteq UserJobs
  BY DEF Manual, UserJobs
<1>7. ~((Runs(client, "diagnosis") \/ Pending("diagnosis"))
          /\ (Runs(client, "project") \/ Pending("project")))
  <2>1. SUFFICES ASSUME Runs(client, "diagnosis") \/ Pending("diagnosis"), app.fatal PROVE FALSE
    BY <1>3 DEF Ready
  <2>2. "diagnosis" \in app.flags
    BY <1>2, <1>6, <2>1 DEF Orderly, Shown, Manual
  <2> QED
    BY <1>1, <2>1, <2>2
<1>8. Ready'
  BY <1>2, <1>3, <1>4, <1>5, <1>6, <1>7 DEF Ready
<1>9. RestoreWaits'
  <2>1. ASSUME move = "restore", NEW job \in UserJobs, Runs(client, job) \/ Pending(job)
        PROVE  \/ Pending("title") \/ Pending("restart")
               \/ job = "project" /\ Pending("cancel")
    BY <1>1, <1>2, <2>1 DEF Orderly, Shown, Leaving
  <2> QED
    BY <1>2, <1>3, <1>4, <2>1, MoveBehind
<1>10. Pumped'
  BY <1>2, <1>3 DEF Pumped
<1> QED
  BY <1>2, <1>3, <1>8, <1>9, <1>10 DEF TalkInv

\* The client changes in nothing that is under way.
LEMMA Unheard ==
  ASSUME JobInv, TalkInv, pc # "closed", UNCHANGED <<commands, open, pc>>,
         NEW r, r = client', r.sent = client.sent, r.polled = client.polled,
         r.failed = client.failed, r.export = client.export, r.import = client.import,
         r.project = NoProject <=> client.project = NoProject,
         r.diagnosis = NoDiagnosis <=> client.diagnosis = NoDiagnosis,
         r.cache.due = client.cache.due, r.cache.prepared = client.cache.prepared,
         r.cache.waiting \in BOOLEAN,
         pc = "commands" \/ r.cache.waiting = client.cache.waiting,
         Runs(client, "diagnosis") \/ Pending("diagnosis") => (app.fatal => app'.fatal)
  PROVE  TalkInv'
<1>1. /\ Converses(client, open) /\ client.failed = FALSE /\ Ready /\ RestoreWaits /\ Pumped
  BY DEF TalkInv
<1>2. Line(r) = Line(client) /\ Wired(r)
  BY <1>1 DEF Line, Wired, Converses
<1>3. Placed(r)
  BY <1>1 DEF Converses, Placed
<1>4. Converses(r, open)
  BY <1>1, <1>2, <1>3 DEF Converses
<1>5. \A job : Runs(r, job) <=> Runs(client, job)
  BY DEF Runs
<1>6. Ready'
  <2>1. \A any : Pending(any)' <=> Pending(any)
    BY DEF Pending
  <2>2. \A job \in UserJobs : Pending(job) =>
          r.import = NoImport /\ (r.export = NoExport => Silent(r))
    BY <1>1, <1>2 DEF Ready, Silent
  <2>3. \A job \in Manual : Pending(job) => r.export = NoExport /\ ~r.cache.due
    BY <1>1 DEF Ready
  <2>4. (Runs(r, "diagnosis") \/ Pending("diagnosis"))
          /\ (Runs(r, "project") \/ Pending("project")) => app'.fatal /\ ~Pending("cancel")
    BY <1>1, <1>5 DEF Ready
  <2> QED
    BY <2>1, <2>2, <2>3, <2>4 DEF Ready
<1>7. RestoreWaits'
  BY <1>1, <1>5, RestoreStillWaits
<1>8. Pumped'
  BY <1>1 DEF Pumped
<1> QED
  BY <1>1, <1>4, <1>6, <1>7, <1>8 DEF TalkInv

\* An event is handled.
LEMMA EventGoes ==
  ASSUME JobInv, TalkInv, HandleEvent
  PROVE  TalkInv' /\ UNCHANGED pc
<1>1. /\ UNCHANGED <<commands, open, pc>> /\ client.events # <<>>
      /\ client' = [client EXCEPT !.events = Tail(client.events)]
      /\ app'.fatal <=> Head(client.events) = "fault"
                        \/ (app.fatal /\ Head(client.events) # "reset")
  BY DEF HandleEvent
<1>2. CASE pc = "closed"
  BY <1>1, <1>2 DEF TalkInv
<1>3. CASE pc # "closed"
  <2>1. Orderly /\ Shape(client)
    BY <1>3 DEF JobInv, Orderly, Coherent
  <2> DEFINE r == client'
  <2>2. /\ r.sent = client.sent /\ r.polled = client.polled /\ r.failed = client.failed
        /\ r.export = client.export /\ r.import = client.import /\ r.project = client.project
        /\ r.diagnosis = client.diagnosis /\ r.cache = client.cache
    BY <1>1, <2>1 DEF Shape, NewClient
  <2>3. client.cache.waiting \in BOOLEAN
    BY <1>3 DEF TalkInv, Converses, Placed
  <2>4. Runs(client, "diagnosis") \/ Pending("diagnosis") => (app.fatal => app'.fatal)
    <3>1. Head(client.events) \in In(client.events)
      BY <1>1, <2>1, EventQueue DEF Shape
    <3>2. Runs(client, "diagnosis") \/ Pending("diagnosis") => ~Ending(client, "diagnosis")
      BY <2>1 DEF Orderly, Shown, UserJobs
    <3> QED
      BY <1>1, <3>1, <3>2 DEF Ending
  <2> HIDE DEF r
  <2>5. r = client'
    BY DEF r
  <2> QED
    BY <1>1, <1>3, <2>2, <2>3, <2>4, <2>5, Unheard
<1> QED
  BY <1>2, <1>3

\* A delay is over, or begins again.
LEMMA DelayGoes ==
  ASSUME JobInv, TalkInv, TimePasses \/ Defer
  PROVE  TalkInv' /\ pc' # "closed"
<1>1. Orderly /\ Coherent(client) /\ Shape(client) /\ UNCHANGED <<app, commands, open, pc>>
      /\ pc = "commands"
  BY DEF JobInv, TimePasses, Defer, Orderly, Coherent
<1> DEFINE r == client'
<1>2. /\ r.sent = client.sent /\ r.polled = client.polled /\ r.failed = client.failed
      /\ r.export = client.export /\ r.import = client.import
      /\ r.cache.due = client.cache.due /\ r.cache.prepared = client.cache.prepared
      /\ r.cache.waiting \in BOOLEAN
  <2>1. CASE TimePasses
    BY <1>1, <2>1 DEF TimePasses, Shape, NewClient, NoCache
  <2>2. CASE Defer
    BY <1>1, <2>2 DEF Defer, Shape, NewClient, NoCache
  <2> QED
    BY <2>1, <2>2
<1>3. /\ r.project \in {client.project, [client.project EXCEPT !.waiting = FALSE]}
      /\ r.diagnosis \in {client.diagnosis, [client.diagnosis EXCEPT !.waiting = FALSE]}
  BY <1>1 DEF TimePasses, Defer, Shape, NewClient, NoCache
<1>4. r.project = NoProject <=> client.project = NoProject
  <2>1. /\ client.project.file = 0 => client.project = NoProject
        /\ [client.project EXCEPT !.waiting = FALSE].file = client.project.file
        /\ NoProject.file = 0
    BY <1>1 DEF Coherent, NoneIsNone, Shape, NoProject
  <2>2. [NoProject EXCEPT !.waiting = FALSE] = NoProject
    <3>1. NoProject \in [file : Nat, waiting : BOOLEAN] /\ NoProject.waiting = FALSE
      BY DEF NoProject
    <3> QED
      BY <3>1
  <2> QED
    BY <1>3, <2>1, <2>2
<1>5. r.diagnosis = NoDiagnosis <=> client.diagnosis = NoDiagnosis
  <2>1. /\ client.diagnosis.stage = "none" => client.diagnosis = NoDiagnosis
        /\ [client.diagnosis EXCEPT !.waiting = FALSE].stage = client.diagnosis.stage
        /\ NoDiagnosis.stage = "none"
    BY <1>1 DEF Coherent, NoneIsNone, Shape, NoDiagnosis
  <2>2. [NoDiagnosis EXCEPT !.waiting = FALSE] = NoDiagnosis
    <3>1. /\ NoDiagnosis \in [stage : {"none"}, folder : Nat, parts : {{}}, waiting : BOOLEAN]
          /\ NoDiagnosis.waiting = FALSE
      BY DEF NoDiagnosis
    <3> QED
      BY <3>1
  <2> QED
    BY <1>3, <2>1, <2>2
<1> HIDE DEF r
<1>6. r = client' /\ app'.fatal = app.fatal
  BY <1>1 DEF r
<1> QED
  BY <1>1, <1>2, <1>4, <1>5, <1>6, Unheard

\* The pump goes on, or nothing happens.
LEMMA PumpGoes ==
  ASSUME TalkInv, BeginPump \/ EndDrive \/ EndPoll \/ UNCHANGED vars
  PROVE  TalkInv' /\ (pc' = "closed" => pc = "closed")
<1>1. /\ UNCHANGED <<client, app, commands, open>> /\ (pc' # "closed" => pc # "closed")
      /\ pc' = "closed" => pc = "closed"
  BY DEF BeginPump, EndDrive, EndPoll, vars
<1>2. pc # "closed" => Ready' /\ RestoreWaits'
  BY <1>1 DEF TalkInv, Ready, RestoreWaits, Pending
<1>3. pc # "closed" => Pumped'
  BY <1>1 DEF TalkInv, Pumped, BeginPump, EndDrive, EndPoll, vars
<1> QED
  BY <1>1, <1>2, <1>3 DEF TalkInv

-----------------------------------------------------------------------------
(* The theorems about what is under way *)

\* The jobs and what is said about them.
LineInv == JobInv /\ TalkInv /\ Opened

\* A new client has said nothing.
LEMMA InitTalks ==
  ASSUME Init
  PROVE  LineInv
<1>1. PICK due \in {FALSE, ~Packaged} : client = [NewClient EXCEPT !.cache.due = due]
  BY DEF Init
<1>2. /\ client.export = NoExport /\ client.project = NoProject /\ client.diagnosis = NoDiagnosis
      /\ client.import = NoImport /\ client.sent = <<>> /\ client.polled = <<>>
      /\ client.failed = FALSE /\ client.cache.due = due /\ client.cache.waiting = FALSE
      /\ client.cache.prepared = FALSE
  BY <1>1 DEF NewClient, NoCache
<1>3. commands = <<>> /\ open = {} /\ pc = "commands" /\ left.failures = MaxFailures
      /\ DOMAIN left = {"actions", "rejects", "failures", "faults"}
  BY DEF Init
<1>4. Line(client) = <<>> /\ Wired(client)
  BY <1>2 DEF Line, Wired
<1>5. NoExport.stage = "none" /\ NoImport.purpose = "none"
  BY DEF NoExport, NoImport
<1>6. due \in BOOLEAN /\ (Packaged => ~due)
  BY <1>1, TransferAssumption
<1>7. Placed(client)
  BY <1>2, <1>5, <1>6 DEF Placed
<1>8. Converses(client, open)
  BY <1>2, <1>3, <1>4, <1>7, NothingSaid DEF Converses
<1>9. \A any : ~Pending(any)
  BY <1>3 DEF Pending, In
<1>10. ~Runs(client, "diagnosis")
  BY <1>2 DEF Runs, Manual
<1>11. Ready
  BY <1>9, <1>10 DEF Ready, Manual, UserJobs
<1>12. RestoreWaits /\ Pumped
  BY <1>2, <1>3 DEF RestoreWaits, Pumped
<1>13. TalkInv /\ Opened
  BY <1>2, <1>3, <1>8, <1>11, <1>12 DEF TalkInv, Opened
<1> QED
  BY <1>13, InitHolds DEF LineInv

\* The runtime opens nothing but exports.
LEMMA OpensExports ==
  ASSUME JobInv, TalkInv, Opened, [Next]_vars
  PROVE  Opened'
<1>1. open' = open \/ open' = {} \/ RtConsume
  BY DEF Next, Worker, ProcessCommand, BeginPump, EndDrive, HandleOutput, EndPoll, MaybeRefresh,
         TimePasses, Defer, RtFault, StartExport, StartDiagnosis, CancelExport, Leave, Choose,
         HandleEvent, Stopped, vars
<1>2. CASE RtConsume
  <2> DEFINE m == Head(client.sent)
  <2>1. RtExport(m) \/ RtRead(m) \/ RtImport(m) \/ RtClose(m)
    BY <1>2 DEF RtConsume
  <2>2. CASE RtExport(m)
    <3>1. m.kind \in Kinds \cup {"none"}
      BY <1>2, Consumes DEF Messages
    <3>2. \/ open' = open
          \/ \E id, chunks :
               open' = open \cup {[id |-> id, kind |-> m.kind, chunks |-> chunks]}
      BY <2>2 DEF RtExport, Reply
    <3> HIDE DEF m
    <3> QED
      BY <3>1, <3>2 DEF Opened
  <2>3. CASE RtRead(m)
    <3>1. \/ open' \subseteq open
          \/ \E e \in open : open' = (open \ {e}) \cup {[e EXCEPT !.chunks = e.chunks - 1]}
      BY <2>3 DEF RtRead, Reply
    <3>2. ASSUME NEW e \in open
          PROVE  LET rest == [e EXCEPT !.chunks = e.chunks - 1] IN
                 DOMAIN rest = DOMAIN e /\ rest.kind = e.kind
      BY DEF Opened
    <3> QED
      BY <3>1, <3>2 DEF Opened
  <2>4. CASE RtImport(m)
    BY <2>4 DEF RtImport, Reply, Opened
  <2>5. CASE RtClose(m)
    BY <2>5 DEF RtClose, Reply, Opened
  <2> QED
    BY <2>1, <2>2, <2>3, <2>4, <2>5
<1> QED
  BY <1>1, <1>2 DEF Opened

\* Every step goes on with the conversation.
LEMMA NextGoes ==
  ASSUME JobInv, TalkInv, Opened, Careful, "folder" \notin DiskFailures, [Next]_vars, [Waits]_vars
  PROVE  TalkInv'
<1>1. CASE ProcessCommand
  BY <1>1, ProcessGoes
<1>2. CASE BeginPump \/ EndDrive \/ EndPoll \/ Stopped \/ UNCHANGED vars
  BY <1>2, PumpGoes DEF Stopped
<1>3. CASE HandleOutput
  BY <1>3, HandleGoes
<1>4. CASE MaybeRefresh
  BY <1>4, RefreshGoes
<1>5. CASE TimePasses \/ Defer
  BY <1>5, DelayGoes
<1>6. CASE RtConsume
  BY <1>6, ConsumeGoes
<1>7. CASE RtFault
  BY <1>7, FaultGoes
<1>8. CASE StartExport \/ StartDiagnosis
  BY <1>2, <1>8, ChooseGoes
<1>9. CASE CancelExport \/ Leave
  BY <1>9, MoveGoes
<1>10. CASE HandleEvent
  BY <1>10, EventGoes
<1> QED
  BY <1>1, <1>2, <1>3, <1>4, <1>5, <1>6, <1>7, <1>8, <1>9, <1>10 DEF Next, Worker

\* Every step keeps the invariant.
LEMMA NextTalks ==
  ASSUME LineInv, Careful, "folder" \notin DiskFailures, [Next]_vars, [Waits]_vars
  PROVE  LineInv'
BY NextKeeps, NextGoes, OpensExports DEF LineInv

\* While nothing is said and nothing is exported, what the runtime has open is closed.
LEMMA TalkReleased ==
  ASSUME TalkInv
  PROVE  RuntimeReleased
<1>1. SUFFICES ASSUME pc = "commands", client.export = NoExport, client.sent = <<>>
               PROVE  open = {}
  BY DEF RuntimeReleased
<1>2. client.polled = <<>> /\ Conversation(Line(client), client.export, client.import, open)
  BY <1>1 DEF TalkInv, Pumped, Converses
<1>3. Line(client) = <<>>
  BY <1>1, <1>2 DEF Line
<1>4. \A e \in open : ~Held(Line(client), NoExport, e)
  BY DEF Held
<1> QED
  BY <1>1, <1>2, <1>3, <1>4 DEF Conversation, Covered
=============================================================================
