--------------------------- MODULE ArrivalProofs ----------------------------
(***************************************************************************)
(* Theorems about how texts come in and are read, for any files, workers,  *)
(* models and people, wherever a daemon fails or stops.                    *)
(*                                                                         *)
(* ReadingQueue: a source counts once, a finished job has left no text     *)
(* behind, and the queues come to no more than the ledger of               *)
(* ReadingLedger. A text nobody has read backs nothing, and what a reader  *)
(* has stored is stamped in the same transaction, so the stamp tells       *)
(* whether its rows are there. What a worker holds may be stale, but a     *)
(* transaction looks at the stamp, and at the rows, again.                 *)
(*                                                                         *)
(* Intake: nothing is stored twice, and what is in done/ was read and      *)
(* stored unless it came between the last look at it and the move. The     *)
(* task does not look at what it has stored again, so the invariant says   *)
(* at each of its steps which part of the file it is at has been stored.   *)
(* The file it finds at a name is the one it listed, or one that came      *)
(* later and has a higher version; what it moves is what is there then.    *)
(*                                                                         *)
(* ProjectTree: what requests fill projects with stays a tree, and a file  *)
(* is read only for a place it gets. Paths never change their kind while   *)
(* the project is there; and of the requests to a folder only the first in *)
(* the queue is at work, so the place it has checked stays free.           *)
(***************************************************************************)
EXTENDS ReadingQueue, Intake, ProjectTree, FiniteSetTheorems, NaturalsInduction,
        WellFoundedInduction, TLAPS

JobRecord == [id : Nat, model : Model \cup {None}, status : {"none", "running", "done", "cancelled"}]

\* A text that has not been read backs nothing.
UnreadBacksNothing == \A f \in File : read[f] = "no" => \A r \in Reader : backed[f][r] = 0

\* The stamp of a model says that its claims are there.
StampIsTrue == \A f \in File : llm[f] \in Model => backed[f][llm[f]] = 1

\* A job has a number and a model; so has the copy a worker holds of one while
\* it reads for it.
JobsAreNamed ==
    /\ job \in JobRecord /\ held \in [Worker -> JobRecord]
    /\ job.status \in {"running", "done"} => job.id > 0 /\ job.model \in Model
    /\ \A w \in Worker : /\ held[w].id <= scenario.jobs
                         /\ stage[w] = "read again" => held[w].id > 0 /\ held[w].model \in Model

\* What a job is to go over had been read.
BaseWasRead == \A f \in base : read[f] # "no"

\* The inductive invariant.
ReadingInv == /\ ReadingIsSound
              /\ UnreadBacksNothing
              /\ StampIsTrue
              /\ JobsAreNamed
              /\ BaseWasRead

\* The bounds of a scenario are numbers, and its models are models.
LEMMA Bounds ==
    ReadingInv => /\ scenario.jobs \in Nat /\ scenario.crashes \in Nat /\ scenario.errors \in Nat
                  /\ scenario.models \subseteq Model
BY ReadingAssumption DEF ReadingInv, ReadingIsSound, ReadingTypeOK, JobTypes, ReadingAssumption

-----------------------------------------------------------------------------
\* A batch is part of its queue, and empty only if the queue is.
LEMMA BatchOfQueue ==
    ASSUME NEW queue \in SUBSET File, NEW S \in Batches(queue)
    PROVE  /\ S \subseteq queue
           /\ S = {} => queue = {}
<1>1. S \subseteq queue
  BY DEF Batches
<1>2. ASSUME S = {} PROVE queue = {}
  <2>1. IsFiniteSet(queue)
    BY ReadingAssumption, FS_Subset DEF ReadingAssumption
  <2>2. Cardinality(S) = 0
    BY <1>2, FS_EmptySet
  <2>3. Cardinality(queue) \in Nat
    BY <2>1, FS_CardinalityType
  <2>4. Cardinality(queue) = 0
    BY <2>2, <2>3, ReadingAssumption DEF Batches, ReadingAssumption
  <2>. QED
    BY <2>1, <2>4, FS_EmptySet
<1>. QED
  BY <1>1, <1>2

\* What a transaction adds: one row for each of the readers, none for others.
LEMMA RowsAdded ==
    ASSUME backed \in [File -> [Reader -> Nat]], NEW f \in File, NEW readers
    PROVE  /\ Back(f, readers) \in [File -> [Reader -> Nat]]
           /\ \A g \in File : \A r \in Reader :
                 Back(f, readers)[g][r] = IF g = f /\ r \in readers THEN backed[g][r] + 1 ELSE backed[g][r]
BY DEF Back

-----------------------------------------------------------------------------
\* The first state of the library and its workers.
LEMMA InitInv ==
    ReadingInit => ReadingInv
<1>. SUFFICES ASSUME ReadingInit PROVE ReadingInv
  OBVIOUS
<1>1. scenario.jobs \in Nat /\ scenario.crashes \in Nat /\ scenario.errors \in Nat
  BY ReadingAssumption DEF ReadingInit, ReadingAssumption
<1>2. ReadingTypeOK
  BY <1>1 DEF ReadingInit, ReadingTypeOK, FileTypes, WorkerTypes, JobTypes, NoJob, OcrOutcome, Stages, Reader
<1>3. SourceCountedOnce /\ JobsLeaveNothing
  BY DEF ReadingInit, SourceCountedOnce, JobsLeaveNothing, NoJob
<1>4. UnreadBacksNothing /\ StampIsTrue /\ BaseWasRead
  BY ReadingAssumption DEF ReadingInit, UnreadBacksNothing, StampIsTrue, BaseWasRead, ReadingAssumption
<1>5. JobsAreNamed
  BY <1>1 DEF ReadingInit, JobsAreNamed, NoJob, JobRecord
<1>. QED
  BY <1>2, <1>3, <1>4, <1>5 DEF ReadingInv, ReadingIsSound

-----------------------------------------------------------------------------
\* What follows a queue is not the middle of one.
LEMMA NextQueue ==
    \A s \in Stages : After[s] \in Stages \ {"read again"}
BY DEF After, Stages

\* The parts of the invariant a step has to keep, apart.
LEMMA KeepParts ==
    ASSUME FileTypes', WorkerTypes', JobTypes', SourceCountedOnce', JobsLeaveNothing',
           UnreadBacksNothing', StampIsTrue', JobsAreNamed', BaseWasRead'
    PROVE  ReadingInv'
BY DEF ReadingInv, ReadingIsSound, ReadingTypeOK

\* A step that leaves rows, stamps and jobs alone has to keep the rest; a
\* withdrawal only asks less of a job.
LEMMA RowsStay ==
    ASSUME ReadingInv, UNCHANGED <<read, llm, visit, backed, base, job, scenario>>,
           withdrawn \subseteq withdrawn', withdrawn' \subseteq File,
           opened' \in [File -> {"absent", "pending", "processing"} \cup OcrOutcome],
           digest' \in [File -> {"none", "extractive", "llm"}],
           WorkerTypes', JobsAreNamed',
           dropped' \subseteq File, crashes' \in 0..scenario.crashes, errors' \in 0..scenario.errors
    PROVE  ReadingInv'
<1>1. FileTypes'
  BY DEF ReadingInv, ReadingIsSound, ReadingTypeOK, FileTypes
<1>2. JobTypes'
  BY DEF ReadingInv, ReadingIsSound, ReadingTypeOK, JobTypes
<1>3. (SourceCountedOnce /\ UnreadBacksNothing /\ StampIsTrue /\ BaseWasRead /\ JobsLeaveNothing)'
  BY DEF ReadingInv, ReadingIsSound, SourceCountedOnce, UnreadBacksNothing, StampIsTrue, BaseWasRead,
         JobsLeaveNothing
<1>. QED
  BY <1>1, <1>2, <1>3, KeepParts

\* To hold no job is to hold one that has no number.
LEMMA HoldsNone ==
    ReadingInv => NoJob \in JobRecord /\ NoJob.id <= scenario.jobs
BY Bounds DEF NoJob, JobRecord

\* A worker that goes elsewhere may keep the copy of a job, or drop it.
LEMMA MovesOn ==
    ASSUME ReadingInv, WorkerTypes, JobsAreNamed, NEW w \in Worker, NEW s \in Stages \ {"read again"},
           stage' = [stage EXCEPT ![w] = s], held' \in {held, [held EXCEPT ![w] = NoJob]},
           UNCHANGED <<job, scenario>>
    PROVE  JobsAreNamed'
<1>1. NoJob \in JobRecord /\ NoJob.id <= scenario.jobs
  BY HoldsNone
<1>2. held' \in [Worker -> JobRecord] /\ \A v \in Worker : held'[v].id <= scenario.jobs
  BY <1>1 DEF JobsAreNamed
<1>3. \A v \in Worker : stage'[v] = "read again" => v # w /\ stage[v] = "read again" /\ held'[v] = held[v]
  BY DEF WorkerTypes, JobsAreNamed
<1>. QED
  BY <1>2, <1>3 DEF JobsAreNamed

\* What people do but for jobs.
LEMMA PeopleStep ==
    ASSUME ReadingInv, NEW f \in File, Import(f) \/ Withdraw(f)
    PROVE  ReadingInv'
<1>1. FileTypes /\ WorkerTypes /\ JobTypes
  BY DEF ReadingInv, ReadingIsSound, ReadingTypeOK
<1>2. /\ opened' \in [File -> {"absent", "pending", "processing"} \cup OcrOutcome]
      /\ withdrawn \subseteq withdrawn' /\ withdrawn' \subseteq File
  BY <1>1 DEF FileTypes, Import, Withdraw, OcrOutcome
<1>3. UNCHANGED <<read, llm, visit, backed, base, job, scenario, digest, dropped, crashes, errors>>
  BY DEF Import, Withdraw
<1>4. WorkerTypes' /\ JobsAreNamed'
  BY <1>1 DEF ReadingInv, WorkerTypes, JobsAreNamed, Import, Withdraw, workerVars
<1>. QED
  BY <1>1, <1>2, <1>3, <1>4, RowsStay DEF FileTypes, JobTypes

\* A job starts when the one before is over; what it is to go over has been read.
LEMMA JobStep ==
    ASSUME ReadingInv, CancelReread \/ \E w \in Worker : StartReread(w)
    PROVE  ReadingInv'
<1>0. FileTypes /\ WorkerTypes /\ JobTypes /\ JobsAreNamed /\ scenario.jobs \in Nat
  BY Bounds DEF ReadingInv, ReadingIsSound, ReadingTypeOK
<1>1. FileTypes' /\ WorkerTypes'
  BY <1>0 DEF FileTypes, WorkerTypes, CancelReread, StartReread, fileVars, workerVars
<1>2. (SourceCountedOnce /\ UnreadBacksNothing /\ StampIsTrue /\ BaseWasRead)'
  BY DEF ReadingInv, ReadingIsSound, SourceCountedOnce, UnreadBacksNothing, StampIsTrue, BaseWasRead,
     CancelReread, StartReread, fileVars
<1>3. CASE CancelReread
  <2>1. job' \in JobRecord /\ job'.id = job.id /\ job'.status = "cancelled"
    BY <1>0, <1>3 DEF CancelReread, JobsAreNamed, JobRecord
  <2>2. JobTypes' /\ JobsAreNamed' /\ JobsLeaveNothing'
    BY <1>0, <1>3, <2>1 DEF JobTypes, JobsAreNamed, JobsLeaveNothing, CancelReread, workerVars
  <2>. QED
    BY <1>1, <1>2, <2>2, KeepParts
<1>4. ASSUME NEW w \in Worker, StartReread(w) PROVE ReadingInv'
  <2>1. /\ job' = [id |-> job.id + 1, model |-> model[w], status |-> "running"]
        /\ job.id + 1 \in 1..scenario.jobs /\ model[w] \in Model
    BY <1>0, <1>4 DEF StartReread, JobTypes, WorkerTypes
  <2>2. job' \in JobRecord /\ job'.id \in 1..scenario.jobs /\ job'.model \in Model /\ job'.status = "running"
    BY <1>0, <2>1 DEF JobRecord
  <2>3. JobTypes'
    BY <1>0, <1>4, <2>2 DEF JobTypes, FileTypes, StartReread
  <2>4. UNCHANGED <<stage, held, scenario>>
    BY <1>4 DEF StartReread, workerVars
  <2>5. JobsAreNamed'
    <3>1. job' \in JobRecord /\ (job'.status \in {"running", "done"} => job'.id > 0 /\ job'.model \in Model)
      BY <1>0, <2>2 DEF JobTypes
    <3>2. held' \in [Worker -> JobRecord]
      BY <1>0, <2>4 DEF JobsAreNamed
    <3>3. ASSUME NEW v \in Worker
          PROVE  /\ held'[v].id <= scenario'.jobs
                 /\ stage'[v] = "read again" => held'[v].id > 0 /\ held'[v].model \in Model
      BY <1>0, <2>4 DEF JobsAreNamed
    <3>. QED
      BY <3>1, <3>2, <3>3 DEF JobsAreNamed
  <2>6. JobsLeaveNothing'
    BY <2>2 DEF JobsLeaveNothing
  <2>. QED
    BY <1>1, <1>2, <2>3, <2>5, <2>6, KeepParts
<1>. QED
  BY <1>3, <1>4

\* The worker as a process.
LEMMA ProcessStep ==
    ASSUME ReadingInv, NEW w \in Worker, Start(w) \/ Crash(w) \/ QueueFails(w) \/ QueueDone(w)
    PROVE  ReadingInv'
<1>0. FileTypes /\ WorkerTypes /\ JobTypes /\ JobsAreNamed
  BY DEF ReadingInv, ReadingIsSound, ReadingTypeOK
<1>1. UNCHANGED <<read, llm, visit, backed, base, job, scenario, withdrawn, digest>>
  BY DEF Start, Crash, QueueFails, QueueDone, fileVars
<1>2. After[stage[w]] \in Stages \ {"read again"}
  BY <1>0, NextQueue DEF WorkerTypes
<1>3. \E s \in Stages \ {"read again"}, S \in SUBSET File : Become(w, s, S)
  BY <1>2 DEF Start, Crash, QueueFails, QueueDone, Stages
<1>4. opened' \in [File -> {"absent", "pending", "processing"} \cup OcrOutcome]
  BY <1>0 DEF FileTypes, Start, Crash, QueueFails, QueueDone, Recovered, fileVars
<1>5. dropped' \subseteq File
  BY <1>0 DEF WorkerTypes, JobTypes, Start, Crash, QueueFails, QueueDone
<1>6. crashes' \in 0..scenario.crashes /\ errors' \in 0..scenario.errors
  <2>1. CASE Start(w) \/ QueueDone(w)
    BY <1>0, <2>1 DEF JobTypes, Start, QueueDone
  <2>2. CASE Crash(w)
    BY <1>0, <2>2, Bounds DEF JobTypes, Crash
  <2>3. CASE QueueFails(w)
    <3>1. crashes' = crashes /\ errors' = errors + 1 /\ errors < scenario.errors
      BY <2>3 DEF QueueFails
    <3>. QED
      BY <1>0, <3>1, Bounds DEF JobTypes
  <2>. QED
    BY <2>1, <2>2, <2>3
<1>7. WorkerTypes'
  <2>1. stage' \in [Worker -> Stages] /\ work' \in [Worker -> SUBSET File]
    BY <1>0, <1>3 DEF WorkerTypes, Become
  <2>2. model' \in [Worker -> Model \cup {None}]
    BY <1>0, Bounds DEF WorkerTypes, Start, Crash, QueueFails, QueueDone
  <2>3. busy' \in [Worker -> BOOLEAN]
    BY <1>0 DEF WorkerTypes, Start, Crash, QueueFails, QueueDone
  <2>. QED
    BY <2>1, <2>2, <2>3 DEF WorkerTypes
<1>8. JobsAreNamed'
  <2>1. held' \in {held, [held EXCEPT ![w] = NoJob]}
    BY DEF Start, Crash, QueueFails, QueueDone
  <2>. QED
    BY <1>0, <1>1, <1>3, <2>1, MovesOn DEF Become
<1>. QED
  BY <1>0, <1>1, <1>4, <1>5, <1>6, <1>7, <1>8, RowsStay DEF FileTypes

\* Opening files touches neither rows nor stamps.
LEMMA OpeningStep ==
    ASSUME ReadingInv, NEW w \in Worker, ClaimFiles(w) \/ OpenPdf(w) \/ OpenImage(w) \/ LoadFresh(w)
    PROVE  ReadingInv'
<1>0. FileTypes /\ WorkerTypes /\ JobTypes /\ JobsAreNamed
  BY DEF ReadingInv, ReadingIsSound, ReadingTypeOK
<1>1. UNCHANGED <<read, llm, visit, backed, base, job, scenario, withdrawn, digest, dropped, crashes, errors,
                  model, held, busy>>
  BY DEF ClaimFiles, OpenPdf, OpenImage, LoadFresh, fileVars
<1>2. opened' \in [File -> {"absent", "pending", "processing"} \cup OcrOutcome]
  BY <1>0 DEF FileTypes, WorkerTypes, ClaimFiles, OpenPdf, OpenImage, Opened, LoadFresh, fileVars, PdfOutcome,
     OcrOutcome
<1>3. \E s \in Stages \ {"read again"}, S \in SUBSET File : Become(w, s, S)
  <2>1. CASE ClaimFiles(w)
    BY <2>1, BatchOfQueue DEF ClaimFiles, Stages
  <2>2. CASE OpenPdf(w) \/ OpenImage(w)
    BY <1>0, <2>2 DEF WorkerTypes, OpenPdf, OpenImage, Opened, Stages
  <2>3. CASE LoadFresh(w)
    BY <2>3, BatchOfQueue DEF LoadFresh, Stages
  <2>. QED
    BY <2>1, <2>2, <2>3
<1>4. WorkerTypes' /\ JobsAreNamed'
  BY <1>0, <1>1, <1>3 DEF WorkerTypes, JobsAreNamed, Become
<1>. QED
  BY <1>0, <1>1, <1>2, <1>4, RowsStay DEF FileTypes, JobTypes

\* Neither do digests.
LEMMA DigestStep ==
    ASSUME ReadingInv, NEW w \in Worker, LoadDigest(w) \/ WriteDigest(w) \/ Reword(w)
    PROVE  ReadingInv'
<1>0. FileTypes /\ WorkerTypes /\ JobTypes /\ JobsAreNamed
  BY DEF ReadingInv, ReadingIsSound, ReadingTypeOK
<1>1. UNCHANGED <<read, llm, visit, backed, base, job, scenario, withdrawn, opened, dropped, crashes, errors,
                  model>>
  BY DEF LoadDigest, WriteDigest, Reword, fileVars
<1>2. digest' \in [File -> {"none", "extractive", "llm"}]
  BY <1>0 DEF FileTypes, WorkerTypes, LoadDigest, WriteDigest, Reword, fileVars
<1>3. \E s \in Stages \ {"read again"}, S \in SUBSET File : Become(w, s, S)
  BY <1>0 DEF WorkerTypes, LoadDigest, WriteDigest, Reword, Undigested, Stages
<1>4. busy' \in {busy, [busy EXCEPT ![w] = FALSE]} /\ held' \in {held, [held EXCEPT ![w] = NoJob]}
  BY DEF LoadDigest, WriteDigest, Reword
<1>5. WorkerTypes'
  BY <1>0, <1>1, <1>3, <1>4 DEF WorkerTypes, Become
<1>6. JobsAreNamed'
  BY <1>0, <1>1, <1>3, <1>4, MovesOn DEF Become
<1>. QED
  BY <1>0, <1>1, <1>2, <1>5, <1>6, RowsStay DEF FileTypes, JobTypes

-----------------------------------------------------------------------------
\* A text is read for the first time: nothing backed it, so every reader counts
\* once, and no job was to go over it.
LEMMA FreshStep ==
    ASSUME ReadingInv, NEW w \in Worker, ReadFresh(w)
    PROVE  ReadingInv'
<1>0. /\ FileTypes /\ WorkerTypes /\ JobTypes /\ JobsAreNamed
      /\ SourceCountedOnce /\ UnreadBacksNothing /\ StampIsTrue /\ BaseWasRead /\ JobsLeaveNothing
  BY DEF ReadingInv, ReadingIsSound, ReadingTypeOK
<1>1. PICK f \in work[w], by \in {None, model[w]} :
          /\ IF Claimable(f)
             THEN /\ read' = [read EXCEPT ![f] = "yes"]
                  /\ llm' = [llm EXCEPT ![f] = by]
                  /\ backed' = Back(f, {"rules", by})
                  /\ busy' = [busy EXCEPT ![w] = TRUE]
             ELSE UNCHANGED <<read, llm, backed, busy>>
          /\ Become(w, stage[w], work[w] \ {f})
  BY DEF ReadFresh
<1>2. /\ UNCHANGED <<opened, withdrawn, visit, digest, job, base, model, held, dropped, crashes, errors, scenario>>
      /\ stage[w] = "read fresh"
  BY DEF ReadFresh
<1>3. f \in File /\ by \in Model \cup {None}
  BY <1>0 DEF WorkerTypes
<1>4. WorkerTypes'
  BY <1>0, <1>1, <1>2 DEF WorkerTypes, Become
<1>5. JobsAreNamed'
  BY <1>0, <1>1, <1>2 DEF JobsAreNamed, WorkerTypes, Become
<1>6. JobTypes'
  BY <1>0, <1>2 DEF JobTypes
<1>7. CASE Claimable(f)
  <2>1. read[f] = "no" /\ f \notin base /\ \A r \in Reader : backed[f][r] = 0
    BY <1>0, <1>3, <1>7 DEF Claimable, UnreadBacksNothing, BaseWasRead
  <2>2. /\ read' = [read EXCEPT ![f] = "yes"]
        /\ llm' = [llm EXCEPT ![f] = by]
        /\ backed' = Back(f, {"rules", by})
    BY <1>1, <1>7
  <2>3. /\ backed' \in [File -> [Reader -> Nat]]
        /\ \A g \in File : g # f => \A r \in Reader : backed'[g][r] = backed[g][r]
        /\ \A r \in Reader : backed'[f][r] = IF r \in {"rules", by} THEN 1 ELSE 0
    BY <1>0, <1>3, <2>1, <2>2, RowsAdded DEF FileTypes
  <2>4. llm'[f] = by /\ \A g \in File : g # f => llm'[g] = llm[g]
    BY <1>0, <1>3, <2>2 DEF FileTypes
  <2>5. \A g \in File : llm'[g] = None <=> \A m \in Model : backed'[g][m] = 0
    <3>1. ASSUME NEW g \in File, g # f
          PROVE  llm'[g] = None <=> \A m \in Model : backed'[g][m] = 0
      BY <1>0, <2>3, <2>4, <3>1 DEF FileTypes, Reader
    <3>2. llm'[f] = None <=> \A m \in Model : backed'[f][m] = 0
      BY <1>3, <2>3, <2>4, ReadingAssumption DEF Reader, ReadingAssumption
    <3>. QED
      BY <3>1, <3>2
  <2>6. FileTypes'
    BY <1>0, <1>2, <1>3, <2>2, <2>3, <2>5 DEF FileTypes
  <2>7. SourceCountedOnce' /\ UnreadBacksNothing'
    <3>1. ASSUME NEW g \in File, NEW r \in Reader PROVE backed'[g][r] <= 1
      BY <1>0, <2>3 DEF SourceCountedOnce
    <3>2. ASSUME NEW g \in File, read'[g] = "no", NEW r \in Reader PROVE backed'[g][r] = 0
      <4>1. g # f /\ read[g] = "no"
        BY <1>0, <1>3, <2>2, <3>2 DEF FileTypes
      <4>. QED
        BY <1>0, <2>3, <4>1 DEF UnreadBacksNothing
    <3>. QED
      BY <3>1, <3>2 DEF SourceCountedOnce, UnreadBacksNothing
  <2>8. StampIsTrue'
    BY <1>0, <1>3, <2>3, <2>4 DEF StampIsTrue, Reader
  <2>9. BaseWasRead'
    BY <1>0, <1>2, <1>3, <2>2 DEF BaseWasRead, FileTypes, JobTypes
  <2>10. JobsLeaveNothing'
    <3>1. ASSUME job.status = "done", NEW g \in base \ withdrawn
          PROVE  backed'[g][job.model] = 1 \/ visit[g] # 0
      <4>1. g \in File /\ g # f /\ job.model \in Reader
        BY <1>0, <2>1, <3>1 DEF JobTypes, JobsAreNamed, Reader
      <4>. QED
        BY <1>0, <2>3, <3>1, <4>1 DEF JobsLeaveNothing
    <3>. QED
      BY <1>2, <3>1 DEF JobsLeaveNothing
  <2>. QED
    BY <1>4, <1>5, <1>6, <2>6, <2>7, <2>8, <2>9, <2>10, KeepParts
<1>8. CASE ~Claimable(f)
  BY <1>0, <1>1, <1>2, <1>4, <1>5, <1>8, RowsStay DEF FileTypes, JobTypes
<1>. QED
  BY <1>7, <1>8

\* A text that is set aside or given up keeps its rows; it counts as read, or
\* as visited by a job.
LEMMA GivenUpStep ==
    ASSUME ReadingInv, NEW w \in Worker, SetAside(w) \/ MarkVisited(w)
    PROVE  ReadingInv'
<1>0. /\ FileTypes /\ WorkerTypes /\ JobTypes /\ JobsAreNamed
      /\ SourceCountedOnce /\ UnreadBacksNothing /\ StampIsTrue /\ BaseWasRead /\ JobsLeaveNothing
  BY DEF ReadingInv, ReadingIsSound, ReadingTypeOK
<1>1. PICK f \in work[w] :
          /\ \/ read' = [read EXCEPT ![f] = IF @ = "no" THEN "aside" ELSE @] /\ visit' = visit
             \/ /\ visit' = [visit EXCEPT ![f] = held[w].id] /\ read' = read
                /\ stage[w] = "read again"
          /\ Become(w, stage[w], work[w] \ {f})
  BY DEF SetAside, MarkVisited, GivenUp
<1>2. /\ UNCHANGED <<opened, withdrawn, llm, backed, digest, job, base, model, held, dropped, crashes, errors, scenario>>
      /\ busy' \in {busy, [busy EXCEPT ![w] = TRUE]}
  BY DEF SetAside, MarkVisited
<1>3. f \in File
  BY <1>0 DEF WorkerTypes
<1>4. WorkerTypes'
  BY <1>0, <1>1, <1>2 DEF WorkerTypes, Become
<1>5. JobsAreNamed'
  BY <1>0, <1>1, <1>2 DEF JobsAreNamed, WorkerTypes, Become
<1>6. JobTypes'
  BY <1>0, <1>2 DEF JobTypes
<1>7. /\ visit' \in [File -> 0..scenario.jobs]
      /\ \A g \in File : visit[g] # 0 => visit'[g] # 0
  <2>1. CASE visit' = visit
    BY <1>0, <2>1 DEF FileTypes
  <2>2. CASE visit' = [visit EXCEPT ![f] = held[w].id] /\ stage[w] = "read again"
    <3>1. held[w].id \in 0..scenario.jobs /\ held[w].id # 0
      <4>1. held[w] \in JobRecord /\ held[w].id <= scenario.jobs /\ held[w].id > 0
        BY <1>0, <2>2 DEF JobsAreNamed
      <4>2. held[w].id \in Nat
        BY <4>1 DEF JobRecord
      <4>. QED
        BY <4>1, <4>2, Bounds
    <3>. QED
      BY <1>0, <1>3, <2>2, <3>1 DEF FileTypes
  <2>. QED
    BY <1>1, <2>1, <2>2
<1>8. /\ read' \in [File -> {"no", "yes", "aside"}]
      /\ \A g \in File : read'[g] = "no" <=> read[g] = "no" /\ (read' = read \/ g # f)
  BY <1>0, <1>1, <1>3 DEF FileTypes
<1>9. FileTypes'
  BY <1>0, <1>2, <1>7, <1>8 DEF FileTypes
<1>10. SourceCountedOnce' /\ UnreadBacksNothing' /\ StampIsTrue'
  BY <1>0, <1>2, <1>8 DEF SourceCountedOnce, UnreadBacksNothing, StampIsTrue
<1>11. BaseWasRead'
  BY <1>0, <1>2, <1>8 DEF BaseWasRead, JobTypes
<1>12. JobsLeaveNothing'
  BY <1>0, <1>2, <1>7 DEF JobsLeaveNothing, JobTypes
<1>. QED
  BY <1>4, <1>5, <1>6, <1>9, <1>10, <1>11, <1>12, KeepParts

\* A job is done when nothing is left in its queue: every other text that had
\* been read has the model's stamp, or a visit.
LEMMA LoadStep ==
    ASSUME ReadingInv, NEW w \in Worker, LoadReread(w) \/ CancelOther(w)
    PROVE  ReadingInv'
<1>0. /\ FileTypes /\ WorkerTypes /\ JobTypes /\ JobsAreNamed
      /\ SourceCountedOnce /\ UnreadBacksNothing /\ StampIsTrue /\ BaseWasRead /\ JobsLeaveNothing
  BY DEF ReadingInv, ReadingIsSound, ReadingTypeOK
<1>1. UNCHANGED <<opened, withdrawn, read, llm, visit, backed, digest, base, model, busy, dropped, crashes, errors,
                  scenario>>
  BY DEF LoadReread, CancelOther, fileVars
<1>2. FileTypes' /\ (SourceCountedOnce /\ UnreadBacksNothing /\ StampIsTrue /\ BaseWasRead)'
  BY <1>0, <1>1 DEF FileTypes, SourceCountedOnce, UnreadBacksNothing, StampIsTrue, BaseWasRead
<1>3. CASE LoadReread(w)
  <2>1. held' = [held EXCEPT ![w] = job]
    BY <1>3 DEF LoadReread
  <2>. DEFINE finished == job.status = "running" /\ RereadQueue(job) = {} /\ job' = [job EXCEPT !.status = "done"]
  <2>2. \E s \in Stages, S \in SUBSET File :
           /\ Become(w, s, S)
           /\ s = "read again" => job.status = "running"
           /\ job' = job \/ finished
    <3>1. CASE busy[w] \/ model[w] = None \/ job.status # "running"
      <4>1. Become(w, "digest", {}) /\ job' = job
        BY <1>3, <3>1 DEF LoadReread
      <4>2. "digest" \in Stages /\ {} \in SUBSET File
        BY DEF Stages
      <4>. HIDE DEF finished
      <4>. QED
        BY <4>1, <4>2
    <3>2. CASE ~(busy[w] \/ model[w] = None \/ job.status # "running") /\ job.model # model[w]
      <4>1. Become(w, "cancel", {}) /\ job' = job
        BY <1>3, <3>2 DEF LoadReread
      <4>2. "cancel" \in Stages /\ {} \in SUBSET File
        BY DEF Stages
      <4>. HIDE DEF finished
      <4>. QED
        BY <4>1, <4>2
    <3>3. CASE ~(busy[w] \/ model[w] = None \/ job.status # "running") /\ job.model = model[w]
      <4>1. PICK S \in Batches(RereadQueue(job)) :
               IF S = {}
               THEN Become(w, "digest", {}) /\ job' = [job EXCEPT !.status = "done"]
               ELSE Become(w, "read again", S) /\ UNCHANGED job
        BY <1>3, <3>3 DEF LoadReread
      <4>2. RereadQueue(job) \in SUBSET File
        BY DEF RereadQueue, UnreadBy
      <4>3. S \in SUBSET File /\ (S = {} => RereadQueue(job) = {})
        BY <4>2, BatchOfQueue
      <4>4. \/ Become(w, "digest", {}) /\ finished
            \/ Become(w, "read again", S) /\ job' = job
        BY <3>3, <4>1, <4>3
      <4>5. "digest" \in Stages /\ "read again" \in Stages /\ {} \in SUBSET File
        BY DEF Stages
      <4>. HIDE DEF finished
      <4>. QED
        BY <3>3, <4>3, <4>4, <4>5
    <3>. QED
      BY <3>1, <3>2, <3>3
  <2>3. PICK s \in Stages, S \in SUBSET File :
           /\ Become(w, s, S)
           /\ s = "read again" => job.status = "running"
           /\ job' = job \/ finished
    BY <2>2
  <2>4. /\ job' \in JobRecord /\ job'.id = job.id /\ job'.model = job.model
        /\ job'.status = job.status \/ (job.status = "running" /\ job'.status = "done")
    BY <1>0, <2>3 DEF JobsAreNamed, JobRecord
  <2>5. WorkerTypes'
    BY <1>0, <1>1, <2>3 DEF WorkerTypes, Become
  <2>6. JobTypes'
    BY <1>0, <1>1, <2>4 DEF JobTypes
  <2>7. JobsAreNamed'
    <3>1. job.id <= scenario.jobs
      BY <1>0, Bounds DEF JobTypes
    <3>2. held' \in [Worker -> JobRecord]
      BY <1>0, <2>1 DEF JobsAreNamed
    <3>3. ASSUME NEW v \in Worker
          PROVE  /\ held'[v].id <= scenario'.jobs
                 /\ stage'[v] = "read again" => held'[v].id > 0 /\ held'[v].model \in Model
      <4>1. CASE v = w
        <5>1. held'[v] = job /\ stage'[v] = s
          BY <1>0, <2>1, <2>3, <4>1 DEF JobsAreNamed, WorkerTypes, Become
        <5>. QED
          BY <1>0, <1>1, <2>3, <3>1, <5>1 DEF JobsAreNamed
      <4>2. CASE v # w
        BY <1>0, <1>1, <2>1, <2>3, <4>2 DEF JobsAreNamed, WorkerTypes, Become
      <4>. QED
        BY <4>1, <4>2
    <3>4. job'.status \in {"running", "done"} => job'.id > 0 /\ job'.model \in Model
      BY <1>0, <2>4 DEF JobsAreNamed
    <3>. QED
      BY <2>4, <3>2, <3>3, <3>4 DEF JobsAreNamed
  <2>8. JobsLeaveNothing'
    <3>1. CASE job' = job
      BY <1>0, <1>1, <3>1 DEF JobsLeaveNothing
    <3>2. CASE job.status = "running" /\ RereadQueue(job) = {}
      <4>1. ASSUME NEW f \in base \ withdrawn PROVE backed[f][job.model] = 1 \/ visit[f] # 0
        <5>1. f \in File /\ f \notin withdrawn /\ read[f] # "no"
          BY <1>0 DEF JobTypes, BaseWasRead
        <5>2. llm[f] = job.model \/ visit[f] = job.id
          BY <3>2, <5>1 DEF RereadQueue, UnreadBy
        <5>3. job.id # 0 /\ job.model \in Model
          <6>1. job.id > 0 /\ job.model \in Model
            BY <1>0, <3>2 DEF JobsAreNamed
          <6>2. job.id \in Nat
            BY <1>0, Bounds DEF JobTypes
          <6>. QED
            BY <6>1, <6>2
        <5>. QED
          BY <1>0, <5>1, <5>2, <5>3 DEF StampIsTrue
      <4>. QED
        BY <1>1, <2>4, <4>1 DEF JobsLeaveNothing
    <3>. QED
      BY <2>3, <3>1, <3>2
  <2>. QED
    BY <1>2, <2>5, <2>6, <2>7, <2>8, KeepParts
<1>4. CASE CancelOther(w)
  <2>1. UNCHANGED held /\ Become(w, "digest", {})
    BY <1>4 DEF CancelOther
  <2>2. /\ job' \in JobRecord /\ job'.id = job.id /\ job'.model = job.model
        /\ job' = job \/ job'.status = "cancelled"
    BY <1>0, <1>4 DEF CancelOther, JobsAreNamed, JobRecord
  <2>3. WorkerTypes'
    BY <1>0, <1>1, <2>1 DEF WorkerTypes, Become, Stages
  <2>4. JobTypes'
    BY <1>0, <1>1, <2>2 DEF JobTypes
  <2>5. JobsAreNamed'
    BY <1>0, <1>1, <2>1, <2>2 DEF JobsAreNamed, WorkerTypes, Become
  <2>6. JobsLeaveNothing'
    BY <1>0, <1>1, <2>2 DEF JobsLeaveNothing
  <2>. QED
    BY <1>2, <2>3, <2>4, <2>5, <2>6, KeepParts
<1>. QED
  BY <1>3, <1>4

\* A model reads a text again: what it finds is added where it is not there
\* yet, with its stamp.
LEMMA AgainStep ==
    ASSUME ReadingInv, NEW w \in Worker, ReadAgain(w)
    PROVE  ReadingInv'
<1>0. /\ FileTypes /\ WorkerTypes /\ JobTypes /\ JobsAreNamed
      /\ SourceCountedOnce /\ UnreadBacksNothing /\ StampIsTrue /\ BaseWasRead /\ JobsLeaveNothing
  BY DEF ReadingInv, ReadingIsSound, ReadingTypeOK
<1>1. PICK f \in work[w] :
          /\ IF Reclaimable(f, held[w])
             THEN /\ llm' = [llm EXCEPT ![f] = held[w].model]
                  /\ visit' = [visit EXCEPT ![f] = held[w].id]
                  /\ read' = [read EXCEPT ![f] = "yes"]
                  /\ backed' = Back(f, {r \in {held[w].model} : backed[f][r] = 0})
             ELSE UNCHANGED <<llm, visit, read, backed>>
          /\ Become(w, stage[w], work[w] \ {f})
  BY DEF ReadAgain
<1>2. /\ UNCHANGED <<opened, withdrawn, digest, job, base, model, held, busy, dropped, crashes, errors, scenario>>
      /\ stage[w] = "read again"
  BY DEF ReadAgain
<1>3. /\ f \in File /\ held[w].model \in Model /\ held[w].model \in Reader
      /\ held[w].id \in 0..scenario.jobs /\ held[w].id # 0
  <2>1. held[w] \in JobRecord /\ held[w].id <= scenario.jobs /\ held[w].id > 0 /\ held[w].model \in Model
    BY <1>0, <1>2 DEF JobsAreNamed
  <2>2. held[w].id \in Nat
    BY <2>1 DEF JobRecord
  <2>. QED
    BY <1>0, <2>1, <2>2, Bounds DEF WorkerTypes, Reader
<1>4. WorkerTypes'
  BY <1>0, <1>1, <1>2 DEF WorkerTypes, Become
<1>5. JobsAreNamed'
  BY <1>0, <1>1, <1>2 DEF JobsAreNamed, WorkerTypes, Become
<1>6. JobTypes'
  BY <1>0, <1>2 DEF JobTypes
<1>7. CASE Reclaimable(f, held[w])
  <2>1. /\ llm' = [llm EXCEPT ![f] = held[w].model]
        /\ visit' = [visit EXCEPT ![f] = held[w].id]
        /\ read' = [read EXCEPT ![f] = "yes"]
        /\ backed' = Back(f, {r \in {held[w].model} : backed[f][r] = 0})
    BY <1>1, <1>7
  <2>2. /\ backed' \in [File -> [Reader -> Nat]]
        /\ \A g \in File : g # f => \A r \in Reader : backed'[g][r] = backed[g][r]
        /\ \A r \in Reader : r # held[w].model => backed'[f][r] = backed[f][r]
        /\ backed'[f][held[w].model] = 1
    <3>1. backed[f][held[w].model] \in {0, 1}
      <4>1. backed[f][held[w].model] \in Nat
        BY <1>0, <1>3 DEF FileTypes
      <4>2. backed[f][held[w].model] <= 1
        BY <1>0, <1>3 DEF SourceCountedOnce
      <4>. QED
        BY <4>1, <4>2
    <3>2. backed \in [File -> [Reader -> Nat]]
      BY <1>0 DEF FileTypes
    <3>3. /\ backed' \in [File -> [Reader -> Nat]]
          /\ \A g \in File : \A r \in Reader :
                backed'[g][r] = IF g = f /\ r = held[w].model /\ backed[f][r] = 0
                                THEN backed[g][r] + 1 ELSE backed[g][r]
      <4>. DEFINE new == {r \in {held[w].model} : backed[f][r] = 0}
      <4>1. backed' = Back(f, new)
        BY <2>1
      <4>2. \A r \in Reader : r \in new <=> r = held[w].model /\ backed[f][r] = 0
        BY <1>3
      <4>3. /\ Back(f, new) \in [File -> [Reader -> Nat]]
            /\ \A g \in File : \A r \in Reader :
                  Back(f, new)[g][r] = IF g = f /\ r \in new THEN backed[g][r] + 1 ELSE backed[g][r]
        BY <1>3, <3>2, RowsAdded
      <4>. HIDE DEF new
      <4>. QED
        BY <4>1, <4>2, <4>3
    <3>. QED
      BY <1>3, <3>1, <3>3
  <2>3. llm'[f] = held[w].model /\ \A g \in File : g # f => llm'[g] = llm[g]
    BY <1>0, <1>3, <2>1 DEF FileTypes
  <2>4. \A g \in File : llm'[g] = None <=> \A m \in Model : backed'[g][m] = 0
    <3>1. ASSUME NEW g \in File, g # f
          PROVE  llm'[g] = None <=> \A m \in Model : backed'[g][m] = 0
      BY <1>0, <2>2, <2>3, <3>1 DEF FileTypes, Reader
    <3>2. llm'[f] = None <=> \A m \in Model : backed'[f][m] = 0
      BY <1>3, <2>2, <2>3, ReadingAssumption DEF ReadingAssumption
    <3>. QED
      BY <3>1, <3>2
  <2>5. FileTypes'
    BY <1>0, <1>2, <1>3, <2>1, <2>2, <2>4 DEF FileTypes
  <2>6. SourceCountedOnce'
    <3>1. ASSUME NEW g \in File, NEW r \in Reader PROVE backed'[g][r] <= 1
      BY <1>0, <1>3, <2>2 DEF SourceCountedOnce
    <3>. QED
      BY <3>1 DEF SourceCountedOnce
  <2>7. UnreadBacksNothing'
    <3>1. ASSUME NEW g \in File, read'[g] = "no", NEW r \in Reader PROVE backed'[g][r] = 0
      <4>1. g # f /\ read[g] = "no"
        BY <1>0, <1>3, <2>1, <3>1 DEF FileTypes
      <4>. QED
        BY <1>0, <2>2, <4>1 DEF UnreadBacksNothing
    <3>. QED
      BY <3>1 DEF UnreadBacksNothing
  <2>8. StampIsTrue'
    BY <1>0, <1>3, <2>2, <2>3 DEF StampIsTrue, Reader
  <2>9. BaseWasRead'
    BY <1>0, <1>2, <1>3, <2>1 DEF BaseWasRead, FileTypes, JobTypes
  <2>10. JobsLeaveNothing'
    <3>1. ASSUME job.status = "done", NEW g \in base \ withdrawn
          PROVE  backed'[g][job.model] = 1 \/ visit'[g] # 0
      <4>1. g \in File /\ job.model \in Reader
        BY <1>0, <3>1 DEF JobTypes, JobsAreNamed, Reader
      <4>2. CASE g = f
        BY <1>0, <1>3, <2>1, <4>2 DEF FileTypes
      <4>3. CASE g # f
        BY <1>0, <2>1, <2>2, <3>1, <4>1, <4>3 DEF JobsLeaveNothing, FileTypes
      <4>. QED
        BY <4>2, <4>3
    <3>. QED
      BY <1>2, <3>1 DEF JobsLeaveNothing
  <2>. QED
    BY <1>4, <1>5, <1>6, <2>5, <2>6, <2>7, <2>8, <2>9, <2>10, KeepParts
<1>8. CASE ~Reclaimable(f, held[w])
  BY <1>0, <1>1, <1>2, <1>4, <1>5, <1>8, RowsStay DEF FileTypes, JobTypes
<1>. QED
  BY <1>7, <1>8

\* Every step keeps the invariant.
LEMMA StepInv ==
    ReadingInv /\ [ReadingNext]_readingVars => ReadingInv'
<1>. SUFFICES ASSUME ReadingInv, [ReadingNext]_readingVars PROVE ReadingInv'
  OBVIOUS
<1>1. ASSUME NEW f \in File, Import(f) \/ Withdraw(f) PROVE ReadingInv'
  BY <1>1, PeopleStep
<1>2. CASE CancelReread
  BY <1>2, JobStep
<1>3. ASSUME NEW w \in Worker, StartReread(w) PROVE ReadingInv'
  BY <1>3, JobStep
<1>4. ASSUME NEW w \in Worker, Start(w) \/ Crash(w) \/ QueueFails(w) PROVE ReadingInv'
  BY <1>4, ProcessStep
<1>5. ASSUME NEW w \in Worker, WorkerStep(w) PROVE ReadingInv'
  BY <1>5, ProcessStep, OpeningStep, DigestStep, FreshStep, GivenUpStep, LoadStep, AgainStep DEF WorkerStep
<1>6. CASE UNCHANGED readingVars
  <2>1. UNCHANGED <<opened, withdrawn, read, llm, visit, backed, digest, job, base, stage, work, model, held, busy,
                    dropped, crashes, errors, scenario>>
    BY <1>6 DEF readingVars, fileVars, workerVars
  <2>2. FileTypes' /\ WorkerTypes' /\ JobTypes'
    BY <2>1 DEF ReadingInv, ReadingIsSound, ReadingTypeOK, FileTypes, WorkerTypes, JobTypes
  <2>3. (SourceCountedOnce /\ UnreadBacksNothing /\ StampIsTrue /\ BaseWasRead /\ JobsLeaveNothing)'
    BY <2>1 DEF ReadingInv, ReadingIsSound, SourceCountedOnce, UnreadBacksNothing, StampIsTrue, BaseWasRead,
       JobsLeaveNothing
  <2>4. JobsAreNamed'
    BY <2>1 DEF ReadingInv, JobsAreNamed
  <2>. QED
    BY <2>2, <2>3, <2>4, KeepParts
<1>. QED
  BY <1>1, <1>2, <1>3, <1>4, <1>5, <1>6 DEF ReadingNext

\* A source counts once for each reader, the stamps are true, and a job that is
\* done has left no text behind, for any files, workers and models
\* (persist_chunk_units; next_reread_batch).
THEOREM ReadingIsAlwaysSound == ReadingSpec => []ReadingIsSound
<1>1. ReadingInv => ReadingIsSound
  BY DEF ReadingInv
<1>. QED
  BY InitInv, StepInv, <1>1, PTL DEF ReadingSpec

-----------------------------------------------------------------------------
\* Rows that are added come from readers that had none, and to a source that
\* stands: an entry of the ledger.
LEMMA EntryMade ==
    ASSUME ReadingInv, NEW f \in File \ withdrawn, NEW readers \in SUBSET Reader,
           \A r \in readers : backed[f][r] = 0,
           backed' = Back(f, readers), withdrawn' = withdrawn
    PROVE  Ledger!LedgerNext
<1>0. backed \in [File -> [Reader -> Nat]]
  BY DEF ReadingInv, ReadingIsSound, ReadingTypeOK, FileTypes
<1>1. backed' = [backed EXCEPT ![f] = [r \in Reader |-> IF r \in readers THEN 1 ELSE @[r]]]
  <2>1. \A r \in readers : backed[f][r] + 1 = 1
    OBVIOUS
  <2>2. [r \in Reader |-> IF r \in readers THEN backed[f][r] + 1 ELSE backed[f][r]]
           = [r \in Reader |-> IF r \in readers THEN 1 ELSE backed[f][r]]
    BY <2>1
  <2>3. backed' = [backed EXCEPT ![f] = [r \in Reader |-> IF r \in readers THEN backed[f][r] + 1 ELSE backed[f][r]]]
    BY <1>0 DEF Back
  <2>. QED
    BY <1>0, <2>2, <2>3
<1>2. Ledger!Testify(f, readers)
  BY <1>1 DEF Ledger!Testify
<1>. QED
  BY <1>2 DEF Ledger!LedgerNext

\* Every step of the queues is an entry, a withdrawal or nothing to the ledger.
LEMMA LedgerStep ==
    ReadingInv /\ [ReadingNext]_readingVars => [Ledger!LedgerNext]_(Ledger!ledgerVars)
<1>. SUFFICES ASSUME ReadingInv, [ReadingNext]_readingVars
              PROVE  Ledger!LedgerNext \/ UNCHANGED <<withdrawn, backed>>
  BY DEF Ledger!ledgerVars
<1>0. /\ FileTypes /\ WorkerTypes /\ JobsAreNamed /\ UnreadBacksNothing
  BY DEF ReadingInv, ReadingIsSound, ReadingTypeOK
<1>1. ASSUME NEW f \in File, Withdraw(f) PROVE Ledger!LedgerNext
  BY <1>1 DEF Withdraw, Ledger!LedgerNext, Ledger!TakeBack
<1>2. ASSUME NEW w \in Worker, ReadFresh(w) PROVE Ledger!LedgerNext \/ UNCHANGED <<withdrawn, backed>>
  <2>1. PICK f \in work[w], by \in {None, model[w]} :
            IF Claimable(f) THEN backed' = Back(f, {"rules", by}) ELSE UNCHANGED backed
    BY <1>2 DEF ReadFresh
  <2>2. withdrawn' = withdrawn
    BY <1>2 DEF ReadFresh
  <2>3. CASE Claimable(f)
    <3>1. f \in File \ withdrawn /\ \A r \in Reader : backed[f][r] = 0
      BY <1>0, <2>3 DEF Claimable, WorkerTypes, UnreadBacksNothing
    <3>2. backed' = Back(f, {"rules", by} \cap Reader)
      BY <2>1, <2>3 DEF Back
    <3>. QED
      BY <2>2, <3>1, <3>2, EntryMade
  <2>. QED
    BY <2>1, <2>2, <2>3
<1>3. ASSUME NEW w \in Worker, ReadAgain(w) PROVE Ledger!LedgerNext \/ UNCHANGED <<withdrawn, backed>>
  <2>1. PICK f \in work[w] :
            IF Reclaimable(f, held[w])
            THEN backed' = Back(f, {r \in {held[w].model} : backed[f][r] = 0}) ELSE UNCHANGED backed
    BY <1>3 DEF ReadAgain
  <2>2. withdrawn' = withdrawn /\ held[w].model \in Reader
    BY <1>0, <1>3 DEF ReadAgain, JobsAreNamed, Reader
  <2>3. CASE Reclaimable(f, held[w])
    <3>1. f \in File \ withdrawn
      BY <1>0, <2>3 DEF Reclaimable, WorkerTypes
    <3>. QED
      BY <2>1, <2>2, <2>3, <3>1, EntryMade
  <2>. QED
    BY <2>1, <2>2, <2>3
<1>4. ASSUME NEW f \in File, Import(f) PROVE UNCHANGED <<withdrawn, backed>>
  BY <1>4 DEF Import
<1>5. CASE CancelReread
  BY <1>5 DEF CancelReread, fileVars
<1>6. ASSUME NEW w \in Worker, StartReread(w) \/ Start(w) \/ Crash(w) \/ QueueFails(w)
      PROVE  UNCHANGED <<withdrawn, backed>>
  BY <1>6 DEF StartReread, Start, Crash, QueueFails, fileVars
<1>7. ASSUME NEW w \in Worker, WorkerStep(w), ~ReadFresh(w), ~ReadAgain(w)
      PROVE  UNCHANGED <<withdrawn, backed>>
  BY <1>7 DEF WorkerStep, QueueDone, ClaimFiles, OpenPdf, OpenImage, LoadFresh, SetAside, LoadReread, CancelOther,
     MarkVisited, LoadDigest, WriteDigest, Reword, fileVars
<1>8. CASE UNCHANGED readingVars
  BY <1>8 DEF readingVars, fileVars
<1>. QED
  BY <1>1, <1>2, <1>3, <1>4, <1>5, <1>6, <1>7, <1>8 DEF ReadingNext

\* Reading implements the ledger: whatever workers, jobs, crashes and errors do,
\* what they come to is entries made once for sources that stand.
THEOREM ReadingImplements == ReadingSpec => ReadingImplementsLedger
<1>1. ReadingInit => Ledger!LedgerInit
  BY DEF ReadingInit, Ledger!LedgerInit
<1>. QED
  BY <1>1, InitInv, StepInv, LedgerStep, PTL DEF ReadingSpec, ReadingImplementsLedger, Ledger!LedgerSpec


-----------------------------------------------------------------------------
(* Files, uploads and sessions that come in.                               *)

\* The first of the files of this look, by name.
FileAt == FirstOf(todo)

\* The first n parts of a content are stored.
Prefix(c, n) == \A i \in 1..n : \A t \in Parts[c][i] : stored[t] > 0

\* All parts are, but for those left.
ReadSoFar(c) ==
    \E n \in 0..Len(Parts[c]) :
       /\ Len(left) = Len(Parts[c]) - n
       /\ \A i \in 1..Len(left) : left[i] = Parts[c][n + i]
       /\ Prefix(c, n)

WasRead(c) == c \in Readable /\ Prefix(c, Len(Parts[c]))

\* A file has been replaced since it was listed if its version is higher.
ListedBefore == \A f \in todo : f.seen <= version[f.name]

\* The file the task is at was read so far; or was read, or came too late.
FirstRead == inbox[FileAt.name] \in Readable /\ ReadSoFar(inbox[FileAt.name])
FirstWasRead == inbox[FileAt.name] \in late \cup {"nothing"} \/ WasRead(inbox[FileAt.name])

\* What is known of the file the task is at: if it did not change since it was
\* listed, it was read and all that is not left is stored; and what is under
\* its name while it is moved was read, or came after the last look.
LookingAt ==
    /\ door \in {"store", "move"} => todo # {}
    /\ door = "store" => left \in Seq(SUBSET Thing)
    /\ door = "store" /\ verdict = "done" /\ Same(FileAt) => FirstRead
    /\ door = "move" => verdict \in {"done", "failed"}
    /\ door = "move" /\ verdict = "done" => FirstWasRead

\* The session is stored as far as it is remembered; what the task has parsed
\* goes at least as far as the file did when it was picked up.
SessionIsStored ==
    /\ known <= session /\ taken <= session
    /\ \A t \in Messages(known \div 2) : stored[t] > 0
    /\ door = "import" => taken \div 2 <= parsed
    /\ door = "remember" => \A t \in Messages(taken \div 2) : stored[t] > 0

\* The inductive invariant.
IntakeInv == /\ IntakeTypeOK /\ StoredOnce /\ FiledWasRead
             /\ ListedBefore /\ LookingAt
             /\ SessionIsStored

-----------------------------------------------------------------------------
LEMMA Constants ==
    /\ Name \subseteq Nat /\ Readable \subseteq Content /\ "nothing" \notin Content
    /\ \A c \in Content : /\ Parts[c] \in Seq(SUBSET Thing) /\ Len(Parts[c]) \in Nat
                          /\ \A i \in 1..Len(Parts[c]) : Parts[c][i] \subseteq Thing
    /\ Len(Said) \in Nat
    /\ \A n \in Nat : n <= Len(Said) => Messages(n) \subseteq Thing
    /\ Messages(0) = {}
<1>1. \A c \in Content : Parts[c] \in Seq(SUBSET Thing)
  BY IntakeAssumption DEF IntakeAssumption
<1>2. \A c \in Content : /\ Len(Parts[c]) \in Nat
                         /\ \A i \in 1..Len(Parts[c]) : Parts[c][i] \subseteq Thing
  BY <1>1
<1>3. Said \in Seq(Thing) /\ Len(Said) \in Nat
  BY IntakeAssumption DEF IntakeAssumption
<1>4. \A n \in Nat : n <= Len(Said) => Messages(n) \subseteq Thing
  BY <1>3 DEF Messages
<1> QED
  BY <1>1, <1>2, <1>3, <1>4, IntakeAssumption DEF IntakeAssumption, Messages

\* Of the files of a look one is the first.
LEMMA FirstIsListed ==
    ASSUME NEW files, files \subseteq [name : Name, seen : Nat], files # {}
    PROVE  FirstOf(files) \in files
<1> DEFINE names == {f.name : f \in files}
<1>1. names \subseteq Nat /\ names # {}
  BY Constants
<1>2. PICK n \in names : \A m \in names : ~(<<m, n>> \in OpToRel(<, Nat))
  BY <1>1, NatLessThanWellFounded, WFMin
<1>3. \A m \in names : n <= m
  <2> SUFFICES ASSUME NEW m \in names, ~(n <= m) PROVE FALSE
    OBVIOUS
  <2>1. m \in Nat /\ n \in Nat /\ m < n
    BY <1>1
  <2> QED
    BY <1>2, <2>1 DEF OpToRel
<1>4. PICK f \in files : f.name = n
  OBVIOUS
<1>5. \A g \in files : f.name <= g.name
  BY <1>3, <1>4
<1> QED
  BY <1>4, <1>5 DEF FirstOf

\* Storing adds what is missing, and takes nothing away.
LEMMA StoreAdds ==
    ASSUME IntakeTypeOK, StoredOnce, NEW part, StorePart(part)
    PROVE  /\ stored' \in [Thing -> Nat] /\ StoredOnce'
           /\ \A t \in Thing : stored[t] > 0 \/ t \in part => stored'[t] > 0
BY DEF IntakeTypeOK, StoredOnce, StorePart, Missing

Keeps == \A t \in Thing : stored[t] > 0 => stored'[t] > 0

LEMMA PrefixStays ==
    ASSUME Keeps, NEW c \in Content, NEW n \in Nat, n <= Len(Parts[c]), Prefix(c, n)
    PROVE  Prefix(c, n)'
BY Constants DEF Keeps, Prefix

LEMMA WasReadStays ==
    ASSUME Keeps, NEW c, WasRead(c)
    PROVE  WasRead(c)'
BY PrefixStays, Constants DEF WasRead

LEMMA MessagesStay ==
    ASSUME Keeps, NEW n \in Nat, n <= Len(Said), \A t \in Messages(n) : stored[t] > 0
    PROVE  \A t \in Messages(n) : stored'[t] > 0
BY Constants DEF Keeps

LEMMA ReadSoFarStays ==
    ASSUME Keeps, NEW c \in Content, ReadSoFar(c), UNCHANGED left
    PROVE  ReadSoFar(c)'
<1>1. PICK n \in 0..Len(Parts[c]) :
         /\ Len(left) = Len(Parts[c]) - n
         /\ \A i \in 1..Len(left) : left[i] = Parts[c][n + i]
         /\ Prefix(c, n)
  BY DEF ReadSoFar
<1>2. Prefix(c, n)'
  BY <1>1, PrefixStays, Constants
<1> QED
  BY <1>1, <1>2 DEF ReadSoFar

\* FiledWasRead, by content.
FiledInFull == \A c \in filed["done"] \ late : WasRead(c)

LEMMA Filed == FiledWasRead <=> FiledInFull
<1>1. \A c \in Readable : DOMAIN Parts[c] = 1..Len(Parts[c])
  BY Constants
<1> QED
  BY <1>1 DEF FiledWasRead, FiledInFull, WasRead, Prefix

LEMMA FiledStays ==
    ASSUME FiledWasRead, Keeps, UNCHANGED filed, late \subseteq late'
    PROVE  FiledWasRead'
<1>1. FiledInFull
  BY Filed
<1>2. FiledInFull'
  BY <1>1, WasReadStays DEF FiledInFull
<1> QED
  BY <1>2, Filed, PTL

LEMMA FirstFile ==
    ASSUME IntakeInv, todo # {}
    PROVE  /\ FileAt \in todo /\ FileAt.name \in Name /\ FileAt.seen \in Nat
           /\ FileAt.seen <= version[FileAt.name] /\ version[FileAt.name] \in Nat
           /\ inbox[FileAt.name] \in Content \cup {"nothing"}
BY FirstIsListed DEF FileAt, IntakeInv, IntakeTypeOK, ListedBefore

LEMMA FirstReadStays ==
    ASSUME Keeps, FirstRead, UNCHANGED left, FileAt' = FileAt, inbox'[FileAt.name] = inbox[FileAt.name]
    PROVE  FirstRead'
<1>1. PICK c : c = inbox[FileAt.name]
  OBVIOUS
<1>2. c \in Readable /\ ReadSoFar(c)'
  BY <1>1, ReadSoFarStays, Constants DEF FirstRead
<1>3. inbox'[FileAt'.name] = c
  BY <1>1
<1> QED
  BY <1>2, <1>3 DEF FirstRead, ReadSoFar, Prefix

LEMMA FirstWasReadStays ==
    ASSUME Keeps, FirstWasRead, late \subseteq late', FileAt' = FileAt,
           inbox'[FileAt.name] = inbox[FileAt.name]
    PROVE  FirstWasRead'
<1>1. PICK c : c = inbox[FileAt.name]
  OBVIOUS
<1>2. c \in late \cup {"nothing"} \/ WasRead(c)'
  BY <1>1, WasReadStays DEF FirstWasRead
<1>3. inbox'[FileAt'.name] = c
  BY <1>1
<1> QED
  BY <1>2, <1>3 DEF FirstWasRead, WasRead, Prefix

\* A step that leaves the task and its files alone, and takes nothing away.
LEMMA LookStays ==
    ASSUME IntakeInv, Keeps, UNCHANGED <<inbox, version, late, door, todo, left, verdict>>
    PROVE  LookingAt'
<1>1. FileAt' = FileAt /\ Same(FileAt)' = Same(FileAt)
  BY DEF FileAt, FirstOf, Same
<1>2. (FirstRead => FirstRead') /\ (FirstWasRead => FirstWasRead')
  BY <1>1, FirstReadStays, FirstWasReadStays
<1> QED
  BY <1>1, <1>2 DEF IntakeInv, LookingAt

LEMMA SpendType ==
    ASSUME IntakeTypeOK, NEW what \in Worldly, Spend(what)
    PROVE  budget' \in [Worldly -> Nat]
BY DEF IntakeTypeOK, Spend

LEMMA InitIntake == IntakeInit => IntakeInv
<1> SUFFICES ASSUME IntakeInit PROVE IntakeInv
  OBVIOUS
<1>1. IntakeTypeOK
  BY Constants, IntakeAssumption DEF IntakeInit, IntakeTypeOK, IntakeAssumption, Doors, Worldly
<1>2. StoredOnce /\ FiledWasRead /\ ListedBefore /\ LookingAt
  BY DEF IntakeInit, StoredOnce, FiledWasRead, ListedBefore, LookingAt
<1>3. SessionIsStored
  <2>1. known \div 2 = 0
    BY DEF IntakeInit
  <2> QED
    BY <2>1, Constants DEF IntakeInit, SessionIsStored
<1> QED
  BY <1>1, <1>2, <1>3 DEF IntakeInv

-----------------------------------------------------------------------------
(* The world.                                                              *)

\* What is put under a name the task is at comes late, or shows in its version.
LEMMA PutStep ==
    ASSUME IntakeInv, NEW n \in Name, NEW c \in Content, PutFile(n, c)
    PROVE  IntakeInv'
<1>1. /\ UNCHANGED <<filed, stored, session, known, door, todo, left, verdict, taken, parsed>>
      /\ \A m \in Name : /\ inbox'[m] = IF m = n THEN c ELSE inbox[m]
                         /\ version'[m] = IF m = n THEN version[m] + 1 ELSE version[m]
      /\ late \subseteq late'
      /\ door = "move" /\ (\E f \in todo : f.name = n) => c \in late'
  BY DEF PutFile, IntakeInv, IntakeTypeOK
<1>2. IntakeTypeOK'
  <2>1. budget' \in [Worldly -> Nat]
    BY SpendType DEF PutFile, IntakeInv, Worldly
  <2>2. late' \subseteq Content
    BY DEF PutFile, IntakeInv, IntakeTypeOK
  <2> QED
    BY <2>1, <2>2 DEF PutFile, IntakeInv, IntakeTypeOK
<1>3. StoredOnce' /\ FiledWasRead'
  BY <1>1, FiledStays DEF IntakeInv, StoredOnce, Keeps
<1>4. ListedBefore'
  BY <1>1 DEF IntakeInv, IntakeTypeOK, ListedBefore
<1>5. LookingAt'
  <2>1. FileAt' = FileAt
    BY <1>1 DEF FileAt, FirstOf
  <2>2. door \in {"store", "move"} => todo # {}
    BY DEF IntakeInv, LookingAt
  <2>3. ASSUME door = "store", verdict = "done", Same(FileAt)'
        PROVE  FirstRead'
    <3>1. FileAt.name # n
      BY <1>1, <2>1, <2>2, <2>3, FirstFile DEF Same
    <3>2. Same(FileAt) /\ inbox'[FileAt.name] = inbox[FileAt.name]
      BY <1>1, <2>1, <2>2, <2>3, <3>1, FirstFile DEF Same
    <3> QED
      BY <1>1, <2>1, <2>3, <3>2, FirstReadStays DEF IntakeInv, LookingAt, Keeps
  <2>4. ASSUME door = "move", verdict = "done"
        PROVE  FirstWasRead'
    <3>1. CASE FileAt.name = n
      BY <1>1, <2>1, <2>2, <2>4, <3>1, FirstFile DEF FirstWasRead
    <3>2. CASE FileAt.name # n
      <4>1. inbox'[FileAt.name] = inbox[FileAt.name]
        BY <1>1, <2>2, <2>4, <3>2, FirstFile
      <4> QED
        BY <1>1, <2>1, <2>4, <4>1, FirstWasReadStays DEF IntakeInv, LookingAt, Keeps
    <3> QED
      BY <3>1, <3>2
  <2> HIDE DEF FileAt, FirstRead, FirstWasRead
  <2> QED
    BY <1>1, <2>1, <2>2, <2>3, <2>4 DEF IntakeInv, LookingAt
<1>6. SessionIsStored'
  BY <1>1 DEF IntakeInv, SessionIsStored
<1> QED
  BY <1>2, <1>3, <1>4, <1>5, <1>6 DEF IntakeInv

LEMMA SayStep ==
    ASSUME IntakeInv, Say
    PROVE  IntakeInv'
<1>1. session' = session + 1 /\ session' <= 2 * Len(Said)
  BY Constants DEF Say, IntakeInv, IntakeTypeOK
<1>2. IntakeTypeOK'
  <2>1. budget' \in [Worldly -> Nat]
    BY SpendType DEF Say, IntakeInv, Worldly
  <2>2. session' \in 0..2 * Len(Said)
    BY <1>1, Constants DEF IntakeInv, IntakeTypeOK
  <2> QED
    BY <2>1, <2>2 DEF Say, IntakeInv, IntakeTypeOK
<1>3. StoredOnce' /\ FiledWasRead' /\ ListedBefore'
  BY DEF Say, IntakeInv, StoredOnce, FiledWasRead, ListedBefore
<1>4. LookingAt'
  <2>1. UNCHANGED <<inbox, version, late, stored, door, todo, left, verdict>>
    BY DEF Say
  <2> QED
    BY <2>1, LookStays DEF Keeps
<1>5. SessionIsStored'
  BY <1>1, Constants DEF Say, IntakeInv, IntakeTypeOK, SessionIsStored
<1> QED
  BY <1>2, <1>3, <1>4, <1>5 DEF IntakeInv

\* Another door stores a part.
LEMMA UploadStep ==
    ASSUME IntakeInv, NEW c \in Content, UploadContent(c)
    PROVE  IntakeInv'
<1>1. PICK part : StorePart(part)
  BY DEF UploadContent
<1>2. stored' \in [Thing -> Nat] /\ StoredOnce' /\ Keeps
  BY <1>1, StoreAdds DEF IntakeInv, Keeps
<1>3. UNCHANGED <<inbox, version, filed, late, session, known, door, todo, left, verdict, taken, parsed>>
  BY DEF UploadContent
<1>4. IntakeTypeOK'
  <2>1. budget' \in [Worldly -> Nat]
    BY SpendType DEF UploadContent, IntakeInv, Worldly
  <2> QED
    BY <1>2, <2>1 DEF UploadContent, IntakeInv, IntakeTypeOK
<1>5. FiledWasRead' /\ ListedBefore'
  BY <1>2, <1>3, FiledStays DEF IntakeInv, ListedBefore
<1>6. LookingAt'
  BY <1>2, <1>3, LookStays
<1>7. SessionIsStored'
  <2>1. known \div 2 \in Nat /\ known \div 2 <= Len(Said) /\ taken \div 2 \in Nat /\ taken \div 2 <= Len(Said)
    BY Constants DEF IntakeInv, IntakeTypeOK
  <2> QED
    BY <1>2, <1>3, <2>1, MessagesStay DEF IntakeInv, SessionIsStored
<1> QED
  BY <1>2, <1>4, <1>5, <1>6, <1>7 DEF IntakeInv

\* Steps of the task that store nothing and leave the files of the look alone.
LEMMA TurnStep ==
    ASSUME IntakeInv, UNCHANGED <<inbox, version, filed, late, stored>>,
           todo' \subseteq todo, door' \notin {"store", "move"},
           IntakeTypeOK', SessionIsStored'
    PROVE  IntakeInv'
<1>1. StoredOnce' /\ FiledWasRead' /\ ListedBefore'
  BY DEF IntakeInv, StoredOnce, FiledWasRead, ListedBefore
<1>2. LookingAt'
  BY DEF LookingAt
<1> QED
  BY <1>1, <1>2 DEF IntakeInv

LEMMA RestartStep ==
    ASSUME IntakeInv, StopImporter \/ StartImporter
    PROVE  IntakeInv'
<1>1. IntakeTypeOK' /\ SessionIsStored'
  BY DEF StopImporter, StartImporter, Spend, IntakeInv, IntakeTypeOK, SessionIsStored, Doors
<1> QED
  BY <1>1, TurnStep DEF StopImporter, StartImporter

-----------------------------------------------------------------------------
(* The inbox.                                                              *)

LEMMA LookStep ==
    ASSUME IntakeInv, LookAtInbox
    PROVE  IntakeInv'
<1>1. /\ todo' \subseteq [name : Name, seen : Nat]
      /\ \A f \in todo' : f.seen = version[f.name]
      /\ door' = "next"
      /\ UNCHANGED <<inbox, version, filed, late, stored, session, known, left, verdict, taken, parsed, budget>>
  <2>1. \A f \in todo' : \E n \in Name : f = [name |-> n, seen |-> version[n]]
    BY DEF LookAtInbox
  <2>2. version \in [Name -> Nat]
    BY DEF IntakeInv, IntakeTypeOK
  <2>3. \A f \in todo' : f \in [name : Name, seen : Nat] /\ f.seen = version[f.name]
    BY <2>1, <2>2
  <2>4. /\ door' = "next"
        /\ UNCHANGED <<inbox, version, filed, late, stored, session, known, left, verdict, taken, parsed, budget>>
    BY DEF LookAtInbox
  <2> QED
    BY <2>3, <2>4
<1>2. IntakeTypeOK'
  BY <1>1 DEF IntakeInv, IntakeTypeOK, Doors
<1>3. ListedBefore'
  BY <1>1 DEF IntakeInv, IntakeTypeOK, ListedBefore
<1>4. StoredOnce' /\ FiledWasRead' /\ LookingAt' /\ SessionIsStored'
  BY <1>1 DEF IntakeInv, StoredOnce, FiledWasRead, LookingAt, SessionIsStored
<1> QED
  BY <1>2, <1>3, <1>4 DEF IntakeInv

\* Nothing is stored yet of what was just read.
LEMMA ReadStep ==
    ASSUME IntakeInv, ReadFile
    PROVE  IntakeInv'
<1> DEFINE c == inbox[FileAt.name]
<1>1. /\ todo # {} /\ door' = "store"
      /\ UNCHANGED <<inbox, version, filed, late, stored, session, known, todo, taken, parsed, budget>>
      /\ IF c = "nothing" THEN verdict' = "retry" /\ left' = <<>>
                          ELSE verdict' = Verdict(c) /\ left' = Parts[c]
  BY DEF ReadFile, FileAt
<1>2. IntakeTypeOK'
  BY <1>1 DEF IntakeInv, IntakeTypeOK, Doors, Verdict
<1>3. StoredOnce' /\ FiledWasRead' /\ ListedBefore' /\ SessionIsStored'
  BY <1>1 DEF IntakeInv, StoredOnce, FiledWasRead, ListedBefore, SessionIsStored
<1>4. FileAt' = FileAt
  BY <1>1 DEF FileAt, FirstOf
<1>5. left' \in Seq(SUBSET Thing)
  <2>1. c \in Content => Parts[c] \in Seq(SUBSET Thing)
    BY Constants
  <2>2. c \in Content \cup {"nothing"}
    BY <1>1, FirstFile
  <2>3. left' = <<>> \/ (c \in Content /\ left' = Parts[c])
    BY <1>1, <2>2
  <2>4. \A s : s = <<>> => s \in Seq(SUBSET Thing)
    OBVIOUS
  <2> HIDE DEF c
  <2> QED
    BY <2>1, <2>3, <2>4
<1>6. ASSUME verdict' = "done" PROVE FirstRead'
  <2>1. c \in Readable /\ left' = Parts[c]
    BY <1>1, <1>6, FirstFile DEF Verdict
  <2>2. PICK d : d = c
    OBVIOUS
  <2>3. ReadSoFar(d)'
    <3>1. Len(Parts[d]) \in Nat
      BY <2>1, <2>2, Constants
    <3>2. /\ 0 \in 0..Len(Parts[d]) /\ Len(left') = Len(Parts[d]) - 0
          /\ \A i \in 1..Len(left') : left'[i] = Parts[d][0 + i]
      BY <2>1, <2>2, <3>1
    <3> QED
      BY <3>2 DEF ReadSoFar, Prefix
  <2> QED
    BY <1>1, <1>4, <2>1, <2>2, <2>3 DEF FirstRead, ReadSoFar, Prefix
<1>7. LookingAt'
  BY <1>1, <1>5, <1>6 DEF LookingAt
<1> QED
  BY <1>2, <1>3, <1>7 DEF IntakeInv

\* The part stored was the first of those left.
LEMMA StoreStep ==
    ASSUME IntakeInv, StoreNext
    PROVE  IntakeInv'
<1>1. /\ door = "store" /\ left # <<>> /\ StorePart(Head(left)) /\ left' = Tail(left)
      /\ UNCHANGED <<inbox, version, filed, late, session, known, door, todo, verdict, taken, parsed, budget>>
  BY DEF StoreNext
<1>2. /\ stored' \in [Thing -> Nat] /\ StoredOnce' /\ Keeps
      /\ \A t \in Thing : t \in Head(left) => stored'[t] > 0
  BY <1>1, StoreAdds DEF IntakeInv, Keeps
<1>3. IntakeTypeOK'
  BY <1>1, <1>2 DEF IntakeInv, IntakeTypeOK
<1>4. FiledWasRead' /\ ListedBefore'
  BY <1>1, <1>2, FiledStays DEF IntakeInv, ListedBefore
<1>5. SessionIsStored'
  <2>1. known \div 2 \in Nat /\ known \div 2 <= Len(Said)
    BY Constants DEF IntakeInv, IntakeTypeOK
  <2> QED
    BY <1>1, <1>2, <2>1, MessagesStay DEF IntakeInv, SessionIsStored
<1>6. left \in Seq(SUBSET Thing) /\ left' \in Seq(SUBSET Thing)
  BY <1>1 DEF IntakeInv, LookingAt
<1>7. FileAt' = FileAt /\ Same(FileAt)' = Same(FileAt)
  BY <1>1 DEF FileAt, FirstOf, Same
<1>8. ASSUME FirstRead PROVE FirstRead'
  <2>1. PICK c : c = inbox[FileAt.name]
    OBVIOUS
  <2>2. c \in Readable /\ ReadSoFar(c)
    BY <1>8, <2>1 DEF FirstRead
  <2>3. PICK n \in 0..Len(Parts[c]) :
           /\ Len(left) = Len(Parts[c]) - n
           /\ \A i \in 1..Len(left) : left[i] = Parts[c][n + i]
           /\ Prefix(c, n)
    BY <2>2 DEF ReadSoFar
  <2>4. /\ Len(Parts[c]) \in Nat /\ \A i \in 1..Len(Parts[c]) : Parts[c][i] \subseteq Thing
    BY <2>2, Constants
  <2>5. /\ Len(left) \in Nat /\ Len(left) > 0 /\ Len(left') = Len(left) - 1
        /\ Head(left) = left[1] /\ \A i \in 1..Len(left') : left'[i] = left[i + 1]
    BY <1>1, <1>6
  <2>6. n + 1 \in 0..Len(Parts[c]) /\ Len(left') = Len(Parts[c]) - (n + 1)
    BY <2>3, <2>4, <2>5
  <2>7. \A i \in 1..Len(left') : left'[i] = Parts[c][(n + 1) + i]
    <3> SUFFICES ASSUME NEW i \in 1..Len(left') PROVE left'[i] = Parts[c][(n + 1) + i]
      OBVIOUS
    <3>1. i + 1 \in 1..Len(left) /\ left'[i] = left[i + 1]
      BY <2>5
    <3>2. left[i + 1] = Parts[c][n + (i + 1)]
      BY <2>3, <3>1
    <3>3. n + (i + 1) = (n + 1) + i
      BY <2>3
    <3> QED
      BY <3>1, <3>2, <3>3
  <2>8. Prefix(c, n + 1)'
    <3> SUFFICES ASSUME NEW i \in 1..(n + 1), NEW t \in Parts[c][i] PROVE stored'[t] > 0
      BY DEF Prefix
    <3>1. t \in Thing
      BY <2>4, <2>6
    <3>2. CASE i \in 1..n
      BY <1>2, <2>3, <3>1, <3>2 DEF Prefix, Keeps
    <3>3. CASE i = n + 1
      <4>1. Parts[c][n + 1] = Head(left)
        BY <2>3, <2>5
      <4> QED
        BY <1>2, <3>1, <3>3, <4>1
    <3> QED
      BY <2>3, <3>2, <3>3
  <2>9. ReadSoFar(c)'
    BY <2>6, <2>7, <2>8 DEF ReadSoFar
  <2>10. inbox'[FileAt'.name] = c
    BY <1>1, <1>7, <2>1
  <2> QED
    BY <2>2, <2>9, <2>10 DEF FirstRead, ReadSoFar, Prefix
<1>9. LookingAt'
  <2> HIDE DEF FileAt, FirstRead
  <2> QED
    BY <1>1, <1>6, <1>7, <1>8 DEF IntakeInv, LookingAt
<1> QED
  BY <1>2, <1>3, <1>4, <1>5, <1>9 DEF IntakeInv

LEMMA StoreFailsStep ==
    ASSUME IntakeInv, StoreFails
    PROVE  IntakeInv'
<1>1. IntakeTypeOK'
  <2>1. budget' \in [Worldly -> Nat]
    BY SpendType DEF StoreFails, IntakeInv, Worldly
  <2> QED
    BY <2>1 DEF StoreFails, IntakeInv, IntakeTypeOK
<1>2. StoredOnce' /\ FiledWasRead' /\ ListedBefore' /\ SessionIsStored'
  BY DEF StoreFails, IntakeInv, StoredOnce, FiledWasRead, ListedBefore, SessionIsStored
<1>3. LookingAt'
  BY DEF StoreFails, IntakeInv, LookingAt
<1> QED
  BY <1>1, <1>2, <1>3 DEF IntakeInv

\* A file that goes on to be moved has no part left.
LEMMA CheckStep ==
    ASSUME IntakeInv, CheckFile
    PROVE  IntakeInv'
<1>1. /\ door = "store" /\ left = <<>>
      /\ UNCHANGED <<inbox, version, filed, late, stored, session, known, left, verdict, taken, parsed, budget>>
  BY DEF CheckFile
<1>2. CASE verdict # "retry" /\ Same(FileAt)
  <2>1. door' = "move" /\ UNCHANGED todo
    BY <1>2 DEF CheckFile, FileAt
  <2>2. IntakeTypeOK'
    BY <1>1, <2>1 DEF IntakeInv, IntakeTypeOK, Doors
  <2>3. StoredOnce' /\ FiledWasRead' /\ ListedBefore' /\ SessionIsStored'
    BY <1>1, <2>1 DEF IntakeInv, StoredOnce, FiledWasRead, ListedBefore, SessionIsStored
  <2>4. FileAt' = FileAt
    BY <2>1 DEF FileAt, FirstOf
  <2>5. ASSUME verdict = "done" PROVE FirstWasRead'
    <3>1. PICK c : c = inbox[FileAt.name]
      OBVIOUS
    <3>2. c \in Readable /\ ReadSoFar(c)
      BY <1>1, <1>2, <2>5, <3>1 DEF IntakeInv, LookingAt, FirstRead
    <3>3. Prefix(c, Len(Parts[c]))
      <4>1. Len(Parts[c]) \in Nat /\ Len(left) = 0
        BY <1>1, <3>2, Constants
      <4> QED
        BY <3>2, <4>1 DEF ReadSoFar
    <3>4. WasRead(c)'
      BY <1>1, <3>2, <3>3 DEF WasRead, Prefix
    <3> QED
      BY <1>1, <2>4, <3>1, <3>4 DEF FirstWasRead, WasRead, Prefix
  <2>6. LookingAt'
    BY <1>1, <1>2, <2>1, <2>5 DEF IntakeInv, IntakeTypeOK, LookingAt
  <2> QED
    BY <2>2, <2>3, <2>6 DEF IntakeInv
<1>3. CASE ~(verdict # "retry" /\ Same(FileAt))
  <2>1. door' = "next" /\ todo' = todo \ {FileAt}
    BY <1>3 DEF CheckFile, FileAt
  <2>2. IntakeTypeOK' /\ SessionIsStored'
    BY <1>1, <2>1 DEF IntakeInv, IntakeTypeOK, SessionIsStored, Doors
  <2> QED
    BY <1>1, <2>1, <2>2, TurnStep
<1> QED
  BY <1>2, <1>3

\* What is filed under done/ was read, or came too late.
LEMMA MoveStep ==
    ASSUME IntakeInv, MoveFile
    PROVE  IntakeInv'
<1> DEFINE n == FileAt.name
<1>1. /\ door = "move" /\ door' = "next"
      /\ filed' = [filed EXCEPT ![verdict] = @ \cup ({inbox[n]} \ {"nothing"})]
      /\ inbox' = [inbox EXCEPT ![n] = "nothing"]
      /\ todo' = todo \ {FileAt}
      /\ UNCHANGED <<version, late, stored, session, known, left, verdict, taken, parsed, budget>>
  BY DEF MoveFile, FileAt
<1>2. todo # {} /\ verdict \in {"done", "failed"} /\ (verdict = "done" => FirstWasRead)
  BY <1>1 DEF IntakeInv, LookingAt
<1>3. n \in Name /\ inbox[n] \in Content \cup {"nothing"}
  BY <1>2, FirstFile
<1> HIDE DEF n
<1>4. IntakeTypeOK'
  BY <1>1, <1>2, <1>3 DEF IntakeInv, IntakeTypeOK, Doors
<1>5. FiledInFull'
  <2>1. filed'["done"] \subseteq filed["done"] \cup (IF verdict = "done" THEN {inbox[n]} \ {"nothing"} ELSE {})
    BY <1>1, <1>2 DEF IntakeInv, IntakeTypeOK
  <2>2. \A c \in filed["done"] \ late : WasRead(c)
    BY Filed DEF IntakeInv, FiledInFull
  <2>3. verdict = "done" => inbox[n] \in late \cup {"nothing"} \/ WasRead(inbox[n])
    BY <1>2 DEF FirstWasRead, n
  <2>4. \A c \in filed'["done"] \ late : WasRead(c)
    BY <2>1, <2>2, <2>3
  <2> QED
    BY <1>1, <2>4 DEF FiledInFull, WasRead, Prefix
<1>6. FiledWasRead'
  BY <1>5, Filed, PTL
<1>7. StoredOnce' /\ ListedBefore' /\ SessionIsStored' /\ LookingAt'
  BY <1>1 DEF IntakeInv, StoredOnce, ListedBefore, SessionIsStored, LookingAt
<1> QED
  BY <1>4, <1>6, <1>7 DEF IntakeInv

LEMMA NextFileStep ==
    ASSUME IntakeInv, MoveFails \/ InboxDone
    PROVE  IntakeInv'
<1>1. IntakeTypeOK' /\ SessionIsStored'
  BY DEF MoveFails, InboxDone, Spend, IntakeInv, IntakeTypeOK, SessionIsStored, Doors
<1> QED
  BY <1>1, TurnStep DEF MoveFails, InboxDone

-----------------------------------------------------------------------------
(* The session.                                                            *)

LEMMA SessionStep ==
    ASSUME IntakeInv, LookAtSession \/ ParseSession \/ SessionFails \/ RememberSession
    PROVE  IntakeInv'
<1>1. /\ UNCHANGED <<inbox, version, filed, late, stored, session, todo, left, verdict>>
      /\ door' \notin {"store", "move"}
  BY DEF LookAtSession, ParseSession, SessionFails, RememberSession
<1>2. /\ session \in 0..2 * Len(Said) /\ known \in 0..2 * Len(Said) /\ taken \in 0..2 * Len(Said)
      /\ parsed \in 0..Len(Said) /\ known <= session /\ taken <= session /\ Len(Said) \in Nat
  BY Constants DEF IntakeInv, IntakeTypeOK, SessionIsStored
<1>3. CASE LookAtSession
  <2>1. IntakeTypeOK' /\ SessionIsStored'
    BY <1>2, <1>3 DEF LookAtSession, IntakeInv, IntakeTypeOK, SessionIsStored, Doors
  <2> QED
    BY <1>1, <2>1, TurnStep DEF LookAtSession
<1>4. CASE ParseSession
  <2>1. /\ parsed' = session \div 2 /\ UNCHANGED <<known, taken, budget>>
        /\ IF parsed' = 0 THEN door' = "remember" ELSE door' = "import"
    BY <1>4 DEF ParseSession, Complete
  <2>2. parsed' \in 0..Len(Said) /\ taken \div 2 <= parsed' /\ taken \div 2 \in Nat
    BY <1>2, <2>1
  <2>3. IntakeTypeOK'
    BY <1>1, <2>1, <2>2 DEF IntakeInv, IntakeTypeOK, Doors
  <2>4. parsed' = 0 => Messages(taken \div 2) = {}
    <3>1. parsed' = 0 => taken \div 2 = 0
      BY <2>2
    <3> QED
      BY <3>1, Constants
  <2>5. SessionIsStored'
    BY <1>1, <1>2, <2>1, <2>2, <2>4 DEF IntakeInv, SessionIsStored
  <2> QED
    BY <1>1, <2>3, <2>5, TurnStep
<1>5. CASE SessionFails
  <2>1. IntakeTypeOK'
    <3>1. budget' \in [Worldly -> Nat]
      BY <1>5, SpendType DEF SessionFails, IntakeInv, Worldly
    <3> QED
      BY <1>5, <3>1 DEF SessionFails, IntakeInv, IntakeTypeOK, Doors
  <2>2. SessionIsStored'
    BY <1>5 DEF SessionFails, IntakeInv, SessionIsStored
  <2> QED
    BY <1>1, <2>1, <2>2, TurnStep
<1>6. CASE RememberSession
  <2>1. IntakeTypeOK' /\ SessionIsStored'
    BY <1>2, <1>6 DEF RememberSession, Remembered, IntakeInv, IntakeTypeOK, SessionIsStored, Doors
  <2> QED
    BY <1>1, <2>1, TurnStep
<1> QED
  BY <1>3, <1>4, <1>5, <1>6

\* All that was parsed is stored.
LEMMA ImportStep ==
    ASSUME IntakeInv, ImportSession
    PROVE  IntakeInv'
<1>1. /\ door = "import" /\ door' = "remember" /\ StorePart(Messages(parsed))
      /\ UNCHANGED <<inbox, version, filed, late, session, known, todo, left, verdict, taken, parsed, budget>>
  BY DEF ImportSession
<1>2. /\ stored' \in [Thing -> Nat] /\ StoredOnce' /\ Keeps
      /\ \A t \in Thing : t \in Messages(parsed) => stored'[t] > 0
  BY <1>1, StoreAdds DEF IntakeInv, Keeps
<1>3. IntakeTypeOK'
  BY <1>1, <1>2 DEF IntakeInv, IntakeTypeOK, Doors
<1>4. FiledWasRead' /\ ListedBefore' /\ LookingAt'
  BY <1>1, <1>2, FiledStays DEF IntakeInv, ListedBefore, LookingAt
<1>5. SessionIsStored'
  <2>1. /\ known \div 2 \in Nat /\ known \div 2 <= Len(Said) /\ taken \div 2 \in Nat
        /\ taken \div 2 <= parsed /\ parsed \in Nat /\ parsed <= Len(Said)
    BY <1>1, Constants DEF IntakeInv, IntakeTypeOK, SessionIsStored
  <2>2. Messages(taken \div 2) \subseteq Messages(parsed) /\ Messages(parsed) \subseteq Thing
    <3>1. Messages(parsed) \subseteq Thing
      BY <2>1, Constants
    <3> QED
      BY <2>1, <3>1 DEF Messages
  <2> QED
    BY <1>1, <1>2, <2>1, <2>2, MessagesStay DEF IntakeInv, SessionIsStored
<1> QED
  BY <1>2, <1>3, <1>4, <1>5 DEF IntakeInv

-----------------------------------------------------------------------------
LEMMA NextIntake == IntakeInv /\ [IntakeNext]_intakeVars => IntakeInv'
<1> SUFFICES ASSUME IntakeInv, [IntakeNext]_intakeVars PROVE IntakeInv'
  OBVIOUS
<1>1. CASE \E n \in Name, c \in Content : PutFile(n, c)
  BY <1>1, PutStep
<1>2. CASE \E c \in Content : UploadContent(c)
  BY <1>2, UploadStep
<1>3. CASE Say \/ StopImporter \/ StartImporter
  BY <1>3, SayStep, RestartStep
<1>4. CASE StoreFails \/ MoveFails \/ SessionFails
  BY <1>4, StoreFailsStep, NextFileStep, SessionStep
<1>5. CASE TaskStep
  BY <1>5, LookStep, ReadStep, StoreStep, CheckStep, MoveStep, NextFileStep, SessionStep, ImportStep
  DEF TaskStep
<1>6. CASE UNCHANGED intakeVars
  <2>1. IntakeTypeOK' /\ StoredOnce' /\ FiledWasRead' /\ ListedBefore' /\ SessionIsStored'
    BY <1>6 DEF intakeVars, IntakeInv, IntakeTypeOK, StoredOnce, FiledWasRead, ListedBefore, SessionIsStored
  <2>2. LookingAt'
    BY <1>6, LookStays DEF intakeVars, Keeps
  <2> QED
    BY <2>1, <2>2 DEF IntakeInv
<1> QED
  BY <1>1, <1>2, <1>3, <1>4, <1>5, <1>6 DEF IntakeNext

\* Whatever people drop, replace, upload and say, and wherever the daemon fails
\* or stops: nothing is stored twice, what is in done/ was read and stored unless
\* it came between the last look and the move, and a session file is passed over
\* only when all its messages are stored.
THEOREM IntakeSound == IntakeSpec => []IntakeIsSound
<1>1. IntakeInv => IntakeIsSound
  <2> SUFFICES ASSUME IntakeInv, ~Changed PROVE \A t \in Messages(Complete) : stored[t] > 0
    BY DEF IntakeInv, IntakeIsSound, RememberedIsStored
  <2> QED
    BY DEF IntakeInv, SessionIsStored, Changed, Complete
<1>2. IntakeSpec => []IntakeInv
  BY InitIntake, NextIntake, PTL DEF IntakeSpec
<1> QED
  BY <1>1, <1>2, PTL

-----------------------------------------------------------------------------
(* Projects.                                                               *)

\* What a tree, an archive being unpacked and a request are.
Statuses == {"folder", "left_out", "ingested", "deduplicated", "stored", "skipped", "failed"}
Told     == Statuses \cup {"refused"}
Trees    == UNION {[P -> Statuses] : P \in SUBSET Path}
Frames   == [base : Path, entries : Seq(Entries), nesting : Nat, limit : Nat]
Busy     == {"lock", "await", "entry", "unpack", "read", "record", "finish"}
Requests == [step : Busy, project : Project, frames : Seq(Frames), room : 0..MaxFiles,
             stopped : BOOLEAN, status : {"none"} \cup (Statuses \ Folders), unpacked : Nat,
             told : SUBSET [at : Path, status : Told], error : BOOLEAN]

\* The request is at a file that it has found a place for.
AtFile(r) == /\ r.frames # <<>> /\ Top(r).entries # <<>> /\ IsFileEntry(r)
             /\ r.status # "none"

ProjectTypes ==
    /\ tree \in [Project -> Trees] /\ projects \subseteq Project
    /\ source \in [Project -> {"unused", "folder", "zip"}]
    /\ turns \in [Project -> Seq(Client)]
    /\ request \in [Client -> Requests \cup {NoRequest}]
    /\ importJob \in [Client -> {"none", "processing", "finished", "failed", "abandoned"}]
    /\ vain \subseteq [project : Project, unpacks : BOOLEAN]
    /\ troubles \in 0..Troubles

\* Ids are used once: what there is, or what is asked for, is not to be created.
UsedOnce ==
    /\ \A p \in projects : source[p] # "unused"
    /\ \A c \in Client : request[c] \in Requests => source[request[c].project] # "unused"

\* A request to a folder goes on only while it is the first in the queue.
InTurn(c) ==
    request[c] \in Requests =>
        /\ request[c].step = "lock" => \E i \in DOMAIN turns[request[c].project] : turns[request[c].project][i] = c
        /\ request[c].step # "lock" /\ source[request[c].project] = "folder" =>
               turns[request[c].project] # <<>> /\ Head(turns[request[c].project]) = c

\* The check before reading still holds.
StillFits(c) ==
    /\ request[c] \in Requests /\ request[c].step \in {"read", "record"}
    /\ request[c].project \in projects /\ source[request[c].project] = "folder"
    /\ ~Unpacks(request[c])
    => Fits(tree[request[c].project], At(request[c]), FALSE)

RequestRight(c) ==
    request[c] \in Requests =>
        /\ request[c].step \in {"unpack", "read", "record"} => AtFile(request[c])
        /\ request[c].unpacked + request[c].room = MaxFiles
        /\ request[c].project \in projects => 
             \A t \in request[c].told :
               /\ t.status \in {"ingested", "stored", "deduplicated"} => IsFile(tree[request[c].project], t.at)
               /\ t.status = "left_out" => IsFolder(tree[request[c].project], t.at)

ProjectInv ==
    /\ ProjectTypes /\ UsedOnce /\ TreesAreTrees /\ NothingReadInVain /\ JobsAreFinished
    /\ \A c \in Client : InTurn(c) /\ StillFits(c) /\ RequestRight(c)

-----------------------------------------------------------------------------
(* Paths and trees.                                                        *)

LEMMA AboveIs ==
    ASSUME NEW path \in Path, NEW a \in Above(path)
    PROVE  a \in Path /\ a # path /\ Above(a) \subseteq Above(path)
<1>1. PICK i \in 1..Len(path) - 1 : a = SubSeq(path, 1, i)
  BY DEF Above
<1>2. Len(path) \in Nat /\ i \in Nat /\ 1 <= i /\ i < Len(path)
  BY DEF Path
<1>3. a \in Path /\ Len(a) = i /\ \A k \in 1..i : a[k] = path[k]
  BY <1>1, <1>2 DEF Path
<1>4. ASSUME NEW j \in 1..Len(a) - 1
      PROVE  SubSeq(a, 1, j) = SubSeq(path, 1, j) /\ j \in 1..Len(path) - 1
  BY <1>2, <1>3, <1>4 DEF Path
<1> QED
  BY <1>2, <1>3, <1>4 DEF Above

Rooted(t) == \A path \in DOMAIN t : \A above \in Above(path) : IsFolder(t, above)
KindsStay(t, u) ==
    \A at \in Path : /\ IsFile(t, at) => IsFile(u, at)
                     /\ IsFolder(t, at) => IsFolder(u, at)

LEMMA TreeIs ==
    ASSUME NEW t \in Trees
    PROVE  DOMAIN t \subseteq Path /\ \A at \in DOMAIN t : t[at] \in Statuses
BY DEF Trees

LEMMA NothingIsATree == <<>> \in Trees /\ DOMAIN <<>> = {}
<1>1. <<>> = [i \in {} |-> i]
  OBVIOUS
<1>2. <<>> \in [{} -> Statuses]
  BY <1>1
<1> QED
  BY <1>1, <1>2 DEF Trees

\* A path that fits can be given its row: folders above it are made, and
\* nothing that is there changes its kind.
LEMMA GrownTree ==
    ASSUME NEW t \in Trees, Rooted(t), NEW path \in Path, NEW status \in Statuses,
           Fits(t, path, status \in Folders), NEW u \in Trees,
           DOMAIN u = DOMAIN t \cup Above(path) \cup {path},
           \A at \in DOMAIN u \ {path} : u[at] = IF at \in DOMAIN t THEN t[at] ELSE "folder",
           u[path] \in Folders <=> status \in Folders
    PROVE  Rooted(u) /\ KindsStay(t, u)
<1>1. DOMAIN t \subseteq Path
  BY TreeIs
<1>2. KindsStay(t, u)
  BY DEF KindsStay, IsFile, IsFolder, Fits, Folders
<1>3. ASSUME NEW a \in Above(path) PROVE IsFolder(u, a)
  <2>1. a # path /\ a \in Path /\ ~IsFile(t, a)
    BY AboveIs DEF Fits
  <2> QED
    BY <2>1 DEF IsFile, IsFolder, Folders
<1>4. ASSUME NEW q \in DOMAIN u, NEW a \in Above(q) PROVE IsFolder(u, a)
  <2>1. CASE q \in DOMAIN t
    <3>1. IsFolder(t, a) /\ a \in Path
      BY <1>1, <2>1, AboveIs DEF Rooted
    <3> QED
      BY <1>2, <3>1 DEF KindsStay
  <2>2. CASE q = path
    BY <1>3, <2>2
  <2>3. CASE q \in Above(path)
    BY <1>3, <2>3, AboveIs
  <2> QED
    BY <2>1, <2>2, <2>3
<1> QED
  BY <1>2, <1>4 DEF Rooted

LEMMA RecordedKeeps ==
    ASSUME NEW t \in Trees, Rooted(t), NEW path \in Path, NEW status \in Statuses,
           Fits(t, path, status \in Folders)
    PROVE  /\ Recorded(t, path, status) \in Trees
           /\ Rooted(Recorded(t, path, status)) /\ KindsStay(t, Recorded(t, path, status))
           /\ status \in Folders => IsFolder(Recorded(t, path, status), path)
           /\ status \notin Folders => IsFile(Recorded(t, path, status), path)
<1> DEFINE u == Recorded(t, path, status)
           D == DOMAIN t \cup Above(path) \cup {path}
<1>1. DOMAIN t \subseteq Path /\ (\A at \in DOMAIN t : t[at] \in Statuses) /\ Above(path) \subseteq Path
  BY TreeIs, AboveIs
<1>2. D \subseteq Path
  BY <1>1
<1>3. /\ u = [at \in D |-> IF at = path THEN status ELSE WithFolders(t, Above(path))[at]]
      /\ \A at \in DOMAIN t \cup Above(path) :
            WithFolders(t, Above(path))[at] = IF at \in DOMAIN t THEN t[at] ELSE "folder"
  BY DEF Recorded, WithFolders
<1> HIDE DEF u
<1>4. /\ DOMAIN u = D /\ u[path] = status
      /\ \A at \in D \ {path} : u[at] = IF at \in DOMAIN t THEN t[at] ELSE "folder"
  BY <1>3
<1>5. u \in [D -> Statuses]
  <2>1. \A at \in D : u[at] \in Statuses
    BY <1>1, <1>4 DEF Statuses
  <2> QED
    BY <1>3, <2>1
<1>6. u \in Trees
  BY <1>2, <1>5 DEF Trees
<1>7. Rooted(u) /\ KindsStay(t, u)
  BY <1>4, <1>6, GrownTree
<1> QED
  BY <1>4, <1>6, <1>7 DEF u, IsFile, IsFolder

LEMMA EnsuredKeeps ==
    ASSUME NEW t \in Trees, Rooted(t), NEW path \in Path, Fits(t, path, TRUE)
    PROVE  /\ EnsuredFolder(t, path) \in Trees
           /\ Rooted(EnsuredFolder(t, path)) /\ KindsStay(t, EnsuredFolder(t, path))
<1> DEFINE u == EnsuredFolder(t, path)
           D == DOMAIN t \cup Above(path) \cup {path}
<1>1. DOMAIN t \subseteq Path /\ (\A at \in DOMAIN t : t[at] \in Statuses) /\ Above(path) \subseteq Path
  BY TreeIs, AboveIs
<1>2. D \subseteq Path
  BY <1>1
<1>3. u = [at \in D |-> IF at \in DOMAIN t THEN t[at] ELSE "folder"]
  BY DEF EnsuredFolder, WithFolders
<1> HIDE DEF u
<1>4. DOMAIN u = D /\ \A at \in D : u[at] = IF at \in DOMAIN t THEN t[at] ELSE "folder"
  BY <1>3
<1>5. u \in [D -> Statuses]
  <2>1. \A at \in D : u[at] \in Statuses
    BY <1>1, <1>4 DEF Statuses
  <2> QED
    BY <1>3, <2>1
<1>6. u \in Trees
  BY <1>2, <1>5 DEF Trees
<1>7. u[path] \in Folders
  BY <1>1, <1>4 DEF Fits, IsFile, Folders
<1>8. "folder" \in Statuses /\ "folder" \in Folders
  BY DEF Statuses, Folders
<1>9. Rooted(u) /\ KindsStay(t, u)
  <2>1. Fits(t, path, "folder" \in Folders)
    BY <1>8 DEF Fits
  <2> QED
    BY <1>4, <1>6, <1>7, <1>8, <2>1, GrownTree
<1> QED
  BY <1>6, <1>9 DEF u

-----------------------------------------------------------------------------
(* Requests.                                                               *)

LEMMA EntryIs ==
    ASSUME ProjectAssumption, NEW r \in Requests, r.frames # <<>>, Top(r).entries # <<>>
    PROVE  /\ Top(r) \in Frames /\ Tail(r.frames) \in Seq(Frames) /\ Len(r.frames) \in Nat \ {0}
           /\ Entry(r) \in Entries /\ Tail(Top(r).entries) \in Seq(Entries)
           /\ At(r) \in Path /\ Entry(r).is \in Is /\ Entry(r).holds \in Seq(Entries)
<1>1. Top(r) \in Frames /\ Tail(r.frames) \in Seq(Frames) /\ Len(r.frames) \in Nat \ {0}
  BY DEF Requests, Top
<1>2. Entry(r) \in Entries /\ Tail(Top(r).entries) \in Seq(Entries)
  BY <1>1 DEF Frames, Entry
<1>3. At(r) \in Path
  BY <1>1, <1>2 DEF At, Frames, Path, ProjectAssumption
<1> QED
  BY <1>1, <1>2, <1>3 DEF ProjectAssumption

Undone(r) == <<[Top(r) EXCEPT !.entries = Tail(@)]>> \o Tail(r.frames)

LEMMA UndoneIs ==
    ASSUME ProjectAssumption, NEW r \in Requests, r.frames # <<>>, Top(r).entries # <<>>
    PROVE  Undone(r) \in Seq(Frames)
<1>1. [Top(r) EXCEPT !.entries = Tail(@)] \in Frames
  BY EntryIs DEF Frames
<1>2. <<[Top(r) EXCEPT !.entries = Tail(@)]>> \in Seq(Frames)
  BY <1>1
<1> QED
  BY <1>2, EntryIs DEF Undone

ToldOf(r, status) ==
    IF status = "" THEN r.told ELSE r.told \cup {[at |-> At(r), status |-> status]}

\* Nothing else changes where a request goes on.
LEMMA GoesOnIs ==
    ASSUME NEW r \in Requests
    PROVE  /\ GoesOn(r) \in Requests
           /\ GoesOn(r).step \in {"await", "entry"} /\ GoesOn(r).project = r.project
           /\ GoesOn(r).unpacked = r.unpacked /\ GoesOn(r).room = r.room
           /\ GoesOn(r).told = r.told /\ GoesOn(r).frames = r.frames
<1>1. PICK s \in {"await", "entry"} : GoesOn(r) = [r EXCEPT !.step = s]
  BY DEF GoesOn
<1> QED
  BY <1>1 DEF Requests, Busy

LEMMA DoneIs ==
    ASSUME ProjectAssumption, NEW r \in Requests, r.frames # <<>>, Top(r).entries # <<>>,
           NEW status \in Told \cup {""}
    PROVE  /\ Done(r, status) \in Requests
           /\ Done(r, status).step \in {"await", "entry"} /\ Done(r, status).project = r.project
           /\ Done(r, status).unpacked = r.unpacked /\ Done(r, status).room = r.room
           /\ Done(r, status).told = ToldOf(r, status)
           /\ Done(r, status).frames = Undone(r)
<1>1. Done(r, status) = GoesOn([r EXCEPT !.frames = Undone(r), !.status = "none",
                                         !.told = ToldOf(r, status)])
  BY DEF Done, Undone, ToldOf, Requests
<1>2. ToldOf(r, status) \in SUBSET [at : Path, status : Told]
  <2>1. r.told \in SUBSET [at : Path, status : Told]
    BY DEF Requests
  <2>2. status # "" => [at |-> At(r), status |-> status] \in [at : Path, status : Told]
    BY EntryIs
  <2> QED
    BY <2>1, <2>2 DEF ToldOf
<1>3. Undone(r) \in Seq(Frames)
  BY UndoneIs
<1> DEFINE fs == Undone(r)
           ts == ToldOf(r, status)
<1> HIDE DEF fs, ts
<1>4. Done(r, status) = GoesOn([r EXCEPT !.frames = fs, !.status = "none", !.told = ts])
  BY <1>1 DEF fs, ts
<1>5. fs \in Seq(Frames) /\ ts \in SUBSET [at : Path, status : Told]
  BY <1>2, <1>3 DEF fs, ts
<1> DEFINE q == [r EXCEPT !.frames = fs, !.status = "none", !.told = ts]
<1>6. /\ q \in Requests /\ q.project = r.project /\ q.unpacked = r.unpacked
      /\ q.room = r.room /\ q.told = ts /\ q.frames = fs
  BY <1>5 DEF Requests
<1>7. Done(r, status) = GoesOn(q)
  BY <1>4
<1> HIDE DEF q
<1>8. /\ Done(r, status) \in Requests
      /\ Done(r, status).step \in {"await", "entry"} /\ Done(r, status).project = r.project
      /\ Done(r, status).unpacked = r.unpacked /\ Done(r, status).room = r.room
      /\ Done(r, status).told = ts /\ Done(r, status).frames = fs
  BY <1>6, <1>7, GoesOnIs
<1> QED
  BY <1>8 DEF fs, ts

LEMMA UnpackedIs ==
    ASSUME ProjectAssumption, NEW r \in Requests, r.frames # <<>>, Top(r).entries # <<>>
    PROVE  /\ Unpacked(r) \in Requests
           /\ Unpacked(r).step = "entry" /\ Unpacked(r).project = r.project
           /\ Unpacked(r).unpacked = r.unpacked /\ Unpacked(r).room = r.room
           /\ Unpacked(r).told = r.told
<1> DEFINE d == Done(r, "")
           f == Frame(At(r), Entry(r).holds, Top(r).nesting + 1, r.room)
<1>1. /\ d \in Requests /\ d.project = r.project /\ d.told = r.told
      /\ d.unpacked = r.unpacked /\ d.room = r.room
  <2>1. ToldOf(r, "") = r.told
    BY DEF ToldOf
  <2> QED
    BY <2>1, DoneIs
<1>2. f \in Frames
  <2>1. r.room \in Nat /\ Top(r).nesting + 1 \in Nat
    <3>1. r.room \in 0..MaxFiles /\ MaxFiles \in Nat
      BY DEF Requests, ProjectAssumption
    <3>2. Top(r).nesting \in Nat
      BY EntryIs DEF Frames
    <3> QED
      BY <3>1, <3>2
  <2> QED
    BY <2>1, EntryIs DEF Frames, Frame
<1>3. Unpacked(r) = [d EXCEPT !.step = "entry", !.frames = <<f>> \o @]
  BY DEF Unpacked
<1> HIDE DEF d, f
<1>4. <<f>> \o d.frames \in Seq(Frames)
  BY <1>1, <1>2 DEF Requests
<1> QED
  BY <1>1, <1>3, <1>4 DEF Requests, Busy

LEMMA CountedIs ==
    ASSUME ProjectAssumption, NEW r \in Requests, AtEntry(r), ~LimitReached(r)
    PROVE  /\ Counted(r) \in Requests
           /\ Counted(r).step = r.step /\ Counted(r).project = r.project /\ Counted(r).told = r.told
           /\ Counted(r).unpacked + Counted(r).room = r.unpacked + r.room
           /\ Counted(r).frames # <<>> /\ Top(Counted(r)).entries = Top(r).entries
           /\ Entry(Counted(r)) = Entry(r) /\ At(Counted(r)) = At(r)
           /\ Top(Counted(r)).nesting = Top(r).nesting /\ Counted(r).stopped = r.stopped
<1> DEFINE l == IF CostsRow(r) THEN Top(r).limit - 1 ELSE Top(r).limit
           top == [Top(r) EXCEPT !.limit = l]
           fs == [r.frames EXCEPT ![1] = top]
           n == IF IsFileEntry(r) /\ InArchive(r) THEN 1 ELSE 0
<1>1. r.frames # <<>> /\ Top(r).entries # <<>> /\ Top(r) = r.frames[1]
  BY DEF AtEntry, Top, Requests
<1>2. l \in Nat
  <2>1. Top(r).limit \in Nat
    BY <1>1, EntryIs DEF Frames
  <2> QED
    BY <2>1 DEF LimitReached
<1>3. top \in Frames /\ top.entries = Top(r).entries /\ top.base = Top(r).base /\ top.nesting = Top(r).nesting
  BY <1>1, <1>2, EntryIs DEF Frames
<1>4. /\ n \in {0, 1} /\ r.room - n \in 0..MaxFiles /\ r.unpacked + n \in Nat
      /\ r.unpacked \in Nat /\ r.room \in Nat
  BY DEF LimitReached, Requests, ProjectAssumption
<1>5. Counted(r) = [r EXCEPT !.frames = fs, !.room = r.room - n, !.unpacked = r.unpacked + n]
  <2>1. [r.frames EXCEPT ![1].limit = IF CostsRow(r) THEN @ - 1 ELSE @] = fs
    BY <1>1 DEF Requests, Frames
  <2>2. Taken(r) = n /\ (IF IsFileEntry(r) /\ InArchive(r) THEN r.unpacked + 1 ELSE r.unpacked) = r.unpacked + n
    BY <1>4 DEF Taken
  <2> QED
    BY <2>1, <2>2 DEF Counted, Requests
<1> HIDE DEF l, n
<1>6. fs \in Seq(Frames) /\ fs # <<>> /\ Head(fs) = top
  <2>1. r.frames \in Seq(Frames) /\ Len(r.frames) >= 1
    BY <1>1 DEF Requests
  <2> HIDE DEF top
  <2>2. fs \in Seq(Frames) /\ Len(fs) = Len(r.frames) /\ fs[1] = top
    BY <1>3, <2>1
  <2> HIDE DEF fs
  <2> QED
    BY <2>1, <2>2
<1> HIDE DEF top, fs
<1>7. Counted(r) \in Requests /\ Counted(r).frames = fs
  BY <1>4, <1>5, <1>6 DEF Requests
<1>8. Top(Counted(r)) = top
  BY <1>6, <1>7 DEF Top
<1>9. Counted(r).unpacked + Counted(r).room = r.unpacked + r.room
  BY <1>4, <1>5, <1>7 DEF Requests
<1>10. /\ Counted(r).step = r.step /\ Counted(r).project = r.project /\ Counted(r).told = r.told
       /\ Counted(r).stopped = r.stopped
  BY <1>5 DEF Requests
<1> QED
  BY <1>3, <1>6, <1>7, <1>8, <1>9, <1>10 DEF Entry, At

-----------------------------------------------------------------------------
(* What a request does.                                                    *)

\* What a request was told is there in a tree.
ToldIn(told, t) ==
    \A x \in told :
        /\ x.status \in {"ingested", "stored", "deduplicated"} => IsFile(t, x.at)
        /\ x.status = "left_out" => IsFolder(t, x.at)

LEMMA ToldStays ==
    ASSUME NEW r \in Requests, NEW t, NEW u, ToldIn(r.told, t), KindsStay(t, u)
    PROVE  ToldIn(r.told, u)
<1>1. \A x \in r.told : x.at \in Path
  BY DEF Requests
<1> QED
  BY <1>1 DEF ToldIn, KindsStay

LEMMA RequestIs ==
    ASSUME ProjectInv, NEW c \in Client, request[c].step # "none"
    PROVE  request[c] \in Requests
BY DEF ProjectInv, ProjectTypes, NoRequest

\* A step of a request that is not waiting. Nobody else is at work in a folder.
LEMMA WorkKeeps ==
    ASSUME ProjectAssumption, ProjectInv, NEW c \in Client, request[c] \in Requests,
           request[c].step # "lock",
           NEW q \in Requests, q.project = request[c].project, q.step # "lock",
           request' = [request EXCEPT ![c] = q],
           NEW t \in Trees, tree' = [tree EXCEPT ![q.project] = t],
           Rooted(t), KindsStay(tree[q.project], t),
           q.project \in projects => ToldIn(q.told, t),
           q.step \in {"unpack", "read", "record"} => AtFile(q),
           q.unpacked + q.room = MaxFiles,
           q.step \in {"read", "record"} /\ q.project \in projects
             /\ source[q.project] = "folder" /\ ~Unpacks(q) => Fits(t, At(q), FALSE),
           vain' \subseteq [project : Project, unpacks : BOOLEAN], NothingReadInVain',
           troubles' \in 0..Troubles,
           UNCHANGED <<projects, source, turns, importJob>>
    PROVE  ProjectInv'
<1> DEFINE p == q.project
<1>1. p \in Project /\ tree \in [Project -> Trees] /\ request \in [Client -> Requests \cup {NoRequest}]
  BY DEF Requests, ProjectInv, ProjectTypes
<1>2. tree' \in [Project -> Trees] /\ tree'[p] = t /\ \A o \in Project \ {p} : tree'[o] = tree[o]
  BY <1>1
<1>3. request' \in [Client -> Requests \cup {NoRequest}] /\ request'[c] = q
      /\ \A d \in Client \ {c} : request'[d] = request[d]
  BY <1>1
<1>4. ProjectTypes'
  BY <1>2, <1>3 DEF ProjectInv, ProjectTypes
<1>5. UsedOnce'
  BY <1>3 DEF ProjectInv, UsedOnce
<1>6. TreesAreTrees'
  BY <1>1, <1>2 DEF ProjectInv, TreesAreTrees, Rooted
<1>7. JobsAreFinished'
  <2>1. q.step # "none" /\ request[c].step # "none"
    BY DEF Requests, Busy
  <2> QED
    BY <1>3, <2>1 DEF ProjectInv, JobsAreFinished
<1>8. ASSUME NEW d \in Client PROVE InTurn(d)'
  <2>1. InTurn(d) /\ InTurn(c)
    BY DEF ProjectInv
  <2>2. CASE d = c
    BY <1>3, <2>1, <2>2 DEF InTurn
  <2>3. CASE d # c
    BY <1>3, <2>1, <2>3 DEF InTurn
  <2> QED
    BY <2>2, <2>3
<1>9. ASSUME NEW d \in Client PROVE StillFits(d)'
  <2>1. CASE d = c
    BY <1>2, <1>3, <2>1 DEF StillFits, Unpacks, IsZip, Top, Entry, At
  <2>2. CASE d # c
    <3> SUFFICES ASSUME /\ request[d] \in Requests /\ request[d].step \in {"read", "record"}
                        /\ request[d].project \in projects /\ source[request[d].project] = "folder"
                        /\ ~Unpacks(request[d])
                 PROVE  Fits(tree'[request[d].project], At(request[d]), FALSE)
      BY <1>3, <2>2 DEF StillFits, Unpacks, IsZip, Top, Entry, At
    <3>1. request[d].project # p
      <4>1. InTurn(c) /\ InTurn(d)
        BY DEF ProjectInv
      <4> QED
        BY <2>2, <4>1 DEF InTurn
    <3>2. tree'[request[d].project] = tree[request[d].project]
      BY <1>2, <3>1 DEF Requests
    <3>3. StillFits(d)
      BY DEF ProjectInv
    <3> QED
      BY <3>2, <3>3 DEF StillFits
  <2> QED
    BY <2>1, <2>2
<1>10. ASSUME NEW d \in Client PROVE RequestRight(d)'
  <2>1. CASE d = c
    BY <1>2, <1>3, <2>1 DEF RequestRight, ToldIn, AtFile, IsFileEntry, Top, Entry
  <2>2. CASE d # c
    <3> SUFFICES ASSUME request[d] \in Requests
                 PROVE  request[d].project \in projects => ToldIn(request[d].told, tree'[request[d].project])
      <4>1. RequestRight(d)
        BY DEF ProjectInv
      <4> QED
        BY <1>3, <2>2, <4>1 DEF RequestRight, ToldIn, AtFile, IsFileEntry, Top, Entry
    <3>1. request[d].project \in projects => ToldIn(request[d].told, tree[request[d].project])
      BY DEF ProjectInv, RequestRight, ToldIn
    <3>2. CASE request[d].project = p
      BY <1>2, <3>1, <3>2, ToldStays
    <3>3. CASE request[d].project # p
      <4>1. request[d].project \in Project
        BY DEF Requests
      <4> QED
        BY <1>2, <3>1, <3>3, <4>1
    <3> QED
      BY <3>2, <3>3
  <2> QED
    BY <2>1, <2>2
<1> QED
  BY <1>4, <1>5, <1>6, <1>7, <1>8, <1>9, <1>10 DEF ProjectInv

\* One that leaves the tree alone.
LEMMA WaitKeeps ==
    ASSUME ProjectAssumption, ProjectInv, NEW c \in Client, request[c] \in Requests,
           request[c].step # "lock",
           NEW q \in Requests, q.project = request[c].project, q.step # "lock",
           Becomes(c, q),
           \A x \in q.told : x \in request[c].told \/ x.status \in {"refused", "skipped", "failed"},
           q.step \in {"unpack", "read", "record"} => AtFile(q),
           q.unpacked + q.room = MaxFiles,
           q.step \in {"read", "record"} /\ q.project \in projects
             /\ source[q.project] = "folder" /\ ~Unpacks(q) => Fits(tree[q.project], At(q), FALSE),
           troubles' \in 0..Troubles,
           UNCHANGED <<tree, projects, source, turns, importJob, vain>>
    PROVE  ProjectInv'
<1>1. q.project \in Project /\ tree \in [Project -> Trees]
  BY DEF Requests, ProjectInv, ProjectTypes
<1> DEFINE t == tree[q.project]
<1>2. t \in Trees /\ Rooted(t) /\ KindsStay(t, t)
  BY <1>1 DEF ProjectInv, TreesAreTrees, Rooted, KindsStay
<1>3. tree' = [tree EXCEPT ![q.project] = t]
  BY <1>1
<1>4. q.project \in projects => ToldIn(q.told, t)
  BY DEF ProjectInv, RequestRight, ToldIn
<1>5. vain' \subseteq [project : Project, unpacks : BOOLEAN] /\ NothingReadInVain'
  BY DEF ProjectInv, ProjectTypes, NothingReadInVain
<1> QED
  BY <1>2, <1>3, <1>4, <1>5, WorkKeeps DEF Becomes

LEMMA InEntry ==
    ASSUME NEW r \in Requests
    PROVE  /\ r.frames \in Seq(Frames) /\ r.project \in Project /\ r.step \in Busy
           /\ r.unpacked \in Nat /\ r.room \in 0..MaxFiles
BY DEF Requests

LEMMA ArchiveEndsKeeps ==
    ASSUME ProjectAssumption, ProjectInv, NEW c \in Client, ArchiveEnds(c) \/ StopArchive(c)
    PROVE  ProjectInv'
<1> DEFINE r == request[c]
           fs == Tail(r.frames)
<1>1. r \in Requests /\ r.step = "entry" /\ r.frames # <<>>
  BY RequestIs DEF ArchiveEnds, StopArchive, AtEntry
<1>2. PICK b \in BOOLEAN : Becomes(c, GoesOn([r EXCEPT !.frames = fs, !.stopped = b]))
  <2>1. r.stopped \in BOOLEAN /\ [r EXCEPT !.frames = fs] = [r EXCEPT !.frames = fs, !.stopped = r.stopped]
    BY <1>1 DEF Requests
  <2> QED
    BY <2>1 DEF ArchiveEnds, StopArchive
<1>3. fs \in Seq(Frames)
  BY <1>1 DEF Requests
<1>4. UNCHANGED <<tree, projects, source, turns, importJob, vain, troubles>>
  BY DEF ArchiveEnds, StopArchive
<1> DEFINE rest == [r EXCEPT !.frames = fs, !.stopped = b]
           q == GoesOn(rest)
<1>5. /\ q \in Requests /\ q.project = r.project /\ q.step \in {"await", "entry"}
      /\ q.told = r.told /\ q.unpacked = r.unpacked /\ q.room = r.room
  <2> HIDE DEF fs
  <2>1. /\ rest \in Requests /\ rest.project = r.project /\ rest.told = r.told
        /\ rest.unpacked = r.unpacked /\ rest.room = r.room
    BY <1>1, <1>3 DEF Requests
  <2> HIDE DEF rest
  <2> QED
    BY <2>1, GoesOnIs
<1>6. r.unpacked + r.room = MaxFiles /\ troubles' \in 0..Troubles
  BY <1>1, <1>4 DEF ProjectInv, RequestRight, ProjectTypes
<1>7. Becomes(c, q)
  BY <1>2
<1> HIDE DEF q
<1> QED
  BY <1>1, <1>4, <1>5, <1>6, <1>7, WaitKeeps

LEMMA SendPartKeeps ==
    ASSUME ProjectAssumption, ProjectInv, NEW c \in Client, SendPart(c)
    PROVE  ProjectInv'
<1> DEFINE r == request[c]
           q == [r EXCEPT !.step = "entry"]
<1>1. /\ r \in Requests /\ r.step = "await" /\ Becomes(c, q)
      /\ UNCHANGED <<tree, projects, source, turns, importJob, vain, troubles>>
  BY RequestIs DEF SendPart
<1>2. /\ q \in Requests /\ q.project = r.project /\ q.step = "entry" /\ q.told = r.told
      /\ q.unpacked = r.unpacked /\ q.room = r.room
  BY <1>1 DEF Requests, Busy
<1>3. r.unpacked + r.room = MaxFiles /\ troubles' \in 0..Troubles
  BY <1>1 DEF ProjectInv, RequestRight, ProjectTypes
<1> HIDE DEF q
<1> QED
  BY <1>1, <1>2, <1>3, WaitKeeps

LEMMA IgnoreClutterKeeps ==
    ASSUME ProjectAssumption, ProjectInv, NEW c \in Client, IgnoreClutter(c)
    PROVE  ProjectInv'
<1> DEFINE r == request[c]
           q == Done(r, "")
<1>1. /\ r \in Requests /\ r.step = "entry" /\ r.frames # <<>> /\ Top(r).entries # <<>>
      /\ Becomes(c, q) /\ UNCHANGED <<tree, projects, source, turns, importJob, vain, troubles>>
  BY RequestIs DEF IgnoreClutter, AtEntry
<1>2. /\ q \in Requests /\ q.project = r.project /\ q.step \in {"await", "entry"} /\ q.told = r.told
      /\ q.unpacked = r.unpacked /\ q.room = r.room
  <2>1. ToldOf(r, "") = r.told
    BY DEF ToldOf
  <2> QED
    BY <1>1, <2>1, DoneIs
<1>3. r.unpacked + r.room = MaxFiles /\ troubles' \in 0..Troubles
  BY <1>1 DEF ProjectInv, RequestRight, ProjectTypes
<1> HIDE DEF q
<1> QED
  BY <1>1, <1>2, <1>3, WaitKeeps

LEMMA CheckClashKeeps ==
    ASSUME ProjectAssumption, ProjectInv, NEW c \in Client, CheckClash(c)
    PROVE  ProjectInv'
<1> DEFINE r == request[c]
           n == Counted(r)
<1>1. /\ r \in Requests /\ AtEntry(r) /\ ~LimitReached(r) /\ IsFileEntry(r)
      /\ r.step = "entry" /\ r.frames # <<>> /\ Top(r).entries # <<>>
      /\ UNCHANGED <<tree, projects, source, turns, importJob, vain, troubles>>
  BY RequestIs DEF CheckClash, AtEntry
<1>2. r.unpacked + r.room = MaxFiles /\ troubles' \in 0..Troubles
  BY <1>1 DEF ProjectInv, RequestRight, ProjectTypes
<1>3. /\ n \in Requests /\ n.step = r.step /\ n.project = r.project /\ n.told = r.told
      /\ n.unpacked + n.room = r.unpacked + r.room
      /\ n.frames # <<>> /\ Top(n).entries = Top(r).entries
      /\ Entry(n) = Entry(r) /\ At(n) = At(r) /\ Top(n).nesting = Top(r).nesting
  BY <1>1, CountedIs
<1> HIDE DEF n
<1>4. CASE Becomes(c, Done(n, "refused"))
  <2> DEFINE q == Done(n, "refused")
  <2>1. /\ q \in Requests /\ q.project = r.project /\ q.step \in {"await", "entry"}
        /\ q.unpacked + q.room = MaxFiles
        /\ q.told = ToldOf(n, "refused")
    <3>1. "refused" \in Told
      BY DEF Told
    <3> QED
      BY <1>1, <1>2, <1>3, <3>1, DoneIs
  <2>2. \A x \in q.told : x \in r.told \/ x.status \in {"refused", "skipped", "failed"}
    BY <1>3, <2>1 DEF ToldOf
  <2>3. Becomes(c, q)
    BY <1>4
  <2> HIDE DEF q
  <2> QED
    BY <1>1, <1>2, <2>1, <2>2, <2>3, WaitKeeps
<1>5. CASE Fits(TreeOf(r), At(r), Unpacks(r)) /\ \E s \in {"record", "unpack", "read"} :
             Becomes(c, [n EXCEPT !.step = s, !.status = "skipped"])
  <2> PICK s \in {"record", "unpack", "read"} : Becomes(c, [n EXCEPT !.step = s, !.status = "skipped"])
    BY <1>5
  <2> DEFINE q == [n EXCEPT !.step = s, !.status = "skipped"]
  <2>1. /\ q \in Requests /\ q.project = r.project /\ q.step = s /\ q.told = r.told
        /\ q.unpacked + q.room = MaxFiles /\ q.frames = n.frames /\ q.status = "skipped"
    BY <1>2, <1>3 DEF Requests, Busy, Statuses, Folders
  <2>2. Becomes(c, q)
    OBVIOUS
  <2> HIDE DEF q
  <2>3. Top(q) = Top(n) /\ Entry(q) = Entry(r) /\ At(q) = At(r)
    BY <1>3, <2>1 DEF Top, Entry, At
  <2>4. AtFile(q) /\ (Unpacks(q) <=> Unpacks(r))
    BY <1>1, <1>3, <2>1, <2>3 DEF AtFile, IsFileEntry, Unpacks, IsZip
  <2>5. ~Unpacks(q) => Fits(tree[q.project], At(q), FALSE)
    BY <1>5, <2>1, <2>3, <2>4 DEF TreeOf, Fits
  <2> QED
    BY <1>1, <1>2, <2>1, <2>2, <2>4, <2>5, WaitKeeps
<1> QED
  BY <1>4, <1>5 DEF CheckClash, n

LEMMA ReadKeeps ==
    ASSUME ProjectAssumption, ProjectInv, NEW c \in Client, ReadIntoGather(c) \/ ReadFails(c)
    PROVE  ProjectInv'
<1> DEFINE r == request[c]
<1>1. /\ r \in Requests /\ r.step = "read"
      /\ UNCHANGED <<tree, projects, source, turns, importJob, vain>>
  BY RequestIs DEF ReadIntoGather, ReadFails
<1>2. r.unpacked + r.room = MaxFiles /\ AtFile(r) /\ StillFits(c)
  BY <1>1 DEF ProjectInv, RequestRight
<1>3. troubles' \in 0..Troubles
  BY DEF ReadIntoGather, ReadFails, Trouble, ProjectInv, ProjectTypes, ProjectAssumption
<1>4. PICK s \in {"deduplicated", "stored", "ingested", "failed"} :
         Becomes(c, [r EXCEPT !.step = "record", !.status = s])
  BY DEF ReadIntoGather, ReadFails
<1> DEFINE q == [r EXCEPT !.step = "record", !.status = s]
<1>5. /\ q \in Requests /\ q.project = r.project /\ q.step = "record" /\ q.told = r.told
      /\ q.unpacked = r.unpacked /\ q.room = r.room /\ q.frames = r.frames /\ q.status = s
  BY <1>1 DEF Requests, Busy, Statuses, Folders
<1>6. Becomes(c, q)
  BY <1>4
<1> HIDE DEF q
<1>7. AtFile(q) /\ (Unpacks(q) <=> Unpacks(r)) /\ At(q) = At(r)
  BY <1>2, <1>5 DEF AtFile, Top, Entry, IsFileEntry, Unpacks, IsZip, At
<1> QED
  BY <1>1, <1>2, <1>3, <1>5, <1>6, <1>7, WaitKeeps DEF StillFits

LEMMA EnsureFolderFailsKeeps ==
    ASSUME ProjectAssumption, ProjectInv, NEW c \in Client, EnsureFolderFails(c)
    PROVE  ProjectInv'
<1> DEFINE r == request[c]
<1>1. /\ r \in Requests /\ r.step \in {"unpack", "entry"} /\ r.frames # <<>> /\ Top(r).entries # <<>>
      /\ UNCHANGED <<tree, projects, source, turns, importJob, vain>>
  <2>1. r.step \in {"unpack", "entry"} /\ (r.step = "entry" => AtEntry(r))
    BY DEF EnsureFolderFails, AtEntry
  <2>2. r \in Requests
    BY <2>1, RequestIs
  <2> QED
    BY <2>1, <2>2 DEF EnsureFolderFails, AtEntry, ProjectInv, RequestRight, AtFile
<1>2. r.unpacked + r.room = MaxFiles
  BY <1>1 DEF ProjectInv, RequestRight
<1>3. troubles' \in 0..Troubles
  <2>1. troubles' = troubles \/ Trouble
    BY DEF EnsureFolderFails
  <2> QED
    BY <2>1 DEF Trouble, ProjectInv, ProjectTypes, ProjectAssumption
<1>4. PICK q : Becomes(c, q) /\ q \in {Unpacked(r), Done(r, "")}
  BY DEF EnsureFolderFails
<1>5. /\ q \in Requests /\ q.project = r.project /\ q.step \in {"await", "entry"} /\ q.told = r.told
      /\ q.unpacked = r.unpacked /\ q.room = r.room
  <2>1. ToldOf(r, "") = r.told
    BY DEF ToldOf
  <2>2. CASE q = Unpacked(r)
    BY <1>1, <2>2, UnpackedIs
  <2>3. CASE q = Done(r, "")
    BY <1>1, <2>1, <2>3, DoneIs
  <2> QED
    BY <1>4, <2>2, <2>3
<1> QED
  BY <1>1, <1>2, <1>3, <1>4, <1>5, WaitKeeps

LEMMA FinishesKeeps ==
    ASSUME ProjectAssumption, ProjectInv, NEW c \in Client,
           WriteFails(c) \/ LastEntryDone(c) \/ BodyBroken(c)
    PROVE  ProjectInv'
<1> DEFINE r == request[c]
<1>1. /\ r \in Requests /\ r.step \in {"await", "record", "entry"}
      /\ UNCHANGED <<tree, projects, source, turns, importJob, vain>>
  BY RequestIs DEF WriteFails, LastEntryDone, BodyBroken, AtEntry
<1>2. r.unpacked + r.room = MaxFiles
  BY <1>1 DEF ProjectInv, RequestRight
<1>3. troubles' \in 0..Troubles
  BY DEF WriteFails, LastEntryDone, BodyBroken, Trouble, ProjectInv, ProjectTypes, ProjectAssumption
<1>4. PICK b \in BOOLEAN : Becomes(c, [r EXCEPT !.step = "finish", !.error = b])
  <2>1. r.error \in BOOLEAN /\ [r EXCEPT !.step = "finish"] = [r EXCEPT !.step = "finish", !.error = r.error]
    BY <1>1 DEF Requests
  <2> QED
    BY <2>1 DEF WriteFails, LastEntryDone, BodyBroken
<1> DEFINE q == [r EXCEPT !.step = "finish", !.error = b]
<1>5. /\ q \in Requests /\ q.project = r.project /\ q.step = "finish" /\ q.told = r.told
      /\ q.unpacked = r.unpacked /\ q.room = r.room
  BY <1>1 DEF Requests, Busy
<1>6. Becomes(c, q)
  BY <1>4
<1> HIDE DEF q
<1> QED
  BY <1>1, <1>2, <1>3, <1>5, <1>6, WaitKeeps

-----------------------------------------------------------------------------
(* What is written into the tree.                                          *)

\* The tree of the request's project is one, and stays one if nothing is written.
LEMMA TreeOfIs ==
    ASSUME ProjectInv, NEW p \in Project
    PROVE  tree[p] \in Trees /\ Rooted(tree[p]) /\ KindsStay(tree[p], tree[p])
BY DEF ProjectInv, ProjectTypes, TreesAreTrees, Rooted, KindsStay

\* The request goes on after an entry, of which its client is told what is so.
LEMMA WriteKeeps ==
    ASSUME ProjectAssumption, ProjectInv, NEW c \in Client, NEW r \in Requests,
           request[c] \in Requests, request[c].step # "lock",
           r.frames # <<>>, Top(r).entries # <<>>, r.project = request[c].project,
           r.told = request[c].told, r.unpacked + r.room = MaxFiles,
           NEW status \in Told \cup {""}, Becomes(c, Done(r, status)),
           NEW t \in Trees, tree' = [tree EXCEPT ![r.project] = t],
           Rooted(t), KindsStay(tree[r.project], t),
           status \in {"ingested", "stored", "deduplicated"} => IsFile(t, At(r)),
           status = "left_out" => IsFolder(t, At(r)),
           vain' \subseteq [project : Project, unpacks : BOOLEAN], NothingReadInVain',
           UNCHANGED <<projects, source, turns, importJob, troubles>>
    PROVE  ProjectInv'
<1> DEFINE q == Done(r, status)
<1>1. /\ q \in Requests /\ q.step \in {"await", "entry"} /\ q.project = r.project
      /\ q.unpacked = r.unpacked /\ q.room = r.room /\ q.told = ToldOf(r, status)
  BY DoneIs
<1>2. request' = [request EXCEPT ![c] = q] /\ troubles' \in 0..Troubles
  BY DEF Becomes, ProjectInv, ProjectTypes
<1> HIDE DEF q
<1>3. q.project \in projects => ToldIn(q.told, t)
  <2> SUFFICES ASSUME r.project \in projects PROVE ToldIn(q.told, t)
    BY <1>1
  <2>1. ToldIn(r.told, tree[r.project])
    BY DEF ProjectInv, RequestRight, ToldIn
  <2>2. ToldIn(r.told, t)
    BY <2>1, ToldStays
  <2>3. ASSUME NEW x \in ToldOf(r, status)
        PROVE  /\ x.status \in {"ingested", "stored", "deduplicated"} => IsFile(t, x.at)
               /\ x.status = "left_out" => IsFolder(t, x.at)
    <3>1. CASE x \in r.told
      BY <2>2, <3>1 DEF ToldIn
    <3>2. CASE x = [at |-> At(r), status |-> status]
      <4>1. x.at = At(r) /\ x.status = status
        BY <3>2
      <4> QED
        BY <4>1
    <3> QED
      BY <3>1, <3>2 DEF ToldOf
  <2> QED
    BY <1>1, <2>3 DEF ToldIn
<1> QED
  BY <1>1, <1>2, <1>3, WorkKeeps

LEMMA RecordUnreadKeeps ==
    ASSUME ProjectAssumption, ProjectInv, NEW c \in Client, RecordUnread(c)
    PROVE  ProjectInv'
<1> DEFINE r == request[c]
           n == Counted(r)
           old == TreeOf(r)
           at == At(r)
           is == Entry(r).is
           asFolder == is # "secret"
           status == IF asFolder THEN "left_out" ELSE "skipped"
           fits == Fits(old, at, asFolder)
           said == IF ~fits THEN "refused" ELSE IF is = "folder" THEN "" ELSE status
           t == IF ~fits THEN old ELSE IF is = "folder" THEN EnsuredFolder(old, at)
                ELSE Recorded(old, at, status)
<1>1. /\ r \in Requests /\ AtEntry(r) /\ ~LimitReached(r)
      /\ r.step = "entry" /\ r.frames # <<>> /\ Top(r).entries # <<>>
      /\ is \in {"folder", "left_out", "secret"}
      /\ Becomes(c, Done(n, said)) /\ tree' = [tree EXCEPT ![r.project] = t]
      /\ UNCHANGED <<projects, source, turns, importJob, vain, troubles>>
  BY RequestIs DEF RecordUnread, AtEntry, Puts
<1>2. /\ n \in Requests /\ n.project = r.project /\ n.told = r.told
      /\ n.unpacked + n.room = r.unpacked + r.room
      /\ n.frames # <<>> /\ Top(n).entries = Top(r).entries /\ At(n) = at
  BY <1>1, CountedIs
<1>3. /\ old \in Trees /\ Rooted(old) /\ KindsStay(old, old) /\ at \in Path /\ old = tree[r.project]
  BY <1>1, TreeOfIs, EntryIs DEF TreeOf, Requests
<1>4. r.unpacked + r.room = MaxFiles
  BY <1>1 DEF ProjectInv, RequestRight
<1>5. /\ status \in Statuses /\ (status \in Folders <=> asFolder) /\ said \in Told \cup {""}
      /\ (fits => Fits(old, at, status \in Folders))
  BY DEF Statuses, Folders, Told, Fits
<1> HIDE DEF n, old, at
<1>6. /\ t \in Trees /\ Rooted(t) /\ KindsStay(old, t)
      /\ said # "ingested" /\ said # "stored" /\ said # "deduplicated"
      /\ said = "left_out" => IsFolder(t, at)
  <2>1. CASE ~fits
    BY <1>3, <2>1
  <2>2. CASE fits /\ is = "folder"
    BY <1>3, <2>2, EnsuredKeeps
  <2>3. CASE fits /\ is # "folder"
    BY <1>3, <1>5, <2>3, RecordedKeeps
  <2> QED
    BY <2>1, <2>2, <2>3
<1>7. vain' \subseteq [project : Project, unpacks : BOOLEAN] /\ NothingReadInVain'
  BY <1>1 DEF ProjectInv, ProjectTypes, NothingReadInVain
<1> HIDE DEF t, said
<1>8. tree' = [tree EXCEPT ![n.project] = t] /\ KindsStay(tree[n.project], t)
  BY <1>1, <1>2, <1>3, <1>6
<1> QED
  BY <1>1, <1>2, <1>4, <1>5, <1>6, <1>7, <1>8, WriteKeeps

LEMMA UnpackNestedKeeps ==
    ASSUME ProjectAssumption, ProjectInv, NEW c \in Client, UnpackNested(c)
    PROVE  ProjectInv'
<1> DEFINE r == request[c]
           old == TreeOf(r)
           at == At(r)
<1>1. /\ r \in Requests /\ r.step = "unpack" /\ r.project \in projects
      /\ UNCHANGED <<projects, source, turns, importJob, vain, troubles>>
  BY RequestIs DEF UnpackNested
<1>2. r.frames # <<>> /\ Top(r).entries # <<>> /\ r.unpacked + r.room = MaxFiles
      /\ ToldIn(r.told, tree[r.project])
  BY <1>1 DEF ProjectInv, RequestRight, AtFile, ToldIn
<1>3. /\ old \in Trees /\ Rooted(old) /\ KindsStay(old, old) /\ at \in Path /\ old = tree[r.project]
  BY <1>1, <1>2, TreeOfIs, EntryIs DEF TreeOf, Requests
<1>4. vain' \subseteq [project : Project, unpacks : BOOLEAN] /\ NothingReadInVain'
      /\ troubles' \in 0..Troubles
  BY <1>1 DEF ProjectInv, ProjectTypes, NothingReadInVain
<1>5. CASE Fits(old, at, TRUE)
  <2> DEFINE t == EnsuredFolder(old, at)
             q == Unpacked(r)
  <2>1. request' = [request EXCEPT ![c] = q] /\ tree' = [tree EXCEPT ![r.project] = t]
    BY <1>5 DEF UnpackNested, Becomes, Puts
  <2>2. /\ q \in Requests /\ q.step \in {"await", "entry"} /\ q.project = r.project
        /\ q.unpacked = r.unpacked /\ q.room = r.room /\ q.told = r.told
    BY <1>1, <1>2, UnpackedIs
  <2>3. t \in Trees /\ Rooted(t) /\ KindsStay(old, t)
    BY <1>3, <1>5, EnsuredKeeps
  <2>4. ToldIn(r.told, t)
    BY <1>1, <1>2, <1>3, <2>3, ToldStays
  <2> HIDE DEF q, t, old
  <2> QED
    BY <1>1, <1>2, <1>3, <1>4, <2>1, <2>2, <2>3, <2>4, WorkKeeps
<1>6. CASE ~Fits(old, at, TRUE)
  <2>1. Becomes(c, Done(r, "refused")) /\ tree' = [tree EXCEPT ![r.project] = old]
    BY <1>6 DEF UnpackNested, Puts
  <2> DEFINE said == "refused"
  <2>2. /\ said \in Told /\ said \notin {"ingested", "stored", "deduplicated"}
        /\ said # "left_out" /\ Becomes(c, Done(r, said))
    BY <2>1 DEF Told
  <2> HIDE DEF old, said
  <2>3. KindsStay(tree[r.project], old)
    BY <1>3
  <2> QED
    BY <1>1, <1>2, <1>3, <1>4, <2>1, <2>2, <2>3, WriteKeeps
<1> QED
  BY <1>5, <1>6

LEMMA RecordFileKeeps ==
    ASSUME ProjectAssumption, ProjectInv, NEW c \in Client, RecordFile(c)
    PROVE  ProjectInv'
<1> DEFINE r == request[c]
           old == TreeOf(r)
           at == At(r)
           fits == Fits(old, at, FALSE)
           t == IF fits THEN Recorded(old, at, r.status) ELSE old
           said == IF fits THEN r.status ELSE "refused"
<1>1. /\ r \in Requests /\ r.step = "record" /\ r.project \in projects
      /\ Becomes(c, Done(r, said)) /\ tree' = [tree EXCEPT ![r.project] = t]
      /\ UNCHANGED <<projects, source, turns, importJob, troubles>>
  BY RequestIs DEF RecordFile, Puts
<1>2. /\ r.frames # <<>> /\ Top(r).entries # <<>> /\ r.unpacked + r.room = MaxFiles
      /\ r.status # "none"
  BY <1>1 DEF ProjectInv, RequestRight, AtFile
<1>3. /\ old \in Trees /\ Rooted(old) /\ KindsStay(old, old) /\ at \in Path /\ old = tree[r.project]
  BY <1>1, <1>2, TreeOfIs, EntryIs DEF TreeOf, Requests
<1>4. /\ r.status \in Statuses /\ r.status \notin Folders /\ said \in Told
      /\ (fits => Fits(old, at, r.status \in Folders))
  BY <1>1, <1>2 DEF Requests, Told, Fits
<1>5. vain' \subseteq [project : Project, unpacks : BOOLEAN] /\ NothingReadInVain'
  <2> DEFINE v == [project |-> r.project, unpacks |-> Unpacks(r)]
  <2>1. vain' = vain \/ (~fits /\ vain' = vain \cup {v})
    BY DEF RecordFile
  <2>2. v \in [project : Project, unpacks : BOOLEAN]
    BY <1>1 DEF Requests, Unpacks
  <2>3. ~fits => source[r.project] = "zip" \/ Unpacks(r)
    <3>1. StillFits(c) /\ source[r.project] \in {"folder", "zip"}
      BY <1>1 DEF ProjectInv, ProjectTypes, UsedOnce, Requests
    <3> QED
      BY <1>1, <1>3, <3>1 DEF StillFits
  <2>4. ~fits => source[v.project] = "zip" \/ v.unpacks
    BY <2>3
  <2> HIDE DEF v, fits
  <2> QED
    BY <1>1, <2>1, <2>2, <2>4 DEF ProjectInv, ProjectTypes, NothingReadInVain
<1> HIDE DEF old, at
<1>6. /\ t \in Trees /\ Rooted(t) /\ KindsStay(old, t)
      /\ said \in {"ingested", "stored", "deduplicated"} => IsFile(t, at)
      /\ said # "left_out"
  <2>1. CASE fits
    BY <1>3, <1>4, <2>1, RecordedKeeps DEF Folders
  <2>2. CASE ~fits
    BY <1>3, <2>2
  <2> QED
    BY <2>1, <2>2
<1> HIDE DEF t, said
<1> QED
  BY <1>1, <1>2, <1>3, <1>4, <1>5, <1>6, WriteKeeps DEF at

-----------------------------------------------------------------------------
(* The queue, and projects that come and go.                               *)

\* Who leaves the queue is gone from it, and nobody else moves.
LEMMA LeavesQueue ==
    ASSUME NEW queue \in Seq(Client), NEW c \in Client
    PROVE  /\ QueueWithout(queue, c) \in Seq(Client)
           /\ \A d \in Client \ {c} :
                /\ (\E i \in DOMAIN queue : queue[i] = d)
                     => \E i \in DOMAIN QueueWithout(queue, c) : QueueWithout(queue, c)[i] = d
                /\ queue # <<>> /\ Head(queue) = d
                     => QueueWithout(queue, c) # <<>> /\ Head(QueueWithout(queue, c)) = d
<1>1. CASE \A i \in DOMAIN queue : queue[i] # c
  BY <1>1 DEF QueueWithout
<1>2. CASE \E i \in DOMAIN queue : queue[i] = c
  <2> DEFINE i == CHOOSE j \in DOMAIN queue : queue[j] = c
             rest == [j \in 1..Len(queue) - 1 |-> IF j < i THEN queue[j] ELSE queue[j + 1]]
  <2>1. QueueWithout(queue, c) = rest
    BY <1>2 DEF QueueWithout
  <2>2. i \in 1..Len(queue) /\ queue[i] = c /\ Len(queue) \in Nat
    BY <1>2
  <2> HIDE DEF i
  <2>3. /\ rest \in Seq(Client) /\ Len(rest) = Len(queue) - 1
        /\ \A j \in 1..Len(queue) - 1 : rest[j] = IF j < i THEN queue[j] ELSE queue[j + 1]
    BY <2>2
  <2> HIDE DEF rest
  <2>4. ASSUME NEW d \in Client \ {c}, NEW j \in DOMAIN queue, queue[j] = d
        PROVE  \E k \in DOMAIN rest : rest[k] = d
    <3>1. j \in 1..Len(queue) /\ j # i
      BY <2>2, <2>4
    <3>2. CASE j < i
      <4>1. j \in 1..Len(queue) - 1
        BY <2>2, <3>1, <3>2
      <4> QED
        BY <2>3, <2>4, <3>2, <4>1
    <3>3. CASE j > i
      <4>1. j - 1 \in 1..Len(queue) - 1 /\ ~(j - 1 < i) /\ (j - 1) + 1 = j
        BY <2>2, <3>1, <3>3
      <4> QED
        BY <2>3, <2>4, <4>1
    <3> QED
      BY <2>2, <3>1, <3>2, <3>3
  <2>5. ASSUME NEW d \in Client \ {c}, queue # <<>>, Head(queue) = d
        PROVE  rest # <<>> /\ Head(rest) = d
    <3>1. queue[1] = d /\ i > 1
      BY <2>2, <2>5
    <3>2. 1 \in 1..Len(queue) - 1 /\ 1 < i
      BY <2>2, <3>1
    <3> QED
      BY <2>3, <3>1, <3>2
  <2> QED
    BY <2>1, <2>3, <2>4, <2>5
<1> QED
  BY <1>1, <1>2

\* A request that ends leaves the queue; nobody overtakes.
LEMMA EndKeeps ==
    ASSUME ProjectAssumption, ProjectInv, NEW c \in Client, FinishJob(c) \/ HangUp(c)
    PROVE  ProjectInv'
<1>1. /\ request' = [request EXCEPT ![c] = NoRequest]
      /\ turns' = [p \in Project |-> QueueWithout(turns[p], c)]
      /\ importJob' \in [Client -> {"none", "processing", "finished", "failed", "abandoned"}]
      /\ importJob'[c] # "processing" /\ \A d \in Client \ {c} : importJob'[d] = importJob[d]
      /\ UNCHANGED <<tree, projects, source, vain>>
  BY DEF FinishJob, HangUp, Becomes, WithoutTurn, Outcome, ProjectInv, ProjectTypes
<1>2. request \in [Client -> Requests \cup {NoRequest}] /\ turns \in [Project -> Seq(Client)]
  BY DEF ProjectInv, ProjectTypes
<1>3. /\ request' \in [Client -> Requests \cup {NoRequest}] /\ request'[c] = NoRequest
      /\ \A d \in Client \ {c} : request'[d] = request[d]
  BY <1>1, <1>2
<1>4. turns' \in [Project -> Seq(Client)] /\ \A p \in Project : turns'[p] = QueueWithout(turns[p], c)
  BY <1>1, <1>2, LeavesQueue
<1>5. ProjectTypes'
  <2>1. troubles' \in 0..Troubles
    <3>1. troubles' = troubles \/ Trouble
      BY DEF FinishJob, HangUp
    <3> QED
      BY <3>1 DEF Trouble, ProjectInv, ProjectTypes, ProjectAssumption
  <2> QED
    BY <1>1, <1>3, <1>4, <2>1 DEF ProjectInv, ProjectTypes
<1>6. NoRequest \notin Requests /\ NoRequest.step = "none"
  BY DEF NoRequest, Requests, Busy
<1>7. UsedOnce' /\ TreesAreTrees' /\ NothingReadInVain' /\ JobsAreFinished'
  BY <1>1, <1>3, <1>6 DEF ProjectInv, UsedOnce, TreesAreTrees, NothingReadInVain, JobsAreFinished
<1>8. ASSUME NEW d \in Client PROVE (InTurn(d) /\ StillFits(d) /\ RequestRight(d))'
  <2>1. CASE d = c
    BY <1>3, <1>6, <2>1 DEF InTurn, StillFits, RequestRight
  <2>2. CASE d # c
    <3>1. request'[d] = request[d] /\ InTurn(d) /\ StillFits(d) /\ RequestRight(d)
      BY <1>3, <2>2 DEF ProjectInv
    <3>2. InTurn(d)'
      <4> SUFFICES ASSUME request[d] \in Requests
                   PROVE  LET p == request[d].project
                          IN /\ request[d].step = "lock" => \E i \in DOMAIN turns'[p] : turns'[p][i] = d
                             /\ request[d].step # "lock" /\ source[p] = "folder" =>
                                     turns'[p] # <<>> /\ Head(turns'[p]) = d
        BY <1>1, <3>1 DEF InTurn
      <4>1. PICK p \in Project : p = request[d].project
        BY DEF Requests
      <4>2. PICK queue \in Seq(Client) : queue = turns[p]
        BY <1>2
      <4>3. turns'[p] = QueueWithout(queue, c)
        BY <1>4, <4>2
      <4>4. /\ (\E i \in DOMAIN queue : queue[i] = d) => \E i \in DOMAIN turns'[p] : turns'[p][i] = d
            /\ queue # <<>> /\ Head(queue) = d => turns'[p] # <<>> /\ Head(turns'[p]) = d
        <5>1. d \in Client \ {c}
          BY <2>2
        <5>2. LET without == QueueWithout(queue, c)
              IN  /\ (\E i \in DOMAIN queue : queue[i] = d) => \E i \in DOMAIN without : without[i] = d
                  /\ queue # <<>> /\ Head(queue) = d => without # <<>> /\ Head(without) = d
          BY <5>1, LeavesQueue
        <5> QED
          BY <4>3, <5>2
      <4>5. /\ request[d].step = "lock" => \E i \in DOMAIN queue : queue[i] = d
            /\ request[d].step # "lock" /\ source[p] = "folder" => queue # <<>> /\ Head(queue) = d
        BY <3>1, <4>1, <4>2 DEF InTurn
      <4> QED
        BY <4>1, <4>4, <4>5
    <3>0. UNCHANGED <<tree, projects, source>>
      BY <1>1
    <3>3. StillFits(d)'
      BY <3>0, <3>1 DEF StillFits, Unpacks, IsZip, Entry, Top, At
    <3>4. RequestRight(d)'
      BY <3>0, <3>1 DEF RequestRight, AtFile, IsFileEntry, Entry, Top
    <3> QED
      BY <3>2, <3>3, <3>4
  <2> QED
    BY <2>1, <2>2
<1> QED
  BY <1>1, <1>5, <1>7, <1>8 DEF ProjectInv

\* A project's id is one that no request names, and it stays one's own.
LEMMA ProjectsKeep ==
    ASSUME ProjectAssumption, ProjectInv, NEW p \in Project, CreateProject(p) \/ DeleteProject(p)
    PROVE  ProjectInv'
<1>1. UNCHANGED <<turns, request, importJob, vain>>
  BY DEF CreateProject, DeleteProject
<1>2. \A c \in Client : request[c] \in Requests => request[c].project \in Project
  BY DEF Requests
<1>3. CASE CreateProject(p)
  <2>1. /\ source' = [source EXCEPT ![p] = "folder"] /\ projects' = projects \cup {p} /\ source[p] = "unused"
        /\ UNCHANGED <<tree, troubles>> /\ source \in [Project -> {"unused", "folder", "zip"}]
    BY <1>3 DEF CreateProject, ProjectInv, ProjectTypes
  <2>2. \A o \in Project : source'[o] = IF o = p THEN "folder" ELSE source[o]
    BY <2>1
  <2>3. ProjectTypes' /\ TreesAreTrees' /\ JobsAreFinished'
    BY <1>1, <2>1 DEF ProjectInv, ProjectTypes, TreesAreTrees, JobsAreFinished
  <2>4. UsedOnce' /\ NothingReadInVain'
    BY <1>1, <1>2, <2>1, <2>2 DEF ProjectInv, ProjectTypes, UsedOnce, NothingReadInVain
  <2>5. \A c \in Client : request[c] \in Requests =>
           /\ request[c].project # p /\ source'[request[c].project] = source[request[c].project]
           /\ request[c].project \in projects' <=> request[c].project \in projects
    BY <1>2, <2>1, <2>2 DEF ProjectInv, UsedOnce
  <2>6. ASSUME NEW c \in Client PROVE (InTurn(c) /\ StillFits(c) /\ RequestRight(c))'
    BY <1>1, <2>1, <2>5 DEF ProjectInv, InTurn, StillFits, RequestRight, AtFile, IsFileEntry,
       Unpacks, IsZip, Entry, Top, At
  <2> QED
    BY <2>3, <2>4, <2>6 DEF ProjectInv
<1>4. CASE DeleteProject(p)
  <2> DEFINE none == <<>>
  <2>1. /\ tree' = [tree EXCEPT ![p] = none] /\ projects' = projects \ {p} /\ source' = source
        /\ tree \in [Project -> Trees] /\ troubles' \in 0..Troubles
    BY <1>4 DEF DeleteProject, Trouble, ProjectInv, ProjectTypes, ProjectAssumption
  <2>2. none \in Trees /\ DOMAIN none = {}
    BY NothingIsATree
  <2> HIDE DEF none
  <2>3. /\ tree' \in [Project -> Trees] /\ DOMAIN tree'[p] = {}
        /\ \A o \in Project \ {p} : tree'[o] = tree[o]
    BY <2>1, <2>2
  <2>4. ProjectTypes' /\ TreesAreTrees' /\ JobsAreFinished' /\ UsedOnce' /\ NothingReadInVain'
    BY <1>1, <2>1, <2>3 DEF ProjectInv, ProjectTypes, TreesAreTrees, JobsAreFinished, UsedOnce,
       NothingReadInVain
  <2>5. \A o \in projects' : o \in projects /\ o \in Project /\ tree'[o] = tree[o]
    BY <2>1, <2>3 DEF ProjectInv, ProjectTypes
  <2>6. ASSUME NEW c \in Client PROVE (InTurn(c) /\ StillFits(c) /\ RequestRight(c))'
    BY <1>1, <2>1, <2>5 DEF ProjectInv, InTurn, StillFits, RequestRight, AtFile, IsFileEntry,
       Unpacks, IsZip, Entry, Top, At
  <2> QED
    BY <2>4, <2>6 DEF ProjectInv
<1> QED
  BY <1>3, <1>4

LEMMA BegunIs ==
    ASSUME ProjectAssumption, NEW p \in Project, NEW step \in Busy, NEW entries \in Upload \cup Archive,
           NEW nesting \in Nat, NEW limit \in Nat
    PROVE  LET r == Begun(p, step, Frame(<<>>, entries, nesting, limit))
           IN  /\ r \in Requests /\ r.project = p /\ r.step = step /\ r.told = {}
               /\ r.unpacked + r.room = MaxFiles
<1> DEFINE f == Frame(<<>>, entries, nesting, limit)
<1>1. f \in Frames
  BY DEF Frame, Frames, Path, ProjectAssumption
<1>2. <<f>> \in Seq(Frames)
  BY <1>1
<1>3. MaxFiles \in Nat
  BY DEF ProjectAssumption
<1> HIDE DEF f
<1>4. /\ Begun(p, step, f) \in Requests /\ Begun(p, step, f).project = p /\ Begun(p, step, f).step = step
      /\ Begun(p, step, f).told = {} /\ Begun(p, step, f).unpacked + Begun(p, step, f).room = MaxFiles
  BY <1>2, <1>3 DEF Begun, Requests
<1> QED
  BY <1>4 DEF f

\* A request to a project begins at the end of its queue.
LEMMA AddFilesKeeps ==
    ASSUME ProjectAssumption, ProjectInv, NEW c \in Client, NEW p \in Project, NEW u \in Upload,
           AddFiles(c, p, u)
    PROVE  ProjectInv'
<1> DEFINE q == Begun(p, "lock", Frame(<<>>, u, 0, 0))
<1>1. q \in Requests /\ q.project = p /\ q.step = "lock" /\ q.told = {} /\ q.unpacked + q.room = MaxFiles
  <2>1. "lock" \in Busy /\ u \in Upload \cup Archive
    BY DEF Busy
  <2>2. ASSUME NEW n \in Nat
        PROVE  LET r == Begun(p, "lock", Frame(<<>>, u, n, n))
               IN  /\ r \in Requests /\ r.project = p /\ r.step = "lock" /\ r.told = {}
                   /\ r.unpacked + r.room = MaxFiles
    BY <2>1, BegunIs
  <2> QED
    BY <2>2
<1>2. /\ request' = [request EXCEPT ![c] = q] /\ turns' = [turns EXCEPT ![p] = Append(@, c)]
      /\ p \in projects /\ importJob[c] = "none" /\ request[c].step = "none"
      /\ UNCHANGED <<tree, projects, source, importJob, vain, troubles>>
  BY DEF AddFiles, Becomes
<1> HIDE DEF q
<1>3. request \in [Client -> Requests \cup {NoRequest}] /\ turns \in [Project -> Seq(Client)]
  BY DEF ProjectInv, ProjectTypes
<1>4. /\ request' \in [Client -> Requests \cup {NoRequest}] /\ request'[c] = q
      /\ \A d \in Client \ {c} : request'[d] = request[d]
  BY <1>1, <1>2, <1>3
<1>5. /\ turns' \in [Project -> Seq(Client)] /\ turns'[p] = Append(turns[p], c)
      /\ \A o \in Project \ {p} : turns'[o] = turns[o]
  BY <1>2, <1>3
<1>6. ProjectTypes' /\ UsedOnce' /\ TreesAreTrees' /\ NothingReadInVain' /\ JobsAreFinished'
  BY <1>1, <1>2, <1>4, <1>5 DEF ProjectInv, ProjectTypes, UsedOnce, TreesAreTrees, NothingReadInVain,
     JobsAreFinished
<1>7. ASSUME NEW d \in Client PROVE (InTurn(d) /\ StillFits(d) /\ RequestRight(d))'
  <2>1. PICK queue \in Seq(Client) : queue = turns[p]
    BY <1>3
  <2>2. /\ turns'[p] = Append(queue, c) /\ Len(Append(queue, c)) = Len(queue) + 1 /\ Len(queue) \in Nat
        /\ Append(queue, c)[Len(queue) + 1] = c
        /\ \A i \in 1..Len(queue) : Append(queue, c)[i] = queue[i]
    BY <1>5, <2>1
  <2>3. CASE d = c
    <3>1. Len(queue) + 1 \in DOMAIN turns'[p] /\ turns'[p][Len(queue) + 1] = c
      BY <2>2
    <3> QED
      BY <1>1, <1>4, <2>3, <3>1 DEF InTurn, StillFits, RequestRight
  <2>4. CASE d # c
    <3>1. request'[d] = request[d] /\ InTurn(d) /\ StillFits(d) /\ RequestRight(d)
      BY <1>4, <2>4 DEF ProjectInv
    <3>2. UNCHANGED <<tree, projects, source>>
      BY <1>2
    <3>3. StillFits(d)'
      BY <3>1, <3>2 DEF StillFits, Unpacks, IsZip, Entry, Top, At
    <3>4. RequestRight(d)'
      BY <3>1, <3>2 DEF RequestRight, AtFile, IsFileEntry, Entry, Top
    <3>5. InTurn(d)'
      <4>1. CASE request[d] \in Requests /\ request[d].project = p
        <5>1. (\E i \in DOMAIN queue : queue[i] = d) => \E i \in DOMAIN turns'[p] : turns'[p][i] = d
          BY <2>2
        <5>2. queue # <<>> /\ Head(queue) = d => turns'[p] # <<>> /\ Head(turns'[p]) = d
          BY <2>1, <2>2
        <5> QED
          BY <2>1, <3>1, <3>2, <4>1, <5>1, <5>2 DEF InTurn
      <4>2. CASE request[d] \in Requests /\ request[d].project # p
        <5>1. turns'[request[d].project] = turns[request[d].project]
          BY <1>5, <4>2 DEF Requests
        <5> QED
          BY <3>1, <3>2, <5>1 DEF InTurn
      <4>3. CASE request[d] \notin Requests
        BY <3>1, <4>3 DEF InTurn
      <4> QED
        BY <4>1, <4>2, <4>3
    <3> QED
      BY <3>3, <3>4, <3>5
  <2> QED
    BY <2>3, <2>4
<1> QED
  BY <1>2, <1>6, <1>7 DEF ProjectInv

\* The first in the queue goes on.
LEMMA TakeLockKeeps ==
    ASSUME ProjectAssumption, ProjectInv, NEW c \in Client, TakeLock(c)
    PROVE  ProjectInv'
<1> DEFINE r == request[c]
           q == [r EXCEPT !.step = "await"]
<1>1. /\ r \in Requests /\ r.step = "lock" /\ Head(turns[r.project]) = c
      /\ request' = [request EXCEPT ![c] = q] /\ importJob' = [importJob EXCEPT ![c] = "processing"]
      /\ UNCHANGED <<tree, projects, source, turns, vain, troubles>>
  BY RequestIs DEF TakeLock, First, Becomes
<1>2. /\ q \in Requests /\ q.project = r.project /\ q.step = "await" /\ q.told = r.told
      /\ q.unpacked = r.unpacked /\ q.room = r.room
  BY <1>1 DEF Requests, Busy
<1>3. turns[r.project] # <<>>
  <2>1. \E i \in DOMAIN turns[r.project] : turns[r.project][i] = c
    BY <1>1 DEF ProjectInv, InTurn
  <2> QED
    BY <2>1
<1> HIDE DEF q
<1>4. request \in [Client -> Requests \cup {NoRequest}]
  BY DEF ProjectInv, ProjectTypes
<1>5. /\ request' \in [Client -> Requests \cup {NoRequest}] /\ request'[c] = q
      /\ \A d \in Client \ {c} : request'[d] = request[d]
  BY <1>1, <1>2, <1>4
<1>6. /\ importJob' \in [Client -> {"none", "processing", "finished", "failed", "abandoned"}]
      /\ \A d \in Client \ {c} : importJob'[d] = importJob[d]
  BY <1>1 DEF ProjectInv, ProjectTypes
<1>7. ProjectTypes' /\ UsedOnce' /\ TreesAreTrees' /\ NothingReadInVain' /\ JobsAreFinished'
  BY <1>1, <1>2, <1>5, <1>6 DEF ProjectInv, ProjectTypes, UsedOnce, TreesAreTrees, NothingReadInVain,
     JobsAreFinished
<1>8. ASSUME NEW d \in Client PROVE (InTurn(d) /\ StillFits(d) /\ RequestRight(d))'
  <2>1. InTurn(d) /\ StillFits(d) /\ RequestRight(d)
    BY DEF ProjectInv
  <2>2. UNCHANGED <<tree, projects, source, turns>>
    BY <1>1
  <2>3. CASE d = c
    BY <1>1, <1>2, <1>3, <1>5, <2>1, <2>2, <2>3 DEF InTurn, StillFits, RequestRight
  <2>4. CASE d # c
    <3>1. request'[d] = request[d]
      BY <1>5, <2>4
    <3> QED
      BY <2>1, <2>2, <3>1 DEF InTurn, StillFits, RequestRight, AtFile, IsFileEntry, Unpacks, IsZip,
         Entry, Top, At
  <2> QED
    BY <2>3, <2>4
<1> QED
  BY <1>1, <1>7, <1>8 DEF ProjectInv

\* An import makes a project of its own.
LEMMA ImportZipKeeps ==
    ASSUME ProjectAssumption, ProjectInv, NEW c \in Client, NEW p \in Project, NEW z \in Archive,
           ImportZip(c, p, z)
    PROVE  ProjectInv'
<1> DEFINE q == Begun(p, "entry", Frame(<<>>, z, 1, MaxFiles))
<1>1. q \in Requests /\ q.project = p /\ q.step = "entry" /\ q.told = {} /\ q.unpacked + q.room = MaxFiles
  <2>1. MaxFiles \in Nat /\ "entry" \in Busy /\ z \in Upload \cup Archive
    BY DEF ProjectAssumption, Busy
  <2>2. ASSUME NEW n \in Nat
        PROVE  LET r == Begun(p, "entry", Frame(<<>>, z, n, MaxFiles))
               IN  /\ r \in Requests /\ r.project = p /\ r.step = "entry" /\ r.told = {}
                   /\ r.unpacked + r.room = MaxFiles
    BY <2>1, BegunIs
  <2> QED
    BY <2>2
<1>2. /\ request' = [request EXCEPT ![c] = q] /\ source' = [source EXCEPT ![p] = "zip"]
      /\ projects' = projects \cup {p} /\ source[p] = "unused"
      /\ importJob' = [importJob EXCEPT ![c] = "processing"]
      /\ UNCHANGED <<tree, turns, vain, troubles>>
  BY DEF ImportZip, Becomes
<1> HIDE DEF q
<1>3. /\ request \in [Client -> Requests \cup {NoRequest}]
      /\ source \in [Project -> {"unused", "folder", "zip"}]
  BY DEF ProjectInv, ProjectTypes
<1>4. /\ request' \in [Client -> Requests \cup {NoRequest}] /\ request'[c] = q
      /\ \A d \in Client \ {c} : request'[d] = request[d]
  BY <1>1, <1>2, <1>3
<1>5. /\ source' \in [Project -> {"unused", "folder", "zip"}]
      /\ \A o \in Project : source'[o] = IF o = p THEN "zip" ELSE source[o]
  BY <1>2, <1>3
<1>6. /\ importJob' \in [Client -> {"none", "processing", "finished", "failed", "abandoned"}]
      /\ \A d \in Client \ {c} : importJob'[d] = importJob[d]
  BY <1>2 DEF ProjectInv, ProjectTypes
<1>7. ProjectTypes' /\ TreesAreTrees' /\ JobsAreFinished'
  BY <1>1, <1>2, <1>4, <1>5, <1>6 DEF ProjectInv, ProjectTypes, TreesAreTrees, JobsAreFinished
<1>8. \A d \in Client : request[d] \in Requests => request[d].project \in Project
  BY DEF Requests
<1>9. UsedOnce' /\ NothingReadInVain'
  <2>1. \A v \in vain : v.project \in Project
    BY DEF ProjectInv, ProjectTypes
  <2> QED
    BY <1>1, <1>2, <1>4, <1>5, <1>8, <2>1 DEF ProjectInv, ProjectTypes, UsedOnce, NothingReadInVain
<1>10. ASSUME NEW d \in Client PROVE (InTurn(d) /\ StillFits(d) /\ RequestRight(d))'
  <2>1. InTurn(d) /\ StillFits(d) /\ RequestRight(d)
    BY DEF ProjectInv
  <2>2. UNCHANGED <<tree, turns>>
    BY <1>2
  <2>3. CASE d = c
    BY <1>1, <1>4, <1>5, <2>3 DEF InTurn, StillFits, RequestRight
  <2>4. CASE d # c
    <3>1. request'[d] = request[d]
      BY <1>4, <2>4
    <3>2. request[d] \in Requests =>
             /\ request[d].project # p /\ source'[request[d].project] = source[request[d].project]
             /\ request[d].project \in projects' <=> request[d].project \in projects
      BY <1>2, <1>5, <1>8 DEF ProjectInv, UsedOnce
    <3> QED
      BY <2>1, <2>2, <3>1, <3>2 DEF InTurn, StillFits, RequestRight, AtFile, IsFileEntry, Unpacks, IsZip,
         Entry, Top, At
  <2> QED
    BY <2>3, <2>4
<1> QED
  BY <1>7, <1>9, <1>10 DEF ProjectInv

-----------------------------------------------------------------------------
LEMMA ProjectInvInit == ProjectAssumption /\ ProjectInit => ProjectInv
<1> SUFFICES ASSUME ProjectAssumption, ProjectInit PROVE ProjectInv
  OBVIOUS
<1> DEFINE none == <<>>
<1>1. none \in Trees /\ DOMAIN none = {}
  BY NothingIsATree
<1>2. tree = [p \in Project |-> none]
  BY DEF ProjectInit
<1> HIDE DEF none
<1>3. ProjectTypes
  BY <1>1, <1>2 DEF ProjectInit, ProjectTypes, ProjectAssumption
<1>4. NoRequest \notin Requests
  BY DEF NoRequest, Requests, Busy
<1>5. TreesAreTrees
  BY <1>1, <1>2 DEF TreesAreTrees
<1> QED
  BY <1>3, <1>4, <1>5 DEF ProjectInit, ProjectInv, UsedOnce, NothingReadInVain, JobsAreFinished,
     InTurn, StillFits, RequestRight

LEMMA ProjectInvKept == ProjectAssumption /\ ProjectInv /\ [ProjectNext]_treeVars => ProjectInv'
<1> SUFFICES ASSUME ProjectAssumption, ProjectInv, [ProjectNext]_treeVars PROVE ProjectInv'
  OBVIOUS
<1>1. CASE \E p \in Project : CreateProject(p) \/ DeleteProject(p)
  BY <1>1, ProjectsKeep
<1>2. CASE \E c \in Client, p \in Project, u \in Upload : AddFiles(c, p, u)
  BY <1>2, AddFilesKeeps
<1>3. CASE \E c \in Client, p \in Project, z \in Archive : ImportZip(c, p, z)
  BY <1>3, ImportZipKeeps
<1>4. CASE \E c \in Client : RequestStep(c)
  BY <1>4, TakeLockKeeps, ArchiveEndsKeeps, RecordUnreadKeeps, IgnoreClutterKeeps, CheckClashKeeps,
     UnpackNestedKeeps, ReadKeeps, RecordFileKeeps, EnsureFolderFailsKeeps, FinishesKeeps, EndKeeps
  DEF RequestStep
<1>5. CASE \E c \in Client : SendPart(c) \/ BodyBroken(c) \/ ReadFails(c) \/ HangUp(c)
  BY <1>5, SendPartKeeps, FinishesKeeps, ReadKeeps, EndKeeps
<1>6. CASE UNCHANGED treeVars
  BY <1>6 DEF treeVars, ProjectInv, ProjectTypes, UsedOnce, TreesAreTrees, NothingReadInVain,
     JobsAreFinished, InTurn, StillFits, RequestRight, AtFile, IsFileEntry, Unpacks, IsZip, Entry, Top, At
<1> QED
  BY <1>1, <1>2, <1>3, <1>4, <1>5, <1>6 DEF ProjectNext

\* However many requests and imports fill projects that people create and
\* delete: what is there is a tree, a client is told of what is in it, a file
\* of a folder is read only for a place it gets, unless it is a .zip that was to
\* be unpacked there, and every request keeps its limit and finishes its job.
THEOREM ProjectsAreSound == ProjectSpec => []ProjectIsSound
<1>1. ProjectInv => ProjectIsSound
  <2> SUFFICES ASSUME ProjectInv PROVE ProjectIsSound
    OBVIOUS
  <2>1. \A c \in Client : request[c].step = "none" \/ request[c] \in Requests
    BY DEF ProjectInv, ProjectTypes, NoRequest
  <2>2. \A c \in Client : request[c] \in Requests =>
           request[c].step \in Busy /\ request[c].room \in 0..MaxFiles /\ request[c].unpacked \in Nat
    BY DEF Requests
  <2>3. \A p \in Project : \A path \in DOMAIN tree[p] : tree[p][path] \in Statuses
    BY TreeIs DEF ProjectInv, ProjectTypes
  <2>4. ProjectTypeOK
    BY <2>1, <2>2, <2>3 DEF ProjectInv, ProjectTypes, ProjectTypeOK, Busy, Statuses
  <2>5. ToldIsRecorded
    BY <2>1 DEF ProjectInv, RequestRight, ToldIsRecorded
  <2>6. UnpackingIsBounded
    <3> SUFFICES ASSUME NEW c \in Client, request[c].step # "none"
                 PROVE  request[c].unpacked <= MaxFiles
      BY DEF UnpackingIsBounded
    <3>1. request[c] \in Requests /\ request[c].unpacked + request[c].room = MaxFiles
      BY <2>1 DEF ProjectInv, RequestRight
    <3>2. request[c].room \in Nat /\ request[c].unpacked \in Nat
      BY <2>2, <3>1
    <3> QED
      BY <3>1, <3>2
  <2> QED
    BY <2>4, <2>5, <2>6 DEF ProjectInv, ProjectIsSound
<1> QED
  BY <1>1, ProjectInvInit, ProjectInvKept, ProjectAssumption, PTL DEF ProjectSpec
=============================================================================
