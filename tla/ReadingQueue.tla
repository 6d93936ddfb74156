---------------------------- MODULE ReadingQueue ----------------------------
(***************************************************************************)
(* The extraction worker: files are opened (text taken from PDFs, images   *)
(* read by OCR), their text is read into claims by the rules and, when one *)
(* is set up, by a reading model; a re-read job goes back over what an     *)
(* other reader has read; and documents get a digest.                      *)
(*                                                                         *)
(* A pass works through its queues one after the other.  Opening claims a  *)
(* batch by marking it "processing"; reading claims nothing before the     *)
(* transaction that stores what was read, so two workers may read the same *)
(* text, and a source may be withdrawn while a model is reading it.  An    *)
(* error of the database ends the queue being worked on, not the pass; a   *)
(* crash ends the worker, and starting again returns what was being opened *)
(* to the queue.                                                           *)
(*                                                                         *)
(* Each file is one chunk of text.  A claim is reduced to who found it:    *)
(* backed[f][r] counts the provenance rows of what reader r found in f.    *)
(* Left out: the counters of a job, pacing, thumbnails, EXIF.              *)
(***************************************************************************)
EXTENDS Naturals, FiniteSets

CONSTANTS
    File,        \* imported files
    Kind,        \* Kind[f]: "pdf", "image" or "chat"
    Worker,      \* processes running the extraction worker
    Model,       \* reading models a worker may be configured with
    None,
    Batch,       \* files or chunks taken at a time
    Scenario     \* what a behaviour has: some files, workers and models, and
                 \* bounds on the number of re-read jobs, crashes and errors

ASSUME ReadingAssumption ==
    /\ Kind \in [File -> {"pdf", "image", "chat"}]
    /\ None \notin Model /\ "rules" \notin Model
    /\ IsFiniteSet(File) /\ Batch \in Nat \ {0}
    /\ Scenario \subseteq [files : SUBSET File, workers : SUBSET Worker,
                            models : SUBSET Model, jobs : Nat, crashes : Nat, errors : Nat]

Reader == Model \cup {"rules"}

\* The queues of a pass, in the order they are served, and what follows each.
Stages == {"down", "pdf", "open pdf", "image", "open image", "fresh", "read fresh",
           "reread", "cancel", "read again", "digest", "write digest", "reword"}

VARIABLES
    opened,    \* extraction_status / ocr_status; "absent" before the import
    withdrawn, \* sources that people have withdrawn
    read,      \* units_extracted_at is set: "no", "yes" or "aside"
    llm,       \* units_llm_model
    visit,     \* units_reread_job
    backed,    \* provenance rows per reader of the file's text
    digest,    \* document_digests.method, "none" without a row
    job,       \* the latest re-read job
    base,      \* history: what had been read when the job started
    stage,     \* what each worker is doing
    work,      \* what it has claimed or loaded and not yet dealt with
    model,     \* the reading model it is configured with
    held,      \* the job it has loaded, with the model
    busy,      \* it has read something fresh in this pass
    dropped,   \* history: files a database error left "processing"
    crashes, errors,
    scenario

fileVars   == <<opened, withdrawn, read, llm, visit, backed, digest>>
workerVars == <<stage, work, model, held, busy>>
readingVars == <<fileVars, job, base, workerVars, dropped, crashes, errors, scenario>>

NoJob == [id |-> 0, model |-> None, status |-> "none"]

ReadingInit ==
    /\ opened = [f \in File |-> "absent"]
    /\ withdrawn = {}
    /\ read = [f \in File |-> "no"]
    /\ llm = [f \in File |-> None]
    /\ visit = [f \in File |-> 0]
    /\ backed = [f \in File |-> [r \in Reader |-> 0]]
    /\ digest = [f \in File |-> "none"]
    /\ job = NoJob /\ base = {}
    /\ stage = [w \in Worker |-> "down"]
    /\ work = [w \in Worker |-> {}]
    /\ model = [w \in Worker |-> None]
    /\ held = [w \in Worker |-> NoJob]
    /\ busy = [w \in Worker |-> FALSE]
    /\ dropped = {} /\ crashes = 0 /\ errors = 0
    /\ scenario \in Scenario

\* The first Batch of a queue; which ones these are is up to the order of ids.
Batches(queue) == {S \in SUBSET queue : Cardinality(S) =
                      IF Cardinality(queue) < Batch THEN Cardinality(queue) ELSE Batch}

Become(w, s, todo) == /\ stage' = [stage EXCEPT ![w] = s]
                      /\ work' = [work EXCEPT ![w] = todo]

-----------------------------------------------------------------------------
\* What people do.

Import(f) ==
    /\ opened[f] = "absent" /\ f \in scenario.files
    /\ opened' = [opened EXCEPT ![f] = IF Kind[f] = "chat" THEN "text" ELSE "pending"]
    /\ UNCHANGED <<withdrawn, read, llm, visit, backed, digest, job, base, workerVars,
                   dropped, crashes, errors, scenario>>

Withdraw(f) ==
    /\ opened[f] # "absent" /\ f \notin withdrawn
    /\ withdrawn' = withdrawn \cup {f}
    /\ UNCHANGED <<opened, read, llm, visit, backed, digest, job, base, workerVars,
                   dropped, crashes, errors, scenario>>

UnreadBy(m) == {f \in File \ withdrawn : read[f] # "no" /\ llm[f] # m}

\* The request is answered by a running daemon with its own model; a job that
\* runs already is returned instead.
StartReread(w) ==
    /\ stage[w] # "down" /\ model[w] # None
    /\ job.status # "running" /\ job.id < scenario.jobs
    /\ UnreadBy(model[w]) # {}
    /\ job' = [id |-> job.id + 1, model |-> model[w], status |-> "running"]
    /\ base' = {f \in File : read[f] # "no"}
    /\ UNCHANGED <<fileVars, workerVars, dropped, crashes, errors, scenario>>

CancelReread ==
    /\ job.status = "running"
    /\ job' = [job EXCEPT !.status = "cancelled"]
    /\ UNCHANGED <<fileVars, base, workerVars, dropped, crashes, errors, scenario>>

-----------------------------------------------------------------------------
\* The worker as a process.

Recovered(f) == IF opened[f] = "processing" THEN "pending" ELSE opened[f]

Start(w) ==
    /\ stage[w] = "down" /\ w \in scenario.workers
    /\ opened' = [f \in File |-> Recovered(f)]
    /\ dropped' = {}
    /\ \E m \in scenario.models \cup {None} : model' = [model EXCEPT ![w] = m]
    /\ Become(w, "pdf", {})
    /\ UNCHANGED <<withdrawn, read, llm, visit, backed, digest, job, base, held, busy,
                   crashes, errors, scenario>>

Crash(w) ==
    /\ stage[w] # "down" /\ crashes < scenario.crashes
    /\ crashes' = crashes + 1
    /\ Become(w, "down", {})
    /\ held' = [held EXCEPT ![w] = NoJob]
    /\ busy' = [busy EXCEPT ![w] = FALSE]
    /\ UNCHANGED <<fileVars, job, base, model, dropped, errors, scenario>>

After == [s \in Stages |->
            CASE s \in {"pdf", "open pdf"}         -> "image"
              [] s \in {"image", "open image"}     -> "fresh"
              [] s \in {"fresh", "read fresh"}     -> "reread"
              [] s \in {"reread", "cancel", "read again"} -> "digest"
              [] OTHER                             -> "pdf"]

\* An error of the database is caught by the pass, which goes on to the next
\* queue; claimed files stay "processing".
QueueFails(w) ==
    /\ stage[w] # "down" /\ errors < scenario.errors
    /\ errors' = errors + 1
    /\ dropped' = IF stage[w] \in {"open pdf", "open image"} THEN dropped \cup work[w] ELSE dropped
    /\ Become(w, After[stage[w]], {})
    /\ busy' = [busy EXCEPT ![w] = FALSE]
    /\ UNCHANGED <<fileVars, job, base, model, held, crashes, scenario>>

\* A queue whose batch has been dealt with.
QueueDone(w) ==
    /\ stage[w] \in {"open pdf", "open image", "read fresh", "read again"}
    /\ work[w] = {}
    /\ Become(w, After[stage[w]], {})
    /\ UNCHANGED <<fileVars, job, base, model, held, busy, dropped, crashes, errors, scenario>>

-----------------------------------------------------------------------------
\* Opening files.

ClaimFiles(w) ==
    /\ stage[w] \in {"pdf", "image"}
    /\ \E S \in Batches({f \in File \ withdrawn : opened[f] = "pending" /\ Kind[f] = stage[w]}) :
          /\ opened' = [f \in File |-> IF f \in S THEN "processing" ELSE opened[f]]
          /\ Become(w, IF stage[w] = "pdf" THEN "open pdf" ELSE "open image", S)
    /\ UNCHANGED <<withdrawn, read, llm, visit, backed, digest, job, base, model, held, busy,
                   dropped, crashes, errors, scenario>>

\* A PDF has text, is a scan or cannot be opened; an image has text, has none,
\* finds no OCR program or fails it.
PdfOutcome == {"text", "skipped", "failed"}
OcrOutcome == {"text", "blank", "skipped", "failed"}

Opened(w, outcomes) ==
    \E f \in work[w], outcome \in outcomes :
        /\ opened' = [opened EXCEPT ![f] = outcome]
        /\ Become(w, stage[w], work[w] \ {f})

OpenPdf(w) ==
    /\ stage[w] = "open pdf" /\ Opened(w, PdfOutcome)
    /\ UNCHANGED <<withdrawn, read, llm, visit, backed, digest, job, base, model, held, busy,
                   dropped, crashes, errors, scenario>>

OpenImage(w) ==
    /\ stage[w] = "open image" /\ Opened(w, OcrOutcome)
    /\ UNCHANGED <<withdrawn, read, llm, visit, backed, digest, job, base, model, held, busy,
                   dropped, crashes, errors, scenario>>

-----------------------------------------------------------------------------
\* Reading text for the first time.

LoadFresh(w) ==
    /\ stage[w] = "fresh"
    /\ \E S \in Batches({f \in File \ withdrawn : opened[f] = "text" /\ read[f] = "no"}) :
          Become(w, "read fresh", S)
    /\ UNCHANGED <<fileVars, job, base, model, held, busy, dropped, crashes, errors, scenario>>

\* One more provenance row for what reader r found in f.
Back(f, readers) == [backed EXCEPT ![f] = [r \in Reader |-> IF r \in readers THEN @[r] + 1 ELSE @[r]]]

\* The source must still stand and the text still be unread.
Claimable(f) == f \notin withdrawn /\ read[f] = "no"

\* persist_chunk_units with Claim::Fresh.  by is the model that answered, None if none did.
ReadFresh(w) ==
    /\ stage[w] = "read fresh"
    /\ \E f \in work[w], by \in {None, model[w]} :
          /\ IF Claimable(f)
             THEN /\ read' = [read EXCEPT ![f] = "yes"]
                  /\ llm' = [llm EXCEPT ![f] = by]
                  /\ backed' = Back(f, {"rules", by})
                  /\ busy' = [busy EXCEPT ![w] = TRUE]
             ELSE UNCHANGED <<read, llm, backed, busy>>
          /\ Become(w, stage[w], work[w] \ {f})
    /\ UNCHANGED <<opened, withdrawn, visit, digest, job, base, model, held,
                   dropped, crashes, errors, scenario>>

\* What cannot be stored is stamped as read, if nobody has read it meanwhile.
SetAside(w) ==
    /\ stage[w] = "read fresh"
    /\ \E f \in work[w] :
          /\ read' = [read EXCEPT ![f] = IF @ = "no" THEN "aside" ELSE @]
          /\ Become(w, stage[w], work[w] \ {f})
    /\ busy' = [busy EXCEPT ![w] = TRUE]
    /\ UNCHANGED <<opened, withdrawn, llm, visit, backed, digest, job, base, model, held,
                   dropped, crashes, errors, scenario>>

-----------------------------------------------------------------------------
\* Reading again with the model.

\* Wrong: only what no model has read.
WrongRereadQueue(j) == {f \in UnreadBy(j.model) : llm[f] = None}
RereadQueue(j) == {f \in UnreadBy(j.model) : visit[f] # j.id}

\* One batch of the running job, when nothing fresh was read and the worker has
\* a model; a job of another model is to be cancelled.
LoadReread(w) ==
    /\ stage[w] = "reread"
    /\ held' = [held EXCEPT ![w] = job]
    /\ IF busy[w] \/ model[w] = None \/ job.status # "running"
       THEN Become(w, "digest", {}) /\ UNCHANGED job
       ELSE IF job.model # model[w]
       THEN Become(w, "cancel", {}) /\ UNCHANGED job
       ELSE \E S \in Batches(RereadQueue(job)) :
               IF S = {}
               THEN Become(w, "digest", {}) /\ job' = [job EXCEPT !.status = "done"]
               ELSE Become(w, "read again", S) /\ UNCHANGED job
    /\ UNCHANGED <<fileVars, base, model, busy, dropped, crashes, errors, scenario>>

\* The job that is cancelled is whichever is running by now.
CancelOther(w) ==
    /\ stage[w] = "cancel"
    /\ job' = IF job.status = "running" THEN [job EXCEPT !.status = "cancelled"] ELSE job
    /\ Become(w, "digest", {})
    /\ UNCHANGED <<fileVars, base, model, held, busy, dropped, crashes, errors, scenario>>

\* Wrong: the source is not looked at again.
WrongReclaimable(f, j) == llm[f] # j.model /\ visit[f] # j.id
Reclaimable(f, j) == f \notin withdrawn /\ llm[f] # j.model /\ visit[f] # j.id

\* persist_chunk_units with Claim::Reread: only what the model finds and the
\* text does not back yet is added.
ReadAgain(w) ==
    /\ stage[w] = "read again"
    /\ \E f \in work[w] :
          /\ IF Reclaimable(f, held[w])
             THEN /\ llm' = [llm EXCEPT ![f] = held[w].model]
                  /\ visit' = [visit EXCEPT ![f] = held[w].id]
                  /\ read' = [read EXCEPT ![f] = "yes"]
                  /\ backed' = Back(f, {r \in {held[w].model} : backed[f][r] = 0})
             ELSE UNCHANGED <<llm, visit, read, backed>>
          /\ Become(w, stage[w], work[w] \ {f})
    /\ UNCHANGED <<opened, withdrawn, digest, job, base, model, held, busy,
                   dropped, crashes, errors, scenario>>

\* The model gives no answer, or what it answers cannot be stored.
GivenUp(f, j) == [visit EXCEPT ![f] = j.id]

MarkVisited(w) ==
    /\ stage[w] = "read again"
    /\ \E f \in work[w] :
          /\ visit' = GivenUp(f, held[w])
          /\ Become(w, stage[w], work[w] \ {f})
    /\ UNCHANGED <<opened, withdrawn, read, llm, backed, digest, job, base, model, held, busy,
                   dropped, crashes, errors, scenario>>

-----------------------------------------------------------------------------
\* Digests.

\* Wrong: only documents that could be read.
WrongUndigested == {f \in File \ withdrawn : Kind[f] = "pdf" /\ read[f] = "yes" /\ digest[f] = "none"}
Undigested == {f \in File \ withdrawn : Kind[f] = "pdf" /\ opened[f] = "text" /\ digest[f] = "none"}

\* Documents are taken a few at a time; here one in each pass.
LoadDigest(w) ==
    /\ stage[w] = "digest"
    /\ \/ Undigested = {} /\ Become(w, "pdf", {})
       \/ \E f \in Undigested : Become(w, "write digest", {f})
    /\ busy' = [busy EXCEPT ![w] = FALSE]
    /\ held' = [held EXCEPT ![w] = NoJob]
    /\ UNCHANGED <<fileVars, job, base, model, dropped, crashes, errors, scenario>>

\* A document with little to say gets a row as well; with a model the row is
\* reworded afterwards, unless the text does not support what the model says.
WriteDigest(w) ==
    /\ stage[w] = "write digest"
    /\ \E f \in work[w] :
          /\ digest' = [digest EXCEPT ![f] = IF @ = "none" THEN "extractive" ELSE @]
          /\ \/ Become(w, "pdf", {})
             \/ model[w] # None /\ Become(w, "reword", {f})
    /\ UNCHANGED <<opened, withdrawn, read, llm, visit, backed, job, base, model, held, busy,
                   dropped, crashes, errors, scenario>>

Reword(w) ==
    /\ stage[w] = "reword"
    /\ \E f \in work[w] :
          digest' = [digest EXCEPT ![f] = IF @ = "extractive" THEN "llm" ELSE @]
    /\ Become(w, "pdf", {})
    /\ UNCHANGED <<opened, withdrawn, read, llm, visit, backed, job, base, model, held, busy,
                   dropped, crashes, errors, scenario>>

-----------------------------------------------------------------------------
WorkerStep(w) ==
    \/ QueueDone(w) \/ ClaimFiles(w) \/ OpenPdf(w) \/ OpenImage(w)
    \/ LoadFresh(w) \/ ReadFresh(w) \/ SetAside(w)
    \/ LoadReread(w) \/ CancelOther(w) \/ ReadAgain(w) \/ MarkVisited(w)
    \/ LoadDigest(w) \/ WriteDigest(w) \/ Reword(w)

ReadingNext ==
    \/ \E f \in File : Import(f) \/ Withdraw(f)
    \/ CancelReread
    \/ \E w \in Worker : \/ StartReread(w) \/ Start(w) \/ Crash(w) \/ QueueFails(w)
                         \/ WorkerStep(w)

\* The loop never ends, and whatever runs the daemon restarts it.
ReadingFairness == \A w \in Worker : WF_readingVars(WorkerStep(w)) /\ WF_readingVars(Start(w))

ReadingSpec == ReadingInit /\ [][ReadingNext]_readingVars /\ ReadingFairness
-----------------------------------------------------------------------------
\* What is promised.

FileTypes ==
    /\ opened \in [File -> {"absent", "pending", "processing"} \cup OcrOutcome]
    /\ withdrawn \subseteq File
    /\ read \in [File -> {"no", "yes", "aside"}]
    /\ llm \in [File -> Model \cup {None}]
    /\ visit \in [File -> 0..scenario.jobs]
    /\ backed \in [File -> [Reader -> Nat]]
    /\ \A f \in File : llm[f] = None <=> \A m \in Model : backed[f][m] = 0
    /\ digest \in [File -> {"none", "extractive", "llm"}]

WorkerTypes ==
    /\ stage \in [Worker -> Stages]
    /\ work \in [Worker -> SUBSET File]
    /\ model \in [Worker -> Model \cup {None}]
    /\ busy \in [Worker -> BOOLEAN]

JobTypes ==
    /\ job.id \in 0..scenario.jobs /\ job.status \in {"none", "running", "done", "cancelled"}
    /\ base \subseteq File /\ dropped \subseteq File
    /\ crashes \in 0..scenario.crashes /\ errors \in 0..scenario.errors /\ scenario \in Scenario

\* Types, and the model's stamp is on the texts whose claims it backs
\* (units_llm_model and unit_provenance are written in one transaction).
ReadingTypeOK == FileTypes /\ WorkerTypes /\ JobTypes

\* What a reader finds in a text backs its claims once, however often and by
\* however many workers the text is read: a second row would count one source
\* twice.
SourceCountedOnce == \A f \in File, r \in Reader : backed[f][r] <= 1

\* A re-read that is done leaves no text behind that had been read when it
\* started: the model's claims are there, unless it was given up.
JobsLeaveNothing ==
    job.status = "done" =>
        \A f \in base \ withdrawn : backed[f][job.model] = 1 \/ visit[f] # 0

\* Every imported file is opened and what it says is read or set aside in the
\* end, through crashes and whatever becomes of other files; only a file that
\* an error left "processing" has to wait for the worker to start again.
EveryFileIsRead ==
    []<>(\A f \in File : opened[f] # "absent" =>
             \/ read[f] # "no" \/ opened[f] \in OcrOutcome \ {"text"}
             \/ f \in withdrawn \cup dropped)

\* A re-read ends, even if the model never answers, as long as some worker
\* has a model.
RereadsEnd ==
    []<>(job.status # "running" \/ \A w \in Worker : model[w] = None)

\* Every document that has been opened gets a digest.
EveryDocumentIsDigested ==
    []<>(\A f \in File \ withdrawn : Kind[f] = "pdf" /\ opened[f] = "text" => digest[f] # "none")

\* No source speaks twice and no job leaves its text behind, however many
\* workers read, crash and fail (persist_chunk_units, next_reread_batch).
ReadingIsSound == ReadingTypeOK /\ SourceCountedOnce /\ JobsLeaveNothing

\* The worker gets through its queues: files are read, re-reads end and
\* documents have digests, as its loop never ends (worker_loop).
ReadingIsFinished == EveryFileIsRead /\ RereadsEnd /\ EveryDocumentIsDigested

\* The queues, jobs and workers come to no more than a ledger of who has found
\* what in which source (ReadingLedger): each stands once and stays, and a
\* source that was withdrawn backs nothing more, even if it was being read.
Ledger == INSTANCE ReadingLedger
            WITH File <- File, Reader <- Reader, withdrawn <- withdrawn, backed <- backed
ReadingImplementsLedger == Ledger!LedgerSpec
=============================================================================
