------------------------------- MODULE Intake -------------------------------
(***************************************************************************)
(* What comes in: files people upload, files dropped in the inbox folder,  *)
(* and the session file of Claude Code, which only grows.  One background  *)
(* task looks at the inbox and at the session in turn.                     *)
(*                                                                         *)
(* A file holds parts, each stored by one transaction: an export or a      *)
(* document is a thing known by its hash, a session the messages said so   *)
(* far.  What is stored already is not stored again.  The folder belongs   *)
(* to other programs: files come, and are replaced, at any moment.         *)
(*                                                                         *)
(* A message takes two writes to the session file; half of one is a line   *)
(* that does not parse.  Left out: which kind of file is which, the table  *)
(* of recent imports the status page shows, and names inside done/.        *)
(***************************************************************************)
EXTENDS Naturals, FiniteSets, Sequences

CONSTANTS
    Name,         \* names in the inbox, in the order of the folder listing
    Content,      \* what a file can hold
    Parts,        \* Parts[c]: what is stored of c, in order, as sets of things
    Readable,     \* the contents that are an export or a document Gather knows
    Said,         \* the messages of the session, in order
    PerLook,      \* files taken at one look at the inbox
    Budgets       \* how often at most the world acts: a set of [Worldly -> Nat]

Worldly == {"drop", "upload", "say", "error", "crash"}

Messages(n) == {Said[i] : i \in 1..n}
Thing == Messages(Len(Said)) \cup UNION {UNION {Parts[c][i] : i \in DOMAIN Parts[c]} : c \in Content}

ASSUME IntakeAssumption ==
    /\ Name \subseteq Nat
    /\ Readable \subseteq Content /\ "nothing" \notin Content
    /\ Parts \in [Content -> Seq(SUBSET Thing)] /\ Said \in Seq(Thing)
    /\ PerLook \in Nat \ {0}
    /\ Budgets \subseteq [Worldly -> Nat]

VARIABLES
    inbox,     \* what is under each name, "nothing" if there is no file
    version,   \* size and modification time
    filed,     \* filed[folder]: the contents moved to done/ or failed/
    late,      \* history: contents put in place between the check and the move
    stored,    \* how often each thing is stored
    session,   \* writes to the session file
    known,     \* the size it is remembered with, 0 if it is not
    door,      \* what the task is doing
    todo,      \* files of this look, with the version they were listed with
    left,      \* parts of the file being read that are still to be stored
    verdict,   \* where the file goes
    taken,     \* the size of the session file when it was picked up
    parsed,    \* messages found in it
    budget     \* how often the world may still act

intakeVars == <<inbox, version, filed, late, stored, session, known, door, todo, left,
                verdict, taken, parsed, budget>>

Doors == {"down", "look", "next", "store", "move", "session", "parse", "import", "remember"}

IntakeInit ==
    /\ inbox = [n \in Name |-> "nothing"] /\ version = [n \in Name |-> 0]
    /\ filed = [folder \in {"done", "failed"} |-> {}] /\ late = {}
    /\ stored = [t \in Thing |-> 0]
    /\ session = 0 /\ known = 0
    /\ door = "look" /\ todo = {} /\ left = <<>> /\ verdict = "done"
    /\ taken = 0 /\ parsed = 0
    /\ budget \in Budgets

Spend(what) == /\ budget[what] > 0
               /\ budget' = [budget EXCEPT ![what] = @ - 1]

\* artifacts are unique by hash; of a session only unknown messages are added.
Missing(part) == {t \in part : stored[t] = 0}

StorePart(part) == stored' = [t \in Thing |-> IF t \in Missing(part) THEN stored[t] + 1 ELSE stored[t]]

-----------------------------------------------------------------------------
\* The world.

\* A file is put in the inbox or takes the place of another.
PutFile(n, c) ==
    /\ Spend("drop")
    /\ inbox' = [inbox EXCEPT ![n] = c]
    /\ version' = [version EXCEPT ![n] = @ + 1]
    /\ late' = IF door = "move" /\ (\E f \in todo : f.name = n) THEN late \cup {c} ELSE late
    /\ UNCHANGED <<filed, stored, session, known, door, todo, left, verdict, taken, parsed>>

Say ==
    /\ session < 2 * Len(Said) /\ Spend("say")
    /\ session' = session + 1
    /\ UNCHANGED <<inbox, version, filed, late, stored, known, door, todo, left, verdict,
                   taken, parsed>>

\* POST /ingest/..., REST or gRPC: the same transaction.
UploadContent(c) ==
    /\ c \in Readable /\ Spend("upload")
    /\ \E i \in DOMAIN Parts[c] : StorePart(Parts[c][i])
    /\ UNCHANGED <<inbox, version, filed, late, session, known, door, todo, left, verdict,
                   taken, parsed>>

StopImporter ==
    /\ door # "down" /\ Spend("crash")
    /\ door' = "down" /\ todo' = {} /\ left' = <<>>
    /\ UNCHANGED <<inbox, version, filed, late, stored, session, known, verdict, taken, parsed>>

StartImporter ==
    /\ door = "down" /\ door' = "look"
    /\ UNCHANGED <<inbox, version, filed, late, stored, session, known, todo, left, verdict,
                   taken, parsed, budget>>

-----------------------------------------------------------------------------
\* The inbox.

\* The first of a set of files, by name.
FirstOf(files) == CHOOSE f \in files : \A g \in files : f.name <= g.name

\* scan_inbox: every file is listed with its version before any is read.
LookAtInbox ==
    /\ door = "look"
    /\ LET there == {n \in Name : inbox[n] # "nothing"}
       IN  todo' = {[name |-> n, seen |-> version[n]] :
                       n \in {n \in there : Cardinality({m \in there : m < n}) < PerLook}}
    /\ door' = "next"
    /\ UNCHANGED <<inbox, version, filed, late, stored, session, known, left, verdict,
                   taken, parsed, budget>>

\* Wrong: what the file itself is to blame for is tried again.
WrongVerdict(c) == IF c \in Readable THEN "done" ELSE "retry"
\* is_permanent and Outcome::Unrecognized.
Verdict(c) == IF c \in Readable THEN "done" ELSE "failed"

\* process_inbox_file reads whatever is there by now.
ReadFile ==
    /\ door = "next" /\ todo # {}
    /\ LET c == inbox[FirstOf(todo).name]
       IN  IF c = "nothing"
           THEN verdict' = "retry" /\ left' = <<>>
           ELSE verdict' = Verdict(c) /\ left' = Parts[c]
    /\ door' = "store"
    /\ UNCHANGED <<inbox, version, filed, late, stored, session, known, todo, taken, parsed, budget>>

StoreNext ==
    /\ door = "store" /\ left # <<>>
    /\ StorePart(Head(left)) /\ left' = Tail(left)
    /\ UNCHANGED <<inbox, version, filed, late, session, known, door, todo, verdict,
                   taken, parsed, budget>>

\* The database or the disk, not the file.
StoreFails ==
    /\ door = "store" /\ Spend("error")
    /\ left' = <<>> /\ verdict' = "retry"
    /\ UNCHANGED <<inbox, version, filed, late, stored, session, known, door, todo, taken, parsed>>

\* still_the_same
Same(f) == inbox[f.name] # "nothing" /\ version[f.name] = f.seen

\* A file that changed while it was read, or could not be read for now, stays.
CheckFile ==
    /\ door = "store" /\ left = <<>>
    /\ IF verdict # "retry" /\ Same(FirstOf(todo))
       THEN door' = "move" /\ UNCHANGED todo
       ELSE door' = "next" /\ todo' = todo \ {FirstOf(todo)}
    /\ UNCHANGED <<inbox, version, filed, late, stored, session, known, left, verdict,
                   taken, parsed, budget>>

\* move_aside moves what is there by now.
MoveFile ==
    /\ door = "move"
    /\ LET n == FirstOf(todo).name
       IN  /\ filed' = [filed EXCEPT ![verdict] = @ \cup ({inbox[n]} \ {"nothing"})]
           /\ inbox' = [inbox EXCEPT ![n] = "nothing"]
           /\ todo' = todo \ {FirstOf(todo)}
    /\ door' = "next"
    /\ UNCHANGED <<version, late, stored, session, known, left, verdict, taken, parsed, budget>>

\* It stays where it is and is read again.
MoveFails ==
    /\ door = "move" /\ Spend("error")
    /\ door' = "next" /\ todo' = todo \ {FirstOf(todo)}
    /\ UNCHANGED <<inbox, version, filed, late, stored, session, known, left, verdict, taken, parsed>>

InboxDone ==
    /\ door = "next" /\ todo = {} /\ door' = "session"
    /\ UNCHANGED <<inbox, version, filed, late, stored, session, known, todo, left, verdict,
                   taken, parsed, budget>>

-----------------------------------------------------------------------------
\* The session.

Changed == session # known

\* scan_claude_code
LookAtSession ==
    /\ door = "session"
    /\ IF Changed THEN door' = "parse" /\ taken' = session
                  ELSE door' = "look" /\ UNCHANGED taken
    /\ UNCHANGED <<inbox, version, filed, late, stored, session, known, todo, left, verdict,
                   parsed, budget>>

\* A line half written does not parse and is skipped.
Complete == session \div 2

\* import_session_file: the file may have grown since it was picked up.
ParseSession ==
    /\ door = "parse"
    /\ parsed' = Complete
    /\ door' = IF parsed' = 0 THEN "remember" ELSE "import"
    /\ UNCHANGED <<inbox, version, filed, late, stored, session, known, todo, left, verdict,
                   taken, budget>>

ImportSession ==
    /\ door = "import"
    /\ StorePart(Messages(parsed))
    /\ door' = "remember"
    /\ UNCHANGED <<inbox, version, filed, late, session, known, todo, left, verdict,
                   taken, parsed, budget>>

SessionFails ==
    /\ door \in {"parse", "import"} /\ Spend("error")
    /\ door' = "look"
    /\ UNCHANGED <<inbox, version, filed, late, stored, session, known, todo, left, verdict,
                   taken, parsed>>

\* Wrong: with the size it has when it has been read.
WrongRemembered == session
\* With the size it had when it was picked up.
Remembered == taken

RememberSession ==
    /\ door = "remember"
    /\ known' = Remembered
    /\ door' = "look"
    /\ UNCHANGED <<inbox, version, filed, late, stored, session, todo, left, verdict,
                   taken, parsed, budget>>

-----------------------------------------------------------------------------
TaskStep ==
    \/ LookAtInbox \/ ReadFile \/ StoreNext \/ CheckFile \/ MoveFile \/ InboxDone
    \/ LookAtSession \/ ParseSession \/ ImportSession \/ RememberSession

IntakeNext ==
    \/ \E n \in Name, c \in Content : PutFile(n, c)
    \/ \E c \in Content : UploadContent(c)
    \/ Say \/ StopImporter \/ StartImporter
    \/ StoreFails \/ MoveFails \/ SessionFails
    \/ TaskStep

\* The task sleeps between looks and goes on for ever; the daemon is restarted.
IntakeFairness == WF_intakeVars(TaskStep) /\ WF_intakeVars(StartImporter)

IntakeSpec == IntakeInit /\ [][IntakeNext]_intakeVars /\ IntakeFairness
-----------------------------------------------------------------------------
IntakeTypeOK ==
    /\ inbox \in [Name -> Content \cup {"nothing"}] /\ version \in [Name -> Nat]
    /\ filed \in [{"done", "failed"} -> SUBSET Content] /\ late \subseteq Content
    /\ stored \in [Thing -> Nat]
    /\ session \in 0..2 * Len(Said) /\ known \in 0..2 * Len(Said)
    /\ door \in Doors
    /\ todo \subseteq [name : Name, seen : Nat]
    /\ verdict \in {"done", "failed", "retry"}
    /\ taken \in 0..2 * Len(Said) /\ parsed \in 0..Len(Said)
    /\ budget \in [Worldly -> Nat]

\* Whatever is read twice, after a crash, through two doors or because it grew,
\* is stored once.
StoredOnce == \A t \in Thing : stored[t] <= 1

\* What lies in done/ has been read: bytes that were never imported are not
\* filed away, unless they arrive between the last look at the file and the
\* move.
FiledWasRead ==
    \A c \in filed["done"] \ late :
        c \in Readable /\ \A i \in DOMAIN Parts[c] : \A t \in Parts[c][i] : stored[t] > 0

\* A session file that will not be read again because it is remembered with
\* its size has all its messages in Gather.
RememberedIsStored ==
    ~Changed => \A t \in Messages(Complete) : stored[t] > 0

\* What comes in is stored once, filed away only when it was read, and forgotten
\* only when it is stored (autoimport.rs, ingest.rs).
IntakeIsSound == IntakeTypeOK /\ StoredOnce /\ FiledWasRead /\ RememberedIsStored

\* Every file put in the inbox leaves it for done/ or failed/, or is replaced.
EveryFileIsFiled ==
    []<>(\A n \in Name : inbox[n] \in filed["done"] \cup filed["failed"] \cup {"nothing"})

\* What is said in the session is stored in the end.
WhatIsSaidIsStored ==
    []<>(\A i \in DOMAIN Said : session >= 2 * i => stored[Said[i]] > 0)
=============================================================================
