---------------------------- MODULE ProjectTree ----------------------------
(***************************************************************************)
(* Projects: folders and archives uploaded as a whole and kept as the tree *)
(* they came in.  A request sends files to a project one after another, or *)
(* unpacks an archive into a new one; an archive inside is unpacked where  *)
(* it sits.  Every file is checked against the tree, then read into Gather *)
(* and then recorded in the tree, in three separate steps.                 *)
(*                                                                         *)
(* Requests to a project take turns by a lock in the daemon's memory, and  *)
(* keep it while the client is sending; an import has all of its archive   *)
(* and takes no lock.  Clients stop sending for as long as they like, hang *)
(* up, and delete projects meanwhile.                                      *)
(*                                                                         *)
(* An entry is [path, is, what, holds]: its path as a sequence of names,   *)
(* what it is, its content, and the entries in an archive; "damaged" is a  *)
(* .zip that does not open.  Left out: sizes in bytes, and the wording of  *)
(* reasons.                                                                *)
(***************************************************************************)
EXTENDS Naturals, FiniteSets, Sequences

CONSTANTS
    Client,       \* each sends one request: the bound on how many there are
    Project,      \* project ids, never used twice
    Entries,      \* the files and folders there are to send
    Upload,       \* what clients send: sequences of entries
    Archive,      \* what clients import: sequences of entries
    Unsupported,  \* contents of a kind Gather keeps without reading it
    MaxNesting,   \* archives a file may sit inside and still be unpacked
    MaxFiles,     \* files one request may unpack
    Troubles      \* clients hanging up or sending what is no body, database
                  \* errors and deletions at most

FileKinds == {"file", "empty", "zip", "damaged"}
Is == FileKinds \cup {"folder", "left_out", "secret", "clutter"}
Path == Seq(STRING)

ASSUME ProjectAssumption ==
    /\ MaxNesting \in Nat /\ MaxFiles \in Nat /\ Troubles \in Nat
    /\ Upload \subseteq Seq(Entries) /\ Archive \subseteq Seq(Entries)
    /\ \A e \in Entries : e.is \in Is /\ e.path \in Path \ {<<>>} /\ e.holds \in Seq(Entries)

VARIABLES
    tree,      \* tree[p]: what is at each path of the project
    projects,  \* the projects there are
    source,    \* how each was made: "folder" or "zip"
    kept,      \* contents stored as artifacts
    turns,     \* turns[p]: the requests to the project, the first holds the lock
    request,   \* what each client's request is doing
    importJob, \* the job of each client's last request
    vain,      \* history: for which project a file was read and then refused
    troubles

treeVars == <<tree, projects, source, kept, turns, request, importJob, vain, troubles>>

NoRequest == [step |-> "none"]
\* An archive, or the request itself, with the entries that are left of it.
Frame(base, entries, nesting, limit) ==
    [base |-> base, entries |-> entries, nesting |-> nesting, limit |-> limit]
Begun(p, step, frame) ==
    [step |-> step, project |-> p, frames |-> <<frame>>, room |-> MaxFiles, stopped |-> FALSE,
     status |-> "none", unpacked |-> 0, told |-> {}, error |-> FALSE]

ProjectInit ==
    /\ tree = [p \in Project |-> <<>>] /\ projects = {}
    /\ source = [p \in Project |-> "unused"]
    /\ kept = {}
    /\ turns = [p \in Project |-> <<>>]
    /\ request = [c \in Client |-> NoRequest]
    /\ importJob = [c \in Client |-> "none"]
    /\ vain = {} /\ troubles = 0

-----------------------------------------------------------------------------
\* The tree: a function from the paths there are to "folder", "left_out" or,
\* for a file, its status.

Folders == {"folder", "left_out"}
Above(path) == {SubSeq(path, 1, i) : i \in 1..Len(path) - 1}
IsFolder(t, path) == path \in DOMAIN t /\ t[path] \in Folders
IsFile(t, path) == path \in DOMAIN t /\ t[path] \notin Folders

WithFolders(t, paths) ==
    [path \in DOMAIN t \cup paths |-> IF path \in DOMAIN t THEN t[path] ELSE "folder"]

\* Wrong: the row of the other kind is overwritten.
WrongFits(t, path, asFolder) == TRUE
\* The upsert's condition on what is at the path already, and on the folders
\* above it.
Fits(t, path, asFolder) ==
    /\ \A above \in Above(path) : ~IsFile(t, above)
    /\ IF asFolder THEN ~IsFile(t, path) ELSE ~IsFolder(t, path)

\* record_file, record_left_out and ensure_folder, each one transaction.
Recorded(t, path, status) ==
    [at \in DOMAIN t \cup Above(path) \cup {path} |->
        IF at = path THEN status ELSE WithFolders(t, Above(path))[at]]
EnsuredFolder(t, path) == WithFolders(t, Above(path) \cup {path})

-----------------------------------------------------------------------------
\* A request and the entry it is at.

Top(r) == Head(r.frames)
Entry(r) == Head(Top(r).entries)
At(r) == Top(r).base \o Entry(r).path
AtEntry(r) == r.step = "entry" /\ r.frames # <<>> /\ Top(r).entries # <<>>
IsFileEntry(r) == Entry(r).is \in FileKinds
InArchive(r) == Top(r).nesting > 0
TreeOf(r) == tree[r.project]

\* What is in an archive is at hand; the next part of an upload is awaited.
GoesOn(r) ==
    [r EXCEPT !.step = IF r.frames # <<>> /\ Top(r).nesting = 0 THEN "await" ELSE "entry"]

\* The entry is dealt with, and the client will be told so.
Done(r, status) ==
    GoesOn([r EXCEPT !.frames = <<[Top(r) EXCEPT !.entries = Tail(@)]>> \o Tail(@),
                     !.status = "none",
                     !.told = IF status = "" THEN @ ELSE @ \cup {[at |-> At(r), status |-> status]}])

\* An entry that costs a row counts toward the limit its archive was opened with.
CostsRow(r) == InArchive(r) /\ Entry(r).is \notin {"clutter", "folder"}
LimitReached(r) ==
    \/ CostsRow(r) /\ Top(r).limit = 0
    \/ InArchive(r) /\ IsFileEntry(r) /\ r.room = 0

\* Budget::take
Taken(r) == IF IsFileEntry(r) /\ InArchive(r) THEN 1 ELSE 0

Counted(r) ==
    [r EXCEPT !.frames[1].limit = IF CostsRow(r) THEN @ - 1 ELSE @,
              !.room = @ - Taken(r),
              !.unpacked = IF IsFileEntry(r) /\ InArchive(r) THEN @ + 1 ELSE @]

\* What is inside, with what is left of the budget.
Unpacked(r) ==
    [Done(r, "") EXCEPT !.step = "entry",
        !.frames = <<Frame(At(r), Entry(r).holds, Top(r).nesting + 1, r.room)>> \o @]

Becomes(c, r) == request' = [request EXCEPT ![c] = r]
Puts(c, t) == tree' = [tree EXCEPT ![request[c].project] = t]
Trouble == troubles < Troubles /\ troubles' = troubles + 1

-----------------------------------------------------------------------------
\* projects::lock, which is handed on in the order of the requests.
First(c, p) == Head(turns[p]) = c

\* The lock is a guard of the request and goes with it; a request waits once.
QueueWithout(queue, c) ==
    IF \A i \in DOMAIN queue : queue[i] # c THEN queue
    ELSE LET i == CHOOSE i \in DOMAIN queue : queue[i] = c
         IN  [j \in 1..Len(queue) - 1 |-> IF j < i THEN queue[j] ELSE queue[j + 1]]
WithoutTurn(c) == turns' = [p \in Project |-> QueueWithout(turns[p], c)]

CreateProject(p) ==
    /\ source[p] = "unused"
    /\ projects' = projects \cup {p} /\ source' = [source EXCEPT ![p] = "folder"]
    /\ UNCHANGED <<tree, kept, turns, request, importJob, vain, troubles>>

\* add_files up to the lock.
AddFiles(c, p, u) ==
    /\ importJob[c] = "none" /\ request[c].step = "none" /\ p \in projects
    /\ Becomes(c, Begun(p, "lock", Frame(<<>>, u, 0, 0)))
    /\ turns' = [turns EXCEPT ![p] = Append(@, c)]
    /\ UNCHANGED <<tree, projects, source, kept, importJob, vain, troubles>>

TakeLock(c) ==
    /\ request[c].step = "lock" /\ First(c, request[c].project)
    /\ Becomes(c, [request[c] EXCEPT !.step = "await"])
    /\ importJob' = [importJob EXCEPT ![c] = "processing"]
    /\ UNCHANGED <<tree, projects, source, kept, turns, vain, troubles>>

\* read_parts has the next part, or the end of the body. Nothing bounds the
\* time until the client sends it, and the request has the lock meanwhile.
SendPart(c) ==
    /\ request[c].step = "await"
    /\ Becomes(c, [request[c] EXCEPT !.step = "entry"])
    /\ UNCHANGED <<tree, projects, source, kept, turns, importJob, vain, troubles>>

\* What comes is no multipart body, has a part that is too large, or no part.
BodyBroken(c) ==
    /\ request[c].step = "await" /\ Trouble
    /\ Becomes(c, [request[c] EXCEPT !.step = "finish", !.error = TRUE])
    /\ UNCHANGED <<tree, projects, source, kept, turns, importJob, vain>>

\* import_project: a job, then a project of its own, no lock.
ImportZip(c, p, z) ==
    /\ importJob[c] = "none" /\ request[c].step = "none" /\ source[p] = "unused"
    /\ projects' = projects \cup {p} /\ source' = [source EXCEPT ![p] = "zip"]
    /\ Becomes(c, Begun(p, "entry", Frame(<<>>, z, 1, MaxFiles)))
    /\ importJob' = [importJob EXCEPT ![c] = "processing"]
    /\ UNCHANGED <<tree, kept, turns, vain, troubles>>

-----------------------------------------------------------------------------
\* One entry: unpack_into, read_parts and the first half of add_file.

ArchiveEnds(c) ==
    /\ request[c].step = "entry" /\ request[c].frames # <<>> /\ Top(request[c]).entries = <<>>
    /\ Becomes(c, GoesOn([request[c] EXCEPT !.frames = Tail(@)]))
    /\ UNCHANGED <<tree, projects, source, kept, turns, importJob, vain, troubles>>

\* The rest of this archive is not read.
StopArchive(c) ==
    /\ AtEntry(request[c]) /\ LimitReached(request[c])
    /\ Becomes(c, GoesOn([request[c] EXCEPT !.frames = Tail(@), !.stopped = TRUE]))
    /\ UNCHANGED <<tree, projects, source, kept, turns, importJob, vain, troubles>>

\* An entry that is recorded, or refused, without being read.
RecordUnread(c) ==
    LET r == request[c]
        asFolder == Entry(r).is # "secret"
        fits == Fits(TreeOf(r), At(r), asFolder)
        status == IF asFolder THEN "left_out" ELSE "skipped"
    IN  /\ AtEntry(r) /\ ~LimitReached(r) /\ r.project \in projects
        /\ Entry(r).is \in {"folder", "left_out", "secret"}
        /\ Puts(c, IF ~fits THEN TreeOf(r)
                   ELSE IF Entry(r).is = "folder" THEN EnsuredFolder(TreeOf(r), At(r))
                   ELSE Recorded(TreeOf(r), At(r), status))
        /\ Becomes(c, Done(Counted(r), IF ~fits THEN "refused"
                                       ELSE IF Entry(r).is = "folder" THEN "" ELSE status))
        /\ UNCHANGED <<projects, source, kept, turns, importJob, vain, troubles>>

IgnoreClutter(c) ==
    /\ AtEntry(request[c]) /\ Entry(request[c]).is = "clutter"
    /\ Becomes(c, Done(request[c], ""))
    /\ UNCHANGED <<tree, projects, source, kept, turns, importJob, vain, troubles>>

IsZip(r) == Entry(r).is \in {"zip", "damaged"}
Unpacks(r) == IsZip(r) /\ Top(r).nesting < MaxNesting

\* store::clash, before anything of the file is read; and unpack_nested's look
\* at whether it can be unpacked.
CheckClash(c) ==
    LET r == request[c]
        step == CASE Entry(r).is = "empty" -> "record"
                  [] Unpacks(r) /\ Entry(r).is = "zip" /\ ~r.stopped -> "unpack"
                  [] OTHER -> "read"
    IN  /\ AtEntry(r) /\ ~LimitReached(r) /\ IsFileEntry(r)
        /\ Becomes(c, IF Fits(TreeOf(r), At(r), Unpacks(r))
                      THEN [Counted(r) EXCEPT !.step = step, !.status = "skipped"]
                      ELSE Done(Counted(r), "refused"))
        /\ UNCHANGED <<tree, projects, source, kept, turns, importJob, vain, troubles>>

\* unpack_nested: the folder first, then what is inside.
UnpackNested(c) ==
    LET r == request[c]
        fits == Fits(TreeOf(r), At(r), TRUE)
    IN  /\ r.step = "unpack" /\ r.project \in projects
        /\ Puts(c, IF fits THEN EnsuredFolder(TreeOf(r), At(r)) ELSE TreeOf(r))
        /\ Becomes(c, IF fits THEN Unpacked(r) ELSE Done(r, "refused"))
        /\ UNCHANGED <<projects, source, kept, turns, importJob, vain, troubles>>

\* read_file up to the stored artifact.
ReadIntoGather(c) ==
    LET r == request[c]
    IN  /\ r.step = "read"
        /\ kept' = kept \cup {Entry(r).what}
        /\ Becomes(c, [r EXCEPT !.step = "record",
                               !.status = CASE Entry(r).what \in kept -> "deduplicated"
                                            [] IsZip(r) -> "stored"
                                            [] Entry(r).what \in Unsupported -> "stored"
                                            [] OTHER -> "ingested"])
        /\ UNCHANGED <<tree, projects, source, turns, importJob, vain, troubles>>

\* It could not be stored, and is recorded as failed.
ReadFails(c) ==
    /\ request[c].step = "read" /\ Trouble
    /\ Becomes(c, [request[c] EXCEPT !.step = "record", !.status = "failed"])
    /\ UNCHANGED <<tree, projects, source, kept, turns, importJob, vain>>

\* store::record_file, and what the client is told.
RecordFile(c) ==
    LET r == request[c]
        fits == Fits(TreeOf(r), At(r), FALSE)
    IN  /\ r.step = "record" /\ r.project \in projects
        /\ Puts(c, IF fits THEN Recorded(TreeOf(r), At(r), r.status) ELSE TreeOf(r))
        /\ Becomes(c, Done(r, IF fits THEN r.status ELSE "refused"))
        /\ vain' = IF ~fits /\ r.status \in {"ingested", "stored"}
                   THEN vain \cup {[project |-> r.project, unpacks |-> Unpacks(r)]} ELSE vain
        /\ UNCHANGED <<projects, source, kept, turns, importJob, troubles>>

-----------------------------------------------------------------------------
\* The project was deleted meanwhile.
Gone(c) == request[c].project \notin projects

\* ensure_folder's errors are not looked at: what is inside is tried.
EnsureFolderFails(c) ==
    LET r == request[c]
    IN  /\ r.step = "unpack" \/ (AtEntry(r) /\ Entry(r).is = "folder")
        /\ (Gone(c) /\ UNCHANGED troubles) \/ Trouble
        /\ Becomes(c, IF r.step = "unpack" THEN Unpacked(r) ELSE Done(r, ""))
        /\ UNCHANGED <<tree, projects, source, kept, turns, importJob, vain>>

\* Any other write that fails ends the request, as does a look for a clash.
WriteFails(c) ==
    LET r == request[c]
        unread == AtEntry(r) /\ ~LimitReached(r)
        writes == r.step = "record" \/ (unread /\ Entry(r).is \in {"left_out", "secret"})
    IN  /\ \/ writes /\ Gone(c) /\ UNCHANGED troubles
           \/ (writes \/ (unread /\ IsFileEntry(r))) /\ Trouble
        /\ Becomes(c, [r EXCEPT !.step = "finish", !.error = TRUE])
        /\ UNCHANGED <<tree, projects, source, kept, turns, importJob, vain>>

LastEntryDone(c) ==
    /\ request[c].step = "entry" /\ request[c].frames = <<>>
    /\ Becomes(c, [request[c] EXCEPT !.step = "finish"])
    /\ UNCHANGED <<tree, projects, source, kept, turns, importJob, vain, troubles>>

\* Every way out finishes the job.
Outcome(r) == IF r.error \/ (\E t \in r.told : t.status = "failed") THEN "failed" ELSE "finished"

FinishJob(c) ==
    /\ request[c].step = "finish"
    /\ importJob' = [importJob EXCEPT ![c] = Outcome(request[c])]
    /\ Becomes(c, NoRequest) /\ WithoutTurn(c)
    /\ UNCHANGED <<tree, projects, source, kept, vain, troubles>>

\* The handler is dropped where it waits; or its job could not be written.
HangUp(c) ==
    /\ request[c].step # "none" /\ Trouble
    /\ importJob' = [importJob EXCEPT ![c] = IF @ = "processing" THEN "abandoned" ELSE @]
    /\ Becomes(c, NoRequest) /\ WithoutTurn(c)
    /\ UNCHANGED <<tree, projects, source, kept, vain>>

\* store::delete takes no lock either.
DeleteProject(p) ==
    /\ p \in projects /\ Trouble
    /\ projects' = projects \ {p} /\ tree' = [tree EXCEPT ![p] = <<>>]
    /\ UNCHANGED <<source, kept, turns, request, importJob, vain>>

-----------------------------------------------------------------------------
RequestStep(c) ==
    \/ TakeLock(c) \/ ArchiveEnds(c) \/ StopArchive(c) \/ RecordUnread(c) \/ IgnoreClutter(c)
    \/ CheckClash(c) \/ UnpackNested(c) \/ ReadIntoGather(c) \/ RecordFile(c)
    \/ EnsureFolderFails(c) \/ WriteFails(c) \/ LastEntryDone(c) \/ FinishJob(c)

ProjectNext ==
    \/ \E p \in Project : CreateProject(p) \/ DeleteProject(p)
    \/ \E c \in Client :
        \/ \E p \in Project, u \in Upload : AddFiles(c, p, u)
        \/ \E p \in Project, z \in Archive : ImportZip(c, p, z)
        \/ RequestStep(c) \/ SendPart(c) \/ BodyBroken(c) \/ ReadFails(c) \/ HangUp(c)

\* The daemon goes on with every request it has; clients need not.
ProjectFairness == \A c \in Client : WF_treeVars(RequestStep(c))

ProjectSpec == ProjectInit /\ [][ProjectNext]_treeVars /\ ProjectFairness
-----------------------------------------------------------------------------
ProjectTypeOK ==
    /\ projects \subseteq Project /\ source \in [Project -> {"unused", "folder", "zip"}]
    /\ \A p \in Project : \A path \in DOMAIN tree[p] :
           tree[p][path] \in {"folder", "left_out", "ingested", "deduplicated", "stored", "skipped",
                             "failed"}
    /\ \A c \in Client : request[c].step \in {"none", "lock", "await", "entry", "unpack", "read",
                                            "record", "finish"}
    /\ \A c \in Client : request[c].step # "none" => request[c].room \in 0..MaxFiles
    /\ \A p \in Project : turns[p] \in Seq(Client)
    /\ importJob \in [Client -> {"none", "processing", "finished", "failed", "abandoned"}]
    /\ troubles \in 0..Troubles

\* Whatever requests mix, what is above a file or folder is a folder of the
\* same project: no path is a file for one row and a folder for another.
TreesAreTrees ==
    \A p \in Project : \A path \in DOMAIN tree[p] :
        \A above \in Above(path) : IsFolder(tree[p], above)

\* What a request reports as in the project is there, as a file, at the time
\* the client is told, unless the project was deleted; another request may
\* have replaced it.
ToldIsRecorded ==
    \A c \in Client : request[c].step # "none" /\ request[c].project \in projects =>
        \A t \in request[c].told :
            /\ t.status \in {"ingested", "stored", "deduplicated"} => IsFile(tree[request[c].project], t.at)
            /\ t.status = "left_out" => IsFolder(tree[request[c].project], t.at)

\* A file is not read into Gather for a place in the tree it cannot have: the
\* check before reading holds until it is recorded, as requests take turns.
\* It does not for a project an import is still filling; nor for a .zip that was
\* checked as the folder to unpack it into, and then could not be unpacked.
NothingReadInVain == \A v \in vain : source[v.project] = "zip" \/ v.unpacks

\* However deeply archives are nested, one request unpacks no more files than
\* the limit.
UnpackingIsBounded == \A c \in Client : request[c].step # "none" => request[c].unpacked <= MaxFiles

\* Every way out finishes the job, so none is left "processing", except when
\* the client hangs up.
JobsAreFinished == \A c \in Client : request[c].step = "none" => importJob[c] # "processing"

\* What is put into a project is where its tree has a place for it, is read
\* only then, and the client is told of it (routes/projects.rs).
ProjectIsSound ==
    /\ ProjectTypeOK /\ TreesAreTrees /\ ToldIsRecorded /\ NothingReadInVain
    /\ UnpackingIsBounded /\ JobsAreFinished

\* c cannot go on before d sends the next part of its upload: d's own request,
\* or the one that has the lock c waits for.
WaitsFor(c, d) ==
    /\ request[d].step = "await"
    /\ \E p \in Project : \E i, j \in DOMAIN turns[p] : i <= j /\ turns[p][i] = d /\ turns[p][j] = c

\* A request ends, and one that waits for its turn gets it, whatever becomes of
\* those before it; only a client that stops sending and does not hang up keeps
\* those behind it in its own project waiting (routes/projects.rs:85,129).
RequestsEnd ==
    \A c \in Client :
        (\A d \in Client : []<>~WaitsFor(c, d)) => []<>(request[c].step = "none")
=============================================================================
