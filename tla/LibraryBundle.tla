--------------------------- MODULE LibraryBundle ---------------------------
(***************************************************************************)
(* Export and import of the whole library.  An export reads table after    *)
(* table of one snapshot while the library goes on changing; an import     *)
(* puts table after table in, the members row by row, and keeps the rows   *)
(* that are there.  It is one transaction, but it sees what people commit  *)
(* meanwhile, and locks nothing but the model: so a statement may be       *)
(* edited while the import goes over its rows.                             *)
(*                                                                         *)
(* The library is files (artifacts, each content stored once), the claims  *)
(* read from them, topics and their members.  The other tables are         *)
(* exported and imported by the same loop; what people merged is not       *)
(* modelled here.  An installation starts empty, with the embedding model  *)
(* chosen for it.                                                          *)
(***************************************************************************)
EXTENDS Naturals, FiniteSets, Sequences

CONSTANTS
    Text,           \* contents of files
    FileId, ClaimId, TopicId,
    BundleModel,     \* embedding models
    BundleBudgets   \* how often at most each deed is done: [BundleDeed -> Nat]

BundleDeed == {"file", "edit", "embed", "topic", "switch", "export", "move", "import", "cut"}

ASSUME BundleAssumption ==
    /\ \A s \in {Text, FileId, ClaimId, TopicId, BundleModel} : IsFiniteSet(s)
    /\ BundleBudgets \subseteq [BundleDeed -> Nat]

VARIABLES
    library,    \* the tables: files, claims, topics, members
    modelInUse,   \* embedding_state.model
    used,       \* ids given out, never again
    snapshot,   \* what the export reads from
    reader,     \* the export: the tables it has sent, in order of Tables
    bundle,     \* the file: the rows of every table in it; or NoBundle
    importer,   \* the import's transaction: the model it has locked, or NoModel
    writer,     \* its table, counted as in Tables; 0 when there is no import
    staged,     \* the rows it has inserted, not committed yet
    toPut,      \* the members it has not come to yet
    awaited,    \* the one whose row an edit has deleted, but not committed
    editing,    \* the claim that is being edited: changed, but not committed
    doomed,     \* the members that edit has deleted
    crossed,    \* history: members put in while their claim was being edited
    origin,     \* history: the library as it was exported, whole or not
    blank,      \* history: the library is that of a new installation
    bundleDeeds

bundleVars == <<library, modelInUse, used, snapshot, reader, bundle, importer, writer, staged, toPut,
                awaited, editing, doomed, crossed, origin, blank, bundleDeeds>>
import == <<importer, writer, staged, toPut, awaited>>
export == <<snapshot, reader, bundle, origin>>
edits == <<editing, doomed, crossed>>

NoModel == "none"

ASSUME NoModelAssumption == NoModel \notin BundleModel \cup TopicId

NoBundle == [files |-> {}, claims |-> {}, topics |-> {}, members |-> {}, complete |-> FALSE]
Empty == [files |-> {}, claims |-> {}, topics |-> {}, members |-> {}]

\* TABLES: in an order in which references lead back.
Tables == <<"files", "topics", "claims", "members">>

BundleInit ==
    /\ library = Empty /\ modelInUse \in BundleModel /\ used = {}
    /\ snapshot = Empty /\ reader = 0 /\ bundle = NoBundle /\ importer = NoModel
    /\ writer = 0 /\ staged = Empty /\ toPut = {} /\ awaited = {}
    /\ editing = {} /\ doomed = {} /\ crossed = {}
    /\ origin = Empty /\ blank = TRUE /\ bundleDeeds \in BundleBudgets

BundleDoes(deed) == bundleDeeds[deed] > 0 /\ bundleDeeds' = [bundleDeeds EXCEPT ![deed] = @ - 1]

-----------------------------------------------------------------------------
\* The library in use.

\* An id that was never given out, as long as the bound on ids leaves one.
NewId(ids) == CHOOSE i \in ids : i \notin used
IdsLeft(ids) == ids \ used # {}

\* A file and a claim read from it. One with the content of a file that an
\* import has inserted waits for the import.
StoreFile(text) ==
    LET f == NewId(FileId)
        c == NewId(ClaimId)
    IN  /\ BundleDoes("file") /\ IdsLeft(FileId) /\ IdsLeft(ClaimId)
        /\ \A g \in library.files \cup staged.files : g.text # text
        /\ library' = [library EXCEPT !.files = @ \cup {[id |-> f, text |-> text]},
                          !.claims = @ \cup {[id |-> c, file |-> f, revision |-> 0,
                                              vector |-> NoModel, topic |-> NoModel]}]
        /\ used' = used \cup {f, c} /\ blank' = FALSE
        /\ UNCHANGED <<modelInUse, export, import, edits>>

\* edit_unit_core, one at a time: the claim is changed, its members deleted ...
BeginEdit(c) ==
    /\ c \in library.claims /\ editing = {} /\ BundleDoes("edit")
    /\ editing' = {c.id} /\ doomed' = {m \in library.members : m.claim = c.id}
    /\ UNCHANGED <<library, modelInUse, used, export, import, crossed, blank>>

\* ... and committed. A changed statement loses its vector and its topic.
CommitEdit(c) ==
    /\ c \in library.claims /\ c.id \in editing
    /\ editing' = {} /\ doomed' = {}
    /\ library' = [library EXCEPT
           !.claims = (@ \ {c}) \cup
                {[c EXCEPT !.revision = @ + 1, !.vector = NoModel, !.topic = NoModel]},
           !.members = @ \ doomed]
    /\ crossed' = crossed \cup {m \in staged.members \cup awaited \cup (library.members \ doomed) :
                                    m.claim = c.id}
    /\ blank' = FALSE
    /\ UNCHANGED <<modelInUse, used, export, import, bundleDeeds>>

EmbedStatement(c) ==
    /\ c \in library.claims /\ c.id \notin editing /\ c.vector = NoModel /\ BundleDoes("embed")
    /\ library' = [library EXCEPT !.claims = (@ \ {c}) \cup {[c EXCEPT !.vector = modelInUse]}]
    /\ UNCHANGED <<modelInUse, used, export, import, edits, blank>>

GroupStatement(c, t) ==
    /\ c \in library.claims /\ c.id \notin editing /\ c.vector # NoModel /\ c.topic = NoModel
    /\ t \in library.topics \/ t = NewId(TopicId)
    /\ [topic |-> t, claim |-> c.id] \notin staged.members
    /\ BundleDoes("topic")
    /\ library' = [library EXCEPT !.topics = @ \cup {t},
                      !.claims = (@ \ {c}) \cup {[c EXCEPT !.topic = t]},
                      !.members = @ \cup {[topic |-> t, claim |-> c.id]}]
    /\ used' = used \cup {t} /\ blank' = FALSE
    /\ UNCHANGED <<modelInUse, export, import, edits>>

\* FOR SHARE: a switch waits for the import.
ModelLocked == importer # NoModel

\* Another model: what the old one made goes. It waits for an edit.
SwitchModel(m) ==
    /\ m # modelInUse /\ ~ModelLocked /\ editing = {} /\ BundleDoes("switch")
    /\ modelInUse' = m
    /\ library' = [library EXCEPT !.claims = {[c EXCEPT !.vector = NoModel, !.topic = NoModel] : c \in @},
                                  !.topics = {}, !.members = {}]
    /\ UNCHANGED <<used, export, import, edits, blank>>

-----------------------------------------------------------------------------
\* bundle_stream: REPEATABLE READ, one table after the other. There is one
\* bundle: the file that is being put in is not written over.
BeginExport ==
    /\ reader = 0 /\ importer = NoModel /\ BundleDoes("export")
    /\ snapshot' = library /\ reader' = 1 /\ bundle' = NoBundle /\ origin' = library
    /\ UNCHANGED <<library, modelInUse, used, import, edits, blank>>

Source == snapshot

SendTable ==
    /\ reader \in 1..Len(Tables)
    /\ LET table == Tables[reader]
       IN  bundle' = [bundle EXCEPT ![table] = Source[table], !.complete = reader = Len(Tables)]
    /\ reader' = IF reader = Len(Tables) THEN 0 ELSE reader + 1
    /\ UNCHANGED <<library, modelInUse, used, snapshot, import, edits, origin, blank, bundleDeeds>>

\* The connection breaks between two rows: what was sent is a bundle too.
CutExport ==
    /\ reader # 0 /\ BundleDoes("cut")
    /\ \E part \in SUBSET Source[Tables[reader]] : bundle' = [bundle EXCEPT ![Tables[reader]] = part]
    /\ reader' = 0
    /\ UNCHANGED <<library, modelInUse, used, snapshot, import, edits, origin, blank>>

\* The bundle is taken to a new installation.
Move(m) ==
    /\ reader = 0 /\ importer = NoModel /\ editing = {} /\ BundleDoes("move")
    /\ library' = Empty /\ modelInUse' = m /\ blank' = TRUE /\ crossed' = {}
    /\ UNCHANGED <<used, export, import, editing, doomed>>

-----------------------------------------------------------------------------
\* import_bundle_file

\* Wrong: a vector is kept whatever made it.
WrongFitted(c, m) == c
\* A vector of another model is not taken, nor what rests on it.
Fitted(c, m) == IF c.vector \in {NoModel, m} THEN c ELSE [c EXCEPT !.vector = NoModel, !.topic = NoModel]

\* Wrong: a row with the id of one that is there replaces it.
WrongKept(rows, more) == {r \in rows : \A s \in more : s.id # r.id} \cup more
\* ON CONFLICT DO NOTHING
Kept(rows, more) == rows \cup {r \in more : \A s \in rows : s.id # r.id}

Represented(m, claims) == \E c \in claims : c.id = m.claim /\ c.topic = m.topic

\* The tables with the rows of a bundle, when nothing happens meanwhile.
Applied(lib, b, model) ==
    LET files == {f \in b.files : \A g \in lib.files : g.id # f.id => g.text # f.text}
        claims == Kept(lib.claims, {Fitted(c, model) : c \in b.claims})
    IN  [files |-> Kept(lib.files, files),
         topics |-> lib.topics \cup b.topics,
         claims |-> claims,
         members |-> lib.members \cup {m \in b.members : Represented(m, claims)}]

RefersWell(lib) ==
    /\ \A c \in lib.claims : /\ \E f \in lib.files : f.id = c.file
                             /\ c.topic # NoModel => c.topic \in lib.topics
    /\ \A m \in lib.members : m.topic \in lib.topics

BeginImport ==
    /\ reader = 0 /\ importer = NoModel /\ bundle # NoBundle /\ BundleDoes("import")
    /\ importer' = modelInUse /\ writer' = 1 /\ toPut' = bundle.members
    /\ UNCHANGED <<library, modelInUse, used, export, staged, awaited, edits, blank>>

\* Files, then topics, then claims: for an id or a content that has no row.
StageTable ==
    /\ writer \in 1..3
    /\ LET table == Tables[writer]
       IN  staged' = [staged EXCEPT ![table] = Applied(library, bundle, importer)[table] \ library[table]]
    /\ writer' = writer + 1
    /\ UNCHANGED <<library, modelInUse, used, export, importer, toPut, awaited, edits, blank, bundleDeeds>>

\* A member that the committed claims, and those just inserted, stand for. Where
\* an edit has deleted its row the insert waits for that edit.
PutMember(m) ==
    /\ writer = 4 /\ m \in toPut /\ awaited = {}
    /\ toPut' = toPut \ {m}
    /\ LET stands == Represented(m, library.claims \cup staged.claims)
       IN  /\ awaited' = IF stands /\ m \in doomed THEN {m} ELSE {}
           /\ staged' = IF stands /\ m \notin library.members
                        THEN [staged EXCEPT !.members = @ \cup {m}] ELSE staged
    /\ UNCHANGED <<library, modelInUse, used, export, importer, writer, edits, blank, bundleDeeds>>

\* The edit is done: the row goes in, the claim is not looked at again.
PutAwaited(m) ==
    /\ m \in awaited /\ m \notin doomed /\ awaited' = {}
    /\ staged' = IF m \in library.members THEN staged ELSE [staged EXCEPT !.members = @ \cup {m}]
    /\ UNCHANGED <<library, modelInUse, used, export, importer, writer, toPut, edits, blank, bundleDeeds>>

WithStaged ==
    [files |-> library.files \cup staged.files, topics |-> library.topics \cup staged.topics,
     claims |-> library.claims \cup staged.claims, members |-> library.members \cup staged.members]

ImportOver == importer' = NoModel /\ writer' = 0 /\ staged' = Empty /\ toPut' = {} /\ awaited' = {}

\* All of it, or nothing when a reference leads nowhere.
EndImport ==
    /\ writer = 4 /\ toPut = {} /\ awaited = {}
    /\ IF RefersWell(WithStaged)
       THEN library' = WithStaged /\ blank' = FALSE
       ELSE UNCHANGED <<library, blank>>
    /\ ImportOver
    /\ UNCHANGED <<modelInUse, used, export, edits, bundleDeeds>>

\* The connection breaks, or a statement fails: everything is rolled back.
StopImport ==
    /\ importer # NoModel /\ BundleDoes("cut") /\ ImportOver
    /\ UNCHANGED <<library, modelInUse, used, export, edits, blank>>

-----------------------------------------------------------------------------
BundleNext ==
    \/ \E text \in Text : StoreFile(text)
    \/ \E c \in library.claims :
         BeginEdit(c) \/ CommitEdit(c) \/ EmbedStatement(c) \/ \E t \in TopicId : GroupStatement(c, t)
    \/ \E m \in BundleModel : SwitchModel(m) \/ Move(m)
    \/ BeginExport \/ SendTable \/ CutExport
    \/ BeginImport \/ StageTable \/ EndImport \/ StopImport
    \/ \E m \in bundle.members : PutMember(m) \/ PutAwaited(m)

BundleSpec == BundleInit /\ [][BundleNext]_bundleVars

-----------------------------------------------------------------------------
\* The rows of the tables.
FileRow   == [id : FileId, text : Text]
ClaimRow  == [id : ClaimId, file : FileId, revision : Nat,
              vector : BundleModel \cup {NoModel}, topic : TopicId \cup {NoModel}]
MemberRow == [topic : TopicId, claim : ClaimId]

LibraryRows == [files : SUBSET FileRow, claims : SUBSET ClaimRow,
                topics : SUBSET TopicId, members : SUBSET MemberRow]
BundleRows  == [files : SUBSET FileRow, claims : SUBSET ClaimRow,
                topics : SUBSET TopicId, members : SUBSET MemberRow, complete : BOOLEAN]

BundleTypeOK ==
    /\ modelInUse \in BundleModel /\ importer \in {NoModel, modelInUse}
    /\ {reader, writer} \subseteq 0..Len(Tables) /\ used \subseteq FileId \cup ClaimId \cup TopicId
    /\ {library, snapshot, origin, staged} \subseteq LibraryRows /\ bundle \in BundleRows
    /\ toPut \cup awaited \subseteq bundle.members /\ doomed \cup crossed \subseteq MemberRow
    /\ editing \subseteq ClaimId

\* References lead somewhere, no content is stored twice and no id given
\* twice, whatever was imported into whatever library.
LibraryIsSound ==
    /\ \A c \in library.claims : /\ \E f \in library.files : f.id = c.file
                                 /\ c.topic # NoModel => c.topic \in library.topics
    /\ \A m \in library.members : m.topic \in library.topics
    /\ \A f, g \in library.files : f.id = g.id \/ f.text = g.text => f = g
    /\ \A c, d \in library.claims : c.id = d.id => c = d

\* Vectors in the library are of the model in use, and every member of a
\* topic is a claim that points at it, after an import as ever; but for a
\* member whose claim was being edited when the import put it in.
ImportedFits ==
    /\ \A c \in library.claims : c.vector \in {NoModel, modelInUse}
    /\ \A m \in library.members :
         m \in crossed \/ \E c \in library.claims : c.id = m.claim /\ c.topic = m.topic

\* A library restored into a new installation is the one that was exported,
\* but for vectors of another model and the topics made of them.
RestoredIsExported ==
    [][EndImport /\ blank /\ bundle.complete =>
         /\ library'.files = origin.files
         /\ library'.claims = {Fitted(c, modelInUse) : c \in origin.claims}
         /\ library'.members = {m \in origin.members : \E c \in library'.claims : c.id = m.claim /\ c.topic = m.topic}]_bundleVars

\* An import adds rows and changes none (docs/API.md: "existing rows are
\* kept"), and doing it again adds nothing.
ImportKeepsRows ==
    [][EndImport => /\ \A table \in {"files", "claims", "topics", "members"} :
                         library[table] \subseteq library'[table]
                    /\ library' # library => Applied(library', bundle, modelInUse) = library']_bundleVars

\* A library is in order after imports of whatever was exported, while people
\* go on changing it between any two rows (import_bundle_file).
BundleIsSound == BundleTypeOK /\ LibraryIsSound /\ ImportedFits

\* What an import puts in is what was taken out, and it takes nothing away.
BundleKeeps == RestoredIsExported /\ ImportKeepsRows
=============================================================================
