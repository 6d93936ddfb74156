--------------------------- MODULE SourceFamilies ---------------------------
(***************************************************************************)
(* Which sources count as independent.  A claim is read from chunks of     *)
(* several files; copies, versions and summaries of one file are one       *)
(* family, and only a source of a new family corroborates the claim.       *)
(* People declare later that a file derives from another, withdraw files,  *)
(* or delete them.                                                         *)
(*                                                                         *)
(* One claim and its certificates of the rule claim.corroboration, one     *)
(* live certificate per source that repeated it.  Reading and withdrawing  *)
(* take turns (the advisory lock gather.scan.write); declaring does not    *)
(* take it, and waits only for the file whose chunk is being read, which   *)
(* is locked.  Left out: the certificate that records a repeated statement *)
(* whatever its source, and whatever else a withdrawal does (UnitLifecycle *)
(* and PhotoPipeline have it).                                             *)
(***************************************************************************)
EXTENDS Integers, FiniteSets, FiniteSetsExt

CONSTANTS
    Artifacts,  \* the files, numbers in the order of their ids
    Chunks,     \* <<file, text>>: what is to be read; texts in the order of their hashes
    Versions,   \* <<newer, older>>: files stored as versions of others
    WalkDepth,  \* steps along links from a source: 16 in the code
    FileBudgets \* how often at most people act: [{"declare", "remove"} -> Nat]

ASSUME FamilyAssumption ==
    /\ Artifacts \subseteq Nat /\ IsFiniteSet(Artifacts) /\ Chunks \subseteq Artifacts \X Nat
    /\ Versions \subseteq Artifacts \X Artifacts /\ \A l \in Versions : l[1] /= l[2]
    /\ WalkDepth \in Nat \ {0} /\ FileBudgets \subseteq [{"declare", "remove"} -> Nat]

VARIABLES
    onFile,     \* files not deleted
    retracted,  \* those of them that were withdrawn
    backing,    \* chunks the claim was read from
    derived,    \* <<child, parent>>: derivations and versions
    backs,      \* file -> its live corroboration certificate
    hearing,    \* the chunk being read, and what was read about the sources
    fileDeeds   \* what people may still do

familyVars == <<onFile, retracted, backing, derived, backs, hearing, fileDeeds>>

Silence == [chunk |-> <<>>, refs |-> {}, links |-> {}]
NoBacking == [decision |-> "none", sources |-> {}, before |-> 0, after |-> 0]
Trusted == onFile \ retracted
----------------------------------------------------------------------------
(* Families *)

Ends(l) == {l[1], l[2]}
EndsOf(ls) == UNION {Ends(l) : l \in ls}

\* The links within n steps of the files, in either direction.
LinksNear(files, ls) ==
    LET Reach[n \in 0..WalkDepth] ==
            IF n = 0 THEN files
            ELSE LET near == Reach[n - 1]
                 IN  near \cup EndsOf({l \in ls : Ends(l) \cap near /= {}})
        touched == Reach[WalkDepth - 1]
    IN  {l \in ls : Ends(l) \cap touched /= {}}

\* Every two ends of a tie are brought into one block.
Fused(blocks, ties) ==
    FoldSet(LAMBDA t, bs : LET met == {b \in bs : b \cap t /= {}}
                           IN  (bs \ met) \cup {UNION met}, blocks, ties)

SameText(refs) == {{e[1][1], e[2][1]} : e \in {e \in refs \X refs : e[1][2] = e[2][2]}}

\* Files linked with each other, or with a chunk of the same text.
Families(refs, ls) ==
    LET files == {r[1] : r \in refs}
        all   == Fused({{x} : x \in files \cup EndsOf(ls)}, {Ends(l) : l \in ls} \cup SameText(refs))
    IN  {f \cap files : f \in all} \ {{}}

\* The live sources of the claim: of each file one text, the first by hash.
SourcesOf(read, live) ==
    {c \in read : c[1] \in live /\ \A d \in read : d[1] = c[1] => c[2] <= d[2]}
Sources == SourcesOf(backing, Trusted)

\* What confidence may count: the families behind the claim.
Independent(read, live, ls) ==
    LET sources == SourcesOf(read, live)
    IN  Cardinality(Families(sources, LinksNear({s[1] : s \in sources}, ls)))
----------------------------------------------------------------------------
(* Reading *)

\* A file is of a family that has spoken for the claim before, or has itself.
WrongShared(refs, chunk, ls) ==
    \E f \in Families(refs \cup {chunk}, ls), r \in refs :
        chunk[1] \in f /\ r[1] \in f /\ r[1] /= chunk[1]
Shared(refs, chunk, ls) ==
    \E f \in Families(refs \cup {chunk}, ls), r \in refs : chunk[1] \in f /\ r[1] \in f

MayBeRead(chunk) == chunk[1] \in Trusted

\* The first to say it stores the claim.
HearFirst(chunk) ==
    /\ hearing = Silence /\ backing = {} /\ MayBeRead(chunk)
    /\ backing' = {chunk}
    /\ UNCHANGED <<onFile, retracted, derived, backs, hearing, fileDeeds>>

\* A chunk repeats it: the sources and their links are read.
HearAgain(chunk) ==
    /\ hearing = Silence /\ backing /= {} /\ chunk \notin backing
    /\ Sources /= {} /\ MayBeRead(chunk)
    /\ hearing' = [chunk |-> chunk, refs |-> Sources,
                   links |-> LinksNear({s[1] : s \in Sources} \cup {chunk[1]}, derived)]
    /\ UNCHANGED <<onFile, retracted, backing, derived, backs, fileDeeds>>

\* The certificate replaces the one of the same file, unless it says the same.
Corroboration(h) ==
    [decision |-> IF Shared(h.refs, h.chunk, h.links) THEN "blocked" ELSE "auto_applied",
     sources  |-> {r[1] : r \in h.refs} \cup {h.chunk[1]},
     before   |-> Cardinality(Families(h.refs, h.links)),
     after    |-> Cardinality(Families(h.refs \cup {h.chunk}, h.links))]

Record ==
    /\ hearing /= Silence
    /\ backs' = [backs EXCEPT ![hearing.chunk[1]] = Corroboration(hearing)]
    /\ backing' = backing \cup {hearing.chunk}
    /\ hearing' = Silence
    /\ UNCHANGED <<onFile, retracted, derived, fileDeeds>>
----------------------------------------------------------------------------
(* People *)

\* Corroborations a new link puts in doubt, on either side of it.
Doubted(child, parent) ==
    {x \in Artifacts : backs[x].decision = "auto_applied" /\ backs[x].sources \cap {child, parent} /= {}}

\* Withdrawn certificates are live no longer.
Less(gone) == [x \in Artifacts |-> IF x \in gone THEN NoBacking ELSE backs[x]]

\* The file the reader has locked.
BeingRead == IF hearing = Silence THEN {} ELSE {hearing.chunk[1]}

\* add_derivation: waits for the lock on a file whose chunk is being read.
Declare(child, parent) ==
    /\ fileDeeds["declare"] > 0 /\ fileDeeds' = [fileDeeds EXCEPT !["declare"] = @ - 1]
    /\ child /= parent /\ {child, parent} \subseteq onFile
    /\ BeingRead \cap {child, parent} = {}
    /\ derived' = derived \cup {<<child, parent>>}
    /\ backs' = Less(Doubted(child, parent))
    /\ UNCHANGED <<onFile, retracted, backing, hearing>>

\* Certificates that rested on the file, or have no live source left.
Baseless(file) ==
    {x \in Artifacts : /\ backs[x] /= NoBacking
                       /\ x = file \/ backs[x].sources \cap (Trusted \ {file}) = {}}

\* Before a file goes: what was linked through it is linked with one another.
WrongRelinked(file) ==
    LET parents  == {l[2] : l \in {l \in derived : l[1] = file}}
        children == {l[1] : l \in {l \in derived : l[2] = file}}
    IN  children \X parents
Relinked(file) ==
    LET parents  == {l[2] : l \in {l \in derived : l[1] = file}}
        children == {l[1] : l \in {l \in derived : l[2] = file}}
        anchors  == IF parents /= {} THEN parents ELSE children
        first    == {a \in anchors : \A b \in anchors : a <= b}
    IN  {l \in (parents \cup children) \X first : l[1] /= l[2]}

\* retract_artifact: withdraw a file, or delete it with what was read from it.
TakeAway(file, delete) ==
    /\ fileDeeds["remove"] > 0 /\ fileDeeds' = [fileDeeds EXCEPT !["remove"] = @ - 1]
    /\ hearing = Silence /\ file \in onFile
    /\ backs' = Less(Baseless(file))
    /\ IF delete
       THEN /\ onFile' = onFile \ {file}
            /\ retracted' = retracted \ {file}
            /\ backing' = {c \in backing : c[1] /= file}
            /\ derived' = {l \in derived \cup Relinked(file) : file \notin Ends(l)}
       ELSE /\ retracted' = retracted \cup {file}
            /\ UNCHANGED <<onFile, backing, derived>>
    /\ UNCHANGED hearing
----------------------------------------------------------------------------
FamilyInit ==
    /\ onFile = Artifacts /\ retracted = {} /\ backing = {}
    /\ derived = Versions
    /\ backs = [x \in Artifacts |-> NoBacking]
    /\ hearing = Silence
    /\ fileDeeds \in FileBudgets

FamilyNext ==
    \/ \E c \in Chunks : HearFirst(c) \/ HearAgain(c)
    \/ Record
    \/ \E x, y \in Artifacts : Declare(x, y)
    \/ \E x \in Artifacts, delete \in BOOLEAN : TakeAway(x, delete)

FamilySpec == FamilyInit /\ [][FamilyNext]_familyVars
----------------------------------------------------------------------------
(* Types: a certificate names the file that spoke among its sources, and    *)
(* links join two files that are stored.                                    *)
FamilyTypeOK ==
    /\ retracted \subseteq onFile /\ onFile \subseteq Artifacts
    /\ backing \subseteq {c \in Chunks : c[1] \in onFile}
    /\ \A l \in derived : l[1] /= l[2] /\ Ends(l) \subseteq onFile
    /\ \A x \in Artifacts : backs[x] /= NoBacking =>
          /\ backs[x].decision \in {"auto_applied", "blocked"}
          /\ x \in backs[x].sources /\ backs[x].sources \subseteq Artifacts

\* A source is let through exactly when it adds a family to those that had
\* spoken: the two ways the code asks, by membership and by counting, agree
\* (reassertion_certificates: shared, and independent_sources of the support).
OnlyNewFamiliesCount ==
    \A x \in Artifacts : backs[x] /= NoBacking =>
        (backs[x].decision = "auto_applied" <=> backs[x].after > backs[x].before)

\* No corroboration outlives the file that gave it, in whatever order files are
\* read, withdrawn and deleted (persist_chunk_units looks at the file again
\* under a lock; propagate_withdrawal).
SupportIsLive == \A x \in Artifacts : backs[x] /= NoBacking => x \in Trusted

\* The families by links alone.
LinkedBy(ls) == Fused({{z} : z \in Artifacts}, {Ends(l) : l \in ls})

\* A link between a source and another one behind the claim withdraws the
\* corroboration that counted them apart, whichever side was read first
\* (add_derivation; docs/SEMANTIC-SAFETY.md:243).
LaterLinksWithdraw ==
    [][\A x \in Artifacts :
          (backs[x].decision = "auto_applied" /\ backs'[x] = backs[x]) =>
              \A s \in backs[x].sources \ {x} :
                  {<<s, x>>, <<x, s>>} \cap derived' /= {} => 
                      \E f \in LinkedBy(derived) : {s, x} \subseteq f]_familyVars

\* What confidence may count grows only by reading: no declared link and no
\* file withdrawn or deleted raises it, as long as no two files behind the claim
\* share a text (derivations_for walks links of withdrawn files too).
SupportGrowsByReading ==
    [][(/\ backing' \subseteq backing
        /\ \A c, d \in backing : c[2] = d[2] => c[1] = d[1])
        => Independent(backing', onFile' \ retracted', derived')
              <= Independent(backing, Trusted, derived)]_familyVars

\* Deleting a file leaves what it linked in one family: no removal makes two
\* copies independent by their links (relink_around; docs/API.md:530).
DeletionKeepsFamilies ==
    [][onFile' # onFile =>
          \A f \in LinkedBy(derived) : \E g \in LinkedBy(derived') : f \cap onFile' \subseteq g]_familyVars

\* What corroborates a claim is a live source that adds a family, however
\* reading, links, withdrawals and deletions are mixed.
SupportIsSound == FamilyTypeOK /\ OnlyNewFamiliesCount /\ SupportIsLive

\* Support grows by reading only: links and removals never make two sources
\* independent that were not (add_derivation, delete_artifact).
SupportIsKept == LaterLinksWithdraw /\ SupportGrowsByReading /\ DeletionKeepsFamilies
=============================================================================
