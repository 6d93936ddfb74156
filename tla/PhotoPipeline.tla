--------------------------- MODULE PhotoPipeline ---------------------------
(***************************************************************************)
(* Photos: one background task prepares them (hash, place and time), keeps *)
(* the groups of near copies in step with the library, and captions them   *)
(* with a local vision model, which puts them under visual topics.         *)
(* Meanwhile people add photos, withdraw them, and say that two are not    *)
(* copies of each other.                                                   *)
(*                                                                         *)
(* A regroup locks the sources it reads, as a withdrawal does; what people *)
(* said of pairs is read on another connection and not locked.  Photos are *)
(* numbers in the canonical order (hash, content, id).  Left out: albums,  *)
(* which are reconciled in the same transaction by the same code, labels,  *)
(* cohesion and sizes.                                                     *)
(***************************************************************************)
EXTENDS Naturals, FiniteSets

CONSTANTS
    Photo,          \* 1..n, in canonical order
    Near,           \* pairs {i, j} of photos within the distance
    SameScene,      \* pairs {i, j} whose captions are alike enough for a topic
    HubDegree,      \* safety_hub_degree
    PhotoBatch,     \* photo_batch
    MaxGroup,       \* bound on the ids of groups and topics
    PhotoBudgets    \* how often at most people and the world act: [PhotoDeed -> Nat]

PhotoDeed == {"withdraw", "differ", "unavailable", "error"}

ASSUME PhotoAssumption ==
    /\ Photo = 1..Cardinality(Photo)
    /\ \A pair \in Near \cup SameScene : pair \subseteq Photo /\ Cardinality(pair) = 2
    /\ HubDegree \in Nat /\ PhotoBatch \in Nat \ {0} /\ MaxGroup \in Nat
    /\ PhotoBudgets \subseteq [PhotoDeed -> Nat]

VARIABLES
    there,      \* photos in the library, withdrawn ones too
    withdrawnPhotos,  \* their artifact is retracted
    prepared,   \* photo_prepared_at is set
    settled,    \* photo_grouped_at is set
    copyOf,     \* dup_cluster_id, 0 for NULL
    copies,     \* rows of cluster_members of groups of copies
    certified,  \* live certificates: sets of photos
    differ,     \* pairs people said are not copies
    caption,    \* "none", "text" or "rejected": captioned_at with or without one
    scene,      \* topic_cluster_id, 0 for NULL
    scenes,     \* rows of cluster_members of topics
    photoTask,  \* what the task is doing
    decided,    \* history: the pairs the last regroup went by
    photoDeeds

photoVars == <<there, withdrawnPhotos, prepared, settled, copyOf, copies, certified, differ,
               caption, scene, scenes, photoTask, decided, photoDeeds>>

NoGroup == 0
IdleTask == [step |-> "prepare", seen |-> {}, differ |-> {}, queue |-> {}]

PhotoInit ==
    /\ there = {} /\ withdrawnPhotos = {} /\ prepared = {} /\ settled = {}
    /\ copyOf = [i \in Photo |-> NoGroup] /\ copies = {} /\ certified = {} /\ differ = {}
    /\ caption = [i \in Photo |-> "none"] /\ scene = [i \in Photo |-> NoGroup] /\ scenes = {}
    /\ photoTask = IdleTask /\ decided = {}
    /\ photoDeeds \in PhotoBudgets

PhotoDoes(deed) == photoDeeds[deed] > 0 /\ photoDeeds' = [photoDeeds EXCEPT ![deed] = @ - 1]
Goes(step) == photoTask' = [photoTask EXCEPT !.step = step]

-----------------------------------------------------------------------------
\* safety::photo::plan

\* Near neighbours once what people said is taken out.
Neighbours(i, photos, apart) == {j \in photos : {i, j} \in Near \ apart}
PairsIn(s) == {p \in {{i, j} : i, j \in s} : Cardinality(p) = 2}

\* A photo of little information is near many that are not near each other.
IsHub(i, photos, apart) ==
    LET ns == Neighbours(i, photos, apart)
    IN  /\ Cardinality(ns) >= IF HubDegree > 2 THEN HubDegree ELSE 2
        /\ 2 * Cardinality(PairsIn(ns) \cap (Near \ apart)) < Cardinality(PairsIn(ns))
Links(photos, apart) ==
    {pair \in PairsIn(photos) \cap (Near \ apart) : \A i \in pair : ~IsHub(i, photos, apart)}

\* Wrong: whatever is linked through another photo is one group.
WrongGrown(start, free, links) ==
    LET n == Cardinality(Photo)
        grown[j \in 0..n] ==
            IF j = 0 THEN {start}
            ELSE LET sofar == grown[j - 1]
                 IN  IF j > start /\ j \in free /\ \E i \in sofar : {i, j} \in links
                     THEN sofar \cup {j} ELSE sofar
    IN  grown[n]
\* split_cliques: every later photo linked to all there are so far joins.
Grown(start, free, links) ==
    LET n == Cardinality(Photo)
        grown[j \in 0..n] ==
            IF j = 0 THEN {start}
            ELSE LET sofar == grown[j - 1]
                 IN  IF j > start /\ j \in free /\ \A i \in sofar : {i, j} \in links
                     THEN sofar \cup {j} ELSE sofar
    IN  grown[n]

\* The groups of two or more, each begun by the first photo not yet placed.
Plan(photos, apart) ==
    LET links == Links(photos, apart)
        groups[i \in 0..Cardinality(Photo)] ==
            IF i = 0 THEN {}
            ELSE LET sofar == groups[i - 1]
                     free == photos \ UNION sofar
                 IN  IF i \in free THEN sofar \cup {Grown(i, free, links)} ELSE sofar
    IN  {g \in groups[Cardinality(Photo)] : Cardinality(g) >= 2}

FirstPhoto(g) == CHOOSE i \in g : \A j \in g : i <= j

-----------------------------------------------------------------------------
\* reconcile: a group keeps the id most of its members carry, if no group
\* before it took that one.

Votes(g, id) == Cardinality({i \in g : copyOf[i] = id})
Ids(groups) ==
    LET Before(g) == {h \in groups : FirstPhoto(h) < FirstPhoto(g)}
        free == 1..MaxGroup \ {copyOf[i] : i \in Photo}
        id[g \in groups] ==
            LET taken == {id[h] : h \in Before(g)}
                carried == {copyOf[i] : i \in g} \ (taken \cup {NoGroup})
            IN  IF carried # {}
                THEN CHOOSE c \in carried : \A d \in carried :
                         Votes(g, c) > Votes(g, d) \/ (Votes(g, c) = Votes(g, d) /\ c <= d)
                ELSE CHOOSE c \in free \ taken : \A d \in free \ taken : c <= d
    IN  id

-----------------------------------------------------------------------------
AddPhoto(i) ==
    /\ i \notin there /\ there' = there \cup {i}
    /\ UNCHANGED <<withdrawnPhotos, prepared, settled, copyOf, copies, certified, differ, caption,
                   scene, scenes, photoTask, decided, photoDeeds>>

\* Sources locked by a regroup that has read them.
LockedByRegroup == IF photoTask.step \in {"decisions", "write"} THEN photoTask.seen ELSE {}

\* The rest of its group is grouped again.
Unsettled(i) == {j \in Photo : copyOf[j] # NoGroup /\ copyOf[j] = copyOf[i]}

\* retract_artifact: it leaves its groups, conclusions that rest on it go.
WithdrawPhoto(i) ==
    /\ i \in there \ withdrawnPhotos /\ i \notin LockedByRegroup /\ PhotoDoes("withdraw")
    /\ withdrawnPhotos' = withdrawnPhotos \cup {i}
    /\ settled' = settled \ Unsettled(i)
    /\ copyOf' = [copyOf EXCEPT ![i] = NoGroup] /\ scene' = [scene EXCEPT ![i] = NoGroup]
    /\ copies' = {m \in copies : m[2] # i} /\ scenes' = {m \in scenes : m[2] # i}
    /\ certified' = {g \in certified : i \notin g}
    /\ UNCHANGED <<there, prepared, differ, caption, photoTask, decided>>

\* mark_not_duplicate
MarkNotDuplicate(i, j) ==
    /\ {i, j} \in Near /\ {i, j} \subseteq there /\ {i, j} \notin differ /\ PhotoDoes("differ")
    /\ differ' = differ \cup {{i, j}}
    /\ certified' = {g \in certified : ~({i, j} \subseteq g)}
    /\ settled' = settled \ {i, j}
    /\ UNCHANGED <<there, withdrawnPhotos, prepared, copyOf, copies, caption, scene, scenes,
                   photoTask, decided>>

-----------------------------------------------------------------------------
\* The first ones by id, as many as a batch holds.
FirstOnes(photos) == {i \in photos : Cardinality({j \in photos : j < i}) < PhotoBatch}

\* prepare_pass
Prepare ==
    /\ photoTask.step = "prepare"
    /\ prepared' = prepared \cup FirstOnes(there \ prepared)
    /\ Goes("regroup")
    /\ UNCHANGED <<there, withdrawnPhotos, settled, copyOf, copies, certified, differ, caption,
                   scene, scenes, decided, photoDeeds>>

Current == prepared \ withdrawnPhotos

Pending == Current \ settled

\* regroup_pass reads and locks the library if any photo is pending.
ReadLibrary ==
    /\ photoTask.step = "regroup"
    /\ IF Pending = {}
       THEN Goes("caption")
       ELSE photoTask' = [photoTask EXCEPT !.step = "decisions", !.seen = Current]
    /\ UNCHANGED <<there, withdrawnPhotos, prepared, settled, copyOf, copies, certified, differ,
                   caption, scene, scenes, decided, photoDeeds>>

\* On a connection of its own.
ReadDecisions ==
    /\ photoTask.step = "decisions"
    /\ photoTask' = [photoTask EXCEPT !.step = "write", !.differ = differ]
    /\ UNCHANGED <<there, withdrawnPhotos, prepared, settled, copyOf, copies, certified, differ,
                   caption, scene, scenes, decided, photoDeeds>>

WriteGroups ==
    LET groups == Plan(photoTask.seen, photoTask.differ)
        id == Ids(groups)
        OfGroup(i) == CHOOSE g \in groups : i \in g
    IN  /\ photoTask.step = "write"
        /\ copyOf' = [i \in Photo |-> IF i \in UNION groups THEN id[OfGroup(i)] ELSE NoGroup]
        /\ copies' = {m \in copies : m[1] \notin {id[g] : g \in groups}
                                     /\ \E i \in Photo : copyOf'[i] = m[1]}
                     \cup {<<id[g], i>> : <<g, i>> \in {x \in groups \X Photo : x[2] \in x[1]}}
        /\ certified' = {g \in certified : g \cap photoTask.seen = {}} \cup groups
        /\ settled' = settled \cup photoTask.seen
        /\ decided' = photoTask.differ
        /\ photoTask' = [IdleTask EXCEPT !.step = "caption"]
        /\ UNCHANGED <<there, withdrawnPhotos, prepared, differ, caption, scene, scenes, photoDeeds>>

-----------------------------------------------------------------------------
\* caption_pass

Uncaptioned == {i \in prepared : caption[i] = "none"}

\* Withdrawn ones are not left out here.
PickUncaptioned ==
    /\ photoTask.step = "caption"
    /\ photoTask' = [photoTask EXCEPT !.step = "model",
                                           !.queue = FirstOnes(Uncaptioned)]
    /\ UNCHANGED <<there, withdrawnPhotos, prepared, settled, copyOf, copies, certified, differ,
                   caption, scene, scenes, decided, photoDeeds>>

NextInQueue == FirstPhoto(photoTask.queue)
Dequeued == [photoTask EXCEPT !.queue = @ \ {NextInQueue}]

Live(i) == i \notin withdrawnPhotos

\* join_nearest_topic: the nearest of the photos captioned before.
Neighbour(i) == {j \in Photo \ {i} : caption[j] = "text" /\ {i, j} \in SameScene /\ Live(j)}

StoreCaption ==
    /\ photoTask.step = "model" /\ photoTask.queue # {}
    /\ LET i == NextInQueue
       IN  IF ~Live(i)
           THEN UNCHANGED <<caption, scene, scenes>>
           ELSE /\ caption' = [caption EXCEPT ![i] = "text"]
                /\ \/ Neighbour(i) = {} /\ UNCHANGED <<scene, scenes>>
                   \/ \E j \in Neighbour(i) :
                        LET id == IF scene[j] # NoGroup THEN scene[j]
                                  ELSE CHOOSE c \in 1..MaxGroup : \A m \in scenes : m[1] # c
                        IN  /\ scene' = [scene EXCEPT ![i] = id, ![j] = id]
                            /\ scenes' = scenes \cup {<<id, i>>, <<id, j>>}
    /\ photoTask' = Dequeued
    /\ UNCHANGED <<there, withdrawnPhotos, prepared, settled, copyOf, copies, certified, differ,
                   decided, photoDeeds>>

\* CaptionError::Rejected: the photo is done with.
CaptionRejected ==
    /\ photoTask.step = "model" /\ photoTask.queue # {} /\ PhotoDoes("error")
    /\ caption' = [caption EXCEPT ![NextInQueue] = "rejected"]
    /\ photoTask' = Dequeued
    /\ UNCHANGED <<there, withdrawnPhotos, prepared, settled, copyOf, copies, certified, differ,
                   scene, scenes, decided>>

\* CaptionError::Unavailable and other errors: the rest waits for the next pass.
CaptionUnavailable ==
    /\ photoTask.step = "model" /\ photoTask.queue # {} /\ PhotoDoes("unavailable")
    /\ photoTask' = IdleTask
    /\ UNCHANGED <<there, withdrawnPhotos, prepared, settled, copyOf, copies, certified, differ,
                   caption, scene, scenes, decided>>

PassEnds ==
    /\ photoTask.step = "model" /\ photoTask.queue = {}
    /\ photoTask' = IdleTask
    /\ UNCHANGED <<there, withdrawnPhotos, prepared, settled, copyOf, copies, certified, differ,
                   caption, scene, scenes, decided, photoDeeds>>

-----------------------------------------------------------------------------
PhotoPass ==
    \/ Prepare \/ ReadLibrary \/ ReadDecisions \/ WriteGroups \/ PickUncaptioned
    \/ StoreCaption \/ CaptionRejected \/ CaptionUnavailable \/ PassEnds

PhotoNext ==
    \/ PhotoPass
    \/ \E i \in Photo : AddPhoto(i) \/ WithdrawPhoto(i)
    \/ \E i, j \in Photo : i < j /\ MarkNotDuplicate(i, j)

\* run_photo_worker repeats the pass for as long as the daemon runs.
PhotoSpec == PhotoInit /\ [][PhotoNext]_photoVars /\ WF_photoVars(PhotoPass)

-----------------------------------------------------------------------------
PhotoTypeOK ==
    /\ withdrawnPhotos \cup prepared \subseteq there /\ settled \subseteq prepared
    /\ there \subseteq Photo
    /\ copyOf \in [Photo -> 0..MaxGroup] /\ scene \in [Photo -> 0..MaxGroup]
    /\ copies \cup scenes \subseteq (1..MaxGroup) \X Photo
    /\ certified \subseteq SUBSET Photo
    /\ differ \cup decided \subseteq Near
    /\ caption \in [Photo -> {"none", "text", "rejected"}]
    /\ photoTask.step \in {"prepare", "regroup", "decisions", "write", "caption", "model"}
    /\ photoTask.seen \cup photoTask.queue \subseteq prepared

GroupOf(i) == {j \in Photo : copyOf[j] = copyOf[i]}
Groups == {GroupOf(i) : i \in {j \in Photo : copyOf[j] # NoGroup}}
Quiet == photoTask.step \notin {"decisions", "write"} /\ Pending = {}

\* Photos shown as copies are each near every other, never only through a
\* third one, and were not told apart when the groups were made (plan and
\* split_cliques).
GroupsAreTight ==
    \A g \in Groups : \A i, j \in g : i # j => {i, j} \in Near \ decided

\* A withdrawn photo is in no group, no topic and no live certificate, also
\* when the withdrawal comes in the middle of a regroup or a caption
\* (retract_artifact, regroup_pass, caption_pass).
WithdrawnLeavesGroups ==
    \A i \in withdrawnPhotos :
        /\ copyOf[i] = NoGroup /\ scene[i] = NoGroup
        /\ \A m \in copies \cup scenes : m[2] # i
        /\ \A g \in certified : i \notin g

\* Once no photo waits to be grouped, the groups on the photos, the rows of
\* the clusters and the live certificates are all those the plan gives for
\* the photos of the library (regroup_pass, reconcile).
SettledGroupsMatch ==
    Quiet => /\ Groups = Plan(Current, decided)
             /\ certified = Groups
             /\ copies = {<<copyOf[i], i>> : i \in UNION Groups}

\* Two photos a person told apart are not grouped again
\* (docs/API.md: "never grouped as duplicates again").
NotDuplicatesStayApart ==
    Quiet => \A g \in Groups : \A pair \in differ : ~(pair \subseteq g)

\* Photos that are not grouped yet, or no longer, are grouped in the end,
\* however additions, withdrawals and decisions fall between the passes.
EveryPhotoIsGrouped == []<>(there \subseteq settled \cup withdrawnPhotos)

\* A photo gets its caption, is given up or withdrawn, unless as many
\* withdrawn ones as a batch holds are ahead of it (caption_pass).
EveryPhotoIsCaptioned ==
    []<>(\A i \in there : \/ caption[i] # "none" \/ i \in withdrawnPhotos
                          \/ Cardinality({j \in withdrawnPhotos : j < i /\ caption[j] = "none"}) >= PhotoBatch)

\* Groups of copies, their rows, their certificates and the photos agree,
\* whatever people do between the steps of a pass (regroup_pass).
PhotosAreSound == PhotoTypeOK /\ GroupsAreTight /\ WithdrawnLeavesGroups /\ SettledGroupsMatch
=============================================================================
