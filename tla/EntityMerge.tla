----------------------------- MODULE EntityMerge -----------------------------
(***************************************************************************)
(* Folding duplicate entities together and taking a merge apart again:     *)
(* daemon/src/entities/merge.rs, with the writers whose transactions meet  *)
(* it (extraction in extract/persist.rs, reject and restore in             *)
(* routes/feedback.rs, add_alias in entities/mod.rs).                      *)
(*                                                                         *)
(* A merge folds a loser into a winner and journals what it moved; an      *)
(* unmerge replays the journal backwards.  A request asks for a merge in   *)
(* one transaction: a person's request has one loser, the clustering       *)
(* worker's has every other head of a planned group.  now() in Postgres is *)
(* the start of the transaction, so a request takes its timestamp when it  *)
(* is opened and all the merges of one request carry the same one.         *)
(*                                                                         *)
(* The rows of winner and losers are locked until the transaction commits, *)
(* so the merges of one request are serialised: once the first has run     *)
(* (busy), nothing else runs until the last one has.                       *)
(*                                                                         *)
(* Dismissed pairs and the clustering pass are in ResolvePass.  Left out:  *)
(* the scan cursors a merge clears, the contradictions and the cluster     *)
(* membership an unmerge removes, certificates and the tuner's label.      *)
(* unmerge_core's name clash cannot arise here: the name of an entity that *)
(* is merged away stays an alias, so extraction creates no second entity   *)
(* of that name.                                                           *)
(*                                                                         *)
(* Definitions headed "Wrong:" are mutations of the one they precede.  No  *)
(* behaviour uses them; each breaks a property stated at the end.          *)
(***************************************************************************)
EXTENDS Naturals, FiniteSets

CONSTANTS
    Entity,     \* ids, ordered: a group is merged in ascending id order
    Nickname,   \* names that are no entity's own name, given by a person
    Unit,       \* atomic units
    Edge,       \* ids of relationship rows
    UnitOf,     \* the unit that asserts an edge (atomic_unit_id)
    LabelOf,    \* relation type and unit of an edge: what edge_uq compares
    Person,     \* sessions of people
    Worker,     \* the session of the clustering worker
    None,
    MaxRequests \* bound on the merge requests of a behaviour

ASSUME EntityAssumption == Entity \subseteq Nat /\ None \notin Entity
ASSUME StatusAssumption == None \notin {"active", "retracted"}
ASSUME NameAssumption   == Nickname \cap Entity = {}
ASSUME EdgeAssumption   == /\ UnitOf \in [Edge -> Unit]
                           /\ \A i, j \in Edge :
                                 LabelOf[i] = LabelOf[j] => UnitOf[i] = UnitOf[j]
ASSUME SessionAssumption == Worker \notin Person
ASSUME BoundAssumption  == MaxRequests \in Nat

Session == Person \cup {Worker}
Name    == Entity \cup Nickname    \* an entity's own name is written as its id

VARIABLES
    mergedInto,   \* entities.merged_into_entity_id, None while live
    aliases,      \* entity_aliases, as the set of aliases of each entity
    status,       \* atomic_units.status; None before extraction
    subject,      \* atomic_units.subject_entity_id
    edges,        \* the rows of relationships
    audit,        \* entity_merge_audit rows of action 'merge' not undone
    request,      \* the merge a session has asked for, None when idle
    busy,         \* the session whose request is half done
    clock,        \* the number of requests opened
    about,        \* history: the entity a unit named when it was extracted
    asserted,     \* history: the endpoints an edge was extracted with
    dropped,      \* history: the edges some merge has deleted
    doubled       \* history: those it deleted as duplicates of another

rows    == <<mergedInto, aliases, subject, edges, audit>>
history == <<about, asserted>>    \* written by extraction only
deletions == <<dropped, doubled>>  \* written by merges only
vars    == <<mergedInto, aliases, status, subject, edges, audit, request, busy,
             clock, about, asserted, dropped, doubled>>

-----------------------------------------------------------------------------
(* Row shapes.                                                             *)

EdgeRow == [id : Edge, src : Entity, tgt : Entity,
            status : {"active", "retracted"}]

Journal == [units : SUBSET Unit, sources : SUBSET Edge, targets : SUBSET Edge,
            deleted : SUBSET EdgeRow, aliasesAdded : SUBSET Name,
            loserAliases : SUBSET Name, descendants : SUBSET Entity]

MergeRow == [winner : Entity, loser : Entity, at : 1..MaxRequests,
             actor : Session, undo : Journal]

Request == [winner : Entity, losers : SUBSET Entity, at : 1..MaxRequests]

ASSUME RequestAssumption == None \notin Request

\* The unique index relationships_edge_uq.
Key(e) == <<e.src, e.tgt, LabelOf[e.id]>>

Live(x) == mergedInto[x] = None

\* Where a link to an entity leads: resolve_head's one hop.
HeadOf(x) == IF Live(x) THEN x ELSE mergedInto[x]

Init ==
    /\ mergedInto = [x \in Entity |-> None]
    /\ aliases    = [x \in Entity |-> {}]
    /\ status     = [u \in Unit |-> None]
    /\ subject    = [u \in Unit |-> None]
    /\ edges      = {}
    /\ audit      = {}
    /\ request    = [s \in Session |-> None]
    /\ busy       = None
    /\ clock      = 0
    /\ about      = [u \in Unit |-> None]
    /\ asserted   = [i \in Edge |-> None]
    /\ dropped    = {}
    /\ doubled    = {}

-----------------------------------------------------------------------------
(* merge_entities_in, the statements of one merge.                         *)

Repoint(e, from, to) ==
    [e EXCEPT !.src = IF @ = from THEN to ELSE @,
              !.tgt = IF @ = from THEN to ELSE @]

\* 3a. Edges between the two would become self-loops.
SelfLoops(w, l) == {e \in edges : {e.src, e.tgt} = {w, l}}

\* 3b. Edges of the loser that the winner already has.
Duplicates(w, l) ==
    LET rest == edges \ SelfLoops(w, l)
    IN  {e \in rest : /\ l \in {e.src, e.tgt}
                      /\ \E k \in rest : /\ k.id # e.id
                                         /\ Key(k) = Key(Repoint(e, l, w))}

KeptEdges(w, l) == edges \ (SelfLoops(w, l) \cup Duplicates(w, l))

\* 2. Units whose subject is the loser.
UnitsOf(l) == {u \in Unit : subject[u] = l}

\* Wrong: the loser's aliases are deleted without being journaled.
NoAliases(l) == {}

\* 1. The loser's own aliases.
LoserAliases(l) == aliases[l]

\* Wrong: the loser's own pointer instead of the pointers to it.
PointerOf(l) == {mergedInto[l]}

\* 4b. Entities merged into the loser before.
Descendants(l) == {x \in Entity : mergedInto[x] = l}

\* Wrong: only the self-loops are journaled.
OnlySelfLoops(w, l) == SelfLoops(w, l)

DeletedEdges(w, l) == SelfLoops(w, l) \cup Duplicates(w, l)

\* 5. What the merge of l into w is about to change.
JournalOf(w, l) ==
    [units        |-> UnitsOf(l),
     sources      |-> {e.id : e \in {k \in KeptEdges(w, l) : k.src = l}},
     targets      |-> {e.id : e \in {k \in KeptEdges(w, l) : k.tgt = l}},
     deleted      |-> DeletedEdges(w, l),
     aliasesAdded |-> ({l} \cup aliases[l]) \ aliases[w],
     loserAliases |-> LoserAliases(l),
     descendants  |-> Descendants(l)]

\* 4. and 4b. The loser and its descendants point at the winner.
PointersAfter(w, l) ==
    [x \in Entity |-> IF x = l \/ mergedInto[x] = l THEN w ELSE mergedInto[x]]

MergeEntities(w, l, at, actor) ==
    /\ aliases' = [aliases EXCEPT ![w] = @ \cup {l} \cup aliases[l], ![l] = {}]
    /\ subject' = [u \in Unit |-> IF subject[u] = l THEN w ELSE subject[u]]
    /\ edges'   = {Repoint(e, l, w) : e \in KeptEdges(w, l)}
    /\ mergedInto' = PointersAfter(w, l)
    /\ audit' = audit \cup {[winner |-> w, loser |-> l, at |-> at,
                             actor |-> actor, undo |-> JournalOf(w, l)]}
    /\ dropped' = dropped \cup {d.id : d \in SelfLoops(w, l) \cup Duplicates(w, l)}
    /\ doubled' = doubled \cup {d.id : d \in Duplicates(w, l)}

-----------------------------------------------------------------------------
(* Requests to merge.                                                      *)

\* A transaction opens and fixes its now(); its locks come later.
Open(s, w, losers) ==
    /\ request[s] = None
    /\ clock < MaxRequests
    /\ losers # {} /\ w \notin losers
    /\ clock' = clock + 1
    /\ request' = [request EXCEPT ![s] = [winner |-> w, losers |-> losers,
                                          at |-> clock + 1]]
    /\ UNCHANGED <<rows, status, busy, history, deletions>>

OpenManual(s) == \E w, l \in Entity : Open(s, w, {l})

OpenGroup == \E w \in Entity : \E losers \in SUBSET Entity : Open(Worker, w, losers)

\* Both operands of every merge must be live.
Mergeable(s) == \A x \in request[s].losers \cup {request[s].winner} : Live(x)

MergeNext(s) ==
    /\ request[s] # None
    /\ busy \in {None, s}
    /\ Mergeable(s)
    /\ LET r == request[s]
       IN  \E l \in r.losers :
             LET rest == r.losers \ {l}
             IN  /\ \A y \in rest : l < y      \* heads.keys() is ascending
                 /\ MergeEntities(r.winner, l, r.at, s)
                 /\ request' = [request EXCEPT ![s] =
                       IF rest = {} THEN None ELSE [r EXCEPT !.losers = rest]]
                 /\ busy' = IF rest = {} THEN None ELSE s
    /\ UNCHANGED <<status, clock, history>>

\* "entity ... is already merged": the whole request is rolled back.
Refuse(s) ==
    /\ request[s] # None
    /\ busy = None
    /\ ~Mergeable(s)
    /\ request' = [request EXCEPT ![s] = None]
    /\ UNCHANGED <<rows, status, busy, clock, history, deletions>>

-----------------------------------------------------------------------------
(* unmerge_core.                                                           *)

\* ORDER BY created_at DESC LIMIT 1 over the loser's merges: with equal
\* timestamps any of them.
LatestMerge(l, m) ==
    /\ m \in audit /\ m.loser = l
    /\ \A n \in audit : n.loser = l => n.at <= m.at

\* Wrong: merges are undone in any order.
AnyOrder(m) == {}

\* A later merge into the same survivor must be undone first.
NewerMerges(m) == {n \in audit : n.winner = m.winner /\ n.at > m.at}

\* Wrong: the targets stay where the merge left them.
SourcesBack(m) ==
    {[e EXCEPT !.src = IF e.id \in m.undo.sources /\ @ = m.winner
                         THEN m.loser ELSE @] : e \in edges}

\* 4. Edges whose side the journal moved go back, if still on the winner.
MovedBack(m) ==
    {[e EXCEPT !.src = IF e.id \in m.undo.sources /\ @ = m.winner
                         THEN m.loser ELSE @,
               !.tgt = IF e.id \in m.undo.targets /\ @ = m.winner
                         THEN m.loser ELSE @] : e \in edges}

\* ... and deleted ones are inserted again, ON CONFLICT DO NOTHING.
Reinserted(m) ==
    {d \in m.undo.deleted :
        \A e \in MovedBack(m) : e.id # d.id /\ Key(e) # Key(d)}

\* The repointing UPDATEs fail on a self-loop or a duplicate.
ConstraintsHold(m) ==
    /\ \A e \in MovedBack(m) : e.src # e.tgt
    /\ \A e, k \in MovedBack(m) : Key(e) = Key(k) => e = k

\* Wrong: not checked that the merge is still the live state.
NewestFirst(m) == NewerMerges(m) = {} /\ ConstraintsHold(m)

CanUnmerge(m) ==
    /\ Live(m.winner)
    /\ mergedInto[m.loser] = m.winner
    /\ NewerMerges(m) = {}
    /\ ConstraintsHold(m)

UnmergeCore(m) ==
    /\ CanUnmerge(m)
    /\ mergedInto' = [x \in Entity |->
          IF x = m.loser THEN None
          ELSE IF x \in m.undo.descendants /\ mergedInto[x] = m.winner
                 THEN m.loser ELSE mergedInto[x]]
    /\ aliases' = [aliases EXCEPT
          ![m.winner] = @ \ m.undo.aliasesAdded,
          ![m.loser]  = @ \cup m.undo.loserAliases]
    /\ subject' = [u \in Unit |->
          IF u \in m.undo.units /\ subject[u] = m.winner
            THEN m.loser ELSE subject[u]]
    /\ edges' = MovedBack(m) \cup Reinserted(m)
    /\ audit' = audit \ {m}

\* unmerge_entity: a person's split also dismisses the pair.
Split(l) ==
    /\ busy = None
    /\ \E m \in audit :
          /\ LatestMerge(l, m)
          /\ UnmergeCore(m)
    /\ UNCHANGED <<status, request, busy, clock, history, deletions>>

\* unmerge_for_supersession_in, for the newest automatic merges of a head.
WithdrawMerge(l) ==
    /\ busy = None
    /\ \E m \in audit :
          /\ LatestMerge(l, m)
          /\ m.actor = Worker
          /\ UnmergeCore(m)
    /\ UNCHANGED <<status, request, busy, clock, history, deletions>>

-----------------------------------------------------------------------------
(* The other writers of these rows.                                        *)

\* Another live entity answers to the name.
Taken(x, n) ==
    \E y \in Entity \ {x} : Live(y) /\ (n = y \/ n \in aliases[y])

\* add_alias: only for a live entity, and only a name that is free.
AddAlias(x, n) ==
    /\ busy = None
    /\ Live(x)
    /\ ~Taken(x, n)
    /\ aliases' = [aliases EXCEPT ![x] = @ \cup {n}]
    /\ UNCHANGED <<mergedInto, status, subject, edges, audit, request, busy,
                   clock, history, deletions>>

EndPoints == [src : Entity, tgt : Entity]

\* Wrong: a name's entity as it was found, without locking its row.
AsFound(x) == TRUE

\* resolve_or_create_entity: the row is re-read under FOR SHARE, and no merge
\* can retire it before this transaction commits.
Resolved(x) == Live(x)

\* persist_chunk_units, one new unit, from names that resolve to entities.
Extract(u, x, ends) ==
    /\ busy = None
    /\ status[u] = None
    /\ Resolved(x)
    /\ \A i \in DOMAIN ends :
          /\ UnitOf[i] = u
          /\ ends[i].src # ends[i].tgt
          /\ Resolved(ends[i].src) /\ Resolved(ends[i].tgt)
    /\ \A i, j \in DOMAIN ends :
          LabelOf[i] = LabelOf[j] /\ ends[i] = ends[j] => i = j
    /\ status'  = [status EXCEPT ![u] = "active"]
    /\ subject' = [subject EXCEPT ![u] = x]
    /\ about'   = [about EXCEPT ![u] = x]
    /\ edges' = edges \cup {[id |-> i, src |-> ends[i].src, tgt |-> ends[i].tgt,
                             status |-> "active"] : i \in DOMAIN ends}
    /\ asserted' = [i \in Edge |-> IF i \in DOMAIN ends THEN ends[i] ELSE asserted[i]]
    /\ UNCHANGED <<mergedInto, aliases, audit, request, busy, clock,
                   deletions>>

\* reject_unit_core and restore_unit_core, as far as they touch the graph.
SetUnitStatus(u, from, to) ==
    /\ busy = None
    /\ status[u] = from
    /\ status' = [status EXCEPT ![u] = to]
    /\ edges' = {IF UnitOf[e.id] = u /\ e.status = from
                   THEN [e EXCEPT !.status = to] ELSE e : e \in edges}
    /\ UNCHANGED <<mergedInto, aliases, subject, audit, request,
                   busy, clock, history, deletions>>

Reject(u)  == SetUnitStatus(u, "active", "retracted")
Restore(u) == SetUnitStatus(u, "retracted", "active")

-----------------------------------------------------------------------------
Next ==
    \/ \E s \in Person : OpenManual(s)
    \/ OpenGroup
    \/ \E s \in Session : MergeNext(s) \/ Refuse(s)
    \/ \E l \in Entity : Split(l) \/ WithdrawMerge(l)
    \/ \E x \in Entity, n \in Nickname : AddAlias(x, n)
    \/ \E u \in Unit, x \in Entity :
          \E I \in SUBSET {i \in Edge : UnitOf[i] = u} :
             \E ends \in [I -> EndPoints] : Extract(u, x, ends)
    \/ \E u \in Unit : Reject(u) \/ Restore(u)

Spec == Init /\ [][Next]_vars

\* The clustering worker is off (GATHER_CLUSTER_ENABLED=false): people only.
PeopleNext ==
    \/ \E s \in Person : OpenManual(s) \/ MergeNext(s) \/ Refuse(s)
    \/ \E l \in Entity : Split(l)
    \/ \E x \in Entity, n \in Nickname : AddAlias(x, n)
    \/ \E u \in Unit, x \in Entity :
          \E I \in SUBSET {i \in Edge : UnitOf[i] = u} :
             \E ends \in [I -> EndPoints] : Extract(u, x, ends)
    \/ \E u \in Unit : Reject(u) \/ Restore(u)

PeopleSpec == Init /\ [][PeopleNext]_vars

-----------------------------------------------------------------------------
(* Properties.                                                             *)

\* Every row has its columns, every journal names existing rows, and a request
\* being carried out never runs out of the ids it was opened with.
TypeOK ==
    /\ mergedInto \in [Entity -> Entity \cup {None}]
    /\ aliases \in [Entity -> SUBSET Name]
    /\ status \in [Unit -> {None, "active", "retracted"}]
    /\ subject \in [Unit -> Entity \cup {None}]
    /\ edges \subseteq EdgeRow
    /\ audit \subseteq MergeRow
    /\ request \in [Session -> Request \cup {None}]
    /\ busy \in Session \cup {None}
    /\ clock \in 0..MaxRequests
    /\ about \in [Unit -> Entity \cup {None}]
    /\ asserted \in [Edge -> EndPoints \cup {None}]
    /\ dropped \subseteq Edge /\ doubled \subseteq Edge

\* "Keeping depth at exactly one means resolve_head is always one hop": the
\* entity another one is merged into is live, through merges of entities that
\* have absorbed others and splits that hand their own back.
OneLevelDeep == \A x \in Entity : ~Live(x) => Live(mergedInto[x])

\* The journal rows still live and the merge pointers tell the same story: an
\* entity is merged away iff exactly one live row says so, and both entities
\* of a live row lead to the same head.
AuditMatchesPointers ==
    /\ \A x \in Entity : Live(x) <=> \A m \in audit : m.loser # x
    /\ \A m, n \in audit : m.loser = n.loser => m = n
    /\ \A m \in audit : HeadOf(m.loser) = HeadOf(m.winner)

\* What a live row calls the loser's descendants is what still sits below it:
\* the entities a split has to take back along with the loser.
DescendantsAreBelow ==
    \A m, n \in audit :
       n.loser \in m.undo.descendants
          <=> n.winner \in m.undo.descendants \cup {m.loser}

\* A split hands back whole branches: the descendants of a live row are still
\* merged away under the loser's head, and for two rows, neither below the
\* other, the journal of one has all of the other's descendants or none.
BranchesStayWhole ==
    /\ \A m \in audit : \A x \in m.undo.descendants :
          ~Live(x) /\ HeadOf(x) = HeadOf(m.loser)
    /\ \A m, n \in audit :
          m # n /\ m.loser \notin n.undo.descendants =>
             \A x \in n.undo.descendants :
                x \in m.undo.descendants <=> n.loser \in m.undo.descendants

\* No request asks to merge an entity into itself.
RequestsAreProper ==
    \A s \in Session : request[s] # None =>
                           request[s].winner \notin request[s].losers

\* Pointers, audit rows and journals tell one story, through any merges, splits
\* and undoings by people and the worker: resolve_head is one hop, and a split
\* hands back whole branches (merge_entities_in, unmerge_core).  The parts are
\* inductive together and not one by one.
Lineage == /\ OneLevelDeep
           /\ AuditMatchesPointers
           /\ DescendantsAreBelow
           /\ BranchesStayWhole
           /\ RequestsAreProper

Answers(n) == {x \in Entity : Live(x) /\ (n = x \/ n \in aliases[x])}

\* lookup_entity takes the first row it finds (LIMIT 1, no ORDER BY), so a name
\* must have one answer.  An entity's own name leads to its head, whatever has
\* been merged and split since.
NamesLeadToHeads == \A x \in Entity : Answers(x) = {HeadOf(x)}

\* A nickname leads to one live entity at most, although nicknames are added
\* before, between and after the merges and splits that move them around.
NicknamesAreUnambiguous ==
    \A n \in Nickname : \A x, y \in Answers(n) : x = y

\* Whatever is merged, split and nicknamed, a name has one answer
\* (merge_entities_in hands aliases over, add_alias refuses taken ones).
NamesHaveOneAnswer == NamesLeadToHeads /\ NicknamesAreUnambiguous

\* A unit describes the head of the entity it was extracted about.
SubjectsFollowHeads ==
    \A u \in Unit : status[u] # None => subject[u] = HeadOf(about[u])

\* A split hands back the units that were extracted about what it hands back,
\* those of the loser and of everything below it, and no others.
UnitsComeBack ==
    \A m \in audit : \A u \in Unit :
       u \in m.undo.units
          <=> /\ status[u] # None
              /\ about[u] \in m.undo.descendants \cup {m.loser}

\* Merges, splits and withdrawals take a unit wherever its entity goes, also one
\* extracted while the merge was pending (merge_entities_in, unmerge_core).
UnitsFollowHeads == SubjectsFollowHeads /\ UnitsComeBack

OnHeads(e) == /\ e.src = HeadOf(asserted[e.id].src)
              /\ e.tgt = HeadOf(asserted[e.id].tgt)

\* An edge hangs on the heads of the entities it was extracted with.
EdgesFollowHeads == \A e \in edges : OnHeads(e)

\* The same, for the edges no merge had to delete: repointing and its undo.
KeptEdgesFollowHeads == \A e \in edges : e.id \notin dropped => OnHeads(e)

\* As long as one person's merges are all there is, an edge that a merge deleted
\* as a self-loop comes back where it belongs.  One deleted as a duplicate need
\* not: its other end may have been merged away while it was gone.
LoopsFollowHeads == \A e \in edges : e.id \notin doubled => OnHeads(e)

\* An edge a merge deleted can come back: it is in the journal of a live merge,
\* or the same assertion is still in the graph.
NoEdgeLost ==
    \A i \in Edge : asserted[i] # None =>
       \/ \E e \in edges : e.id = i \/ LabelOf[e.id] = LabelOf[i]
       \/ \E m \in audit : \E d \in m.undo.deleted : d.id = i
-----------------------------------------------------------------------------
\* Merging and unmerging join and part groups of entities (EntityGroups): two
\* entities have one head exactly if a chain of merges not undone leads from one
\* to the other, so that an undo parts what its merge joined and nothing else.
EntityGroups == INSTANCE EntityGroups WITH
    links <- {{m.winner, m.loser} : m \in audit},
    group <- [x \in Entity |-> {y \in Entity : HeadOf(y) = HeadOf(x)}]

MergesMakeGroups == EntityGroups!GroupsSpec
=============================================================================
