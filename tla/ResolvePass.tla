----------------------------- MODULE ResolvePass -----------------------------
(***************************************************************************)
(* The entity resolution pass of the clustering worker                     *)
(* (daemon/src/cluster/resolve.rs, planned by daemon/src/safety/           *)
(* identity.rs) running beside people who merge, split and dismiss.        *)
(*                                                                         *)
(* A pass reads the records, then the evidence and the dismissed pairs,    *)
(* and plans the groups; it withdraws automatic merges the plan no longer  *)
(* supports, one transaction each; and it merges each planned group, one   *)
(* transaction each.  Nothing is locked between those steps.               *)
(*                                                                         *)
(* Which pairs have the Auto verdict (names, embeddings, thresholds, kinds,  *)
(* context, generic names, hubs) is the environment's choice at each pass. *)
(***************************************************************************)
EXTENDS EntityMerge, Sequences

CONSTANTS
    SurvivorKey,  \* (kind, name length, id) of an entity, as one number
    MaxPasses     \* bound on the passes of a behaviour

ASSUME SurvivorAssumption ==
    /\ SurvivorKey \in [Entity -> Nat]
    /\ \A x, y \in Entity : SurvivorKey[x] = SurvivorKey[y] => x = y

ASSUME PassAssumption == MaxPasses \in Nat

\* The pass reads all of the entities table, and counts.
ASSUME TableAssumption == IsFiniteSet(Entity)

VARIABLES
    cannotLink,  \* entity_merge_audit rows of action 'dismiss', as pairs
    pc,          \* where the pass is
    records,     \* the EntityRecords it read: head and link of each entity
    plan,        \* the groups of base records it planned
    behind,      \* automatic merges the plan no longer supports, not yet tried
    listed,      \* the losers it read for one head, newest merge first
    wanted,      \* the losers of that head it has to withdraw
    left,        \* planned groups not yet applied
    parked,      \* losers parked as 'withdraw-merge' by this pass
    passes,      \* number of passes started
    standing,    \* history: the live merges when the pass read the records
    calm         \* history: no person has done anything since then

passVars == <<pc, records, plan, behind, listed, wanted, left, parked, passes,
              standing>>
allVars == <<vars, cannotLink, passVars, calm>>

Link(x) == IF Live(x) THEN "Root"
           ELSE IF \E m \in audit : LatestMerge(x, m) /\ m.actor = Worker
                  THEN "Auto" ELSE "User"

Record == [head : Entity, link : {"Root", "Auto", "User"}]

Pairs(S) == {p \in SUBSET S : Cardinality(p) = 2}

ResolveInit ==
    /\ Init
    /\ cannotLink = {}
    /\ pc = "idle"
    /\ records = [x \in Entity |-> [head |-> x, link |-> "Root"]]
    /\ plan = {} /\ behind = {} /\ listed = <<>> /\ wanted = {} /\ left = {}
    /\ parked = {}
    /\ passes = 0 /\ standing = {}
    /\ calm = TRUE

-----------------------------------------------------------------------------
(* identity.rs: the plan.                                                  *)

\* A person's merge fixes membership; everything else stands on its own.
UnitOfRecord(x) == IF records[x].link = "User" THEN records[x].head ELSE x

CannotUnits == {{UnitOfRecord(x) : x \in p} : p \in cannotLink}

\* Wrong: what a person has rejected is not looked at.
CrossPairs(evidence) ==
    {p \in evidence : Cardinality({UnitOfRecord(x) : x \in p}) = 2}

\* Auto verdicts: across units, and not over a person's rejection.
AutoPairs(evidence) ==
    {p \in evidence : LET units == {UnitOfRecord(x) : x \in p}
                      IN  Cardinality(units) = 2 /\ units \notin CannotUnits}

\* A component of the Auto pairs merges iff every pair of it that crosses two
\* units has its own Auto verdict.
CompleteGroups(evidence) ==
    LET auto == AutoPairs(evidence)
    IN  {g \in SUBSET Entity :
           /\ Cardinality({UnitOfRecord(x) : x \in g}) >= 2
           /\ \A x \in g, y \in Entity :
                 UnitOfRecord(x) = UnitOfRecord(y) => y \in g
           /\ \A x, y \in g : UnitOfRecord(x) # UnitOfRecord(y) => {x, y} \in auto
           /\ \A p \in auto : p \cap g # {} => p \subseteq g}

\* choose_survivor: a total order over the candidate heads.
Survivor(heads) ==
    CHOOSE w \in heads : \A x \in heads : SurvivorKey[x] <= SurvivorKey[w]

\* Wrong: what was merged stays merged.
NothingBehind(groups) == {}

\* Automatic merges no planned group contains any more.
Behind(groups) ==
    {x \in Entity : /\ records[x].link = "Auto"
                    /\ ~ \E g \in groups : x \in g /\ records[x].head \in g}

\* simulate_apply: the plan applied to the records in memory.
SimulatedHead(x) ==
    LET headNow(y) == IF y \in Behind(plan) THEN y ELSE records[y].head
    IN  IF \E g \in plan : x \in g
          THEN Survivor({headNow(y) : y \in CHOOSE g \in plan : x \in g})
          ELSE headNow(x)

-----------------------------------------------------------------------------
(* The pass.                                                               *)

\* load_records.
ReadRecords ==
    /\ pc \in {"idle", "done"}
    /\ busy = None
    /\ passes < MaxPasses
    /\ pc' = "plan"
    /\ passes' = passes + 1
    /\ records' = [x \in Entity |-> [head |-> HeadOf(x), link |-> Link(x)]]
    /\ plan' = {} /\ left' = {} /\ parked' = {}
    /\ standing' = audit
    /\ calm' = TRUE
    /\ UNCHANGED <<vars, cannotLink, behind, listed, wanted>>

\* load_evidence, load_cannot_links, plan; and what detach will have to do.
\* A complete group without a source, or over the size limit, is not merged.
MakePlan ==
    /\ pc = "plan"
    /\ busy = None
    /\ \E evidence \in SUBSET Pairs(Entity) :
          plan' \in SUBSET CompleteGroups(evidence)
    /\ left' = plan'
    /\ behind' = Behind(plan')
    /\ pc' = "detach"
    /\ UNCHANGED <<vars, cannotLink, records, listed, wanted, parked, passes,
                   standing, calm>>

\* Wrong: does not stop at a person's merge.
AllListings(h) ==
    LET merges == {m \in audit : m.winner = h}
        orders == {row \in [1..Cardinality(merges) -> merges] :
                     \A i, j \in DOMAIN row :
                        i < j => row[i] # row[j] /\ row[i].at >= row[j].at}
    IN  {[i \in DOMAIN row |-> row[i].loser] : row \in orders}

\* The live merges of a head, newest first, up to the first one a person made;
\* merges of one transaction have equal timestamps and come in any order.
Listings(h) ==
    LET merges == {m \in audit : m.winner = h}
        upTo   == {m \in merges :
                     \A n \in merges : n.at >= m.at => n.actor = Worker}
        orders == {row \in [1..Cardinality(upTo) -> upTo] :
                     \A i, j \in DOMAIN row :
                        i < j => row[i] # row[j] /\ row[i].at >= row[j].at}
    IN  {[i \in DOMAIN row |-> row[i].loser] : row \in orders}

\* detach, the next head in id order: its list is read once, outside any of
\* the transactions that follow.
DetachHead ==
    /\ pc = "detach"
    /\ busy = None
    /\ behind # {}
    /\ LET h == CHOOSE y \in {records[x].head : x \in behind} :
                   \A x \in behind : y <= records[x].head
       IN  /\ wanted' = {x \in behind : records[x].head = h}
           /\ behind' = {x \in behind : records[x].head # h}
           /\ listed' \in Listings(h)
    /\ pc' = "unwind"
    /\ UNCHANGED <<vars, cannotLink, records, plan, left, parked, passes,
                   standing, calm>>

\* The latest merge of the next loser on the list, whoever made it, if
\* unmerge_core would not refuse.
Undoable == {m \in audit : /\ wanted # {} /\ listed # <<>>
                           /\ LatestMerge(Head(listed), m)
                           /\ CanUnmerge(m)}

\* One listed merge, in its own transaction.
Unwind ==
    /\ pc = "unwind"
    /\ busy = None
    /\ \E m \in Undoable : UnmergeCore(m) /\ wanted' = wanted \ {m.loser}
    /\ listed' = Tail(listed)
    /\ UNCHANGED <<status, request, busy, clock, history, deletions, cannotLink,
                   pc, records, plan, behind, left, parked, passes, standing,
                   calm>>

\* Nothing left to do or the undo was refused: the rest goes to the tray.
EndUnwind ==
    /\ pc = "unwind"
    /\ busy = None
    /\ Undoable = {}
    /\ parked' = parked \cup wanted
    /\ wanted' = {} /\ listed' = <<>>
    /\ pc' = "detach"
    /\ UNCHANGED <<vars, cannotLink, records, plan, behind, left, passes,
                   standing, calm>>

EndDetach ==
    /\ pc = "detach"
    /\ behind = {}
    /\ pc' = "merge"
    /\ UNCHANGED <<vars, cannotLink, records, plan, behind, listed, wanted, left,
                   parked, passes, standing, calm>>

\* Wrong: the heads as they were before the pass detached anything.
RecordedHeads(g) == {records[x].head : x \in g}

GroupHeads(g) == {HeadOf(x) : x \in g}

\* A member's head is outside the group, or the group is one entity already.
SkipGroup ==
    /\ pc = "merge"
    /\ busy = None /\ request[Worker] = None
    /\ \E g \in left :
          /\ ~(GroupHeads(g) \subseteq g) \/ Cardinality(GroupHeads(g)) < 2
          /\ left' = left \ {g}
    /\ UNCHANGED <<vars, cannotLink, pc, records, plan, behind, listed, wanted,
                   parked, passes, standing, calm>>

\* Heads are read, the survivor chosen, the cluster row inserted and only then
\* the transaction opened.
OpenPlanned ==
    /\ pc = "merge"
    /\ busy = None
    /\ \E g \in left :
          LET heads == GroupHeads(g)
              w == Survivor(heads)
          IN  /\ heads \subseteq g
              /\ Open(Worker, w, heads \ {w})
              /\ left' = left \ {g}
    /\ UNCHANGED <<cannotLink, pc, records, plan, behind, listed, wanted, parked,
                   passes, standing, calm>>

MergePlanned ==
    /\ pc = "merge"
    /\ MergeNext(Worker)
    /\ UNCHANGED <<cannotLink, passVars, calm>>

\* A head was merged away meanwhile: the error ends the pass.
AbortPass ==
    /\ pc = "merge"
    /\ Refuse(Worker)
    /\ pc' = "idle"
    /\ left' = {}
    /\ UNCHANGED <<cannotLink, records, plan, behind, listed, wanted, parked,
                   passes, standing, calm>>

Finish ==
    /\ pc = "merge"
    /\ left = {} /\ request[Worker] = None
    /\ pc' = "done"
    /\ UNCHANGED <<vars, cannotLink, records, plan, behind, listed, wanted, left,
                   parked, passes, standing, calm>>

Pass == \/ ReadRecords \/ MakePlan \/ DetachHead \/ Unwind \/ EndUnwind
        \/ EndDetach \/ SkipGroup \/ OpenPlanned \/ MergePlanned \/ AbortPass
        \/ Finish

-----------------------------------------------------------------------------
(* People.                                                                 *)

AskMerge(s) == OpenManual(s) /\ UNCHANGED <<cannotLink, passVars, calm>>

MergeByHand(s) == /\ MergeNext(s)
                  /\ calm' = FALSE
                  /\ UNCHANGED <<cannotLink, passVars>>

RefuseByHand(s) == Refuse(s) /\ UNCHANGED <<cannotLink, passVars, calm>>

\* unmerge_entity_in also dismisses the pair: winner and loser of the merge.
SplitByHand(l) ==
    /\ Split(l)
    /\ \E m \in audit \ audit' :
          cannotLink' = cannotLink \cup {{m.winner, l}}
    /\ calm' = FALSE
    /\ UNCHANGED passVars

\* dismiss_suggestion: "these are different".
Dismiss(a, b) ==
    /\ busy = None
    /\ a # b
    /\ cannotLink' = cannotLink \cup {{a, b}}
    /\ calm' = FALSE
    /\ UNCHANGED <<vars, passVars>>

People == \/ \E s \in Person : AskMerge(s) \/ MergeByHand(s) \/ RefuseByHand(s)
          \/ \E l \in Entity : SplitByHand(l)
          \/ \E a, b \in Entity : Dismiss(a, b)

ResolveNext == Pass \/ People
ResolveSpec == ResolveInit /\ [][ResolveNext]_allVars

-----------------------------------------------------------------------------
(* Properties.                                                             *)

\* A pass works on the groups it planned and on pairs of two entities.
ResolveTypeOK ==
    /\ TypeOK
    /\ cannotLink \subseteq Pairs(Entity)
    /\ pc \in {"idle", "plan", "detach", "unwind", "merge", "done"}
    /\ records \in [Entity -> Record]
    /\ plan \subseteq SUBSET Entity /\ left \subseteq plan
    /\ behind \subseteq Entity /\ wanted \subseteq Entity
    /\ parked \subseteq Entity
    /\ listed \in Seq(Entity)
    /\ passes \in 0..MaxPasses /\ standing \subseteq MergeRow
    /\ calm \in BOOLEAN

AsPlanned == \A x, y \in Entity :
                HeadOf(x) = HeadOf(y) <=> SimulatedHead(x) = SimulatedHead(y)

\* Every entity the pass found merged away was merged straight into its head,
\* not into one that was merged on later.
Flat == \A m \in standing : m.winner = records[m.loser].head

\* simulate_apply works "exactly as the clustering worker applies it to the
\* database": a pass nobody disturbs, over flat records, leaves the partition
\* it computes, or reports what it could not do.
FlatPassEndsAsPlanned ==
    pc = "done" /\ calm /\ Flat /\ parked = {} => AsPlanned

\* Where a person put an entity: the winner of the live merge a person made of
\* it, by hand or accepting a suggestion.  In flat records there is one.
PersonHead(x) ==
    LET up == {m \in audit : m.loser = x /\ m.actor \in Person}
    IN  IF up = {} THEN x ELSE (CHOOSE m \in up : TRUE).winner

\* The effect of dismissing a pair lasts: after an undisturbed pass over flat
\* records it is apart, unless a person joined it or the pass has reported one
\* of the two as a merge it could not undo.
DifferentStayApart ==
    pc = "done" /\ calm /\ Flat =>
       \A p \in cannotLink : \A x, y \in p :
          \/ HeadOf(x) # HeadOf(y)
          \/ PersonHead(x) = PersonHead(y)
          \/ {x, y} \cap parked # {}

\* Whatever people do beside it, a pass keeps to its types and to what people
\* have told apart (entity_resolution_pass).
ResolveIsSound == ResolveTypeOK /\ DifferentStayApart

Joins(x, y) == HeadOf(x) # HeadOf(y) /\ HeadOf(x)' = HeadOf(y)'

AutoMergeStep == \E m \in audit' \ audit : m.actor = Worker

\* "A pair you marked as different, or split, is never merged automatically":
\* no step of an undisturbed pass over flat records brings a dismissed pair
\* together (entity_resolution_pass).  It can: an automatic merge that cannot be
\* undone under a person's later one follows its head wherever that is merged.
PlannedNeverJoinsDifferent ==
    [][AutoMergeStep /\ calm /\ Flat =>
         \A p \in cannotLink : \A x, y \in p : ~Joins(x, y)]_allVars

\* What the pass does keep to: the merges it makes bring a dismissed pair
\* together only along with an entity it has reported as one it could not
\* withdraw from its head.
OnlyReportedJoinDifferent ==
    [][AutoMergeStep /\ calm /\ Flat =>
         \A p \in cannotLink : \A x, y \in p :
            Joins(x, y) => {x, y} \cap parked # {}]_allVars

UndoneByWorker(m) == m \in audit \ audit' /\ listed' # listed

\* "A person's merge is never undone", if it was made before the pass read the
\* records.
EarlierMergesStand ==
    [][\A m \in audit : UndoneByWorker(m) /\ m.actor \in Person
                           => m \notin standing]_allVars

\* A pass heeds what people decided: the merges they made stand, and the pairs
\* they dismissed stay apart but for what it reports.
DecisionsStand == EarlierMergesStand /\ OnlyReportedJoinDifferent
=============================================================================
