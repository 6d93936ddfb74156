-------------------------- MODULE ResolvePassProofs --------------------------
(***************************************************************************)
(* What holds of the resolution pass for any number of entities, people    *)
(* and passes.                                                             *)
(*                                                                         *)
(* A pass only merges and unmerges, so everything proved of EntityMerge    *)
(* holds beside it.  A loser on its list was merged by the worker unless   *)
(* somebody merged it anew.  While nobody disturbs it, what hangs on a     *)
(* member of a planned group is in the group, except for the merges it has *)
(* not undone yet or has parked: so two entities come together only if     *)
(* they are of one group, and no group holds a pair that was told apart.   *)
(***************************************************************************)
EXTENDS ResolvePass, EntityMergeProofs, WellFoundedInduction, FiniteSetTheorems

-----------------------------------------------------------------------------
(* The pass is made of merges.                                             *)

\* choose_survivor finds one of the heads: those better than a head shrink with
\* every better head.
LEMMA SurvivorIsAHead ==
    ASSUME NEW heads \in SUBSET Entity, heads # {}
    PROVE  Survivor(heads) \in heads
<1> DEFINE Better(x) == {y \in heads : SurvivorKey[y] > SurvivorKey[x]}
           T == {Better(x) : x \in heads}
<1>1. FiniteSubsetsOf(Entity) = SUBSET Entity
  BY TableAssumption, FS_FiniteSubsetsOfFinite
<1>2. T \subseteq SUBSET Entity /\ T # {}
  OBVIOUS
<1>3. IsWellFoundedOn(StrictSubsetOrdering(Entity), SUBSET Entity)
  BY <1>1, FS_StrictSubsetOrderingWellFounded
<1> HIDE DEF T
<1>4. PICK B \in T : \A C \in T : ~(<<C, B>> \in StrictSubsetOrdering(Entity))
  BY <1>2, <1>3, WFMin
<1>5. PICK w \in heads : B = Better(w)
  BY <1>4 DEF T
<1>6. \A x \in heads : SurvivorKey[x] <= SurvivorKey[w]
  <2> SUFFICES ASSUME NEW x \in heads, SurvivorKey[x] > SurvivorKey[w]
               PROVE  FALSE
    BY SurvivorAssumption
  <2>1. Better(x) \subseteq Better(w)
    BY SurvivorAssumption
  <2>2. x \in Better(w) /\ x \notin Better(x)
    BY SurvivorAssumption
  <2>3. Better(x) \in T
    BY DEF T
  <2>4. <<Better(x), Better(w)>> \in StrictSubsetOrdering(Entity)
    BY <2>1, <2>2 DEF StrictSubsetOrdering
  <2> QED
    BY <1>4, <1>5, <2>3, <2>4
<1> QED
  BY <1>6 DEF Survivor
\* Opening a planned group asks for a merge of entities of the group.
LEMMA OpenPlannedOpens ==
    ASSUME ResolveTypeOK, OpenPlanned
    PROVE  \E g \in left, w \in Entity : \E losers \in SUBSET Entity :
              /\ Open(Worker, w, losers)
              /\ {w} \cup losers \subseteq g
              /\ {w} \cup losers = GroupHeads(g)
              /\ w \notin losers
              /\ left' = left \ {g}
<1>1. PICK g \in left :
         LET heads == GroupHeads(g)
             w == Survivor(heads)
         IN  /\ heads \subseteq g
             /\ Open(Worker, w, heads \ {w})
             /\ left' = left \ {g}
  BY DEF OpenPlanned
<1> DEFINE heads == GroupHeads(g)
           w == Survivor(heads)
<1>2. g \subseteq Entity /\ heads \subseteq g /\ heads \ {w} # {}
  BY <1>1 DEF ResolveTypeOK, Open
<1>3. w \in heads
  BY <1>2, SurvivorIsAHead
<1>4. {w} \cup (heads \ {w}) = heads
  BY <1>3
<1> HIDE DEF heads, w
<1> QED
  BY <1>1, <1>2, <1>3, <1>4 DEF heads, w

\* Whatever the pass and people do is a step of EntityMerge, or none.
LEMMA StepIsMerge ==
    ASSUME ResolveTypeOK, [ResolveNext]_allVars
    PROVE  [Next]_vars
<1>1. CASE OpenPlanned
  BY <1>1, OpenPlannedOpens DEF Next, OpenGroup
<1>2. CASE MergePlanned \/ AbortPass
  BY <1>2 DEF MergePlanned, AbortPass, Next, Session
<1>3. CASE Unwind
  <2>1. PICK m \in Undoable : UnmergeCore(m) /\ wanted' = wanted \ {m.loser}
    BY <1>3 DEF Unwind
  <2>2. m \in audit /\ m.loser \in Entity /\ LatestMerge(m.loser, m)
    BY <2>1 DEF Undoable, ResolveTypeOK, TypeOK, MergeRow, LatestMerge
  <2>3. Split(m.loser)
    BY <1>3, <2>1, <2>2 DEF Unwind, Split
  <2> QED
    BY <2>2, <2>3 DEF Next
<1>4. CASE People
  BY <1>4 DEF People, AskMerge, MergeByHand, RefuseByHand, SplitByHand, Dismiss,
              Next, Session
<1>5. CASE \/ ReadRecords \/ MakePlan \/ DetachHead \/ EndUnwind \/ EndDetach
           \/ SkipGroup \/ Finish \/ UNCHANGED allVars
  BY <1>5 DEF ReadRecords, MakePlan, DetachHead, EndUnwind, EndDetach, SkipGroup,
              Finish, allVars
<1> QED
  BY <1>1, <1>2, <1>3, <1>4, <1>5 DEF ResolveNext, Pass

-----------------------------------------------------------------------------
(* Types.                                                                  *)

LEMMA PairType ==
    ASSUME NEW a \in Entity, NEW b \in Entity, a # b
    PROVE  {a, b} \in Pairs(Entity)
<1>1. IsFiniteSet({a}) /\ Cardinality({a}) = 1
  BY FS_Singleton
<1>2. Cardinality({a} \cup {b}) = 2
  BY <1>1, FS_AddElement
<1>3. {a} \cup {b} = {a, b}
  OBVIOUS
<1> QED
  BY <1>2, <1>3 DEF Pairs

LEMMA RecordType ==
    ASSUME TypeOK, Lineage
    PROVE  [x \in Entity |-> [head |-> HeadOf(x), link |-> Link(x)]]
              \in [Entity -> Record]
<1>1. \A x \in Entity : HeadOf(x) \in Entity
  BY HeadType DEF Lineage
<1>2. \A x \in Entity : Link(x) \in {"Root", "Auto", "User"}
  BY DEF Link
<1> QED
  BY <1>1, <1>2 DEF Record

\* A head's list: losers of live merges the worker made into it.
LEMMA ListingType ==
    ASSUME TypeOK, IsFiniteSet(audit), NEW h, NEW row \in Listings(h)
    PROVE  /\ row \in Seq(Entity)
           /\ \A i \in DOMAIN row : \E m \in audit :
                 m.loser = row[i] /\ m.winner = h /\ m.actor = Worker
<1> DEFINE merges == {m \in audit : m.winner = h}
           upTo   == {m \in merges :
                        \A n \in merges : n.at >= m.at => n.actor = Worker}
<1>1. PICK order \in [1..Cardinality(upTo) -> upTo] :
         row = [i \in DOMAIN order |-> order[i].loser]
  BY DEF Listings
<1>2. Cardinality(upTo) \in Nat
  BY FS_Subset, FS_CardinalityType
<1>3. \A m \in upTo : /\ m \in audit /\ m.loser \in Entity
                      /\ m.winner = h /\ m.actor = Worker
  BY DEF TypeOK, MergeRow
<1> HIDE DEF upTo
<1>4. row \in [1..Cardinality(upTo) -> Entity]
  BY <1>1, <1>3
<1> QED
  BY <1>1, <1>2, <1>3, <1>4

\* The merge rows are counted when a list is made: there are finitely many.
PassTypeOK == ResolveTypeOK /\ Lineage /\ IsFiniteSet(audit)

LEMMA FiniteAudit ==
    ASSUME TypeOK, Lineage, IsFiniteSet(audit), [Next]_vars
    PROVE  IsFiniteSet(audit')
<1>1. CASE \E s \in Session : MergeNext(s)
  <2>1. PICK w, l \in Entity, at \in 1..MaxRequests, s \in Session :
           MergeEntities(w, l, at, s)
    BY <1>1, MergeStep
  <2>2. PICK m : audit' = audit \cup {m}
    BY <2>1 DEF MergeEntities
  <2> QED
    BY <2>2, FS_AddElement
<1>2. CASE \E l \in Entity : Split(l) \/ WithdrawMerge(l)
  BY <1>2, FS_RemoveElement DEF Split, WithdrawMerge, UnmergeCore
<1>3. CASE UNCHANGED audit
  BY <1>3
<1> QED
  BY <1>1, <1>2, <1>3
  DEF Next, OpenManual, OpenGroup, Open, Refuse, AddAlias, Extract, SetUnitStatus,
      Reject, Restore, rows, vars
\* The pass's own variables, apart from the rows.
PassVarsOK ==
    /\ cannotLink \subseteq Pairs(Entity)
    /\ pc \in {"idle", "plan", "detach", "unwind", "merge", "done"}
    /\ records \in [Entity -> Record]
    /\ plan \subseteq SUBSET Entity /\ left \subseteq plan
    /\ behind \subseteq Entity /\ wanted \subseteq Entity
    /\ parked \subseteq Entity
    /\ listed \in Seq(Entity)
    /\ passes \in 0..MaxPasses /\ standing \subseteq MergeRow
    /\ calm \in BOOLEAN

LEMMA PassVarsStep ==
    ASSUME PassTypeOK, [ResolveNext]_allVars
    PROVE  PassVarsOK'
<1> USE DEF PassVarsOK
<1>0. /\ PassVarsOK /\ TypeOK /\ Lineage /\ IsFiniteSet(audit)
      /\ ResolveTypeOK
  BY DEF PassTypeOK, ResolveTypeOK
<1>1. CASE ReadRecords
  <2>1. records' \in [Entity -> Record]
    BY <1>0, <1>1, RecordType DEF ReadRecords
  <2>2. passes' \in 0..MaxPasses
    BY <1>0, <1>1, PassAssumption DEF ReadRecords
  <2> QED
    BY <1>0, <1>1, <2>1, <2>2 DEF ReadRecords, TypeOK
<1>2. CASE MakePlan
  <2>1. plan' \subseteq SUBSET Entity
    BY <1>2 DEF MakePlan, CompleteGroups
  <2>2. behind' \subseteq Entity
    BY <1>2 DEF MakePlan, Behind
  <2> QED
    BY <1>0, <1>2, <2>1, <2>2 DEF MakePlan
<1>3. CASE DetachHead
  <2>1. PICK h : listed' \in Listings(h)
    BY <1>3 DEF DetachHead
  <2>2. listed' \in Seq(Entity)
    BY <1>0, <2>1, ListingType
  <2>3. behind' \subseteq behind /\ wanted' \subseteq behind
    BY <1>3 DEF DetachHead
  <2> QED
    BY <1>0, <1>3, <2>2, <2>3 DEF DetachHead
<1>4. CASE Unwind
  <2>1. listed # <<>> /\ wanted' \subseteq wanted /\ listed' = Tail(listed)
    BY <1>4 DEF Unwind, Undoable
  <2>2. listed' \in Seq(Entity)
    BY <1>0, <2>1
  <2> QED
    BY <1>0, <1>4, <2>1, <2>2 DEF Unwind
<1>5. CASE EndUnwind
  <2>1. <<>> \in Seq(Entity)
    OBVIOUS
  <2> QED
    BY <1>0, <1>5, <2>1 DEF EndUnwind
<1>6. CASE EndDetach \/ SkipGroup \/ Finish \/ AbortPass
  BY <1>0, <1>6 DEF EndDetach, SkipGroup, Finish, AbortPass
<1>7. CASE OpenPlanned
  BY <1>0, <1>7 DEF OpenPlanned
<1>8. CASE MergePlanned
  BY <1>0, <1>8 DEF MergePlanned, passVars
<1>9. CASE \E s \in Person : AskMerge(s) \/ MergeByHand(s) \/ RefuseByHand(s)
  BY <1>0, <1>9 DEF AskMerge, MergeByHand, RefuseByHand, passVars
<1>10. CASE \E l \in Entity : SplitByHand(l)
  <2>1. PICK l \in Entity : SplitByHand(l)
    BY <1>10
  <2>2. PICK m \in audit \ audit' : cannotLink' = cannotLink \cup {{m.winner, l}}
    BY <2>1 DEF SplitByHand
  <2>3. PICK n \in audit : LatestMerge(l, n) /\ UnmergeCore(n)
    BY <2>1 DEF SplitByHand, Split
  <2>4. m = n /\ m.loser = l
    BY <2>2, <2>3 DEF UnmergeCore, LatestMerge
  <2>5. {m.winner, l} \in Pairs(Entity)
    BY <1>0, <2>3, <2>4, TopRow, RowType, PairType DEF UnmergeCore
  <2> QED
    BY <1>0, <2>1, <2>2, <2>5 DEF SplitByHand, passVars
<1>11. CASE \E a, b \in Entity : Dismiss(a, b)
  BY <1>0, <1>11, PairType DEF Dismiss, passVars
<1>12. CASE UNCHANGED allVars
  BY <1>0, <1>12 DEF allVars, passVars
<1> QED
  BY <1>1, <1>2, <1>3, <1>4, <1>5, <1>6, <1>7, <1>8, <1>9, <1>10, <1>11, <1>12
  DEF ResolveNext, Pass, People

LEMMA PassTypeStep ==
    ASSUME PassTypeOK, [ResolveNext]_allVars
    PROVE  PassTypeOK'
<1>1. [Next]_vars
  BY StepIsMerge DEF PassTypeOK
<1>2. TypeOK' /\ Lineage' /\ IsFiniteSet(audit')
  BY <1>1, NextType, NextLineage, FiniteAudit DEF PassTypeOK, ResolveTypeOK
<1>3. PassVarsOK'
  BY PassVarsStep
<1> QED
  BY <1>2, <1>3 DEF PassTypeOK, ResolveTypeOK, PassVarsOK

LEMMA PassTypeInit == ResolveInit => PassTypeOK
<1> SUFFICES ASSUME ResolveInit PROVE PassTypeOK
  OBVIOUS
<1>1. TypeOK /\ Lineage
  BY InitType, InitLineage DEF ResolveInit
<1>2. IsFiniteSet(audit)
  BY FS_EmptySet DEF ResolveInit, Init
<1>3. records \in [Entity -> Record]
  BY DEF ResolveInit, Record
<1>4. <<>> \in Seq(Entity) /\ 0 \in 0..MaxPasses
  BY PassAssumption
<1> QED
  BY <1>1, <1>2, <1>3, <1>4 DEF ResolveInit, PassTypeOK, ResolveTypeOK

LEMMA PassTypeInvariant == ResolveSpec => []PassTypeOK
BY PassTypeInit, PassTypeStep, PTL DEF ResolveSpec

\* A pass beside people does nothing to the rows that merges and splits do not:
\* what is proved of EntityMerge holds while it runs (entity_resolution_pass).
THEOREM PassIsMerges == ResolveSpec => Spec
<1>1. ResolveInit => Init
  BY DEF ResolveInit
<1>2. PassTypeOK /\ [ResolveNext]_allVars => [Next]_vars
  BY StepIsMerge DEF PassTypeOK
<1> QED
  BY <1>1, <1>2, PassTypeInvariant, PTL DEF ResolveSpec, Spec
-----------------------------------------------------------------------------
(* What the pass has read.                                                 *)

\* What is read once and not yet worked off belongs to one phase of the pass.
PhasesAreClean ==
    /\ pc # "unwind" => wanted = {} /\ listed = <<>>
    /\ pc \notin {"detach", "unwind"} => behind = {}
    /\ request[Worker] # None => pc = "merge"
    /\ pc \in {"plan", "detach", "unwind"} => left = plan
    /\ pc = "done" => left = {}

\* A request has its own time, and the rows it has made, here or among those
\* the pass has read, are not of a loser it still asks for.
RequestsAreFresh ==
    /\ \A s \in Session : request[s] # None => request[s].at <= clock
    /\ \A s, t \in Session :
          request[s] # None /\ request[t] # None /\ request[s].at = request[t].at
             => s = t
    /\ \A m \in audit \cup standing :
          /\ m.at <= clock
          /\ \A s \in Session : request[s] # None /\ request[s].at = m.at
                                   => m.loser \notin request[s].losers

\* What is listed for withdrawal was merged by the worker, unless it has been
\* merged anew since.
ListedAreAutomatic ==
    \A i \in DOMAIN listed : \A m \in audit \cap standing :
       m.loser = listed[i] => m.actor = Worker

\* The records say what the merges that stood when they were read say.
RecordsAreTrue ==
    /\ \A m, n \in standing : m.loser = n.loser => m = n
    /\ \A x \in Entity :
          /\ records[x].link = "Root" <=> \A m \in standing : m.loser # x
          /\ records[x].link = "Root" => records[x].head = x
          /\ records[records[x].head].link = "Root"
          /\ \A m \in standing :
                m.loser = x => (records[x].link = "Auto" <=> m.actor = Worker)

PassReads == PassTypeOK /\ PhasesAreClean /\ RequestsAreFresh /\ ListedAreAutomatic
             /\ RecordsAreTrue

LEMMA PhasesStep ==
    ASSUME PassTypeOK, PhasesAreClean, [ResolveNext]_allVars
    PROVE  PhasesAreClean'
<1> USE DEF PhasesAreClean
<1>0. /\ request \in [Session -> Request \cup {None}]
      /\ \A s \in Person : s \in Session /\ s # Worker
      /\ Worker \in Session
  BY SessionAssumption DEF PassTypeOK, ResolveTypeOK, TypeOK, Session
<1>1. CASE ReadRecords \/ MakePlan \/ DetachHead \/ EndUnwind \/ EndDetach
           \/ SkipGroup \/ Finish
  BY <1>1 DEF ReadRecords, MakePlan, DetachHead, EndUnwind, EndDetach, SkipGroup,
              Finish, vars
<1>2. CASE Unwind
  BY <1>2 DEF Unwind
<1>3. CASE OpenPlanned \/ MergePlanned
  BY <1>3 DEF OpenPlanned, MergePlanned, passVars
<1>4. CASE AbortPass
  BY <1>0, <1>4 DEF AbortPass, Refuse
<1>5. CASE \E s \in Person : AskMerge(s) \/ MergeByHand(s) \/ RefuseByHand(s)
  <2>1. PICK s \in Person : AskMerge(s) \/ MergeByHand(s) \/ RefuseByHand(s)
    BY <1>5
  <2>2. request'[Worker] = request[Worker]
    BY <1>0, <2>1 DEF AskMerge, OpenManual, Open, MergeByHand, MergeNext,
                      RefuseByHand, Refuse
  <2> QED
    BY <2>1, <2>2 DEF AskMerge, MergeByHand, RefuseByHand, passVars
<1>6. CASE \/ \E l \in Entity : SplitByHand(l)
           \/ \E a, b \in Entity : Dismiss(a, b)
           \/ UNCHANGED allVars
  BY <1>6 DEF SplitByHand, Split, Dismiss, allVars, passVars, vars
<1> QED
  BY <1>1, <1>2, <1>3, <1>4, <1>5, <1>6 DEF ResolveNext, Pass, People

\* The rows and requests of a step: nothing, a request opened or given up, a row
\* made of a request, or a row undone.
OpensRequest == \E s \in Session, w \in Entity : \E losers \in SUBSET Entity :
                   Open(s, w, losers)
MakesRow == \E s \in Session : MergeNext(s)
UndoesRow == /\ \E m \in audit : UnmergeCore(m)
             /\ UNCHANGED <<request, clock>>
KeepsRows == /\ UNCHANGED <<audit, mergedInto, clock>>
             /\ \/ UNCHANGED request
                \/ \E s \in Session : request' = [request EXCEPT ![s] = None]

LEMMA RowSteps ==
    ASSUME PassTypeOK, [ResolveNext]_allVars
    PROVE  \/ OpensRequest /\ UNCHANGED <<audit, mergedInto>>
           \/ MakesRow \/ UndoesRow \/ KeepsRows
<1>1. [Next]_vars
  BY StepIsMerge DEF PassTypeOK
<1>2. CASE \/ \E s \in Person : OpenManual(s)
           \/ OpenGroup
  <2>1. \E s \in Session, w \in Entity : \E losers \in SUBSET Entity :
           Open(s, w, losers)
    BY <1>2 DEF OpenManual, OpenGroup, Session
  <2> QED
    BY <2>1 DEF OpensRequest, Open, rows
<1>3. CASE \E s \in Session : Refuse(s)
  BY <1>3 DEF Refuse, KeepsRows, rows
<1>4. CASE \E s \in Session : MergeNext(s)
  BY <1>4 DEF MakesRow
<1>5. CASE \E l \in Entity : Split(l) \/ WithdrawMerge(l)
  BY <1>5 DEF Split, WithdrawMerge, UndoesRow
<1>6. CASE UNCHANGED <<audit, mergedInto, clock, request>>
  BY <1>6 DEF KeepsRows
<1> QED
  BY <1>1, <1>2, <1>3, <1>4, <1>5, <1>6
  DEF Next, AddAlias, Extract, SetUnitStatus, Reject, Restore, vars, rows

\* A step of a request: one of its losers goes to its winner, and a row of the
\* request's time says so.
LEMMA RowMade ==
    ASSUME PassTypeOK, NEW s \in Session, MergeNext(s)
    PROVE  \E l \in request[s].losers, m \in audit' :
              LET w == request[s].winner
                  rest == request[s].losers \ {l}
              IN  /\ w \in Entity /\ l \in Entity /\ w # l /\ Live(w) /\ Live(l)
                  /\ mergedInto' = PointersAfter(w, l)
                  /\ audit' = audit \cup {m}
                  /\ m.winner = w /\ m.loser = l /\ m.actor = s
                  /\ m.at = request[s].at
                  /\ \A t \in Session : t # s => request'[t] = request[t]
                  /\ IF rest = {} THEN request'[s] = None
                     ELSE /\ request'[s] # None
                          /\ request'[s].winner = w /\ request'[s].at = request[s].at
                          /\ request'[s].losers = rest
<1> DEFINE r == request[s]
<1>1. r \in Request /\ request \in [Session -> Request \cup {None}]
  BY DEF PassTypeOK, ResolveTypeOK, TypeOK, MergeNext
<1>2. PICK l \in r.losers :
         /\ MergeEntities(r.winner, l, r.at, s)
         /\ request' = [request EXCEPT ![s] =
               IF r.losers \ {l} = {} THEN None
               ELSE [r EXCEPT !.losers = r.losers \ {l}]]
  BY DEF MergeNext
<1>3. /\ r.winner \in Entity /\ l \in Entity /\ r.winner # l
      /\ Live(r.winner) /\ Live(l)
  BY <1>1, <1>2 DEF MergeNext, Mergeable, Request, PassTypeOK, Lineage, RequestsAreProper
<1> DEFINE m == [winner |-> r.winner, loser |-> l, at |-> r.at, actor |-> s,
                 undo |-> JournalOf(r.winner, l)]
<1>4. audit' = audit \cup {m} /\ mergedInto' = PointersAfter(r.winner, l)
  BY <1>2 DEF MergeEntities
<1>5. m.winner = r.winner /\ m.loser = l /\ m.at = r.at /\ m.actor = s
  OBVIOUS
<1>6. \A t \in Session : t # s => request'[t] = request[t]
  BY <1>1, <1>2
<1>7. IF r.losers \ {l} = {} THEN request'[s] = None
      ELSE /\ request'[s] # None
           /\ request'[s].winner = r.winner /\ request'[s].at = r.at
           /\ request'[s].losers = r.losers \ {l}
  <2>1. [r EXCEPT !.losers = r.losers \ {l}] \in Request
    BY <1>1 DEF Request
  <2> QED
    BY <1>1, <1>2, <2>1, RequestAssumption DEF Request
<1> HIDE DEF m
<1>8. m \in audit'
  BY <1>4
<1> QED
  BY <1>3, <1>4, <1>5, <1>6, <1>7, <1>8

LEMMA FreshStep ==
    ASSUME PassTypeOK, RequestsAreFresh, [ResolveNext]_allVars
    PROVE  RequestsAreFresh'
<1>0. /\ request \in [Session -> Request \cup {None}]
      /\ clock \in Nat
      /\ \A m \in audit \cup standing : m.at \in Nat
      /\ \A s \in Session : request[s] # None => request[s].at \in Nat
  BY BoundAssumption
  DEF PassTypeOK, ResolveTypeOK, TypeOK, MergeRow, Request
<1>1. standing' \in {audit, standing}
  BY DEF ResolveNext, Pass, People, ReadRecords, MakePlan, DetachHead, Unwind,
     EndUnwind, EndDetach, SkipGroup, OpenPlanned, MergePlanned, AbortPass, Finish,
     AskMerge, MergeByHand, RefuseByHand, SplitByHand, Dismiss, passVars, allVars
<1>2. CASE OpensRequest /\ UNCHANGED <<audit, mergedInto>>
  <2>1. PICK s \in Session, w \in Entity :
           \E losers \in SUBSET Entity : Open(s, w, losers)
    BY <1>2 DEF OpensRequest
  <2>2. /\ clock' = clock + 1
        /\ request'[s].at = clock + 1
        /\ \A t \in Session : t # s => request'[t] = request[t]
    BY <1>0, <2>1 DEF Open
  <2>3. \A m \in audit' \cup standing' : m \in audit \cup standing /\ m.at <= clock
    BY <1>1, <1>2 DEF RequestsAreFresh
  <2> QED
    BY <1>0, <2>2, <2>3 DEF RequestsAreFresh
<1>3. CASE MakesRow
  <2>1. PICK s \in Session : MergeNext(s)
    BY <1>3 DEF MakesRow
  <2> DEFINE r == request[s]
  <2>2. clock' = clock /\ r # None
    BY <2>1 DEF MergeNext
  <2>3. PICK l \in r.losers, m0 \in audit' :
           /\ audit' = audit \cup {m0} /\ m0.loser = l /\ m0.at = r.at
           /\ \A t \in Session : t # s => request'[t] = request[t]
           /\ request'[s] # None => /\ request'[s].at = r.at
                                    /\ request'[s].losers = r.losers \ {l}
    BY <2>1, RowMade
  <2>7. \A m \in audit' \cup standing' : m \in audit \cup standing \/ m = m0
    BY <1>1, <2>3
  <2> HIDE DEF r
  <2>8. \A t \in Session : request'[t] # None =>
           /\ request[t] # None /\ request'[t].at = request[t].at
           /\ request'[t].losers \subseteq request[t].losers
           /\ t = s => l \notin request'[t].losers
    BY <2>2, <2>3 DEF r
  <2>9. m0.at <= clock /\ \A t \in Session : request'[t] # None /\ request'[t].at = m0.at
                                 => m0.loser \notin request'[t].losers
    BY <2>2, <2>3, <2>8 DEF r, RequestsAreFresh
  <2>10. \A m \in audit \cup standing : m.at <= clock /\ \A t \in Session :
            request'[t] # None /\ request'[t].at = m.at
                                 => m.loser \notin request'[t].losers
    BY <2>8 DEF RequestsAreFresh
  <2>11. \A t, u \in Session :
            request'[t] # None /\ request'[u] # None /\ request'[t].at = request'[u].at
               => t = u
    BY <2>8 DEF RequestsAreFresh
  <2>12. \A t \in Session : request'[t] # None => request'[t].at <= clock
    BY <2>8 DEF RequestsAreFresh
  <2> QED
    BY <2>2, <2>7, <2>9, <2>10, <2>11, <2>12 DEF RequestsAreFresh
<1>4. CASE UndoesRow
  BY <1>1, <1>4 DEF RequestsAreFresh, UndoesRow, UnmergeCore
<1>5. CASE KeepsRows
  <2>1. \A s \in Session : request'[s] # None => request'[s] = request[s]
    BY <1>0, <1>5 DEF KeepsRows
  <2> QED
    BY <1>1, <1>5, <2>1 DEF RequestsAreFresh, KeepsRows
<1> QED
  BY <1>2, <1>3, <1>4, <1>5, RowSteps

\* A row the pass has read and somebody has undone is never made again.
LEMMA NoRowComesBack ==
    ASSUME PassTypeOK, RequestsAreFresh, [ResolveNext]_allVars
    PROVE  \A m \in audit' : m \in audit \/ m \notin standing
<1>1. CASE MakesRow
  <2>1. PICK s \in Session : MergeNext(s)
    BY <1>1 DEF MakesRow
  <2>2. PICK l \in request[s].losers, m0 \in audit' :
           audit' = audit \cup {m0} /\ m0.loser = l /\ m0.at = request[s].at
    BY <2>1, RowMade
  <2>3. request[s] # None
    BY <2>1 DEF MergeNext
  <2>4. m0 \notin standing
    BY <2>2, <2>3 DEF RequestsAreFresh
  <2> QED
    BY <2>2, <2>4
<1>2. CASE ~MakesRow
  BY <1>2, RowSteps DEF UndoesRow, KeepsRows, UnmergeCore
<1> QED
  BY <1>1, <1>2

\* Only a pass that begins reads, and only one that detaches lists.
LEMMA ReadOnce ==
    ASSUME PassTypeOK, [ResolveNext]_allVars
    PROVE  /\ ReadRecords \/ UNCHANGED <<records, standing>>
           /\ \/ DetachHead
              \/ \A i \in DOMAIN listed' : \E j \in DOMAIN listed : listed'[i] = listed[j]
<1>1. CASE Unwind
  <2>1. listed # <<>> /\ listed' = Tail(listed) /\ listed \in Seq(Entity)
    BY <1>1 DEF Unwind, Undoable, PassTypeOK, ResolveTypeOK
  <2>2. \A i \in DOMAIN listed' : i + 1 \in DOMAIN listed /\ listed'[i] = listed[i + 1]
    BY <2>1
  <2> QED
    BY <1>1, <2>2 DEF Unwind
<1>2. CASE EndUnwind
  BY <1>2 DEF EndUnwind
<1>3. CASE \/ ReadRecords \/ MakePlan \/ EndDetach \/ SkipGroup \/ OpenPlanned
           \/ MergePlanned \/ AbortPass \/ Finish \/ People \/ UNCHANGED allVars
  BY <1>3 DEF People, ReadRecords, MakePlan, EndDetach, SkipGroup, OpenPlanned,
     MergePlanned, AbortPass, Finish,
     AskMerge, MergeByHand, RefuseByHand, SplitByHand, Dismiss, passVars, allVars
<1>4. CASE DetachHead
  BY <1>4 DEF DetachHead
<1> QED
  BY <1>1, <1>2, <1>3, <1>4 DEF ResolveNext, Pass

LEMMA ListedStep ==
    ASSUME PassReads, [ResolveNext]_allVars
    PROVE  ListedAreAutomatic'
<1>1. CASE DetachHead
  <2>1. PICK h : listed' \in Listings(h)
    BY <1>1 DEF DetachHead
  <2>2. \A i \in DOMAIN listed' : \E m \in audit :
           m.loser = listed'[i] /\ m.actor = Worker
    BY <2>1, ListingType DEF PassReads, PassTypeOK, ResolveTypeOK
  <2>3. \A m, n \in audit : m.loser = n.loser => m = n
    BY DEF PassReads, PassTypeOK, Lineage, AuditMatchesPointers
  <2>4. UNCHANGED <<audit, standing>>
    BY <1>1 DEF DetachHead, vars
  <2> QED
    BY <2>2, <2>3, <2>4 DEF ListedAreAutomatic
<1>2. CASE ReadRecords
  <2>1. listed' = <<>>
    BY <1>2 DEF ReadRecords, PassReads, PhasesAreClean
  <2> QED
    BY <2>1 DEF ListedAreAutomatic
<1>3. CASE ~DetachHead /\ ~ReadRecords
  <2>1. /\ \A i \in DOMAIN listed' : \E j \in DOMAIN listed : listed'[i] = listed[j]
        /\ standing' = standing
    BY <1>3, ReadOnce DEF PassReads
  <2>2. \A m \in audit' : m \in audit \/ m \notin standing
    BY NoRowComesBack DEF PassReads
  <2> QED
    BY <2>1, <2>2 DEF PassReads, ListedAreAutomatic
<1> QED
  BY <1>1, <1>2, <1>3

LEMMA RecordsStep ==
    ASSUME PassReads, [ResolveNext]_allVars
    PROVE  RecordsAreTrue'
<1>1. CASE ReadRecords
  <2>1. /\ records' = [x \in Entity |-> [head |-> HeadOf(x), link |-> Link(x)]]
        /\ standing' = audit
    BY <1>1 DEF ReadRecords
  <2>2. /\ \A m, n \in audit : m.loser = n.loser => m = n
        /\ \A x \in Entity : Live(x) <=> \A m \in audit : m.loser # x
        /\ \A x \in Entity : HeadOf(x) \in Entity /\ Live(HeadOf(x))
        /\ \A m \in audit : m.loser \in Entity /\ m.at \in Nat
    BY HeadType
    DEF PassReads, PassTypeOK, ResolveTypeOK, TypeOK, MergeRow, Lineage,
        AuditMatchesPointers
  <2>3. \A x \in Entity : Live(x) => HeadOf(x) = x
    BY DEF HeadOf
  <2>4. \A x \in Entity :
           /\ Link(x) = "Root" <=> Live(x)
           /\ \A m \in audit : m.loser = x => (Link(x) = "Auto" <=> m.actor = Worker)
    BY <2>2 DEF Link, LatestMerge
  <2>5. \A x \in Entity : records'[x].head = HeadOf(x) /\ records'[x].link = Link(x)
    BY <2>1
  <2> QED
    BY <2>1, <2>2, <2>3, <2>4, <2>5 DEF RecordsAreTrue
<1>2. CASE UNCHANGED <<records, standing>>
  BY <1>2 DEF PassReads, RecordsAreTrue
<1> QED
  BY <1>1, <1>2, ReadOnce DEF PassReads

LEMMA PassReadsInit == ResolveInit => PassReads
<1> SUFFICES ASSUME ResolveInit PROVE PassReads
  OBVIOUS
<1>1. PassTypeOK
  BY PassTypeInit
<1>2. PhasesAreClean /\ ListedAreAutomatic
  BY DEF ResolveInit, Init, PhasesAreClean, ListedAreAutomatic, Session
<1>3. RequestsAreFresh
  BY DEF ResolveInit, Init, RequestsAreFresh
<1>4. RecordsAreTrue
  BY DEF ResolveInit, RecordsAreTrue
<1> QED
  BY <1>1, <1>2, <1>3, <1>4 DEF PassReads

LEMMA PassReadsStep == PassReads /\ [ResolveNext]_allVars => PassReads'
<1> SUFFICES ASSUME PassReads, [ResolveNext]_allVars PROVE PassReads'
  OBVIOUS
<1>1. PassTypeOK' /\ PhasesAreClean' /\ RequestsAreFresh'
  BY PassTypeStep, PhasesStep, FreshStep DEF PassReads
<1> QED
  BY <1>1, ListedStep, RecordsStep DEF PassReads

LEMMA PassReadsInvariant == ResolveSpec => []PassReads
BY PassReadsInit, PassReadsStep, PTL DEF ResolveSpec

\* What a person merged before the pass read the records, the pass does not
\* undo, whoever splits and merges between its reading of a list and its undoing
\* of what is on it (detach).
THEOREM PersonsMergesStand == ResolveSpec => EarlierMergesStand
<1> DEFINE A == \A m \in audit : UndoneByWorker(m) /\ m.actor \in Person
                                    => m \notin standing
<1>1. PassReads /\ [ResolveNext]_allVars => [A]_allVars
  <2> SUFFICES ASSUME PassReads, ResolveNext, NEW m \in audit, UndoneByWorker(m),
                      m.actor \in Person, m \in standing
               PROVE  FALSE
    OBVIOUS
  <2>1. audit' # audit /\ listed' # listed
    BY DEF UndoneByWorker
  <2>2. Unwind
    BY <2>1 DEF ResolveNext, Pass, People, ReadRecords, MakePlan, DetachHead,
     EndUnwind, EndDetach, SkipGroup, OpenPlanned, MergePlanned, AbortPass, Finish,
     AskMerge, MergeByHand, RefuseByHand, SplitByHand, Dismiss, passVars, vars
  <2>3. PICK n \in Undoable : UnmergeCore(n)
    BY <2>2 DEF Unwind
  <2>4. m = n
    BY <2>3 DEF UnmergeCore, UndoneByWorker
  <2>5. listed # <<>> /\ m.loser = Head(listed) /\ listed \in Seq(Entity)
    BY <2>3, <2>4 DEF Undoable, LatestMerge, PassReads, PassTypeOK, ResolveTypeOK
  <2>6. 1 \in DOMAIN listed /\ m.loser = listed[1]
    BY <2>5
  <2> QED
    BY <2>6, SessionAssumption DEF PassReads, ListedAreAutomatic
<1>2. [][A]_allVars <=> EarlierMergesStand
  BY DEF EarlierMergesStand
<1> QED
  BY <1>1, <1>2, PassReadsInvariant, PTL DEF ResolveSpec
-----------------------------------------------------------------------------
(* A pass that nobody disturbs.                                            *)

Quiet == calm /\ Flat /\ pc # "idle"
Early == pc \in {"plan", "detach", "unwind"}

\* Automatic merges the pass has not undone, or could not.
Pending == behind \cup wanted \cup parked

\* Undisturbed, the pass undoes automatic merges first and then makes its own.
RowsAreThePasses ==
    Quiet => /\ \A m \in audit : m \in standing \/ m.actor = Worker
             /\ \A m \in standing \ audit : records[m.loser].link = "Auto"
             /\ Early => audit \subseteq standing

\* Planned groups are made of whole units, none of them told apart from
\* another, and do not overlap.
Whole(g) == \A x \in g, y \in Entity : UnitOfRecord(x) = UnitOfRecord(y) => y \in g
Unrejected(g) ==
    \A x, y \in g : UnitOfRecord(x) # UnitOfRecord(y)
                       => {UnitOfRecord(x), UnitOfRecord(y)} \notin CannotUnits
GroupsAreSound ==
    Quiet => /\ \A g \in plan : Whole(g) /\ Unrejected(g)
             /\ \A g, k \in plan : g \cap k # {} => g = k

\* What a person put together stays together.
UnitsStayTogether ==
    Quiet => \A x \in Entity : records[x].link = "User"
                                  => HeadOf(x) = HeadOf(records[x].head)

\* Only members of a group hang on a member of it.
GroupsHoldTheirOwn ==
    Quiet /\ pc # "plan" =>
       \A g \in plan : \A x \in Entity \ Pending : HeadOf(x) \in g => x \in g

\* Two that share a head belong to one unit or to one planned group.
TogetherForAReason ==
    Quiet /\ pc # "plan" =>
       \A x, y \in Entity \ Pending :
          HeadOf(x) = HeadOf(y) => \/ UnitOfRecord(x) = UnitOfRecord(y)
                                   \/ \E g \in plan : x \in g /\ y \in g

\* What the worker asks for lies in one planned group.
AskedIsPlanned ==
    request[Worker] # None =>
       \E g \in plan \ left : {request[Worker].winner} \cup request[Worker].losers \subseteq g

\* Where nothing had to be parked, members of a group hang on members of it,
MembersHangOnMembers ==
    Quiet /\ pc # "plan" /\ parked = {} =>
       \A g \in plan : \A x \in g \ Pending : HeadOf(x) \in g

\* what is in no group is where its person or nobody put it,
OthersAreAlone ==
    Quiet /\ pc # "plan" /\ parked = {} =>
       \A x \in Entity \ Pending : x \notin UNION plan =>
          HeadOf(x) = IF x \in Behind(plan) THEN x ELSE records[x].head

\* and a group the pass is done with is one entity, or is being made one.
OneHead(g) == \A x, y \in g : HeadOf(x) = HeadOf(y)

DoneGroupsAreOne ==
    Quiet /\ pc # "plan" /\ parked = {} =>
       \A g \in plan \ left :
          \/ OneHead(g)
          \/ /\ request[Worker] # None
             /\ GroupHeads(g) = {request[Worker].winner} \cup request[Worker].losers

QuietInv == /\ RowsAreThePasses /\ GroupsAreSound /\ UnitsStayTogether
            /\ GroupsHoldTheirOwn /\ TogetherForAReason
            /\ MembersHangOnMembers /\ OthersAreAlone /\ DoneGroupsAreOne

\* While the pass has not merged anything, an entity is where the records say,
\* or its automatic merge has been undone.
LEMMA EarlyHeads ==
    ASSUME PassReads, RowsAreThePasses, Quiet, Early, NEW x \in Entity
    PROVE  /\ records[x].head \in Entity
           /\ records[x].link \in {"Root", "Auto", "User"}
           /\ records[x].link = "Root" => HeadOf(x) = x
           /\ records[x].link = "User" => HeadOf(x) = records[x].head
           /\ HeadOf(x) \in {x, records[x].head}
<1>1. records[x].head \in Entity /\ records[x].link \in {"Root", "Auto", "User"}
  BY DEF PassReads, PassTypeOK, ResolveTypeOK, Record
<1>2. \A y \in Entity : Live(y) <=> \A m \in audit : m.loser # y
  BY DEF PassReads, PassTypeOK, Lineage, AuditMatchesPointers
<1>3. \A y \in Entity : Live(y) => HeadOf(y) = y
  BY DEF HeadOf
<1>4. records[x].link = "Root" => Live(x)
  BY <1>2 DEF PassReads, RecordsAreTrue, RowsAreThePasses
<1>5. CASE Live(x)
  <2>1. records[x].link = "User" => FALSE
    BY <1>2, <1>5 DEF PassReads, RecordsAreTrue, RowsAreThePasses
  <2> QED
    BY <1>1, <1>3, <1>5, <2>1
<1>6. CASE ~Live(x)
  <2>1. PICK m \in audit : m.loser = x
    BY <1>2, <1>6
  <2>2. m \in standing /\ m.winner = records[x].head
    BY <2>1 DEF RowsAreThePasses, Quiet, Flat
  <2>3. Live(records[x].head)
    BY <1>1, <1>2 DEF PassReads, RecordsAreTrue, RowsAreThePasses
  <2>4. HeadOf(x) = HeadOf(records[x].head)
    BY <2>1, <2>2 DEF PassReads, PassTypeOK, Lineage, AuditMatchesPointers
  <2> QED
    BY <1>1, <1>3, <1>4, <1>6, <2>3, <2>4
<1> QED
  BY <1>5, <1>6
\* The units of the records, and what an automatic merge out of the plan is.
LEMMA UnitFacts ==
    ASSUME PassReads, NEW x \in Entity
    PROVE  /\ UnitOfRecord(x) \in Entity
           /\ UnitOfRecord(records[x].head) = records[x].head
           /\ records[x].link = "Root" => records[x].head = x
BY DEF PassReads, PassTypeOK, ResolveTypeOK, Record, RecordsAreTrue, UnitOfRecord

LEMMA ReadRecordsQuiet ==
    ASSUME PassReads, ReadRecords
    PROVE  QuietInv'
<1>1. /\ records' = [x \in Entity |-> [head |-> HeadOf(x), link |-> Link(x)]]
      /\ standing' = audit /\ plan' = {} /\ pc' = "plan"
      /\ UNCHANGED <<mergedInto, audit>>
  BY DEF ReadRecords, vars
<1>2. \A x \in Entity : HeadOf(x) \in Entity /\ HeadOf(HeadOf(x)) = HeadOf(x)
  <2>1. \A x \in Entity : HeadOf(x) \in Entity /\ Live(HeadOf(x))
    BY HeadType DEF PassReads, PassTypeOK, ResolveTypeOK, Lineage
  <2> QED
    BY <2>1 DEF HeadOf
<1>3. \A x \in Entity : HeadOf(x)' = HeadOf(x)
  BY <1>1 DEF HeadOf, Live
<1>4. UnitsStayTogether'
  BY <1>1, <1>2, <1>3 DEF UnitsStayTogether, HeadOf, Live
<1> QED
  BY <1>1, <1>4
  DEF QuietInv, RowsAreThePasses, GroupsAreSound, GroupsHoldTheirOwn,
      TogetherForAReason, MembersHangOnMembers, OthersAreAlone, DoneGroupsAreOne

\* Complete groups are whole, hold no pair that was told apart, and are disjoint.
LEMMA CompleteGroupsAreSound ==
    ASSUME PassReads, NEW evidence
    PROVE  /\ \A g \in CompleteGroups(evidence) : Whole(g) /\ Unrejected(g)
           /\ \A g, k \in CompleteGroups(evidence) : g \cap k # {} => g = k
<1> DEFINE auto == AutoPairs(evidence)
<1>1. ASSUME NEW x, NEW y, UnitOfRecord(x) # UnitOfRecord(y), {x, y} \in auto
      PROVE  {UnitOfRecord(x), UnitOfRecord(y)} \notin CannotUnits
  <2>1. {UnitOfRecord(z) : z \in {x, y}} = {UnitOfRecord(x), UnitOfRecord(y)}
    OBVIOUS
  <2> QED
    BY <1>1, <2>1 DEF AutoPairs
<1>2. \A g \in CompleteGroups(evidence) :
         /\ g \subseteq Entity /\ Whole(g)
         /\ \A x, y \in g : UnitOfRecord(x) # UnitOfRecord(y) => {x, y} \in auto
         /\ \A p \in auto : p \cap g # {} => p \subseteq g
  BY DEF CompleteGroups, Whole
<1> HIDE DEF auto
<1>3. \A g \in CompleteGroups(evidence) : Unrejected(g)
  BY <1>1, <1>2 DEF Unrejected
<1>4. ASSUME NEW g \in CompleteGroups(evidence), NEW k \in CompleteGroups(evidence),
             NEW z \in g \cap k
      PROVE  g \subseteq k
  <2> SUFFICES ASSUME NEW x \in g PROVE x \in k
    OBVIOUS
  <2>1. CASE UnitOfRecord(x) = UnitOfRecord(z)
    BY <1>2, <2>1 DEF Whole
  <2>2. CASE UnitOfRecord(x) # UnitOfRecord(z)
    <3>1. {x, z} \in auto
      BY <1>2, <2>2
    <3>2. {x, z} \cap k # {}
      OBVIOUS
    <3>3. {x, z} \subseteq k
      BY <1>2, <3>1, <3>2
    <3> QED
      BY <3>3
  <2> QED
    BY <2>1, <2>2
<1>5. \A g, k \in CompleteGroups(evidence) : g \cap k # {} => g = k
  BY <1>4
<1> QED
  BY <1>2, <1>3, <1>5

LEMMA MakePlanQuiet ==
    ASSUME PassReads, QuietInv, MakePlan
    PROVE  QuietInv'
<1>1. PICK evidence \in SUBSET Pairs(Entity) : plan' \subseteq CompleteGroups(evidence)
  BY DEF MakePlan
<1>2. /\ UNCHANGED <<mergedInto, audit, records, standing, cannotLink, calm, parked>>
      /\ left' = plan' /\ behind' = Behind(plan') /\ wanted' = wanted
      /\ pc = "plan" /\ pc' = "detach"
  BY DEF MakePlan, vars
<1> SUFFICES ASSUME Quiet' PROVE QuietInv'
  BY DEF QuietInv, RowsAreThePasses, GroupsAreSound, UnitsStayTogether,
     GroupsHoldTheirOwn, TogetherForAReason, MembersHangOnMembers, OthersAreAlone,
     DoneGroupsAreOne
<1>3. Quiet /\ Early /\ RowsAreThePasses
  BY <1>2 DEF Quiet, Early, Flat, QuietInv
<1>4. \A x \in Entity : HeadOf(x)' = HeadOf(x) /\ UnitOfRecord(x)' = UnitOfRecord(x)
  BY <1>2 DEF HeadOf, Live, UnitOfRecord
<1>5. /\ \A g \in plan' : g \subseteq Entity /\ Whole(g) /\ Unrejected(g)
      /\ \A g, k \in plan' : g \cap k # {} => g = k
  BY <1>1, CompleteGroupsAreSound DEF CompleteGroups
<1>6. \A x \in Entity :
         /\ records[x].head \in Entity
         /\ records[x].link \in {"Root", "Auto", "User"}
         /\ records[x].link = "Root" => HeadOf(x) = x /\ records[x].head = x
         /\ records[x].link = "User" => HeadOf(x) = records[x].head
         /\ HeadOf(x) \in {x, records[x].head}
         /\ UnitOfRecord(records[x].head) = records[x].head
         /\ records[records[x].head].link = "Root"
         /\ UnitOfRecord(x) = IF records[x].link = "User" THEN records[x].head ELSE x
  BY <1>3, EarlyHeads, UnitFacts DEF PassReads, RecordsAreTrue, UnitOfRecord
<1>7. \A x \in Entity \ Pending' :
         records[x].link = "Auto" => \E g \in plan' : x \in g /\ records[x].head \in g
  BY <1>2 DEF Pending, Behind
<1>8. ASSUME NEW g \in plan', NEW x \in Entity, records[x].link = "User"
      PROVE  x \in g <=> records[x].head \in g
  BY <1>5, <1>6, <1>8 DEF Whole
<1>9. RowsAreThePasses'
  BY <1>2, <1>3 DEF RowsAreThePasses, Early
<1>10. GroupsAreSound'
  <2>1. CannotUnits' = CannotUnits
    BY <1>2 DEF CannotUnits, UnitOfRecord
  <2>2. \A g \in plan' : Whole(g)' /\ Unrejected(g)'
    BY <1>2, <1>5, <2>1 DEF Whole, Unrejected, UnitOfRecord
  <2> QED
    BY <1>5, <2>2 DEF GroupsAreSound
<1>11. UnitsStayTogether'
  BY <1>2, <1>3 DEF QuietInv, UnitsStayTogether, HeadOf, Live
<1>12. GroupsHoldTheirOwn'
  <2> SUFFICES ASSUME NEW g \in plan', NEW x \in Entity \ Pending', HeadOf(x) \in g
               PROVE  x \in g
    BY <1>4 DEF GroupsHoldTheirOwn
  <2>1. CASE records[x].link = "Auto" /\ HeadOf(x) # x
    BY <1>5, <1>6, <1>7, <2>1
  <2> QED
    BY <1>6, <1>8, <2>1
<1>13. TogetherForAReason'
  <2> SUFFICES ASSUME NEW x \in Entity \ Pending', NEW y \in Entity \ Pending',
                      HeadOf(x) = HeadOf(y), UnitOfRecord(x) # UnitOfRecord(y)
               PROVE  \E g \in plan' : x \in g /\ y \in g
    BY <1>4 DEF TogetherForAReason
  <2> DEFINE h == HeadOf(x)
  <2>1. h \in Entity /\ records[h].link = "Root" /\ UnitOfRecord(h) = h
    <3>1. h = records[x].head \/ h = records[y].head
      BY <1>6
    <3> QED
      BY <1>6, <3>1
  <2>2. \A z \in {x, y} : \/ UnitOfRecord(z) = h
                          \/ records[z].link = "Auto" /\ records[z].head = h
    BY <1>6, <2>1
  <2>3. PICK z \in {x, y} : records[z].link = "Auto" /\ records[z].head = h
    BY <2>2
  <2>4. PICK g \in plan' : z \in g /\ h \in g
    BY <1>7, <2>3
  <2>5. \A u \in {x, y} : u \in g
    BY <1>5, <1>7, <2>1, <2>2, <2>4 DEF Whole
  <2> QED
    BY <2>5
<1>14. MembersHangOnMembers'
  <2> SUFFICES ASSUME NEW g \in plan', NEW x \in g \ Pending'
               PROVE  HeadOf(x) \in g
    BY <1>4, <1>5 DEF MembersHangOnMembers
  <2> QED
    BY <1>5, <1>6, <1>7, <1>8
<1>15. OthersAreAlone'
  <2> SUFFICES ASSUME NEW x \in Entity \ Pending', x \notin UNION plan'
               PROVE  HeadOf(x) = records[x].head /\ x \notin Behind(plan')
    BY <1>2, <1>4 DEF OthersAreAlone, Behind
  <2> QED
    BY <1>2, <1>6, <1>7 DEF Pending
<1>16. DoneGroupsAreOne'
  BY <1>2 DEF DoneGroupsAreOne
<1> QED
  BY <1>9, <1>10, <1>11, <1>12, <1>13, <1>14, <1>15, <1>16 DEF QuietInv
\* A step that moves nothing and plans nothing.
LEMMA StillQuiet ==
    ASSUME QuietInv,
           UNCHANGED <<mergedInto, audit, records, plan, cannotLink, standing, calm>>,
           pc = "plan" <=> pc' = "plan", Early' => Early, pc # "idle",
           Pending' = Pending, parked \subseteq parked', DoneGroupsAreOne'
    PROVE  QuietInv'
<1>1. /\ Quiet' => Quiet
      /\ \A x \in Entity : HeadOf(x)' = HeadOf(x) /\ UnitOfRecord(x)' = UnitOfRecord(x)
      /\ parked' = {} => parked = {}
  BY DEF Quiet, Flat, HeadOf, Live, UnitOfRecord
<1>2. RowsAreThePasses'
  BY <1>1 DEF QuietInv, RowsAreThePasses
<1>3. GroupsAreSound'
  BY <1>1 DEF QuietInv, GroupsAreSound, Whole, Unrejected, UnitOfRecord, CannotUnits
<1>4. UnitsStayTogether'
  BY <1>1 DEF QuietInv, UnitsStayTogether, HeadOf, Live
<1>5. GroupsHoldTheirOwn' /\ TogetherForAReason'
  BY <1>1 DEF QuietInv, GroupsHoldTheirOwn, TogetherForAReason
<1>6. MembersHangOnMembers'
  BY <1>1 DEF QuietInv, MembersHangOnMembers, HeadOf, Live
<1>7. OthersAreAlone'
  BY <1>1 DEF QuietInv, OthersAreAlone, Behind
<1> QED
  BY <1>2, <1>3, <1>4, <1>5, <1>6, <1>7 DEF QuietInv

LEMMA UnwindQuiet ==
    ASSUME PassReads, QuietInv, Unwind, Quiet'
    PROVE  QuietInv'
<1>1. PICK m \in Undoable : UnmergeCore(m) /\ wanted' = wanted \ {m.loser}
  BY DEF Unwind
<1> DEFINE l == m.loser
<1>2. /\ UNCHANGED <<records, plan, cannotLink, standing, calm, parked, behind, left, pc>>
      /\ pc = "unwind" /\ left = plan
      /\ audit' = audit \ {m} /\ m \in audit /\ l = Head(listed) /\ listed # <<>>
  BY <1>1 DEF Unwind, UnmergeCore, Undoable, LatestMerge, PassReads, PhasesAreClean
<1>3. Quiet /\ Early /\ audit \subseteq standing
  BY <1>2 DEF Quiet, Early, Flat, QuietInv, RowsAreThePasses
<1>4. /\ TypeOK /\ Lineage /\ l \in Entity /\ m.undo.descendants \subseteq Entity
      /\ \A x \in Entity : UnitOfRecord(x) \in Entity
  BY <1>2, RowType, UnitFacts DEF PassReads, PassTypeOK, ResolveTypeOK
<1>5. records[l].link = "Auto"
  <2>1. 1 \in DOMAIN listed /\ l = listed[1]
    BY <1>2 DEF PassReads, PassTypeOK, ResolveTypeOK
  <2>2. m.actor = Worker
    BY <1>2, <1>3, <2>1 DEF PassReads, ListedAreAutomatic
  <2> QED
    BY <1>2, <1>3, <1>4, <2>2 DEF PassReads, RecordsAreTrue
<1>6. \A x \in Entity : records[records[x].head].link = "Root"
  BY DEF PassReads, RecordsAreTrue
<1>7. \A x \in Entity : records[x].link = "Root" => Live(x)
  BY <1>3 DEF PassReads, PassTypeOK, Lineage, AuditMatchesPointers, RecordsAreTrue
<1>8. m.undo.descendants = {}
  <2> SUFFICES ASSUME NEW d \in m.undo.descendants PROVE FALSE
    OBVIOUS
  <2>1. d \in Entity /\ ~Live(d)
    BY <1>2, <1>4 DEF Lineage, BranchesStayWhole
  <2>2. PICK n \in audit : n.loser = d
    BY <1>4, <2>1 DEF Lineage, AuditMatchesPointers
  <2>3. n.winner \in m.undo.descendants \cup {l}
    BY <1>2, <1>4, <2>2 DEF Lineage, DescendantsAreBelow
  <2>4. n.winner = records[d].head
    BY <1>3, <2>2 DEF Quiet, Flat
  <2>5. Live(n.winner)
    BY <1>4, <1>6, <1>7, <2>1, <2>3, <2>4
  <2>6. ~Live(l)
    BY <1>2, <1>4 DEF Lineage, AuditMatchesPointers
  <2> QED
    BY <1>2, <1>4, <2>3, <2>5, <2>6 DEF Lineage, BranchesStayWhole
<1>9. /\ \A x \in Entity : HeadOf(x)' = IF x = l THEN l ELSE HeadOf(x)
      /\ \A x \in Entity : HeadOf(x) # l
  <2>1. \A x \in Entity : HeadOf(x)' = IF x = l THEN l ELSE HeadOf(x)
    BY <1>1, <1>2, <1>4, <1>8, UnmergeHeads
  <2>2. ~Live(l) /\ \A x \in Entity : Live(HeadOf(x))
    BY <1>2, <1>4, HeadType DEF Lineage, AuditMatchesPointers
  <2> QED
    BY <2>1, <2>2
<1>10. /\ \A x \in Entity \ Pending' : x = l \/ x \in Entity \ Pending
       /\ \A x \in Entity : UnitOfRecord(x)' = UnitOfRecord(x)
  BY <1>1, <1>2 DEF Pending, UnitOfRecord
<1>11. RowsAreThePasses'
  BY <1>2, <1>3, <1>5 DEF QuietInv, RowsAreThePasses
<1>12. GroupsAreSound'
  BY <1>2, <1>3 DEF QuietInv, GroupsAreSound, Whole, Unrejected, UnitOfRecord,
                    CannotUnits
<1>13. UnitsStayTogether'
  <2> SUFFICES ASSUME NEW x \in Entity, records[x].link = "User"
               PROVE  HeadOf(x)' = (HeadOf(records[x].head))'
    BY <1>2 DEF UnitsStayTogether
  <2>1. records[x].head \in Entity /\ x # l /\ records[x].head # l
    BY <1>5, <1>6 DEF PassReads, PassTypeOK, ResolveTypeOK, Record
  <2>2. (HeadOf(records[x].head))' = HeadOf(records[x].head)
    <3> DEFINE h == records[x].head
    <3>1. h' = h
      BY <1>2
    <3> HIDE DEF h
    <3>2. (HeadOf(h))' = HeadOf(h)
      BY <1>9, <2>1, <3>1 DEF HeadOf, Live, h
    <3> QED
      BY <3>2 DEF h
  <2> QED
    BY <1>3, <1>9, <2>1, <2>2 DEF QuietInv, UnitsStayTogether
<1>14. GroupsHoldTheirOwn'
  BY <1>2, <1>3, <1>9, <1>10 DEF QuietInv, GroupsHoldTheirOwn
<1>15. TogetherForAReason'
  BY <1>2, <1>3, <1>9, <1>10 DEF QuietInv, TogetherForAReason
<1>16. MembersHangOnMembers'
  <2> SUFFICES ASSUME parked = {}, NEW g \in plan, NEW x \in g \ Pending'
               PROVE  HeadOf(x)' \in g
    BY <1>2 DEF MembersHangOnMembers
  <2>1. x \in Entity
    BY DEF PassReads, PassTypeOK, ResolveTypeOK
  <2> QED
    BY <1>2, <1>3, <1>9, <1>10, <2>1 DEF QuietInv, MembersHangOnMembers
<1>17. OthersAreAlone'
  <2> SUFFICES ASSUME parked = {}, NEW x \in Entity \ Pending', x \notin UNION plan
               PROVE  HeadOf(x)' = IF x \in Behind(plan) THEN x ELSE records[x].head
    BY <1>2 DEF OthersAreAlone, Behind
  <2>1. CASE x = l
    BY <1>4, <1>5, <1>9, <2>1 DEF Behind
  <2>2. CASE x # l
    BY <1>2, <1>3, <1>9, <1>10, <2>2 DEF QuietInv, OthersAreAlone
  <2> QED
    BY <2>1, <2>2
<1>18. DoneGroupsAreOne'
  BY <1>2 DEF DoneGroupsAreOne
<1> QED
  BY <1>11, <1>12, <1>13, <1>14, <1>15, <1>16, <1>17, <1>18 DEF QuietInv
\* One merge of the worker's, within one planned group: whatever hung on the
\* loser hangs on the winner.
LEMMA PlannedMerge ==
    ASSUME PassReads, AskedIsPlanned, MergePlanned
    PROVE  \E g \in plan \ left, l \in request[Worker].losers, m \in audit' :
              LET w == request[Worker].winner
                  rest == request[Worker].losers \ {l}
              IN  /\ {w} \cup request[Worker].losers \subseteq g
                  /\ w \in Entity /\ l \in Entity /\ w # l /\ Live(w) /\ Live(l)
                  /\ \A x \in Entity : HeadOf(x)' = IF HeadOf(x) = l THEN w ELSE HeadOf(x)
                  /\ audit' = audit \cup {m} /\ m.actor = Worker
                  /\ IF rest = {} THEN request'[Worker] = None
                     ELSE /\ request'[Worker] # None
                          /\ request'[Worker].winner = w
                          /\ request'[Worker].losers = rest
<1>1. MergeNext(Worker) /\ Worker \in Session /\ request[Worker] # None
  BY DEF MergePlanned, MergeNext, Session
<1>2. PICK l \in request[Worker].losers, m \in audit' :
         LET w == request[Worker].winner
             rest == request[Worker].losers \ {l}
         IN  /\ w \in Entity /\ l \in Entity /\ w # l /\ Live(w) /\ Live(l)
             /\ mergedInto' = PointersAfter(w, l)
             /\ audit' = audit \cup {m} /\ m.actor = Worker
             /\ IF rest = {} THEN request'[Worker] = None
                ELSE /\ request'[Worker] # None
                     /\ request'[Worker].winner = w
                     /\ request'[Worker].losers = rest
  BY <1>1, RowMade DEF PassReads
<1>3. PICK g \in plan \ left :
         {request[Worker].winner} \cup request[Worker].losers \subseteq g
  BY <1>1 DEF AskedIsPlanned
<1>4. \A x \in Entity : HeadOf(x)' =
         IF HeadOf(x) = l THEN request[Worker].winner ELSE HeadOf(x)
  BY <1>2, MergeHeads DEF PassReads, PassTypeOK, ResolveTypeOK, Lineage
<1> QED
  BY <1>2, <1>3, <1>4

LEMMA MergePlannedQuiet ==
    ASSUME PassReads, QuietInv, AskedIsPlanned, MergePlanned, Quiet'
    PROVE  QuietInv'
<1> DEFINE w == request[Worker].winner
           losers == request[Worker].losers
<1>1. PICK g0 \in plan \ left, l \in losers, m \in audit' :
         /\ {w} \cup losers \subseteq g0
         /\ w \in Entity /\ l \in Entity /\ w # l /\ Live(w) /\ Live(l)
         /\ \A x \in Entity : HeadOf(x)' = IF HeadOf(x) = l THEN w ELSE HeadOf(x)
         /\ audit' = audit \cup {m} /\ m.actor = Worker
         /\ IF losers \ {l} = {} THEN request'[Worker] = None
            ELSE /\ request'[Worker] # None
                 /\ request'[Worker].winner = w
                 /\ request'[Worker].losers = losers \ {l}
  BY PlannedMerge
<1>2. /\ UNCHANGED <<records, plan, cannotLink, standing, calm, parked, behind,
                     wanted, left, pc>>
      /\ pc = "merge" /\ Pending' = Pending
      /\ request[Worker] # None
  BY DEF MergePlanned, MergeNext, passVars, Pending
<1>3. Quiet /\ ~Early /\ ~Early' /\ Pending = parked
  BY <1>2 DEF Quiet, Early, Flat, PassReads, PhasesAreClean, Pending
<1> HIDE DEF w, losers
<1>4. /\ \A x \in Entity : UnitOfRecord(x)' = UnitOfRecord(x)
      /\ \A g \in plan : g \subseteq Entity
      /\ HeadOf(w) = w /\ HeadOf(l) = l
      /\ \A x \in Entity : records[x].head \in Entity
  BY <1>1, <1>2 DEF UnitOfRecord, HeadOf, PassReads, PassTypeOK, ResolveTypeOK, Record
<1>5. /\ w \in g0 /\ l \in g0 /\ g0 \in plan
      /\ \A g \in plan : w \in g \/ l \in g => g = g0
  BY <1>1, <1>3 DEF QuietInv, GroupsAreSound
<1>6. RowsAreThePasses'
  BY <1>1, <1>2, <1>3 DEF QuietInv, RowsAreThePasses
<1>7. GroupsAreSound'
  BY <1>2, <1>3 DEF QuietInv, GroupsAreSound, Whole, Unrejected, UnitOfRecord,
                    CannotUnits
<1>8. UnitsStayTogether'
  <2> SUFFICES ASSUME NEW x \in Entity, records[x].link = "User"
               PROVE  HeadOf(x)' = (HeadOf(records[x].head))'
    BY <1>2 DEF UnitsStayTogether
  <2> DEFINE h == records[x].head
  <2>1. h' = h /\ h \in Entity
    BY <1>2, <1>4
  <2>2. HeadOf(x) = HeadOf(h)
    BY <1>3 DEF QuietInv, UnitsStayTogether
  <2> HIDE DEF h
  <2>3. (HeadOf(h))' = IF HeadOf(h) = l THEN w ELSE HeadOf(h)
    BY <1>1, <2>1 DEF HeadOf, Live
  <2>4. HeadOf(x)' = (HeadOf(h))'
    BY <1>1, <2>2, <2>3
  <2> QED
    BY <2>4 DEF h
<1>9. \A x \in Entity \ Pending : HeadOf(x) \in {w, l} => x \in g0
  BY <1>2, <1>3, <1>5 DEF QuietInv, GroupsHoldTheirOwn
<1>10. GroupsHoldTheirOwn'
  <2> SUFFICES ASSUME NEW g \in plan, NEW x \in Entity \ Pending, HeadOf(x)' \in g
               PROVE  x \in g
    BY <1>2 DEF GroupsHoldTheirOwn
  <2>1. CASE HeadOf(x) = l
    BY <1>1, <1>5, <1>9, <2>1
  <2>2. CASE HeadOf(x) # l
    BY <1>1, <1>2, <1>3, <2>2 DEF QuietInv, GroupsHoldTheirOwn
  <2> QED
    BY <2>1, <2>2
<1>11. TogetherForAReason'
  <2> SUFFICES ASSUME NEW x \in Entity \ Pending, NEW y \in Entity \ Pending,
                      HeadOf(x)' = HeadOf(y)', UnitOfRecord(x) # UnitOfRecord(y)
               PROVE  \E g \in plan : x \in g /\ y \in g
    BY <1>2, <1>4 DEF TogetherForAReason
  <2>1. CASE HeadOf(x) = HeadOf(y)
    BY <1>2, <1>3, <2>1 DEF QuietInv, TogetherForAReason
  <2>2. CASE HeadOf(x) # HeadOf(y)
    BY <1>1, <1>5, <1>9, <2>2
  <2> QED
    BY <2>1, <2>2
<1>12. parked = {} => \A g \in plan : \A x \in g : x \in Entity /\ HeadOf(x) \in g
  BY <1>2, <1>3, <1>4 DEF QuietInv, MembersHangOnMembers
<1>13. MembersHangOnMembers'
  <2> SUFFICES ASSUME parked = {}, NEW g \in plan, NEW x \in g
               PROVE  HeadOf(x)' \in g
    BY <1>2 DEF MembersHangOnMembers
  <2> QED
    BY <1>1, <1>5, <1>12
<1>14. OthersAreAlone'
  <2> SUFFICES ASSUME parked = {}, NEW x \in Entity \ Pending, x \notin UNION plan
               PROVE  HeadOf(x)' = IF x \in Behind(plan) THEN x ELSE records[x].head
    BY <1>2 DEF OthersAreAlone, Behind
  <2>1. HeadOf(x) # l
    BY <1>5, <1>9
  <2> QED
    BY <1>1, <1>2, <1>3, <2>1 DEF QuietInv, OthersAreAlone
<1>15. DoneGroupsAreOne'
  <2> SUFFICES ASSUME parked = {}, NEW g \in plan \ left, ~OneHead(g)'
               PROVE  /\ request'[Worker] # None
                      /\ GroupHeads(g)' = {request'[Worker].winner}
                                             \cup request'[Worker].losers
    BY <1>2 DEF DoneGroupsAreOne
  <2>1. \A x \in g : x \in Entity /\ HeadOf(x) \in g
    BY <1>12
  <2>2. \/ OneHead(g)
        \/ GroupHeads(g) = {w} \cup losers
    BY <1>2, <1>3 DEF QuietInv, DoneGroupsAreOne, w, losers
  <2>3. ~OneHead(g)
    BY <1>1, <2>1 DEF OneHead
  <2>4. GroupHeads(g) = {w} \cup losers
    BY <2>2, <2>3
  <2>5. \A x \in g : HeadOf(x)' \in {w} \cup (losers \ {l})
    BY <1>1, <2>1, <2>4 DEF GroupHeads
  <2>6. losers \ {l} # {}
    BY <1>1, <2>5 DEF OneHead
  <2>7. GroupHeads(g)' = {w} \cup (losers \ {l})
    <3>1. \A k \in {w} \cup (losers \ {l}) : \E x \in g : HeadOf(x)' = k
      <4> SUFFICES ASSUME NEW k \in {w} \cup (losers \ {l})
                   PROVE  \E x \in g : HeadOf(x)' = k
        OBVIOUS
      <4>1. k # l /\ k \in GroupHeads(g)
        BY <1>1, <2>4
      <4> QED
        BY <1>1, <2>1, <4>1 DEF GroupHeads
    <3>2. GroupHeads(g)' = {HeadOf(x)' : x \in g}
      BY DEF GroupHeads
    <3> QED
      BY <2>5, <3>1, <3>2
  <2>8. request'[Worker].winner = w /\ request'[Worker].losers = losers \ {l}
    BY <1>1, <2>6
  <2>9. request'[Worker] # None
    BY <1>1, <2>6
  <2> QED
    BY <2>7, <2>8, <2>9
<1> QED
  BY <1>6, <1>7, <1>8, <1>10, <1>11, <1>13, <1>14, <1>15 DEF QuietInv
LEMMA AskedStep ==
    ASSUME PassReads, AskedIsPlanned, [ResolveNext]_allVars
    PROVE  AskedIsPlanned'
<1>0. /\ request \in [Session -> Request \cup {None}] /\ left \subseteq plan
      /\ \A s \in Person : s # Worker
      /\ Worker \in Session
      /\ ResolveTypeOK
  BY SessionAssumption DEF PassReads, PassTypeOK, ResolveTypeOK, TypeOK, Session
<1>1. CASE OpenPlanned
  <2>1. PICK g \in left, w \in Entity : \E losers \in SUBSET Entity :
           /\ Open(Worker, w, losers) /\ {w} \cup losers \subseteq g
           /\ left' = left \ {g}
    BY <1>0, <1>1, OpenPlannedOpens
  <2>2. plan' = plan /\ g \in plan' \ left'
    BY <1>0, <1>1, <2>1 DEF OpenPlanned
  <2>3. {request'[Worker].winner} \cup request'[Worker].losers \subseteq g
    BY <1>0, <2>1 DEF Open
  <2> QED
    BY <2>2, <2>3 DEF AskedIsPlanned
<1>2. CASE MergePlanned
  <2>1. PICK g \in plan \ left, l \in request[Worker].losers :
           /\ {request[Worker].winner} \cup request[Worker].losers \subseteq g
           /\ request'[Worker] # None =>
                 /\ request'[Worker].winner = request[Worker].winner
                 /\ request'[Worker].losers = request[Worker].losers \ {l}
    BY <1>2, PlannedMerge
  <2>2. UNCHANGED <<plan, left>>
    BY <1>2 DEF MergePlanned, passVars
  <2> QED
    BY <2>1, <2>2 DEF AskedIsPlanned
<1>3. CASE AbortPass
  BY <1>0, <1>3 DEF AbortPass, Refuse, AskedIsPlanned
<1>4. CASE ReadRecords \/ MakePlan \/ SkipGroup
  <2>1. request'[Worker] = None
    BY <1>4 DEF ReadRecords, MakePlan, SkipGroup, PassReads, PhasesAreClean, vars
  <2> QED
    BY <2>1 DEF AskedIsPlanned
<1>5. CASE DetachHead \/ Unwind \/ EndUnwind \/ EndDetach \/ Finish \/ UNCHANGED allVars
  BY <1>5 DEF DetachHead, Unwind, EndUnwind, EndDetach, Finish, allVars, passVars,
              vars, AskedIsPlanned
<1>6. CASE People
  <2>1. request'[Worker] = request[Worker] /\ UNCHANGED <<plan, left>>
    BY <1>0, <1>6 DEF People, AskMerge, OpenManual, Open, MergeByHand, MergeNext,
              RefuseByHand, Refuse, SplitByHand, Split, Dismiss, passVars, vars
  <2> QED
    BY <2>1 DEF AskedIsPlanned
<1> QED
  BY <1>1, <1>2, <1>3, <1>4, <1>5, <1>6 DEF ResolveNext, Pass

\* A group that is skipped although nothing is parked is one entity already.
LEMMA SkipGroupQuiet ==
    ASSUME PassReads, QuietInv, SkipGroup, Quiet'
    PROVE  QuietInv'
<1>1. PICK g0 \in left :
         /\ ~(GroupHeads(g0) \subseteq g0) \/ Cardinality(GroupHeads(g0)) < 2
         /\ left' = left \ {g0}
  BY DEF SkipGroup
<1>2. /\ UNCHANGED <<vars, cannotLink, pc, records, plan, behind, wanted, parked,
                     standing, calm>>
      /\ pc = "merge" /\ request[Worker] = None
      /\ UNCHANGED <<mergedInto, audit>>
  BY DEF SkipGroup, vars
<1>3. Quiet /\ Pending' = Pending /\ Pending = parked
  BY <1>2 DEF Quiet, Flat, Pending, PassReads, PhasesAreClean
<1>4. \A x \in Entity : HeadOf(x)' = HeadOf(x) /\ HeadOf(x) \in Entity
  <2>1. \A x \in Entity : HeadOf(x) \in Entity
    BY HeadType DEF PassReads, PassTypeOK, ResolveTypeOK, Lineage
  <2> QED
    BY <1>2, <2>1 DEF HeadOf, Live
<1>5. \A g \in plan : g \subseteq Entity
  BY DEF PassReads, PassTypeOK, ResolveTypeOK
<1>6. parked = {} => OneHead(g0)
  <2> SUFFICES ASSUME parked = {} PROVE OneHead(g0)
    OBVIOUS
  <2>1. GroupHeads(g0) \subseteq g0 /\ g0 \subseteq Entity
    BY <1>2, <1>3, <1>5
    DEF QuietInv, MembersHangOnMembers, GroupHeads, PassReads, PassTypeOK, ResolveTypeOK
  <2>2. IsFiniteSet(GroupHeads(g0)) /\ Cardinality(GroupHeads(g0)) \in Nat
    BY <2>1, TableAssumption, FS_Subset, FS_CardinalityType
  <2>3. Cardinality(GroupHeads(g0)) \in {0, 1}
    BY <1>1, <2>1, <2>2
  <2>4. GroupHeads(g0) = {} \/ \E h : GroupHeads(g0) = {h}
    BY <2>2, <2>3, FS_EmptySet, FS_Singleton
  <2> QED
    BY <2>4 DEF OneHead, GroupHeads
<1>7. DoneGroupsAreOne'
  <2> SUFFICES ASSUME parked = {}, NEW g \in plan, g \notin left \/ g = g0
               PROVE  OneHead(g)'
    BY <1>1, <1>2 DEF DoneGroupsAreOne
  <2>1. OneHead(g)
    BY <1>2, <1>3, <1>6 DEF QuietInv, DoneGroupsAreOne
  <2> QED
    BY <1>4, <1>5, <2>1 DEF OneHead
<1> QED
  BY <1>2, <1>3, <1>7, StillQuiet DEF Early

LEMMA OpenPlannedQuiet ==
    ASSUME PassReads, QuietInv, OpenPlanned, Quiet'
    PROVE  QuietInv'
<1>1. PICK g0 \in left, w \in Entity : \E losers \in SUBSET Entity :
         /\ Open(Worker, w, losers)
         /\ {w} \cup losers = GroupHeads(g0)
         /\ left' = left \ {g0}
  BY OpenPlannedOpens DEF PassReads, PassTypeOK
<1>2. /\ UNCHANGED <<cannotLink, pc, records, plan, behind, wanted, parked,
                     standing, calm>>
      /\ pc = "merge" /\ request[Worker] = None
      /\ UNCHANGED <<mergedInto, audit>>
  BY <1>1 DEF OpenPlanned, Open, rows
<1>3. Quiet /\ Pending' = Pending
  BY <1>2 DEF Quiet, Flat, Pending
<1>4. \A x : HeadOf(x)' = HeadOf(x)
  BY <1>2 DEF HeadOf, Live
<1>5. /\ request'[Worker] # None
      /\ GroupHeads(g0)' = {request'[Worker].winner} \cup request'[Worker].losers
  <2>1. PICK losers \in SUBSET Entity :
           Open(Worker, w, losers) /\ {w} \cup losers = GroupHeads(g0)
    BY <1>1
  <2>2. [winner |-> w, losers |-> losers, at |-> clock + 1] \in Request
    BY <2>1, BoundAssumption
    DEF Open, Request, PassReads, PassTypeOK, ResolveTypeOK, TypeOK
  <2>3. /\ request'[Worker] # None
        /\ request'[Worker].winner = w /\ request'[Worker].losers = losers
    BY <2>1, <2>2, RequestAssumption
    DEF Open, PassReads, PassTypeOK, ResolveTypeOK, TypeOK, Session
  <2>4. GroupHeads(g0)' = GroupHeads(g0)
    BY <1>4 DEF GroupHeads
  <2> QED
    BY <2>1, <2>3, <2>4
<1>6. DoneGroupsAreOne'
  <2> SUFFICES ASSUME parked = {}, NEW g \in plan, g \notin left
               PROVE  OneHead(g)'
    BY <1>1, <1>2, <1>5 DEF DoneGroupsAreOne
  <2>1. OneHead(g)
    BY <1>2, <1>3 DEF QuietInv, DoneGroupsAreOne
  <2> QED
    BY <1>4, <2>1 DEF OneHead
<1> QED
  BY <1>2, <1>3, <1>6, StillQuiet DEF Early
LEMMA OtherQuiet ==
    ASSUME PassReads, QuietInv, Quiet',
           \/ DetachHead \/ EndUnwind \/ EndDetach \/ Finish \/ UNCHANGED allVars
           \/ \E s \in Person : AskMerge(s) \/ RefuseByHand(s)
    PROVE  QuietInv'
<1>0. /\ request \in [Session -> Request \cup {None}] /\ left \subseteq plan
      /\ \A s \in Person : s # Worker /\ s \in Session
      /\ Worker \in Session
  BY SessionAssumption DEF PassReads, PassTypeOK, ResolveTypeOK, TypeOK, Session
<1>1. /\ UNCHANGED <<mergedInto, audit, records, plan, cannotLink, standing, calm, left>>
      /\ request'[Worker] = request[Worker]
      /\ pc # "idle" /\ (pc = "plan" <=> pc' = "plan") /\ (Early' => Early)
  BY <1>0
  DEF DetachHead, EndUnwind, EndDetach, Finish, AskMerge, OpenManual, Open,
      RefuseByHand, Refuse, allVars, vars, rows, passVars, Quiet, Early
<1>2. Pending' = Pending /\ parked \subseteq parked'
  BY DEF DetachHead, EndUnwind, EndDetach, Finish, AskMerge, RefuseByHand, allVars,
         passVars, Pending, PassReads, PhasesAreClean
<1>3. Quiet
  BY <1>1 DEF Quiet, Flat
<1>4. \A x : HeadOf(x)' = HeadOf(x)
  BY <1>1 DEF HeadOf, Live
<1>5. DoneGroupsAreOne'
  <2> SUFFICES ASSUME pc # "plan", parked = {}, NEW g \in plan \ left
               PROVE  \/ OneHead(g)'
                      \/ /\ request'[Worker] # None
                         /\ GroupHeads(g)' = {request'[Worker].winner}
                                                \cup request'[Worker].losers
    BY <1>1, <1>2 DEF DoneGroupsAreOne
  <2>1. \/ OneHead(g)
        \/ /\ request[Worker] # None
           /\ GroupHeads(g) = {request[Worker].winner} \cup request[Worker].losers
    BY <1>3 DEF QuietInv, DoneGroupsAreOne
  <2>2. GroupHeads(g)' = GroupHeads(g) /\ (OneHead(g) => OneHead(g)')
    BY <1>4 DEF GroupHeads, OneHead
  <2> QED
    BY <1>1, <2>1, <2>2
<1> QED
  BY <1>1, <1>2, <1>5, StillQuiet

\* Where the pass is disturbed, or over, or its records are not flat, there is
\* nothing to show.
LEMMA NotQuiet == ~Quiet => QuietInv
BY DEF QuietInv, RowsAreThePasses, GroupsAreSound, UnitsStayTogether,
       GroupsHoldTheirOwn, TogetherForAReason, MembersHangOnMembers, OthersAreAlone,
       DoneGroupsAreOne

PassInv == PassReads /\ AskedIsPlanned /\ QuietInv

LEMMA PassInvStep == PassInv /\ [ResolveNext]_allVars => PassInv'
<1> SUFFICES ASSUME PassInv, [ResolveNext]_allVars PROVE QuietInv'
  BY PassReadsStep, AskedStep DEF PassInv
<1>0. PassReads /\ AskedIsPlanned /\ QuietInv
  BY DEF PassInv
<1>1. CASE ~Quiet'
  BY <1>1, NotQuiet, PTL
<1>2. CASE ReadRecords
  BY <1>0, <1>2, ReadRecordsQuiet
<1>3. CASE MakePlan
  BY <1>0, <1>3, MakePlanQuiet
<1>4. CASE Quiet' /\ Unwind
  BY <1>0, <1>4, UnwindQuiet
<1>5. CASE Quiet' /\ SkipGroup
  BY <1>0, <1>5, SkipGroupQuiet
<1>6. CASE Quiet' /\ OpenPlanned
  BY <1>0, <1>6, OpenPlannedQuiet
<1>7. CASE Quiet' /\ MergePlanned
  BY <1>0, <1>7, MergePlannedQuiet
<1>8. CASE /\ Quiet'
           /\ \/ DetachHead \/ EndUnwind \/ EndDetach \/ Finish \/ UNCHANGED allVars
              \/ \E s \in Person : AskMerge(s) \/ RefuseByHand(s)
  BY <1>0, <1>8, OtherQuiet
<1>9. CASE \/ AbortPass
           \/ \E s \in Person : MergeByHand(s)
           \/ \E l \in Entity : SplitByHand(l)
           \/ \E a, b \in Entity : Dismiss(a, b)
  <2>1. ~Quiet'
    BY <1>9 DEF AbortPass, MergeByHand, SplitByHand, Dismiss, Quiet
  <2> QED
    BY <1>1, <2>1
<1> QED
  BY <1>1, <1>2, <1>3, <1>4, <1>5, <1>6, <1>7, <1>8, <1>9
  DEF ResolveNext, Pass, People

LEMMA PassInvariant == ResolveSpec => []PassInv
<1>1. ResolveInit => PassInv
  <2> SUFFICES ASSUME ResolveInit PROVE PassInv
    OBVIOUS
  <2>1. AskedIsPlanned
    BY DEF ResolveInit, Init, AskedIsPlanned, Session
  <2>2. ~Quiet
    BY DEF ResolveInit, Quiet
  <2> QED
    BY <2>1, <2>2, PassReadsInit, NotQuiet DEF PassInv
<1> QED
  BY <1>1, PassInvStep, PTL DEF ResolveSpec

-----------------------------------------------------------------------------
(* What the pass promises.                                                 *)

\* While nobody disturbs the pass, what a person put together is what the
\* records call a unit.
LEMMA PersonHeadIsTheUnit ==
    ASSUME PassInv, Quiet, NEW x \in Entity
    PROVE  PersonHead(x) = UnitOfRecord(x)
<1> DEFINE up == {m \in audit : m.loser = x /\ m.actor \in Person}
<1>1. \A m, n \in audit : m.loser = n.loser => m = n
  BY DEF PassInv, PassReads, PassTypeOK, Lineage, AuditMatchesPointers
<1>2. /\ \A m \in audit : m \in standing \/ m.actor = Worker
      /\ \A m \in standing \ audit : records[m.loser].link = "Auto"
      /\ \A m \in standing : m.winner = records[m.loser].head
  BY DEF PassInv, QuietInv, RowsAreThePasses, Quiet, Flat
<1>3. /\ records[x].link \in {"Root", "Auto", "User"}
      /\ \A m \in standing : m.actor \in Session
  BY DEF PassInv, PassReads, PassTypeOK, ResolveTypeOK, Record, MergeRow
<1>4. /\ records[x].link = "Root" <=> \A m \in standing : m.loser # x
      /\ \A m \in standing :
            m.loser = x => (records[x].link = "Auto" <=> m.actor = Worker)
  BY DEF PassInv, PassReads, RecordsAreTrue
<1>5. CASE records[x].link = "User"
  <2>1. PICK m \in standing : m.loser = x
    BY <1>4, <1>5
  <2>2. m \in audit /\ m.actor \in Person /\ m.winner = records[x].head
    BY <1>2, <1>3, <1>4, <1>5, <2>1 DEF Session
  <2>3. up = {m}
    BY <1>1, <2>1, <2>2
  <2> QED
    BY <1>5, <2>2, <2>3 DEF PersonHead, UnitOfRecord
<1>6. CASE records[x].link # "User"
  <2>1. up = {}
    BY <1>2, <1>3, <1>4, <1>6, SessionAssumption
  <2> QED
    BY <1>6, <2>1 DEF PersonHead, UnitOfRecord
<1> QED
  BY <1>5, <1>6

\* A dismissed pair is not in one planned group, unless as one unit.
LEMMA DismissedAreApart ==
    ASSUME PassInv, Quiet, NEW p \in cannotLink, NEW x \in p, NEW y \in p,
           NEW g \in plan, x \in g, y \in g
    PROVE  UnitOfRecord(x) = UnitOfRecord(y)
<1> SUFFICES ASSUME UnitOfRecord(x) # UnitOfRecord(y) PROVE FALSE
  OBVIOUS
<1>1. p \subseteq Entity /\ Cardinality(p) = 2
  BY DEF PassInv, PassReads, PassTypeOK, ResolveTypeOK, Pairs
<1>2. IsFiniteSet(p)
  BY <1>1, TableAssumption, FS_Subset
<1>3. {x, y} \in Pairs(Entity)
  BY <1>1, PairType
<1>4. p = {x, y}
  BY <1>1, <1>2, <1>3, FS_Subset DEF Pairs
<1>5. {UnitOfRecord(x), UnitOfRecord(y)} \in CannotUnits
  BY <1>4 DEF CannotUnits
<1> QED
  BY <1>5 DEF PassInv, QuietInv, GroupsAreSound, Unrejected

LEMMA PassInvIsSound == PassInv => ResolveIsSound
<1> SUFFICES ASSUME PassInv, pc = "done", calm, Flat,
                    NEW p \in cannotLink, NEW x \in p, NEW y \in p,
                    HeadOf(x) = HeadOf(y), {x, y} \cap parked = {}
             PROVE  PersonHead(x) = PersonHead(y)
  BY DEF PassInv, PassReads, PassTypeOK, ResolveIsSound, DifferentStayApart
<1>1. Quiet /\ Pending = parked
  BY DEF Quiet, Pending, PassInv, PassReads, PhasesAreClean
<1>2. x \in Entity \ Pending /\ y \in Entity \ Pending
  BY <1>1 DEF PassInv, PassReads, PassTypeOK, ResolveTypeOK, Pairs
<1>3. UnitOfRecord(x) = UnitOfRecord(y) \/ \E g \in plan : x \in g /\ y \in g
  BY <1>1, <1>2 DEF PassInv, QuietInv, TogetherForAReason
<1>4. UnitOfRecord(x) = UnitOfRecord(y)
  BY <1>1, <1>3, DismissedAreApart
<1> QED
  BY <1>1, <1>2, <1>4, PersonHeadIsTheUnit

\* After an undisturbed pass over flat records a dismissed pair is apart, unless
\* a person joined it or one of the two is reported as a merge that could not be
\* withdrawn (entity_resolution_pass).
THEOREM DismissalsLast == ResolveSpec => []ResolveIsSound
BY PassInvariant, PassInvIsSound, PTL

\* No merge of an undisturbed pass over flat records brings a dismissed pair
\* together, but for entities that hang on one of its heads and that the pass has
\* reported (entity_resolution_pass).
THEOREM OnlyReportedJoin == ResolveSpec => OnlyReportedJoinDifferent
<1> DEFINE A == AutoMergeStep /\ calm /\ Flat =>
                   \A p \in cannotLink : \A x, y \in p :
                      Joins(x, y) => {x, y} \cap parked # {}
<1>1. PassInv /\ [ResolveNext]_allVars => [A]_allVars
  <2> SUFFICES ASSUME PassInv, ResolveNext, AutoMergeStep, calm, Flat,
                      NEW p \in cannotLink, NEW x \in p, NEW y \in p, Joins(x, y),
                      {x, y} \cap parked = {}
               PROVE  FALSE
    OBVIOUS
  <2>1. ASSUME NEW s \in Person, MergeByHand(s) PROVE FALSE
    <3>1. s \in Session /\ MergeNext(s) /\ s # Worker
      BY <2>1, SessionAssumption DEF MergeByHand, Session
    <3>2. \E m \in audit' : audit' = audit \cup {m} /\ m.actor = s
      BY <3>1, RowMade DEF PassInv, PassReads
    <3> QED
      BY <3>1, <3>2 DEF AutoMergeStep
  <2>2. MergePlanned
    BY <2>1 DEF AutoMergeStep, ResolveNext, Pass, People, ReadRecords, MakePlan,
     DetachHead, Unwind, UnmergeCore, EndUnwind, EndDetach, SkipGroup, OpenPlanned,
     Open, AbortPass, Refuse, Finish, AskMerge, OpenManual, RefuseByHand, SplitByHand,
     Split, Dismiss, rows, vars
  <2>3. Quiet /\ pc # "plan" /\ Pending = parked
    BY <2>2 DEF MergePlanned, Quiet, Pending, PassInv, PassReads, PhasesAreClean
  <2>4. x \in Entity \ Pending /\ y \in Entity \ Pending
    BY <2>3 DEF PassInv, PassReads, PassTypeOK, ResolveTypeOK, Pairs
  <2>5. PICK g \in plan \ left, l \in request[Worker].losers :
           /\ {request[Worker].winner} \cup request[Worker].losers \subseteq g
           /\ \A z \in Entity : HeadOf(z)' =
                 IF HeadOf(z) = l THEN request[Worker].winner ELSE HeadOf(z)
    BY <2>2, PlannedMerge DEF PassInv
  <2>6. HeadOf(x) \in g /\ HeadOf(y) \in g
    BY <2>4, <2>5 DEF Joins
  <2>7. x \in g /\ y \in g
    BY <2>3, <2>4, <2>6 DEF PassInv, QuietInv, GroupsHoldTheirOwn
  <2>8. UnitOfRecord(x) = UnitOfRecord(y)
    BY <2>3, <2>7, DismissedAreApart
  <2>9. \A z \in {x, y} : HeadOf(UnitOfRecord(z)) = HeadOf(z)
    BY <2>3, <2>4 DEF PassInv, QuietInv, UnitsStayTogether, UnitOfRecord
  <2> QED
    BY <2>8, <2>9 DEF Joins
<1>2. [][A]_allVars <=> OnlyReportedJoinDifferent
  BY DEF OnlyReportedJoinDifferent
<1> QED
  BY <1>1, <1>2, PassInvariant, PTL DEF ResolveSpec
\* Where the plan applied in memory puts an entity.
LEMMA SimulatedHeads ==
    ASSUME PassInv, Quiet, pc = "done", parked = {}
    PROVE  /\ \A g \in plan : \A x, y \in g :
                 SimulatedHead(x) = SimulatedHead(y) /\ SimulatedHead(x) \in g
           /\ \A x \in Entity : x \notin UNION plan =>
                 SimulatedHead(x) = HeadOf(x) /\ HeadOf(x) \notin UNION plan
<1> DEFINE headNow(y) == IF y \in Behind(plan) THEN y ELSE records[y].head
<1>1. Pending = {}
  BY DEF Pending, PassInv, PassReads, PhasesAreClean
<1>2. /\ \A g \in plan : g \subseteq Entity /\ Whole(g)
      /\ \A g, k \in plan : g \cap k # {} => g = k
  BY DEF PassInv, QuietInv, GroupsAreSound, PassReads, PassTypeOK, ResolveTypeOK
<1>3. \A x \in Entity :
         /\ records[x].head \in Entity /\ records[x].link \in {"Root", "Auto", "User"}
         /\ records[x].link = "Root" => records[x].head = x
         /\ UnitOfRecord(records[x].head) = records[x].head
         /\ records[x].link = "User" => UnitOfRecord(x) = records[x].head
  BY UnitFacts DEF PassInv, PassReads, PassTypeOK, ResolveTypeOK, Record, UnitOfRecord
<1>4. ASSUME NEW g \in plan, NEW x \in Entity
      PROVE  headNow(x) \in g <=> x \in g
  <2>1. CASE x \in Behind(plan)
    BY <2>1
  <2>2. CASE x \notin Behind(plan) /\ records[x].link = "Auto"
    <3>1. PICK k \in plan : x \in k /\ records[x].head \in k
      BY <2>2 DEF Behind
    <3> QED
      BY <1>2, <2>2, <3>1
  <2>3. CASE x \notin Behind(plan) /\ records[x].link = "User"
    BY <1>2, <1>3, <2>3 DEF Whole
  <2>4. CASE x \notin Behind(plan) /\ records[x].link = "Root"
    BY <1>3, <2>4
  <2> QED
    BY <1>3, <2>1, <2>2, <2>3, <2>4
<1>5. \A x \in Entity : headNow(x) \in Entity
  BY <1>3
<1>6. \A x : SimulatedHead(x) =
         IF \E g \in plan : x \in g
           THEN Survivor({headNow(y) : y \in CHOOSE g \in plan : x \in g})
           ELSE headNow(x)
  BY DEF SimulatedHead
<1> HIDE DEF headNow
<1>7. ASSUME NEW g \in plan, NEW x \in g
      PROVE  /\ SimulatedHead(x) = Survivor({headNow(y) : y \in g})
             /\ SimulatedHead(x) \in g
  <2>1. (CHOOSE k \in plan : x \in k) = g
    BY <1>2
  <2>2. SimulatedHead(x) = Survivor({headNow(y) : y \in g})
    BY <1>6, <2>1
  <2> DEFINE heads == {headNow(y) : y \in g}
  <2>3. heads \subseteq g /\ heads # {} /\ heads \in SUBSET Entity
    BY <1>2, <1>4, <1>5
  <2> HIDE DEF heads
  <2>4. Survivor(heads) \in g
    BY <2>3, SurvivorIsAHead
  <2> QED
    BY <2>2, <2>4 DEF heads
<1>8. ASSUME NEW x \in Entity, x \notin UNION plan
      PROVE  SimulatedHead(x) = HeadOf(x) /\ HeadOf(x) \notin UNION plan
  <2>1. SimulatedHead(x) = headNow(x)
    BY <1>6, <1>8
  <2>2. HeadOf(x) = headNow(x)
    BY <1>1, <1>8 DEF headNow, PassInv, QuietInv, OthersAreAlone
  <2> QED
    BY <1>4, <1>8, <2>1, <2>2
<1> QED
  BY <1>7, <1>8

LEMMA PassInvEndsAsPlanned == PassInv => FlatPassEndsAsPlanned
<1> SUFFICES ASSUME PassInv, pc = "done", calm, Flat, parked = {}
             PROVE  AsPlanned
  BY DEF FlatPassEndsAsPlanned
<1>1. Quiet /\ left = {} /\ request[Worker] = None /\ Pending = {}
  BY DEF Quiet, PassInv, PassReads, PhasesAreClean, Pending
<1>2. ASSUME NEW g \in plan, NEW x \in g, NEW y \in g
      PROVE  HeadOf(x) = HeadOf(y) /\ HeadOf(x) \in g
  BY <1>1, <1>2 DEF PassInv, QuietInv, DoneGroupsAreOne, OneHead, MembersHangOnMembers
<1>3. \A g, k \in plan : g \cap k # {} => g = k
  BY <1>1 DEF PassInv, QuietInv, GroupsAreSound
<1> SUFFICES ASSUME NEW x \in Entity, NEW y \in Entity
             PROVE  HeadOf(x) = HeadOf(y) <=> SimulatedHead(x) = SimulatedHead(y)
  BY DEF AsPlanned
<1>4. /\ \A g \in plan : \A u, v \in g :
            SimulatedHead(u) = SimulatedHead(v) /\ SimulatedHead(u) \in g
      /\ \A u \in Entity : u \notin UNION plan =>
            SimulatedHead(u) = HeadOf(u) /\ HeadOf(u) \notin UNION plan
  BY <1>1, SimulatedHeads
<1>5. CASE x \in UNION plan
  <2>1. PICK g \in plan : x \in g
    BY <1>5
  <2>2. HeadOf(x) \in g /\ SimulatedHead(x) \in g
    BY <1>2, <1>4, <2>1
  <2>3. CASE y \in g
    BY <1>2, <1>4, <2>1, <2>3
  <2>4. CASE y \notin g
    <3>1. HeadOf(y) \notin g /\ SimulatedHead(y) \notin g
      BY <1>2, <1>3, <1>4, <2>4
    <3> QED
      BY <2>2, <3>1
  <2> QED
    BY <2>3, <2>4
<1>6. CASE x \notin UNION plan
  <2>1. SimulatedHead(x) = HeadOf(x) /\ HeadOf(x) \notin UNION plan
    BY <1>4, <1>6
  <2>2. CASE y \in UNION plan
    <3>1. HeadOf(y) \in UNION plan /\ SimulatedHead(y) \in UNION plan
      BY <1>2, <1>4, <2>2
    <3> QED
      BY <2>1, <3>1
  <2>3. CASE y \notin UNION plan
    BY <1>4, <2>1, <2>3
  <2> QED
    BY <2>2, <2>3
<1> QED
  BY <1>5, <1>6

\* An undisturbed pass over flat records that had nothing to report leaves the
\* partition that the plan, applied in memory, gives (simulate_apply): no group
\* is left half done and no withdrawal leaves a trace.
THEOREM PassEndsAsPlanned == ResolveSpec => []FlatPassEndsAsPlanned
BY PassInvariant, PassInvEndsAsPlanned, PTL

\* A pass heeds what people decided, also while it runs: the merges they made
\* stand, and dismissed pairs stay apart but for what it reports (resolve.rs).
THEOREM DecisionsAreHeeded == ResolveSpec => DecisionsStand
BY PersonsMergesStand, OnlyReportedJoin DEF DecisionsStand
=============================================================================
