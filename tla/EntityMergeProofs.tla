-------------------------- MODULE EntityMergeProofs --------------------------
(***************************************************************************)
(* What holds of EntityMerge for any number of entities, units, edges,     *)
(* sessions and requests.                                                  *)
(***************************************************************************)
EXTENDS EntityMerge, TLAPS

-----------------------------------------------------------------------------
(* Types.                                                                  *)

LEMMA RepointType ==
    ASSUME NEW e \in EdgeRow, NEW from \in Entity, NEW to \in Entity
    PROVE  Repoint(e, from, to) \in EdgeRow /\ Repoint(e, from, to).id = e.id
BY DEF Repoint, EdgeRow

LEMMA JournalType ==
    ASSUME TypeOK, NEW w \in Entity, NEW l \in Entity
    PROVE  JournalOf(w, l) \in Journal
<1>1. UnitsOf(l) \in SUBSET Unit
  BY DEF UnitsOf
<1>2. {e.id : e \in {k \in KeptEdges(w, l) : k.src = l}} \in SUBSET Edge
  BY DEF TypeOK, EdgeRow, KeptEdges
<1>3. {e.id : e \in {k \in KeptEdges(w, l) : k.tgt = l}} \in SUBSET Edge
  BY DEF TypeOK, EdgeRow, KeptEdges
<1>4. DeletedEdges(w, l) \in SUBSET EdgeRow
  BY DEF TypeOK, DeletedEdges, SelfLoops, Duplicates
<1>5. ({l} \cup aliases[l]) \ aliases[w] \in SUBSET Name
  BY DEF TypeOK, Name
<1>6. LoserAliases(l) \in SUBSET Name
  BY DEF TypeOK, LoserAliases
<1>7. Descendants(l) \in SUBSET Entity
  BY DEF Descendants
<1> QED
  BY <1>1, <1>2, <1>3, <1>4, <1>5, <1>6, <1>7 DEF JournalOf, Journal

LEMMA MergeType ==
    ASSUME TypeOK, NEW w \in Entity, NEW l \in Entity,
           NEW at \in 1..MaxRequests, NEW s \in Session,
           MergeEntities(w, l, at, s)
    PROVE  /\ mergedInto' \in [Entity -> Entity \cup {None}]
           /\ aliases' \in [Entity -> SUBSET Name]
           /\ subject' \in [Unit -> Entity \cup {None}]
           /\ edges' \subseteq EdgeRow
           /\ audit' \subseteq MergeRow
           /\ dropped' \subseteq Edge /\ doubled' \subseteq Edge
<1>1. mergedInto' \in [Entity -> Entity \cup {None}]
  BY DEF TypeOK, MergeEntities, PointersAfter
<1>2. aliases' \in [Entity -> SUBSET Name]
  BY DEF TypeOK, MergeEntities, Name
<1>3. subject' \in [Unit -> Entity \cup {None}]
  BY DEF TypeOK, MergeEntities
<1>4. edges' \subseteq EdgeRow
  BY RepointType DEF TypeOK, MergeEntities, KeptEdges
<1>5. audit' \subseteq MergeRow
  BY JournalType DEF TypeOK, MergeEntities, MergeRow
<1>6. dropped' \subseteq Edge /\ doubled' \subseteq Edge
  BY DEF TypeOK, MergeEntities, SelfLoops, Duplicates, EdgeRow
<1> QED
  BY <1>1, <1>2, <1>3, <1>4, <1>5, <1>6

LEMMA UnmergeType ==
    ASSUME TypeOK, NEW m \in audit, UnmergeCore(m)
    PROVE  /\ mergedInto' \in [Entity -> Entity \cup {None}]
           /\ aliases' \in [Entity -> SUBSET Name]
           /\ subject' \in [Unit -> Entity \cup {None}]
           /\ edges' \subseteq EdgeRow
           /\ audit' \subseteq MergeRow
<1>0. /\ m.winner \in Entity /\ m.loser \in Entity
      /\ m.undo.deleted \subseteq EdgeRow
      /\ m.undo.loserAliases \subseteq Name
  BY DEF TypeOK, MergeRow, Journal
<1>1. mergedInto' \in [Entity -> Entity \cup {None}]
  BY <1>0 DEF TypeOK, UnmergeCore
<1>2. aliases' \in [Entity -> SUBSET Name]
  BY <1>0 DEF TypeOK, UnmergeCore
<1>3. subject' \in [Unit -> Entity \cup {None}]
  BY <1>0 DEF TypeOK, UnmergeCore
<1>4. MovedBack(m) \subseteq EdgeRow
  <2>1. ASSUME NEW e \in edges
        PROVE  [e EXCEPT !.src = IF e.id \in m.undo.sources /\ @ = m.winner
                                   THEN m.loser ELSE @,
                         !.tgt = IF e.id \in m.undo.targets /\ @ = m.winner
                                   THEN m.loser ELSE @] \in EdgeRow
    <3>1. e \in EdgeRow
      BY DEF TypeOK
    <3> QED
      BY <1>0, <3>1 DEF EdgeRow
  <2> QED
    BY <2>1 DEF MovedBack
<1>5. edges' \subseteq EdgeRow
  BY <1>0, <1>4 DEF UnmergeCore, Reinserted
<1>6. audit' \subseteq MergeRow
  BY DEF TypeOK, UnmergeCore
<1> QED
  BY <1>1, <1>2, <1>3, <1>5, <1>6

LEMMA InitType == Init => TypeOK
BY BoundAssumption DEF Init, TypeOK, Session

\* A request is well formed when it is opened and stays so while it is served.
LEMMA OpenType ==
    ASSUME TypeOK, NEW s \in Session, NEW w \in Entity,
           NEW losers \in SUBSET Entity, Open(s, w, losers)
    PROVE  TypeOK'
<1>1. clock' \in 0..MaxRequests /\ clock + 1 \in 1..MaxRequests
  BY BoundAssumption DEF TypeOK, Open
<1>2. [winner |-> w, losers |-> losers, at |-> clock + 1] \in Request
  BY <1>1 DEF Request
<1>3. request' \in [Session -> Request \cup {None}]
  BY <1>2 DEF TypeOK, Open
<1> QED
  BY <1>1, <1>3 DEF TypeOK, Open, rows, history, deletions

LEMMA MergeNextType ==
    ASSUME TypeOK, NEW s \in Session, MergeNext(s)
    PROVE  TypeOK'
<1> DEFINE r == request[s]
<1>1. r \in Request
  BY DEF TypeOK, MergeNext
<1>2. PICK l \in r.losers :
        /\ MergeEntities(r.winner, l, r.at, s)
        /\ request' = [request EXCEPT ![s] =
             IF r.losers \ {l} = {} THEN None
                                  ELSE [r EXCEPT !.losers = r.losers \ {l}]]
        /\ busy' = IF r.losers \ {l} = {} THEN None ELSE s
  BY DEF MergeNext
<1>3. r.winner \in Entity /\ l \in Entity /\ r.at \in 1..MaxRequests
  BY <1>1, <1>2 DEF Request
<1>4. /\ mergedInto' \in [Entity -> Entity \cup {None}]
      /\ aliases' \in [Entity -> SUBSET Name]
      /\ subject' \in [Unit -> Entity \cup {None}]
      /\ edges' \subseteq EdgeRow
      /\ audit' \subseteq MergeRow
      /\ dropped' \subseteq Edge /\ doubled' \subseteq Edge
  BY <1>2, <1>3, MergeType
<1>5. [r EXCEPT !.losers = r.losers \ {l}] \in Request
  BY <1>1 DEF Request
<1>6. request' \in [Session -> Request \cup {None}]
  BY <1>2, <1>5 DEF TypeOK
<1>7. busy' \in Session \cup {None}
  BY <1>2
<1>8. UNCHANGED <<status, clock, about, asserted>>
  BY DEF MergeNext, history, deletions
<1> QED
  BY <1>4, <1>6, <1>7, <1>8 DEF TypeOK

LEMMA UndoType ==
    ASSUME TypeOK, NEW m \in audit, UnmergeCore(m),
           UNCHANGED <<status, request, busy, clock, history, deletions>>
    PROVE  TypeOK'
BY UnmergeType DEF TypeOK, history, deletions

LEMMA AddAliasType ==
    ASSUME TypeOK, NEW x \in Entity, NEW n \in Nickname, AddAlias(x, n)
    PROVE  TypeOK'
<1>1. aliases' \in [Entity -> SUBSET Name]
  BY DEF TypeOK, AddAlias, Name
<1> QED
  BY <1>1 DEF TypeOK, AddAlias, history, deletions

LEMMA ExtractType ==
    ASSUME TypeOK, NEW u \in Unit, NEW x \in Entity, NEW I \in SUBSET Edge,
           NEW ends \in [I -> EndPoints], Extract(u, x, ends)
    PROVE  TypeOK'
<1>1. /\ status' \in [Unit -> {None, "active", "retracted"}]
      /\ subject' \in [Unit -> Entity \cup {None}]
      /\ about' \in [Unit -> Entity \cup {None}]
  BY DEF TypeOK, Extract
<1>2. edges' \subseteq EdgeRow
  BY DEF TypeOK, Extract, EdgeRow, EndPoints
<1>3. asserted' \in [Edge -> EndPoints \cup {None}]
  BY DEF TypeOK, Extract
<1> QED
  BY <1>1, <1>2, <1>3 DEF TypeOK, Extract, deletions

LEMMA SetUnitStatusType ==
    ASSUME TypeOK, NEW u \in Unit, NEW from, NEW to \in {"active", "retracted"},
           SetUnitStatus(u, from, to)
    PROVE  TypeOK'
<1>1. status' \in [Unit -> {None, "active", "retracted"}]
  BY DEF TypeOK, SetUnitStatus
<1>2. edges' \subseteq EdgeRow
  BY DEF TypeOK, SetUnitStatus, EdgeRow
<1> QED
  BY <1>1, <1>2 DEF TypeOK, SetUnitStatus, history, deletions

LEMMA NextType ==
    ASSUME TypeOK, [Next]_vars
    PROVE  TypeOK'
<1>1. CASE \E s \in Person : OpenManual(s)
  BY <1>1, OpenType DEF OpenManual, Session
<1>2. CASE OpenGroup
  BY <1>2, OpenType DEF OpenGroup, Session
<1>3. CASE \E s \in Session : MergeNext(s)
  BY <1>3, MergeNextType
<1>4. CASE \E s \in Session : Refuse(s)
  BY <1>4 DEF Refuse, TypeOK, rows, history, deletions
<1>5. CASE \E l \in Entity : Split(l)
  BY <1>5, UndoType DEF Split
<1>6. CASE \E l \in Entity : WithdrawMerge(l)
  BY <1>6, UndoType DEF WithdrawMerge
<1>7. CASE \E x \in Entity, n \in Nickname : AddAlias(x, n)
  BY <1>7, AddAliasType
<1>8. CASE \E u \in Unit, x \in Entity :
             \E I \in SUBSET {i \in Edge : UnitOf[i] = u} :
                \E ends \in [I -> EndPoints] : Extract(u, x, ends)
  BY <1>8, ExtractType
<1>9. CASE \E u \in Unit : Reject(u) \/ Restore(u)
  BY <1>9, SetUnitStatusType DEF Reject, Restore
<1>10. CASE UNCHANGED vars
  BY <1>10 DEF vars, TypeOK
<1> QED
  BY <1>1, <1>2, <1>3, <1>4, <1>5, <1>6, <1>7, <1>8, <1>9, <1>10 DEF Next

\* The rows of merge.rs keep their shape: whatever is merged and taken apart,
\* pointers, journals and requests name entities, units, edges and aliases.
THEOREM TypeCorrect == Spec => []TypeOK
BY InitType, NextType, PTL DEF Spec

-----------------------------------------------------------------------------
(* Heads before and after.                                                 *)

LEMMA RowType ==
    ASSUME TypeOK, NEW m \in audit
    PROVE  /\ m.winner \in Entity /\ m.loser \in Entity
           /\ m.undo.descendants \subseteq Entity
BY DEF TypeOK, MergeRow, Journal

LEMMA HeadType ==
    ASSUME TypeOK, OneLevelDeep, NEW x \in Entity
    PROVE  HeadOf(x) \in Entity /\ Live(HeadOf(x)) /\ None \notin Entity
BY EntityAssumption DEF TypeOK, OneLevelDeep, HeadOf, Live

\* A merge of l into w moves to w whatever led to l, and nothing else.
LEMMA MergeHeads ==
    ASSUME TypeOK, OneLevelDeep, NEW w \in Entity, NEW l \in Entity, w # l,
           Live(w), Live(l), mergedInto' = PointersAfter(w, l),
           NEW x \in Entity
    PROVE  /\ Live(x)' <=> Live(x) /\ x # l
           /\ HeadOf(x)' = IF HeadOf(x) = l THEN w ELSE HeadOf(x)
           /\ x \in Descendants(l) <=> x # l /\ HeadOf(x) = l
BY EntityAssumption
   DEF TypeOK, OneLevelDeep, Live, HeadOf, PointersAfter, Descendants

\* The row of a merge that can be undone.
LEMMA TopRow ==
    ASSUME TypeOK, Lineage, NEW m \in audit, CanUnmerge(m)
    PROVE  /\ m.loser # m.winner
           /\ ~Live(m.loser) /\ HeadOf(m.loser) = m.winner
           /\ \A n \in audit : n # m => n.loser # m.loser
           /\ \A n \in audit : m.loser \notin n.undo.descendants
<1>1. ~Live(m.loser) /\ HeadOf(m.loser) = m.winner /\ m.loser # m.winner
  BY RowType, EntityAssumption DEF CanUnmerge, Live, HeadOf
<1>2. \A n \in audit : n # m => n.loser # m.loser
  BY DEF Lineage, AuditMatchesPointers
<1>3. ASSUME NEW n \in audit
      PROVE  m.loser \notin n.undo.descendants
  <2>1. m.winner \notin n.undo.descendants
    BY DEF Lineage, BranchesStayWhole, CanUnmerge
  <2>2. m.winner # n.loser
    BY RowType DEF Lineage, AuditMatchesPointers, CanUnmerge
  <2> QED
    BY <2>1, <2>2 DEF Lineage, DescendantsAreBelow
<1> QED
  BY <1>1, <1>2, <1>3

\* An unmerge takes the loser and its journaled descendants off the winner.
LEMMA UnmergeHeads ==
    ASSUME TypeOK, Lineage, NEW m \in audit, UnmergeCore(m), NEW x \in Entity
    PROVE  /\ Live(x)' <=> Live(x) \/ x = m.loser
           /\ HeadOf(x)' = IF x \in m.undo.descendants \cup {m.loser}
                             THEN m.loser ELSE HeadOf(x)
<1>1. m.winner \in Entity /\ m.loser \in Entity /\ None \notin Entity
  BY RowType, EntityAssumption
<1>2. m.loser # m.winner /\ HeadOf(m.loser) = m.winner
  BY TopRow DEF UnmergeCore
<1>3. m.loser \notin m.undo.descendants
  BY TopRow DEF UnmergeCore
<1>4. x \in m.undo.descendants => ~Live(x) /\ mergedInto[x] = m.winner
  BY <1>2 DEF Lineage, BranchesStayWhole, HeadOf
<1>5. mergedInto'[x] = IF x = m.loser THEN None
                       ELSE IF x \in m.undo.descendants THEN m.loser
                       ELSE mergedInto[x]
  BY <1>4 DEF UnmergeCore
<1> QED
  BY <1>1, <1>3, <1>4, <1>5 DEF Live, HeadOf

-----------------------------------------------------------------------------
(* The lineage of merged entities.                                         *)

\* What Lineage says without the requests.
Forest == /\ OneLevelDeep
          /\ AuditMatchesPointers
          /\ DescendantsAreBelow
          /\ BranchesStayWhole

LEMMA MergeKeepsForest ==
    ASSUME TypeOK, Lineage, NEW w \in Entity, NEW l \in Entity, w # l,
           Live(w), Live(l), NEW at, NEW s, MergeEntities(w, l, at, s)
    PROVE  Forest'
<1> DEFINE r == [winner |-> w, loser |-> l, at |-> at, actor |-> s,
                 undo |-> JournalOf(w, l)]
<1>0. /\ r.winner = w /\ r.loser = l
      /\ r.undo.descendants = Descendants(l)
      /\ audit' = audit \cup {r}
  BY DEF MergeEntities, JournalOf
<1> HIDE DEF r
<1>1. ASSUME NEW x \in Entity
      PROVE  /\ Live(x)' <=> Live(x) /\ x # l
             /\ HeadOf(x)' = IF HeadOf(x) = l THEN w ELSE HeadOf(x)
             /\ x \in Descendants(l) <=> x # l /\ HeadOf(x) = l
  BY MergeHeads DEF MergeEntities, Lineage
<1>2. HeadOf(w) = w /\ HeadOf(l) = l
  BY DEF HeadOf
\* Nothing below an older row, nor its loser, is live.
<1>3. ASSUME NEW m \in audit
      PROVE  /\ m.winner \in Entity /\ m.loser \in Entity
             /\ m.undo.descendants \subseteq Entity
             /\ ~Live(m.loser) /\ HeadOf(m.winner) = HeadOf(m.loser)
             /\ \A x \in m.undo.descendants :
                    ~Live(x) /\ HeadOf(x) = HeadOf(m.loser)
  BY RowType DEF Lineage, AuditMatchesPointers, BranchesStayWhole
<1>4. OneLevelDeep'
  <2> SUFFICES ASSUME NEW x \in Entity, ~Live(x)'
               PROVE  Live(mergedInto[x])'
    BY DEF OneLevelDeep
  <2>1. mergedInto'[x] \in Entity /\ mergedInto'[x] = HeadOf(x)'
    BY MergeType, EntityAssumption DEF HeadOf, Live, MergeEntities,
       PointersAfter, TypeOK
  <2>2. Live(HeadOf(x)) /\ HeadOf(x) \in Entity
    BY HeadType DEF Lineage
  <2> QED
    BY <1>1, <2>1, <2>2
<1>5. AuditMatchesPointers'
  <2>1. \A x \in Entity : Live(x)' <=> \A m \in audit' : m.loser # x
    BY <1>0, <1>1 DEF Lineage, AuditMatchesPointers
  <2>2. \A m, n \in audit' : m.loser = n.loser => m = n
    BY <1>0, <1>3 DEF Lineage, AuditMatchesPointers
  <2>3. \A m \in audit' : HeadOf(m.loser)' = HeadOf(m.winner)'
    BY <1>0, <1>1, <1>2, <1>3
  <2> QED
    BY <2>1, <2>2, <2>3 DEF AuditMatchesPointers
<1>6. DescendantsAreBelow'
  <2> SUFFICES ASSUME NEW m \in audit', NEW n \in audit'
               PROVE  n.loser \in m.undo.descendants
                        <=> n.winner \in m.undo.descendants \cup {m.loser}
    BY DEF DescendantsAreBelow
  <2>1. CASE m \in audit /\ n \in audit
    BY <2>1 DEF Lineage, DescendantsAreBelow
  <2>2. CASE m \in audit /\ n = r
    BY <2>2, <1>0, <1>3
  <2>3. CASE m = r /\ n \in audit
    BY <2>3, <1>0, <1>1, <1>2, <1>3
  <2>4. CASE m = r /\ n = r
    BY <2>4, <1>0, <1>1, <1>2
  <2> QED
    BY <1>0, <2>1, <2>2, <2>3, <2>4
<1>7. BranchesStayWhole'
  <2>1. ASSUME NEW m \in audit', NEW x \in m.undo.descendants
        PROVE  ~Live(x)' /\ HeadOf(x)' = HeadOf(m.loser)'
    <3>1. CASE m \in audit
      BY <3>1, <1>1, <1>3
    <3>2. CASE m = r
      <4>1. x \in Entity /\ x # l /\ HeadOf(x) = l
        BY <3>2, <1>0, <1>1 DEF Descendants
      <4>2. ~Live(x)
        BY <4>1 DEF HeadOf
      <4> QED
        BY <3>2, <4>1, <4>2, <1>0, <1>1, <1>2
    <3> QED
      BY <1>0, <3>1, <3>2
  <2>2. ASSUME NEW m \in audit', NEW n \in audit', m # n,
               m.loser \notin n.undo.descendants,
               NEW x \in n.undo.descendants
        PROVE  x \in m.undo.descendants <=> n.loser \in m.undo.descendants
    <3>1. CASE m \in audit /\ n \in audit
      BY <3>1, <2>2 DEF Lineage, BranchesStayWhole
    <3>2. CASE m \in audit /\ n = r
      <4>1. x \in Entity /\ HeadOf(x) = l
        BY <3>2, <1>0, <1>1, <2>2 DEF Descendants
      <4>2. HeadOf(m.loser) # l
        BY <3>2, <1>0, <1>1, <1>3, <2>2
      <4> QED
        BY <3>2, <4>1, <4>2, <1>0, <1>3
    <3>3. CASE m = r /\ n \in audit
      BY <3>3, <1>0, <1>1, <1>3, <2>2
    <3> QED
      BY <1>0, <2>2, <3>1, <3>2, <3>3
  <2> QED
    BY <2>1, <2>2 DEF BranchesStayWhole
<1> QED
  BY <1>4, <1>5, <1>6, <1>7 DEF Forest

LEMMA UnmergeKeepsForest ==
    ASSUME TypeOK, Lineage, NEW m \in audit, UnmergeCore(m)
    PROVE  Forest'
<1> DEFINE D == m.undo.descendants
           l == m.loser
<1>0. audit' = audit \ {m}
  BY DEF UnmergeCore
<1>1. ASSUME NEW x \in Entity
      PROVE  /\ Live(x)' <=> Live(x) \/ x = l
             /\ HeadOf(x)' = IF x \in D \cup {l} THEN l ELSE HeadOf(x)
  BY UnmergeHeads
<1>2. /\ l \in Entity /\ l \notin D
      /\ \A n \in audit' : n.loser # l /\ l \notin n.undo.descendants
  BY <1>0, RowType, TopRow DEF UnmergeCore
<1> HIDE DEF D, l
<1>3. ASSUME NEW n \in audit'
      PROVE  /\ n \in audit /\ n # m
             /\ n.winner \in Entity /\ n.loser \in Entity
             /\ n.undo.descendants \subseteq Entity
             /\ n.loser \in D <=> n.winner \in D \cup {l}
  BY <1>0, RowType DEF Lineage, DescendantsAreBelow, D, l
<1>4. OneLevelDeep'
  <2> SUFFICES ASSUME NEW x \in Entity, ~Live(x)'
               PROVE  Live(mergedInto[x])'
    BY DEF OneLevelDeep
  <2>1. mergedInto'[x] \in Entity /\ mergedInto'[x] = HeadOf(x)'
    BY UnmergeType, EntityAssumption DEF HeadOf, Live
  <2>2. Live(HeadOf(x)) /\ HeadOf(x) \in Entity
    BY HeadType DEF Lineage
  <2> QED
    BY <1>1, <1>2, <2>1, <2>2
<1>5. AuditMatchesPointers'
  <2>1. \A x \in Entity : Live(x)' <=> \A n \in audit' : n.loser # x
    BY <1>0, <1>1, <1>2 DEF Lineage, AuditMatchesPointers, l
  <2>2. \A n, k \in audit' : n.loser = k.loser => n = k
    BY <1>3 DEF Lineage, AuditMatchesPointers
  <2>3. \A n \in audit' : HeadOf(n.loser)' = HeadOf(n.winner)'
    BY <1>1, <1>2, <1>3 DEF Lineage, AuditMatchesPointers
  <2> QED
    BY <2>1, <2>2, <2>3 DEF AuditMatchesPointers
<1>6. DescendantsAreBelow'
  BY <1>3 DEF Lineage, DescendantsAreBelow
<1>7. BranchesStayWhole'
  <2>1. ASSUME NEW n \in audit', NEW x \in n.undo.descendants
        PROVE  ~Live(x)' /\ HeadOf(x)' = HeadOf(n.loser)'
    <3>1. x \in Entity /\ x # l /\ n.loser # l
      BY <1>2, <1>3
    <3>2. ~Live(x) /\ HeadOf(x) = HeadOf(n.loser)
      BY <1>3 DEF Lineage, BranchesStayWhole
    <3>3. x \in D <=> n.loser \in D
      BY <1>2, <1>3 DEF Lineage, BranchesStayWhole, D, l
    <3> QED
      BY <1>1, <1>3, <3>1, <3>2, <3>3
  <2> QED
    BY <1>3, <2>1 DEF Lineage, BranchesStayWhole
<1> QED
  BY <1>4, <1>5, <1>6, <1>7 DEF Forest

LEMMA InitLineage == Init => Lineage
BY DEF Init, Lineage, OneLevelDeep, AuditMatchesPointers, DescendantsAreBelow,
       BranchesStayWhole, RequestsAreProper, Live

LEMMA MergeNextLineage ==
    ASSUME TypeOK, Lineage, NEW s \in Session, MergeNext(s)
    PROVE  Lineage'
<1> DEFINE r == request[s]
<1>1. r \in Request
  BY DEF TypeOK, MergeNext
<1>2. PICK l \in r.losers :
        /\ MergeEntities(r.winner, l, r.at, s)
        /\ request' = [request EXCEPT ![s] =
             IF r.losers \ {l} = {} THEN None
                                  ELSE [r EXCEPT !.losers = r.losers \ {l}]]
  BY DEF MergeNext
<1>3. /\ r.winner \in Entity /\ l \in Entity /\ r.winner # l
      /\ Live(r.winner) /\ Live(l)
  BY <1>1, <1>2 DEF MergeNext, Mergeable, Request, Lineage, RequestsAreProper
<1>4. Forest'
  BY <1>2, <1>3, MergeKeepsForest
<1>5. RequestsAreProper'
  <2>1. [r EXCEPT !.losers = r.losers \ {l}].winner = r.winner
    BY <1>1 DEF Request
  <2>2. [r EXCEPT !.losers = r.losers \ {l}].losers = r.losers \ {l}
    BY <1>1 DEF Request
  <2> QED
    BY <1>2, <2>1, <2>2 DEF TypeOK, Lineage, RequestsAreProper, MergeNext
<1> QED
  BY <1>4, <1>5 DEF Forest, Lineage

LEMMA OpenLineage ==
    ASSUME TypeOK, Lineage, NEW s \in Session, NEW w \in Entity,
           NEW losers \in SUBSET Entity, Open(s, w, losers)
    PROVE  Lineage'
<1>1. UNCHANGED <<mergedInto, audit>>
  BY DEF Open, rows
<1>2. Forest'
  BY <1>1 DEF Forest, Lineage, OneLevelDeep, AuditMatchesPointers,
     DescendantsAreBelow, BranchesStayWhole, Live, HeadOf
<1>3. RequestsAreProper'
  BY DEF Open, TypeOK, Lineage, RequestsAreProper
<1> QED
  BY <1>2, <1>3 DEF Forest, Lineage

LEMMA UndoLineage ==
    ASSUME TypeOK, Lineage, NEW m \in audit, UnmergeCore(m),
           UNCHANGED request
    PROVE  Lineage'
BY UnmergeKeepsForest DEF Forest, Lineage, RequestsAreProper

\* A step that touches neither pointers nor merge rows, and at most drops
\* requests.
LEMMA OtherLineage ==
    ASSUME Lineage, UNCHANGED <<mergedInto, audit>>, RequestsAreProper'
    PROVE  Lineage'
BY DEF Lineage, OneLevelDeep, AuditMatchesPointers,
   DescendantsAreBelow, BranchesStayWhole, Live, HeadOf

LEMMA NextLineage ==
    ASSUME TypeOK, Lineage, [Next]_vars
    PROVE  Lineage'
<1>1. CASE \E s \in Person : OpenManual(s)
  BY <1>1, OpenLineage DEF OpenManual, Session
<1>2. CASE OpenGroup
  BY <1>2, OpenLineage DEF OpenGroup, Session
<1>3. CASE \E s \in Session : MergeNext(s)
  BY <1>3, MergeNextLineage
<1>4. CASE \E s \in Session : Refuse(s)
  BY <1>4, OtherLineage
  DEF Refuse, rows, Lineage, RequestsAreProper, TypeOK
<1>5. CASE \E l \in Entity : Split(l)
  BY <1>5, UndoLineage DEF Split
<1>6. CASE \E l \in Entity : WithdrawMerge(l)
  BY <1>6, UndoLineage DEF WithdrawMerge
<1>7. CASE \E x \in Entity, n \in Nickname : AddAlias(x, n)
  BY <1>7, OtherLineage DEF AddAlias, Lineage, RequestsAreProper
<1>8. CASE \E u \in Unit, x \in Entity :
             \E I \in SUBSET {i \in Edge : UnitOf[i] = u} :
                \E ends \in [I -> EndPoints] : Extract(u, x, ends)
  BY <1>8, OtherLineage DEF Extract, Lineage, RequestsAreProper
<1>9. CASE \E u \in Unit : Reject(u) \/ Restore(u)
  BY <1>9, OtherLineage
  DEF Reject, Restore, SetUnitStatus, Lineage, RequestsAreProper
<1>10. CASE UNCHANGED vars
  BY <1>10, OtherLineage DEF vars, Lineage, RequestsAreProper
<1> QED
  BY <1>1, <1>2, <1>3, <1>4, <1>5, <1>6, <1>7, <1>8, <1>9, <1>10 DEF Next

\* Pointers, audit rows and journals agree in every reachable state, for any
\* number of entities, sessions, requests and merges.
THEOREM LineageInvariant == Spec => [](TypeOK /\ Lineage)
<1>1. Init => TypeOK /\ Lineage
  BY InitType, InitLineage
<1>2. TypeOK /\ Lineage /\ [Next]_vars => (TypeOK /\ Lineage)'
  BY NextType, NextLineage
<1> QED
  BY <1>1, <1>2, PTL DEF Spec

\* resolve_head is one hop: whatever has been merged and split, by people and
\* by the clustering worker, an entity is merged into a live one.
THEOREM HeadsAreLive == Spec => []OneLevelDeep
<1>1. Lineage => OneLevelDeep
  BY DEF Lineage
<1> QED
  BY <1>1, LineageInvariant, PTL

\* The audit rows not undone and the merge pointers agree: exactly one row for
\* every entity that is merged away, both of whose entities have one head.
THEOREM AuditIsTheState == Spec => []AuditMatchesPointers
<1>1. Lineage => AuditMatchesPointers
  BY DEF Lineage
<1> QED
  BY <1>1, LineageInvariant, PTL

\* A journal's descendants are what a split has to hand back: all that was
\* merged into the loser, directly or not, before it was merged itself.
THEOREM JournalsNameDescendants == Spec => []DescendantsAreBelow
<1>1. Lineage => DescendantsAreBelow
  BY DEF Lineage
<1> QED
  BY <1>1, LineageInvariant, PTL

\* Splits hand back whole branches, in whatever order merges are undone.
THEOREM SplitsAreWhole == Spec => []BranchesStayWhole
<1>1. Lineage => BranchesStayWhole
  BY DEF Lineage
<1> QED
  BY <1>1, LineageInvariant, PTL

-----------------------------------------------------------------------------
(* The subjects of units.                                                  *)

\* A unit has a subject once it is extracted.
Known == \A u \in Unit : IF status[u] = None THEN subject[u] = None
                                             ELSE about[u] \in Entity

Subjects == Known /\ SubjectsFollowHeads /\ UnitsComeBack

LEMMA MergeSubjects ==
    ASSUME TypeOK, Lineage, Subjects, NEW w \in Entity, NEW l \in Entity, w # l,
           Live(w), Live(l), NEW at, NEW s, MergeEntities(w, l, at, s),
           UNCHANGED <<status, about>>
    PROVE  Subjects'
<1>1. \A x \in Entity :
         /\ HeadOf(x)' = IF HeadOf(x) = l THEN w ELSE HeadOf(x)
         /\ x \in Descendants(l) <=> x # l /\ HeadOf(x) = l
  BY MergeHeads DEF MergeEntities, Lineage
<1>2. \A u \in Unit : subject'[u] = IF subject[u] = l THEN w ELSE subject[u]
  BY DEF MergeEntities
<1>3. Known' /\ SubjectsFollowHeads'
  BY <1>1, <1>2, EntityAssumption DEF Subjects, Known, SubjectsFollowHeads
<1>4. UnitsComeBack'
  <2> SUFFICES ASSUME NEW m \in audit', NEW u \in Unit
               PROVE  u \in m.undo.units
                        <=> /\ status[u] # None
                            /\ about[u] \in m.undo.descendants \cup {m.loser}
    BY DEF UnitsComeBack
  <2>1. CASE m \in audit
    BY <2>1 DEF Subjects, UnitsComeBack
  <2>2. CASE m \notin audit
    <3>1. /\ m.loser = l /\ m.undo.units = UnitsOf(l)
          /\ m.undo.descendants = Descendants(l)
      BY <2>2 DEF MergeEntities, JournalOf
    <3>2. u \in UnitsOf(l) <=> status[u] # None /\ HeadOf(about[u]) = l
      BY EntityAssumption DEF UnitsOf, Subjects, Known, SubjectsFollowHeads
    <3>3. HeadOf(l) = l
      BY DEF HeadOf
    <3> QED
      BY <1>1, <3>1, <3>2, <3>3 DEF Subjects, Known
  <2> QED
    BY <2>1, <2>2
<1> QED
  BY <1>3, <1>4 DEF Subjects

LEMMA UnmergeSubjects ==
    ASSUME TypeOK, Lineage, Subjects, NEW m \in audit, UnmergeCore(m),
           UNCHANGED <<status, about>>
    PROVE  Subjects'
<1>1. \A x \in Entity :
         HeadOf(x)' = IF x \in m.undo.descendants \cup {m.loser}
                        THEN m.loser ELSE HeadOf(x)
  BY UnmergeHeads
<1>2. \A x \in m.undo.descendants \cup {m.loser} : HeadOf(x) = m.winner
  BY TopRow DEF Lineage, BranchesStayWhole, UnmergeCore
<1>3. \A u \in Unit : subject'[u] = IF u \in m.undo.units /\ subject[u] = m.winner
                                      THEN m.loser ELSE subject[u]
  BY DEF UnmergeCore
<1>4. Known'
  BY <1>3 DEF Subjects, Known, UnitsComeBack
<1>5. SubjectsFollowHeads'
  BY <1>1, <1>2, <1>3 DEF Subjects, Known, SubjectsFollowHeads, UnitsComeBack
<1>6. UnitsComeBack'
  BY DEF Subjects, UnitsComeBack, UnmergeCore
<1> QED
  BY <1>4, <1>5, <1>6 DEF Subjects

LEMMA ExtractSubjects ==
    ASSUME TypeOK, Lineage, Subjects, NEW u \in Unit, NEW x \in Entity,
           NEW ends, Extract(u, x, ends)
    PROVE  Subjects'
<1>1. /\ status' = [status EXCEPT ![u] = "active"]
      /\ subject' = [subject EXCEPT ![u] = x]
      /\ about' = [about EXCEPT ![u] = x]
      /\ status[u] = None /\ Live(x)
      /\ UNCHANGED <<mergedInto, audit>>
  BY DEF Extract, Resolved
<1>2. Known' /\ SubjectsFollowHeads'
  BY <1>1, StatusAssumption
  DEF TypeOK, Subjects, Known, SubjectsFollowHeads, HeadOf, Live
<1>3. \A m \in audit : x \notin m.undo.descendants \cup {m.loser}
  BY <1>1 DEF Lineage, AuditMatchesPointers, BranchesStayWhole
<1>4. UnitsComeBack'
  BY <1>1, <1>3, StatusAssumption DEF TypeOK, Subjects, UnitsComeBack
<1> QED
  BY <1>2, <1>4 DEF Subjects

LEMMA SetUnitStatusSubjects ==
    ASSUME TypeOK, Subjects, NEW u \in Unit,
           NEW from \in {"active", "retracted"},
           NEW to \in {"active", "retracted"}, SetUnitStatus(u, from, to)
    PROVE  Subjects'
<1>1. /\ \A v \in Unit : status'[v] = None <=> status[v] = None
      /\ UNCHANGED <<mergedInto, subject, audit, about>>
  BY StatusAssumption DEF TypeOK, SetUnitStatus, history, deletions
<1> QED
  BY <1>1
  DEF Subjects, Known, SubjectsFollowHeads, UnitsComeBack, HeadOf, Live

LEMMA OtherSubjects ==
    ASSUME Subjects, UNCHANGED <<mergedInto, status, subject, audit, about>>
    PROVE  Subjects'
BY DEF Subjects, Known, SubjectsFollowHeads, UnitsComeBack, HeadOf, Live

\* The step of a request, as the merge of two live entities it carries out.
LEMMA MergeStep ==
    ASSUME TypeOK, Lineage, NEW s \in Session, MergeNext(s)
    PROVE  /\ \E w, l \in Entity, at \in 1..MaxRequests :
                 w # l /\ Live(w) /\ Live(l) /\ MergeEntities(w, l, at, s)
           /\ UNCHANGED <<status, clock, about, asserted>>
<1> DEFINE r == request[s]
<1>1. r \in Request
  BY DEF TypeOK, MergeNext
<1>2. PICK l \in r.losers : MergeEntities(r.winner, l, r.at, s)
  BY DEF MergeNext
<1>3. /\ r.winner \in Entity /\ l \in Entity /\ r.winner # l
      /\ r.at \in 1..MaxRequests /\ Live(r.winner) /\ Live(l)
  BY <1>1, <1>2 DEF MergeNext, Mergeable, Request, Lineage, RequestsAreProper
<1> QED
  BY <1>2, <1>3 DEF MergeNext, history, deletions

LEMMA NextSubjects ==
    ASSUME TypeOK, Lineage, Subjects, [Next]_vars
    PROVE  Subjects'
<1>1. CASE \/ \E s \in Person : OpenManual(s)
           \/ OpenGroup
           \/ \E s \in Session : Refuse(s)
           \/ \E x \in Entity, n \in Nickname : AddAlias(x, n)
           \/ UNCHANGED vars
  BY <1>1, OtherSubjects
  DEF OpenManual, OpenGroup, Open, Refuse, AddAlias, rows, history, deletions, vars
<1>2. CASE \E s \in Session : MergeNext(s)
  BY <1>2, MergeStep, MergeSubjects
<1>3. CASE \E l \in Entity : Split(l) \/ WithdrawMerge(l)
  BY <1>3, UnmergeSubjects DEF Split, WithdrawMerge, history, deletions
<1>4. CASE \E u \in Unit, x \in Entity :
             \E I \in SUBSET {i \in Edge : UnitOf[i] = u} :
                \E ends \in [I -> EndPoints] : Extract(u, x, ends)
  BY <1>4, ExtractSubjects
<1>5. CASE \E u \in Unit : Reject(u) \/ Restore(u)
  BY <1>5, SetUnitStatusSubjects DEF Reject, Restore
<1> QED
  BY <1>1, <1>2, <1>3, <1>4, <1>5 DEF Next

LEMMA SubjectsInvariant == Spec => []Subjects
<1>1. Init => Subjects
  BY DEF Init, Subjects, Known, SubjectsFollowHeads, UnitsComeBack
<1>2. TypeOK /\ Lineage /\ Subjects /\ [Next]_vars => Subjects'
  BY NextSubjects
<1> QED
  BY <1>1, <1>2, LineageInvariant, PTL DEF Spec

\* Extraction, merges, splits and withdrawals in any order leave every unit on
\* the head of the entity it was extracted about, and a split moves back the
\* units of the entities it brings back and no others.
THEOREM UnitsFollow == Spec => []UnitsFollowHeads
<1>1. Subjects => UnitsFollowHeads
  BY DEF Subjects, UnitsFollowHeads
<1> QED
  BY <1>1, SubjectsInvariant, PTL

-----------------------------------------------------------------------------
(* Edges no merge had to delete.                                           *)

\* One row per edge id, and ids appear in journals only once extracted.
EdgeIds ==
    /\ \A e, k \in edges : e.id = k.id => e = k
    /\ \A e \in edges : asserted[e.id] \in EndPoints
                         /\ status[UnitOf[e.id]] # None
    /\ \A m \in audit :
          /\ \A d \in m.undo.deleted : d.id \in dropped
          /\ \A d, k \in m.undo.deleted : d.id = k.id => d = k
          /\ \A d \in m.undo.deleted : asserted[d.id] \in EndPoints
          /\ \A i \in m.undo.sources \cup m.undo.targets :
                status[UnitOf[i]] # None
    /\ \A i \in dropped : status[UnitOf[i]] # None

\* The journal moved a side of an edge iff it was extracted with the loser or
\* an entity below it.
SidesJournaled ==
    \A m \in audit : \A e \in edges : e.id \notin dropped =>
       /\ e.id \in m.undo.sources
            <=> asserted[e.id].src \in m.undo.descendants \cup {m.loser}
       /\ e.id \in m.undo.targets
            <=> asserted[e.id].tgt \in m.undo.descendants \cup {m.loser}

KeptEdgesInv == EdgeIds /\ SidesJournaled /\ KeptEdgesFollowHeads

LEMMA MergeEdges ==
    ASSUME TypeOK, Lineage, KeptEdgesInv, NEW w \in Entity, NEW l \in Entity,
           w # l, Live(w), Live(l), NEW at, NEW s, MergeEntities(w, l, at, s),
           UNCHANGED <<status, asserted>>
    PROVE  KeptEdgesInv'
<1> DEFINE gone == SelfLoops(w, l) \cup Duplicates(w, l)
<1>1. \A x \in Entity :
         /\ HeadOf(x)' = IF HeadOf(x) = l THEN w ELSE HeadOf(x)
         /\ x \in Descendants(l) <=> x # l /\ HeadOf(x) = l
  BY MergeHeads DEF MergeEntities, Lineage
<1>2. /\ gone \subseteq edges /\ KeptEdges(w, l) = edges \ gone
      /\ DeletedEdges(w, l) = gone
      /\ dropped' = dropped \cup {d.id : d \in gone}
  BY DEF SelfLoops, Duplicates, KeptEdges, DeletedEdges, MergeEntities
<1> HIDE DEF gone
<1>3. ASSUME NEW k \in edges'
      PROVE  \E e \in edges :
                /\ e \notin gone
                /\ k = Repoint(e, l, w) /\ k.id = e.id
                /\ k.src = IF e.src = l THEN w ELSE e.src
                /\ k.tgt = IF e.tgt = l THEN w ELSE e.tgt
  <2>1. PICK e \in edges \ gone : k = Repoint(e, l, w)
    BY <1>2 DEF MergeEntities
  <2>2. e \in EdgeRow
    BY <2>1 DEF TypeOK
  <2>3. /\ k.id = e.id
        /\ k.src = IF e.src = l THEN w ELSE e.src
        /\ k.tgt = IF e.tgt = l THEN w ELSE e.tgt
    BY <2>1, <2>2 DEF Repoint, EdgeRow
  <2> QED
    BY <2>1, <2>3
<1>4. ASSUME NEW m \in audit', m \notin audit
      PROVE  /\ m.loser = l /\ m.undo.descendants = Descendants(l)
             /\ m.undo.deleted = gone
             /\ m.undo.sources = {e.id : e \in {k \in edges \ gone : k.src = l}}
             /\ m.undo.targets = {e.id : e \in {k \in edges \ gone : k.tgt = l}}
  BY <1>2, <1>4 DEF MergeEntities, JournalOf
<1>5. EdgeIds'
  <2>1. \A e, k \in edges' : e.id = k.id => e = k
    BY <1>3 DEF KeptEdgesInv, EdgeIds
  <2>2. \A e \in edges' : asserted'[e.id] \in EndPoints
                           /\ status'[UnitOf[e.id]] # None
    BY <1>3 DEF KeptEdgesInv, EdgeIds
  <2>3. ASSUME NEW m \in audit'
        PROVE  /\ \A d \in m.undo.deleted : d.id \in dropped'
               /\ \A d, k \in m.undo.deleted : d.id = k.id => d = k
               /\ \A d \in m.undo.deleted : asserted'[d.id] \in EndPoints
               /\ \A i \in m.undo.sources \cup m.undo.targets :
                     status'[UnitOf[i]] # None
    <3>1. CASE m \in audit
      BY <3>1, <1>2 DEF KeptEdgesInv, EdgeIds
    <3>2. CASE m \notin audit
      BY <3>2, <1>2, <1>4 DEF KeptEdgesInv, EdgeIds
    <3> QED
      BY <3>1, <3>2
  <2>4. \A i \in dropped' : status'[UnitOf[i]] # None
    BY <1>2 DEF KeptEdgesInv, EdgeIds
  <2> QED
    BY <2>1, <2>2, <2>3, <2>4 DEF EdgeIds
\* An edge that survives this merge and all before it, under its old row.
<1>6. ASSUME NEW k \in edges', k.id \notin dropped'
      PROVE  \E e \in edges \ gone :
                /\ k.id = e.id /\ e.id \notin dropped
                /\ asserted[e.id].src \in Entity /\ asserted[e.id].tgt \in Entity
                /\ e.src = HeadOf(asserted[e.id].src)
                /\ e.tgt = HeadOf(asserted[e.id].tgt)
                /\ k.src = IF e.src = l THEN w ELSE e.src
                /\ k.tgt = IF e.tgt = l THEN w ELSE e.tgt
  BY <1>2, <1>3, <1>6
  DEF KeptEdgesInv, EdgeIds, EndPoints, KeptEdgesFollowHeads, OnHeads
<1>7. KeptEdgesFollowHeads'
  BY <1>1, <1>6 DEF KeptEdgesFollowHeads, OnHeads
<1>8. SidesJournaled'
  <2> SUFFICES ASSUME NEW m \in audit', NEW k \in edges', k.id \notin dropped'
               PROVE  /\ k.id \in m.undo.sources
                           <=> asserted[k.id].src
                                 \in m.undo.descendants \cup {m.loser}
                      /\ k.id \in m.undo.targets
                           <=> asserted[k.id].tgt
                                 \in m.undo.descendants \cup {m.loser}
    BY DEF SidesJournaled
  <2>1. PICK e \in edges \ gone :
          /\ k.id = e.id /\ e.id \notin dropped
          /\ asserted[e.id].src \in Entity /\ asserted[e.id].tgt \in Entity
          /\ e.src = HeadOf(asserted[e.id].src)
          /\ e.tgt = HeadOf(asserted[e.id].tgt)
    BY <1>6
  <2>2. CASE m \in audit
    BY <2>1, <2>2 DEF KeptEdgesInv, SidesJournaled
  <2>3. CASE m \notin audit
    <3>1. HeadOf(l) = l
      BY DEF HeadOf
    <3>2. e.id \in m.undo.sources <=> e.src = l
      BY <1>4, <2>1, <2>3 DEF KeptEdgesInv, EdgeIds
    <3>3. e.id \in m.undo.targets <=> e.tgt = l
      BY <1>4, <2>1, <2>3 DEF KeptEdgesInv, EdgeIds
    <3> QED
      BY <1>1, <1>4, <2>1, <2>3, <3>1, <3>2, <3>3
  <2> QED
    BY <2>2, <2>3
<1> QED
  BY <1>5, <1>7, <1>8 DEF KeptEdgesInv

LEMMA UnmergeEdges ==
    ASSUME TypeOK, Lineage, KeptEdgesInv, NEW m \in audit, UnmergeCore(m),
           UNCHANGED <<status, asserted, dropped>>
    PROVE  KeptEdgesInv'
<1> DEFINE back == m.undo.descendants \cup {m.loser}
           Moved(e) == [e EXCEPT
                          !.src = IF e.id \in m.undo.sources /\ @ = m.winner
                                    THEN m.loser ELSE @,
                          !.tgt = IF e.id \in m.undo.targets /\ @ = m.winner
                                    THEN m.loser ELSE @]
<1>1. /\ \A x \in Entity :
            HeadOf(x)' = IF x \in back THEN m.loser ELSE HeadOf(x)
      /\ \A x \in back : HeadOf(x) = m.winner
  BY UnmergeHeads, TopRow DEF Lineage, BranchesStayWhole, UnmergeCore
<1>2. audit' = audit \ {m} /\ edges' = MovedBack(m) \cup Reinserted(m)
  BY DEF UnmergeCore
<1>moved. MovedBack(m) = {Moved(e) : e \in edges}
  BY DEF MovedBack
<1>sides. \A e \in edges :
         /\ Moved(e).id = e.id
         /\ Moved(e).src = IF e.id \in m.undo.sources /\ e.src = m.winner
                             THEN m.loser ELSE e.src
         /\ Moved(e).tgt = IF e.id \in m.undo.targets /\ e.tgt = m.winner
                             THEN m.loser ELSE e.tgt
  BY DEF TypeOK, EdgeRow
<1> HIDE DEF Moved
<1>3. ASSUME NEW k \in MovedBack(m)
      PROVE  \E e \in edges :
                /\ k = Moved(e)
                /\ k.id = e.id
                /\ k.src = IF e.id \in m.undo.sources /\ e.src = m.winner
                             THEN m.loser ELSE e.src
                /\ k.tgt = IF e.id \in m.undo.targets /\ e.tgt = m.winner
                             THEN m.loser ELSE e.tgt
  BY <1>moved, <1>sides
<1>4. /\ Reinserted(m) \subseteq m.undo.deleted
      /\ \A d \in Reinserted(m) : \A e \in MovedBack(m) : e.id # d.id
  BY DEF Reinserted
<1>5. EdgeIds'
  <2>1. \A e, k \in edges' : e.id = k.id => e = k
    BY <1>2, <1>3, <1>4 DEF KeptEdgesInv, EdgeIds
  <2>2. \A e \in edges' : asserted'[e.id] \in EndPoints
                           /\ status'[UnitOf[e.id]] # None
    BY <1>2, <1>3, <1>4 DEF KeptEdgesInv, EdgeIds
  <2> QED
    BY <1>2, <2>1, <2>2 DEF KeptEdgesInv, EdgeIds
\* An edge never deleted is a row moved back, not one inserted again.
<1>6. ASSUME NEW k \in edges', k.id \notin dropped
      PROVE  \E e \in edges :
                /\ k.id = e.id
                /\ asserted[e.id].src \in Entity /\ asserted[e.id].tgt \in Entity
                /\ e.src = HeadOf(asserted[e.id].src)
                /\ e.tgt = HeadOf(asserted[e.id].tgt)
                /\ k.src = IF e.id \in m.undo.sources /\ e.src = m.winner
                             THEN m.loser ELSE e.src
                /\ k.tgt = IF e.id \in m.undo.targets /\ e.tgt = m.winner
                             THEN m.loser ELSE e.tgt
                /\ e.id \in m.undo.sources <=> asserted[e.id].src \in back
                /\ e.id \in m.undo.targets <=> asserted[e.id].tgt \in back
  <2>1. k \in MovedBack(m)
    BY <1>2, <1>4, <1>6 DEF KeptEdgesInv, EdgeIds
  <2> QED
    BY <1>3, <1>6, <2>1
    DEF KeptEdgesInv, EdgeIds, EndPoints, SidesJournaled,
        KeptEdgesFollowHeads, OnHeads
<1>7. KeptEdgesFollowHeads'
  BY <1>1, <1>6 DEF KeptEdgesFollowHeads, OnHeads
<1>8. SidesJournaled'
  BY <1>2, <1>6 DEF KeptEdgesInv, SidesJournaled
<1> QED
  BY <1>5, <1>7, <1>8 DEF KeptEdgesInv
LEMMA ExtractEdges ==
    ASSUME TypeOK, Lineage, KeptEdgesInv, NEW u \in Unit, NEW x \in Entity,
           NEW I \in SUBSET {i \in Edge : UnitOf[i] = u},
           NEW ends \in [I -> EndPoints], Extract(u, x, ends)
    PROVE  KeptEdgesInv'
<1>1. /\ status[u] = None /\ status' = [status EXCEPT ![u] = "active"]
      /\ edges' = edges \cup {[id |-> i, src |-> ends[i].src,
                               tgt |-> ends[i].tgt, status |-> "active"] : i \in I}
      /\ asserted' = [i \in Edge |-> IF i \in I THEN ends[i] ELSE asserted[i]]
      /\ UNCHANGED <<mergedInto, audit, dropped>>
  BY DEF Extract, deletions
<1>2. /\ \A i \in I : i \in Edge /\ UnitOf[i] = u /\ ends[i] \in EndPoints
      /\ \A i \in I : Live(ends[i].src) /\ Live(ends[i].tgt)
  BY DEF Extract, Resolved
<1>3. \A v \in Unit : status'[v] = IF v = u THEN "active" ELSE status[v]
  BY <1>1 DEF TypeOK
<1>4. /\ \A i \in Edge : status[UnitOf[i]] # None =>
            i \notin I /\ asserted'[i] = asserted[i] /\ status'[UnitOf[i]] # None
      /\ \A i \in I : asserted'[i] = ends[i] /\ status'[UnitOf[i]] # None
  BY <1>1, <1>2, <1>3, EdgeAssumption, StatusAssumption
<1>5. /\ \A e \in edges : e.id \in Edge
      /\ dropped \subseteq Edge
      /\ \A m \in audit : /\ m.undo.sources \cup m.undo.targets \subseteq Edge
                          /\ \A d \in m.undo.deleted : d.id \in Edge
  BY DEF TypeOK, EdgeRow, MergeRow, Journal
<1>6. ASSUME NEW k \in edges'
      PROVE  \/ k \in edges /\ k.id \notin I
             \/ /\ k.id \in I /\ k.id \notin dropped
                /\ k = [id |-> k.id, src |-> ends[k.id].src,
                        tgt |-> ends[k.id].tgt, status |-> "active"]
  BY <1>1, <1>2, <1>4, <1>5 DEF KeptEdgesInv, EdgeIds
<1>7. EdgeIds'
  <2>1. \A e, k \in edges' : e.id = k.id => e = k
    BY <1>6 DEF KeptEdgesInv, EdgeIds
  <2>2. \A e \in edges' : asserted'[e.id] \in EndPoints
                           /\ status'[UnitOf[e.id]] # None
    BY <1>2, <1>4, <1>5, <1>6 DEF KeptEdgesInv, EdgeIds
  <2>3. ASSUME NEW m \in audit
        PROVE  /\ \A d \in m.undo.deleted : asserted'[d.id] \in EndPoints
               /\ \A i \in m.undo.sources \cup m.undo.targets :
                     status'[UnitOf[i]] # None
    BY <1>4, <1>5 DEF KeptEdgesInv, EdgeIds
  <2>4. \A i \in dropped : status'[UnitOf[i]] # None
    BY <1>4, <1>5 DEF KeptEdgesInv, EdgeIds
  <2> QED
    BY <1>1, <2>1, <2>2, <2>3, <2>4 DEF KeptEdgesInv, EdgeIds
<1>8. SidesJournaled'
  <2> SUFFICES ASSUME NEW m \in audit, NEW k \in edges', k.id \notin dropped
               PROVE  /\ k.id \in m.undo.sources
                           <=> asserted'[k.id].src
                                 \in m.undo.descendants \cup {m.loser}
                      /\ k.id \in m.undo.targets
                           <=> asserted'[k.id].tgt
                                 \in m.undo.descendants \cup {m.loser}
    BY <1>1 DEF SidesJournaled
  <2>1. CASE k \in edges /\ k.id \notin I
    BY <2>1, <1>4, <1>5 DEF KeptEdgesInv, SidesJournaled, EdgeIds
  <2>2. CASE k.id \in I
    <3>1. k.id \notin m.undo.sources \cup m.undo.targets
      BY <2>2, <1>4, <1>5 DEF KeptEdgesInv, EdgeIds
    <3>2. \A y \in m.undo.descendants \cup {m.loser} : ~Live(y)
      BY RowType DEF Lineage, AuditMatchesPointers, BranchesStayWhole
    <3> QED
      BY <2>2, <3>1, <3>2, <1>2, <1>4
  <2> QED
    BY <1>6, <2>1, <2>2
<1>9. KeptEdgesFollowHeads'
  <2> SUFFICES ASSUME NEW k \in edges', k.id \notin dropped
               PROVE  OnHeads(k)'
    BY <1>1 DEF KeptEdgesFollowHeads
  <2>1. \A y : HeadOf(y)' = HeadOf(y)
    BY <1>1 DEF HeadOf, Live
  <2>2. CASE k \in edges /\ k.id \notin I
    BY <2>1, <2>2, <1>4, <1>5
    DEF KeptEdgesInv, KeptEdgesFollowHeads, OnHeads, EdgeIds
  <2>3. CASE k.id \in I /\ k.src = ends[k.id].src /\ k.tgt = ends[k.id].tgt
    BY <2>1, <2>3, <1>2, <1>4 DEF OnHeads, HeadOf
  <2> QED
    BY <1>6, <2>2, <2>3
<1> QED
  BY <1>7, <1>8, <1>9 DEF KeptEdgesInv

\* A withdrawn or restored unit changes the status of its edges only.
LEMMA SetUnitStatusEdges ==
    ASSUME TypeOK, KeptEdgesInv, NEW u \in Unit,
           NEW from \in {"active", "retracted"},
           NEW to \in {"active", "retracted"}, SetUnitStatus(u, from, to)
    PROVE  KeptEdgesInv'
<1>1. /\ \A v \in Unit : status'[v] = None <=> status[v] = None
      /\ UNCHANGED <<mergedInto, audit, asserted, dropped>>
  BY StatusAssumption DEF TypeOK, SetUnitStatus, history, deletions
<1> DEFINE Set(e) == IF UnitOf[e.id] = u /\ e.status = from
                       THEN [e EXCEPT !.status = to] ELSE e
<1>2. edges' = {Set(e) : e \in edges}
  BY DEF SetUnitStatus
<1>3. \A e \in edges :
         /\ e.id \in Edge
         /\ Set(e).id = e.id /\ Set(e).src = e.src /\ Set(e).tgt = e.tgt
  BY DEF TypeOK, EdgeRow
<1> HIDE DEF Set
<1>4. /\ dropped \subseteq Edge
      /\ \A m \in audit : m.undo.sources \cup m.undo.targets \subseteq Edge
  BY DEF TypeOK, MergeRow, Journal
<1>5. \A i \in Edge : status[UnitOf[i]] # None => status'[UnitOf[i]] # None
  BY <1>1, EdgeAssumption
<1>6. EdgeIds'
  <2>1. /\ \A e, k \in edges' : e.id = k.id => e = k
        /\ \A e \in edges' : asserted'[e.id] \in EndPoints
                              /\ status'[UnitOf[e.id]] # None
    BY <1>1, <1>2, <1>3, <1>5 DEF KeptEdgesInv, EdgeIds
  <2>2. \A m \in audit' : \A i \in m.undo.sources \cup m.undo.targets :
           status'[UnitOf[i]] # None
    BY <1>1, <1>4, <1>5 DEF KeptEdgesInv, EdgeIds
  <2>3. \A i \in dropped' : status'[UnitOf[i]] # None
    BY <1>1, <1>4, <1>5 DEF KeptEdgesInv, EdgeIds
  <2> QED
    BY <1>1, <2>1, <2>2, <2>3 DEF KeptEdgesInv, EdgeIds
<1>7. SidesJournaled'
  BY <1>1, <1>2, <1>3 DEF KeptEdgesInv, SidesJournaled
<1>8. KeptEdgesFollowHeads'
  BY <1>1, <1>2, <1>3
  DEF KeptEdgesInv, KeptEdgesFollowHeads, OnHeads, HeadOf, Live
<1> QED
  BY <1>6, <1>7, <1>8 DEF KeptEdgesInv

LEMMA OtherEdges ==
    ASSUME KeptEdgesInv,
           UNCHANGED <<mergedInto, status, edges, audit, asserted, dropped>>
    PROVE  KeptEdgesInv'
BY DEF KeptEdgesInv, EdgeIds, SidesJournaled, KeptEdgesFollowHeads, OnHeads,
       HeadOf, Live

LEMMA NextEdges ==
    ASSUME TypeOK, Lineage, KeptEdgesInv, [Next]_vars
    PROVE  KeptEdgesInv'
<1>1. CASE \/ \E s \in Person : OpenManual(s)
           \/ OpenGroup
           \/ \E s \in Session : Refuse(s)
           \/ \E x \in Entity, n \in Nickname : AddAlias(x, n)
           \/ UNCHANGED vars
  BY <1>1, OtherEdges
  DEF OpenManual, OpenGroup, Open, Refuse, AddAlias, rows, history, deletions, vars
<1>2. CASE \E s \in Session : MergeNext(s)
  BY <1>2, MergeStep, MergeEdges
<1>3. CASE \E l \in Entity : Split(l) \/ WithdrawMerge(l)
  BY <1>3, UnmergeEdges DEF Split, WithdrawMerge, history, deletions
<1>4. CASE \E u \in Unit, x \in Entity :
             \E I \in SUBSET {i \in Edge : UnitOf[i] = u} :
                \E ends \in [I -> EndPoints] : Extract(u, x, ends)
  BY <1>4, ExtractEdges
<1>5. CASE \E u \in Unit : Reject(u) \/ Restore(u)
  BY <1>5, SetUnitStatusEdges DEF Reject, Restore
<1> QED
  BY <1>1, <1>2, <1>3, <1>4, <1>5 DEF Next

LEMMA EdgesInvariant == Spec => []KeptEdgesInv
<1>1. Init => KeptEdgesInv
  BY DEF Init, KeptEdgesInv, EdgeIds, SidesJournaled, KeptEdgesFollowHeads
<1>2. TypeOK /\ Lineage /\ KeptEdgesInv /\ [Next]_vars => KeptEdgesInv'
  BY NextEdges
<1> QED
  BY <1>1, <1>2, LineageInvariant, PTL DEF Spec

\* Repointing edges in merges and pointing them back in splits keeps every edge
\* that no merge had to delete on the heads of what it was extracted with.
THEOREM KeptEdgesFollow == Spec => []KeptEdgesFollowHeads
<1>1. KeptEdgesInv => KeptEdgesFollowHeads
  BY DEF KeptEdgesInv
<1> QED
  BY <1>1, EdgesInvariant, PTL

-----------------------------------------------------------------------------
(* The answers to a name.                                                  *)

\* The own names: a live entity has the names of all that leads to it, and a
\* journal those of the loser's branch.
OwnNames ==
    /\ \A x \in Entity :
          /\ Live(x) => \A y \in Entity :
                           y \in aliases[x] <=> y # x /\ HeadOf(y) = x
          /\ ~Live(x) => aliases[x] = {}
    /\ \A m \in audit : \A y \in Entity :
          /\ y \in m.undo.aliasesAdded <=> y \in m.undo.descendants \cup {m.loser}
          /\ y \in m.undo.loserAliases <=> y \in m.undo.descendants

\* A nickname is with one entity at most.
NicknameOnce(n) ==
    \A x, y \in Entity : n \in aliases[x] /\ n \in aliases[y] => x = y

\* The journal that says the loser had a nickname also says it was handed over,
\* and the nickname is still with the loser's head.
NicknameHandedOver(n) ==
    \A m \in audit :
       /\ n \in m.undo.aliasesAdded <=> n \in m.undo.loserAliases
       /\ n \in m.undo.loserAliases => n \in aliases[HeadOf(m.loser)]

\* Journals share a nickname along one branch only, and a journal has the
\* nicknames of the journals below it.
NicknameOnOneBranch(n) ==
    \A m, k \in audit :
       m # k /\ n \in k.undo.loserAliases =>
          IF k.loser \in m.undo.descendants
            THEN n \in m.undo.loserAliases
            ELSE n \in m.undo.loserAliases => m.loser \in k.undo.descendants

Nicknames ==
    \A n \in Nickname :
       NicknameOnce(n) /\ NicknameHandedOver(n) /\ NicknameOnOneBranch(n)

Names == OwnNames /\ Nicknames

\* The names of the winner and of the new journal after a merge.
LEMMA MergeAliases ==
    ASSUME TypeOK, NEW w \in Entity, NEW l \in Entity, w # l,
           NEW at, NEW s, MergeEntities(w, l, at, s)
    PROVE  /\ \A x \in Entity :
                 aliases'[x] = IF x = w THEN aliases[w] \cup {l} \cup aliases[l]
                               ELSE IF x = l THEN {} ELSE aliases[x]
           /\ audit \subseteq audit'
           /\ \A r \in audit' \ audit :
                 /\ r.loser = l /\ r.undo.descendants = Descendants(l)
                 /\ r.undo.aliasesAdded = ({l} \cup aliases[l]) \ aliases[w]
                 /\ r.undo.loserAliases = aliases[l]
           /\ \A r, k \in audit' \ audit : r = k
<1>1. \A x \in Entity :
         aliases'[x] = IF x = w THEN aliases[w] \cup {l} \cup aliases[l]
                       ELSE IF x = l THEN {} ELSE aliases[x]
  BY DEF TypeOK, MergeEntities
<1>2. audit' = audit \cup {[winner |-> w, loser |-> l, at |-> at, actor |-> s,
                            undo |-> JournalOf(w, l)]}
  BY DEF MergeEntities
<1>3. /\ JournalOf(w, l).descendants = Descendants(l)
      /\ JournalOf(w, l).aliasesAdded = ({l} \cup aliases[l]) \ aliases[w]
      /\ JournalOf(w, l).loserAliases = aliases[l]
  BY DEF JournalOf, LoserAliases
<1> QED
  BY <1>1, <1>2, <1>3

LEMMA MergeOwnNames ==
    ASSUME TypeOK, Lineage, Names, NEW w \in Entity, NEW l \in Entity, w # l,
           Live(w), Live(l), NEW at, NEW s, MergeEntities(w, l, at, s)
    PROVE  OwnNames'
<1>0. /\ \A x \in Entity :
            aliases'[x] = IF x = w THEN aliases[w] \cup {l} \cup aliases[l]
                          ELSE IF x = l THEN {} ELSE aliases[x]
      /\ audit \subseteq audit'
      /\ \A r \in audit' \ audit :
            /\ r.loser = l /\ r.undo.descendants = Descendants(l)
            /\ r.undo.aliasesAdded = ({l} \cup aliases[l]) \ aliases[w]
            /\ r.undo.loserAliases = aliases[l]
      /\ \A r, k \in audit' \ audit : r = k
  BY MergeAliases
<1>1. ASSUME NEW x \in Entity
      PROVE  /\ Live(x)' <=> Live(x) /\ x # l
             /\ HeadOf(x)' = IF HeadOf(x) = l THEN w ELSE HeadOf(x)
             /\ x \in Descendants(l) <=> x # l /\ HeadOf(x) = l
  BY MergeHeads DEF MergeEntities, Lineage
<1>2. HeadOf(w) = w /\ HeadOf(l) = l
  BY DEF HeadOf
<1>3. ASSUME NEW x \in Entity, NEW y \in Entity
      PROVE  /\ Live(x) => (y \in aliases[x] <=> y # x /\ HeadOf(y) = x)
             /\ ~Live(x) => aliases[x] = {}
  BY DEF Names, OwnNames
<1>4. ASSUME NEW x \in Entity, Live(x)', NEW y \in Entity
      PROVE  y \in aliases'[x] <=> y # x /\ HeadOf(y)' = x
  <2>1. CASE x = w
    BY <2>1, <1>1, <1>2, <1>3, <1>0
  <2>2. CASE x # w
    BY <2>2, <1>1, <1>3, <1>4, <1>0
  <2> QED
    BY <2>1, <2>2
<1>5. ASSUME NEW x \in Entity, ~Live(x)'
      PROVE  aliases'[x] = {}
  BY <1>1, <1>3, <1>5, <1>0
<1>6. ASSUME NEW m \in audit', NEW y \in Entity
      PROVE  /\ y \in m.undo.aliasesAdded <=> y \in m.undo.descendants \cup {m.loser}
             /\ y \in m.undo.loserAliases <=> y \in m.undo.descendants
  <2>1. CASE m \in audit
    BY <2>1 DEF Names, OwnNames
  <2>2. CASE m \notin audit
    BY <2>2, <1>1, <1>2, <1>3, <1>0
  <2> QED
    BY <2>1, <2>2
<1> QED
  BY <1>4, <1>5, <1>6 DEF OwnNames

LEMMA MergeNicknames ==
    ASSUME TypeOK, Lineage, Names, NEW w \in Entity, NEW l \in Entity, w # l,
           Live(w), Live(l), NEW at, NEW s, MergeEntities(w, l, at, s)
    PROVE  Nicknames'
<1> SUFFICES ASSUME NEW n \in Nickname
             PROVE  (NicknameOnce(n) /\ NicknameHandedOver(n) /\ NicknameOnOneBranch(n))'
  BY DEF Nicknames
<1>0. /\ \A x \in Entity :
            aliases'[x] = IF x = w THEN aliases[w] \cup {l} \cup aliases[l]
                          ELSE IF x = l THEN {} ELSE aliases[x]
      /\ audit \subseteq audit'
      /\ \A r \in audit' \ audit :
            /\ r.loser = l /\ r.undo.descendants = Descendants(l)
            /\ r.undo.aliasesAdded = ({l} \cup aliases[l]) \ aliases[w]
            /\ r.undo.loserAliases = aliases[l]
      /\ \A r, k \in audit' \ audit : r = k
  BY MergeAliases
<1>1. ASSUME NEW x \in Entity
      PROVE  /\ HeadOf(x)' = IF HeadOf(x) = l THEN w ELSE HeadOf(x)
             /\ x \in Descendants(l) <=> x # l /\ HeadOf(x) = l
  BY MergeHeads DEF MergeEntities, Lineage
<1>2. HeadOf(l) = l /\ n \notin Entity
  BY NameAssumption DEF HeadOf
<1>3. NicknameOnce(n) /\ NicknameHandedOver(n) /\ NicknameOnOneBranch(n)
  BY DEF Names, Nicknames
<1>4. ASSUME NEW m \in audit
      PROVE  /\ m.loser \in Entity /\ m.loser # l /\ HeadOf(m.loser) \in Entity
             /\ l \notin m.undo.descendants
             /\ m.loser \in Descendants(l) <=> HeadOf(m.loser) = l
  BY <1>1, RowType, HeadType DEF Lineage, AuditMatchesPointers, BranchesStayWhole
<1>5. NicknameOnce(n)'
  BY <1>2, <1>3, <1>0 DEF NicknameOnce
<1>6. ASSUME NEW m \in audit'
      PROVE  /\ n \in m.undo.aliasesAdded <=> n \in m.undo.loserAliases
             /\ n \in m.undo.loserAliases => n \in aliases'[HeadOf(m.loser)']
  <2>1. CASE m \in audit
    <3>1. /\ n \in m.undo.aliasesAdded <=> n \in m.undo.loserAliases
          /\ n \in m.undo.loserAliases => n \in aliases[HeadOf(m.loser)]
      BY <2>1, <1>3 DEF NicknameHandedOver
    <3> QED
      BY <2>1, <3>1, <1>1, <1>4, <1>0
  <2>2. CASE m \notin audit
    <3>1. n \in aliases[l] => n \notin aliases[w]
      BY <1>3 DEF NicknameOnce
    <3> QED
      BY <2>2, <3>1, <1>1, <1>2, <1>0
  <2> QED
    BY <2>1, <2>2
<1>7. ASSUME NEW m \in audit', NEW k \in audit', m # k, n \in k.undo.loserAliases
      PROVE  IF k.loser \in m.undo.descendants
               THEN n \in m.undo.loserAliases
               ELSE n \in m.undo.loserAliases => m.loser \in k.undo.descendants
  <2>1. CASE m \in audit /\ k \in audit
    BY <2>1, <1>3, <1>7 DEF NicknameOnOneBranch
  \* An older row has a nickname of the loser iff it is below the loser.
  <2>2. ASSUME NEW j \in audit, n \in j.undo.loserAliases
        PROVE  n \in aliases[l] <=> j.loser \in Descendants(l)
    BY <2>2, <1>3, <1>4 DEF NicknameHandedOver, NicknameOnce
  <2>3. CASE m \notin audit /\ k \in audit
    BY <2>2, <2>3, <1>7, <1>0
  <2>4. CASE m \in audit /\ k \notin audit
    BY <2>2, <2>4, <1>4, <1>7, <1>0
  <2> QED
    BY <2>1, <2>3, <2>4, <1>7, <1>0
<1> QED
  BY <1>5, <1>6, <1>7 DEF NicknameHandedOver, NicknameOnOneBranch

\* What an unmerge does to the names, given that the loser has none by then.
LEMMA UnmergeAliases ==
    ASSUME TypeOK, Lineage, Names, NEW m \in audit, UnmergeCore(m)
    PROVE  /\ m.winner \in Entity /\ m.loser \in Entity /\ m.winner # m.loser
           /\ audit' = audit \ {m}
           /\ \A x \in Entity :
                 aliases'[x] = IF x = m.winner THEN aliases[x] \ m.undo.aliasesAdded
                               ELSE IF x = m.loser THEN m.undo.loserAliases
                               ELSE aliases[x]
<1>1. m.winner \in Entity /\ m.loser \in Entity
  BY RowType
<1>2. m.winner # m.loser /\ ~Live(m.loser)
  BY TopRow DEF UnmergeCore
<1>3. aliases[m.loser] = {}
  BY <1>1, <1>2 DEF Names, OwnNames
<1> QED
  BY <1>1, <1>2, <1>3 DEF UnmergeCore, TypeOK

LEMMA UnmergeOwnNames ==
    ASSUME TypeOK, Lineage, Names, NEW m \in audit, UnmergeCore(m)
    PROVE  OwnNames'
<1> DEFINE back == m.undo.descendants \cup {m.loser}
<1>0. /\ m.winner \in Entity /\ m.loser \in Entity /\ m.winner # m.loser
      /\ audit' = audit \ {m}
      /\ \A x \in Entity :
            aliases'[x] = IF x = m.winner THEN aliases[x] \ m.undo.aliasesAdded
                          ELSE IF x = m.loser THEN m.undo.loserAliases
                          ELSE aliases[x]
  BY UnmergeAliases
<1>1. ASSUME NEW x \in Entity
      PROVE  /\ Live(x)' <=> Live(x) \/ x = m.loser
             /\ HeadOf(x)' = IF x \in back THEN m.loser ELSE HeadOf(x)
  BY UnmergeHeads
<1>2. /\ Live(m.winner) /\ m.winner \notin back /\ m.loser \notin m.undo.descendants
      /\ \A x \in back : HeadOf(x) = m.winner
  BY TopRow, <1>0 DEF Lineage, BranchesStayWhole, UnmergeCore, CanUnmerge
<1>3. ASSUME NEW x \in Entity, NEW y \in Entity
      PROVE  /\ Live(x) => (y \in aliases[x] <=> y # x /\ HeadOf(y) = x)
             /\ ~Live(x) => aliases[x] = {}
             /\ y \in m.undo.aliasesAdded <=> y \in back
             /\ y \in m.undo.loserAliases <=> y \in m.undo.descendants
  BY DEF Names, OwnNames
<1> HIDE DEF back
<1>4. ASSUME NEW x \in Entity, Live(x)', NEW y \in Entity
      PROVE  y \in aliases'[x] <=> y # x /\ HeadOf(y)' = x
  <2>0. HeadOf(y)' = IF y \in back THEN m.loser ELSE HeadOf(y)
    BY <1>1
  <2>1. CASE x = m.winner
    <3>1. y \in aliases'[x] <=> y # x /\ HeadOf(y) = x /\ y \notin back
      <4>1. Live(x)
        BY <2>1, <1>2
      <4>2. y \in aliases[x] <=> y # x /\ HeadOf(y) = x
        BY <4>1, <1>3
      <4>3. y \in m.undo.aliasesAdded <=> y \in back
        BY <1>3
      <4>4. aliases'[x] = aliases[x] \ m.undo.aliasesAdded
        BY <2>1, <1>0
      <4> QED
        BY <4>2, <4>3, <4>4
    <3> QED
      BY <2>0, <2>1, <3>1, <1>0
  <2>2. CASE x = m.loser
    <3>1. HeadOf(y) # m.loser
      BY HeadType, TopRow DEF Lineage, UnmergeCore
    <3>2. y \in aliases'[x] <=> y \in m.undo.descendants
      BY <2>2, <1>0, <1>3
    <3> QED
      BY <2>0, <2>2, <3>1, <3>2, <1>2 DEF back
  <2>3. CASE x # m.winner /\ x # m.loser
    <3>1. Live(x) /\ aliases'[x] = aliases[x]
      BY <2>3, <1>0, <1>1, <1>4
    <3>2. y \in back => HeadOf(y) # x
      BY <2>3, <1>2
    <3> QED
      BY <2>0, <2>3, <3>1, <3>2, <1>3
  <2> QED
    BY <2>1, <2>2, <2>3
<1>5. ASSUME NEW x \in Entity, ~Live(x)'
      PROVE  aliases'[x] = {}
  BY <1>1, <1>2, <1>3, <1>5, <1>0
<1> QED
  BY <1>4, <1>5, <1>0 DEF Names, OwnNames

LEMMA UnmergeNicknames ==
    ASSUME TypeOK, Lineage, Names, NEW m \in audit, UnmergeCore(m)
    PROVE  Nicknames'
<1> SUFFICES ASSUME NEW n \in Nickname
             PROVE  (NicknameOnce(n) /\ NicknameHandedOver(n) /\ NicknameOnOneBranch(n))'
  BY DEF Nicknames
<1>0. /\ m.winner \in Entity /\ m.loser \in Entity /\ m.winner # m.loser
      /\ audit' = audit \ {m}
      /\ \A x \in Entity :
            aliases'[x] = IF x = m.winner THEN aliases[x] \ m.undo.aliasesAdded
                          ELSE IF x = m.loser THEN m.undo.loserAliases
                          ELSE aliases[x]
  BY UnmergeAliases
<1>1. NicknameOnce(n) /\ NicknameHandedOver(n) /\ NicknameOnOneBranch(n)
  BY DEF Names, Nicknames
<1>2. /\ HeadOf(m.loser) = m.winner
      /\ n \in m.undo.aliasesAdded <=> n \in m.undo.loserAliases
      /\ n \in m.undo.loserAliases => n \in aliases[m.winner]
  BY <1>1, TopRow DEF NicknameHandedOver, UnmergeCore
<1>3. NicknameOnce(n)'
  BY <1>1, <1>2, <1>0 DEF NicknameOnce
<1>4. NicknameHandedOver(n)'
  <2> SUFFICES ASSUME NEW k \in audit, k # m
               PROVE  /\ n \in k.undo.aliasesAdded <=> n \in k.undo.loserAliases
                      /\ n \in k.undo.loserAliases => n \in aliases'[HeadOf(k.loser)']
    BY <1>0 DEF NicknameHandedOver
  <2>1. /\ k.loser \in Entity /\ k.loser # m.loser
        /\ HeadOf(k.loser) \in Entity /\ Live(HeadOf(k.loser))
        /\ m.loser \notin k.undo.descendants /\ ~Live(m.loser)
    BY RowType, HeadType, TopRow DEF Lineage, UnmergeCore
  <2>2. HeadOf(k.loser)' = IF k.loser \in m.undo.descendants
                             THEN m.loser ELSE HeadOf(k.loser)
    BY <2>1, UnmergeHeads
  <2>3. /\ n \in k.undo.aliasesAdded <=> n \in k.undo.loserAliases
        /\ n \in k.undo.loserAliases => n \in aliases[HeadOf(k.loser)]
    BY <1>1 DEF NicknameHandedOver
  <2>4. n \in k.undo.loserAliases =>
           (n \in m.undo.loserAliases <=> k.loser \in m.undo.descendants)
    BY <2>1, <1>1 DEF NicknameOnOneBranch
  <2> QED
    BY <2>1, <2>2, <2>3, <2>4, <1>2, <1>0
<1>5. NicknameOnOneBranch(n)'
  BY <1>1, <1>0 DEF NicknameOnOneBranch
<1> QED
  BY <1>3, <1>4, <1>5

\* A person may only give a name that no other live entity answers to.
LEMMA AddAliasNames ==
    ASSUME TypeOK, Lineage, Names, NEW x \in Entity, NEW n \in Nickname, AddAlias(x, n)
    PROVE  Names'
<1>1. /\ Live(x) /\ ~Taken(x, n)
      /\ \A y \in Entity : aliases'[y] = IF y = x THEN aliases[x] \cup {n} ELSE aliases[y]
      /\ UNCHANGED <<mergedInto, audit>>
  BY DEF TypeOK, AddAlias
<1>2. \A y \in Entity : Live(y)' = Live(y) /\ HeadOf(y)' = HeadOf(y)
  BY <1>1 DEF Live, HeadOf
<1>3. OwnNames'
  BY <1>1, <1>2, NameAssumption DEF Names, OwnNames
<1>4. ASSUME NEW k \in Nickname
      PROVE  (NicknameOnce(k) /\ NicknameHandedOver(k) /\ NicknameOnOneBranch(k))'
  <2>1. NicknameOnce(k) /\ NicknameHandedOver(k) /\ NicknameOnOneBranch(k)
    BY DEF Names, Nicknames
  <2>2. NicknameOnce(k)'
    BY <2>1, <1>1 DEF NicknameOnce, Taken, Names, OwnNames
  <2>3. NicknameHandedOver(k)'
    <3>1. \A m \in audit : m.loser \in Entity /\ HeadOf(m.loser) \in Entity
      BY RowType, HeadType DEF Lineage
    <3> QED
      BY <2>1, <3>1, <1>1, <1>2 DEF NicknameHandedOver
  <2>4. NicknameOnOneBranch(k)'
    BY <2>1, <1>1 DEF NicknameOnOneBranch
  <2> QED
    BY <2>2, <2>3, <2>4
<1> QED
  BY <1>3, <1>4 DEF Names, Nicknames

LEMMA OtherNames ==
    ASSUME Names, UNCHANGED <<mergedInto, aliases, audit>>
    PROVE  Names'
BY DEF Names, OwnNames, Nicknames, NicknameOnce, NicknameHandedOver,
       NicknameOnOneBranch, HeadOf, Live

LEMMA NextNames ==
    ASSUME TypeOK, Lineage, Names, [Next]_vars
    PROVE  Names'
<1>1. CASE \/ \E s \in Person : OpenManual(s)
           \/ OpenGroup
           \/ \E s \in Session : Refuse(s)
           \/ \E u \in Unit, x \in Entity :
                 \E I \in SUBSET {i \in Edge : UnitOf[i] = u} :
                    \E ends \in [I -> EndPoints] : Extract(u, x, ends)
           \/ \E u \in Unit : Reject(u) \/ Restore(u)
           \/ UNCHANGED vars
  BY <1>1, OtherNames
  DEF OpenManual, OpenGroup, Open, Refuse, Extract, Reject, Restore,
      SetUnitStatus, rows, vars
<1>2. CASE \E s \in Session : MergeNext(s)
  BY <1>2, MergeStep, MergeOwnNames, MergeNicknames DEF Names
<1>3. CASE \E l \in Entity : Split(l) \/ WithdrawMerge(l)
  BY <1>3, UnmergeOwnNames, UnmergeNicknames DEF Split, WithdrawMerge, Names
<1>4. CASE \E x \in Entity, n \in Nickname : AddAlias(x, n)
  BY <1>4, AddAliasNames
<1> QED
  BY <1>1, <1>2, <1>3, <1>4 DEF Next

LEMMA NamesInvariant == Spec => [](TypeOK /\ Lineage /\ Names)
<1>1. Init => Names
  BY NameAssumption
  DEF Init, Names, OwnNames, Nicknames, NicknameOnce, NicknameHandedOver,
      NicknameOnOneBranch, HeadOf, Live
<1>2. TypeOK /\ Lineage /\ Names /\ [Next]_vars => Names'
  BY NextNames
<1> QED
  BY <1>1, <1>2, LineageInvariant, PTL DEF Spec

\* lookup_entity cannot pick the wrong row: an entity's own name leads to its
\* head and a nickname to one live entity at most, whatever people and the worker
\* merge, split and rename, with any number of journals that move names about.
THEOREM NamesAnswer == Spec => []NamesHaveOneAnswer
<1>1. ASSUME TypeOK, Lineage, Names
      PROVE  NamesHaveOneAnswer
  <2>1. ASSUME NEW x \in Entity
        PROVE  Answers(x) = {HeadOf(x)}
    <3>1. HeadOf(x) \in Entity /\ Live(HeadOf(x))
      BY <1>1, HeadType DEF Lineage
    <3>2. ASSUME NEW y \in Entity, Live(y)
          PROVE  x = y \/ x \in aliases[y] <=> y = HeadOf(x)
      BY <1>1, <3>2 DEF Names, OwnNames, HeadOf
    <3> QED
      BY <3>1, <3>2 DEF Answers
  <2>2. ASSUME NEW n \in Nickname, NEW x \in Answers(n), NEW y \in Answers(n)
        PROVE  x = y
    <3>1. NicknameOnce(n) /\ n \notin Entity
      BY <1>1, NameAssumption DEF Names, Nicknames
    <3> QED
      BY <3>1 DEF Answers, NicknameOnce
  <2> QED
    BY <2>1, <2>2
    DEF NamesHaveOneAnswer, NamesLeadToHeads, NicknamesAreUnambiguous
<1> QED
  BY <1>1, NamesInvariant, PTL

-----------------------------------------------------------------------------
(* Groups of entities.                                                     *)
(*                                                                         *)
(* The pointers and the merges not undone join the same entities: what     *)
(* has one head is in one chain of merges.  A chain is a set that has no   *)
(* merge half, so a set that shows a chain to be too short after a step is *)
(* turned into one that showed it before.                                  *)

Links == {{m.winner, m.loser} : m \in audit}
Unparted(S) == EntityGroups!Closed(S, Links)
NoneHalved(S) == \A m \in audit : m.winner \in S <=> m.loser \in S

ChainsReach ==
    \A x, y \in Entity : HeadOf(x) = HeadOf(y) =>
       \A S \in SUBSET Entity : x \in S /\ Unparted(S) => y \in S

LEMMA NoneHalf ==
    ASSUME NEW A, NEW S
    PROVE  EntityGroups!Closed(S, {{m.winner, m.loser} : m \in A})
              <=> \A m \in A : m.winner \in S <=> m.loser \in S
<1> DEFINE P == {{m.winner, m.loser} : m \in A}
           C == \A p \in P : p \cap S # {} => p \subseteq S
<1>1. ASSUME NEW a, NEW b
      PROVE  ({a, b} \cap S # {} => {a, b} \subseteq S) <=> (a \in S <=> b \in S)
  OBVIOUS
<1>2. ASSUME C, NEW m \in A
      PROVE  m.winner \in S <=> m.loser \in S
  <2>1. {m.winner, m.loser} \in P
    OBVIOUS
  <2>2. {m.winner, m.loser} \cap S # {} => {m.winner, m.loser} \subseteq S
    BY <1>2, <2>1
  <2> QED
    BY <1>1, <2>2
<1>3. ASSUME \A m \in A : m.winner \in S <=> m.loser \in S, NEW p \in P
      PROVE  p \cap S # {} => p \subseteq S
  <2>1. PICK m \in A : p = {m.winner, m.loser}
    OBVIOUS
  <2> QED
    BY <1>1, <1>3, <2>1
<1> QED
  BY <1>2, <1>3 DEF EntityGroups!Closed

LEMMA UnpartedSets ==
    ASSUME NEW S
    PROVE  /\ Unparted(S) <=> NoneHalved(S)
           /\ Unparted(S)' <=> \A m \in audit' : m.winner \in S <=> m.loser \in S
BY NoneHalf DEF Unparted, Links, NoneHalved

\* The set of entities with one head has no merge half.
LEMMA HeadsAreUnparted ==
    ASSUME TypeOK, Lineage, NEW x \in Entity
    PROVE  Unparted({y \in Entity : HeadOf(y) = HeadOf(x)})
BY UnpartedSets, RowType DEF NoneHalved, Lineage, AuditMatchesPointers

LEMMA InitChains == Init => ChainsReach
BY DEF Init, ChainsReach, HeadOf, Live

LEMMA MergeChains ==
    ASSUME TypeOK, Lineage, ChainsReach, NEW w \in Entity, NEW l \in Entity, w # l,
           Live(w), Live(l), NEW at, NEW s, MergeEntities(w, l, at, s)
    PROVE  ChainsReach'
<1>1. \A x \in Entity : HeadOf(x)' = IF HeadOf(x) = l THEN w ELSE HeadOf(x)
  BY MergeHeads DEF MergeEntities, Lineage
<1>2. HeadOf(w) = w /\ HeadOf(l) = l
  BY DEF HeadOf
<1> SUFFICES ASSUME NEW x \in Entity, NEW y \in Entity, HeadOf(x)' = HeadOf(y)',
                    NEW S \in SUBSET Entity, x \in S, Unparted(S)'
             PROVE  y \in S
  BY DEF ChainsReach
<1>3. \A m \in audit' : m.winner \in S <=> m.loser \in S
  BY UnpartedSets
<1>4. Unparted(S) /\ (w \in S <=> l \in S)
  <2> DEFINE r == [winner |-> w, loser |-> l, at |-> at, actor |-> s, undo |-> JournalOf(w, l)]
  <2>1. r \in audit' /\ r.winner = w /\ r.loser = l
    BY DEF MergeEntities
  <2>2. audit \subseteq audit'
    BY DEF MergeEntities
  <2> QED
    BY <1>3, <2>1, <2>2, UnpartedSets DEF NoneHalved
<1>5. \A a, b \in Entity : HeadOf(a) = HeadOf(b) /\ a \in S => b \in S
  BY <1>4 DEF ChainsReach
<1>6. CASE HeadOf(x) = HeadOf(y)
  BY <1>5, <1>6
<1>7. CASE HeadOf(x) # HeadOf(y)
  <2>1. (HeadOf(x) = l /\ HeadOf(y) = w) \/ (HeadOf(x) = w /\ HeadOf(y) = l)
    BY <1>1, <1>7
  <2> QED
    BY <1>2, <1>4, <1>5, <2>1
<1> QED
  BY <1>6, <1>7

\* What an undo hands back is a branch: no other merge reaches into it.
LEMMA BranchIsApart ==
    ASSUME TypeOK, Lineage, NEW m \in audit, CanUnmerge(m)
    PROVE  LET D == m.undo.descendants \cup {m.loser}
           IN  /\ D \subseteq Entity /\ m.winner \notin D
               /\ \A x \in D : HeadOf(x) = m.winner
               /\ \A n \in audit : n # m => (n.winner \in D <=> n.loser \in D)
<1> DEFINE D == m.undo.descendants \cup {m.loser}
<1>1. D \subseteq Entity
  BY RowType
<1>2. /\ m.loser # m.winner /\ HeadOf(m.loser) = m.winner
      /\ \A n \in audit : n # m => n.loser # m.loser
  BY TopRow
<1>3. \A x \in m.undo.descendants : ~Live(x) /\ HeadOf(x) = m.winner
  BY <1>2 DEF Lineage, BranchesStayWhole
<1>4. m.winner \notin D
  BY <1>2, <1>3 DEF CanUnmerge
<1>5. \A n \in audit : n # m => (n.winner \in D <=> n.loser \in D)
  BY <1>2 DEF Lineage, DescendantsAreBelow
<1> QED
  BY <1>1, <1>2, <1>3, <1>4, <1>5

LEMMA UnmergeChains ==
    ASSUME TypeOK, Lineage, ChainsReach, NEW m \in audit, UnmergeCore(m)
    PROVE  ChainsReach'
<1> DEFINE D == m.undo.descendants \cup {m.loser}
<1>1. \A x \in Entity : HeadOf(x)' = IF x \in D THEN m.loser ELSE HeadOf(x)
  BY UnmergeHeads
<1>2. /\ D \subseteq Entity /\ m.winner \notin D /\ m.loser \in D
      /\ \A x \in D : HeadOf(x) = m.winner
      /\ \A n \in audit : n # m => (n.winner \in D <=> n.loser \in D)
  BY BranchIsApart DEF UnmergeCore
<1>3. \A x \in Entity : HeadOf(x) # m.loser
  BY TopRow, HeadType DEF UnmergeCore, Lineage
<1> HIDE DEF D
<1> SUFFICES ASSUME NEW x \in Entity, NEW y \in Entity, HeadOf(x)' = HeadOf(y)',
                    NEW S \in SUBSET Entity, x \in S, Unparted(S)'
             PROVE  y \in S
  BY DEF ChainsReach
<1>4. \A n \in audit : n # m => (n.winner \in S <=> n.loser \in S)
  <2>1. \A n \in audit' : n.winner \in S <=> n.loser \in S
    BY UnpartedSets
  <2> QED
    BY <2>1 DEF UnmergeCore
<1>5. HeadOf(x) = HeadOf(y) /\ (x \in D <=> y \in D)
  BY <1>1, <1>2, <1>3
<1>6. \A n \in audit : n.winner \in Entity /\ n.loser \in Entity
  BY RowType
<1>7. \A T \in SUBSET Entity : \A a, b \in Entity :
         Unparted(T) /\ HeadOf(a) = HeadOf(b) /\ a \in T => b \in T
  BY DEF ChainsReach
<1>8. CASE x \in D
  <2>1. CASE m.loser \in S
    <3> DEFINE T == (S \cap D) \cup (Entity \ D)
    <3>1. Unparted(T)
      BY <1>2, <1>4, <1>6, <2>1, UnpartedSets DEF NoneHalved
    <3> QED
      BY <1>5, <1>7, <1>8, <3>1
  <2>2. CASE m.loser \notin S
    <3> DEFINE T == S \cap D
    <3>1. Unparted(T)
      BY <1>2, <1>4, <2>2, UnpartedSets DEF NoneHalved
    <3>2. HeadOf(x) = HeadOf(m.loser) /\ m.loser \in Entity
      BY <1>2, <1>8
    <3> QED
      BY <1>7, <1>8, <2>2, <3>1, <3>2
  <2> QED
    BY <2>1, <2>2
<1>9. CASE x \notin D
  <2>1. CASE m.winner \in S
    <3> DEFINE T == S \cup D
    <3>1. Unparted(T)
      BY <1>2, <1>4, <2>1, UnpartedSets DEF NoneHalved
    <3>2. T \in SUBSET Entity
      BY <1>2
    <3> QED
      BY <1>5, <1>7, <1>9, <3>1, <3>2
  <2>2. CASE m.winner \notin S
    <3> DEFINE T == S \ D
    <3>1. Unparted(T)
      BY <1>2, <1>4, <2>2, UnpartedSets DEF NoneHalved
    <3> QED
      BY <1>5, <1>7, <1>9, <3>1
  <2> QED
    BY <2>1, <2>2
<1> QED
  BY <1>8, <1>9

LEMMA OtherChains ==
    ASSUME ChainsReach, UNCHANGED <<mergedInto, audit>>
    PROVE  ChainsReach'
BY DEF ChainsReach, Unparted, Links, EntityGroups!Closed, HeadOf, Live

LEMMA NextChains ==
    ASSUME TypeOK, Lineage, ChainsReach, [Next]_vars
    PROVE  ChainsReach'
<1>1. CASE \E s \in Session : MergeNext(s)
  BY <1>1, MergeStep, MergeChains
<1>2. CASE \E l \in Entity : Split(l) \/ WithdrawMerge(l)
  BY <1>2, UnmergeChains DEF Split, WithdrawMerge
<1>3. CASE UNCHANGED <<mergedInto, audit>>
  BY <1>3, OtherChains
<1> QED
  BY <1>1, <1>2, <1>3 DEF Next, OpenManual, OpenGroup, Open, Refuse, AddAlias,
     Extract, Reject, Restore, SetUnitStatus, rows, vars

Together == [x \in Entity |-> {y \in Entity : HeadOf(y) = HeadOf(x)}]
GroupsAreChains == Together = EntityGroups!Groups(Links)

\* What has one head is what a chain of merges joins.
LEMMA TogetherIsChained == TypeOK /\ Lineage /\ ChainsReach => GroupsAreChains
<1> SUFFICES ASSUME TypeOK, Lineage, ChainsReach
             PROVE  GroupsAreChains
  OBVIOUS
<1>1. ASSUME NEW x \in Entity
      PROVE  {y \in Entity : HeadOf(y) = HeadOf(x)} = EntityGroups!Chained(x, Links)
  <2> DEFINE one == {y \in Entity : HeadOf(y) = HeadOf(x)}
  <2>1. Unparted(one) /\ x \in one /\ one \in SUBSET Entity
    BY HeadsAreUnparted
  <2>2. ASSUME NEW y \in EntityGroups!Chained(x, Links)
        PROVE  y \in one
    BY <2>1, <2>2 DEF Unparted, EntityGroups!Chained
  <2>3. ASSUME NEW y \in one
        PROVE  y \in EntityGroups!Chained(x, Links)
    BY <2>3 DEF ChainsReach, Unparted, EntityGroups!Chained
  <2> QED
    BY <2>2, <2>3
<1> QED
  BY <1>1 DEF GroupsAreChains, Together, EntityGroups!Groups

LEMMA TogetherNext ==
    ASSUME TypeOK', Lineage', ChainsReach'
    PROVE  Together' = EntityGroups!Groups(Links')
<1>1. GroupsAreChains'
  BY TogetherIsChained, PTL
<1> QED
  BY <1>1 DEF GroupsAreChains, EntityGroups!Groups, EntityGroups!Chained, EntityGroups!Closed

LEMMA JoinStep ==
    ASSUME TypeOK, Lineage, ChainsReach', TypeOK', Lineage', NEW s \in Session, MergeNext(s)
    PROVE  EntityGroups!GroupsNext
<1>1. PICK w, l \in Entity, at \in 1..MaxRequests :
         w # l /\ Live(w) /\ Live(l) /\ MergeEntities(w, l, at, s)
  BY MergeStep
<1>2. l \notin Together[w]
  BY <1>1 DEF Together, HeadOf
<1>3. Links' = Links \cup {{w, l}}
  <2> DEFINE r == [winner |-> w, loser |-> l, at |-> at, actor |-> s, undo |-> JournalOf(w, l)]
  <2>1. audit' = audit \cup {r} /\ r.winner = w /\ r.loser = l
    BY <1>1 DEF MergeEntities
  <2> HIDE DEF r
  <2> QED
    BY <2>1 DEF Links
<1>4. Together' = EntityGroups!Groups(Links')
  BY TogetherNext
<1> QED
  BY <1>2, <1>3, <1>4 DEF EntityGroups!GroupsNext, EntityGroups!Join, Links, Together

LEMMA PartStep ==
    ASSUME TypeOK, Lineage, ChainsReach', TypeOK', Lineage', NEW m \in audit, UnmergeCore(m)
    PROVE  EntityGroups!GroupsNext
<1>1. m.winner \in Entity /\ m.loser \in Entity
  BY RowType
<1>2. {m.winner, m.loser} \in Links
  BY DEF Links
<1>3. Links' = Links \ {{m.winner, m.loser}}
  <2>1. \A n \in audit \ {m} : {n.winner, n.loser} # {m.winner, m.loser}
    <3> SUFFICES ASSUME NEW n \in audit, n # m
                 PROVE  n.loser # m.loser /\ n.loser # m.winner
      OBVIOUS
    <3>1. n.loser # m.loser
      BY TopRow DEF UnmergeCore
    <3>2. n.loser # m.winner
      BY <1>1 DEF Lineage, AuditMatchesPointers, UnmergeCore, CanUnmerge
    <3> QED
      BY <3>1, <3>2
  <2>2. audit' = audit \ {m}
    BY DEF UnmergeCore
  <2> QED
    BY <2>1, <2>2 DEF Links
<1>4. Together' = EntityGroups!Groups(Links')
  BY TogetherNext
<1>5. m.loser \notin Together'[m.winner]
  <2>1. HeadOf(m.loser)' = m.loser
    BY <1>1, UnmergeHeads
  <2>2. HeadOf(m.winner)' = m.winner
    BY <1>1, UnmergeHeads, BranchIsApart DEF UnmergeCore, CanUnmerge, HeadOf
  <2>3. m.winner # m.loser
    BY TopRow DEF UnmergeCore
  <2> QED
    BY <1>1, <2>1, <2>2, <2>3 DEF Together
<1> QED
  BY <1>1, <1>2, <1>3, <1>4, <1>5
  DEF EntityGroups!GroupsNext, EntityGroups!Part, Links, Together

LEMMA GroupsStep ==
    TypeOK /\ Lineage /\ ChainsReach /\ [Next]_vars
       => [EntityGroups!GroupsNext]_(EntityGroups!groupsVars)
<1> SUFFICES ASSUME TypeOK, Lineage, ChainsReach, [Next]_vars
             PROVE  EntityGroups!GroupsNext \/ UNCHANGED <<Links, Together>>
  BY DEF EntityGroups!groupsVars, Links, Together
<1>0. TypeOK' /\ Lineage' /\ ChainsReach'
  BY NextType, NextLineage, NextChains
<1>1. CASE \E s \in Session : MergeNext(s)
  BY <1>0, <1>1, JoinStep
<1>2. CASE \E l \in Entity : Split(l) \/ WithdrawMerge(l)
  BY <1>0, <1>2, PartStep DEF Split, WithdrawMerge
<1>3. CASE UNCHANGED <<mergedInto, audit>>
  BY <1>3 DEF Links, Together, HeadOf, Live
<1> QED
  BY <1>1, <1>2, <1>3 DEF Next, OpenManual, OpenGroup, Open, Refuse, AddAlias,
     Extract, Reject, Restore, SetUnitStatus, rows, vars

\* Merging makes groups: whatever people and the worker merge and take apart, in
\* whatever order, one head stands for exactly the entities that merges not
\* undone connect, and an undo parts the two its merge joined.
THEOREM MergingMakesGroups == Spec => MergesMakeGroups
<1>1. Init => TypeOK /\ Lineage /\ ChainsReach
  BY InitType, InitLineage, InitChains
<1>2. TypeOK /\ Lineage /\ ChainsReach /\ [Next]_vars => (TypeOK /\ Lineage /\ ChainsReach)'
  BY NextType, NextLineage, NextChains
<1>3. Init => EntityGroups!GroupsInit
  BY DEF Init, EntityGroups!GroupsInit, HeadOf, Live
<1> QED
  BY <1>1, <1>2, <1>3, GroupsStep, PTL
  DEF Spec, MergesMakeGroups, EntityGroups!GroupsSpec
=============================================================================
