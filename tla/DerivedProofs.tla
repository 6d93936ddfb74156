--------------------------- MODULE DerivedProofs ----------------------------
(***************************************************************************)
(* Theorems about what daemons work out of claims and of projects, and     *)
(* keep: it is what the claims say, and what the projects hold, now; for   *)
(* any number of each, whatever fails and whatever people do.              *)
(*                                                                         *)
(* ClaimIndex: what a worker has read may be stale, so a vector is stored  *)
(* only for a claim that still says what was embedded, and in the space of *)
(* the model that embedded it. A topic pass looks at nothing again: it     *)
(* relies on the rows it holds. They stay ungrouped, no other pass holds   *)
(* them, and the claims it reads without holding them have a topic and are *)
(* given none.                                                             *)
(*                                                                         *)
(* ProjectCache: that signatures are out of date is told by a revision in  *)
(* the ledger that was not there when they were checked. A compaction puts *)
(* a new one there, so afterwards one of the newest tells it, whoever      *)
(* compacted; and a load reads those. What a load reads of a project is    *)
(* never less than what was there when it began, although each statement   *)
(* sees another moment; a fingerprint that is the same counts as many      *)
(* items as there are, and those it counts are among what was read.        *)
(***************************************************************************)
EXTENDS ClaimIndex, ProjectCache, FiniteSetTheorems, NaturalsInduction,
        WellFoundedInduction, TLAPS

Passes  == {"idle", "context", "write"}

\* A claim with a topic, as a pass reads it without holding it.
Neighbour == [claim : Claim, says : Statement, topic : Nat \ {NoTopic}]

EmbedderTypes ==
    embedder \in [Indexer -> {Down} \cup [step : {"idle", "rows", "embed"},
                                          model : EmbedModel, rows : SUBSET Row]]

GrouperTypes ==
    /\ grouper \in [Indexer -> [step : Passes, held : SUBSET Claim, context : SUBSET Neighbour]]
    /\ \A d \in Indexer : IsFiniteSet(grouper[d].context)

\* What a pass holds is not grouped, and no other pass holds it.
HeldAreUngrouped ==
    /\ \A d \in Indexer : grouper[d].held \cap grouped = {}
    /\ \A d, e \in Indexer : d # e => grouper[d].held \cap grouper[e].held = {}

\* The inductive invariant.
IndexInv == /\ IndexTypeOK
            /\ VectorsMatch
            /\ TopicsMatch
            /\ EmbedderTypes
            /\ GrouperTypes
            /\ HeldAreUngrouped

-----------------------------------------------------------------------------
(* Sets, nodes and their components.                                       *)

LEMMA ImageIsFinite ==
    ASSUME NEW S, IsFiniteSet(S), NEW f
    PROVE  IsFiniteSet({f[x] : x \in S})
<1> DEFINE T == {f[x] : x \in S}
           g == [x \in S |-> f[x]]
<1>1. g \in Surjection(S, T)
  BY DEF Surjection
<1> QED
  BY <1>1, FS_Surjection

\* There is a component of every node: what lies in every set that has the
\* node and all it is joined to.
LEMMA ComponentExists ==
    ASSUME NEW nodes, NEW n \in nodes
    PROVE  Component(n, nodes) \in SUBSET nodes
<1> DEFINE Shut(S) == \A a \in S, b \in nodes : Joined(a, b) => b \in S
           group == {m \in nodes : \A S \in SUBSET nodes : n \in S /\ Shut(S) => m \in S}
           Is(g) == /\ n \in g
                    /\ \A a \in g, b \in nodes : Joined(a, b) => b \in g
                    /\ \A smaller \in (SUBSET g) \ {g} :
                         n \in smaller => \E a \in smaller, b \in g \ smaller : Joined(a, b)
<1>1. n \in group /\ Shut(group) /\ group \in SUBSET nodes
  OBVIOUS
<1>2. ASSUME NEW smaller \in (SUBSET group) \ {group}, n \in smaller
      PROVE  \E a \in smaller, b \in group \ smaller : Joined(a, b)
  <2> SUFFICES ASSUME \A a \in smaller, b \in group \ smaller : ~Joined(a, b)
               PROVE  FALSE
    OBVIOUS
  <2>1. Shut(smaller)
    BY <1>1
  <2>2. group \subseteq smaller
    BY <1>2, <2>1
  <2> HIDE DEF group
  <2>3. smaller \subseteq group /\ smaller # group
    OBVIOUS
  <2> QED
    BY <2>2, <2>3
<1>3. Is(group)
  BY <1>1, <1>2
<1>4. Component(n, nodes) = CHOOSE g \in SUBSET nodes : Is(g)
  BY DEF Component
<1> HIDE DEF Is, group
<1> QED
  BY <1>1, <1>3, <1>4

\* What a pass looks at: finitely many nodes, and those without a topic are held.
LEMMA Nodes ==
    ASSUME IndexInv, NEW d \in Indexer
    PROVE  /\ IsFiniteSet(Node(d))
           /\ \A n \in Node(d) : n.topic = NoTopic => n.claim \in grouper[d].held
<1> DEFINE f == [c \in Claim |-> [claim |-> c, says |-> says[c], topic |-> NoTopic]]
           own == {f[c] : c \in grouper[d].held}
<1>1. grouper[d].held \subseteq Claim /\ IsFiniteSet(grouper[d].context)
  BY DEF IndexInv, GrouperTypes
<1>2. IsFiniteSet(grouper[d].held)
  BY <1>1, FS_Subset, IndexAssumption DEF IndexAssumption
<1>3. Node(d) = own \cup grouper[d].context
  BY <1>1 DEF Node
<1>4. IsFiniteSet(Node(d))
  <2>1. IsFiniteSet(own)
    <3> HIDE DEF f
    <3> QED
      BY <1>2, ImageIsFinite
  <2> HIDE DEF own
  <2> QED
    BY <1>1, <1>3, <2>1, FS_Union
<1>5. \A n \in grouper[d].context : n.topic # NoTopic
  BY DEF IndexInv, GrouperTypes, Neighbour
<1>6. \A n \in own : n.claim \in grouper[d].held
  <2>1. \A c \in Claim : f[c].claim = c
    OBVIOUS
  <2> HIDE DEF f
  <2> QED
    BY <1>1, <2>1
<1> HIDE DEF own
<1> QED
  BY <1>3, <1>4, <1>5, <1>6

\* Finitely many groups, whose new claims are held.
LEMMA Groups ==
    ASSUME IndexInv, NEW d \in Indexer, NEW groups \in SUBSET Components(d)
    PROVE  /\ Cardinality(groups) \in Nat
           /\ \A g \in groups : New(g) \subseteq grouper[d].held
<1>1. Components(d) \subseteq SUBSET Node(d)
  BY ComponentExists DEF Components
<1>2. IsFiniteSet(groups)
  BY <1>1, Nodes, FS_SUBSET, FS_Subset
<1>3. \A g \in groups : New(g) \subseteq grouper[d].held
  BY <1>1, Nodes DEF New
<1> QED
  BY <1>2, <1>3, FS_CardinalityType
-----------------------------------------------------------------------------
LEMMA InitIndex == IndexInit => IndexInv
<1> SUFFICES ASSUME IndexInit PROVE IndexInv
  OBVIOUS
<1>1. IndexTypeOK
  BY IndexAssumption DEF IndexInit, IndexTypeOK, IndexAssumption, NoTopic
<1>2. VectorsMatch /\ TopicsMatch
  BY DEF IndexInit, VectorsMatch, TopicsMatch
<1>3. EmbedderTypes /\ HeldAreUngrouped
  BY DEF IndexInit, EmbedderTypes, HeldAreUngrouped, NoPass
<1>4. GrouperTypes
  BY FS_EmptySet DEF IndexInit, GrouperTypes, NoPass, Passes
<1> QED
  BY <1>1, <1>2, <1>3, <1>4 DEF IndexInv

\* Steps that leave the rows alone.
LEMMA WorkersOnly ==
    ASSUME IndexInv, EmbedderTypes', GrouperTypes', HeldAreUngrouped',
           UNCHANGED <<says, revision, active, vector, delayed, topic, grouped, members, topics, space>>
    PROVE  IndexInv'
<1>1. IndexTypeOK'
  BY DEF IndexInv, IndexTypeOK, EmbedderTypes, Down
<1>2. VectorsMatch' /\ TopicsMatch'
  BY DEF IndexInv, VectorsMatch, TopicsMatch
<1> QED
  BY <1>1, <1>2 DEF IndexInv

\* A worker that goes on with its vectors.
LEMMA EmbedderStays ==
    ASSUME IndexInv, NEW d \in Indexer, NEW e \in {Down} \cup [step : {"idle", "rows", "embed"},
                                                               model : EmbedModel, rows : SUBSET Row],
           embedder' = [embedder EXCEPT ![d] = e]
    PROVE  EmbedderTypes'
BY DEF IndexInv, EmbedderTypes

LEMMA PassesStay ==
    ASSUME IndexInv, UNCHANGED grouper
    PROVE  GrouperTypes' /\ (grouped' \subseteq grouped => HeldAreUngrouped')
BY DEF IndexInv, GrouperTypes, HeldAreUngrouped

-----------------------------------------------------------------------------
(* Vectors.                                                                *)

LEMMA StartStep ==
    ASSUME IndexInv, NEW d \in Indexer, NEW m \in EmbedModel, StartWith(d, m)
    PROVE  IndexInv'
<1>1. EmbedderTypes'
  <2>1. IdleWith(m) \in [step : {"idle", "rows", "embed"}, model : EmbedModel, rows : SUBSET Row]
    BY DEF IdleWith
  <2> QED
    BY <2>1, EmbedderStays DEF StartWith
<1>2. GrouperTypes' /\ HeldAreUngrouped'
  BY PassesStay DEF StartWith
<1>3. IndexTypeOK' /\ VectorsMatch' /\ TopicsMatch'
  <2>1. CASE space = m
    BY <1>1, <2>1 DEF StartWith, IndexInv, IndexTypeOK, VectorsMatch, TopicsMatch, EmbedderTypes, Down
  <2>2. CASE space # m
    <3>1. \A e \in Indexer : embedder'[e] = Down \/ embedder'[e].rows \subseteq Row
      BY <1>1 DEF EmbedderTypes
    <3>2. IndexTypeOK'
      BY <2>2, <3>1 DEF StartWith, IndexInv, IndexTypeOK, NoTopic, Cleared
    <3>3. VectorsMatch' /\ TopicsMatch'
      BY <2>2 DEF StartWith, VectorsMatch, TopicsMatch, Cleared
    <3> QED
      BY <3>2, <3>3
  <2> QED
    BY <2>1, <2>2
<1> QED
  BY <1>1, <1>2, <1>3 DEF IndexInv

LEMMA StopStep ==
    ASSUME IndexInv, NEW d \in Indexer, StopIndexing(d)
    PROVE  IndexInv'
<1>1. EmbedderTypes'
  BY EmbedderStays DEF StopIndexing
<1>2. GrouperTypes' /\ HeldAreUngrouped'
  <2>1. NoPass \in [step : Passes, held : SUBSET Claim, context : SUBSET Neighbour]
    BY DEF NoPass, Passes
  <2>2. \A e \in Indexer : grouper'[e] = IF e = d THEN NoPass ELSE grouper[e]
    BY DEF StopIndexing, IndexInv, GrouperTypes
  <2>3. NoPass.held = {} /\ NoPass.context = {}
    BY DEF NoPass
  <2>4. GrouperTypes'
    BY <2>1, <2>2, <2>3, FS_EmptySet DEF StopIndexing, IndexInv, GrouperTypes
  <2>5. HeldAreUngrouped'
    BY <2>2, <2>3 DEF StopIndexing, IndexInv, HeldAreUngrouped
  <2> QED
    BY <2>4, <2>5
<1> QED
  BY <1>1, <1>2, WorkersOnly DEF StopIndexing

LEMMA RowsStep ==
    ASSUME IndexInv, NEW d \in Indexer, LoadRows(d) \/ LoadRevisions(d)
    PROVE  IndexInv'
<1> DEFINE now == embedder[d]
<1>1. /\ now.step \in {"idle", "rows"}
      /\ now \in [step : {"idle", "rows", "embed"}, model : EmbedModel, rows : SUBSET Row]
  BY DEF LoadRows, LoadRevisions, IndexInv, EmbedderTypes, Down
<1>2. PICK s \in {"rows", "embed"}, R \in SUBSET Row :
         embedder' = [embedder EXCEPT ![d] = [now EXCEPT !.step = s, !.rows = R]]
  <2>1. CASE LoadRows(d)
    <3> DEFINE R == {[claim |-> c, says |-> says[c], revision |-> 0] : c \in {c \in Claim : NeedsVector(c)}}
    <3>1. R \in SUBSET Row
      BY DEF IndexInv, IndexTypeOK, Row
    <3>2. embedder' = [embedder EXCEPT ![d] = [now EXCEPT !.step = "rows", !.rows = R]]
      BY <2>1 DEF LoadRows
    <3> HIDE DEF R, now
    <3> QED
      BY <3>1, <3>2
  <2>2. CASE LoadRevisions(d)
    <3> DEFINE R == {[r EXCEPT !.revision = RevisionOf(r)] : r \in now.rows}
    <3>1. R \in SUBSET Row
      BY <1>1 DEF IndexInv, IndexTypeOK, Row, RevisionOf
    <3>2. embedder' = [embedder EXCEPT ![d] = [now EXCEPT !.step = "embed", !.rows = R]]
      BY <1>1, <2>2 DEF LoadRevisions
    <3> HIDE DEF R, now
    <3> QED
      BY <3>1, <3>2
  <2> QED
    BY <2>1, <2>2
<1>3. EmbedderTypes'
  <2>1. [now EXCEPT !.step = s, !.rows = R]
           \in [step : {"idle", "rows", "embed"}, model : EmbedModel, rows : SUBSET Row]
    BY <1>1
  <2> QED
    BY <1>2, <2>1, EmbedderStays
<1> QED
  BY <1>3, PassesStay, WorkersOnly DEF LoadRows, LoadRevisions

\* A worker that is done with its batch.
LEMMA BatchDone ==
    ASSUME IndexInv, NEW d \in Indexer, embedder[d].step = "embed"
    PROVE  /\ embedder[d] \in [step : {"idle", "rows", "embed"}, model : EmbedModel, rows : SUBSET Row]
           /\ embedder' = [embedder EXCEPT ![d] = IdleWith(@.model)] => EmbedderTypes'
<1>1. embedder[d] \in [step : {"idle", "rows", "embed"}, model : EmbedModel, rows : SUBSET Row]
  BY DEF IndexInv, EmbedderTypes, Down
<1>2. IdleWith(embedder[d].model) \in [step : {"idle", "rows", "embed"}, model : EmbedModel, rows : SUBSET Row]
  BY <1>1 DEF IdleWith
<1> QED
  BY <1>1, <1>2, EmbedderStays

\* What is stored was embedded from what the claim says, in the space there is.
LEMMA StoreStep ==
    ASSUME IndexInv, NEW d \in Indexer, StoreVectors(d)
    PROVE  IndexInv'
<1> DEFINE stored == {r \in embedder[d].rows : Mine(d) /\ Unchanged(r)}
           rowOf(c) == CHOOSE r \in stored : r.claim = c
           By == embedder[d].model
<1>1. /\ vector' = [c \in Claim |-> IF \E r \in stored : r.claim = c
                                    THEN [of |-> rowOf(c).says, by |-> By] ELSE vector[c]]
      /\ delayed' = delayed \ {r.claim : r \in stored}
      /\ embedder[d].step = "embed" /\ embedder' = [embedder EXCEPT ![d] = IdleWith(@.model)]
      /\ UNCHANGED <<says, revision, active, topic, grouped, members, topics, space, grouper, deeds>>
  BY DEF StoreVectors, StillDelayed
<1>2. \A r \in stored : By = space /\ r.says = says[r.claim]
  BY DEF Mine, Unchanged
<1> HIDE DEF stored
<1>3. ASSUME NEW c \in Claim, \E r \in stored : r.claim = c
      PROVE  vector'[c] = [of |-> says[c], by |-> space]
  <2>1. rowOf(c) \in stored /\ rowOf(c).claim = c
    BY <1>3
  <2>2. rowOf(c).says = says[c]
    BY <1>2, <2>1
  <2>3. vector'[c] = [of |-> rowOf(c).says, by |-> By]
    BY <1>1, <1>3
  <2> HIDE DEF rowOf, By
  <2> QED
    BY <1>2, <1>3, <2>2, <2>3
<1>4. ASSUME NEW c \in Claim, ~\E r \in stored : r.claim = c
      PROVE  vector'[c] = vector[c]
  BY <1>1, <1>4
<1>5. VectorsMatch'
  <2>1. \A c \in Claim : vector'[c] = vector[c] \/ vector'[c] = [of |-> says[c], by |-> space]
    BY <1>3, <1>4
  <2> QED
    BY <1>1, <2>1 DEF IndexInv, VectorsMatch
<1>6. EmbedderTypes'
  BY <1>1, BatchDone
<1>7. IndexTypeOK'
  <2>1. \A c \in Claim : c \in delayed' => vector'[c] = NoVector
    BY <1>1, <1>4 DEF IndexInv, IndexTypeOK
  <2>2. \A e \in Indexer : embedder'[e] = Down \/ embedder'[e].rows \subseteq Row
    BY <1>6 DEF EmbedderTypes
  <2>3. delayed' \subseteq Claim
    BY <1>1 DEF IndexInv, IndexTypeOK
  <2>4. ASSUME NEW c \in Claim PROVE vector'[c] \in Vector \cup {NoVector}
    <3>1. CASE \E r \in stored : r.claim = c
      <4>1. says[c] \in Statement /\ space \in EmbedModel
        BY <1>1, <1>2, <3>1, BatchDone DEF IndexInv, IndexTypeOK
      <4>2. vector'[c] = [of |-> says[c], by |-> space]
        BY <1>3, <3>1
      <4> QED
        BY <4>1, <4>2 DEF Vector
    <3>2. CASE ~\E r \in stored : r.claim = c
      BY <1>4, <3>2 DEF IndexInv, IndexTypeOK
    <3> QED
      BY <3>1, <3>2
  <2>5. vector' \in [Claim -> Vector \cup {NoVector}]
    BY <1>1, <2>4
  <2> QED
    BY <1>1, <2>1, <2>2, <2>3, <2>5 DEF IndexInv, IndexTypeOK
<1>8. TopicsMatch'
  BY <1>1 DEF IndexInv, TopicsMatch
<1> QED
  BY <1>1, <1>5, <1>6, <1>7, <1>8, PassesStay DEF IndexInv

LEMMA FailStep ==
    ASSUME IndexInv, NEW d \in Indexer, EmbedFails(d)
    PROVE  IndexInv'
<1> DEFINE failed == {r \in embedder[d].rows : r.says = says[r.claim] /\ vector[r.claim] = NoVector}
<1>1. EmbedderTypes' /\ embedder[d].rows \subseteq Row
  BY BatchDone DEF EmbedFails
<1>2. \A r \in failed : r.claim \in Claim /\ vector[r.claim] = NoVector
  BY <1>1 DEF Row
<1>3. /\ delayed' = delayed \cup {r.claim : r \in failed}
      /\ UNCHANGED <<says, revision, active, vector, topic, grouped, members, topics, space, grouper>>
  BY DEF EmbedFails
<1> HIDE DEF failed
<1>4. IndexTypeOK'
  <2>1. \A c \in Claim : c \in delayed' => vector'[c] = NoVector
    BY <1>2, <1>3 DEF IndexInv, IndexTypeOK
  <2>2. \A e \in Indexer : embedder'[e] = Down \/ embedder'[e].rows \subseteq Row
    BY <1>1 DEF EmbedderTypes
  <2>3. delayed' \subseteq Claim
    BY <1>2, <1>3 DEF IndexInv, IndexTypeOK
  <2> QED
    BY <1>3, <2>1, <2>2, <2>3 DEF IndexInv, IndexTypeOK
<1>5. VectorsMatch' /\ TopicsMatch'
  BY <1>3 DEF IndexInv, VectorsMatch, TopicsMatch
<1> QED
  BY <1>1, <1>3, <1>4, <1>5, PassesStay DEF IndexInv

LEMMA TimeStep ==
    ASSUME IndexInv, TimePasses
    PROVE  IndexInv'
<1>1. EmbedderTypes' /\ GrouperTypes' /\ HeldAreUngrouped'
  BY PassesStay DEF TimePasses, IndexInv, EmbedderTypes
<1>2. IndexTypeOK' /\ VectorsMatch' /\ TopicsMatch'
  BY DEF TimePasses, IndexInv, IndexTypeOK, VectorsMatch, TopicsMatch
<1> QED
  BY <1>1, <1>2 DEF IndexInv

-----------------------------------------------------------------------------
(* Topics.                                                                 *)

PassRecord == [step : Passes, held : SUBSET Claim, context : SUBSET Neighbour]

\* A pass that goes on with what it holds, and with finitely many neighbours.
LEMMA PassGoesOn ==
    ASSUME IndexInv, NEW d \in Indexer, NEW p \in PassRecord, IsFiniteSet(p.context),
           grouper' = [grouper EXCEPT ![d] = p]
    PROVE  GrouperTypes'
<1>1. \A e \in Indexer : grouper'[e] = IF e = d THEN p ELSE grouper[e]
  BY DEF IndexInv, GrouperTypes
<1> QED
  BY <1>1 DEF IndexInv, GrouperTypes, PassRecord

\* It picks what nobody holds and nobody has grouped.
LEMMA PickStep ==
    ASSUME IndexInv, NEW d \in Indexer, PickUngrouped(d)
    PROVE  IndexInv'
<1> DEFINE p == [step |-> "context", held |-> Ungrouped, context |-> {}]
<1>1. Ungrouped \subseteq Claim
  BY DEF Ungrouped, IndexInv, IndexTypeOK
<1>2. p \in PassRecord /\ IsFiniteSet(p.context) /\ p.held = Ungrouped
  BY <1>1, FS_EmptySet DEF PassRecord, Passes
<1>3. grouper' = [grouper EXCEPT ![d] = p] /\ UNCHANGED <<grouped, embedder>>
  BY DEF PickUngrouped
<1> HIDE DEF p
<1>4. GrouperTypes'
  BY <1>2, <1>3, PassGoesOn
<1>5. HeldAreUngrouped'
  <2>1. \A e \in Indexer : grouper'[e] = IF e = d THEN p ELSE grouper[e]
    BY <1>3 DEF IndexInv, GrouperTypes
  <2>2. Ungrouped \cap grouped = {} /\ \A e \in Indexer : Ungrouped \cap grouper[e].held = {}
    BY DEF Ungrouped, Held
  <2> QED
    BY <1>2, <1>3, <2>1, <2>2 DEF IndexInv, HeldAreUngrouped
<1> QED
  BY <1>3, <1>4, <1>5, WorkersOnly DEF PickUngrouped, IndexInv, EmbedderTypes

LEMMA ContextStep ==
    ASSUME IndexInv, NEW d \in Indexer, ReadContext(d)
    PROVE  IndexInv'
<1> DEFINE f == [c \in Claim |-> [claim |-> c, says |-> says[c], topic |-> topic[c]]]
           S == {c \in active : topic[c] # NoTopic}
           near == {f[c] : c \in S}
           p == [grouper[d] EXCEPT !.step = "write", !.context = near]
<1>1. S \subseteq Claim /\ grouper[d] \in PassRecord
  BY DEF IndexInv, IndexTypeOK, GrouperTypes, PassRecord
<1>2. grouper' = [grouper EXCEPT ![d] = p] /\ UNCHANGED <<grouped, embedder>>
  BY <1>1 DEF ReadContext
<1>3. near \subseteq Neighbour
  <2>1. \A c \in S : topic[c] \in Nat \ {NoTopic} /\ says[c] \in Statement /\ c \in Claim
    BY DEF IndexInv, IndexTypeOK
  <2>2. \A c \in S : f[c] = [claim |-> c, says |-> says[c], topic |-> topic[c]]
    BY <1>1
  <2>3. \A c \in S : f[c] \in Neighbour
    BY <2>1, <2>2 DEF Neighbour
  <2> HIDE DEF f
  <2> QED
    BY <2>3
<1>4. IsFiniteSet(near)
  <2>1. IsFiniteSet(S)
    BY <1>1, FS_Subset, IndexAssumption DEF IndexAssumption
  <2> HIDE DEF S, f
  <2> QED
    BY <2>1, ImageIsFinite
<1> HIDE DEF near
<1>5. p \in PassRecord /\ p.context = near /\ p.held = grouper[d].held
  BY <1>1, <1>3 DEF PassRecord, Passes
<1> HIDE DEF p
<1>6. GrouperTypes'
  BY <1>2, <1>4, <1>5, PassGoesOn
<1>7. HeldAreUngrouped'
  <2>1. \A e \in Indexer : grouper'[e].held = grouper[e].held
    BY <1>2, <1>5 DEF IndexInv, GrouperTypes
  <2> QED
    BY <1>2, <2>1 DEF IndexInv, HeldAreUngrouped
<1> QED
  BY <1>2, <1>6, <1>7, WorkersOnly DEF ReadContext, IndexInv, EmbedderTypes

\* A pass writes what it holds: each claim gets one topic, and one that counts.
LEMMA WriteStep ==
    ASSUME IndexInv, NEW d \in Indexer, WriteTopics(d)
    PROVE  IndexInv'
<1> DEFINE making == {g \in Components(d) : Makes(g)}
           joining == {g \in Components(d) : Joins(g)}
           given == UNION {New(g) : g \in making \cup joining}
           more == Cardinality(making)
<1>1. more \in Nat /\ given \subseteq grouper[d].held
  <2>1. making \subseteq Components(d) /\ making \cup joining \subseteq Components(d)
    OBVIOUS
  <2> HIDE DEF making, joining
  <2> QED
    BY <2>1, Groups
<1>2. PICK fresh \in [making -> topics + 1..topics + more], known \in [joining -> 1..topics] :
         LET of(c) == LET g == CHOOSE g \in making \cup joining : c \in New(g)
                      IN  IF g \in making THEN fresh[g] ELSE known[g]
         IN  /\ topic' = [c \in Claim |-> IF c \in given THEN of(c) ELSE topic[c]]
             /\ members' = members \cup {<<of(c), c>> : c \in given}
             /\ grouped' = grouped \cup grouper[d].held
  BY DEF WriteTopics, Stamped
<1>3. /\ topics + more <= MaxTopic /\ topics' = topics + more
      /\ grouper' = [grouper EXCEPT ![d] = NoPass]
      /\ UNCHANGED <<says, revision, active, vector, delayed, space, embedder, deeds>>
  BY DEF WriteTopics
<1> DEFINE of(c) == LET g == CHOOSE g \in making \cup joining : c \in New(g)
                    IN  IF g \in making THEN fresh[g] ELSE known[g]
<1>4. /\ topic' = [c \in Claim |-> IF c \in given THEN of(c) ELSE topic[c]]
      /\ members' = members \cup {<<of(c), c>> : c \in given}
      /\ grouped' = grouped \cup grouper[d].held
  BY <1>2
<1>5. topics \in Nat
  BY IndexAssumption DEF IndexInv, IndexTypeOK, IndexAssumption
<1> HIDE DEF making, joining
<1>6. \A c \in given : of(c) \in 1..topics'
  <2> SUFFICES ASSUME NEW c \in given PROVE of(c) \in 1..topics'
    OBVIOUS
  <2> DEFINE g == CHOOSE g \in making \cup joining : c \in New(g)
  <2>1. g \in making \cup joining
    OBVIOUS
  <2>2. of(c) = IF g \in making THEN fresh[g] ELSE known[g]
    OBVIOUS
  <2> HIDE DEF g, more, of, given
  <2>3. CASE g \in making
    <3>1. fresh[g] \in topics + 1..topics + more
      BY <1>2, <2>3
    <3> QED
      BY <1>1, <1>3, <1>5, <2>2, <2>3, <3>1
  <2>4. CASE g \notin making
    <3>1. known[g] \in 1..topics
      BY <1>2, <2>1, <2>4
    <3> QED
      BY <1>1, <1>3, <1>5, <2>2, <2>4, <3>1
  <2> QED
    BY <2>3, <2>4
<1> HIDE DEF of, given, more
<1>7. given \subseteq Claim /\ given \cap grouped = {} /\ \A c \in given : topic[c] = NoTopic
  BY <1>1 DEF IndexInv, GrouperTypes, HeldAreUngrouped, TopicsMatch
<1>8. IndexTypeOK'
  <2>1. \A n \in 0..topics : n \in 0..topics'
    BY <1>1, <1>3, <1>5
  <2>2. topic' \in [Claim -> 0..topics']
    BY <1>4, <1>6, <2>1 DEF IndexInv, IndexTypeOK
  <2>3. members' \subseteq (1..topics') \X Claim
    <3>1. \A n \in 1..topics : n \in 1..topics'
      BY <1>1, <1>3, <1>5
    <3>2. members \subseteq (1..topics') \X Claim
      BY <3>1 DEF IndexInv, IndexTypeOK
    <3>3. {<<of(c), c>> : c \in given} \subseteq (1..topics') \X Claim
      BY <1>6, <1>7
    <3> QED
      BY <1>4, <3>2, <3>3
  <2>4. topics' \in 0..MaxTopic
    BY <1>1, <1>3, <1>5, IndexAssumption DEF IndexAssumption
  <2>5. grouped' \subseteq Claim
    BY <1>4 DEF IndexInv, IndexTypeOK, GrouperTypes
  <2> QED
    BY <1>3, <2>2, <2>3, <2>4, <2>5 DEF IndexInv, IndexTypeOK
<1>9. VectorsMatch' /\ EmbedderTypes'
  BY <1>3 DEF IndexInv, VectorsMatch, EmbedderTypes
<1>10. TopicsMatch'
  <2>1. \A c \in given : topic'[c] = of(c) /\ topic'[c] # NoTopic
    BY <1>4, <1>6, <1>7 DEF NoTopic
  <2>2. \A c \in Claim \ given : topic'[c] = topic[c]
    BY <1>4
  <2>3. {c \in Claim : topic'[c] # NoTopic} = {c \in Claim : topic[c] # NoTopic} \cup given
    BY <1>7, <2>1, <2>2
  <2>4. \A c \in Claim : topic[c] # NoTopic => topic'[c] = topic[c]
    BY <1>7, <2>2
  <2>5. members' = {<<topic'[c], c>> : c \in {c \in Claim : topic'[c] # NoTopic}}
    BY <1>4, <1>7, <2>1, <2>3, <2>4 DEF IndexInv, TopicsMatch
  <2>6. given \subseteq grouped' /\ grouped \subseteq grouped'
    BY <1>1, <1>4
  <2>7. \A c \in Claim : topic'[c] # NoTopic => c \in grouped'
    BY <2>2, <2>6 DEF IndexInv, TopicsMatch
  <2> QED
    BY <2>5, <2>7 DEF TopicsMatch
<1>11. NoPass \in PassRecord /\ NoPass.held = {} /\ NoPass.context = {}
  BY DEF NoPass, PassRecord, Passes
<1>12. GrouperTypes'
  BY <1>3, <1>11, PassGoesOn, FS_EmptySet
<1>13. HeldAreUngrouped'
  <2>1. \A e \in Indexer : grouper'[e] = IF e = d THEN NoPass ELSE grouper[e]
    BY <1>3 DEF IndexInv, GrouperTypes
  <2> QED
    BY <1>4, <1>11, <2>1 DEF IndexInv, HeldAreUngrouped
<1> QED
  BY <1>8, <1>9, <1>10, <1>12, <1>13 DEF IndexInv

-----------------------------------------------------------------------------
(* People.                                                                 *)

\* What was derived from the old text goes with it.
LEMMA EditStep ==
    ASSUME IndexInv, NEW c \in Claim, NEW s \in Statement, EditClaim(c, s)
    PROVE  IndexInv'
<1>1. EmbedderTypes' /\ GrouperTypes' /\ HeldAreUngrouped'
  BY PassesStay DEF EditClaim, IndexInv, EmbedderTypes
<1>2. IndexTypeOK'
  BY DEF EditClaim, IndexInv, IndexTypeOK, NoTopic, Without
<1>3. VectorsMatch'
  BY DEF EditClaim, IndexInv, IndexTypeOK, VectorsMatch
<1>4. TopicsMatch'
  <2>1. /\ \A x \in Claim : topic'[x] = IF x = c THEN NoTopic ELSE topic[x]
        /\ grouped' = grouped \ {c} /\ members' = {m \in members : m[2] # c}
    BY DEF EditClaim, IndexInv, IndexTypeOK, Without
  <2>2. members' = {<<topic'[x], x>> : x \in {x \in Claim : topic'[x] # NoTopic}}
    BY <2>1 DEF IndexInv, TopicsMatch
  <2> QED
    BY <2>1, <2>2 DEF IndexInv, TopicsMatch
<1> QED
  BY <1>1, <1>2, <1>3, <1>4 DEF IndexInv

LEMMA RejectStep ==
    ASSUME IndexInv, NEW c \in Claim, RejectClaim(c) \/ RestoreClaim(c)
    PROVE  IndexInv'
<1>1. EmbedderTypes' /\ GrouperTypes' /\ HeldAreUngrouped'
  BY PassesStay DEF RejectClaim, RestoreClaim, IndexInv, EmbedderTypes
<1>2. IndexTypeOK' /\ VectorsMatch' /\ TopicsMatch'
  BY DEF RejectClaim, RestoreClaim, IndexInv, IndexTypeOK, VectorsMatch, TopicsMatch
<1> QED
  BY <1>1, <1>2 DEF IndexInv

-----------------------------------------------------------------------------
LEMMA NextIndex == IndexInv /\ [IndexNext]_indexVars => IndexInv'
<1> SUFFICES ASSUME IndexInv, [IndexNext]_indexVars PROVE IndexInv'
  OBVIOUS
<1>1. CASE \E d \in Indexer : StartIndexing(d) \/ StopIndexing(d) \/ Embed(d) \/ EmbedFails(d) \/ Group(d)
  BY <1>1, StartStep, StopStep, RowsStep, StoreStep, FailStep, PickStep, ContextStep, WriteStep
  DEF StartIndexing, Embed, Group
<1>2. CASE \E c \in Claim : RejectClaim(c) \/ RestoreClaim(c) \/ \E s \in Statement : EditClaim(c, s)
  BY <1>2, EditStep, RejectStep
<1>3. CASE TimePasses
  BY <1>3, TimeStep
<1>4. CASE UNCHANGED indexVars
  <2>1. EmbedderTypes' /\ GrouperTypes' /\ HeldAreUngrouped'
    BY <1>4, PassesStay DEF indexVars, IndexInv, EmbedderTypes
  <2> QED
    BY <1>4, <2>1, WorkersOnly DEF indexVars
<1> QED
  BY <1>1, <1>2, <1>3, <1>4 DEF IndexNext

LEMMA IndexInvariant == IndexSpec => []IndexInv
BY InitIndex, NextIndex, PTL DEF IndexSpec

\* Whatever changes, fails or is started while vectors are computed and claims
\* grouped: a claim is found by the vector of what it says now, in the space
\* there is, and is a member of the topic it points to and of no other.
THEOREM IndexKeepsUp == IndexSpec => []IndexIsSound
<1>1. IndexInv => IndexIsSound
  BY DEF IndexInv, IndexIsSound
<1> QED
  BY <1>1, IndexInvariant, PTL


-----------------------------------------------------------------------------
(* Comparing projects.                                                     *)

\* What a daemon keeps of a project, and what it is asked for.
Fingerprint     == [seen : SUBSET Nat, items : Nat]
Signature == [files : SUBSET Nat, words : SUBSET Nat]
Entry     == [print : Fingerprint, files : SUBSET Nat, words : SUBSET Nat]
OfSome(T) == UNION {[P -> T] : P \in SUBSET Compared}

Moment == [items : [Compared -> SUBSET Nat], existing : SUBSET Compared]
Kept   == [entries : OfSome(Entry), loaded : OfSome(Signature) \cup {Nothing},
           checked : SUBSET Nat, pairs : OfSome(Signature) \cup {Nothing}]

\* A load, from its first statement to its last.
Begun    == [step : {"idle", "compact", "ledger"}]
Checking == [step : {"check"}, seen : SUBSET Nat]
Filing   == [step : {"files"}, seen : SUBSET Nat, prints : OfSome(Fingerprint), stale : SUBSET Compared]
Wording  == [step : {"words"}, seen : SUBSET Nat, prints : OfSome(Fingerprint), stale : SUBSET Compared,
             files : OfSome(SUBSET Nat)]

DatabaseTypes ==
    /\ items \in [Compared -> SUBSET Nat] /\ existing \subseteq Compared
    /\ \A p \in Compared : IsFiniteSet(items[p])
    /\ writes \subseteq [revision : Nat, project : Compared, removes : BOOLEAN]
    /\ ledger \subseteq Nat /\ ledger # {} /\ nextRevision \in Nat

DaemonTypes ==
    /\ cache \in [Comparer -> Kept]
    /\ load \in [Comparer -> Begun \cup Checking \cup Filing \cup Wording]
    /\ asking \in [Comparer -> [signatures : OfSome(Signature), since : Moment] \cup {Nothing}]
    /\ began \in [Comparer -> Moment \cup {Nothing}]

CacheTypes == DatabaseTypes /\ DaemonTypes

\* Signatures have what a moment had, of the projects that are still there.
Has(signatures, moment) ==
    \A p \in Compared :
        IF p \notin moment.existing THEN p \notin DOMAIN signatures
        ELSE p \in existing => /\ p \in DOMAIN signatures
                               /\ moment.items[p] \subseteq signatures[p].files
                               /\ moment.items[p] \subseteq signatures[p].words

Now == [items |-> items, existing |-> existing]

\* Since that moment projects were removed, and what is left has grown.
Past(moment) == existing \subseteq moment.existing /\ \A p \in existing : moment.items[p] \subseteq items[p]

\* The ledger has a revision that is not among those; it is one of the newest.
Told(known) == \E r \in ledger : r \notin known
Shown(known) == \E r \in ledger : r \notin known /\ \A s \in ledger : s <= r + LedgerKept

\* No revision to come is among those.
NoneToCome(known) ==
    /\ \A r \in known : r < nextRevision
    /\ \A w \in writes : w.revision \notin known

WritesAreNew ==
    /\ NoneToCome(ledger)
    /\ \A w \in writes : w.revision < nextRevision
    /\ \A v, w \in writes : v.revision = w.revision => v = w

ReadsAreKnown(d) == /\ NoneToCome(cache[d].checked)
                    /\ load[d].step \in {"check", "files", "words"} => NoneToCome(load[d].seen)

Mirrored(d) ==
    cache[d].loaded # Nothing =>
        /\ DOMAIN cache[d].loaded = DOMAIN cache[d].entries
        /\ \A p \in DOMAIN cache[d].loaded :
             /\ cache[d].loaded[p].files = cache[d].entries[p].files
             /\ cache[d].loaded[p].words = cache[d].entries[p].words

\* As many of the items of a project as a fingerprint counts are among those.
Counted(p, n, these) == \E T \in SUBSET items[p] : T \subseteq these /\ Cardinality(T) = n

PrintsCount(d) ==
    \A p \in existing : p \in DOMAIN cache[d].entries =>
        LET e == cache[d].entries[p] IN Counted(p, e.print.items, e.files \cap e.words)

\* What is kept is out of date only if the ledger tells.
KeptOrTold(d) ==
    cache[d].loaded # Nothing => Has(cache[d].loaded, Now) \/ Told(cache[d].checked)

BeganBefore(d) == load[d].step # "idle" => began[d] \in Moment /\ Past(began[d])

\* Once compacted the ledger tells it with one of its newest revisions.
KeptOrShown(d) ==
    load[d].step = "ledger" /\ cache[d].loaded # Nothing =>
        Has(cache[d].loaded, began[d]) \/ Shown(cache[d].checked)

KeptOrSeen(d) ==
    load[d].step = "check" /\ cache[d].loaded # Nothing =>
        Has(cache[d].loaded, began[d]) \/ load[d].seen # cache[d].checked

\* What a load has, or is to read, of the files of a project.
ReadOf(d, p) ==
    IF p \notin load[d].stale THEN cache[d].entries[p].files \cap cache[d].entries[p].words
    ELSE IF load[d].step = "files" THEN items[p] ELSE load[d].files[p]

Reads(d) ==
    load[d].step \in {"files", "words"} =>
        /\ existing \subseteq DOMAIN load[d].prints
        /\ DOMAIN load[d].prints \subseteq began[d].existing
        /\ load[d].stale \subseteq DOMAIN load[d].prints
        /\ DOMAIN load[d].prints \ load[d].stale \subseteq DOMAIN cache[d].entries
        /\ load[d].step = "words" => DOMAIN load[d].files = load[d].stale
        /\ \A p \in existing : /\ began[d].items[p] \subseteq ReadOf(d, p)
                               /\ p \in load[d].stale => Counted(p, load[d].prints[p].items, ReadOf(d, p))

\* Nor does it miss what came since, unless the ledger tells.
ReadsOrTold(d) ==
    load[d].step \in {"files", "words"} =>
        \/ Told(load[d].seen)
        \/ DOMAIN load[d].prints = existing /\ \A p \in existing : items[p] \subseteq ReadOf(d, p)

\* What is true of what a daemon keeps, of a load under way, of a request.
KeptRight(d) ==
    /\ NoneToCome(cache[d].checked) /\ Mirrored(d) /\ PrintsCount(d) /\ KeptOrTold(d)
    /\ cache[d].pairs # Nothing => cache[d].pairs = cache[d].loaded

LoadRight(d) ==
    /\ load[d].step \in {"check", "files", "words"} => NoneToCome(load[d].seen)
    /\ BeganBefore(d) /\ KeptOrShown(d) /\ KeptOrSeen(d) /\ Reads(d) /\ ReadsOrTold(d)

AskedRight(d) == asking[d] # Nothing => Has(asking[d].signatures, asking[d].since)

CacheInv ==
    /\ CacheTypes /\ WritesAreNew
    /\ \A d \in Comparer : KeptRight(d) /\ LoadRight(d) /\ AskedRight(d)

-----------------------------------------------------------------------------
(* Numbers and sets.                                                       *)

\* Bounded naturals have a greatest.
LEMMA MaxIs ==
    ASSUME NEW S, S \subseteq Nat, S # {}, NEW n \in Nat, \A x \in S : x <= n
    PROVE  Max(S) \in S /\ \A x \in S : x <= Max(S)
<1> DEFINE T == {n - x : x \in S}
<1>1. T \subseteq Nat
  <2> SUFFICES ASSUME NEW x \in S PROVE n - x \in Nat
    OBVIOUS
  <2>1. x \in Nat /\ x <= n
    OBVIOUS
  <2> QED
    BY <2>1
<1>2. T # {}
  OBVIOUS
<1>3. PICK t \in T : \A u \in T : ~(<<u, t>> \in OpToRel(<, Nat))
  <2> HIDE DEF T
  <2> QED
    BY <1>1, <1>2, NatLessThanWellFounded, WFMin
<1>4. PICK m \in S : t = n - m
  BY <1>3
<1>5. \A x \in S : m >= x
  <2> SUFFICES ASSUME NEW x \in S, ~(m >= x) PROVE FALSE
    OBVIOUS
  <2>1. n - x \in T /\ n - x < t /\ n - x \in Nat /\ t \in Nat
    BY <1>1, <1>4
  <2> QED
    BY <1>3, <2>1 DEF OpToRel
<1> QED
  BY <1>4, <1>5 DEF Max

LEMMA NothingIsEmpty == <<>> \in OfSome(Entry)
<1>1. <<>> = [i \in {} |-> i]
  OBVIOUS
<1>2. <<>> \in [{} -> Entry]
  BY <1>1
<1> QED
  BY <1>2 DEF OfSome

-----------------------------------------------------------------------------
(* The ledger.                                                             *)

LEMMA OldIs ==
    ASSUME CacheAssumption, CacheTypes, WritesAreNew, NEW r \in ledger
    PROVE  r \in Old <=> \E s \in ledger : ~(s <= r + LedgerKept)
<1>1. Max(ledger) \in ledger /\ \A s \in ledger : s <= Max(ledger)
  <2>1. ledger \subseteq Nat /\ ledger # {} /\ nextRevision \in Nat /\ \A s \in ledger : s <= nextRevision
    BY DEF CacheTypes, DaemonTypes, DatabaseTypes, WritesAreNew, NoneToCome
  <2> QED
    BY <2>1, MaxIs
<1>2. r \in Nat /\ LedgerKept \in Nat /\ ledger \subseteq Nat
  BY DEF CacheAssumption, CacheTypes, DaemonTypes, DatabaseTypes
<1> DEFINE newest == Max(ledger)
<1>3. newest \in Nat /\ newest \in ledger /\ \A s \in ledger : s <= newest
  BY <1>1, <1>2
<1>4. r \in Old <=> r < newest - LedgerKept
  BY DEF Old
<1> HIDE DEF newest
<1> QED
  BY <1>2, <1>3, <1>4

\* One of the newest revisions is read, whatever else is in the ledger.
LEMMA NewestShows ==
    ASSUME CacheAssumption, CacheTypes, WritesAreNew, NEW known, Shown(known)
    PROVE  Newest # known
<1>1. PICK r \in ledger : r \notin known /\ \A s \in ledger : s <= r + LedgerKept
  BY DEF Shown
<1>2. r \in Nat /\ LedgerKept \in Nat /\ ledger \subseteq Nat
  BY DEF CacheAssumption, CacheTypes, DaemonTypes, DatabaseTypes
<1> DEFINE above == {s \in ledger : s > r}
<1>3. above \subseteq r + 1 .. r + LedgerKept
  <2> SUFFICES ASSUME NEW s \in above PROVE s \in r + 1 .. r + LedgerKept
    OBVIOUS
  <2>1. s \in ledger /\ s > r /\ s \in Nat /\ s <= r + LedgerKept
    BY <1>1, <1>2
  <2> HIDE DEF above
  <2> QED
    BY <1>2, <2>1
<1>4. IsFiniteSet(r + 1 .. r + LedgerKept) /\ Cardinality(r + 1 .. r + LedgerKept) = LedgerKept
  <2>1. r + 1 \in Int /\ r + LedgerKept \in Int
    BY <1>2
  <2>2. /\ IsFiniteSet(r + 1 .. r + LedgerKept)
        /\ Cardinality(r + 1 .. r + LedgerKept) =
             IF r + 1 > r + LedgerKept THEN 0 ELSE (r + LedgerKept) - (r + 1) + 1
    BY <2>1, FS_Interval
  <2> QED
    BY <1>2, <2>2
<1>5. Cardinality(above) <= LedgerKept
  BY <1>3, <1>4, FS_Subset
<1> QED
  BY <1>1, <1>5 DEF Newest

-----------------------------------------------------------------------------
(* What the database does meanwhile.                                       *)

\* Projects go, the others grow; what the ledger tells it goes on telling;
\* and it tells of every change.
Grows ==
    /\ existing' \subseteq existing /\ \A p \in existing' : items[p] \subseteq items'[p]
    /\ \A C \in SUBSET Nat : NoneToCome(C) => /\ NoneToCome(C)'
                                              /\ Told(C) => Told(C)'
                                              /\ Shown(C) => Shown(C)'
    /\ \/ items' = items /\ existing' = existing
       \/ \A C \in SUBSET Nat : NoneToCome(C) => Told(C)'

LEMMA RestGrows ==
    ASSUME CacheInv, UNCHANGED database
    PROVE  Grows /\ DatabaseTypes' /\ WritesAreNew'
BY DEF CacheInv, CacheTypes, DaemonTypes, DatabaseTypes, database, Grows, WritesAreNew, NoneToCome, Told, Shown

LEMMA WriteGrows ==
    ASSUME CacheInv, NEW p \in Compared, NEW removes \in BOOLEAN, Write(p, removes)
    PROVE  Grows /\ DatabaseTypes' /\ WritesAreNew'
<1> DEFINE w == [revision |-> nextRevision, project |-> p, removes |-> removes]
<1>1. /\ writes' = writes \cup {w} /\ nextRevision' = nextRevision + 1
      /\ items' = items /\ existing' = existing /\ ledger' = ledger
  BY DEF Write
<1>2. DatabaseTypes
  BY DEF CacheInv, CacheTypes, DaemonTypes, DatabaseTypes
<1>3. nextRevision \in Nat /\ w.revision = nextRevision /\ w \in [revision : Nat, project : Compared, removes : BOOLEAN]
  BY <1>2 DEF DatabaseTypes
<1> HIDE DEF w
<1>4. DatabaseTypes'
  BY <1>1, <1>2, <1>3 DEF DatabaseTypes
<1>5. ASSUME NEW C \in SUBSET Nat, NoneToCome(C) PROVE NoneToCome(C)'
  BY <1>1, <1>3, <1>5 DEF NoneToCome
<1>6. WritesAreNew'
  <2>1. NoneToCome(ledger)'
    BY <1>1, <1>2, <1>5 DEF CacheInv, WritesAreNew, DatabaseTypes, NoneToCome
  <2>2. \A v \in writes : v.revision \in Nat /\ v.revision < nextRevision
    BY <1>2 DEF CacheInv, WritesAreNew, DatabaseTypes
  <2>3. \A v \in writes' : v.revision < nextRevision'
    BY <1>1, <1>3, <2>2
  <2>4. \A v, u \in writes' : v.revision = u.revision => v = u
    BY <1>1, <1>3, <2>2 DEF CacheInv, WritesAreNew
  <2> QED
    BY <2>1, <2>3, <2>4 DEF WritesAreNew
<1>7. Grows
  BY <1>1, <1>5 DEF Grows, Told, Shown
<1> QED
  BY <1>4, <1>6, <1>7

LEMMA RollBackGrows ==
    ASSUME CacheInv, NEW w \in writes, RollBack(w)
    PROVE  Grows /\ DatabaseTypes' /\ WritesAreNew'
<1>1. /\ writes' \subseteq writes /\ nextRevision' = nextRevision
      /\ items' = items /\ existing' = existing /\ ledger' = ledger
  BY DEF RollBack
<1> QED
  BY <1>1 DEF CacheInv, CacheTypes, DaemonTypes, DatabaseTypes, Grows, WritesAreNew, NoneToCome, Told, Shown

LEMMA CommitGrows ==
    ASSUME CacheInv, CacheAssumption, NEW w \in writes, CommitWrite(w)
    PROVE  Grows /\ DatabaseTypes' /\ WritesAreNew'
<1>1. DatabaseTypes
  BY DEF CacheInv, CacheTypes, DaemonTypes, DatabaseTypes
<1>2. /\ writes' = writes \ {w} /\ ledger' = ledger \cup {w.revision} /\ nextRevision' = nextRevision
      /\ w.project \in Compared /\ w.project \in existing /\ w.revision \in Nat
  BY <1>1 DEF CommitWrite, DatabaseTypes
<1>3. /\ existing' \subseteq existing
      /\ items' \in [Compared -> SUBSET Nat] /\ \A p \in Compared : IsFiniteSet(items'[p])
      /\ \A p \in existing' : items[p] \subseteq items'[p]
  <2>1. CASE w.removes
    <3>1. existing' = existing \ {w.project} /\ items' = [items EXCEPT ![w.project] = {}]
      BY <2>1 DEF CommitWrite
    <3> QED
      BY <1>1, <1>2, <3>1, FS_EmptySet DEF DatabaseTypes
  <2>2. CASE ~w.removes
    <3>1. existing' = existing /\ items' = [items EXCEPT ![w.project] = @ \cup {w.revision}]
      BY <2>2 DEF CommitWrite
    <3>2. IsFiniteSet(items[w.project] \cup {w.revision})
      BY <1>1, <1>2, FS_AddElement DEF DatabaseTypes
    <3> QED
      BY <1>1, <1>2, <3>1, <3>2 DEF DatabaseTypes
  <2> QED
    BY <2>1, <2>2
<1>4. DatabaseTypes'
  BY <1>1, <1>2, <1>3 DEF DatabaseTypes
<1>5. WritesAreNew
  BY DEF CacheInv
<1>6. WritesAreNew'
  BY <1>1, <1>2, <1>5 DEF WritesAreNew, NoneToCome, DatabaseTypes
<1>7. ASSUME NEW C \in SUBSET Nat PROVE NoneToCome(C) => NoneToCome(C)' /\ Told(C)'
  BY <1>2 DEF NoneToCome, Told
<1>8. ASSUME NEW C \in SUBSET Nat PROVE Told(C) => Told(C)'
  BY <1>2 DEF Told
<1>9. ASSUME NEW C \in SUBSET Nat, NoneToCome(C), Shown(C) PROVE Shown(C)'
  <2>1. PICK r \in ledger : r \notin C /\ \A s \in ledger : s <= r + LedgerKept
    BY <1>9 DEF Shown
  <2>2. r \in Nat /\ LedgerKept \in Nat /\ ledger \subseteq Nat
    BY <1>1 DEF DatabaseTypes, CacheAssumption
  <2>3. CASE w.revision <= r + LedgerKept
    BY <1>2, <2>1, <2>3 DEF Shown
  <2>4. CASE ~(w.revision <= r + LedgerKept)
    <3>1. \A s \in ledger' : s <= w.revision + LedgerKept
      BY <1>2, <2>1, <2>2, <2>4
    <3> QED
      BY <1>2, <1>9, <3>1 DEF Shown, NoneToCome
  <2> QED
    BY <2>3, <2>4
<1> QED
  BY <1>3, <1>4, <1>6, <1>7, <1>8, <1>9 DEF Grows

LEMMA CompactGrows ==
    ASSUME CacheInv, CacheAssumption, NEW e \in Comparer, CompactLedger(e)
    PROVE  /\ Grows /\ DatabaseTypes' /\ WritesAreNew'
           /\ \A C \in SUBSET Nat : NoneToCome(C) /\ Told(C) => Shown(C)'
<1>1. DatabaseTypes /\ CacheTypes /\ WritesAreNew
  BY DEF CacheInv, CacheTypes, DaemonTypes, DatabaseTypes
<1>2. /\ items' = items /\ existing' = existing /\ writes' = writes
      /\ nextRevision' = IF Old = {} THEN nextRevision ELSE nextRevision + 1
      /\ ledger' = IF Old = {} THEN ledger ELSE (ledger \ Old) \cup {nextRevision}
  BY DEF CompactLedger, Compacted
<1>3. nextRevision \in Nat /\ LedgerKept \in Nat /\ ledger \subseteq Nat /\ \A r \in ledger : r < nextRevision
  BY <1>1 DEF DatabaseTypes, WritesAreNew, NoneToCome, CacheAssumption
<1>4. \A r \in ledger : r \in Old <=> \E s \in ledger : ~(s <= r + LedgerKept)
  BY <1>1, OldIs
<1> HIDE DEF Old
<1>5. ledger' \subseteq Nat /\ ledger' # {} /\ nextRevision' \in Nat /\ nextRevision <= nextRevision'
  <2>1. CASE Old = {}
    BY <1>1, <1>2, <1>3, <2>1 DEF DatabaseTypes
  <2>2. CASE Old # {}
    <3>1. ledger' = (ledger \ Old) \cup {nextRevision} /\ nextRevision' = nextRevision + 1
      BY <1>2, <2>2
    <3>2. ledger' \subseteq Nat /\ ledger' # {}
      BY <1>3, <3>1
    <3>3. nextRevision' \in Nat /\ nextRevision <= nextRevision'
      BY <1>3, <3>1
    <3> QED
      BY <3>2, <3>3
  <2> QED
    BY <2>1, <2>2
<1>6. DatabaseTypes'
  BY <1>1, <1>2, <1>5 DEF DatabaseTypes
<1>7. \A w \in writes : w.revision \in Nat /\ w.revision < nextRevision /\ w.revision \notin ledger
  BY <1>1 DEF WritesAreNew, DatabaseTypes, NoneToCome
<1>8. WritesAreNew'
  <2>1. \A r \in ledger' : r < nextRevision'
    BY <1>2, <1>3
  <2>2. \A w \in writes : w.revision \notin ledger' /\ w.revision < nextRevision'
    BY <1>2, <1>3, <1>5, <1>7
  <2> QED
    BY <1>1, <1>2, <2>1, <2>2 DEF WritesAreNew, NoneToCome
<1>9. ASSUME NEW C \in SUBSET Nat, NoneToCome(C) PROVE NoneToCome(C)'
  BY <1>2, <1>3, <1>5, <1>9 DEF NoneToCome
<1>10. ASSUME NEW C \in SUBSET Nat, NoneToCome(C), Told(C) PROVE Shown(C)'
  <2>1. CASE Old = {}
    <3>1. ledger' = ledger /\ \A r, s \in ledger : s <= r + LedgerKept
      BY <1>2, <1>4, <2>1
    <3> QED
      BY <1>10, <3>1 DEF Told, Shown
  <2>2. CASE Old # {}
    <3>1. nextRevision \in ledger' /\ nextRevision \notin C
      BY <1>2, <1>3, <1>10, <2>2 DEF NoneToCome
    <3>2. \A s \in ledger' : s <= nextRevision + LedgerKept
      BY <1>2, <1>3
    <3> QED
      BY <3>1, <3>2 DEF Shown
  <2> QED
    BY <2>1, <2>2
<1>11. \A C \in SUBSET Nat : (Shown(C) => Told(C)) /\ (Shown(C)' => Told(C)')
  BY DEF Shown, Told
<1>12. Grows
  BY <1>2, <1>9, <1>10, <1>11 DEF Grows
<1> QED
  BY <1>6, <1>8, <1>10, <1>12

-----------------------------------------------------------------------------
(* What a daemon has stays right while others are at work.                 *)

\* What a daemon keeps, what its load has read, what it was asked for.
KeptStays(d)  == cache'[d] = cache[d]
LoadStays(d)  == KeptStays(d) /\ load'[d] = load[d] /\ began'[d] = began[d]
AskedStays(d) == asking'[d] = asking[d]

LEMMA HasStays ==
    ASSUME Grows, NEW signatures, NEW moment, Has(signatures, moment)
    PROVE  Has(signatures, moment)'
BY DEF Grows, Has

\* What signatures have now they go on having, unless the ledger tells.
LEMMA NowStays ==
    ASSUME Grows, NEW signatures, NEW C \in SUBSET Nat, NoneToCome(C), Has(signatures, Now) \/ Told(C)
    PROVE  Has(signatures, Now)' \/ Told(C)'
BY DEF Grows, Has, Now

\* What is there now was there at any moment before, and more.
LEMMA NowIsMore ==
    ASSUME NEW signatures, NEW moment, Past(moment), Has(signatures, Now)
    PROVE  Has(signatures, moment)
BY DEF Has, Now, Past

LEMMA CountedStays ==
    ASSUME Grows, NEW p \in existing, p \in existing', NEW n, NEW these, NEW those,
           Counted(p, n, these), these \subseteq those
    PROVE  Counted(p, n, those)'
BY DEF Grows, Counted

LEMMA KeptStaysRight ==
    ASSUME CacheInv, Grows, NEW d \in Comparer, KeptStays(d)
    PROVE  KeptRight(d)'
<1>1. KeptRight(d) /\ cache[d].checked \in SUBSET Nat
  BY DEF CacheInv, CacheTypes, DaemonTypes, DatabaseTypes, Kept
<1>2. NoneToCome(cache[d].checked)'
  BY <1>1 DEF KeptRight, KeptStays, Grows
<1>3. KeptOrTold(d)'
  BY <1>1, NowStays DEF KeptRight, KeptStays, KeptOrTold
<1>4. PrintsCount(d)'
  <2>1. existing' \subseteq existing
    BY DEF Grows
  <2> QED
    BY <1>1, <2>1, CountedStays DEF KeptRight, KeptStays, PrintsCount
<1> QED
  BY <1>1, <1>2, <1>3, <1>4 DEF KeptRight, KeptStays, Mirrored

LEMMA AskedStaysRight ==
    ASSUME CacheInv, Grows, NEW d \in Comparer, AskedStays(d)
    PROVE  AskedRight(d)'
BY HasStays DEF CacheInv, AskedRight, AskedStays

\* The shapes of a load.
LEMMA LoadIs ==
    ASSUME CacheTypes, NEW d \in Comparer
    PROVE  /\ load[d].step \in {"idle", "compact", "ledger", "check", "files", "words"}
           /\ load[d].step = "check" => load[d] \in Checking
           /\ load[d].step = "files" => load[d] \in Filing
           /\ load[d].step = "words" => load[d] \in Wording
           /\ load[d].step \in {"idle", "compact", "ledger"} => load[d] \in Begun
           /\ load[d].step \in {"check", "files", "words"} => load[d].seen \in SUBSET Nat
<1>1. load[d] \in Begun \cup Checking \cup Filing \cup Wording
  BY DEF CacheTypes, DaemonTypes, DatabaseTypes
<1> QED
  BY <1>1 DEF Begun, Checking, Filing, Wording

\* What a load reads of a project does not become less.
LEMMA ReadOfStays ==
    ASSUME Grows, NEW d \in Comparer, LoadStays(d), NEW p \in existing'
    PROVE  ReadOf(d, p) \subseteq ReadOf(d, p)'
BY DEF Grows, LoadStays, KeptStays, ReadOf

LEMMA LoadStaysRight ==
    ASSUME CacheInv, Grows, NEW d \in Comparer, LoadStays(d)
    PROVE  LoadRight(d)'
<1>1. LoadRight(d) /\ KeptRight(d) /\ CacheTypes /\ cache[d].checked \in SUBSET Nat
  BY DEF CacheInv, CacheTypes, DaemonTypes, DatabaseTypes, Kept
<1>2. load[d].step \in {"check", "files", "words"} => NoneToCome(load[d].seen) /\ NoneToCome(load[d].seen)'
  BY <1>1, LoadIs DEF LoadRight, LoadStays, Grows
<1>3. BeganBefore(d)'
  BY <1>1 DEF LoadRight, BeganBefore, LoadStays, Past, Grows
<1>4. KeptOrShown(d)'
  <2>1. Shown(cache[d].checked) => Shown(cache[d].checked)'
    BY <1>1 DEF Grows, KeptRight, LoadStays, KeptStays
  <2> QED
    BY <1>1, <2>1, HasStays DEF LoadRight, KeptOrShown, LoadStays, KeptStays
<1>5. KeptOrSeen(d)'
  BY <1>1, HasStays DEF LoadRight, KeptOrSeen, LoadStays, KeptStays
<1>6. \A p \in existing' : ReadOf(d, p) \subseteq ReadOf(d, p)' /\ p \in existing
  BY ReadOfStays DEF Grows
<1>7. Reads(d)'
  <2>1. ASSUME NEW p \in existing', NEW n, Counted(p, n, ReadOf(d, p))
        PROVE  Counted(p, n, ReadOf(d, p))'
    BY <1>6, <2>1 DEF Grows, Counted
  <2> QED
    BY <1>1, <1>6, <2>1 DEF LoadRight, Reads, LoadStays, KeptStays
<1>8. ReadsOrTold(d)'
  <2> SUFFICES ASSUME load[d].step \in {"files", "words"}, ~Told(load[d].seen)'
               PROVE  DOMAIN load[d].prints = existing' /\ \A p \in existing' : items'[p] \subseteq ReadOf(d, p)'
    BY DEF ReadsOrTold, LoadStays
  <2>1. ~Told(load[d].seen) /\ items' = items /\ existing' = existing
    BY <1>1, <1>2, LoadIs DEF Grows, LoadStays
  <2> QED
    BY <1>1, <1>6, <2>1 DEF LoadRight, ReadsOrTold
<1> QED
  BY <1>2, <1>3, <1>4, <1>5, <1>7, <1>8 DEF LoadRight, LoadStays

-----------------------------------------------------------------------------
(* What a daemon does.                                                     *)

LEMMA NoLoadIsRight ==
    ASSUME NEW d \in Comparer, load'[d] = NoLoad
    PROVE  LoadRight(d)'
BY DEF NoLoad, LoadRight, BeganBefore, KeptOrShown, KeptOrSeen, Reads, ReadsOrTold

\* A step of one daemon that leaves what others have.
Alone(e) ==
    \A d \in Comparer \ {e} : KeptStays(d) /\ LoadStays(d) /\ AskedStays(d)

LEMMA OneActs ==
    ASSUME CacheInv, Grows, WritesAreNew', DatabaseTypes', DaemonTypes', NEW e \in Comparer, Alone(e),
           KeptRight(e)', LoadRight(e)', AskedRight(e)'
    PROVE  CacheInv'
<1>1. \A d \in Comparer : KeptRight(d)' /\ LoadRight(d)' /\ AskedRight(d)'
  <2> TAKE d \in Comparer
  <2>1. CASE d = e
    BY <2>1
  <2>2. CASE d # e
    BY <2>2, KeptStaysRight, LoadStaysRight, AskedStaysRight DEF Alone
  <2> QED
    BY <2>1, <2>2
<1> QED
  BY <1>1 DEF CacheInv, CacheTypes

LEMMA BeginLoadKeeps ==
    ASSUME CacheInv, NEW e \in Comparer, BeginLoad(e)
    PROVE  CacheInv'
<1>1. DaemonTypes /\ DatabaseTypes
  BY DEF CacheInv, CacheTypes
<1>2. /\ load' = [load EXCEPT ![e] = [step |-> "compact"]]
      /\ began' = [began EXCEPT ![e] = Now]
      /\ cache' = cache /\ asking' = asking /\ UNCHANGED database
  BY DEF BeginLoad, Now
<1>3. Grows /\ DatabaseTypes' /\ WritesAreNew'
  BY <1>2, RestGrows
<1>4. Now \in Moment /\ [step |-> "compact"] \in Begun
  BY <1>1 DEF Now, Moment, DatabaseTypes, Begun
<1>5. DaemonTypes'
  BY <1>1, <1>2, <1>4 DEF DaemonTypes
<1>6. load'[e] = [step |-> "compact"] /\ began'[e] = Now
  BY <1>1, <1>2 DEF DaemonTypes
<1>7. Alone(e) /\ KeptStays(e) /\ AskedStays(e)
  BY <1>1, <1>2 DEF Alone, KeptStays, LoadStays, AskedStays, DaemonTypes
<1>8. LoadRight(e)'
  <2>1. BeganBefore(e)'
    BY <1>2, <1>4, <1>6 DEF BeganBefore, Past, Now, database
  <2> QED
    BY <1>6, <2>1 DEF LoadRight, KeptOrShown, KeptOrSeen, Reads, ReadsOrTold
<1> QED
  BY <1>3, <1>5, <1>7, <1>8, OneActs, KeptStaysRight, AskedStaysRight

LEMMA CompactLedgerKeeps ==
    ASSUME CacheInv, CacheAssumption, NEW e \in Comparer, CompactLedger(e)
    PROVE  CacheInv'
<1>1. DaemonTypes /\ DatabaseTypes /\ CacheTypes /\ KeptRight(e) /\ LoadRight(e)
  BY DEF CacheInv, CacheTypes
<1>2. /\ load[e].step = "compact" /\ load' = [load EXCEPT ![e].step = "ledger"]
      /\ cache' = cache /\ asking' = asking /\ began' = began
  BY DEF CompactLedger
<1>3. Grows /\ DatabaseTypes' /\ WritesAreNew'
  BY CompactGrows
<1>4. load[e] \in Begun
  BY <1>1, <1>2, LoadIs
<1>5. load'[e] \in Begun /\ load'[e].step = "ledger"
  BY <1>1, <1>2, <1>4 DEF DaemonTypes, Begun
<1>6. DaemonTypes'
  BY <1>1, <1>2, <1>4 DEF DaemonTypes, Begun
<1>7. Alone(e) /\ KeptStays(e) /\ AskedStays(e)
  BY <1>1, <1>2 DEF Alone, KeptStays, LoadStays, AskedStays, DaemonTypes
<1>8. BeganBefore(e)'
  BY <1>1, <1>2, <1>3 DEF LoadRight, BeganBefore, Past, Grows
<1>9. KeptOrShown(e)'
  <2> SUFFICES ASSUME cache[e].loaded # Nothing
               PROVE  Has(cache[e].loaded, began[e])' \/ Shown(cache[e].checked)'
    BY <1>2 DEF KeptOrShown
  <2>1. Past(began[e]) /\ NoneToCome(cache[e].checked) /\ cache[e].checked \in SUBSET Nat
    BY <1>1, <1>2 DEF LoadRight, BeganBefore, KeptRight, DaemonTypes, Kept
  <2>2. CASE Has(cache[e].loaded, Now)
    BY <1>2, <1>3, <2>1, <2>2, NowIsMore, HasStays
  <2>3. CASE Told(cache[e].checked)
    BY <1>2, <2>1, <2>3, CompactGrows
  <2> QED
    BY <1>1, <2>2, <2>3 DEF KeptRight, KeptOrTold
<1>10. LoadRight(e)'
  BY <1>5, <1>8, <1>9 DEF LoadRight, KeptOrSeen, Reads, ReadsOrTold
<1> QED
  BY <1>3, <1>6, <1>7, <1>10, OneActs, KeptStaysRight, AskedStaysRight

LEMMA ReadLedgerKeeps ==
    ASSUME CacheInv, CacheAssumption, NEW e \in Comparer, ReadLedger(e)
    PROVE  CacheInv'
<1>1. DaemonTypes /\ DatabaseTypes /\ CacheTypes /\ WritesAreNew /\ KeptRight(e) /\ LoadRight(e)
  BY DEF CacheInv, CacheTypes
<1>2. /\ load[e].step = "ledger" /\ load' = [load EXCEPT ![e] = [step |-> "check", seen |-> Newest]]
      /\ cache' = cache /\ asking' = asking /\ began' = began /\ UNCHANGED database
  BY DEF ReadLedger, database
<1>3. Grows /\ DatabaseTypes' /\ WritesAreNew'
  BY <1>2, RestGrows
<1>4. Newest \subseteq ledger /\ Newest \in SUBSET Nat
  BY <1>1 DEF Newest, DatabaseTypes
<1>5. [step |-> "check", seen |-> Newest] \in Checking
  BY <1>4 DEF Checking
<1>6. DaemonTypes'
  BY <1>1, <1>2, <1>5 DEF DaemonTypes
<1>7. load'[e] = [step |-> "check", seen |-> Newest]
  BY <1>1, <1>2 DEF DaemonTypes
<1>8. Alone(e) /\ KeptStays(e) /\ AskedStays(e)
  BY <1>1, <1>2 DEF Alone, KeptStays, LoadStays, AskedStays, DaemonTypes
<1>9. NoneToCome(load[e].seen)'
  <2>1. load'[e].seen \subseteq ledger
    BY <1>4, <1>7
  <2>2. NoneToCome(ledger) /\ nextRevision' = nextRevision /\ writes' = writes
    BY <1>1, <1>2 DEF WritesAreNew, database
  <2> QED
    BY <2>1, <2>2 DEF NoneToCome
<1>10. BeganBefore(e)'
  BY <1>1, <1>2, <1>3 DEF LoadRight, BeganBefore, Past, Grows
<1>11. KeptOrSeen(e)'
  <2> SUFFICES ASSUME cache[e].loaded # Nothing
               PROVE  Has(cache[e].loaded, began[e])' \/ Newest # cache[e].checked
    BY <1>2, <1>7 DEF KeptOrSeen
  <2>1. CASE Has(cache[e].loaded, began[e])
    BY <1>2, <1>3, <2>1, HasStays
  <2>2. CASE Shown(cache[e].checked)
    BY <1>1, <2>2, NewestShows
  <2> QED
    BY <1>1, <1>2, <2>1, <2>2 DEF LoadRight, KeptOrShown
<1>12. LoadRight(e)'
  BY <1>7, <1>9, <1>10, <1>11 DEF LoadRight, KeptOrShown, Reads, ReadsOrTold
<1> QED
  BY <1>3, <1>6, <1>8, <1>12, OneActs, KeptStaysRight, AskedStaysRight

\* A request that takes the signatures of a load along has what it asked for.
LEMMA HandIsRight ==
    ASSUME CacheInv, NEW e \in Comparer, NEW signatures \in OfSome(Signature), Hand(e, signatures),
           Grows, began[e] \in Moment, Has(signatures, began[e])
    PROVE  /\ AskedRight(e)'
           /\ asking' \in [Comparer -> [signatures : OfSome(Signature), since : Moment] \cup {Nothing}]
           /\ began' \in [Comparer -> Moment \cup {Nothing}]
           /\ \A d \in Comparer \ {e} : AskedStays(d) /\ began'[d] = began[d]
<1>1. DaemonTypes /\ AskedRight(e)
  BY DEF CacheInv, CacheTypes
<1> DEFINE taken == [signatures |-> signatures, since |-> began[e]]
<1>2. /\ asking' = [asking EXCEPT ![e] = IF asking[e] = Nothing THEN taken ELSE asking[e]]
      /\ began' = [began EXCEPT ![e] = Nothing]
  BY DEF Hand
<1>3. taken \in [signatures : OfSome(Signature), since : Moment]
      /\ taken.signatures = signatures /\ taken.since = began[e]
  OBVIOUS
<1> HIDE DEF taken
<1>4. asking'[e] = IF asking[e] = Nothing THEN taken ELSE asking[e]
  BY <1>1, <1>2 DEF DaemonTypes
<1>5. AskedRight(e)'
  <2>1. CASE asking[e] = Nothing
    <3>1. Has(signatures, began[e]) /\ asking'[e].signatures = signatures /\ asking'[e].since = began[e]
      BY <1>3, <1>4, <2>1
    <3> QED
      BY <3>1, HasStays DEF AskedRight
  <2>2. CASE asking[e] # Nothing
    BY <1>4, <2>2, AskedStaysRight DEF AskedStays
  <2> QED
    BY <2>1, <2>2
<1>6. asking' \in [Comparer -> [signatures : OfSome(Signature), since : Moment] \cup {Nothing}]
  BY <1>1, <1>2, <1>3 DEF DaemonTypes
<1> QED
  BY <1>1, <1>2, <1>5, <1>6 DEF DaemonTypes, AskedStays

LEMMA AnswerFromCacheKeeps ==
    ASSUME CacheInv, NEW e \in Comparer, AnswerFromCache(e)
    PROVE  CacheInv'
<1>1. DaemonTypes /\ DatabaseTypes /\ CacheTypes /\ LoadRight(e)
  BY DEF CacheInv, CacheTypes
<1>2. /\ load[e].step = "check" /\ load' = [load EXCEPT ![e] = NoLoad]
      /\ cache[e].loaded # Nothing /\ cache[e].checked = load[e].seen
      /\ Hand(e, cache[e].loaded)
      /\ cache' = cache /\ UNCHANGED database
  BY DEF AnswerFromCache
<1>3. Grows /\ DatabaseTypes' /\ WritesAreNew'
  BY <1>2, RestGrows
<1>4. cache[e].loaded \in OfSome(Signature)
  BY <1>1, <1>2 DEF DaemonTypes, Kept
<1>5. began[e] \in Moment /\ Has(cache[e].loaded, began[e])
  BY <1>1, <1>2 DEF LoadRight, BeganBefore, KeptOrSeen
<1>6. /\ AskedRight(e)'
      /\ asking' \in [Comparer -> [signatures : OfSome(Signature), since : Moment] \cup {Nothing}]
      /\ began' \in [Comparer -> Moment \cup {Nothing}]
      /\ \A d \in Comparer \ {e} : AskedStays(d) /\ began'[d] = began[d]
  BY <1>2, <1>3, <1>4, <1>5, HandIsRight
<1>7. DaemonTypes'
  BY <1>1, <1>2, <1>6 DEF DaemonTypes, NoLoad, Begun
<1>8. Alone(e) /\ KeptStays(e) /\ load'[e] = NoLoad
  BY <1>1, <1>2, <1>6 DEF Alone, KeptStays, LoadStays, DaemonTypes
<1> QED
  BY <1>3, <1>6, <1>7, <1>8, OneActs, KeptStaysRight, NoLoadIsRight

LEMMA LoadFailsKeeps ==
    ASSUME CacheInv, NEW e \in Comparer, LoadFails(e)
    PROVE  CacheInv'
<1>1. DaemonTypes
  BY DEF CacheInv, CacheTypes
<1>2. /\ load' = [load EXCEPT ![e] = NoLoad] /\ began' = [began EXCEPT ![e] = Nothing]
      /\ cache' = cache /\ asking' = asking /\ UNCHANGED database
  BY DEF LoadFails
<1>3. Grows /\ DatabaseTypes' /\ WritesAreNew'
  BY <1>2, RestGrows
<1>4. DaemonTypes'
  BY <1>1, <1>2 DEF DaemonTypes, NoLoad, Begun
<1>5. Alone(e) /\ KeptStays(e) /\ AskedStays(e) /\ load'[e] = NoLoad
  BY <1>1, <1>2 DEF Alone, KeptStays, LoadStays, AskedStays, DaemonTypes
<1> QED
  BY <1>3, <1>4, <1>5, OneActs, KeptStaysRight, AskedStaysRight, NoLoadIsRight

LEMMA UseKeptPairsKeeps ==
    ASSUME CacheInv, NEW e \in Comparer, UseKeptPairs(e)
    PROVE  CacheInv'
<1>1. DaemonTypes
  BY DEF CacheInv, CacheTypes
<1>2. /\ asking' = [asking EXCEPT ![e] = Nothing]
      /\ cache' = cache /\ load' = load /\ began' = began /\ UNCHANGED database
  BY DEF UseKeptPairs, database
<1>3. Grows /\ DatabaseTypes' /\ WritesAreNew'
  BY <1>2, RestGrows
<1>4. DaemonTypes'
  BY <1>1, <1>2 DEF DaemonTypes
<1>5. Alone(e) /\ KeptStays(e) /\ LoadStays(e) /\ asking'[e] = Nothing
  BY <1>1, <1>2 DEF Alone, KeptStays, LoadStays, AskedStays, DaemonTypes
<1>6. AskedRight(e)'
  BY <1>5 DEF AskedRight
<1> QED
  BY <1>3, <1>4, <1>5, <1>6, OneActs, KeptStaysRight, LoadStaysRight

LEMMA KeepPairsKeeps ==
    ASSUME CacheInv, NEW e \in Comparer, KeepPairs(e)
    PROVE  CacheInv'
<1>1. DaemonTypes /\ KeptRight(e)
  BY DEF CacheInv, CacheTypes
<1> DEFINE pairs == IF Keepable(e) THEN asking[e].signatures ELSE cache[e].pairs
<1>2. /\ load[e] = NoLoad /\ asking[e] # Nothing
      /\ asking' = [asking EXCEPT ![e] = Nothing]
      /\ cache' = [cache EXCEPT ![e].pairs = pairs]
      /\ load' = load /\ began' = began /\ UNCHANGED database
  BY DEF KeepPairs
<1>3. Grows /\ DatabaseTypes' /\ WritesAreNew'
  BY <1>2, RestGrows
<1>4. cache[e] \in Kept /\ asking[e].signatures \in OfSome(Signature)
  BY <1>1, <1>2 DEF DaemonTypes
<1>5. pairs \in OfSome(Signature) \cup {Nothing} /\ (pairs # Nothing => pairs = cache[e].loaded)
  BY <1>1, <1>4 DEF Kept, Keepable, KeptRight
<1> HIDE DEF pairs
<1>6. /\ cache'[e] \in Kept /\ cache'[e].pairs = pairs /\ cache'[e].entries = cache[e].entries
      /\ cache'[e].loaded = cache[e].loaded /\ cache'[e].checked = cache[e].checked
  BY <1>1, <1>2, <1>4, <1>5 DEF DaemonTypes, Kept
<1>7. DaemonTypes'
  <2>1. cache' \in [Comparer -> Kept]
    BY <1>1, <1>2, <1>6 DEF DaemonTypes
  <2> QED
    BY <1>1, <1>2, <2>1 DEF DaemonTypes
<1>8. Alone(e) /\ asking'[e] = Nothing /\ load'[e] = NoLoad
  BY <1>1, <1>2 DEF Alone, KeptStays, LoadStays, AskedStays, DaemonTypes
<1>9. KeptRight(e)'
  BY <1>1, <1>2, <1>5, <1>6 DEF KeptRight, NoneToCome, Mirrored, PrintsCount, Counted, KeptOrTold,
                                Has, Now, Told, database
<1>10. AskedRight(e)'
  BY <1>8 DEF AskedRight
<1> QED
  BY <1>3, <1>7, <1>8, <1>9, <1>10, OneActs, NoLoadIsRight

\* A set of items that has as many of them as there are has them all.
LEMMA AllCounted ==
    ASSUME NEW p \in Compared, IsFiniteSet(items[p]), NEW these, Counted(p, Cardinality(items[p]), these)
    PROVE  items[p] \subseteq these
<1>1. PICK T \in SUBSET items[p] : T \subseteq these /\ Cardinality(T) = Cardinality(items[p])
  BY DEF Counted
<1>2. T = items[p]
  BY <1>1, FS_Subset
<1> QED
  BY <1>1, <1>2

LEMMA ReadProjectsKeeps ==
    ASSUME CacheInv, NEW e \in Comparer, ReadProjects(e)
    PROVE  CacheInv'
<1>1. DaemonTypes /\ DatabaseTypes /\ CacheTypes /\ KeptRight(e) /\ LoadRight(e)
  BY DEF CacheInv, CacheTypes
<1> DEFINE prints == [p \in existing |-> PrintOf(e, p)]
           stale  == {p \in existing : Outdated(e, p)}
           next   == [step |-> "files", seen |-> load[e].seen, prints |-> prints, stale |-> stale]
<1>2. /\ load[e].step = "check" /\ load' = [load EXCEPT ![e] = next]
      /\ cache' = cache /\ asking' = asking /\ began' = began /\ UNCHANGED database
  BY DEF ReadProjects
<1>3. Grows /\ DatabaseTypes' /\ WritesAreNew'
  BY <1>2, RestGrows
<1>4. load[e].seen \in SUBSET Nat /\ NoneToCome(load[e].seen) /\ began[e] \in Moment /\ Past(began[e])
  BY <1>1, <1>2, LoadIs DEF LoadRight, BeganBefore
<1>5. \A p \in existing : PrintOf(e, p) \in Fingerprint /\ PrintOf(e, p).items = Cardinality(items[p])
  BY <1>1, <1>4, FS_CardinalityType DEF PrintOf, Fingerprint, DatabaseTypes
<1>6. prints \in [existing -> Fingerprint] /\ stale \in SUBSET existing
  BY <1>5
<1>7. prints \in OfSome(Fingerprint) /\ stale \in SUBSET Compared
  BY <1>1, <1>6 DEF OfSome, DatabaseTypes
<1>8. \A p \in existing \ stale : /\ p \in DOMAIN cache[e].entries
                                  /\ cache[e].entries[p].print = PrintOf(e, p)
  BY DEF Outdated
<1>9. \A p \in existing : prints[p] = PrintOf(e, p)
  OBVIOUS
<1> HIDE DEF prints, stale
<1>10. /\ next \in Filing /\ next.step = "files" /\ next.seen = load[e].seen
       /\ next.prints = prints /\ next.stale = stale
  BY <1>4, <1>7 DEF Filing
<1> HIDE DEF next
<1>11. DaemonTypes'
  BY <1>1, <1>2, <1>10 DEF DaemonTypes
<1>12. load'[e] = next
  BY <1>1, <1>2 DEF DaemonTypes
<1>13. Alone(e) /\ KeptStays(e) /\ AskedStays(e)
  BY <1>1, <1>2 DEF Alone, KeptStays, LoadStays, AskedStays, DaemonTypes
<1>14. existing' = existing /\ items' = items /\ DOMAIN prints = existing
  BY <1>2, <1>6 DEF database
<1>15. \A p \in existing : ReadOf(e, p)' = IF p \in stale THEN items[p]
                                           ELSE cache[e].entries[p].files \cap cache[e].entries[p].words
  BY <1>2, <1>10, <1>12, <1>14 DEF ReadOf
<1>16. \A p \in existing : items[p] \subseteq ReadOf(e, p)'
  <2> TAKE p \in existing
  <2>1. CASE p \in stale
    BY <1>15, <2>1
  <2>2. CASE p \notin stale
    <3>1. Counted(p, Cardinality(items[p]), cache[e].entries[p].files \cap cache[e].entries[p].words)
      BY <1>1, <1>5, <1>8, <2>2 DEF KeptRight, PrintsCount
    <3>2. p \in Compared /\ IsFiniteSet(items[p])
      BY <1>1 DEF DatabaseTypes
    <3> QED
      BY <1>15, <2>2, <3>1, <3>2, AllCounted
  <2> QED
    BY <2>1, <2>2
<1>17. Reads(e)'
  <2>1. \A p \in stale : Counted(p, load[e].prints[p].items, ReadOf(e, p))'
    <3> TAKE p \in stale
    <3>1. load'[e].prints[p].items = Cardinality(items[p]) /\ ReadOf(e, p)' = items[p]
      BY <1>5, <1>6, <1>9, <1>10, <1>12, <1>15
    <3> QED
      BY <1>14, <3>1 DEF Counted
  <2>2. existing \subseteq began[e].existing /\ \A p \in existing : began[e].items[p] \subseteq items[p]
    BY <1>4 DEF Past
  <2>3. \A p \in existing : began[e].items[p] \subseteq ReadOf(e, p)'
    BY <1>16, <2>2
  <2> QED
    BY <1>2, <1>6, <1>8, <1>10, <1>12, <1>14, <2>1, <2>2, <2>3 DEF Reads
<1>18. ReadsOrTold(e)'
  BY <1>10, <1>12, <1>14, <1>16 DEF ReadsOrTold
<1>19. BeganBefore(e)'
  BY <1>2, <1>4, <1>14 DEF BeganBefore, Past
<1>20. NoneToCome(load[e].seen)'
  <2>1. load'[e].seen = load[e].seen
    BY <1>10, <1>12
  <2> QED
    BY <1>2, <1>4, <2>1 DEF NoneToCome, database
<1>21. LoadRight(e)'
  BY <1>10, <1>12, <1>17, <1>18, <1>19, <1>20 DEF LoadRight, KeptOrShown, KeptOrSeen
<1> QED
  BY <1>3, <1>11, <1>13, <1>21, OneActs, KeptStaysRight, AskedStaysRight

LEMMA ReadFilesKeeps ==
    ASSUME CacheInv, NEW e \in Comparer, ReadFiles(e)
    PROVE  CacheInv'
<1>1. DaemonTypes /\ DatabaseTypes /\ CacheTypes /\ LoadRight(e)
  BY DEF CacheInv, CacheTypes
<1> DEFINE now   == load[e]
           files == [p \in now.stale |-> items[p]]
           next  == [step |-> "words", seen |-> now.seen, prints |-> now.prints, stale |-> now.stale,
                     files |-> files]
<1>2. /\ now.step = "files" /\ load' = [load EXCEPT ![e] = next]
      /\ cache' = cache /\ asking' = asking /\ began' = began /\ UNCHANGED database
  BY DEF ReadFiles
<1>3. Grows /\ DatabaseTypes' /\ WritesAreNew'
  BY <1>2, RestGrows
<1>4. now \in Filing
  BY <1>1, <1>2, LoadIs
<1>5. files \in [now.stale -> SUBSET Nat] /\ now.stale \in SUBSET Compared
  BY <1>1, <1>4 DEF Filing, DatabaseTypes
<1>6. files \in OfSome(SUBSET Nat) /\ DOMAIN files = now.stale /\ \A p \in now.stale : files[p] = items[p]
  BY <1>5 DEF OfSome
<1> HIDE DEF files
<1>7. /\ next \in Wording /\ next.step = "words" /\ next.seen = now.seen
      /\ next.prints = now.prints /\ next.stale = now.stale /\ next.files = files
  BY <1>4, <1>6 DEF Filing, Wording
<1> HIDE DEF next
<1>8. DaemonTypes'
  BY <1>1, <1>2, <1>7 DEF DaemonTypes
<1>9. load'[e] = next
  BY <1>1, <1>2 DEF DaemonTypes
<1>10. Alone(e) /\ KeptStays(e) /\ AskedStays(e)
  BY <1>1, <1>2 DEF Alone, KeptStays, LoadStays, AskedStays, DaemonTypes
<1>11. existing' = existing /\ items' = items /\ ledger' = ledger
  BY <1>2 DEF database
<1>12. ASSUME NEW p \in existing PROVE ReadOf(e, p)' = ReadOf(e, p)
  BY <1>2, <1>6, <1>7, <1>9 DEF ReadOf
<1>13. Reads(e)'
  <2>1. ASSUME NEW p \in existing, p \in now.stale PROVE Counted(p, load[e].prints[p].items, ReadOf(e, p))'
    BY <1>1, <1>2, <1>7, <1>9, <1>11, <1>12, <2>1 DEF LoadRight, Reads, Counted
  <2> QED
    BY <1>1, <1>2, <1>6, <1>7, <1>9, <1>11, <1>12, <2>1 DEF LoadRight, Reads
<1>14. ReadsOrTold(e)'
  BY <1>1, <1>2, <1>7, <1>9, <1>11, <1>12 DEF LoadRight, ReadsOrTold, Told
<1>15. BeganBefore(e)'
  BY <1>1, <1>2, <1>11 DEF LoadRight, BeganBefore, Past
<1>16. NoneToCome(load[e].seen)'
  <2>1. load'[e].seen = now.seen /\ NoneToCome(now.seen)
    BY <1>1, <1>2, <1>7, <1>9 DEF LoadRight
  <2> QED
    BY <1>2, <2>1 DEF NoneToCome, database
<1>17. LoadRight(e)'
  BY <1>7, <1>9, <1>13, <1>14, <1>15, <1>16 DEF LoadRight, KeptOrShown, KeptOrSeen
<1> QED
  BY <1>3, <1>8, <1>10, <1>17, OneActs, KeptStaysRight, AskedStaysRight

LEMMA ReadWordsKeeps ==
    ASSUME CacheInv, NEW e \in Comparer, ReadWords(e)
    PROVE  CacheInv'
<1>1. DaemonTypes /\ DatabaseTypes /\ CacheTypes /\ KeptRight(e) /\ LoadRight(e)
  BY DEF CacheInv, CacheTypes
<1> DEFINE now     == load[e]
           NewEntry(p) == IF p \in now.stale
                      THEN [print |-> now.prints[p], files |-> now.files[p], words |-> items[p]]
                      ELSE cache[e].entries[p]
           entries == [p \in DOMAIN now.prints |-> NewEntry(p)]
           signed  == [p \in DOMAIN entries |-> [files |-> entries[p].files, words |-> entries[p].words]]
           loaded  == IF CacheChanged(e) THEN signed ELSE cache[e].loaded
           pairs   == IF CacheChanged(e) THEN Nothing ELSE cache[e].pairs
           next    == [entries |-> entries, loaded |-> loaded, checked |-> now.seen, pairs |-> pairs]
<1>2. /\ now.step = "words" /\ load' = [load EXCEPT ![e] = NoLoad]
      /\ cache' = [cache EXCEPT ![e] = next]
      /\ Hand(e, loaded) /\ UNCHANGED database
  BY DEF ReadWords
<1>3. Grows /\ DatabaseTypes' /\ WritesAreNew'
  BY <1>2, RestGrows
<1>4. now \in Wording /\ cache[e] \in Kept
  BY <1>1, <1>2, LoadIs DEF DaemonTypes
<1>5. Reads(e) /\ ReadsOrTold(e) /\ NoneToCome(now.seen) /\ began[e] \in Moment /\ Past(began[e])
  BY <1>1, <1>2 DEF LoadRight, BeganBefore
<1>6. PICK P \in SUBSET Compared : now.prints \in [P -> Fingerprint]
  BY <1>4 DEF Wording, OfSome
<1>7. now.files \in [now.stale -> SUBSET Nat]
  BY <1>2, <1>4, <1>5 DEF Wording, OfSome, Reads
<1>8. cache[e].entries \in [DOMAIN cache[e].entries -> Entry]
  BY <1>4 DEF Kept, OfSome
<1>9. /\ now.stale \subseteq P /\ P \ now.stale \subseteq DOMAIN cache[e].entries
      /\ existing \subseteq P /\ P \subseteq began[e].existing
  BY <1>2, <1>5, <1>6 DEF Reads
<1>10. \A p \in P : NewEntry(p) \in Entry
  BY <1>1, <1>6, <1>7, <1>8, <1>9 DEF Entry, DatabaseTypes
<1>11. entries \in [P -> Entry] /\ \A p \in P : entries[p] = NewEntry(p)
  BY <1>6, <1>10
<1>12. signed \in [P -> Signature]
       /\ \A p \in P : signed[p].files = entries[p].files /\ signed[p].words = entries[p].words
  BY <1>11 DEF Entry, Signature
<1>13. loaded \in OfSome(Signature) /\ DOMAIN loaded = P
       /\ \A p \in P : loaded[p].files = entries[p].files /\ loaded[p].words = entries[p].words
  <2>1. CASE CacheChanged(e)
    <3>1. loaded = signed /\ loaded \in OfSome(Signature)
      BY <1>12, <2>1 DEF OfSome
    <3> QED
      BY <1>12, <3>1
  <2>2. CASE ~CacheChanged(e)
    <3>1. /\ loaded = cache[e].loaded /\ now.stale = {} /\ cache[e].loaded # Nothing
          /\ P = DOMAIN cache[e].entries
      BY <1>6, <2>2 DEF CacheChanged
    <3>2. \A p \in P : entries[p] = cache[e].entries[p]
      BY <1>11, <3>1
    <3> QED
      BY <1>1, <1>4, <3>1, <3>2 DEF KeptRight, Mirrored, Kept
  <2> QED
    BY <2>1, <2>2
\* What was read of a project and is there is in its new entry.
<1>14. \A p \in existing : \A X : X \subseteq items[p] /\ X \subseteq ReadOf(e, p)
                                    => X \subseteq entries[p].files /\ X \subseteq entries[p].words
  BY <1>2, <1>9, <1>11 DEF ReadOf
<1> HIDE DEF entries, signed, loaded, pairs, next
<1>15. /\ next \in Kept /\ next.entries = entries /\ next.loaded = loaded
       /\ next.checked = now.seen /\ next.pairs = pairs
  <2>1. entries \in OfSome(Entry)
    BY <1>11 DEF OfSome
  <2>2. pairs \in OfSome(Signature) \cup {Nothing}
    BY <1>4 DEF pairs, Kept
  <2>3. now.seen \in SUBSET Nat
    BY <1>4 DEF Wording
  <2> QED
    BY <1>13, <2>1, <2>2, <2>3 DEF next, Kept
<1>16. pairs # Nothing => pairs = loaded
  BY <1>1 DEF pairs, loaded, KeptRight
<1>17. Has(loaded, began[e])
  <2>1. \A p \in existing : /\ p \in P /\ p \in began[e].existing
                            /\ began[e].items[p] \subseteq items[p] /\ began[e].items[p] \subseteq ReadOf(e, p)
    BY <1>2, <1>5, <1>9 DEF Reads, Past
  <2> QED
    BY <1>9, <1>13, <1>14, <2>1 DEF Has
<1>18. Has(loaded, Now) \/ Told(now.seen)
  <2> SUFFICES ASSUME ~Told(now.seen) PROVE Has(loaded, Now)
    OBVIOUS
  <2>1. P = existing /\ \A p \in existing : items[p] \subseteq ReadOf(e, p)
    BY <1>2, <1>5, <1>6 DEF ReadsOrTold
  <2>2. \A p \in existing : items[p] \subseteq loaded[p].files /\ items[p] \subseteq loaded[p].words
    BY <1>13, <1>14, <2>1
  <2> QED
    BY <1>13, <2>1, <2>2 DEF Has, Now
<1>19. ASSUME NEW p \in existing
       PROVE  Counted(p, entries[p].print.items, entries[p].files \cap entries[p].words)
  <2>1. CASE p \in now.stale
    <3>1. PICK T \in SUBSET items[p] : T \subseteq ReadOf(e, p) /\ Cardinality(T) = now.prints[p].items
      BY <1>2, <1>5, <2>1 DEF Reads, Counted
    <3>2. entries[p].print = now.prints[p]
      BY <1>9, <1>11, <2>1
    <3> QED
      BY <1>14, <3>1, <3>2 DEF Counted
  <2>2. CASE p \notin now.stale
    <3>1. entries[p] = cache[e].entries[p] /\ p \in DOMAIN cache[e].entries
      BY <1>9, <1>11, <2>2
    <3> QED
      BY <1>1, <3>1 DEF KeptRight, PrintsCount
  <2> QED
    BY <2>1, <2>2
<1>20. cache'[e] = next
  BY <1>1, <1>2 DEF DaemonTypes
<1>21. KeptRight(e)'
  <2>1. /\ cache'[e].entries = entries /\ cache'[e].loaded = loaded
        /\ cache'[e].checked = now.seen /\ cache'[e].pairs = pairs
    BY <1>15, <1>20
  <2>2. /\ existing' = existing /\ items' = items /\ ledger' = ledger
        /\ nextRevision' = nextRevision /\ writes' = writes
    BY <1>2 DEF database
  <2>3. NoneToCome(cache[e].checked)'
    BY <1>5, <2>1, <2>2 DEF NoneToCome
  <2>4. Mirrored(e)'
    BY <1>11, <1>13, <2>1 DEF Mirrored
  <2>5. PrintsCount(e)'
    BY <1>19, <2>1, <2>2 DEF PrintsCount, Counted
  <2>6. KeptOrTold(e)'
    BY <1>18, <2>1, <2>2 DEF KeptOrTold, Has, Now, Told
  <2> QED
    BY <1>16, <2>1, <2>3, <2>4, <2>5, <2>6 DEF KeptRight
<1>22. /\ AskedRight(e)'
       /\ asking' \in [Comparer -> [signatures : OfSome(Signature), since : Moment] \cup {Nothing}]
       /\ began' \in [Comparer -> Moment \cup {Nothing}]
       /\ \A d \in Comparer \ {e} : AskedStays(d) /\ began'[d] = began[d]
  BY <1>2, <1>3, <1>5, <1>13, <1>17, HandIsRight
<1>23. DaemonTypes'
  BY <1>1, <1>2, <1>15, <1>22 DEF DaemonTypes, NoLoad, Begun
<1>24. Alone(e) /\ load'[e] = NoLoad
  BY <1>1, <1>2, <1>22 DEF Alone, KeptStays, LoadStays, DaemonTypes
<1> QED
  BY <1>3, <1>21, <1>22, <1>23, <1>24, OneActs, NoLoadIsRight

-----------------------------------------------------------------------------
LEMMA CacheInvInit == CacheAssumption /\ CacheInit => CacheInv
<1> SUFFICES ASSUME CacheInit PROVE CacheInv
  OBVIOUS
<1>1. DatabaseTypes
  BY FS_EmptySet DEF CacheInit, DatabaseTypes
<1>2. DaemonTypes
  <2>1. [entries |-> <<>>, loaded |-> Nothing, checked |-> {}, pairs |-> Nothing] \in Kept
    BY NothingIsEmpty DEF Kept
  <2> QED
    BY <2>1 DEF CacheInit, DaemonTypes, NoLoad, Begun
<1>3. WritesAreNew
  BY DEF CacheInit, WritesAreNew, NoneToCome
<1>4. ASSUME NEW d \in Comparer PROVE KeptRight(d) /\ LoadRight(d) /\ AskedRight(d)
  <2>1. /\ cache[d] = [entries |-> <<>>, loaded |-> Nothing, checked |-> {}, pairs |-> Nothing]
        /\ load[d] = NoLoad /\ asking[d] = Nothing /\ writes = {}
    BY DEF CacheInit
  <2>2. DOMAIN cache[d].entries = {}
    BY <2>1
  <2> QED
    BY <2>1, <2>2 DEF NoLoad, KeptRight, NoneToCome, Mirrored, PrintsCount, KeptOrTold, AskedRight,
                      LoadRight, BeganBefore, KeptOrShown, KeptOrSeen, Reads, ReadsOrTold
<1> QED
  BY <1>1, <1>2, <1>3, <1>4 DEF CacheInv, CacheTypes

\* Steps of the database alone.
LEMMA DatabaseKeeps ==
    ASSUME CacheInv, Grows, DatabaseTypes', WritesAreNew', UNCHANGED <<cache, load, asking, began>>
    PROVE  CacheInv'
<1>1. DaemonTypes'
  BY DEF CacheInv, CacheTypes, DaemonTypes
<1>2. \A d \in Comparer : KeptStays(d) /\ LoadStays(d) /\ AskedStays(d)
  BY DEF KeptStays, LoadStays, AskedStays
<1> QED
  BY <1>1, <1>2, KeptStaysRight, LoadStaysRight, AskedStaysRight DEF CacheInv, CacheTypes

LEMMA CacheInvKept == CacheAssumption /\ CacheInv /\ [CacheNext]_cacheVars => CacheInv'
<1> SUFFICES ASSUME CacheAssumption, CacheInv, [CacheNext]_cacheVars PROVE CacheInv'
  OBVIOUS
<1>1. ASSUME NEW p \in Compared, AddItem(p) \/ RemoveProject(p) PROVE CacheInv'
  <2>1. PICK removes \in BOOLEAN : Write(p, removes)
    BY <1>1 DEF AddItem, RemoveProject
  <2>2. UNCHANGED <<cache, load, asking, began>>
    BY <2>1 DEF Write
  <2> QED
    BY <2>1, <2>2, WriteGrows, DatabaseKeeps
<1>2. ASSUME NEW w \in writes, CommitWrite(w) PROVE CacheInv'
  <2>1. UNCHANGED <<cache, load, asking, began>>
    BY <1>2 DEF CommitWrite
  <2> QED
    BY <1>2, <2>1, CommitGrows, DatabaseKeeps
<1>3. ASSUME NEW w \in writes, RollBack(w) PROVE CacheInv'
  <2>1. UNCHANGED <<cache, load, asking, began>>
    BY <1>3 DEF RollBack
  <2> QED
    BY <1>3, <2>1, RollBackGrows, DatabaseKeeps
<1>4. ASSUME NEW d \in Comparer, LoadStep(d) PROVE CacheInv'
  BY <1>4, BeginLoadKeeps, CompactLedgerKeeps, ReadLedgerKeeps, AnswerFromCacheKeeps,
     ReadProjectsKeeps, ReadFilesKeeps, ReadWordsKeeps DEF LoadStep
<1>5. ASSUME NEW d \in Comparer, LoadFails(d) \/ UseKeptPairs(d) \/ KeepPairs(d) PROVE CacheInv'
  BY <1>5, LoadFailsKeeps, UseKeptPairsKeeps, KeepPairsKeeps
<1>6. CASE UNCHANGED cacheVars
  <2>1. UNCHANGED database /\ UNCHANGED <<cache, load, asking, began>>
    BY <1>6 DEF cacheVars, database
  <2> QED
    BY <2>1, RestGrows, DatabaseKeeps
<1> QED
  BY <1>1, <1>2, <1>3, <1>4, <1>5, <1>6 DEF CacheNext

\* Whatever projects, daemons, writers, failures and compactions there are,
\* what is compared is what was committed when it was asked for (projects/mod.rs, load).
THEOREM ComparisonsAreCurrent == CacheSpec => []CacheIsSound
<1>1. CacheInv => CacheIsSound
  <2> SUFFICES ASSUME CacheInv PROVE CacheIsSound
    OBVIOUS
  <2>1. CacheTypeOK
    BY LoadIs DEF CacheInv, CacheTypes, DatabaseTypes, WritesAreNew, NoneToCome, KeptRight, Mirrored, CacheTypeOK
  <2>2. LoadsAreCurrent
    BY DEF CacheInv, AskedRight, Has, LoadsAreCurrent
  <2>3. PairsAreOfTheLoaded
    BY DEF CacheInv, KeptRight, PairsAreOfTheLoaded
  <2> QED
    BY <2>1, <2>2, <2>3 DEF CacheIsSound
<1> QED
  BY <1>1, CacheInvInit, CacheInvKept, CacheAssumption, PTL DEF CacheSpec
=============================================================================
