----------------------------- MODULE ClaimIndex -----------------------------
(***************************************************************************)
(* What is derived from the text of claims in the background: the vector   *)
(* search ranks them by, and the topic they are grouped under.             *)
(*                                                                         *)
(* A vector is computed by a model outside the database, from a statement  *)
(* read some time before, and belongs to the space of that model.  The     *)
(* database has one space; a daemon started with another model takes it    *)
(* over and clears everything derived.  A daemon with the former model may *)
(* still be running.  A topic pass holds the rows of the claims it groups  *)
(* from the moment it picks them; the claims grouped earlier, which the    *)
(* new ones may join, are read without holding them.                       *)
(*                                                                         *)
(* Left out: how alike two statements are is given (scan::score::jaccard   *)
(* and the mutual k-nearest neighbours); the vectors of segments, entities *)
(* and photos; the length of the delay after a failure.                    *)
(***************************************************************************)
EXTENDS Naturals, FiniteSets

CONSTANTS
    Claim, Statement, Indexer,
    EmbedModel,
    Similar,      \* sets of two statements alike enough to share a topic
    AtFirst,      \* what the claims may say at first
    MaxComponent, \* cluster_max_component
    MaxTopic,     \* bound on the topics ever made
    IndexBudgets  \* how often at most people and the world act: [Deed -> Nat]

Deed == {"edit", "reject", "restore", "fail", "start"}
NoTopic == 0
NoVector == [of |-> "nothing", by |-> "nothing"]
NoSpace == "none"

ASSUME IndexAssumption ==
    /\ IsFiniteSet(Claim)
    /\ MaxComponent \in Nat /\ MaxTopic \in Nat
    /\ IndexBudgets \subseteq [Deed -> Nat]
    /\ AtFirst \subseteq [Claim -> Statement]
    /\ NoSpace \notin EmbedModel

VARIABLES
    says,      \* the statement of each claim
    revision,  \* content_revision
    active,
    vector,    \* [of |-> statement, by |-> model] or NoVector
    delayed,   \* claims whose next attempt is not due
    topic,     \* topic_cluster_id
    grouped,   \* clustered_at is set
    members,   \* rows of cluster_members, <<topic, claim>>
    topics,    \* how many topics were made
    space,     \* embedding_state.model
    embedder,  \* what each daemon's extraction worker is doing about vectors
    grouper,   \* what its clustering worker is doing
    deeds      \* how often people and the world may still act

indexVars == <<says, revision, active, vector, delayed, topic, grouped, members, topics,
               space, embedder, grouper, deeds>>

Vector == [of : Statement, by : EmbedModel]
Row == [claim : Claim, says : Statement, revision : Nat]
Down == [step |-> "down"]
IdleWith(m) == [step |-> "idle", model |-> m, rows |-> {}]
NoPass == [step |-> "idle", held |-> {}, context |-> {}]

IndexInit ==
    /\ says \in AtFirst
    /\ revision = [c \in Claim |-> 0] /\ active = Claim
    /\ vector = [c \in Claim |-> NoVector] /\ delayed = {}
    /\ topic = [c \in Claim |-> NoTopic] /\ grouped = {} /\ members = {} /\ topics = 0
    /\ space = NoSpace
    /\ embedder = [d \in Indexer |-> Down] /\ grouper = [d \in Indexer |-> NoPass]
    /\ deeds \in IndexBudgets

Does(deed) == deeds[deed] > 0 /\ deeds' = [deeds EXCEPT ![deed] = @ - 1]

\* Rows a topic pass holds: nobody else writes them until it is done.
Held == UNION {grouper[d].held : d \in Indexer}

-----------------------------------------------------------------------------
\* ensure_embedding_model clears the topics of the other space too.
Cleared == {}

\* main: before it serves, a daemon makes the space its own.
StartWith(d, m) ==
    /\ embedder[d] = Down /\ Held = {} /\ Does("start")
    /\ embedder' = [embedder EXCEPT ![d] = IdleWith(m)]
    /\ space' = m
    /\ IF space = m
       THEN UNCHANGED <<vector, delayed, topic, grouped, members>>
       ELSE /\ vector' = [c \in Claim |-> NoVector] /\ delayed' = {}
            /\ topic' = [c \in Claim |-> NoTopic] /\ grouped' = {} /\ members' = Cleared
    /\ UNCHANGED <<says, revision, active, topics, grouper>>

\* What was not committed is gone, and so are the locks.
StopIndexing(d) ==
    /\ embedder[d] # Down /\ deeds["start"] > 0
    /\ embedder' = [embedder EXCEPT ![d] = Down] /\ grouper' = [grouper EXCEPT ![d] = NoPass]
    /\ UNCHANGED <<says, revision, active, vector, delayed, topic, grouped, members, topics,
                   space, deeds>>

-----------------------------------------------------------------------------
\* Vectors.

NeedsVector(c) == vector[c] = NoVector /\ c \in active /\ c \notin delayed

\* embed_pending_units reads the statements, embed_new_units the revisions.
LoadRows(d) ==
    /\ embedder[d].step = "idle" /\ \E c \in Claim : NeedsVector(c)
    /\ embedder' = [embedder EXCEPT ![d].step = "rows",
           ![d].rows = {[claim |-> c, says |-> says[c], revision |-> 0] : c \in {c \in Claim : NeedsVector(c)}}]
    /\ UNCHANGED <<says, revision, active, vector, delayed, topic, grouped, members, topics,
                   space, grouper, deeds>>

\* Wrong: the revision the claim was stored with.
WrongRevisionOf(r) == 0
RevisionOf(r) == revision[r.claim]

LoadRevisions(d) ==
    /\ embedder[d].step = "rows"
    /\ embedder' = [embedder EXCEPT ![d].step = "embed",
           ![d].rows = {[r EXCEPT !.revision = RevisionOf(r)] : r \in @}]
    /\ UNCHANGED <<says, revision, active, vector, delayed, topic, grouped, members, topics,
                   space, grouper, deeds>>

\* Wrong: the revision is thought to tell.
WrongUnchanged(r) == r.revision = revision[r.claim] /\ r.claim \in active /\ vector[r.claim] = NoVector
\* The condition of the update.
Unchanged(r) ==
    /\ r.says = says[r.claim] /\ r.revision = revision[r.claim]
    /\ vector[r.claim] = NoVector /\ r.claim \in active

\* embedding_write_transaction
Mine(d) == space = embedder[d].model

StillDelayed(stored) == delayed \ {r.claim : r \in stored}

StoreVectors(d) ==
    LET stored == {r \in embedder[d].rows : Mine(d) /\ Unchanged(r)}
    IN  /\ embedder[d].step = "embed"
        /\ \A r \in stored : r.claim \notin Held
        /\ vector' = [c \in Claim |-> IF \E r \in stored : r.claim = c
                                      THEN [of |-> (CHOOSE r \in stored : r.claim = c).says,
                                            by |-> embedder[d].model]
                                      ELSE vector[c]]
        /\ delayed' = StillDelayed(stored)
        /\ embedder' = [embedder EXCEPT ![d] = IdleWith(@.model)]
        /\ UNCHANGED <<says, revision, active, topic, grouped, members, topics, space, grouper, deeds>>

\* One request for the batch: all its claims wait.
EmbedFails(d) ==
    LET failed == {r \in embedder[d].rows : r.says = says[r.claim] /\ vector[r.claim] = NoVector}
    IN  /\ embedder[d].step = "embed" /\ Does("fail")
        /\ \A r \in failed : r.claim \notin Held
        /\ delayed' = delayed \cup {r.claim : r \in failed}
        /\ embedder' = [embedder EXCEPT ![d] = IdleWith(@.model)]
        /\ UNCHANGED <<says, revision, active, vector, topic, grouped, members, topics, space, grouper>>

\* embedding_retry_at passes.
TimePasses ==
    /\ delayed # {} /\ delayed' = {}
    /\ UNCHANGED <<says, revision, active, vector, topic, grouped, members, topics, space,
                   embedder, grouper, deeds>>

-----------------------------------------------------------------------------
\* Topics: topic_clustering_pass, one transaction of several statements.

Ungrouped == {c \in active : c \notin grouped /\ c \notin Held}

PickUngrouped(d) ==
    /\ embedder[d] # Down /\ grouper[d].step = "idle" /\ Ungrouped # {}
    /\ grouper' = [grouper EXCEPT ![d] = [step |-> "context", held |-> Ungrouped, context |-> {}]]
    /\ UNCHANGED <<says, revision, active, vector, delayed, topic, grouped, members, topics,
                   space, embedder, deeds>>

ReadContext(d) ==
    /\ grouper[d].step = "context"
    /\ grouper' = [grouper EXCEPT ![d].step = "write",
           ![d].context = {[claim |-> c, says |-> says[c], topic |-> topic[c]] :
                             c \in {c \in active : topic[c] # NoTopic}}]
    /\ UNCHANGED <<says, revision, active, vector, delayed, topic, grouped, members, topics,
                   space, embedder, deeds>>

Node(d) == {[claim |-> c, says |-> says[c], topic |-> NoTopic] : c \in grouper[d].held}
           \cup grouper[d].context
Joined(m, n) == m.says = n.says \/ {m.says, n.says} \in Similar
\* The connected component of a node.
Component(n, nodes) ==
    CHOOSE group \in SUBSET nodes :
        /\ n \in group
        /\ \A a \in group, b \in nodes : Joined(a, b) => b \in group
        /\ \A smaller \in (SUBSET group) \ {group} :
             n \in smaller => \E a \in smaller, b \in group \ smaller : Joined(a, b)
Components(d) == {Component(n, Node(d)) : n \in Node(d)}

New(group) == {n.claim : n \in {n \in group : n.topic = NoTopic}}
Known(group) == {n.topic : n \in group} \ {NoTopic}
\* A group joins the topic of one of its members or makes one.
Joins(group) == New(group) # {} /\ Known(group) # {}
Makes(group) == Known(group) = {} /\ Cardinality(New(group)) >= 2 /\ Cardinality(group) <= MaxComponent

\* A claim like no other is not picked up for ever.
Stamped(held, given) == held

WriteTopics(d) ==
    LET making == {g \in Components(d) : Makes(g)}
        joining == {g \in Components(d) : Joins(g)}
    IN  /\ grouper[d].step = "write"
        /\ topics + Cardinality(making) <= MaxTopic
        /\ \E fresh \in [making -> topics + 1..topics + Cardinality(making)],
             known \in [joining -> 1..topics] :
               /\ \A g, h \in making : g # h => fresh[g] # fresh[h]
               /\ \A g \in joining : known[g] \in Known(g)
               /\ LET given == UNION {New(g) : g \in making \cup joining}
                      of(c) == LET g == CHOOSE g \in making \cup joining : c \in New(g)
                               IN  IF g \in making THEN fresh[g] ELSE known[g]
                  IN  /\ topic' = [c \in Claim |-> IF c \in given THEN of(c) ELSE topic[c]]
                      /\ members' = members \cup {<<of(c), c>> : c \in given}
                      /\ grouped' = grouped \cup Stamped(grouper[d].held, given)
        /\ topics' = topics + Cardinality(making)
        /\ grouper' = [grouper EXCEPT ![d] = NoPass]
        /\ UNCHANGED <<says, revision, active, vector, delayed, space, embedder, deeds>>

-----------------------------------------------------------------------------
\* People.

Without(c) == {m \in members : m[2] # c}

\* edit_unit_core: everything derived from the old text goes.
EditClaim(c, s) ==
    /\ c \notin Held /\ s # says[c]
    /\ \A other \in active \ {c} : says[other] # s
    /\ Does("edit")
    /\ says' = [says EXCEPT ![c] = s] /\ revision' = [revision EXCEPT ![c] = @ + 1]
    /\ vector' = [vector EXCEPT ![c] = NoVector] /\ delayed' = delayed \ {c}
    /\ topic' = [topic EXCEPT ![c] = NoTopic] /\ grouped' = grouped \ {c}
    /\ members' = Without(c)
    /\ UNCHANGED <<active, topics, space, embedder, grouper>>

RejectClaim(c) ==
    /\ c \in active /\ c \notin Held /\ Does("reject")
    /\ active' = active \ {c} /\ revision' = [revision EXCEPT ![c] = @ + 1]
    /\ UNCHANGED <<says, vector, delayed, topic, grouped, members, topics, space, embedder, grouper>>

RestoreClaim(c) ==
    /\ c \notin active /\ c \notin Held /\ Does("restore")
    /\ active' = active \cup {c} /\ revision' = [revision EXCEPT ![c] = @ + 1]
    /\ UNCHANGED <<says, vector, delayed, topic, grouped, members, topics, space, embedder, grouper>>

-----------------------------------------------------------------------------
Embed(d) == LoadRows(d) \/ LoadRevisions(d) \/ StoreVectors(d)
Group(d) == PickUngrouped(d) \/ ReadContext(d) \/ WriteTopics(d)
StartIndexing(d) == \E m \in EmbedModel : StartWith(d, m)

IndexNext ==
    \/ \E d \in Indexer : StartIndexing(d) \/ StopIndexing(d) \/ Embed(d) \/ EmbedFails(d) \/ Group(d)
    \/ \E c \in Claim : RejectClaim(c) \/ RestoreClaim(c) \/ \E s \in Statement : EditClaim(c, s)
    \/ TimePasses

\* The workers go round for ever, a daemon that stopped is started again, and
\* time passes.
IndexFairness ==
    /\ \A d \in Indexer : WF_indexVars(Embed(d)) /\ WF_indexVars(Group(d)) /\ WF_indexVars(StartIndexing(d))
    /\ WF_indexVars(TimePasses)

IndexSpec == IndexInit /\ [][IndexNext]_indexVars /\ IndexFairness
-----------------------------------------------------------------------------
IndexTypeOK ==
    /\ says \in [Claim -> Statement] /\ revision \in [Claim -> Nat] /\ active \subseteq Claim
    /\ vector \in [Claim -> Vector \cup {NoVector}]
    /\ delayed \subseteq Claim /\ grouped \subseteq Claim
    /\ topic \in [Claim -> 0..topics] /\ members \subseteq (1..topics) \X Claim
    /\ topics \in 0..MaxTopic
    /\ space \in EmbedModel \cup {NoSpace}
    /\ \A d \in Indexer : embedder[d] = Down \/ embedder[d].rows \subseteq Row
    /\ \A c \in Claim : c \in delayed => vector[c] = NoVector

\* The vector a claim is found by was computed from what it says now, by the
\* model of the space it is compared in.
VectorsMatch ==
    \A c \in Claim : vector[c] # NoVector => vector[c] = [of |-> says[c], by |-> space]

\* A claim is a member of the topic it points to and of no other, and was
\* looked at.
TopicsMatch ==
    /\ members = {<<topic[c], c>> : c \in {c \in Claim : topic[c] # NoTopic}}
    /\ \A c \in Claim : topic[c] # NoTopic => c \in grouped

\* Once people leave it alone, every claim gets its vector, whatever failed
\* and whatever was being computed when it changed.
EveryClaimIsEmbedded ==
    []<>((\A c \in active : vector[c] # NoVector) \/ \A d \in Indexer : embedder[d] = Down)

\* Every claim is looked at by the topic pass.
EveryClaimIsGrouped ==
    []<>(active \subseteq grouped \/ \A d \in Indexer : embedder[d] = Down)

\* What claims are searched and grouped by is what they say now, whoever else
\* was embedding or grouping them when they changed (embed_pass, topic_pass).
IndexIsSound == IndexTypeOK /\ VectorsMatch /\ TopicsMatch

\* No claim is left out of search and topics for good, whatever fails
\* (embed_pass: delayed and tried again; topic_pass: stamped last).
IndexIsFinished == EveryClaimIsEmbedded /\ EveryClaimIsGrouped
=============================================================================
