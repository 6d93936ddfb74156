--------------------------- MODULE ProjectRanking ---------------------------
(***************************************************************************)
(* How alike two projects are: overlaps of their files, paths and entities *)
(* weighted by rarity, and how close their texts are; and which pairs the  *)
(* graph shows.  Big projects are compared by samples, those of the        *)
(* smallest hashes.                                                        *)
(*                                                                         *)
(* Items are told apart by their hashes; every number from 0 to 1 is in    *)
(* hundredths, rounded down, and rarity grows with the ratio the code      *)
(* takes the logarithm of, positive where the code's is.  Embeddings are   *)
(* told apart by Alike.  Left out: what is said of a pair.                 *)
(***************************************************************************)
EXTENDS Integers, FiniteSets, Sequences, SequencesExt, FiniteSetsExt

CONSTANTS
    Peer,            \* projects, numbers in the order of their ids
    Hash,            \* hashes of files, paths and entities, and words
    Sampled,         \* SAMPLE
    SampledEntities, \* SAMPLE_ENTITIES
    PerProject,      \* pairs the graph shows for each project
    Alike,           \* [Meaning \X Meaning -> 0..100]: cosine of two embeddings
    Shelves          \* contents to compare

Meaning == Nat
NoMeaning == 0

ASSUME RankingAssumption ==
    /\ Peer \subseteq Nat /\ IsFiniteSet(Peer) /\ Hash \subseteq Nat /\ IsFiniteSet(Hash)
    /\ Sampled \in Nat \ {0} /\ SampledEntities \in Nat \ {0} /\ PerProject \in Nat \ {0}
    /\ \A s \in Shelves : \A p \in Peer :
         /\ s[p].files \subseteq Hash /\ s[p].paths \subseteq Hash
         /\ s[p].entities \subseteq Hash /\ s[p].terms \subseteq Hash /\ s[p].meaning \in Meaning

VARIABLES
    shelf,    \* what each project has
    weights,  \* of items, worked out once for all comparisons
    queue,    \* scored pairs yet to look at, best first
    drawn,    \* pairs the graph shows
    ends      \* how many of them each project is an end of

rankingVars == <<shelf, weights, queue, drawn, ends>>

Signal == {"files", "paths", "entities"}
Weight == [files |-> 30, paths |-> 20, entities |-> 30, content |-> 20]
MinScore == 8

-----------------------------------------------------------------------------
\* Sample

SampleSize(kind) == IF kind = "entities" THEN SampledEntities ELSE Sampled
Sample(kind, p) == {h \in shelf[p][kind] : Cardinality({g \in shelf[p][kind] : g < h}) < SampleSize(kind)}
Truncated(kind, p) == Cardinality(shelf[p][kind]) > SampleSize(kind)
NoCutoff == Max(Hash) + 1
Cutoff(kind, p) == IF Truncated(kind, p) THEN Max(Sample(kind, p)) ELSE NoCutoff
CommonCutoff(kind, p, q) == Min({Cutoff(kind, p), Cutoff(kind, q)})

\* Holders: of the samples that would have an item, those that do.
Holders(kind, h) == {p \in Peer : h \in Sample(kind, p)}
\* Wrong: without those whose sample ends with the item.
WrongEligible(kind, h) == {p \in Peer : Cutoff(kind, p) > h}
Eligible(kind, h) == {p \in Peer : Cutoff(kind, p) >= h}

\* idf
Rarity(projects, holders) == (2 * (projects + 1)) \div (IF holders = 0 THEN 1 ELSE holders) - 1
ItemWeight(kind, h) == Rarity(Cardinality(Eligible(kind, h)), Cardinality(Holders(kind, h)))
Sum(kind, hs) == MapThenSumSet(LAMBDA h : weights[kind][h], hs)

-----------------------------------------------------------------------------
\* weighted_jaccard: a walk along two sorted samples up to the cutoff of both.

Sorted(hs) == SetToSortSeq(hs, LAMBDA a, b : a < b)

Rest(s, i, cutoff) == {s[k] : k \in {m \in i..Len(s) : s[m] <= cutoff}}

WalkAlong(a, b, cutoff) ==
    LET Within(s, i) == i <= Len(s) /\ s[i] <= cutoff
        walk[i \in 1..Len(a) + 1, j \in 1..Len(b) + 1] ==
            IF ~Within(a, i) \/ ~Within(b, j)
            THEN [both |-> {}, union |-> Rest(a, i, cutoff) \cup Rest(b, j, cutoff)]
            ELSE LET next == IF a[i] = b[j] THEN walk[i + 1, j + 1]
                             ELSE IF a[i] < b[j] THEN walk[i + 1, j] ELSE walk[i, j + 1]
                 IN  [both |-> next.both \cup (IF a[i] = b[j] THEN {a[i]} ELSE {}),
                      union |-> next.union \cup {IF a[i] <= b[j] THEN a[i] ELSE b[j]}]
    IN  walk[1, 1]

Walk(kind, p, q) ==
    WalkAlong(Sorted(Sample(kind, p)), Sorted(Sample(kind, q)), CommonCutoff(kind, p, q))

Share(part, whole) == IF whole > 0 THEN (100 * part) \div whole ELSE 0
WeightedJaccard(kind, w) == Share(Sum(kind, w.both), Sum(kind, w.union))
Overlap(kind, p, q) == WeightedJaccard(kind, Walk(kind, p, q))

\* How many items both have, scaled up to the whole of the smaller project.
Smaller(kind, p, q) == IF Cardinality(shelf[p][kind]) <= Cardinality(shelf[q][kind]) THEN p ELSE q

SharedCount(kind, p, q) ==
    LET both == Cardinality(Walk(kind, p, q).both)
        small == Smaller(kind, p, q)
        seen == {h \in Sample(kind, small) : h <= CommonCutoff(kind, p, q)}
        n == IF seen = {} THEN 1 ELSE Cardinality(seen)
    IN  IF CommonCutoff(kind, p, q) = NoCutoff THEN both
        ELSE (2 * both * Cardinality(shelf[small][kind]) + n) \div (2 * n)

-----------------------------------------------------------------------------
\* content_score

TermWeight(t) == Rarity(Cardinality(Peer), Cardinality({p \in Peer : t \in shelf[p].terms}))
Squares(ts) == MapThenSumSet(LAMBDA t : TermWeight(t) * TermWeight(t), ts)

\* Each word counts once.
TermCosine(p, q) ==
    LET dot == Squares(shelf[p].terms \cap shelf[q].terms)
        norms == Squares(shelf[p].terms) * Squares(shelf[q].terms)
    IN  Max({s \in 0..100 : s * s * norms <= 10000 * dot * dot})

ByMeaning(p, q) == shelf[p].meaning # NoMeaning /\ shelf[q].meaning # NoMeaning
HasContent(p, q) == ByMeaning(p, q) \/ (shelf[p].terms # {} /\ shelf[q].terms # {})
ContentScore(p, q) ==
    IF ByMeaning(p, q)
    THEN LET close == Alike[shelf[p].meaning, shelf[q].meaning] IN IF close > 50 THEN 2 * (close - 50) ELSE 0
    ELSE TermCosine(p, q)

\* score_only: the signals both have, their weights scaled to what there is.
Has(kind, p, q) == shelf[p][kind] # {} /\ shelf[q][kind] # {}
Likeness(p, q) ==
    LET kinds == {k \in Signal : Has(k, p, q)}
        total == MapThenSumSet(LAMBDA k : Weight[k], kinds) + (IF HasContent(p, q) THEN Weight.content ELSE 0)
        sum == MapThenSumSet(LAMBDA k : Weight[k] * Overlap(k, p, q), kinds)
               + (IF HasContent(p, q) THEN Weight.content * ContentScore(p, q) ELSE 0)
    IN  IF total > 0 THEN sum \div total ELSE 0

\* rank: the projects most like p, best first.
BestFirst(scores) == SetToSortSeq({x \in scores : x.score >= MinScore},
                                  LAMBDA x, y : x.score > y.score \/ (x.score = y.score /\ x.of < y.of))
Ranked(p) == BestFirst({[of |-> q, score |-> Likeness(p, q)] : q \in Peer \ {p}})

-----------------------------------------------------------------------------
\* pairs

Before(x, y) == \/ x.score > y.score
                \/ (x.score = y.score /\ x.a < y.a)
                \/ (x.score = y.score /\ x.a = y.a /\ x.b < y.b)

ScoredPairs ==
    {x \in {[a |-> e[1], b |-> e[2], score |-> Likeness(e[1], e[2])] :
                e \in {f \in Peer \X Peer : f[1] < f[2]}} : x.score >= MinScore}

RankingInit ==
    /\ shelf \in Shelves
    /\ weights = [kind \in Signal |-> [h \in Hash |-> ItemWeight(kind, h)]]
    /\ queue = SetToSortSeq(ScoredPairs, Before)
    /\ drawn = {} /\ ends = [p \in Peer |-> 0]

\* "A pair stays when it is among the closest of either project."
AmongClosest(pair) == ends[pair.a] < PerProject \/ ends[pair.b] < PerProject

DrawPair ==
    /\ queue # <<>>
    /\ LET pair == Head(queue)
       IN  IF AmongClosest(pair)
           THEN /\ drawn' = drawn \cup {pair}
                /\ ends' = [ends EXCEPT ![pair.a] = @ + 1, ![pair.b] = @ + 1]
           ELSE UNCHANGED <<drawn, ends>>
    /\ queue' = Tail(queue)
    /\ UNCHANGED <<shelf, weights>>

RankingSpec == RankingInit /\ [][DrawPair]_rankingVars

-----------------------------------------------------------------------------
Showing(kind) == {p \in Peer : shelf[p][kind] # {}}

\* Items a truncated sample does not show count for nothing on either side:
\* the walk finds exactly what both projects, and what either, really have up
\* to the cutoff of both (Sample: "hold the same items of the union").
SamplesLineUp ==
    \A kind \in Signal : \A p, q \in Showing(kind) :
        LET w == Walk(kind, p, q)
            Upto(s) == {h \in s : h <= CommonCutoff(kind, p, q)}
        IN  /\ w.both = Upto(shelf[p][kind] \cap shelf[q][kind])
            /\ w.union = Upto(shelf[p][kind] \cup shelf[q][kind])

\* A project that shows an item is one of those that could, so that the rarity
\* of an item is never negative ("Never zero, so even an item every project
\* has still counts a little").
RarityIsPositive ==
    \A kind \in Signal : \A h \in UNION {Sample(kind, p) : p \in Showing(kind)} :
        Holders(kind, h) \subseteq Eligible(kind, h) /\ weights[kind][h] > 0

\* The number of items two projects share, estimated or not, is no more than
\* either has (weighted_jaccard: "the whole of the smaller set").
CountsArePossible ==
    \A kind \in Signal : \A p, q \in Showing(kind) :
        /\ SharedCount(kind, p, q) <= Cardinality(shelf[p][kind])
        /\ SharedCount(kind, p, q) <= Cardinality(shelf[q][kind])
        /\ CommonCutoff(kind, p, q) = NoCutoff
             => SharedCount(kind, p, q) = Cardinality(shelf[p][kind] \cap shelf[q][kind])

OnlyClosest(scored) ==
    \A x \in scored :
        LET Closer(p) == {y \in scored : p \in {y.a, y.b} /\ Before(y, x)}
        IN  x \in drawn <=> (\/ Cardinality(Closer(x.a)) < PerProject
                             \/ Cardinality(Closer(x.b)) < PerProject)

\* Once all pairs were looked at, the graph shows those among the closest of
\* either end, and what the list of similar projects has first is as close as
\* what the graph shows (pairs, rank).
ClosestAreDrawn ==
    queue = <<>> =>
      /\ OnlyClosest(ScoredPairs)
      /\ \A p \in Peer : \A best \in {Ranked(p)} : best # <<>> =>
           \E x \in drawn : p \in {x.a, x.b} /\ x.score = best[1].score
=============================================================================
