--------------------------- MODULE ClaimConflict ---------------------------
(***************************************************************************)
(* How claims become a history: a repeated statement joins the episode it  *)
(* corroborates or starts a new one, and the scanner compares claims two   *)
(* by two: what contradicts what, what only looks like it, and what has    *)
(* replaced what.                                                          *)
(*                                                                         *)
(* A statement is reduced to what the rules read from it: cue words, the   *)
(* content words, a figure or a clock time, what it asserts in the graph.  *)
(* Times are days.  Left out here and modelled in UnitLifecycle: the       *)
(* interleaving of scanners, rejected and restored claims, a person who    *)
(* keeps one side of a conflict, or confirms one against its explanation.  *)
(* No model judges the pairs.                                              *)
(***************************************************************************)
EXTENDS Integers, FiniteSets, Sequences, SequencesExt

CONSTANTS
    Arrivals,       \* sequences of messages, in the order they are read
    Places,         \* <<inside, around>>: located_in edges between entities
    SameMoment,     \* days apart and still the same moment
    MinSuccession,  \* days apart that make a new state
    Threshold,      \* percent a conflict must score
    Cosine,         \* percent, likeness of the embeddings of two claims
    MaxCandidates,  \* claims compared with one of them, by subject and by meaning
    EpisodeLimit,   \* claims looked at between two dates: 100 in the code
    Requeues        \* bound: cursors cleared by a merge

NoTime == -1

ASSUME ConflictAssumption ==
    /\ SameMoment \in Nat /\ MinSuccession > SameMoment
    /\ Threshold \in 0..100 /\ Cosine \in 0..100
    /\ MaxCandidates \in Nat /\ EpisodeLimit \in Nat /\ Requeues \in Nat

VARIABLES
    arrivals,    \* the messages of this history
    unreadFrom,  \* the first message not read yet
    told,        \* the claims, in the order they were stored
    spokenBy,    \* message -> the claim it became or joined
    idsRise,     \* ids are random: whether an older claim has the smaller one
    reports,     \* pair -> the contradiction stored for it
    concluded,   \* pair -> the decision of its live certificate
    agreed,      \* pairs whose explanation a person agreed with
    requeued     \* cursors cleared so far

conflictVars == <<arrivals, unreadFrom, told, spokenBy, idsRise, reports, concluded,
                  agreed, requeued>>

ClaimNo == DOMAIN told
PairNos == {p \in (1..Len(arrivals)) \X (1..Len(arrivals)) : p[1] < p[2]}
PairNo(x, y) == IF x < y THEN <<x, y>> ELSE <<y, x>>
NoReport == [status |-> "none", certainty |-> "none"]
Standing(x) == told[x].status = "active"
----------------------------------------------------------------------------
(* What the words say *)

Modalities(t) ==
    LET marked == {m \in {"rejected", "conditional", "considered", "possible"} : m \in t.cues}
    IN  marked \cup {m \in {"planned"} : m \in t.cues /\ "rejected" \notin marked}

Modality(t) ==
    LET order == <<"conditional", "rejected", "considered", "possible", "planned">>
        found == SelectSeq(order, LAMBDA m : m \in Modalities(t))
    IN  IF found = <<>> THEN "actual" ELSE found[1]

Negated(t) == "rejected" \notin Modalities(t) /\ "not" \in t.cues

Unclear(t) ==
    \/ Cardinality(Modalities(t)) > 2
    \/ "rejected" \in Modalities(t) /\ Cardinality(Modalities(t)) > 1
    \/ Negated(t) /\ Modality(t) /= "actual"

\* Only what is said to be so asserts an edge of the graph.
Assigned(t) ==
    IF /\ Modality(t) = "actual" /\ ~Negated(t) /\ ~Unclear(t)
       /\ t.subject /= "" /\ t.object \notin {"", t.subject}
    THEN {<<t.subject, t.relation, t.object>>} ELSE {}

Tense(t) ==
    LET order == <<"will", "now", "was", "is">>
        found == SelectSeq(order, LAMBDA v : v \in t.verbs)
    IN  IF found = <<>> THEN "unknown"
        ELSE CASE found[1] = "will" -> "future" [] found[1] = "was" -> "past" [] OTHER -> "present"
----------------------------------------------------------------------------
(* When it holds *)

Period(c) ==
    LET year == c.text.year
        Span(s, e, b) == [start |-> s, end |-> e, basis |-> b]
    IN  IF c.to /= NoTime THEN Span(c.from, c.to, "explicit")
        ELSE IF year /= NoTime
        THEN Span(365 * year, IF c.text.since THEN NoTime ELSE 365 * (year + 1), "year")
        ELSE IF c.observed /= NoTime THEN Span(c.observed, NoTime, "observed")
        ELSE CASE Tense(c.text) = "past"    -> Span(NoTime, c.asserted, "past")
               [] Tense(c.text) = "present" -> Span(c.asserted, NoTime, "present")
               [] OTHER                     -> Span(NoTime, NoTime, "unknown")

EndsBefore(p, q) == p.end /= NoTime /\ q.start /= NoTime /\ p.end <= q.start
Bounded(p) == p.start /= NoTime /\ p.end /= NoTime
StartsInside(p, q) == Bounded(p) /\ q.start /= NoTime /\ p.start <= q.start /\ q.start < p.end

\* Two statements of the current state: the same moment, a change, or neither.
PresentRelation(p, q) ==
    LET gap == IF p.start < q.start THEN q.start - p.start ELSE p.start - q.start
    IN  IF p.start = NoTime \/ q.start = NoTime THEN "unknown"
        ELSE IF gap <= SameMoment THEN "overlapping"
        ELSE IF gap >= MinSuccession THEN "succession" ELSE "unknown"

Relation(p, q) ==
    IF p.basis = "present" /\ q.basis = "present" THEN PresentRelation(p, q)
    ELSE IF EndsBefore(p, q) \/ EndsBefore(q, p) THEN "disjoint"
    ELSE IF Bounded(p) /\ Bounded(q) THEN "overlapping"
    ELSE IF StartsInside(p, q) \/ StartsInside(q, p) THEN "overlapping" ELSE "unknown"

\* Whether q is the later of the two, p the earlier.
Later(p, q) ==
    CASE Relation(p, q) = "succession" -> q.start > p.start
      [] Relation(p, q) = "disjoint"   -> EndsBefore(p, q)
      [] OTHER                         -> FALSE
----------------------------------------------------------------------------
(* Which rule sees a conflict *)

WordsOf(t) == t.words \cup t.numbers

\* Numerator and denominator of the likeness of two sets of words.
SharedWords(s, t) == [shared |-> Cardinality(s \cap t), all |-> Cardinality(s \cup t)]
AlikeBy(s, t, percent) == LET j == SharedWords(s, t) IN j.all > 0 /\ 100 * j.shared >= percent * j.all

UnitOf(t) == LET named == IF t.unit \in {"dollars", "usd", "bucks"} THEN "$" ELSE t.unit
             IN  {named, t.currency} \ {""}
Amount(t) == t.amount * t.magnitude
Larger(i, j) == IF i > j THEN i ELSE j
Distance(i, j) == IF i > j THEN i - j ELSE j - i

NumericMismatch(s, t) ==
    /\ s.pattern = "numeric" /\ t.pattern = "numeric"
    /\ s.subject /= "" /\ s.subject = t.subject
    /\ UnitOf(s) = UnitOf(t)
    /\ 10 * Distance(Amount(s), Amount(t)) > Larger(Amount(s), Amount(t))

HourOf(t) ==
    CASE t.half = "pm" /\ t.hour /= 12 -> t.hour + 12
      [] t.half = "am" /\ t.hour = 12  -> 0
      [] OTHER                         -> t.hour
ClockRead(t) ==
    t.pattern = "clock_time" /\ IF t.half = "" THEN t.hour \in 0..23 ELSE t.hour \in 1..12
Zones == [eastern |-> 5, central |-> 6, mountain |-> 7, pacific |-> 8]
ZoneKnown(t) == t.zone \in DOMAIN Zones

ClockMismatch(s, t) ==
    /\ ClockRead(s) /\ ClockRead(t)
    /\ s.subject /= "" /\ s.subject = t.subject
    /\ IF ZoneKnown(s) /\ ZoneKnown(t)
       THEN (HourOf(s) + Zones[s.zone]) % 24 /= (HourOf(t) + Zones[t.zone]) % 24
       ELSE HourOf(s) /= HourOf(t)

\* The scorer's own reading of a negation: any negating word.
SaysNot(t) == t.cues \cap {"not", "rejected"} /= {}
NegationMismatch(s, t) == SaysNot(s) /= SaysNot(t) /\ AlikeBy(WordsOf(s), WordsOf(t), 50)

Functional == {"lives_in", "works_at", "is", "decided_on"}
Exclusive(s, t) == {e \in Assigned(s) \X Assigned(t) :
                        e[1][1] = e[2][1] /\ e[1][2] = e[2][2] /\ e[1][3] /= e[2][3]}
ExclusiveAssignment(s, t) == \E e \in Exclusive(s, t) : e[1][2] \in Functional

Antonyms == {<<"enabled", "disabled">>, <<"prefer", "avoid">>, <<"paused", "active">>}
AntonymPredicate(s, t) ==
    /\ \E p \in Antonyms : \/ p[1] \in s.words /\ p[2] \in t.words
                           \/ p[2] \in s.words /\ p[1] \in t.words
    /\ AlikeBy(WordsOf(s), WordsOf(t), 30)

Method(s, t) ==
    CASE NumericMismatch(s, t)     -> "numeric"
      [] ClockMismatch(s, t)       -> "time"
      [] NegationMismatch(s, t)    -> "negation"
      [] ExclusiveAssignment(s, t) -> "assignment"
      [] AntonymPredicate(s, t)    -> "antonym"
      [] OTHER                     -> "none"

Base == [numeric |-> 80, time |-> 80, negation |-> 75, assignment |-> 70, antonym |-> 60]

\* Both windows are known and one ends before the other begins.
WindowsDisjoint(c, d) ==
    /\ c.from /= NoTime /\ d.from /= NoTime
    /\ (c.to /= NoTime /\ c.to <= d.from) \/ (d.to /= NoTime /\ d.to <= c.from)

\* Whether the conflict of two claims scores enough to be looked at.
Flagged(c, d, embedded) ==
    LET method == Method(c.text, d.text)
        j      == IF method = "numeric" THEN SharedWords(c.text.words, d.text.words)
                  ELSE SharedWords(WordsOf(c.text), WordsOf(d.text))
        like   == IF embedded THEN [shared |-> Cosine, all |-> 100] ELSE j
        all    == IF like.all = 0 THEN 1 ELSE like.all
        score  == Base[method] * (60 * all + 40 * like.shared)   \* of 10000 * all
    IN  /\ method /= "none"
        /\ (IF WindowsDisjoint(c, d) THEN score \div 2 ELSE score) >= Threshold * 100 * all
----------------------------------------------------------------------------
(* What is made of it *)

Up[depth \in 0..6] ==
    IF depth = 0 THEN {}
    ELSE LET up == Up[depth - 1]
         IN  Places \cup up \cup {<<l[1][1], l[2][2]>> : l \in {l \in up \X Places : l[1][2] = l[2][1]}}
Contained(x, y) == x = y \/ <<x, y>> \in Up[6] \/ <<y, x>> \in Up[6]

Keyed(x, y) ==
    CASE x = y                -> "aligned"
      [] "" \in {x, y}        -> "unknown"
      [] OTHER                -> "mismatch"

SubjectDim(c, d) ==
    IF "" \in {c.text.subject, d.text.subject} THEN "unknown"
    ELSE IF c.text.subject = d.text.subject THEN "aligned" ELSE "mismatch"

UnitDim(c, d, method) ==
    CASE method = "numeric" -> IF UnitOf(c.text) = UnitOf(d.text) THEN "aligned" ELSE "unknown"
      [] method = "time"    -> IF ZoneKnown(c.text) /\ ZoneKnown(d.text) THEN "aligned" ELSE "unknown"
      [] OTHER              -> "aligned"

GrainDim(c, d, method) ==
    IF method = "assignment" /\ \E e \in Exclusive(c.text, d.text) : Contained(e[1][3], e[2][3])
    THEN "mismatch" ELSE Keyed(c.text.grain, d.text.grain)

TimeCode(rel) ==
    CASE rel = "overlapping" -> {}
      [] rel = "disjoint"    -> {"TimeWindowsNonOverlapping"}
      [] rel = "succession"  -> {"TemporalSuccession"}
      [] OTHER               -> {"TimeScopeUnknown"}

DimCode(dim, mismatch) ==
    CASE dim = "aligned" -> {} [] dim = "mismatch" -> {mismatch} [] OTHER -> {"ContextScopeUnknown"}

\* The codes of the predicates that fail for a pair.
Codes(c, d, method, rejected) ==
    (IF rejected THEN {"UserRejectionExists"} ELSE {})
    \cup DimCode(SubjectDim(c, d), "ContextScopeMismatch")
    \cup (IF Modality(c.text) = Modality(d.text) THEN {} ELSE {"ModalityMismatch"})
    \cup (IF Unclear(c.text) \/ Unclear(d.text) THEN {"NegationAmbiguity"} ELSE {})
    \cup (IF UnitDim(c, d, method) = "aligned" THEN {} ELSE {"UnitNormalizationRequired"})
    \cup DimCode(Keyed(c.text.scope, d.text.scope), "ContextScopeMismatch")
    \cup DimCode(GrainDim(c, d, method), "GranularityMismatch")
    \cup TimeCode(Relation(Period(c), Period(d)))

Blocking == {"UserRejectionExists", "ContextScopeMismatch", "ModalityMismatch",
             "GranularityMismatch", "TimeWindowsNonOverlapping", "TemporalSuccession"}

\* Known reasons block, missing information goes to review.
Decision(codes) ==
    CASE codes = {}                  -> "auto_applied"
      [] codes \cap Blocking /= {}   -> "blocked"
      [] OTHER                       -> "needs_review"

\* d, the later of the two, replaces c: the same state, measured the same way,
\* and d still holds.
Replaces(c, d, method, rejected) ==
    /\ Later(Period(c), Period(d))
    /\ ~rejected /\ Modality(c.text) = Modality(d.text)
    /\ ~Unclear(c.text) /\ ~Unclear(d.text)
    /\ SubjectDim(c, d) = "aligned" /\ Keyed(c.text.scope, d.text.scope) = "aligned"
    /\ GrainDim(c, d, method) = "aligned" /\ UnitDim(c, d, method) = "aligned"
    /\ method /= "time"
    /\ Period(d).end = NoTime

Closed(c, d) ==
    LET start    == Period(d).start
        boundary == IF start = NoTime THEN d.asserted ELSE start
    IN  IF c.to /= NoTime THEN c.to ELSE Larger(boundary, c.from)
----------------------------------------------------------------------------
(* Reading a message *)

NewClaim(m) == [text |-> m.text, asserted |-> m.said, observed |-> m.event, to |-> NoTime,
                from |-> IF m.event = NoTime THEN m.said ELSE m.event,
                status |-> "active", by |-> 0, scanned |-> FALSE]

Spans(t, i, j) == t /= NoTime /\ ((i <= t /\ t <= j) \/ (j <= t /\ t <= i))

\* Another state was asserted between the episode's date and this one.
WrongIntervening(x, from) == told[x].from = NoTime /\ from /= NoTime
Intervening(x, from) ==
    LET start  == told[x].from
        others == {y \in ClaimNo \ {x} : /\ told[x].text.subject /= ""
                                         /\ told[y].text.subject = told[x].text.subject
                                         /\ Spans(told[y].from, start, from)}
    IN  /\ start /= NoTime /\ from /= NoTime /\ start /= from
        /\ \/ Cardinality(others) > EpisodeLimit
           \/ \E y \in others : Method(told[x].text, told[y].text) /= "none"

\* The episodes a statement may join, newest first.
Episodes(m) == {x \in ClaimNo : told[x].text = m.text /\ Standing(x)
                                /\ ~Intervening(x, NewClaim(m).from)}
Latest(xs) == CHOOSE x \in xs : \A y \in xs : y <= x

ReadMessage ==
    LET m     == arrivals[unreadFrom]
        joins == Episodes(m)
    IN  /\ unreadFrom <= Len(arrivals)
        /\ unreadFrom' = unreadFrom + 1
        /\ IF joins = {}
           THEN /\ told' = Append(told, NewClaim(m))
                /\ spokenBy' = Append(spokenBy, Len(told) + 1)
           ELSE /\ spokenBy' = Append(spokenBy, Latest(joins))
                /\ UNCHANGED told
        /\ UNCHANGED <<arrivals, idsRise, reports, concluded, agreed, requeued>>
----------------------------------------------------------------------------
(* A scan of one claim *)

FirstOnly(s, n) == SubSeq(s, 1, IF Len(s) < n THEN Len(s) ELSE n)

\* The candidates: of the same subject, the newest first; then by meaning.
CandidatesOf(x, embedded) ==
    LET others    == SelectSeq(Reverse([i \in 1..Len(told) |-> i]),
                               LAMBDA y : y /= x /\ Standing(y))
        bySubject == SelectSeq(others, LAMBDA y : /\ told[x].text.subject /= ""
                                                  /\ told[y].text.subject = told[x].text.subject)
        byMeaning == IF embedded THEN others ELSE <<>>
        listed    == FirstOnly(bySubject, MaxCandidates)
    IN  listed \o SelectSeq(FirstOnly(byMeaning, MaxCandidates),
                            LAMBDA y : \A i \in DOMAIN listed : listed[i] /= y)

\* A decision that is not blocked is shown; what a person closed stays closed.
WrongReported(shown, p, what) ==
    IF shown[p].status = "dismissed" THEN [shown EXCEPT ![p].status = "open"]
    ELSE IF what = "blocked" THEN shown
    ELSE [shown EXCEPT ![p] = [status |-> "open", certainty |->
              IF what = "auto_applied" THEN "aligned" ELSE "needs_review"]]
Reported(shown, p, what) ==
    IF what = "blocked" \/ shown[p].status \notin {"none", "open"} THEN shown
    ELSE [shown EXCEPT ![p] = [status |-> "open", certainty |->
              IF what = "auto_applied" THEN "aligned" ELSE "needs_review"]]

\* What one claim of a pair that is compared does to the other: they are
\* taken in the order of their ids, as they were when the scan began.
PairScanned(s, x, y) ==
    LET p      == PairNo(x, y)
        a      == IF idsRise THEN told[p[1]] ELSE told[p[2]]
        b      == IF idsRise THEN told[p[2]] ELSE told[p[1]]
        aNo    == IF idsRise THEN p[1] ELSE p[2]
        bNo    == IF idsRise THEN p[2] ELSE p[1]
        method == Method(a.text, b.text)
        old    == s.reports[p]
        said   == old.status = "dismissed"
        what   == Decision(Codes(a, b, method, said \/ p \in agreed))
        Close(older, newer) ==
            IF s.told[older].status /= "active" THEN s.told
            ELSE [s.told EXCEPT ![older].status = "superseded", ![older].by = newer,
                                ![older].to = Closed(s.told[older], told[newer])]
    IN  [told |-> IF Replaces(a, b, method, said) THEN Close(aNo, bNo)
                  ELSE IF Replaces(b, a, method, said) THEN Close(bNo, aNo) ELSE s.told,
         concluded |-> [s.concluded EXCEPT ![p] = what],
         reports |-> Reported(s.reports, p, what)]

Scan(x, embedded) ==
    LET before == [told |-> told, reports |-> reports, concluded |-> concluded]
        pairs  == SelectSeq(CandidatesOf(x, embedded),
                            LAMBDA y : Flagged(told[x], told[y], embedded))
        after  == FoldLeft(LAMBDA s, y : PairScanned(s, x, y), before, pairs)
    IN  /\ Standing(x) /\ ~told[x].scanned
        /\ told' = [after.told EXCEPT ![x].scanned = TRUE]
        /\ reports' = after.reports
        /\ concluded' = after.concluded
        /\ UNCHANGED <<arrivals, unreadFrom, spokenBy, idsRise, agreed, requeued>>

----------------------------------------------------------------------------
(* People, and merges that ask for another look *)

\* A contradiction is no conflict, or both are right.
ResolvePair(p) ==
    /\ reports[p].status = "open"
    /\ reports' = [reports EXCEPT ![p].status = "dismissed"]
    /\ UNCHANGED <<arrivals, unreadFrom, told, spokenBy, idsRise, concluded, agreed, requeued>>

\* A pair explained away: the explanation is right.
AgreeExplained(p) ==
    /\ concluded[p] = "blocked" /\ p \notin agreed
    /\ agreed' = agreed \cup {p}
    /\ reports' = [reports EXCEPT ![p].status = IF @ = "open" THEN "agreed" ELSE @]
    /\ UNCHANGED <<arrivals, unreadFrom, told, spokenBy, idsRise, concluded, requeued>>

\* A merge of people clears the cursors of the claims about them.
Requeue(subject) ==
    /\ requeued < Requeues /\ requeued' = requeued + 1
    /\ subject /= ""
    /\ told' = [x \in ClaimNo |-> IF told[x].text.subject = subject /\ Standing(x)
                                  THEN [told[x] EXCEPT !.scanned = FALSE] ELSE told[x]]
    /\ UNCHANGED <<arrivals, unreadFrom, spokenBy, idsRise, reports, concluded, agreed>>
----------------------------------------------------------------------------
ConflictInit ==
    /\ arrivals \in Arrivals
    /\ unreadFrom = 1 /\ told = <<>> /\ spokenBy = <<>>
    /\ idsRise \in BOOLEAN
    /\ reports = [p \in PairNos |-> NoReport]
    /\ concluded = [p \in PairNos |-> "none"]
    /\ agreed = {} /\ requeued = 0

ConflictNext ==
    \/ ReadMessage
    \/ \E x \in ClaimNo, embedded \in BOOLEAN : Scan(x, embedded)
    \/ \E p \in PairNos : ResolvePair(p) \/ AgreeExplained(p)
    \/ \E x \in ClaimNo : Requeue(told[x].text.subject)

ConflictSpec == ConflictInit /\ [][ConflictNext]_conflictVars
----------------------------------------------------------------------------
(* Types: every message became a claim that says the same, and a claim is   *)
(* closed exactly when another one replaced it (persist_chunk_units,        *)
(* record_conflict).                                                        *)
ConflictTypeOK ==
    /\ unreadFrom \in 1..Len(arrivals) + 1
    /\ Len(spokenBy) = unreadFrom - 1
    /\ \A i \in DOMAIN spokenBy : spokenBy[i] \in ClaimNo /\ told[spokenBy[i]].text = arrivals[i].text
    /\ \A x \in ClaimNo : /\ told[x].status \in {"active", "superseded"}
                          /\ (told[x].by /= 0) <=> ~Standing(x)
                          /\ (told[x].to /= NoTime) <=> ~Standing(x)
    /\ reports \in [PairNos -> [status : {"none", "open", "dismissed", "agreed"},
                                certainty : {"none", "aligned", "needs_review"}]]
    /\ concluded \in [PairNos -> {"none", "auto_applied", "needs_review", "blocked"}]
    /\ agreed \subseteq PairNos /\ requeued \in 0..Requeues

\* The times around the ends of two periods.
Marks(p, q) == LET ends == {p.start, p.end, q.start, q.end} \ {NoTime}
               IN  UNION {{t - 1, t, t + 1} : t \in ends}
\* The periods a partly known one may be.
MayBe(p, marks) ==
    {w \in (IF p.start = NoTime THEN marks ELSE {p.start})
            \X (IF p.end = NoTime THEN marks ELSE {p.end}) : w[1] < w[2]}
Meet(v, w) == v[1] < w[2] /\ w[1] < v[2]

\* What temporal.rs says of two periods holds of all they may be: claims of
\* disjoint periods share no moment, claims of overlapping ones share one
\* (relate_intervals; two statements of the current state are read otherwise).
RelationIsSound ==
    \A x, y \in ClaimNo :
        LET p == Period(told[x])
            q == Period(told[y])
            all == MayBe(p, Marks(p, q)) \X MayBe(q, Marks(p, q))
        IN  ~(p.basis = "present" /\ q.basis = "present") =>
            /\ Relation(p, q) = "disjoint"    => \A w \in all : ~Meet(w[1], w[2])
            /\ Relation(p, q) = "overlapping" => \A w \in all : Meet(w[1], w[2])

\* A claim that was replaced is closed, not before it began, and shares no
\* moment with the one that replaced it; what names a year keeps its own window
\* (record_conflict closes at the newer claim's start; migration 0001 refuses
\* an inverted window, which would undo the whole scan).
ClosedBeforeItsSuccessor ==
    \A x \in ClaimNo : ~Standing(x) =>
        /\ told[x].from /= NoTime => told[x].from <= told[x].to
        /\ told[x].text.year = NoTime =>
              Relation(Period(told[x]), Period(told[told[x].by])) = "disjoint"

\* Nobody is asked about a claim and the one that replaced it: a change of
\* state is never shown as a contradiction (evaluate decides the two apart).
ChangeIsNoConflict ==
    \A x \in ClaimNo : ~Standing(x) => reports[PairNo(x, told[x].by)].status /= "open"

\* However reading and scanning interleave, once everything is scanned no pair
\* of standing claims about one subject that the rules flag was missed
\* (load_candidates is asked from one side of the pair only).
NoFlaggedPairIsMissed ==
    (unreadFrom > Len(arrivals) /\ \A x \in ClaimNo : Standing(x) => told[x].scanned) =>
        \A x, y \in ClaimNo :
            (/\ x < y /\ Standing(x) /\ Standing(y)
             /\ told[x].text.subject /= "" /\ told[x].text.subject = told[y].text.subject
             /\ \A embedded \in BOOLEAN : Flagged(told[x], told[y], embedded))
            => concluded[<<x, y>>] /= "none"

\* Messages are read in the order they were written.
InOrder == \A i, j \in DOMAIN arrivals : i < j => arrivals[i].said <= arrivals[j].said

\* What was last said of the present stands: no older claim replaces it, nor
\* does it lie in an episode that another state has ended (intervening_state
\* starts a new episode even when the scanner has not yet closed the old one).
LatestStands ==
    (InOrder /\ spokenBy /= <<>>) =>
        LET x == spokenBy[Len(spokenBy)]
        IN  Period([told[x] EXCEPT !.to = NoTime]).basis = "present" => Standing(x)

\* A person's verdict outlives every further scan, whoever asks for it.
VerdictsStand ==
    [][\A p \in PairNos : reports[p].status \in {"dismissed", "agreed"}
                           => reports'[p].status = reports[p].status]_conflictVars

\* What is made of two claims agrees with their periods in time, and every pair
\* the rules flag is found, in whatever order messages are read and claims
\* scanned (temporal.rs, scan_unit, intervening_state).
ConflictsAreSound ==
    /\ ConflictTypeOK
    /\ RelationIsSound
    /\ ChangeIsNoConflict
    /\ ClosedBeforeItsSuccessor
    /\ NoFlaggedPairIsMissed
    /\ LatestStands
=============================================================================
