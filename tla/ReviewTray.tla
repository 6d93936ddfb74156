----------------------------- MODULE ReviewTray -----------------------------
(***************************************************************************)
(* The tray of things people are asked about, and the bars that decide     *)
(* what gets into it.  Extraction keeps a claim of low confidence and asks *)
(* about it; the resolver merges a pair of names, asks about it or lets it *)
(* be.  Verdicts of people are evidence from which a tuner moves the bars, *)
(* one small step at a time; people may reset a bar.                       *)
(*                                                                         *)
(* The tuner reads bars, verdicts and items in separate statements, so     *)
(* verdicts, resets and new items fall in between; a session acts on an    *)
(* item it read earlier.  Scores are hundredths.  Left out: what a verdict *)
(* does to claims and entities beyond status (EntityMerge and              *)
(* UnitLifecycle have it), corrections, which close an item and are no     *)
(* evidence, and items about groups too large.                             *)
(***************************************************************************)
EXTENDS Integers, FiniteSets

CONSTANTS
    Target,        \* claims and pairs of names, numbers in the order of the tray's ids
    Pair,          \* those that are pairs
    Score,         \* [Target \ Pair -> 0..100]: the confidence of each claim
    Signals,       \* [Pair -> [cosine, text : 0..100]], 0 when there is none
    Ambiguous,     \* claims whose tense the rules cannot tell
    DropBelow,     \* admit_drop_below
    TuneTarget,    \* tune_target_precision, in hundredths
    MinSamples,    \* tune_min_samples
    OptionalCap,   \* OPTIONAL_REVIEW_OPEN_CAP
    RescorePage,   \* RESCORE_PAGE
    Judged,        \* bound: claims that may yet get a verdict
    Library,       \* libraries in use to start from
    TrayBudgets    \* how often at most each deed is done: [TrayDeed -> Nat]

TrayDeed == {"verdict", "undo", "close", "reset", "crash"}
Key == {"admit", "single", "agree"}
Claims == Target \ Pair
NotTuned == 0
Label == [target : Target, key : Key, score : 0..100, keep : BOOLEAN]

ASSUME TrayAssumption ==
    /\ Pair \subseteq Target /\ Target \subseteq Nat \ {0} /\ IsFiniteSet(Target)
    /\ Ambiguous \subseteq Claims /\ DropBelow \in 0..50 /\ TuneTarget \in 0..100
    /\ Score \in [Claims -> 0..100] /\ Signals \in [Pair -> [cosine : 0..100, text : 0..100]]
    /\ Judged \subseteq Claims /\ MinSamples \in Nat /\ OptionalCap \in Nat /\ RescorePage \in Nat \ {0}
    /\ Library \subseteq [asked : [Target -> {"none", "low", "modality", "pair"}],
                          unread : SUBSET Claims, evidence : SUBSET Label, tuned : [Key -> 0..100],
                          merged : [Pair -> {"apart", "single", "agree"}],
                          different : SUBSET Pair]
    /\ TrayBudgets \subseteq [TrayDeed -> Nat]

\* What people were asked and said before: claims are asked about once they
\* are kept, and the bar for two signals hears of merges undone alone.
ASSUME LibraryAssumption ==
    \A lib \in Library :
        /\ \A t \in Target : lib.asked[t] = "pair" => t \in Pair
        /\ \A u \in lib.unread : lib.asked[u] = "none"
        /\ \A k, l \in lib.evidence : k.target = l.target /\ k.key = l.key => k = l
        /\ \A l \in lib.evidence : l.key = "agree" => ~l.keep

VARIABLES
    claims,     \* status of each claim: "unread", "active" or "retracted"
    asked,      \* the reason of each target's open item, or "none"
    seen,       \* pairs a session has read the item of: "no", "open", or "gone" if closed since
    gain,       \* info_gain of the open items
    merged,     \* per pair: "apart", or the gate it was merged by
    different,  \* pairs people said are different
    evidence,   \* the latest verdict per target and bar, since the bar was reset
    tuned,      \* decision_tuning
    tuner,      \* the tuning pass
    extractor,     \* the extraction pass
    resolver,   \* the resolution pass
    since,      \* history: per bar, what happened last to it or to its evidence
    unheld,       \* history: items nobody has yet had to hold against the bar in force
    trayDeeds

trayVars == <<claims, asked, seen, gain, merged, different, evidence, tuned, tuner, extractor,
              resolver, since, unheld, trayDeeds>>
trayWorld == <<claims, asked, seen, gain, merged, different>>

\* LiveThresholds::from_config and the hard bounds
Default == [admit |-> 50, single |-> 92, agree |-> 80]
Most == [admit |-> 90, single |-> 99, agree |-> 95]
Least == [admit |-> IF DropBelow > 30 THEN DropBelow ELSE 30, single |-> 85, agree |-> 80]
ReviewFloor == 60
MaxStep == 5

\* LiveThresholds::load: what is stored, if it is within its bounds.
InForce == [k \in Key |-> IF tuned[k] \in Least[k]..Most[k] THEN tuned[k] ELSE Default[k]]

NoPassYet == [step |-> "idle"]

TrayInit ==
    \E lib \in Library :
        /\ claims = [u \in Claims |-> IF u \in lib.unread THEN "unread" ELSE "active"]
        /\ asked = lib.asked /\ evidence = lib.evidence /\ tuned = lib.tuned
        /\ seen = [p \in Pair |-> "no"] /\ gain = [t \in Target |-> 0]
        /\ merged = lib.merged /\ different = lib.different
        /\ tuner = NoPassYet /\ extractor = NoPassYet /\ resolver = NoPassYet
        /\ since = [k \in Key |-> "verdict"] /\ unheld = {t \in Target : asked[t] # "none"}
        /\ trayDeeds \in TrayBudgets

TrayDoes(deed) == trayDeeds[deed] > 0 /\ trayDeeds' = [trayDeeds EXCEPT ![deed] = @ - 1]

-----------------------------------------------------------------------------
\* Items.

\* review_queue_open_target_uq: one open item per target.
Open == {t \in Target : asked[t] # "none"}

\* Items the tray may drop: the claim is kept anyway.
Optional == {t \in Target : asked[t] \in {"low", "modality"}}

Close(ts) ==
    /\ asked' = [t \in Target |-> IF t \in ts THEN "none" ELSE asked[t]]
    /\ seen' = [p \in Pair |-> IF p \in ts /\ seen[p] = "open" THEN "gone" ELSE seen[p]]
    /\ gain' = [t \in Target |-> IF t \in ts THEN 0 ELSE gain[t]]
    /\ unheld' = unheld \ ts

-----------------------------------------------------------------------------
\* tune: propose_threshold

Keeps(labels) == Cardinality({l \in labels : l.keep})
Precise(labels) == 100 * Keeps(labels) >= TuneTarget * Cardinality(labels)

\* Wrong: it is enough that what is newly let pass is good.
WrongSurely(labels) == TRUE
\* wilson_lower_bound(keeps, n, 1.96) >= target, multiplied out.
Surely(labels) ==
    LET n == Cardinality(labels)
        over == 100 * Keeps(labels) - TuneTarget * n
    IN  n > 0 /\ over >= 0 /\ 10000 * over * over >= 38416 * TuneTarget * (100 - TuneTarget) * n

From(labels, bar) == {l \in labels : l.score >= bar}
Region == IF MinSamples \div 4 > 3 THEN MinSamples \div 4 ELSE 3

MustRaise(labels, bar) ==
    LET above == From(labels, bar)
    IN  above # {} /\ Cardinality(above) >= MinSamples /\ ~Precise(above)

\* Scores the bar may come down to: judged, and well enough.
MayLower(labels, bar, k) ==
    {t \in {l.score : l \in labels} :
        /\ t < bar /\ t >= bar - MaxStep /\ t >= Least[k]
        /\ LET region == From(labels, t) \ From(labels, bar)
           IN  Cardinality(region) >= Region /\ Precise(region)
        /\ Cardinality(From(labels, t)) >= MinSamples /\ Surely(From(labels, t))}

Proposal(labels, bar, k) ==
    IF bar \notin Least[k]..Most[k] THEN bar
    ELSE IF MustRaise(labels, bar) THEN IF bar + MaxStep < Most[k] THEN bar + MaxStep ELSE Most[k]
    ELSE IF MayLower(labels, bar, k) = {} THEN bar
    ELSE CHOOSE t \in MayLower(labels, bar, k) : \A s \in MayLower(labels, bar, k) : t <= s

-----------------------------------------------------------------------------
\* The tuning pass: admit, single and agree in this order, then the ranks.

KeyAfter(k) == CASE k = "admit" -> "single" [] k = "single" -> "agree" [] OTHER -> "rank"

LoadBars ==
    /\ tuner.step = "idle"
    /\ tuner' = [step |-> "labels", key |-> "admit", bars |-> InForce]
    /\ UNCHANGED <<trayWorld, evidence, tuned, extractor, resolver, since, unheld, trayDeeds>>

\* load_labels
EvidenceFor(k) == {l \in evidence : l.key = k}

LoadLabels ==
    /\ tuner.step = "labels"
    /\ tuner' = [step |-> "tune", key |-> tuner.key, bars |-> tuner.bars,
                 labels |-> EvidenceFor(tuner.key)]
    /\ UNCHANGED <<trayWorld, evidence, tuned, extractor, resolver, since, unheld, trayDeeds>>

NextKey(k, bars) == IF KeyAfter(k) = "rank"
                    THEN [step |-> "rank", bars |-> bars, from |-> 0]
                    ELSE [step |-> "labels", key |-> KeyAfter(k), bars |-> bars]

\* Items of low confidence that clear a bar.
Clears(bar) == {t \in Claims : asked[t] = "low" /\ Score[t] >= bar}

\* tune_key: the new value and its audit row in one transaction.
TuneKey ==
    /\ tuner.step = "tune"
    /\ LET k == tuner.key
           old == tuner.bars[k]
           new == Proposal(tuner.labels, old, k)
           bars == [tuner.bars EXCEPT ![k] = new]
       IN  /\ tuned' = IF new = old THEN tuned ELSE [tuned EXCEPT ![k] = new]
           /\ tuner' = IF k = "admit" /\ new < old THEN [step |-> "drain", bars |-> bars]
                       ELSE NextKey(k, bars)
           /\ since' = IF new = old \/ tuner.labels # EvidenceFor(k) THEN since
                       ELSE [since EXCEPT ![k] = IF @ = "reset" THEN @
                                                 ELSE IF new < old THEN "lowered" ELSE "raised"]
           /\ unheld' = IF k = "admit" /\ new # old THEN unheld \cup Clears(new) ELSE unheld
    /\ UNCHANGED <<trayWorld, evidence, extractor, resolver, trayDeeds>>

\* drain_cleared_units: a statement of its own.
Drained(bar) == Clears(bar)

Drain ==
    /\ tuner.step = "drain"
    /\ LET closed == Drained(tuner.bars["admit"])
       IN  /\ asked' = [t \in Target |-> IF t \in closed THEN "none" ELSE asked[t]]
           /\ gain' = [t \in Target |-> IF t \in closed THEN 0 ELSE gain[t]]
    /\ unheld' = IF InForce["admit"] >= tuner.bars["admit"] THEN {} ELSE unheld \ Drained(tuner.bars["admit"])
    /\ tuner' = NextKey("admit", tuner.bars)
    /\ UNCHANGED <<claims, seen, merged, different, evidence, tuned, extractor, resolver, since, trayDeeds>>

\* boundary_uncertainty, in percent; what the answer touches is left out.
Between(score, lo, hi) ==
    IF hi <= lo \/ score >= hi THEN 100
    ELSE IF score <= lo THEN 0 ELSE (100 * (score - lo)) \div (hi - lo)
Best(p) == IF Signals[p].cosine >= Signals[p].text THEN Signals[p].cosine ELSE Signals[p].text
InfoGain(t, bars) == IF t \in Pair THEN Between(Best(t), ReviewFloor, bars["single"])
                     ELSE Between(Score[t], DropBelow, bars["admit"])

MorePages(page) == page # {}

\* rescore_review_queue, a page at a time.
Rescore ==
    LET later == {t \in Open : t > tuner.from}
        page == {t \in later : Cardinality({s \in later : s < t}) < RescorePage}
    IN  /\ tuner.step = "rank"
        /\ gain' = [t \in Target |-> IF t \in page THEN InfoGain(t, tuner.bars) ELSE gain[t]]
        /\ tuner' = IF MorePages(page)
                    THEN [tuner EXCEPT !.from = CHOOSE t \in page : \A s \in page : s <= t]
                    ELSE NoPassYet
        /\ UNCHANGED <<claims, asked, seen, merged, different, evidence, tuned, extractor, resolver,
                       since, unheld, trayDeeds>>

-----------------------------------------------------------------------------
\* The extraction pass.

\* trim_optional_review keeps the most informative.
TrimTray ==
    /\ extractor.step = "idle"
    /\ extractor' = [step |-> "load"]
    /\ \E kept \in SUBSET Optional :
         /\ Cardinality(kept) = IF Cardinality(Optional) < OptionalCap THEN Cardinality(Optional)
                                ELSE OptionalCap
         /\ \A t \in kept, s \in Optional \ kept : gain[t] >= gain[s]
         /\ Close(Optional \ kept)
    /\ UNCHANGED <<claims, merged, different, evidence, tuned, tuner, resolver, since, trayDeeds>>

LoadBar ==
    /\ extractor.step = "load"
    /\ extractor' = [step |-> "read", bar |-> InForce["admit"]]
    /\ UNCHANGED <<trayWorld, evidence, tuned, tuner, resolver, since, unheld, trayDeeds>>

Room == Cardinality(Optional) < OptionalCap

\* persist_chunk_units: kept, kept and asked about, or dropped.  The writers
\* take turns, so that the count holds.
Admit(u) ==
    /\ extractor.step = "read" /\ claims[u] = "unread"
    /\ claims' = [claims EXCEPT ![u] = IF Score[u] < DropBelow THEN "retracted" ELSE "active"]
    /\ IF Score[u] >= DropBelow /\ (Score[u] < extractor.bar \/ u \in Ambiguous) /\ Room
       THEN /\ asked' = [asked EXCEPT ![u] = IF u \in Ambiguous THEN "modality" ELSE "low"]
            /\ unheld' = IF extractor.bar > InForce["admit"] THEN unheld \cup {u} ELSE unheld
       ELSE UNCHANGED <<asked, unheld>>
    /\ UNCHANGED <<seen, gain, merged, different, evidence, tuned, tuner, extractor, resolver, since,
                   trayDeeds>>

EndReading ==
    /\ extractor.step = "read" /\ extractor' = NoPassYet
    /\ UNCHANGED <<trayWorld, evidence, tuned, tuner, resolver, since, unheld, trayDeeds>>

-----------------------------------------------------------------------------
\* The resolution pass.

\* merge_decision and auto_basis: the gate that lets a pair through.
Agree(p, bars) == /\ Signals[p].cosine > 0 /\ Signals[p].text > 0
                  /\ Signals[p].cosine >= bars["agree"] /\ Signals[p].text >= bars["agree"]
Gate(p, bars) == IF Best(p) >= bars["single"] THEN "single"
                 ELSE IF Agree(p, bars) THEN "agree" ELSE "none"
Weaker(p) == IF Signals[p].cosine <= Signals[p].text THEN Signals[p].cosine ELSE Signals[p].text

LoadPairs ==
    /\ resolver.step = "idle" /\ \E p \in Pair \ different : merged[p] = "apart"
    /\ resolver' = [step |-> "pairs", bars |-> InForce, away |-> {},
                    left |-> {p \in Pair \ different : merged[p] = "apart"}]
    /\ UNCHANGED <<trayWorld, evidence, tuned, tuner, extractor, since, unheld, trayDeeds>>

DecidePair(p) ==
    /\ resolver.step = "pairs" /\ p \in resolver.left
    /\ LET gate == Gate(p, resolver.bars)
           merges == merged[p] = "apart" /\ gate # "none"
           parks == gate = "none" /\ Best(p) >= ReviewFloor
       IN  /\ merged' = IF merges THEN [merged EXCEPT ![p] = gate] ELSE merged
           /\ asked' = IF parks THEN [asked EXCEPT ![p] = "pair"] ELSE asked
           /\ resolver' = [resolver EXCEPT !.left = @ \ {p},
                              !.away = IF merges THEN @ \cup {p} ELSE @]
    /\ UNCHANGED <<claims, seen, gain, different, evidence, tuned, tuner, extractor, since, unheld, trayDeeds>>

\* Items about pairs merged in this pass are closed.
EndResolving ==
    /\ resolver.step = "pairs" /\ resolver.left = {}
    /\ Close(resolver.away)
    /\ resolver' = NoPassYet
    /\ UNCHANGED <<claims, merged, different, evidence, tuned, tuner, extractor, since, trayDeeds>>

-----------------------------------------------------------------------------
\* People.

\* unit_feedback: the latest verdict on a target counts.
Judge(t, k, score, keep) ==
    /\ evidence' = {l \in evidence : l.target # t \/ l.key # k}
                   \cup {[target |-> t, key |-> k, score |-> score, keep |-> keep]}
    /\ since' = [since EXCEPT ![k] = "verdict"]

ConfirmUnit(u) ==
    /\ claims[u] # "unread" /\ TrayDoes("verdict")
    /\ Judge(u, "admit", Score[u], TRUE) /\ Close({u})
    /\ UNCHANGED <<claims, merged, different, tuned, tuner, extractor, resolver>>

RejectUnit(u) ==
    /\ claims[u] # "unread" /\ TrayDoes("verdict")
    /\ claims' = [claims EXCEPT ![u] = "retracted"]
    /\ Judge(u, "admit", Score[u], FALSE) /\ Close({u})
    /\ UNCHANGED <<merged, different, tuned, tuner, extractor, resolver>>

RestoreUnit(u) ==
    /\ claims[u] = "retracted" /\ TrayDoes("verdict")
    /\ claims' = [claims EXCEPT ![u] = "active"]
    /\ Judge(u, "admit", Score[u], TRUE) /\ Close({u})
    /\ UNCHANGED <<merged, different, tuned, tuner, extractor, resolver>>

ReadItem(p) ==
    /\ asked[p] # "none" /\ seen[p] = "no"
    /\ seen' = [seen EXCEPT ![p] = "open"]
    /\ UNCHANGED <<claims, asked, gain, merged, different, evidence, tuned, tuner, extractor, resolver,
                   since, unheld, trayDeeds>>

\* The item is closed by its own id.
CloseRead(p) ==
    /\ asked' = [asked EXCEPT ![p] = IF seen[p] = "open" THEN "none" ELSE @]
    /\ gain' = [gain EXCEPT ![p] = IF seen[p] = "open" THEN 0 ELSE @]
    /\ seen' = [seen EXCEPT ![p] = "no"]
    /\ unheld' = IF seen[p] = "open" THEN unheld \ {p} ELSE unheld

\* accept_review_core: whoever accepts a pair vouches for its strongest
\* signal; names that have become one meanwhile need no merge.
AcceptPair(p) ==
    /\ seen[p] # "no" /\ TrayDoes("verdict")
    /\ CloseRead(p)
    /\ IF merged[p] = "apart"
       THEN merged' = [merged EXCEPT ![p] = "single"] /\ Judge(p, "single", Best(p), TRUE)
       ELSE UNCHANGED <<merged, evidence, since>>
    /\ UNCHANGED <<claims, different, tuned, tuner, extractor, resolver>>

RejectPair(p) ==
    /\ seen[p] # "no" /\ TrayDoes("verdict")
    /\ CloseRead(p)
    /\ different' = different \cup {p} /\ Judge(p, "single", Best(p), FALSE)
    /\ UNCHANGED <<claims, merged, tuned, tuner, extractor, resolver>>

\* unmerge_core: a merge undone speaks against the gate it went through.
UndoMerge(p) ==
    /\ merged[p] # "apart" /\ TrayDoes("undo")
    /\ merged' = [merged EXCEPT ![p] = "apart"] /\ different' = different \cup {p}
    /\ Judge(p, merged[p], IF merged[p] = "single" THEN Best(p) ELSE Weaker(p), FALSE)
    /\ UNCHANGED <<claims, asked, seen, gain, tuned, tuner, extractor, resolver, unheld>>

\* resolve_review_core: no verdict.
CloseItem(t) ==
    /\ asked[t] # "none" /\ TrayDoes("close") /\ Close({t})
    /\ UNCHANGED <<claims, merged, different, evidence, tuned, tuner, extractor, resolver, since>>

\* Wrong: earlier verdicts go on counting.
WrongAfterReset(k) == evidence
\* The audit row of a reset is the cutoff of load_labels.
AfterReset(k) == {l \in evidence : l.key # k}

\* reset_tuning_core
ResetBar(k) ==
    /\ tuned[k] # NotTuned /\ TrayDoes("reset")
    /\ tuned' = [tuned EXCEPT ![k] = NotTuned]
    /\ evidence' = AfterReset(k)
    /\ since' = [since EXCEPT ![k] = IF tuner.step = "tune" /\ tuner.key = k THEN "race" ELSE "reset"]
    /\ unheld' = IF k = "admit" THEN unheld \cup Clears(Default["admit"]) ELSE unheld
    /\ UNCHANGED <<trayWorld, tuner, extractor, resolver>>

\* The daemon ends and starts again.
StopPasses ==
    /\ TrayDoes("crash")
    /\ tuner' = NoPassYet /\ extractor' = NoPassYet /\ resolver' = NoPassYet
    /\ UNCHANGED <<trayWorld, evidence, tuned, since, unheld>>

-----------------------------------------------------------------------------
TuningPass == LoadBars \/ LoadLabels \/ TuneKey \/ Drain \/ Rescore
ReadingPass == TrimTray \/ LoadBar \/ EndReading \/ \E u \in Claims : Admit(u)

TrayNext ==
    \/ TuningPass \/ ReadingPass \/ LoadPairs \/ EndResolving \/ StopPasses
    \/ \E u \in Judged : ConfirmUnit(u) \/ RejectUnit(u) \/ RestoreUnit(u)
    \/ \E p \in Pair : DecidePair(p) \/ ReadItem(p) \/ AcceptPair(p) \/ RejectPair(p) \/ UndoMerge(p)
    \/ \E t \in Target : CloseItem(t)
    \/ \E k \in Key : ResetBar(k)

\* Both workers repeat their pass for as long as the daemon runs.
TraySpec == TrayInit /\ [][TrayNext]_trayVars /\ WF_trayVars(TuningPass) /\ WF_trayVars(ReadingPass)

-----------------------------------------------------------------------------
TrayTypeOK ==
    /\ claims \in [Claims -> {"unread", "active", "retracted"}]
    /\ asked \in [Target -> {"none", "low", "modality", "pair"}]
    /\ \A t \in Target : asked[t] = "pair" => t \in Pair
    /\ \A u \in Claims : claims[u] # "active" => asked[u] = "none"
    /\ seen \in [Pair -> {"no", "open", "gone"}] /\ gain \in [Target -> 0..100]
    /\ \A p \in Pair : seen[p] = "open" => asked[p] # "none"
    /\ merged \in [Pair -> {"apart", "single", "agree"}] /\ different \subseteq Pair
    /\ evidence \subseteq Label
    /\ \A k, l \in evidence : k.target = l.target /\ k.key = l.key => k = l
    /\ tuned \in [Key -> 0..100]
    /\ unheld \subseteq Open

\* The tray never grows beyond the optional items it may hold, however many
\* claims an extraction brings (persist_chunk_units).
OptionalIsCapped ==
    [][Cardinality(Optional') > Cardinality(Optional) => Cardinality(Optional') <= OptionalCap]_trayVars

\* A tray that was longer comes back to what it may hold, and every open
\* item gets the rank the bars in force give it, however long the tray
\* (trim_optional_review, rescore_review_queue).
TrayIsKept ==
    []<>(/\ Cardinality(Optional) <= OptionalCap
         /\ \A t \in Open : gain[t] = InfoGain(t, InForce))

\* Without new verdicts the bars come to rest (tune: "Hysteresis between the
\* two rules prevents oscillation").
BarsSettle ==
    []<>(\A k \in Key : Proposal(EvidenceFor(k), InForce[k], k) = InForce[k])

\* A bar brought down on some verdicts is not put up again on the same ones
\* (propose_threshold).
LoweredStaysLow ==
    [][TuneKey => \A k \in Key : since[k] = "lowered" => tuned'[k] <= tuned[k]]_trayVars

\* The bar for two signals is only ever tightened, for it learns from undone
\* merges alone (decide/live.rs: "it can tighten but never loosen").
AgreeOnlyTightens == [][TuneKey => InForce'["agree"] >= InForce["agree"]]_trayVars

\* A bar that was reset stays at its default until there is a new verdict,
\* unless the tuner had read the verdicts just before (load_labels: "so a
\* reset is durable").
ResetIsDurable == \A k \in Key : since[k] = "reset" => tuned[k] = NotTuned

\* Nobody is asked whether a claim of low confidence is right that the bar in
\* force lets pass, but for items from before the bar moved that no tuning
\* pass has held against it yet (drain_cleared_units, persist_chunk_units).
AskedBelowTheBar == Clears(InForce["admit"]) \subseteq unheld

\* The bars are what verdicts and resets made them, and nobody is asked below
\* them (tune_thresholds, drain_cleared_units).
TrayIsSound == TrayTypeOK /\ ResetIsDurable /\ AskedBelowTheBar

\* How the bars and the tray move: within the cap, and never back on the same
\* verdicts (propose_threshold, persist_chunk_units).
TrayIsTuned == OptionalIsCapped /\ LoweredStaysLow /\ AgreeOnlyTightens
=============================================================================
