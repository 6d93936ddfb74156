-------------------------- MODULE ReviewTrayProofs --------------------------
(***************************************************************************)
(* Theorems about ReviewTray for any claims, pairs, scores, bars, caps and *)
(* verdicts: the bars are what verdicts and resets made of them, and       *)
(* nobody is asked about a claim the bar in force lets pass (TraySound);   *)
(* how the bars and the tray may move (TrayTuned).                         *)
(*                                                                         *)
(* The tuner acts on bars and verdicts it read before.  A bar it has yet   *)
(* to move is still as it read it, or was reset; a bar that was reset has  *)
(* no verdicts to be moved on; and a bar brought down lets pass what is    *)
(* surely good enough for as long as no verdict is added, so that nothing  *)
(* speaks for putting it up again.                                         *)
(***************************************************************************)
EXTENDS ReviewTray, FiniteSetTheorems, TLAPS

\* Bars within their bounds.
IsBars(b) == b \in [Key -> 0..100] /\ \A k \in Key : b[k] \in Least[k]..Most[k]

\* The items, and what people see of them.
ItemsOK ==
    /\ claims \in [Claims -> {"unread", "active", "retracted"}]
    /\ asked \in [Target -> {"none", "low", "modality", "pair"}]
    /\ \A t \in Target : asked[t] = "pair" => t \in Pair
    /\ \A u \in Claims : claims[u] # "active" => asked[u] = "none"
    /\ seen \in [Pair -> {"no", "open", "gone"}] /\ gain \in [Target -> 0..100]
    /\ \A p \in Pair : seen[p] = "open" => asked[p] # "none"
    /\ merged \in [Pair -> {"apart", "single", "agree"}] /\ different \subseteq Pair
    /\ unheld \subseteq Open

EvidenceOK ==
    /\ evidence \subseteq Label
    /\ \A k, l \in evidence : k.target = l.target /\ k.key = l.key => k = l
    /\ tuned \in [Key -> 0..100]
    /\ since \in [Key -> {"verdict", "lowered", "raised", "reset", "race"}]

\* What the tuning pass carries from one statement to the next.
TunerOK ==
    /\ tuner.step \in {"idle", "labels", "tune", "drain", "rank"}
    /\ (tuner.step # "idle" => IsBars(tuner.bars))
    /\ (tuner.step \in {"labels", "tune"} => tuner.key \in Key)
    /\ (tuner.step = "tune" => tuner.labels \subseteq Label)
    /\ (tuner.step = "rank" => tuner = [step |-> "rank", bars |-> tuner.bars, from |-> tuner.from])

\* The tuning pass under way has yet to move this bar.
Ahead(k) ==
    \/ /\ tuner.step \in {"labels", "tune"}
       /\ tuner.key = k \/ tuner.key = "admit" \/ (tuner.key = "single" /\ k = "agree")
    \/ tuner.step = "drain" /\ k # "admit"

\* The bar for two signals hears of merges undone alone.
RefusalsOnly ==
    /\ \A l \in evidence : l.key = "agree" => ~l.keep
    /\ ((tuner.step = "tune" /\ tuner.key = "agree") => \A l \in tuner.labels : ~l.keep)

\* A bar the pass has yet to move is as it read it, unless it was reset.
BarsAreCurrent == \A k \in Key : Ahead(k) => (InForce[k] = tuner.bars[k] \/ tuned[k] = NotTuned)

\* A bar brought down lets pass what is surely good enough.
LoweredIsSure ==
    \A k \in Key : since[k] = "lowered" =>
        /\ tuned[k] \in Least[k]..Most[k]
        /\ Surely(From(EvidenceFor(k), tuned[k]))
        /\ (Ahead(k) => tuner.bars[k] = tuned[k])
        /\ ((tuner.step = "tune" /\ tuner.key = k) => tuner.labels = EvidenceFor(k))

\* A bar that was reset has no verdicts to be moved on.
ResetIsClean ==
    \A k \in Key : since[k] = "reset" =>
        /\ tuned[k] = NotTuned /\ EvidenceFor(k) = {}
        /\ ((tuner.step = "tune" /\ tuner.key = k) => tuner.labels = {})

LearningOK == /\ EvidenceOK /\ TunerOK /\ RefusalsOnly /\ BarsAreCurrent /\ LoweredIsSure
              /\ ResetIsClean

ExtractorOK == extractor.step = "read" => extractor.bar \in Int

TrayInv == ItemsOK /\ LearningOK /\ ExtractorOK /\ AskedBelowTheBar

-----------------------------------------------------------------------------
LEMMA Bounds ==
    /\ IsBars(Default)
    /\ \A k \in Key : Least[k] \in 30..85 /\ Most[k] \in 90..99
    /\ Least["agree"] = Default["agree"]
BY TrayAssumption DEF IsBars, Key, Default, Least, Most

LEMMA BarsInForce ==
    ASSUME tuned \in [Key -> 0..100]
    PROVE  IsBars(InForce)
<1> SUFFICES ASSUME NEW k \in Key PROVE InForce[k] \in 0..100 /\ InForce[k] \in Least[k]..Most[k]
  BY DEF IsBars, InForce
<1> QED
  BY Bounds DEF InForce, IsBars

LEMMA Scores ==
    /\ \A u \in Claims : Score[u] \in 0..100
    /\ \A p \in Pair : Best(p) \in 0..100 /\ Weaker(p) \in 0..100
    /\ Target = Claims \cup Pair /\ Claims \cap Pair = {} /\ DropBelow \in 0..50
BY TrayAssumption DEF Claims, Best, Weaker

LEMMA Share ==
    ASSUME NEW a \in Nat, NEW b \in Nat, a < b
    PROVE  (100 * a) \div b \in 0..100
<1> DEFINE x == 100 * a
           q == x \div b
           r == x % b
<1>1. x \in Nat /\ b > 0
  OBVIOUS
<1>2. q \in Int /\ r \in 0..(b-1) /\ x = b * q + r
  BY <1>1
<1>3. q >= 0
  BY <1>1, <1>2
<1>4. q <= 100
  BY <1>1, <1>2
<1> QED
  BY <1>2, <1>3, <1>4

LEMMA Fraction ==
    ASSUME NEW s \in 0..100, NEW lo \in 0..100, NEW hi \in 0..100
    PROVE  Between(s, lo, hi) \in 0..100
<1>1. CASE hi <= lo \/ s >= hi \/ s <= lo
  BY <1>1 DEF Between
<1>2. CASE lo < s /\ s < hi
  <2>1. Between(s, lo, hi) = (100 * (s - lo)) \div (hi - lo)
    BY <1>2 DEF Between
  <2>2. s - lo \in Nat /\ hi - lo \in Nat /\ s - lo < hi - lo
    BY <1>2
  <2> QED
    BY <2>1, <2>2, Share
<1> QED
  BY <1>1, <1>2

LEMMA Gains ==
    ASSUME NEW t \in Target, NEW bars, IsBars(bars)
    PROVE  InfoGain(t, bars) \in 0..100
<1>1. bars["admit"] \in 0..100 /\ bars["single"] \in 0..100 /\ DropBelow \in 0..100
  BY TrayAssumption DEF IsBars, Key
<1>2. CASE t \in Pair
  <2>1. Best(t) \in 0..100 /\ ReviewFloor \in 0..100
    BY <1>2, Scores DEF ReviewFloor
  <2> QED
    BY <1>1, <1>2, <2>1, Fraction DEF InfoGain
<1>3. CASE t \notin Pair
  <2>1. Score[t] \in 0..100
    BY <1>3, Scores DEF Claims
  <2> QED
    BY <1>1, <1>3, <2>1, Fraction DEF InfoGain
<1> QED
  BY <1>2, <1>3

LEMMA FiniteLabels == IsFiniteSet(Label)
<1>1. IsFiniteSet(Target) /\ IsFiniteSet(0..100)
  <2>1. IsFiniteSet(0..100)
    <3>1. 0 \in Int /\ 100 \in Int
      OBVIOUS
    <3> QED
      BY <3>1, FS_Interval, Zenon
  <2> QED
    BY <2>1, TrayAssumption
<1>2. IsFiniteSet(Key)
  <2>1. IsFiniteSet({"admit"}) /\ IsFiniteSet({"admit"} \cup {"single"})
    BY FS_Singleton, FS_AddElement
  <2>2. IsFiniteSet(({"admit"} \cup {"single"}) \cup {"agree"})
    BY <2>1, FS_AddElement
  <2>3. Key = ({"admit"} \cup {"single"}) \cup {"agree"}
    BY DEF Key
  <2> QED
    BY <2>2, <2>3
<1>3. IsFiniteSet(BOOLEAN)
  <2>1. IsFiniteSet({TRUE}) /\ IsFiniteSet({TRUE} \cup {FALSE})
    BY FS_Singleton, FS_AddElement
  <2>2. BOOLEAN = {TRUE} \cup {FALSE}
    OBVIOUS
  <2> QED
    BY <2>1, <2>2
<1> DEFINE Tuple == (Target \X Key) \X ((0..100) \X BOOLEAN)
           f == [x \in Tuple |-> [target |-> x[1][1], key |-> x[1][2],
                                  score |-> x[2][1], keep |-> x[2][2]]]
<1>4. IsFiniteSet(Tuple)
  <2>1. IsFiniteSet(Target \X Key) /\ IsFiniteSet((0..100) \X BOOLEAN)
    BY <1>1, <1>2, <1>3, FS_Product
  <2> QED
    BY <2>1, FS_Product
<1>5. f \in Surjection(Tuple, Label)
  <2>1. f \in [Tuple -> Label]
    BY DEF Label
  <2>2. ASSUME NEW l \in Label PROVE \E x \in Tuple : f[x] = l
    <3> DEFINE x == <<<<l.target, l.key>>, <<l.score, l.keep>>>>
    <3>1. x \in Tuple
      BY DEF Label
    <3>2. f[x] = l
      BY <3>1 DEF Label
    <3> QED
      BY <3>1, <3>2
  <2> QED
    BY <2>1, <2>2 DEF Surjection
<1> QED
  BY <1>4, <1>5, FS_Surjection

\* Verdicts can be counted.
LEMMA Countable ==
    ASSUME NEW labels \in SUBSET Label
    PROVE  /\ IsFiniteSet(labels) /\ Cardinality(labels) \in Nat
           /\ Keeps(labels) \in Nat
           /\ labels # {} <=> Cardinality(labels) > 0
<1>1. ASSUME NEW part \in SUBSET labels
      PROVE  IsFiniteSet(part) /\ Cardinality(part) \in Nat
  <2>1. part \in SUBSET Label
    OBVIOUS
  <2>2. IsFiniteSet(part)
    BY <2>1, FiniteLabels, FS_Subset
  <2> QED
    BY <2>2, FS_CardinalityType
<1>2. IsFiniteSet(labels) /\ Cardinality(labels) \in Nat
  BY <1>1
<1>3. Keeps(labels) \in Nat
  <2>1. {l \in labels : l.keep} \in SUBSET labels
    OBVIOUS
  <2> QED
    BY <1>1, <2>1 DEF Keeps
<1>4. labels # {} <=> Cardinality(labels) > 0
  BY <1>2, FS_EmptySet
<1> QED
  BY <1>2, <1>3, <1>4

\* What is surely good enough is good enough.
LEMMA SureIsPrecise ==
    ASSUME NEW labels \in SUBSET Label, Surely(labels)
    PROVE  Precise(labels)
<1> DEFINE n == Cardinality(labels)
           m == TuneTarget * n
<1>1. n \in Nat /\ Keeps(labels) \in Nat /\ m \in Int
  BY Countable, TrayAssumption
<1>2. 100 * Keeps(labels) - m >= 0
  BY DEF Surely
<1> QED
  BY <1>1, <1>2 DEF Precise

\* Verdicts that all speak against are never good enough.
LEMMA RefusalsAreNot ==
    ASSUME NEW labels \in SUBSET Label, labels # {}, \A l \in labels : ~l.keep, TuneTarget > 0
    PROVE  ~Precise(labels)
<1>1. Keeps(labels) = 0
  <2>1. {l \in labels : l.keep} = {}
    OBVIOUS
  <2> QED
    BY <2>1, FS_EmptySet DEF Keeps
<1> DEFINE n == Cardinality(labels)
<1>2. n \in Nat /\ n > 0
  BY Countable
<1>3. TuneTarget * n > 0 /\ TuneTarget * n \in Int
  BY <1>2, TrayAssumption
<1>4. 100 * Keeps(labels) = 0
  BY <1>1
<1> DEFINE m == TuneTarget * n
<1>5. ~(0 >= m)
  <2> HIDE DEF n
  <2> QED
    BY <1>3
<1> QED
  BY <1>4, <1>5 DEF Precise

LEMMA Lowest ==
    ASSUME NEW bar \in Int, NEW S \in SUBSET (bar - 5)..(bar - 1), S # {}
    PROVE  \E t \in S : \A s \in S : t <= s
<1>1. CASE bar - 5 \in S
  BY <1>1
<1>2. CASE bar - 5 \notin S /\ bar - 4 \in S
  BY <1>2
<1>3. CASE bar - 5 \notin S /\ bar - 4 \notin S /\ bar - 3 \in S
  BY <1>3
<1>4. CASE bar - 5 \notin S /\ bar - 4 \notin S /\ bar - 3 \notin S /\ bar - 2 \in S
  BY <1>4
<1>5. CASE bar - 5 \notin S /\ bar - 4 \notin S /\ bar - 3 \notin S /\ bar - 2 \notin S
  <2>1. PICK t \in S : TRUE
    OBVIOUS
  <2>2. \A s \in S : s = bar - 1
    BY <1>5
  <2> QED
    BY <2>1, <2>2
<1> QED
  BY <1>1, <1>2, <1>3, <1>4, <1>5

\* A proposal stays within the bounds, goes up when it must and down when it may.
LEMMA Proposals ==
    ASSUME NEW labels \in SUBSET Label, NEW k \in Key, NEW bar \in Least[k]..Most[k]
    PROVE  LET new == Proposal(labels, bar, k)
           IN  /\ new \in Least[k]..Most[k]
               /\ new > bar => MustRaise(labels, bar)
               /\ new < bar => ~MustRaise(labels, bar) /\ new \in MayLower(labels, bar, k)
<1> DEFINE new == Proposal(labels, bar, k)
<1>1. bar \in Int /\ Least[k] \in Int /\ Most[k] \in Int
  BY Bounds
<1>2. CASE MustRaise(labels, bar)
  <2>1. new = IF bar + MaxStep < Most[k] THEN bar + MaxStep ELSE Most[k]
    BY <1>2 DEF Proposal
  <2>2. new \in Least[k]..Most[k] /\ new >= bar
    BY <1>1, <2>1 DEF MaxStep
  <2> QED
    BY <1>1, <1>2, <2>2
<1>3. CASE ~MustRaise(labels, bar) /\ MayLower(labels, bar, k) = {}
  <2>1. new = bar
    BY <1>3 DEF Proposal
  <2> QED
    BY <1>1, <2>1
<1>4. CASE ~MustRaise(labels, bar) /\ MayLower(labels, bar, k) # {}
  <2> DEFINE S == MayLower(labels, bar, k)
  <2>1. new = CHOOSE t \in S : \A s \in S : t <= s
    BY <1>4 DEF Proposal
  <2>2. S \in SUBSET (bar - 5)..(bar - 1)
    BY <1>1 DEF MayLower, MaxStep, Label
  <2>3. \E t \in S : \A s \in S : t <= s
    BY <1>1, <1>4, <2>2, Lowest
  <2>4. new \in S
    BY <2>1, <2>3
  <2>5. new < bar /\ new >= Least[k] /\ new \in Int
    BY <1>1, <2>2, <2>4 DEF MayLower
  <2> QED
    BY <1>1, <1>4, <2>4, <2>5
<1> QED
  BY <1>2, <1>3, <1>4

\* Without verdicts a bar stays.
LEMMA NothingToTuneOn ==
    ASSUME NEW k, NEW bar
    PROVE  Proposal({}, bar, k) = bar
BY DEF Proposal, MustRaise, MayLower, From

\* Verdicts that all speak against never bring a bar down.
LEMMA RefusalsOnlyRaise ==
    ASSUME NEW labels \in SUBSET Label, NEW k \in Key, NEW bar \in Least[k]..Most[k],
           \A l \in labels : ~l.keep, TuneTarget > 0
    PROVE  Proposal(labels, bar, k) >= bar
<1>1. MayLower(labels, bar, k) = {}
  <2> SUFFICES ASSUME NEW t \in MayLower(labels, bar, k) PROVE FALSE
    OBVIOUS
  <2> DEFINE region == From(labels, t) \ From(labels, bar)
  <2>1. region \in SUBSET Label /\ \A l \in region : ~l.keep
    BY DEF From
  <2>2. Cardinality(region) >= Region /\ Precise(region)
    BY DEF MayLower
  <2>3. Region > 0
    BY TrayAssumption DEF Region
  <2>4. region # {}
    BY <2>1, <2>2, <2>3, Countable, TrayAssumption DEF Region
  <2> QED
    BY <2>1, <2>2, <2>4, RefusalsAreNot
<1> QED
  BY <1>1, Proposals, Bounds
-----------------------------------------------------------------------------
\* What stays as it is.

LEMMA ItemsStay ==
    ASSUME ItemsOK, UNCHANGED <<claims, asked, seen, gain, merged, different, unheld>>
    PROVE  ItemsOK'
BY DEF ItemsOK, Open

LEMMA LearningStays ==
    ASSUME LearningOK, UNCHANGED <<evidence, tuned, tuner, since>>
    PROVE  LearningOK'
<1>1. EvidenceOK' /\ TunerOK' /\ RefusalsOnly'
  BY DEF LearningOK, EvidenceOK, TunerOK, RefusalsOnly
<1>2. InForce' = InForce /\ \A k \in Key : Ahead(k)' = Ahead(k) /\ EvidenceFor(k)' = EvidenceFor(k)
  BY DEF InForce, Ahead, EvidenceFor
<1>3. BarsAreCurrent' /\ ResetIsClean'
  BY <1>2 DEF LearningOK, BarsAreCurrent, ResetIsClean
<1>4. LoweredIsSure'
  <2> SUFFICES ASSUME NEW k \in Key, since'[k] = "lowered"
               PROVE  /\ tuned'[k] \in Least[k]..Most[k]
                      /\ Surely(From(EvidenceFor(k)', tuned'[k]))
                      /\ (Ahead(k)' => tuner'.bars[k] = tuned'[k])
                      /\ ((tuner'.step = "tune" /\ tuner'.key = k)
                             => tuner'.labels = EvidenceFor(k)')
    BY DEF LoweredIsSure
  <2> QED
    BY <1>2 DEF LearningOK, LoweredIsSure
<1> QED
  BY <1>1, <1>3, <1>4 DEF LearningOK

LEMMA AskedStays ==
    ASSUME AskedBelowTheBar, UNCHANGED <<asked, tuned, unheld>>
    PROVE  AskedBelowTheBar'
BY DEF AskedBelowTheBar, Clears, InForce

\* The tuning pass goes on without reading verdicts.
LEMMA TunerGoesOn ==
    ASSUME LearningOK, UNCHANGED <<evidence, tuned, since>>, TunerOK',
           tuner'.step # "tune",
           \A k \in Key : Ahead(k)' => Ahead(k) /\ tuner'.bars = tuner.bars
    PROVE  LearningOK'
<1>1. EvidenceOK' /\ RefusalsOnly'
  BY DEF LearningOK, EvidenceOK, RefusalsOnly
<1>2. InForce' = InForce /\ \A k \in Key : EvidenceFor(k)' = EvidenceFor(k)
  BY DEF InForce, EvidenceFor
<1>3. BarsAreCurrent' /\ ResetIsClean'
  BY <1>2 DEF LearningOK, BarsAreCurrent, ResetIsClean
<1>4. LoweredIsSure'
  <2> SUFFICES ASSUME NEW k \in Key, since'[k] = "lowered"
               PROVE  /\ tuned'[k] \in Least[k]..Most[k]
                      /\ Surely(From(EvidenceFor(k)', tuned'[k]))
                      /\ (Ahead(k)' => tuner'.bars[k] = tuned'[k])
    BY DEF LoweredIsSure
  <2> QED
    BY <1>2 DEF LearningOK, LoweredIsSure
<1> QED
  BY <1>1, <1>3, <1>4 DEF LearningOK

\* Items that are closed.
LEMMA Closing ==
    ASSUME ItemsOK, NEW ts, Close(ts)
    PROVE  /\ asked' \in [Target -> {"none", "low", "modality", "pair"}]
           /\ \A t \in Target : asked'[t] = IF t \in ts THEN "none" ELSE asked[t]
           /\ seen' \in [Pair -> {"no", "open", "gone"}] /\ gain' \in [Target -> 0..100]
           /\ \A p \in Pair : seen'[p] = "open" => asked'[p] # "none"
           /\ unheld' \subseteq Open'
<1>1. asked' \in [Target -> {"none", "low", "modality", "pair"}]
  BY DEF ItemsOK, Close
<1>2. \A t \in Target : asked'[t] = IF t \in ts THEN "none" ELSE asked[t]
  BY DEF ItemsOK, Close
<1>3. seen' \in [Pair -> {"no", "open", "gone"}] /\ gain' \in [Target -> 0..100]
  BY DEF ItemsOK, Close
<1>4. \A p \in Pair : seen'[p] = "open" => asked'[p] # "none"
  BY <1>2, TrayAssumption DEF ItemsOK, Close
<1>5. unheld' \subseteq Open'
  BY <1>2 DEF ItemsOK, Close, Open
<1> QED
  BY <1>1, <1>2, <1>3, <1>4, <1>5

LEMMA ClosingKeepsItems ==
    ASSUME ItemsOK, NEW ts, Close(ts), UNCHANGED <<claims, merged>>,
           different' \subseteq Pair
    PROVE  ItemsOK'
<1>1. \A t \in Target : asked'[t] = IF t \in ts THEN "none" ELSE asked[t]
  BY Closing
<1>2. /\ \A t \in Target : asked'[t] = "pair" => t \in Pair
      /\ \A u \in Claims : claims'[u] # "active" => asked'[u] = "none"
  BY <1>1 DEF ItemsOK, Claims
<1> QED
  BY <1>2, Closing DEF ItemsOK

LEMMA ClosingKeepsAsked ==
    ASSUME AskedBelowTheBar, ItemsOK, NEW ts, Close(ts), tuned' = tuned
    PROVE  AskedBelowTheBar'
<1>1. InForce' = InForce
  BY DEF InForce
<1>2. \A t \in Claims : asked'[t] = IF t \in ts THEN "none" ELSE asked[t]
  BY Closing DEF Claims
<1> QED
  BY <1>1, <1>2 DEF AskedBelowTheBar, Clears, Close

\* A verdict is heard.
LEMMA Judging ==
    ASSUME LearningOK, UNCHANGED <<tuned, tuner>>,
           NEW t \in Target, NEW k \in Key, NEW score \in 0..100, NEW keep \in BOOLEAN,
           k = "agree" => ~keep, Judge(t, k, score, keep)
    PROVE  LearningOK'
<1> DEFINE new == [target |-> t, key |-> k, score |-> score, keep |-> keep]
<1>1. new \in Label /\ new.target = t /\ new.key = k /\ new.keep = keep
  BY DEF Label
<1>2. evidence' = {l \in evidence : l.target # t \/ l.key # k} \cup {new}
  BY DEF Judge
<1> HIDE DEF new
<1>3. EvidenceOK'
  <2>1. since' \in [Key -> {"verdict", "lowered", "raised", "reset", "race"}]
    BY DEF LearningOK, EvidenceOK, Judge
  <2> QED
    BY <1>1, <1>2, <2>1 DEF LearningOK, EvidenceOK
<1>4. TunerOK'
  BY DEF LearningOK, TunerOK
<1>5. RefusalsOnly'
  BY <1>1, <1>2 DEF LearningOK, RefusalsOnly
<1>6. InForce' = InForce /\ \A j \in Key : Ahead(j)' = Ahead(j)
  BY DEF InForce, Ahead
<1>7. since'[k] = "verdict" /\ \A j \in Key \ {k} : since'[j] = since[j]
  BY DEF LearningOK, EvidenceOK, Judge
<1>8. \A j \in Key \ {k} : EvidenceFor(j)' = EvidenceFor(j)
  BY <1>1, <1>2 DEF EvidenceFor
<1>9. BarsAreCurrent' /\ ResetIsClean'
  BY <1>6, <1>7, <1>8 DEF LearningOK, BarsAreCurrent, ResetIsClean
<1>10. LoweredIsSure'
  <2> SUFFICES ASSUME NEW j \in Key, since'[j] = "lowered"
               PROVE  /\ tuned'[j] \in Least[j]..Most[j]
                      /\ Surely(From(EvidenceFor(j)', tuned'[j]))
                      /\ (Ahead(j)' => tuner'.bars[j] = tuned'[j])
                      /\ ((tuner'.step = "tune" /\ tuner'.key = j)
                             => tuner'.labels = EvidenceFor(j)')
    BY DEF LoweredIsSure
  <2>1. j \in Key \ {k}
    BY <1>7
  <2> QED
    BY <1>6, <1>7, <1>8, <2>1 DEF LearningOK, LoweredIsSure
<1> QED
  BY <1>3, <1>4, <1>5, <1>9, <1>10 DEF LearningOK

-----------------------------------------------------------------------------
\* The tuning pass.

LEMMA LoadBarsKeeps ==
    ASSUME TrayInv, LoadBars
    PROVE  TrayInv'
<1> USE DEF LoadBars, trayWorld
<1>1. ItemsOK' /\ ExtractorOK' /\ AskedBelowTheBar'
  BY ItemsStay, AskedStays DEF TrayInv, ExtractorOK
<1>2. IsBars(InForce) /\ InForce' = InForce
  BY BarsInForce DEF TrayInv, LearningOK, EvidenceOK, InForce
<1>3. EvidenceOK' /\ TunerOK' /\ RefusalsOnly' /\ ResetIsClean'
  BY <1>2 DEF TrayInv, LearningOK, EvidenceOK, TunerOK, RefusalsOnly, ResetIsClean, EvidenceFor, Key
<1>4. BarsAreCurrent'
  BY <1>2 DEF BarsAreCurrent
<1>5. LoweredIsSure'
  <2> SUFFICES ASSUME NEW k \in Key, since'[k] = "lowered"
               PROVE  /\ tuned[k] \in Least[k]..Most[k]
                      /\ Surely(From(EvidenceFor(k)', tuned[k]))
                      /\ InForce[k] = tuned[k]
    BY DEF LoweredIsSure
  <2>1. EvidenceFor(k)' = EvidenceFor(k) /\ since[k] = "lowered"
    BY DEF EvidenceFor
  <2> QED
    BY <2>1 DEF TrayInv, LearningOK, LoweredIsSure, InForce
<1> QED
  BY <1>1, <1>3, <1>4, <1>5 DEF TrayInv, LearningOK

LEMMA LoadLabelsKeeps ==
    ASSUME TrayInv, LoadLabels
    PROVE  TrayInv'
<1> USE DEF LoadLabels, trayWorld
<1>1. ItemsOK' /\ ExtractorOK' /\ AskedBelowTheBar'
  BY ItemsStay, AskedStays DEF TrayInv, ExtractorOK
<1>2. InForce' = InForce /\ \A k \in Key : EvidenceFor(k)' = EvidenceFor(k)
  BY DEF InForce, EvidenceFor
<1>3. EvidenceOK' /\ TunerOK'
  BY DEF TrayInv, LearningOK, EvidenceOK, TunerOK, EvidenceFor, IsBars
<1>4. RefusalsOnly'
  BY DEF TrayInv, LearningOK, RefusalsOnly, EvidenceFor
<1>5. \A k \in Key : (Ahead(k)' <=> Ahead(k)) /\ tuner'.bars = tuner.bars
  BY DEF Ahead
<1>6. BarsAreCurrent' /\ ResetIsClean'
  BY <1>2, <1>5 DEF TrayInv, LearningOK, BarsAreCurrent, ResetIsClean
<1>7. LoweredIsSure'
  <2> SUFFICES ASSUME NEW k \in Key, since'[k] = "lowered"
               PROVE  /\ tuned'[k] \in Least[k]..Most[k]
                      /\ Surely(From(EvidenceFor(k)', tuned'[k]))
                      /\ (Ahead(k)' => tuner'.bars[k] = tuned'[k])
                      /\ ((tuner'.step = "tune" /\ tuner'.key = k)
                             => tuner'.labels = EvidenceFor(k)')
    BY DEF LoweredIsSure
  <2> QED
    BY <1>2, <1>5 DEF TrayInv, LearningOK, LoweredIsSure
<1> QED
  BY <1>1, <1>3, <1>4, <1>6, <1>7 DEF TrayInv, LearningOK

\* What a step of tune_key does to the bar.
LEMMA Tuning ==
    ASSUME LearningOK, tuner.step = "tune"
    PROVE  LET k == tuner.key
               old == tuner.bars[k]
               new == Proposal(tuner.labels, old, k)
           IN  /\ k \in Key /\ tuner.labels \in SUBSET Label
               /\ old \in Least[k]..Most[k] /\ new \in Least[k]..Most[k] /\ new \in 0..100
               /\ (new > old => MustRaise(tuner.labels, old))
               /\ (new < old => new \in MayLower(tuner.labels, old, k))
               /\ (since[k] = "reset" => new = old)
               /\ (since[k] = "lowered" => old = tuned[k] /\ new <= old)
<1> DEFINE k == tuner.key
           old == tuner.bars[k]
           new == Proposal(tuner.labels, old, k)
<1>1. k \in Key /\ tuner.labels \in SUBSET Label /\ old \in Least[k]..Most[k]
  BY DEF LearningOK, TunerOK, IsBars
<1>2. /\ new \in Least[k]..Most[k]
      /\ new > old => MustRaise(tuner.labels, old)
      /\ new < old => new \in MayLower(tuner.labels, old, k)
  BY <1>1, Proposals
<1>3. new \in 0..100
  BY <1>1, <1>2, Bounds
<1>4. since[k] = "reset" => new = old
  <2> SUFFICES ASSUME since[k] = "reset" PROVE new = old
    OBVIOUS
  <2>1. tuner.labels = {}
    BY <1>1 DEF LearningOK, ResetIsClean
  <2> QED
    BY <2>1, NothingToTuneOn
<1>5. since[k] = "lowered" => old = tuned[k] /\ new <= old
  <2> SUFFICES ASSUME since[k] = "lowered" PROVE old = tuned[k] /\ new <= old
    OBVIOUS
  <2>1. /\ Surely(From(EvidenceFor(k), tuned[k]))
        /\ old = tuned[k] /\ tuner.labels = EvidenceFor(k)
    BY <1>1 DEF LearningOK, LoweredIsSure, Ahead
  <2>2. From(tuner.labels, old) \in SUBSET Label
    BY <1>1 DEF From
  <2>3. Precise(From(tuner.labels, old))
    BY <2>1, <2>2, SureIsPrecise
  <2>4. ~MustRaise(tuner.labels, old)
    BY <2>3 DEF MustRaise
  <2>5. ~(new > old)
    BY <1>2, <2>4
  <2> QED
    BY <1>1, <1>2, <2>1, <2>5, Bounds
<1> QED
  BY <1>1, <1>2, <1>3, <1>4, <1>5

LEMMA TuneKeyKeeps ==
    ASSUME TrayInv, TuneKey
    PROVE  TrayInv'
<1> DEFINE k == tuner.key
           old == tuner.bars[k]
           new == Proposal(tuner.labels, old, k)
           bars == [tuner.bars EXCEPT ![k] = new]
<1>1. /\ tuner.step = "tune"
      /\ tuned' = IF new = old THEN tuned ELSE [tuned EXCEPT ![k] = new]
      /\ tuner' = IF k = "admit" /\ new < old THEN [step |-> "drain", bars |-> bars]
                  ELSE NextKey(k, bars)
      /\ since' = IF new = old \/ tuner.labels # EvidenceFor(k) THEN since
                  ELSE [since EXCEPT ![k] = IF @ = "reset" THEN @
                                            ELSE IF new < old THEN "lowered" ELSE "raised"]
      /\ unheld' = IF k = "admit" /\ new # old THEN unheld \cup Clears(new) ELSE unheld
      /\ UNCHANGED <<claims, asked, seen, gain, merged, different, evidence, extractor>>
  BY DEF TuneKey, trayWorld
<1>2. /\ k \in Key /\ tuner.labels \in SUBSET Label
      /\ old \in Least[k]..Most[k] /\ new \in Least[k]..Most[k] /\ new \in 0..100
      /\ (new < old => new \in MayLower(tuner.labels, old, k))
      /\ (since[k] = "reset" => new = old)
      /\ (since[k] = "lowered" => old = tuned[k] /\ new <= old)
  BY <1>1, Tuning DEF TrayInv
<1>3. IsBars(tuner.bars) /\ IsBars(bars) /\ \A j \in Key \ {k} : bars[j] = tuner.bars[j]
  BY <1>1, <1>2 DEF TrayInv, LearningOK, TunerOK, IsBars
<1> HIDE DEF new, old, bars
<1>4. \A j \in Key : EvidenceFor(j)' = EvidenceFor(j)
  BY <1>1 DEF EvidenceFor
<1>5. tuned' \in [Key -> 0..100] /\ \A j \in Key \ {k} : tuned'[j] = tuned[j]
  BY <1>1, <1>2 DEF TrayInv, LearningOK, EvidenceOK
<1>6. /\ since' \in [Key -> {"verdict", "lowered", "raised", "reset", "race"}]
      /\ \A j \in Key \ {k} : since'[j] = since[j]
  BY <1>1, <1>2 DEF TrayInv, LearningOK, EvidenceOK
<1>7. EvidenceOK'
  BY <1>1, <1>5, <1>6 DEF TrayInv, LearningOK, EvidenceOK
<1>8. /\ tuner'.step \in {"labels", "drain", "rank"} /\ tuner'.bars = bars
      /\ (tuner'.step = "labels" => tuner'.key = KeyAfter(k) /\ KeyAfter(k) \in Key)
      /\ (tuner'.step = "drain" => k = "admit")
      /\ (tuner'.step = "rank"
            => tuner' = [step |-> "rank", bars |-> tuner'.bars, from |-> tuner'.from])
  BY <1>1, <1>2 DEF NextKey, KeyAfter, Key
<1>9. TunerOK'
  BY <1>3, <1>8 DEF TunerOK
<1>10. \A j \in Key : Ahead(j)' => Ahead(j) /\ j # k
  BY <1>1, <1>2, <1>8 DEF Ahead, KeyAfter, Key
<1>11. RefusalsOnly'
  BY <1>1, <1>8 DEF TrayInv, LearningOK, RefusalsOnly
<1>12. BarsAreCurrent'
  <2>1. \A j \in Key \ {k} : InForce'[j] = InForce[j]
    BY <1>5 DEF InForce
  <2> QED
    BY <1>3, <1>5, <1>8, <1>10, <2>1 DEF TrayInv, LearningOK, BarsAreCurrent
<1>13. ResetIsClean'
  <2> SUFFICES ASSUME NEW j \in Key, since'[j] = "reset"
               PROVE  tuned'[j] = NotTuned /\ EvidenceFor(j)' = {}
    BY <1>8 DEF ResetIsClean
  <2>1. since[j] = "reset"
    BY <1>1, <1>2, <1>6 DEF TrayInv, LearningOK, EvidenceOK
  <2>2. tuned'[j] = tuned[j]
    BY <1>1, <1>2, <1>5, <2>1
  <2> QED
    BY <1>4, <2>1, <2>2 DEF TrayInv, LearningOK, ResetIsClean
<1>14. LoweredIsSure'
  <2> SUFFICES ASSUME NEW j \in Key, since'[j] = "lowered"
               PROVE  /\ tuned'[j] \in Least[j]..Most[j]
                      /\ Surely(From(EvidenceFor(j)', tuned'[j]))
                      /\ (Ahead(j)' => tuner'.bars[j] = tuned'[j])
    BY <1>8 DEF LoweredIsSure
  <2>1. CASE j # k
    <3>1. since[j] = "lowered" /\ tuned'[j] = tuned[j] /\ bars[j] = tuner.bars[j]
      BY <1>3, <1>5, <1>6, <2>1
    <3>2. /\ tuned[j] \in Least[j]..Most[j] /\ Surely(From(EvidenceFor(j), tuned[j]))
          /\ (Ahead(j) => tuner.bars[j] = tuned[j])
      BY <3>1 DEF TrayInv, LearningOK, LoweredIsSure
    <3> QED
      BY <1>4, <1>8, <1>10, <3>1, <3>2
  <2>2. CASE j = k /\ new = old
    <3>1. since[k] = "lowered" /\ tuned' = tuned
      BY <1>1, <2>2
    <3> QED
      BY <1>2, <1>4, <1>10, <2>2, <3>1 DEF TrayInv, LearningOK, LoweredIsSure
  <2>3. CASE j = k /\ new # old
    <3>1. tuned'[k] = new
      BY <1>1, <1>2, <2>3 DEF TrayInv, LearningOK, EvidenceOK
    <3>2. tuner.labels = EvidenceFor(k) /\ new < old
      <4>1. CASE tuner.labels # EvidenceFor(k)
        <5>1. since[k] = "lowered"
          BY <1>1, <2>3, <4>1
        <5> QED
          BY <1>1, <1>2, <4>1, <5>1 DEF TrayInv, LearningOK, LoweredIsSure
      <4>2. CASE tuner.labels = EvidenceFor(k)
        <5>1. since'[k] = IF since[k] = "reset" THEN since[k]
                          ELSE IF new < old THEN "lowered" ELSE "raised"
          BY <1>1, <1>2, <2>3, <4>2 DEF TrayInv, LearningOK, EvidenceOK
        <5> QED
          BY <2>3, <4>2, <5>1
      <4> QED
        BY <4>1, <4>2
    <3>3. Surely(From(tuner.labels, new))
      BY <1>2, <3>2 DEF MayLower
    <3> QED
      BY <1>2, <1>4, <1>10, <2>3, <3>1, <3>2, <3>3
  <2> QED
    BY <2>1, <2>2, <2>3
<1>15. ItemsOK'
  BY <1>1 DEF TrayInv, ItemsOK, Open, Clears, Claims
<1>16. AskedBelowTheBar'
  <2>1. CASE k = "admit" /\ new # old
    <3>1. tuned'["admit"] = new /\ InForce'["admit"] = new
      BY <1>1, <1>2, <2>1 DEF TrayInv, LearningOK, EvidenceOK, InForce, Key
    <3>2. Clears(InForce["admit"])' = Clears(new)
      BY <1>1, <3>1 DEF Clears
    <3> QED
      BY <1>1, <2>1, <3>2 DEF AskedBelowTheBar
  <2>2. CASE ~(k = "admit" /\ new # old)
    <3>1. tuned'["admit"] = tuned["admit"] /\ unheld' = unheld
      BY <1>1, <1>2, <2>2 DEF TrayInv, LearningOK, EvidenceOK, Key
    <3>2. InForce'["admit"] = InForce["admit"]
      BY <3>1 DEF InForce, Key
    <3> QED
      BY <1>1, <3>1, <3>2 DEF TrayInv, AskedBelowTheBar, Clears
  <2> QED
    BY <2>1, <2>2
<1>17. ExtractorOK'
  BY <1>1 DEF TrayInv, ExtractorOK
<1> QED
  BY <1>7, <1>9, <1>11, <1>12, <1>13, <1>14, <1>15, <1>16, <1>17 DEF TrayInv, LearningOK

LEMMA DrainKeeps ==
    ASSUME TrayInv, Drain
    PROVE  TrayInv'
<1> DEFINE bar == tuner.bars["admit"]
<1>1. bar \in Int /\ InForce["admit"] \in Int
  BY BarsInForce DEF Drain, TrayInv, LearningOK, EvidenceOK, TunerOK, IsBars, Key
<1>2. \A t \in Target : asked'[t] = IF t \in Clears(bar) THEN "none" ELSE asked[t]
  BY DEF Drain, Drained
<1>3. ItemsOK'
  <2>1. asked' \in [Target -> {"none", "low", "modality", "pair"}] /\ gain' \in [Target -> 0..100]
    BY DEF Drain, Drained, TrayInv, ItemsOK
  <2>2. \A p \in Pair : seen'[p] = "open" => asked'[p] # "none"
    BY <1>2, TrayAssumption DEF Drain, Clears, Claims, TrayInv, ItemsOK
  <2>3. unheld' \subseteq Open'
    BY <1>2 DEF Drain, Drained, Open, TrayInv, ItemsOK
  <2>4. /\ \A t \in Target : asked'[t] = "pair" => t \in Pair
        /\ \A u \in Claims : claims'[u] # "active" => asked'[u] = "none"
    BY <1>2 DEF Drain, TrayInv, ItemsOK, Claims
  <2> QED
    BY <2>1, <2>2, <2>3, <2>4 DEF Drain, TrayInv, ItemsOK
<1>4. LearningOK'
  <2>1. tuner' = [step |-> "labels", key |-> "single", bars |-> tuner.bars] /\ tuner.step = "drain"
    BY DEF Drain, NextKey, KeyAfter
  <2>2. TunerOK'
    BY <2>1 DEF TunerOK, TrayInv, LearningOK, Key
  <2>3. \A k \in Key : Ahead(k)' => Ahead(k) /\ tuner'.bars = tuner.bars
    BY <2>1 DEF Ahead, Key
  <2> QED
    BY <2>1, <2>2, <2>3, TunerGoesOn DEF Drain, TrayInv
<1>5. AskedBelowTheBar'
  <2>1. InForce' = InForce
    BY DEF Drain, InForce
  <2>2. Clears(InForce["admit"])' = Clears(InForce["admit"]) \ Clears(bar)
    BY <1>2, <2>1 DEF Clears, Claims
  <2>3. InForce["admit"] >= bar => Clears(InForce["admit"]) \subseteq Clears(bar)
    BY <1>1, Scores DEF Clears
  <2> QED
    BY <2>1, <2>2, <2>3 DEF Drain, Drained, TrayInv, AskedBelowTheBar
<1> QED
  BY <1>3, <1>4, <1>5 DEF Drain, TrayInv, ExtractorOK

LEMMA RescoreKeeps ==
    ASSUME TrayInv, Rescore
    PROVE  TrayInv'
<1>1. IsBars(tuner.bars) /\ tuner.step = "rank"
  BY DEF Rescore, TrayInv, LearningOK, TunerOK
<1>2. ItemsOK'
  <2>1. gain' \in [Target -> 0..100]
    BY <1>1, Gains DEF Rescore, TrayInv, ItemsOK
  <2> QED
    BY <2>1 DEF Rescore, TrayInv, ItemsOK, Open
<1>3. LearningOK'
  <2>1. \/ tuner' = NoPassYet
        \/ \E n : tuner' = [step |-> "rank", bars |-> tuner.bars, from |-> n]
    <3> DEFINE n == tuner'.from
    <3>1. tuner = [step |-> "rank", bars |-> tuner.bars, from |-> tuner.from]
      BY <1>1 DEF TrayInv, LearningOK, TunerOK
    <3>2. \A x : [tuner EXCEPT !.from = x] = [step |-> "rank", bars |-> tuner.bars, from |-> x]
      BY <3>1
    <3> QED
      BY <3>2 DEF Rescore
  <2>2. TunerOK' /\ tuner'.step # "tune" /\ \A k \in Key : ~Ahead(k)'
    BY <1>1, <2>1 DEF TunerOK, NoPassYet, Ahead
  <2> QED
    BY <2>2, TunerGoesOn DEF Rescore, TrayInv
<1>4. AskedBelowTheBar' /\ ExtractorOK'
  BY AskedStays DEF Rescore, TrayInv, ExtractorOK
<1> QED
  BY <1>2, <1>3, <1>4 DEF TrayInv

-----------------------------------------------------------------------------
\* Extraction and resolution.

LEMMA TrimTrayKeeps ==
    ASSUME TrayInv, TrimTray
    PROVE  TrayInv'
<1>1. PICK kept : Close(Optional \ kept)
  BY DEF TrimTray
<1>2. ItemsOK' /\ AskedBelowTheBar'
  BY <1>1, ClosingKeepsItems, ClosingKeepsAsked DEF TrimTray, TrayInv, ItemsOK
<1> QED
  BY <1>2, LearningStays DEF TrimTray, TrayInv, ExtractorOK

LEMMA ReadingKeeps ==
    ASSUME TrayInv, LoadBar \/ EndReading
    PROVE  TrayInv'
<1>1. InForce["admit"] \in Int
  BY BarsInForce DEF TrayInv, LearningOK, EvidenceOK, IsBars, Key
<1>2. ExtractorOK'
  BY <1>1 DEF LoadBar, EndReading, NoPassYet, ExtractorOK
<1> QED
  BY <1>2, ItemsStay, LearningStays, AskedStays DEF LoadBar, EndReading, trayWorld, TrayInv

LEMMA AdmitKeeps ==
    ASSUME TrayInv, NEW u \in Claims, Admit(u)
    PROVE  TrayInv'
<1>1. /\ asked[u] = "none" /\ u \in Target /\ u \notin Pair
      /\ extractor.bar \in Int /\ InForce["admit"] \in Int /\ Score[u] \in Int
  <2>1. IsBars(InForce)
    BY BarsInForce DEF TrayInv, LearningOK, EvidenceOK
  <2>2. claims[u] = "unread" /\ extractor.step = "read"
    BY DEF Admit
  <2> QED
    BY <2>1, <2>2, Scores DEF TrayInv, ItemsOK, ExtractorOK, IsBars, Key, Claims
<1>2. CASE UNCHANGED <<asked, unheld>>
  <2>1. ItemsOK'
    BY <1>1, <1>2 DEF Admit, TrayInv, ItemsOK, Open
  <2> QED
    BY <1>2, <2>1, LearningStays, AskedStays DEF Admit, TrayInv, ExtractorOK
<1>3. CASE /\ Score[u] >= DropBelow /\ (Score[u] < extractor.bar \/ u \in Ambiguous)
           /\ asked' = [asked EXCEPT ![u] = IF u \in Ambiguous THEN "modality" ELSE "low"]
           /\ unheld' = IF extractor.bar > InForce["admit"] THEN unheld \cup {u} ELSE unheld
  <2>1. asked' \in [Target -> {"none", "low", "modality", "pair"}]
    BY <1>1, <1>3 DEF TrayInv, ItemsOK
  <2>2. asked'[u] \in {"modality", "low"} /\ \A t \in Target \ {u} : asked'[t] = asked[t]
    BY <1>1, <1>3 DEF TrayInv, ItemsOK
  <2>3. claims' = [claims EXCEPT ![u] = "active"]
    <3>1. ~(Score[u] < DropBelow)
      BY <1>1, <1>3, Scores
    <3> QED
      BY <3>1 DEF Admit
  <2>4. ItemsOK'
    <3>1. claims' \in [Claims -> {"unread", "active", "retracted"}]
      BY <2>3 DEF TrayInv, ItemsOK
    <3>2. unheld' \subseteq Open'
      BY <1>1, <1>3, <2>2 DEF TrayInv, ItemsOK, Open
    <3>3. \A v \in Claims : claims'[v] # "active" => asked'[v] = "none"
      BY <2>2, <2>3 DEF TrayInv, ItemsOK, Claims
    <3>4. /\ \A t \in Target : asked'[t] = "pair" => t \in Pair
          /\ \A p \in Pair : seen[p] = "open" => asked'[p] # "none"
      BY <1>1, <2>2, TrayAssumption DEF TrayInv, ItemsOK
    <3> QED
      BY <2>1, <3>1, <3>2, <3>3, <3>4 DEF Admit, TrayInv, ItemsOK
  <2>5. AskedBelowTheBar'
    <3>1. InForce' = InForce
      BY DEF Admit, InForce
    <3>2. u \in Clears(InForce["admit"])' => extractor.bar > InForce["admit"]
      BY <1>1, <1>3, <2>2, <3>1 DEF Clears, TrayInv, ItemsOK
    <3>3. Clears(InForce["admit"])' \subseteq Clears(InForce["admit"]) \cup {u}
      BY <2>2, <3>1 DEF Clears, Claims
    <3> QED
      BY <1>3, <3>1, <3>2, <3>3 DEF TrayInv, AskedBelowTheBar
  <2> QED
    BY <2>4, <2>5, LearningStays DEF Admit, TrayInv, ExtractorOK
<1> QED
  BY <1>2, <1>3 DEF Admit

LEMMA DecidePairKeeps ==
    ASSUME TrayInv, NEW p \in Pair, DecidePair(p)
    PROVE  TrayInv'
<1>1. asked' = asked \/ asked' = [asked EXCEPT ![p] = "pair"]
  BY DEF DecidePair
<1>2. p \in Target /\ Gate(p, resolver.bars) \in {"single", "agree", "none"}
  BY TrayAssumption DEF Gate
<1>3. merged' \in [Pair -> {"apart", "single", "agree"}]
  BY <1>2 DEF DecidePair, TrayInv, ItemsOK
<1>4. /\ asked' \in [Target -> {"none", "low", "modality", "pair"}]
      /\ \A t \in Target : asked'[t] = asked[t] \/ (t = p /\ asked'[t] = "pair")
  BY <1>1, <1>2 DEF TrayInv, ItemsOK
<1>5. ItemsOK'
  <2>1. unheld' \subseteq Open'
    BY <1>4 DEF DecidePair, TrayInv, ItemsOK, Open
  <2>2. /\ \A t \in Target : asked'[t] = "pair" => t \in Pair
        /\ \A u \in Claims : claims'[u] # "active" => asked'[u] = "none"
        /\ \A q \in Pair : seen[q] = "open" => asked'[q] # "none"
    BY <1>4, TrayAssumption DEF DecidePair, TrayInv, ItemsOK, Claims
  <2> QED
    BY <1>3, <1>4, <2>1, <2>2 DEF DecidePair, TrayInv, ItemsOK
<1>6. AskedBelowTheBar'
  <2>1. InForce' = InForce
    BY DEF DecidePair, InForce
  <2> QED
    BY <1>4, <2>1 DEF DecidePair, TrayInv, AskedBelowTheBar, Clears, Claims
<1> QED
  BY <1>5, <1>6, LearningStays DEF DecidePair, TrayInv, ExtractorOK

LEMMA ResolvingKeeps ==
    ASSUME TrayInv, LoadPairs \/ EndResolving
    PROVE  TrayInv'
<1>1. CASE LoadPairs
  BY <1>1, ItemsStay, LearningStays, AskedStays DEF LoadPairs, trayWorld, TrayInv, ExtractorOK
<1>2. CASE EndResolving
  <2>1. ItemsOK' /\ AskedBelowTheBar'
    BY <1>2, ClosingKeepsItems, ClosingKeepsAsked DEF EndResolving, TrayInv, ItemsOK
  <2> QED
    BY <1>2, <2>1, LearningStays DEF EndResolving, TrayInv, ExtractorOK
<1> QED
  BY <1>1, <1>2

-----------------------------------------------------------------------------
\* People.

LEMMA VerdictOnClaimKeeps ==
    ASSUME TrayInv, NEW u \in Judged, ConfirmUnit(u) \/ RejectUnit(u) \/ RestoreUnit(u)
    PROVE  TrayInv'
<1>1. u \in Claims /\ u \in Target /\ Score[u] \in 0..100
  BY TrayAssumption, Scores DEF Claims
<1>2. PICK keep \in BOOLEAN : Judge(u, "admit", Score[u], keep)
  BY DEF ConfirmUnit, RejectUnit, RestoreUnit
<1>3. Close({u}) /\ UNCHANGED <<merged, different, tuned, tuner, extractor>>
  BY DEF ConfirmUnit, RejectUnit, RestoreUnit
<1>4. LearningOK'
  BY <1>1, <1>2, <1>3, Judging DEF TrayInv, Key
<1>5. ItemsOK'
  <2>1. \A t \in Target : asked'[t] = IF t = u THEN "none" ELSE asked[t]
    BY <1>3, Closing DEF TrayInv
  <2>2. /\ claims' \in [Claims -> {"unread", "active", "retracted"}]
        /\ \A v \in Claims \ {u} : claims'[v] = claims[v]
    BY <1>1 DEF ConfirmUnit, RejectUnit, RestoreUnit, TrayInv, ItemsOK
  <2>3. /\ \A t \in Target : asked'[t] = "pair" => t \in Pair
        /\ \A v \in Claims : claims'[v] # "active" => asked'[v] = "none"
    BY <2>1, <2>2 DEF TrayInv, ItemsOK, Claims
  <2> QED
    BY <1>3, <2>2, <2>3, Closing DEF TrayInv, ItemsOK
<1>6. AskedBelowTheBar'
  BY <1>3, ClosingKeepsAsked DEF TrayInv
<1> QED
  BY <1>3, <1>4, <1>5, <1>6 DEF TrayInv, ExtractorOK

LEMMA ReadItemKeeps ==
    ASSUME TrayInv, NEW p \in Pair, ReadItem(p)
    PROVE  TrayInv'
<1>1. ItemsOK'
  BY DEF ReadItem, TrayInv, ItemsOK, Open
<1> QED
  BY <1>1, LearningStays, AskedStays DEF ReadItem, TrayInv, ExtractorOK

\* An item read earlier is closed.
LEMMA ClosingRead ==
    ASSUME TrayInv, NEW p \in Pair, CloseRead(p), tuned' = tuned, claims' = claims,
           merged' \in [Pair -> {"apart", "single", "agree"}], different' \subseteq Pair
    PROVE  ItemsOK' /\ AskedBelowTheBar'
<1>1. p \in Target /\ p \notin Claims
  BY TrayAssumption DEF Claims
<1>2. /\ asked' \in [Target -> {"none", "low", "modality", "pair"}]
      /\ \A t \in Target : asked'[t] = IF t = p /\ seen[p] = "open" THEN "none" ELSE asked[t]
      /\ gain' \in [Target -> 0..100]
  BY <1>1 DEF CloseRead, TrayInv, ItemsOK
<1>3. /\ seen' \in [Pair -> {"no", "open", "gone"}]
      /\ \A q \in Pair : seen'[q] = IF q = p THEN "no" ELSE seen[q]
  BY DEF CloseRead, TrayInv, ItemsOK
<1>4. /\ \A t \in Target : asked'[t] = "pair" => t \in Pair
      /\ \A u \in Claims : claims'[u] # "active" => asked'[u] = "none"
      /\ \A q \in Pair : seen'[q] = "open" => asked'[q] # "none"
  BY <1>2, <1>3, TrayAssumption DEF TrayInv, ItemsOK, Claims
<1>5. unheld' \subseteq Open'
  BY <1>2 DEF CloseRead, TrayInv, ItemsOK, Open
<1>6. ItemsOK'
  BY <1>2, <1>3, <1>4, <1>5 DEF TrayInv, ItemsOK
<1>7. AskedBelowTheBar'
  <2>1. InForce' = InForce
    BY DEF InForce
  <2>2. Clears(InForce["admit"])' = Clears(InForce["admit"]) /\ p \notin Clears(InForce["admit"])
    BY <1>1, <1>2, <2>1 DEF Clears, Claims
  <2> QED
    BY <2>1, <2>2 DEF CloseRead, TrayInv, AskedBelowTheBar
<1> QED
  BY <1>6, <1>7

LEMMA VerdictOnPairKeeps ==
    ASSUME TrayInv, NEW p \in Pair, AcceptPair(p) \/ RejectPair(p)
    PROVE  TrayInv'
<1>1. p \in Target /\ Best(p) \in 0..100 /\ "single" \in Key
  BY TrayAssumption, Scores DEF Key
<1>2. CASE AcceptPair(p)
  <2>1. merged' \in [Pair -> {"apart", "single", "agree"}] /\ different' \subseteq Pair
    BY <1>2 DEF AcceptPair, TrayInv, ItemsOK
  <2>2. ItemsOK' /\ AskedBelowTheBar'
    BY <1>2, <2>1, ClosingRead DEF AcceptPair
  <2>3. LearningOK'
    <3>1. CASE merged[p] = "apart"
      BY <1>1, <1>2, <3>1, Judging DEF AcceptPair, TrayInv
    <3>2. CASE merged[p] # "apart"
      BY <1>2, <3>2, LearningStays DEF AcceptPair, TrayInv
    <3> QED
      BY <3>1, <3>2
  <2> QED
    BY <1>2, <2>2, <2>3 DEF AcceptPair, TrayInv, ExtractorOK
<1>3. CASE RejectPair(p)
  <2>1. merged' \in [Pair -> {"apart", "single", "agree"}] /\ different' \subseteq Pair
    BY <1>3 DEF RejectPair, TrayInv, ItemsOK
  <2>2. ItemsOK' /\ AskedBelowTheBar'
    BY <1>3, <2>1, ClosingRead DEF RejectPair
  <2>3. LearningOK'
    BY <1>1, <1>3, Judging DEF RejectPair, TrayInv
  <2> QED
    BY <1>3, <2>2, <2>3 DEF RejectPair, TrayInv, ExtractorOK
<1> QED
  BY <1>2, <1>3

LEMMA UndoMergeKeeps ==
    ASSUME TrayInv, NEW p \in Pair, UndoMerge(p)
    PROVE  TrayInv'
<1> DEFINE score == IF merged[p] = "single" THEN Best(p) ELSE Weaker(p)
<1>1. p \in Target /\ score \in 0..100 /\ merged[p] \in Key
  BY TrayAssumption, Scores DEF UndoMerge, TrayInv, ItemsOK, Key
<1>2. Judge(p, merged[p], score, FALSE) /\ UNCHANGED <<tuned, tuner>>
  BY DEF UndoMerge
<1> HIDE DEF score
<1>3. LearningOK'
  BY <1>1, <1>2, Judging DEF TrayInv
<1>4. ItemsOK'
  BY DEF UndoMerge, TrayInv, ItemsOK, Open
<1> QED
  BY <1>3, <1>4, AskedStays DEF UndoMerge, TrayInv, ExtractorOK

LEMMA CloseItemKeeps ==
    ASSUME TrayInv, NEW t \in Target, CloseItem(t)
    PROVE  TrayInv'
<1>1. ItemsOK' /\ AskedBelowTheBar'
  BY ClosingKeepsItems, ClosingKeepsAsked DEF CloseItem, TrayInv, ItemsOK
<1> QED
  BY <1>1, LearningStays DEF CloseItem, TrayInv, ExtractorOK

LEMMA ResetBarKeeps ==
    ASSUME TrayInv, NEW k \in Key, ResetBar(k)
    PROVE  TrayInv'
<1>1. /\ tuned' = [tuned EXCEPT ![k] = 0]
      /\ evidence' = {l \in evidence : l.key # k}
      /\ since' = [since EXCEPT ![k] =
                     IF tuner.step = "tune" /\ tuner.key = k THEN "race" ELSE "reset"]
      /\ UNCHANGED <<claims, asked, seen, gain, merged, different, tuner, extractor>>
  BY DEF ResetBar, AfterReset, NotTuned, trayWorld
<1>2. EvidenceOK' /\ TunerOK' /\ RefusalsOnly'
  BY <1>1 DEF TrayInv, LearningOK, EvidenceOK, TunerOK, RefusalsOnly
<1>3. /\ tuned'[k] = 0 /\ EvidenceFor(k)' = {} /\ since'[k] # "lowered"
      /\ \A j \in Key \ {k} : /\ tuned'[j] = tuned[j] /\ since'[j] = since[j]
                              /\ EvidenceFor(j)' = EvidenceFor(j) /\ InForce'[j] = InForce[j]
      /\ \A j \in Key : Ahead(j)' = Ahead(j)
  BY <1>1 DEF TrayInv, LearningOK, EvidenceOK, EvidenceFor, InForce, Ahead
<1>4. BarsAreCurrent'
  BY <1>1, <1>3 DEF TrayInv, LearningOK, BarsAreCurrent, NotTuned
<1>5. ResetIsClean'
  <2> SUFFICES ASSUME NEW j \in Key, since'[j] = "reset"
               PROVE  /\ tuned'[j] = NotTuned /\ EvidenceFor(j)' = {}
                      /\ ((tuner'.step = "tune" /\ tuner'.key = j) => tuner'.labels = {})
    BY DEF ResetIsClean
  <2>1. CASE j = k
    BY <1>1, <1>3, <2>1 DEF NotTuned, TrayInv, LearningOK, EvidenceOK
  <2>2. CASE j # k
    BY <1>1, <1>3, <2>2 DEF TrayInv, LearningOK, ResetIsClean
  <2> QED
    BY <2>1, <2>2
<1>6. LoweredIsSure'
  <2> SUFFICES ASSUME NEW j \in Key, since'[j] = "lowered"
               PROVE  /\ tuned'[j] \in Least[j]..Most[j]
                      /\ Surely(From(EvidenceFor(j)', tuned'[j]))
                      /\ (Ahead(j)' => tuner'.bars[j] = tuned'[j])
                      /\ ((tuner'.step = "tune" /\ tuner'.key = j)
                             => tuner'.labels = EvidenceFor(j)')
    BY DEF LoweredIsSure
  <2>1. j \in Key \ {k}
    BY <1>3
  <2> QED
    BY <1>1, <1>3, <2>1 DEF TrayInv, LearningOK, LoweredIsSure
<1>7. ItemsOK'
  BY <1>1 DEF ResetBar, TrayInv, ItemsOK, Open, Clears, Claims
<1>8. AskedBelowTheBar'
  <2>1. CASE k = "admit"
    <3>1. InForce'["admit"] = Default["admit"]
      BY <1>3, <2>1, Bounds DEF InForce, Key
    <3> QED
      BY <1>1, <2>1, <3>1 DEF ResetBar, AskedBelowTheBar, Clears
  <2>2. CASE k # "admit"
    <3>1. InForce'["admit"] = InForce["admit"] /\ unheld' = unheld
      BY <1>3, <2>2 DEF ResetBar, Key
    <3> QED
      BY <1>1, <3>1 DEF TrayInv, AskedBelowTheBar, Clears
  <2> QED
    BY <2>1, <2>2
<1> QED
  BY <1>1, <1>2, <1>4, <1>5, <1>6, <1>7, <1>8 DEF TrayInv, LearningOK, ExtractorOK

LEMMA StopPassesKeeps ==
    ASSUME TrayInv, StopPasses
    PROVE  TrayInv'
<1>1. TunerOK' /\ tuner'.step = "idle" /\ ExtractorOK' /\ \A k \in Key : ~Ahead(k)'
  BY DEF StopPasses, NoPassYet, TunerOK, ExtractorOK, Ahead
<1>2. LearningOK'
  BY <1>1, TunerGoesOn DEF StopPasses, TrayInv
<1> QED
  BY <1>1, <1>2, ItemsStay, AskedStays DEF StopPasses, trayWorld, TrayInv

-----------------------------------------------------------------------------
LEMMA InitTray == TrayInit => TrayInv
<1> SUFFICES ASSUME TrayInit PROVE TrayInv
  OBVIOUS
<1>1. PICK lib \in Library :
        /\ claims = [u \in Claims |-> IF u \in lib.unread THEN "unread" ELSE "active"]
        /\ asked = lib.asked /\ evidence = lib.evidence /\ tuned = lib.tuned
        /\ seen = [p \in Pair |-> "no"] /\ gain = [t \in Target |-> 0]
        /\ merged = lib.merged /\ different = lib.different
        /\ tuner = NoPassYet /\ extractor = NoPassYet
        /\ since = [k \in Key |-> "verdict"] /\ unheld = {t \in Target : asked[t] # "none"}
  BY DEF TrayInit
<1>2. /\ lib.asked \in [Target -> {"none", "low", "modality", "pair"}]
      /\ lib.evidence \subseteq Label /\ lib.tuned \in [Key -> 0..100]
      /\ lib.merged \in [Pair -> {"apart", "single", "agree"}] /\ lib.different \subseteq Pair
  BY TrayAssumption
<1>3. /\ \A t \in Target : lib.asked[t] = "pair" => t \in Pair
      /\ \A u \in lib.unread : lib.asked[u] = "none"
      /\ \A k, l \in lib.evidence : k.target = l.target /\ k.key = l.key => k = l
      /\ \A l \in lib.evidence : l.key = "agree" => ~l.keep
  BY LibraryAssumption
<1>4. ItemsOK
  BY <1>1, <1>2, <1>3 DEF ItemsOK, Open
<1>5. LearningOK
  BY <1>1, <1>2, <1>3
     DEF LearningOK, EvidenceOK, TunerOK, RefusalsOnly, BarsAreCurrent, LoweredIsSure, ResetIsClean,
         Ahead, NoPassYet
<1>6. AskedBelowTheBar /\ ExtractorOK
  BY <1>1 DEF AskedBelowTheBar, Clears, Claims, ExtractorOK, NoPassYet
<1> QED
  BY <1>4, <1>5, <1>6 DEF TrayInv

LEMMA TrayStep == TrayInv /\ [TrayNext]_trayVars => TrayInv'
<1> SUFFICES ASSUME TrayInv, [TrayNext]_trayVars PROVE TrayInv'
  OBVIOUS
<1>1. CASE TuningPass
  BY <1>1, LoadBarsKeeps, LoadLabelsKeeps, TuneKeyKeeps, DrainKeeps, RescoreKeeps DEF TuningPass
<1>2. CASE ReadingPass
  BY <1>2, TrimTrayKeeps, ReadingKeeps, AdmitKeeps DEF ReadingPass
<1>3. CASE LoadPairs \/ EndResolving \/ StopPasses
  BY <1>3, ResolvingKeeps, StopPassesKeeps
<1>4. CASE \E u \in Judged : ConfirmUnit(u) \/ RejectUnit(u) \/ RestoreUnit(u)
  BY <1>4, VerdictOnClaimKeeps
<1>5. CASE \E p \in Pair : \/ DecidePair(p) \/ ReadItem(p) \/ AcceptPair(p) \/ RejectPair(p)
                           \/ UndoMerge(p)
  BY <1>5, DecidePairKeeps, ReadItemKeeps, VerdictOnPairKeeps, UndoMergeKeeps
<1>6. CASE \E t \in Target : CloseItem(t)
  BY <1>6, CloseItemKeeps
<1>7. CASE \E k \in Key : ResetBar(k)
  BY <1>7, ResetBarKeeps
<1>8. CASE UNCHANGED trayVars
  BY <1>8, ItemsStay, LearningStays, AskedStays DEF trayVars, TrayInv, ExtractorOK
<1> QED
  BY <1>1, <1>2, <1>3, <1>4, <1>5, <1>6, <1>7, <1>8 DEF TrayNext

\* The bars are what verdicts and resets made of them, a bar that was reset
\* stays at its default, and nobody is asked about a claim that the bar in
\* force lets pass (tune_thresholds, reset_tuning_core, persist_chunk_units).
THEOREM TraySound == TraySpec => []TrayIsSound
<1>1. TrayInv /\ [TrayNext]_trayVars => TrayInv'
  BY TrayStep
<1>2. TrayInv => TrayIsSound
  BY DEF TrayInv, ItemsOK, LearningOK, EvidenceOK, ResetIsClean, TrayIsSound, TrayTypeOK,
         ResetIsDurable
<1> QED
  BY InitTray, <1>1, <1>2, PTL DEF TraySpec

-----------------------------------------------------------------------------
\* How the bars and the tray move.

\* The steps the three properties of TrayIsTuned allow.
TrayWithinCap ==
    Cardinality(Optional') > Cardinality(Optional) => Cardinality(Optional') <= OptionalCap
NoneLoosened == TuneKey => \A k \in Key : since[k] = "lowered" => tuned'[k] <= tuned[k]
AgreeTightened == TuneKey => InForce'["agree"] >= InForce["agree"]

LEMMA CountOptional ==
    ASSUME NEW kept \in SUBSET Optional
    PROVE  /\ IsFiniteSet(Optional) /\ Cardinality(Optional) \in Nat
           /\ Cardinality(kept) \in Nat /\ Cardinality(kept) <= Cardinality(Optional)
<1>1. IsFiniteSet(Optional)
  <2>1. Optional \in SUBSET Target
    BY DEF Optional
  <2> QED
    BY <2>1, FS_Subset, TrayAssumption
<1>2. IsFiniteSet(kept) /\ Cardinality(kept) <= Cardinality(Optional)
  BY <1>1, FS_Subset
<1> QED
  BY <1>1, <1>2, FS_CardinalityType

LEMMA CapStep == TrayInv /\ [TrayNext]_trayVars => TrayWithinCap
<1> SUFFICES ASSUME TrayInv, [TrayNext]_trayVars PROVE TrayWithinCap
  OBVIOUS
<1>1. CASE \E u \in Claims : Admit(u)
  <2>1. PICK u \in Claims : Admit(u)
    BY <1>1
  <2>2. CASE Optional' \subseteq Optional
    BY <2>2, CountOptional DEF TrayWithinCap
  <2>3. CASE ~(Optional' \subseteq Optional)
    <3>1. Optional' = Optional \cup {u} /\ u \notin Optional
      BY <2>1, <2>3 DEF Admit, Optional, TrayInv, ItemsOK, Claims
    <3>2. Room
      BY <2>1, <2>3 DEF Admit, Optional
    <3>3. Cardinality(Optional \cup {u}) = Cardinality(Optional) + 1
      BY <3>1, CountOptional, FS_AddElement
    <3> QED
      BY <3>1, <3>2, <3>3, CountOptional, TrayAssumption DEF Room, TrayWithinCap
  <2> QED
    BY <2>2, <2>3
<1>2. CASE ~ \E u \in Claims : Admit(u)
  <2>1. Optional' \subseteq Optional
    <3> SUFFICES \A t \in Target : asked'[t] \in {"low", "modality"} => asked'[t] = asked[t]
      BY DEF Optional
    <3>1. CASE asked' = asked
      BY <3>1
    <3>2. CASE \E ts : Close(ts)
      BY <3>2, Closing DEF TrayInv
    <3>3. CASE Drain \/ \E p \in Pair : DecidePair(p) \/ CloseRead(p)
      <4>1. asked \in [Target -> {"none", "low", "modality", "pair"}]
        BY DEF TrayInv, ItemsOK
      <4>2. CASE Drain
        BY <4>1, <4>2 DEF Drain
      <4>3. CASE \E p \in Pair : DecidePair(p)
        BY <4>1, <4>3 DEF DecidePair
      <4>4. CASE \E p \in Pair : CloseRead(p)
        BY <4>1, <4>4 DEF CloseRead
      <4> QED
        BY <3>3, <4>2, <4>3, <4>4
    <3>4. \/ asked' = asked \/ Drain \/ \E p \in Pair : DecidePair(p) \/ CloseRead(p)
          \/ \E ts : Close(ts)
      <4>1. CASE TuningPass
        BY <4>1 DEF TuningPass, LoadBars, LoadLabels, TuneKey, Rescore, trayWorld
      <4>2. CASE ReadingPass
        BY <1>2, <4>2 DEF ReadingPass, TrimTray, LoadBar, EndReading, trayWorld
      <4>3. CASE LoadPairs \/ EndResolving \/ StopPasses
        BY <4>3 DEF LoadPairs, EndResolving, StopPasses, trayWorld
      <4>4. CASE \E u \in Judged : ConfirmUnit(u) \/ RejectUnit(u) \/ RestoreUnit(u)
        BY <4>4 DEF ConfirmUnit, RejectUnit, RestoreUnit
      <4>5. CASE \E p \in Pair : \/ DecidePair(p) \/ ReadItem(p) \/ AcceptPair(p) \/ RejectPair(p)
                                 \/ UndoMerge(p)
        BY <4>5 DEF ReadItem, AcceptPair, RejectPair, UndoMerge
      <4>6. CASE \E t \in Target : CloseItem(t)
        BY <4>6 DEF CloseItem
      <4>7. CASE (\E k \in Key : ResetBar(k)) \/ UNCHANGED trayVars
        BY <4>7 DEF ResetBar, trayWorld, trayVars
      <4> QED
        BY <4>1, <4>2, <4>3, <4>4, <4>5, <4>6, <4>7 DEF TrayNext
    <3> QED
      BY <3>1, <3>2, <3>3, <3>4
  <2> QED
    BY <2>1, CountOptional DEF TrayWithinCap
<1> QED
  BY <1>1, <1>2

LEMMA LoweredStep == TrayInv => NoneLoosened
<1> SUFFICES ASSUME TrayInv, TuneKey, NEW k \in Key, since[k] = "lowered"
             PROVE  tuned'[k] <= tuned[k]
  BY DEF NoneLoosened
<1> DEFINE old == tuner.bars[tuner.key]
           new == Proposal(tuner.labels, old, tuner.key)
<1>1. tuned \in [Key -> 0..100]
  BY DEF TrayInv, LearningOK, EvidenceOK
<1>2. CASE k = tuner.key /\ new # old
  <2>1. tuned'[k] = new
    BY <1>1, <1>2 DEF TuneKey
  <2>2. old = tuned[k] /\ new <= old
    BY <1>2, Tuning DEF TuneKey, TrayInv
  <2> QED
    BY <2>1, <2>2
<1>3. CASE ~(k = tuner.key /\ new # old)
  <2>1. tuned'[k] = tuned[k]
    BY <1>1, <1>3 DEF TuneKey
  <2> QED
    BY <1>1, <2>1
<1> QED
  BY <1>2, <1>3

LEMMA AgreeStep == TrayInv /\ TuneTarget > 0 => AgreeTightened
<1> SUFFICES ASSUME TrayInv, TuneTarget > 0, TuneKey
             PROVE  InForce'["agree"] >= InForce["agree"]
  BY DEF AgreeTightened
<1> DEFINE old == tuner.bars[tuner.key]
           new == Proposal(tuner.labels, old, tuner.key)
<1>1. tuned \in [Key -> 0..100] /\ IsBars(InForce) /\ tuner.step = "tune"
  BY BarsInForce DEF TuneKey, TrayInv, LearningOK, EvidenceOK
<1>2. /\ tuner.labels \in SUBSET Label /\ tuner.key \in Key
      /\ old \in Least[tuner.key]..Most[tuner.key] /\ new \in Least[tuner.key]..Most[tuner.key]
  BY <1>1, Tuning DEF TrayInv
<1>3. CASE tuner.key = "agree" /\ new # old
  <2>1. new >= old
    <3>1. \A l \in tuner.labels : ~l.keep
      BY <1>1, <1>3 DEF TrayInv, LearningOK, RefusalsOnly
    <3> QED
      BY <1>2, <3>1, RefusalsOnlyRaise
  <2>2. InForce'["agree"] = new
    <3>1. tuned'["agree"] = new
      BY <1>1, <1>3 DEF TuneKey, Key
    <3> QED
      BY <1>2, <1>3, <3>1 DEF InForce, Key
  <2>3. old >= InForce["agree"]
    <3>1. InForce["agree"] = old \/ tuned["agree"] = NotTuned
      BY <1>1, <1>3 DEF TrayInv, LearningOK, BarsAreCurrent, Ahead, Key
    <3>2. tuned["agree"] = NotTuned => InForce["agree"] = Default["agree"]
      BY Bounds DEF InForce, NotTuned, Key
    <3> QED
      BY <1>2, <1>3, <3>1, <3>2, Bounds DEF Key
  <2> QED
    BY <1>1, <1>2, <1>3, <2>1, <2>2, <2>3, Bounds DEF IsBars, Key
<1>4. CASE ~(tuner.key = "agree" /\ new # old)
  <2>1. tuned'["agree"] = tuned["agree"]
    BY <1>1, <1>4 DEF TuneKey, Key
  <2>2. InForce'["agree"] = InForce["agree"]
    BY <2>1 DEF InForce, Key
  <2> QED
    BY <1>1, <2>2 DEF IsBars, Key
<1> QED
  BY <1>3, <1>4

\* The tray never grows beyond its cap; a bar brought down on some verdicts
\* is not put up again on the same ones; and the bar for two signals is only
\* ever tightened, whoever resets what in between (persist_chunk_units,
\* propose_threshold).  A precision of nought asks for nothing, and any bar
\* would do.
THEOREM TrayTuned ==
    ASSUME TuneTarget > 0
    PROVE  TraySpec => TrayIsTuned
<1>1. TrayInv /\ [TrayNext]_trayVars => TrayInv'
  BY TrayStep
<1>2. TrayInv /\ [TrayNext]_trayVars => [TrayWithinCap]_trayVars
  BY CapStep
<1>3. TrayInv => [NoneLoosened]_trayVars
  BY LoweredStep
<1>4. TrayInv => [AgreeTightened]_trayVars
  BY AgreeStep
<1>5. [][TrayWithinCap]_trayVars <=> OptionalIsCapped
  BY DEF TrayWithinCap, OptionalIsCapped
<1>6. [][NoneLoosened]_trayVars <=> LoweredStaysLow
  BY DEF NoneLoosened, LoweredStaysLow
<1>7. [][AgreeTightened]_trayVars <=> AgreeOnlyTightens
  BY DEF AgreeTightened, AgreeOnlyTightens
<1> QED
  BY InitTray, <1>1, <1>2, <1>3, <1>4, <1>5, <1>6, <1>7, PTL DEF TraySpec, TrayIsTuned
=============================================================================
