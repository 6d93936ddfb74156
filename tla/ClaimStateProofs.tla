-------------------------- MODULE ClaimStateProofs --------------------------
(***************************************************************************)
(* Theorems about what UnitLifecycle leaves on record of claims: live      *)
(* supersessions are in force, open contradictions are about claims that   *)
(* stand, what a person confirmed stays confirmed and what a person        *)
(* resolved stays resolved, for any number of units, sources, scanners and *)
(* deeds, whatever deeds people do.  They build on the invariants of       *)
(* UnitLifecycleProofs: a scanner acts on rows that are current (RowsInv). *)
(***************************************************************************)
EXTENDS UnitLifecycleProofs

-----------------------------------------------------------------------------
(* What the transactions that withdraw units leave behind.                 *)

\* The rounds of a withdrawal one by one.
AreRounds(reach, R, W) ==
    /\ reach[0] = R
    /\ \A n \in 1..7 : reach[n] = reach[n - 1] \cup Olders(Lapsed(reach[n - 1], W))

LEMMA RoundsOf ==
    ASSUME NEW R, NEW W
    PROVE  \E reach : AreRounds(reach, R, W) /\ Reached(R, W) = reach[7]
<1> DEFINE more(X) == X \cup Olders(Lapsed(X, W))
           Is(f) == f = [n \in 0..Rounds |-> IF n = 0 THEN R ELSE more(f[n - 1])]
           r1 == more(R)
           r2 == more(r1)
           r3 == more(r2)
           r4 == more(r3)
           r5 == more(r4)
           r6 == more(r5)
           r7 == more(r6)
           r8 == more(r7)
           rounds == [n \in 0..8 |-> CASE n = 0 -> R  [] n = 1 -> r1 [] n = 2 -> r2
                                       [] n = 3 -> r3 [] n = 4 -> r4 [] n = 5 -> r5
                                       [] n = 6 -> r6 [] n = 7 -> r7 [] n = 8 -> r8]
           reach  == CHOOSE f : Is(f)
<1>1. Reached(R, W) = reach[7]
  BY DEF Reached, Rounds
<1> HIDE DEF more
<1>2. Is(rounds)
  BY DEF Rounds
<1>3. Is(reach)
  BY <1>2
<1> HIDE DEF reach, rounds
<1>4. reach[0] = R /\ \A n \in 1..7 : reach[n] = more(reach[n - 1])
  BY <1>3 DEF Rounds
<1>5. AreRounds(reach, R, W)
  BY <1>4 DEF more, AreRounds
<1> QED BY <1>1, <1>5

\* Each round only adds to what was withdrawn to begin with.
LEMMA ReachedFrom ==
    ASSUME NEW R, NEW W
    PROVE  R \subseteq Reached(R, W)
<1>1. PICK reach : AreRounds(reach, R, W) /\ Reached(R, W) = reach[7]
  BY RoundsOf
<1>2. \A n \in 1..7 : reach[n - 1] \subseteq reach[n]
  BY <1>1 DEF AreRounds
<1>3. /\ reach[0] \subseteq reach[1] /\ reach[1] \subseteq reach[2] /\ reach[2] \subseteq reach[3]
      /\ reach[3] \subseteq reach[4] /\ reach[4] \subseteq reach[5]
      /\ reach[5] \subseteq reach[6] /\ reach[6] \subseteq reach[7]
  BY <1>2
<1> QED BY <1>1, <1>3 DEF AreRounds

\* A unit comes back when the undone certificates say that it was superseded
\* by one that goes; nothing else changes.
LEMMA ComesBack ==
    ASSUME UnitTypes, NEW C \in SUBSET Supersession,
           NEW st \in [Unit -> {None, "active", "superseded", "retracted"}],
           UndoSupersessions(C, st), NEW u \in Unit
    PROVE  \/ /\ status'[u] = st[u] /\ by'[u] = by[u] /\ closed'[u] = closed[u]
           \/ /\ status'[u] = "active" /\ by'[u] = None
              /\ \E c \in C : c.older = u /\ st[u] = "superseded" /\ by[u] = c.newer
<1>1. CASE u \in Olders(Reverted(C, st))
  BY <1>1 DEF UndoSupersessions, StatusAfter, ByAfter, Olders, Reverted
<1>2. CASE u \notin Olders(Reverted(C, st))
  BY <1>2 DEF UndoSupersessions, StatusAfter, ByAfter, ClosedAfter
<1> QED BY <1>1, <1>2

\* Certificates, readings and open rows that involve a withdrawn unit go.
LEMMA GoesAlong ==
    ASSUME PairTypes, NEW R \in SUBSET Unit, NEW W, PropagateWithdrawal(R, W)
    PROVE  /\ supersessions' \subseteq supersessions
           /\ \A c \in supersessions' : c.older \notin R /\ c.newer \notin R
           /\ \A p \in Pair : \/ reading'[p] = None
                              \/ reading'[p] = reading[p] /\ p \cap R = {}
           /\ linked' \subseteq linked
<1>1. R \subseteq Reached(R, W)
  BY ReachedFrom
<1>2. \A c \in supersessions' : c \in supersessions /\ {c.older, c.newer} \cap Reached(R, W) = {}
  BY DEF PropagateWithdrawal, Lapsed
<1>3. \A p \in Pair : \/ reading'[p] = None
                      \/ reading'[p] = reading[p] /\ p \cap Reached(R, W) = {}
  BY DEF PropagateWithdrawal, LapsedReadings, PairTypes
<1>4. linked' \subseteq linked
  BY DEF PropagateWithdrawal
<1> QED BY <1>1, <1>2, <1>3, <1>4

LEMMA RowsGoAlong ==
    ASSUME PairTypes, NEW R, NEW W, WithdrawContradictions(R, W)
    PROVE  \A p \in Pair :
               \/ contradiction'[p] = contradiction[p] /\ (contradiction[p] = "open" => p \cap R = {})
               \/ contradiction[p] = "open" /\ contradiction'[p] = "withdrawn"
BY DEF PairTypes, WithdrawContradictions

-----------------------------------------------------------------------------
(* Claims on record.  A certificate, a reading and an open row are about   *)
(* claims that are not retracted; so is what a scanner in its transaction  *)
(* records, for its unit was current when it was claimed and can only have *)
(* been superseded since.                                                  *)

ReadOnesAreAboutClaims ==
    \A p \in Pair : reading[p] # None => \A u \in p : status[u] # "retracted"

LockedIsAClaim == lock # None => status[scan[lock].unit] # "retracted"

RecordsInv ==
    /\ SupersessionsInForce
    /\ OpenOnesAreAboutClaims
    /\ ReadOnesAreAboutClaims
    /\ LockedIsAClaim

\* The invariant survives when certificates, readings and rows only go and
\* the units of those that stay are no worse off.
LEMMA RecordsKept ==
    ASSUME TypeInv, RecordsInv,
           supersessions' \subseteq supersessions,
           \A c \in supersessions' : /\ status'[c.older] = "superseded"
                                     /\ status'[c.newer] # "retracted",
           \A p \in Pair : reading'[p] # None =>
               reading[p] # None /\ \A u \in p : status'[u] = "retracted" => status[u] = "retracted",
           \A p \in Pair : contradiction'[p] = "open" =>
               contradiction[p] = "open" /\ \A u \in p : status'[u] = "retracted" => status[u] = "retracted",
           lock' # None => lock' = lock /\ scan' = scan /\ status' = status
    PROVE  RecordsInv'
<1>1. SupersessionsInForce'
  BY DEF RecordsInv, SupersessionsInForce
<1>2. OpenOnesAreAboutClaims'
  BY DEF RecordsInv, OpenOnesAreAboutClaims
<1>3. ReadOnesAreAboutClaims'
  BY DEF RecordsInv, ReadOnesAreAboutClaims
<1>4. LockedIsAClaim'
  BY DEF RecordsInv, LockedIsAClaim
<1> QED BY <1>1, <1>2, <1>3, <1>4 DEF RecordsInv

\* A transaction that withdraws units R, after which they have any status, and
\* undoes the supersessions they caused.
LEMMA WithdrawnRecords ==
    ASSUME TypeInv, RecordsInv, NEW R \in SUBSET Unit, NEW W,
           NEW st \in [Unit -> {None, "active", "superseded", "retracted"}],
           \A u \in Unit \ R : st[u] = status[u],
           RetractUnitDependents(R, W, st), lock = None, UNCHANGED scanner
    PROVE  RecordsInv'
<1>1. UnitTypes /\ PairTypes
  BY TypeParts DEF TypeInv
<1>2. /\ UndoSupersessions(CausedBy(R), st)
      /\ PropagateWithdrawal(R, W) /\ WithdrawContradictions(R, W)
  BY DEF RetractUnitDependents
<1>3. CausedBy(R) \in SUBSET Supersession
  BY <1>1 DEF PairTypes, CausedBy
<1>4. \A u \in Unit :
          \/ status'[u] = st[u]
          \/ status'[u] = "active" /\ \E c \in CausedBy(R) : c.older = u
  BY <1>1, <1>2, <1>3, ComesBack
<1>5. /\ supersessions' \subseteq supersessions
      /\ \A c \in supersessions' : c.older \notin R /\ c.newer \notin R
      /\ \A p \in Pair : \/ reading'[p] = None
                         \/ reading'[p] = reading[p] /\ p \cap R = {}
  BY <1>1, <1>2, GoesAlong
<1>6. \A p \in Pair :
          \/ contradiction'[p] = contradiction[p] /\ (contradiction[p] = "open" => p \cap R = {})
          \/ contradiction[p] = "open" /\ contradiction'[p] = "withdrawn"
  BY <1>1, <1>2, RowsGoAlong
<1>7. \A u \in Unit \ R : status'[u] = "retracted" => status[u] = "retracted"
  BY <1>4
<1>8. ASSUME NEW c \in supersessions'
      PROVE  status'[c.older] = "superseded" /\ status'[c.newer] # "retracted"
  <2>1. /\ c \in supersessions /\ c.older \in Unit /\ c.newer \in Unit
        /\ c.older \notin R /\ c.newer \notin R
    BY <1>1, <1>5, <1>8 DEF PairTypes, Supersession
  <2>2. \A d \in CausedBy(R) : d.older # c.older
    BY <2>1 DEF CausedBy, RecordsInv, SupersessionsInForce
  <2>3. status[c.older] = "superseded" /\ status[c.newer] # "retracted"
    BY <2>1 DEF RecordsInv, SupersessionsInForce
  <2> QED BY <1>4, <1>7, <2>1, <2>2, <2>3
<1>9. \A p \in Pair : p \subseteq Unit
  BY InPair
<1>10. lock' = None
  BY DEF scanner
<1> QED BY <1>5, <1>6, <1>7, <1>8, <1>9, <1>10, RecordsKept

LEMMA InitRecords == Init => RecordsInv
<1> SUFFICES ASSUME Init PROVE RecordsInv
  OBVIOUS
<1>1. \A p \in Pair : \A u \in p : status[u] # "retracted"
  BY InPair, NoneAssumption DEF Init
<1>2. supersessions = {} /\ lock = None
  BY DEF Init
<1> QED BY <1>1, <1>2 DEF RecordsInv, SupersessionsInForce, OpenOnesAreAboutClaims,
                         ReadOnesAreAboutClaims, LockedIsAClaim

LEMMA RejectRecords ==
    ASSUME TypeInv, RecordsInv, NEW u \in Unit, Reject(u)
    PROVE  RecordsInv'
<1> DEFINE st == [status EXCEPT ![u] = "retracted"]
<1>1. /\ st \in [Unit -> {None, "active", "superseded", "retracted"}]
      /\ \A v \in Unit \ {u} : st[v] = status[v]
  BY TypeParts DEF TypeInv, UnitTypes
<1>2. RetractUnitDependents({u}, gone, st) /\ lock = None /\ UNCHANGED scanner
  BY DEF Reject, Deed
<1> HIDE DEF st
<1> QED BY <1>1, <1>2, WithdrawnRecords

LEMMA EditRecords ==
    ASSUME TypeInv, RecordsInv, NEW u \in Unit, NEW t, NEW x, EditUnit(u, t, x), lock = None
    PROVE  RecordsInv'
<1>1. status \in [Unit -> {None, "active", "superseded", "retracted"}]
  BY TypeParts DEF TypeInv, UnitTypes
<1>2. RetractUnitDependents({u}, gone, status) /\ UNCHANGED scanner
  BY DEF EditUnit
<1> QED BY <1>1, <1>2, WithdrawnRecords

\* When no unit is left without a source, certificates and readings go but no
\* row changes.
LEMMA RetractRecords ==
    ASSUME TypeInv, RecordsInv, NEW a \in Artifact, RetractArtifact(a)
    PROVE  RecordsInv'
<1> DEFINE R  == Orphans(a)
           W  == gone \cup {a}
           st == [u \in Unit |-> IF u \in R THEN "retracted" ELSE status[u]]
<1>1. UnitTypes /\ PairTypes
  BY TypeParts DEF TypeInv
<1>2. /\ R \in SUBSET Unit
      /\ st \in [Unit -> {None, "active", "superseded", "retracted"}]
      /\ \A u \in Unit \ R : st[u] = status[u]
  BY <1>1 DEF Orphans, UnitTypes
<1>3. lock = None /\ UNCHANGED scanner
  BY DEF RetractArtifact, Deed
<1>4. \/ RetractUnitDependents(R, W, st)
      \/ PropagateWithdrawal({}, W) /\ UNCHANGED <<status, contradiction>>
  BY DEF RetractArtifact
<1> HIDE DEF R, W, st
<1>5. CASE RetractUnitDependents(R, W, st)
  BY <1>2, <1>3, <1>5, WithdrawnRecords
<1>6. CASE PropagateWithdrawal({}, W) /\ UNCHANGED <<status, contradiction>>
  <2>1. {} \in SUBSET Unit
    OBVIOUS
  <2>2. /\ supersessions' \subseteq supersessions
        /\ \A p \in Pair : reading'[p] = None \/ reading'[p] = reading[p]
    BY <1>1, <1>6, <2>1, GoesAlong
  <2>3. lock' = None
    BY <1>3 DEF scanner
  <2> QED BY <1>6, <2>2, <2>3, RecordsKept DEF RecordsInv, SupersessionsInForce
<1> QED BY <1>4, <1>5, <1>6

\* A new or restored claim has no certificate yet; readings and rows that
\* mention it stay.
LEMMA ReturnRecords ==
    ASSUME TypeInv, RecordsInv, NEW u \in Unit,
           Restore(u) \/ \E t \in Time, x \in Subject, a \in Artifact : Persist(u, t, x, a)
    PROVE  RecordsInv'
<1>1. UnitTypes /\ PairTypes
  BY TypeParts DEF TypeInv
<1>2. /\ status[u] \in {None, "retracted"} /\ lock = None /\ UNCHANGED <<certs, scanner>>
      /\ status' = [status EXCEPT ![u] = "active"]
  BY DEF Restore, Persist, Deed
<1>3. \A v \in Unit : status'[v] = "retracted" => status[v] = "retracted"
  BY <1>1, <1>2 DEF UnitTypes
<1>4. \A c \in supersessions' : status'[c.older] = "superseded" /\ status'[c.newer] # "retracted"
  <2> SUFFICES ASSUME NEW c \in supersessions
               PROVE  status'[c.older] = "superseded" /\ status'[c.newer] # "retracted"
    BY <1>2 DEF certs
  <2>1. /\ c.older \in Unit /\ c.newer \in Unit
        /\ status[c.older] = "superseded" /\ status[c.newer] # "retracted"
    BY <1>1 DEF PairTypes, Supersession, RecordsInv, SupersessionsInForce
  <2>2. c.older # u
    BY <1>2, <2>1, NoneAssumption
  <2> QED BY <1>1, <1>2, <1>3, <2>1, <2>2 DEF UnitTypes
<1>5. \A p \in Pair : p \subseteq Unit
  BY InPair
<1>6. lock' = None
  BY <1>2 DEF scanner
<1> QED BY <1>2, <1>3, <1>4, <1>5, <1>6, RecordsKept DEF certs

\* The loser of a resolved conflict is superseded, if it was not already.
LEMMA ResolveRecords ==
    ASSUME TypeInv, RecordsInv, NEW p \in Pair, NEW l \in p, Resolve(p, l)
    PROVE  RecordsInv'
<1>1. UnitTypes /\ PairTypes
  BY TypeParts DEF TypeInv
<1>2. /\ lock = None /\ UNCHANGED <<supersessions, reading, scanner>>
      /\ contradiction' = [contradiction EXCEPT ![p] = "decided"]
      /\ status' = [status EXCEPT ![l] = "superseded"]
  BY DEF Resolve, Deed
<1>3. /\ \A v \in Unit : status'[v] = "retracted" => status[v] = "retracted"
      /\ \A v \in Unit : status[v] = "superseded" => status'[v] = "superseded"
  BY <1>1, <1>2 DEF UnitTypes
<1>4. \A q \in Pair : contradiction'[q] = "open" => contradiction[q] = "open"
  BY <1>1, <1>2 DEF PairTypes
<1>5. \A q \in Pair : q \subseteq Unit
  BY InPair
<1>6. lock' = None
  BY <1>2 DEF scanner
<1>7. \A c \in supersessions : /\ c.older \in Unit /\ c.newer \in Unit
                               /\ status[c.older] = "superseded" /\ status[c.newer] # "retracted"
  BY <1>1 DEF PairTypes, Supersession, RecordsInv, SupersessionsInForce
<1> QED BY <1>2, <1>3, <1>4, <1>5, <1>6, <1>7, RecordsKept

\* Opening a confirmed conflict needs a reading, and so two claims that stand.
LEMMA ConfirmRecords ==
    ASSUME TypeInv, RecordsInv, NEW p \in Pair, Confirm(p)
    PROVE  RecordsInv'
<1>1. UnitTypes /\ PairTypes
  BY TypeParts DEF TypeInv
<1> DEFINE C == Between(p)
<1>2. /\ lock = None /\ reading[p] # None /\ UndoSupersessions(C, status)
      /\ supersessions' = supersessions \ C
      /\ reading'       = [reading EXCEPT ![p] = None]
      /\ contradiction' = [contradiction EXCEPT ![p] = "open"]
      /\ UNCHANGED scanner
  BY DEF Confirm, Deed, Explained
<1>3. /\ C \in SUBSET Supersession /\ C \subseteq supersessions
      /\ status \in [Unit -> {None, "active", "superseded", "retracted"}]
  BY <1>1 DEF PairTypes, Between, UnitTypes
<1> HIDE DEF C
<1>4. \A u \in Unit : \/ status'[u] = status[u]
                      \/ status'[u] = "active" /\ \E c \in C : c.older = u
  BY <1>1, <1>2, <1>3, ComesBack
<1>5. SupersessionsInForce'
  <2> SUFFICES ASSUME NEW c \in supersessions \ C
               PROVE  status'[c.older] = "superseded" /\ status'[c.newer] # "retracted"
    BY <1>2 DEF RecordsInv, SupersessionsInForce
  <2>1. /\ c.older \in Unit /\ c.newer \in Unit
        /\ status[c.older] = "superseded" /\ status[c.newer] # "retracted"
        /\ \A d \in C : d.older # c.older
    BY <1>1, <1>3 DEF PairTypes, Supersession, RecordsInv, SupersessionsInForce
  <2> QED BY <1>4, <2>1
<1>6. \A q \in Pair : q \subseteq Unit
  BY InPair
<1>7. \A q \in Pair : contradiction'[q] = "open" => contradiction[q] = "open" \/ q = p
  BY <1>1, <1>2 DEF PairTypes
<1>8. \A q \in Pair : reading'[q] # None => reading[q] # None
  BY <1>1, <1>2 DEF PairTypes
<1>9. OpenOnesAreAboutClaims'
  BY <1>2, <1>4, <1>6, <1>7 DEF RecordsInv, OpenOnesAreAboutClaims, ReadOnesAreAboutClaims
<1>10. ReadOnesAreAboutClaims'
  BY <1>4, <1>6, <1>8 DEF RecordsInv, ReadOnesAreAboutClaims
<1>11. LockedIsAClaim'
  BY <1>2 DEF scanner, LockedIsAClaim
<1> QED BY <1>5, <1>9, <1>10, <1>11 DEF RecordsInv

\* A merge leaves the rows as they are, a split deletes some.
LEMMA SubjectRecords ==
    ASSUME TypeInv, RecordsInv, Merge \/ Split
    PROVE  RecordsInv'
<1>1. PairTypes
  BY TypeParts DEF TypeInv
<1>2. /\ lock = None /\ UNCHANGED <<status, supersessions, scanner>>
      /\ \A p \in Pair : reading'[p] # None => reading[p] # None
      /\ \A p \in Pair : contradiction'[p] = "open" => contradiction[p] = "open"
  <2>1. CASE Merge
    BY <2>1 DEF Merge, Deed, certs
  <2>2. CASE Split
    <3>1. lock = None /\ UNCHANGED <<status, supersessions, scanner>>
      BY <2>2 DEF Split, Deed
    <3>2. \A p \in Pair : reading'[p] # None => reading[p] # None
      BY <2>2 DEF Split
    <3>3. \A p \in Pair : contradiction'[p] = "open" => contradiction[p] = "open"
      BY <1>1, <2>2, NoneAssumption DEF Split, PairTypes
    <3> QED BY <3>1, <3>2, <3>3
  <2> QED BY <2>1, <2>2
<1>3. lock' = None
  BY <1>2 DEF scanner
<1> QED BY <1>2, <1>3, RecordsKept DEF RecordsInv, SupersessionsInForce

\* Steps that change no unit, certificate or reading.
LEMMA QuietRecords ==
    ASSUME TypeInv, RecordsInv, UNCHANGED <<status, supersessions, reading>>,
           \A p \in Pair : contradiction'[p] = "open" => contradiction[p] = "open",
           lock' # None => lock' = lock /\ scan' = scan
    PROVE  RecordsInv'
BY RecordsKept DEF RecordsInv, SupersessionsInForce

\* A unit that is claimed is as it was loaded, and so current.
LEMMA ScanRecords ==
    ASSUME TypeInv, RowsInv, RecordsInv, NEW s \in Scanner,
           \/ LoadCandidates(s) \/ Claim(s) \/ ClaimLost(s) \/ Fail(s) \/ Finish(s)
           \/ \E u \in Unit : Load(s, u) \/ Skip(s, u)
    PROVE  RecordsInv'
<1>1. UNCHANGED <<status, supersessions, reading, contradiction>>
  BY DEF LoadCandidates, Claim, ClaimLost, Fail, Finish, Load, Skip, GoIdle, units, certs
<1>2. CASE Claim(s)
  <2>1. scan[s].unit \in fresh[s] /\ scan'[s].unit = scan[s].unit /\ lock' = s
    BY <1>2, TypeParts DEF Claim, Claimable, TypeInv, ScanTypes
  <2>2. status'[scan'[lock'].unit] = "active"
    BY <1>1, <2>1 DEF RowsInv, FreshAreActive
  <2>3. LockedIsAClaim'
    BY <2>2 DEF LockedIsAClaim
  <2> QED BY <1>1, <2>3 DEF RecordsInv, SupersessionsInForce, OpenOnesAreAboutClaims,
                            ReadOnesAreAboutClaims
<1>3. ASSUME NEW u \in Unit, Skip(s, u) PROVE RecordsInv'
  <2>1. lock' = lock /\ scan'[lock].unit = scan[lock].unit
    BY <1>3, TypeParts DEF Skip, TypeInv, ScanTypes
  <2>2. LockedIsAClaim'
    BY <1>1, <2>1 DEF RecordsInv, LockedIsAClaim
  <2> QED BY <1>1, <2>2 DEF RecordsInv, SupersessionsInForce, OpenOnesAreAboutClaims,
                            ReadOnesAreAboutClaims
<1>4. CASE LoadCandidates(s) \/ ClaimLost(s) \/ Fail(s) \/ Finish(s)
           \/ \E u \in Unit : Load(s, u)
  <2>1. lock' = None
    BY <1>4 DEF LoadCandidates, ClaimLost, Fail, Finish, Load, GoIdle
  <2> QED BY <1>1, <2>1, QuietRecords
<1> QED BY <1>2, <1>3, <1>4

\* Recording: both claims stand, and the one that is superseded was current, so
\* that no certificate had superseded it before.
LEMMA RecordRecords ==
    ASSUME TypeInv, RowsInv, RecordsInv, NEW s \in Scanner, NEW v \in Unit, Record(s, v)
    PROVE  RecordsInv'
<1>0. PICK u \in Unit, wasClosed \in BOOLEAN :
          u = scan[s].unit /\ wasClosed = scan[s].wasClosed
  BY TwoUnits
<1> DEFINE p    == {u, v}
           srcs == (sources[u] \cup sources[v]) \ gone
<1>1. UnitTypes /\ SourceTypes /\ PairTypes /\ ScanTypes
  BY TypeParts DEF TypeInv
<1>2. u # v /\ p \in Pair
  BY <1>0, TwoUnits
<1>3. lock = s /\ lock' = s /\ scan'[s].unit = u /\ v \in fresh[s]
  BY <1>0, <1>1 DEF Record, ScanTypes
<1>4. Superseding(p, srcs) /\ Recording(p, srcs)
  BY <1>0, <1>1, <1>2, ConflictOutcome DEF Record
<1>5. \A w \in p : status[w] # "retracted"
  <2>1. status[v] = "active"
    BY <1>3 DEF RowsInv, FreshAreActive
  <2>2. status[u] # "retracted"
    BY <1>0, <1>3, NoneAssumption DEF RecordsInv, LockedIsAClaim
  <2> QED BY <2>1, <2>2
<1> HIDE DEF srcs
<1>6. /\ \A w \in Unit : status'[w] = "retracted" => status[w] = "retracted"
      /\ SupersessionsInForce'
  <2>1. CASE KeepUnits
    BY <2>1 DEF KeepUnits, RecordsInv, SupersessionsInForce
  <2>2. ASSUME NEW old \in p, NEW new \in p \ {old}, NEW was \in BOOLEAN,
               status[old] = "active",
               Supersede(old, new, [older |-> old, newer |-> new,
                                    closedBefore |-> was, sources |-> srcs])
        PROVE  /\ \A w \in Unit : status'[w] = "retracted" => status[w] = "retracted"
               /\ SupersessionsInForce'
    <3> DEFINE cert == [older |-> old, newer |-> new, closedBefore |-> was, sources |-> srcs]
    <3>1. /\ status' = [status EXCEPT ![old] = "superseded"] /\ old \in Unit /\ new \in Unit
          /\ supersessions' \subseteq supersessions \cup {cert}
      BY <1>2, <2>2 DEF Supersede
    <3>2. /\ status'[old] = "superseded" /\ \A w \in Unit \ {old} : status'[w] = status[w]
      BY <1>1, <3>1 DEF UnitTypes
    <3>3. \A c \in supersessions : /\ c.older \in Unit /\ c.newer \in Unit /\ c.older # old
                                    /\ status[c.older] = "superseded"
                                    /\ status[c.newer] # "retracted"
      BY <1>1, <2>2 DEF PairTypes, Supersession, RecordsInv, SupersessionsInForce
    <3>4. cert.older = old /\ cert.newer = new /\ status[new] # "retracted" /\ new # old
      BY <1>5
    <3> HIDE DEF cert
    <3>5. SupersessionsInForce'
      <4> SUFFICES ASSUME NEW c \in supersessions'
                   PROVE  /\ status'[c.older] = "superseded"
                          /\ status'[c.newer] # "retracted"
                          /\ \A d \in supersessions' : d.older = c.older => d = c
        BY DEF SupersessionsInForce
      <4>1. CASE c = cert
        BY <3>1, <3>2, <3>3, <3>4, <4>1
      <4>2. CASE c \in supersessions /\ c # cert
        <5>1. /\ status'[c.older] = "superseded" /\ status'[c.newer] # "retracted"
              /\ c.older # old
          BY <3>1, <3>2, <3>3, <4>2
        <5>2. \A d \in supersessions : d.older = c.older => d = c
          BY <4>2 DEF RecordsInv, SupersessionsInForce
        <5> QED BY <3>1, <3>4, <5>1, <5>2
      <4> QED BY <3>1, <4>1, <4>2
    <3> QED BY <3>2, <3>5
  <2> QED BY <1>4, <2>1, <2>2 DEF Superseding
<1>7. \A w \in p : status'[w] # "retracted"
  BY <1>2, <1>5, <1>6
<1>8. /\ \A q \in Pair \ {p} : contradiction'[q] = contradiction[q] /\ reading'[q] = reading[q]
  BY <1>1, <1>2, <1>4 DEF Recording, Reopen, Block, Report, PairTypes
<1>9. \A q \in Pair : q \subseteq Unit
  BY InPair
<1>10. OpenOnesAreAboutClaims'
  BY <1>6, <1>7, <1>8, <1>9 DEF RecordsInv, OpenOnesAreAboutClaims
<1>11. ReadOnesAreAboutClaims'
  BY <1>6, <1>7, <1>8, <1>9 DEF RecordsInv, ReadOnesAreAboutClaims
<1>12. LockedIsAClaim'
  BY <1>3, <1>7 DEF LockedIsAClaim
<1> QED BY <1>6, <1>10, <1>11, <1>12 DEF RecordsInv

LEMMA RecordsStep ==
    ASSUME TypeInv, RowsInv, RecordsInv, [Next]_vars
    PROVE  RecordsInv'
<1>1. PairTypes
  BY TypeParts DEF TypeInv
<1>2. ASSUME NEW s \in Scanner, ScannerStep(s) \/ Fail(s) PROVE RecordsInv'
  BY <1>2, ScanRecords, RecordRecords DEF ScannerStep
<1>3. ASSUME NEW u \in Unit, UnitStep(u) PROVE RecordsInv'
  <2>1. ASSUME NEW t \in Time, NEW x \in Subject, Edit(u, t, x) PROVE RecordsInv'
    BY <2>1, EditRecords DEF Edit, Deed
  <2>2. ASSUME Resave(u) PROVE RecordsInv'
    BY <2>2, EditRecords DEF Resave, Deed
  <2>3. ASSUME NEW a \in Artifact, Reassert(u, a) PROVE RecordsInv'
    BY <2>3, QuietRecords DEF Reassert, Deed, units, certs, scanner
  <2> QED BY <1>3, <2>1, <2>2, <2>3, RejectRecords, ReturnRecords DEF UnitStep
<1>4. ASSUME NEW p \in Pair, PairStep(p) PROVE RecordsInv'
  <2>1. ASSUME Settle(p) \/ Agree(p) PROVE RecordsInv'
    <3>1. UNCHANGED <<status, supersessions, reading, lock, scan>>
      BY <2>1 DEF Settle, Agree, units, scanner
    <3>2. \A q \in Pair : contradiction'[q] = "open" => contradiction[q] = "open"
      BY <1>1, <2>1 DEF Settle, Agree, PairTypes
    <3> QED BY <3>1, <3>2, QuietRecords
  <2> QED BY <1>4, <2>1, ResolveRecords, ConfirmRecords DEF PairStep
<1>5. CASE UNCHANGED vars
  BY <1>5, QuietRecords DEF vars
<1> QED BY <1>2, <1>3, <1>4, <1>5, RetractRecords, SubjectRecords DEF Next

\* A live certificate of an automatic supersession says what is so: the older
\* claim is superseded, the newer one stands, and no other certificate claims
\* the older one, however rejections, edits, withdrawals and scans interleave.
THEOREM SupersessionsHold == Spec => []SupersessionsInForce
<1>1. Init => TypeInv /\ PairsInv /\ RecordsInv
  BY InitTypes, InitPairs, InitRecords
<1>2. TypeInv /\ PairsInv /\ RecordsInv /\ [Next]_vars => TypeInv' /\ PairsInv' /\ RecordsInv'
  BY TypeStep, PairsStep, RecordsStep DEF PairsInv
<1>3. RecordsInv => SupersessionsInForce
  BY DEF RecordsInv
<1> QED BY <1>1, <1>2, <1>3, PTL DEF Spec

\* Nobody is ever asked about a contradiction with a claim that was rejected or
\* lost its sources, also when the scanner judged the pair just before.
THEOREM OpenRowsAreAboutClaims == Spec => []OpenOnesAreAboutClaims
<1>1. Init => TypeInv /\ PairsInv /\ RecordsInv
  BY InitTypes, InitPairs, InitRecords
<1>2. TypeInv /\ PairsInv /\ RecordsInv /\ [Next]_vars => TypeInv' /\ PairsInv' /\ RecordsInv'
  BY TypeStep, PairsStep, RecordsStep DEF PairsInv
<1>3. RecordsInv => OpenOnesAreAboutClaims
  BY DEF RecordsInv
<1> QED BY <1>1, <1>2, <1>3, PTL DEF Spec

-----------------------------------------------------------------------------
(* What people decided about pairs.                                        *)

\* Dropping readings and certificates explains nothing away.
LEMMA VerdictsKept ==
    ASSUME ConfirmedStands, verdict' = verdict,
           supersessions' \subseteq supersessions,
           \A p \in Pair : reading'[p] = None \/ reading'[p] = reading[p]
    PROVE  ConfirmedStands'
BY DEF ConfirmedStands, Explained

\* Only a pair no person has confirmed is explained away or superseded.
LEMMA RecordVerdicts ==
    ASSUME TypeInv, ConfirmedStands, NEW s \in Scanner, NEW v \in Unit, Record(s, v)
    PROVE  ConfirmedStands'
<1>0. PICK u \in Unit, wasClosed \in BOOLEAN :
          u = scan[s].unit /\ wasClosed = scan[s].wasClosed
  BY TwoUnits
<1> DEFINE p    == {u, v}
           srcs == (sources[u] \cup sources[v]) \ gone
<1>1. UnitTypes /\ SourceTypes /\ PairTypes
  BY TypeParts DEF TypeInv
<1>2. u # v /\ p \in Pair /\ verdict' = verdict /\ RecordConflict(u, v, wasClosed)
  BY <1>0, TwoUnits DEF Record
<1>3. CASE verdict[p] = "confirmed"
  BY <1>2, <1>3, VerdictsKept DEF RecordConflict, Reopen, KeepUnits
<1>4. CASE verdict[p] # "confirmed"
  <2>1. Superseding(p, srcs) /\ Recording(p, srcs)
    BY <1>1, <1>2, ConflictOutcome
  <2> HIDE DEF srcs
  <2>2. \A q \in Pair \ {p} : reading'[q] = reading[q]
    BY <1>1, <1>2, <2>1 DEF Recording, Reopen, Block, Report, PairTypes
  <2>3. \A c \in supersessions' : c \in supersessions \/ {c.older, c.newer} = p
    <3>1. CASE KeepUnits
      BY <3>1 DEF KeepUnits
    <3>2. ASSUME NEW old \in p, NEW new \in p \ {old}, NEW was \in BOOLEAN,
                 Supersede(old, new, [older |-> old, newer |-> new,
                                      closedBefore |-> was, sources |-> srcs])
          PROVE  \A c \in supersessions' : c \in supersessions \/ {c.older, c.newer} = p
      <4>1. {old, new} = p
        OBVIOUS
      <4> QED BY <3>2, <4>1 DEF Supersede
    <3> QED BY <2>1, <3>1, <3>2 DEF Superseding
  <2> QED BY <1>2, <1>4, <2>2, <2>3 DEF ConfirmedStands, Explained
<1> QED BY <1>3, <1>4

LEMMA WithdrawnVerdicts ==
    ASSUME TypeInv, ConfirmedStands, NEW R \in SUBSET Unit, NEW W,
           PropagateWithdrawal(R, W), verdict' = verdict
    PROVE  ConfirmedStands'
<1>1. PairTypes
  BY TypeParts DEF TypeInv
<1>2. /\ supersessions' \subseteq supersessions
      /\ \A p \in Pair : reading'[p] = None \/ reading'[p] = reading[p]
  BY <1>1, GoesAlong
<1> QED BY <1>2, VerdictsKept

\* Confirming a pair takes back all that was made of it.
LEMMA PeopleVerdicts ==
    ASSUME TypeInv, ConfirmedStands, NEW p \in Pair, Confirm(p) \/ Agree(p)
    PROVE  ConfirmedStands'
<1>1. PairTypes
  BY TypeParts DEF TypeInv
<1>2. CASE Confirm(p)
  BY <1>1, <1>2 DEF Confirm, ConfirmedStands, Explained, Between, PairTypes
<1>3. CASE Agree(p)
  BY <1>1, <1>3 DEF Agree, ConfirmedStands, Explained, PairTypes
<1> QED BY <1>2, <1>3

LEMMA VerdictsStep ==
    ASSUME TypeInv, ConfirmedStands, [Next]_vars
    PROVE  ConfirmedStands'
<1>1. UnitTypes /\ SourceTypes /\ PairTypes
  BY TypeParts DEF TypeInv
<1>2. ASSUME NEW s \in Scanner, ScannerStep(s) \/ Fail(s) PROVE ConfirmedStands'
  <2>1. ASSUME ~ \E v \in Unit : Record(s, v) PROVE ConfirmedStands'
    BY <1>2, <2>1, VerdictsKept DEF ScannerStep, LoadCandidates, Claim, ClaimLost, Fail,
                                    Finish, Load, Skip, GoIdle, certs
  <2> QED BY <2>1, RecordVerdicts
<1>3. ASSUME NEW u \in Unit, UnitStep(u) PROVE ConfirmedStands'
  <2>1. ASSUME NEW t, NEW x, EditUnit(u, t, x) PROVE ConfirmedStands'
    BY <2>1, WithdrawnVerdicts DEF EditUnit, RetractUnitDependents
  <2>2. CASE Reject(u)
    BY <2>2, WithdrawnVerdicts DEF Reject, RetractUnitDependents
  <2>3. CASE Restore(u) \/ \E a \in Artifact : \/ Reassert(u, a)
                                               \/ \E t \in Time, x \in Subject : Persist(u, t, x, a)
    BY <2>3, VerdictsKept DEF Restore, Reassert, Persist, certs
  <2> QED BY <1>3, <2>1, <2>2, <2>3 DEF UnitStep, Edit, Resave
<1>4. ASSUME NEW p \in Pair, PairStep(p) PROVE ConfirmedStands'
  BY <1>4, VerdictsKept, PeopleVerdicts DEF PairStep, Resolve, Settle
<1>5. ASSUME NEW a \in Artifact, RetractArtifact(a) PROVE ConfirmedStands'
  <2>1. Orphans(a) \in SUBSET Unit /\ {} \in SUBSET Unit
    BY DEF Orphans
  <2> QED BY <1>5, <2>1, WithdrawnVerdicts DEF RetractArtifact, RetractUnitDependents
<1>6. CASE Merge \/ Split
  <2>1. CASE Merge
    BY <2>1, VerdictsKept DEF Merge, certs
  <2>2. CASE Split
    BY <2>2, VerdictsKept DEF Split
  <2> QED BY <1>6, <2>1, <2>2
<1>7. CASE UNCHANGED vars
  BY <1>7, VerdictsKept DEF vars
<1> QED BY <1>2, <1>3, <1>4, <1>5, <1>6, <1>7 DEF Next

\* What a person confirmed as a conflict is never explained away again, and
\* neither claim supersedes the other, whatever the scanner finds later.
THEOREM ConfirmedStay == Spec => []ConfirmedStands
<1>1. Init => TypeInv /\ ConfirmedStands
  <2> SUFFICES ASSUME Init PROVE ConfirmedStands
    BY InitTypes
  <2> QED BY DEF Init, ConfirmedStands, Explained
<1>2. TypeInv /\ ConfirmedStands /\ [Next]_vars => TypeInv' /\ ConfirmedStands'
  BY TypeStep, VerdictsStep
<1> QED BY <1>1, <1>2, PTL DEF Spec

\* The only row of a pair a person is done with that opens again is that of a
\* pair a person confirms.
RowsStay ==
    \A p \in Pair : contradiction[p] \in {"settled", "decided", "agreed"} =>
        \/ contradiction'[p] = contradiction[p]
        \/ contradiction'[p] = "open" /\ verdict'[p] = "confirmed"

LEMMA RecordRowsStay ==
    ASSUME TypeInv, NEW s \in Scanner, NEW v \in Unit, Record(s, v)
    PROVE  RowsStay
<1>0. PICK u \in Unit, wasClosed \in BOOLEAN :
          u = scan[s].unit /\ wasClosed = scan[s].wasClosed
  BY TwoUnits
<1> DEFINE p    == {u, v}
           srcs == (sources[u] \cup sources[v]) \ gone
<1>1. UnitTypes /\ SourceTypes /\ PairTypes
  BY TypeParts DEF TypeInv
<1>2. u # v /\ p \in Pair /\ RecordConflict(u, v, wasClosed)
  BY <1>0, TwoUnits DEF Record
<1>3. Recording(p, srcs)
  BY <1>1, <1>2, ConflictOutcome
<1> HIDE DEF srcs
<1>4. \A q \in Pair : \/ contradiction'[q] = contradiction[q]
                      \/ contradiction[q] \in {None, "open", "withdrawn"}
  BY <1>1, <1>2, <1>3 DEF Recording, Reopen, Block, Report, Shown, PairTypes
<1> QED BY <1>4, NoneAssumption DEF RowsStay

LEMMA RowsStep ==
    ASSUME TypeInv, [Next]_vars
    PROVE  RowsStay
<1>1. UnitTypes /\ PairTypes
  BY TypeParts DEF TypeInv
<1>2. ASSUME UNCHANGED contradiction PROVE RowsStay
  BY <1>2 DEF RowsStay
<1>3. ASSUME NEW R, NEW W, WithdrawContradictions(R, W) PROVE RowsStay
  BY <1>1, <1>3, RowsGoAlong DEF RowsStay
<1>4. ASSUME NEW s \in Scanner, ScannerStep(s) \/ Fail(s) PROVE RowsStay
  <2>1. ASSUME ~ \E v \in Unit : Record(s, v) PROVE RowsStay
    BY <1>2, <1>4, <2>1 DEF ScannerStep, LoadCandidates, Claim, ClaimLost, Fail,
                            Finish, Load, Skip, GoIdle, certs
  <2> QED BY <2>1, RecordRowsStay
<1>5. ASSUME NEW u \in Unit, UnitStep(u) PROVE RowsStay
  <2>1. CASE Reject(u) \/ \E t, x : EditUnit(u, t, x)
    BY <1>3, <2>1 DEF Reject, EditUnit, RetractUnitDependents
  <2>2. CASE Restore(u) \/ \E a \in Artifact : \/ Reassert(u, a)
                                               \/ \E t \in Time, x \in Subject : Persist(u, t, x, a)
    BY <1>2, <2>2 DEF Restore, Reassert, Persist, certs
  <2> QED BY <1>5, <2>1, <2>2 DEF UnitStep, Edit, Resave
<1>6. ASSUME NEW p \in Pair, PairStep(p) PROVE RowsStay
  <2>1. CASE Confirm(p)
    BY <1>1, <2>1 DEF Confirm, RowsStay, PairTypes
  <2>2. CASE Settle(p) \/ Agree(p) \/ \E l \in p : Resolve(p, l)
    BY <1>1, <2>2 DEF Settle, Agree, Resolve, RowsStay, PairTypes
  <2> QED BY <1>6, <2>1, <2>2 DEF PairStep
<1>7. ASSUME NEW a \in Artifact, RetractArtifact(a) PROVE RowsStay
  BY <1>2, <1>3, <1>7 DEF RetractArtifact, RetractUnitDependents
<1>8. CASE Merge
  BY <1>2, <1>8 DEF Merge, certs
<1>9. CASE Split
  BY <1>1, <1>9 DEF Split, Crossing, RowsStay, PairTypes
<1>10. CASE UNCHANGED vars
  BY <1>2, <1>10 DEF vars
<1> QED BY <1>4, <1>5, <1>6, <1>7, <1>8, <1>9, <1>10 DEF Next

\* What a person has resolved only opens again when a person confirms it: no
\* scan, withdrawal, edit or split touches the row.
THEOREM ResolvedStay == Spec => ResolvedStands
<1>1. TypeInv /\ [Next]_vars => [RowsStay]_vars
  BY RowsStep
<1>2. ResolvedStands <=> [][RowsStay]_vars
  BY DEF ResolvedStands, RowsStay
<1> QED BY <1>1, <1>2, InitTypes, TypeStep, PTL DEF Spec

\* What a person has said of a pair stands, whatever scanners find, and whatever
\* else becomes of its claims (scan/mod.rs, routes/contradictions.rs).
THEOREM JudgementsStay == Spec => JudgementsStand
BY ConfirmedStay, ResolvedStay DEF JudgementsStand

-----------------------------------------------------------------------------
(* Claims that are current again.  No claim is superseded while it is      *)
(* closed, so that undoing a supersession always opens the claim: only     *)
(* restoring a claim that had been superseded before it was rejected can   *)
(* bring one back that is closed.                                          *)

OpenInv ==
    /\ CurrentClaimsAreOpen
    /\ \A u \in Unit : status[u] = None => by[u] = None /\ ~ closed[u]
    /\ \A c \in supersessions : ~ c.closedBefore

\* A unit the step leaves alone, takes away or brings back by an undo.
OpenAfter(u) ==
    \/ /\ by'[u] = by[u] /\ closed'[u] = closed[u]
       /\ status'[u] = status[u] \/ status'[u] = "retracted"
    \/ by'[u] = None /\ ~ closed'[u] /\ status'[u] # None

LEMMA OpenKept ==
    ASSUME OpenInv, \A c \in supersessions' : ~ c.closedBefore,
           \A u \in Unit : OpenAfter(u) \/ status'[u] = "superseded"
    PROVE  OpenInv'
<1>1. \A u \in Unit : /\ status'[u] = "active" => by'[u] = None /\ ~ closed'[u]
                      /\ status'[u] = None => by'[u] = None /\ ~ closed'[u]
  BY NoneAssumption DEF OpenInv, CurrentClaimsAreOpen, OpenAfter
<1> QED BY <1>1 DEF OpenInv, CurrentClaimsAreOpen

\* Undoing supersessions of claims that were open when they were superseded.
LEMMA UndoneAreOpen ==
    ASSUME UnitTypes, OpenInv, NEW C \in SUBSET supersessions, C \subseteq Supersession,
           NEW st \in [Unit -> {None, "active", "superseded", "retracted"}],
           \A u \in Unit : st[u] = status[u] \/ st[u] = "retracted",
           UndoSupersessions(C, st)
    PROVE  \A u \in Unit : OpenAfter(u)
<1> SUFFICES ASSUME NEW u \in Unit PROVE OpenAfter(u)
  OBVIOUS
<1>1. CASE u \in Olders(Reverted(C, st))
  <2>1. \A c \in Reverted(C, st) : ~ c.closedBefore
    BY DEF Reverted, OpenInv
  <2>2. ~ closed'[u]
    BY <1>1, <2>1 DEF UndoSupersessions, ClosedAfter
  <2>3. status'[u] = "active" /\ by'[u] = None
    BY <1>1 DEF UndoSupersessions, StatusAfter, ByAfter
  <2> QED BY <2>2, <2>3, NoneAssumption DEF OpenAfter
<1>2. CASE u \notin Olders(Reverted(C, st))
  <2>1. status'[u] = st[u] /\ by'[u] = by[u] /\ closed'[u] = closed[u]
    BY <1>2 DEF UndoSupersessions, StatusAfter, ByAfter, ClosedAfter
  <2> QED BY <2>1 DEF OpenAfter
<1> QED BY <1>1, <1>2

LEMMA WithdrawnAreOpen ==
    ASSUME TypeInv, OpenInv, NEW R \in SUBSET Unit, NEW W,
           NEW st \in [Unit -> {None, "active", "superseded", "retracted"}],
           \A u \in Unit : st[u] = status[u] \/ st[u] = "retracted",
           RetractUnitDependents(R, W, st)
    PROVE  OpenInv'
<1>1. UnitTypes /\ PairTypes
  BY TypeParts DEF TypeInv
<1>2. /\ UndoSupersessions(CausedBy(R), st) /\ PropagateWithdrawal(R, W)
      /\ CausedBy(R) \in SUBSET supersessions /\ CausedBy(R) \subseteq Supersession
  BY <1>1 DEF RetractUnitDependents, CausedBy, PairTypes
<1>3. \A u \in Unit : OpenAfter(u)
  BY <1>1, <1>2, UndoneAreOpen
<1>4. supersessions' \subseteq supersessions
  BY <1>1, <1>2, GoesAlong
<1> QED BY <1>3, <1>4, OpenKept DEF OpenInv

LEMMA RecordOpen ==
    ASSUME TypeInv, OpenInv, NEW s \in Scanner, NEW v \in Unit, Record(s, v)
    PROVE  OpenInv'
<1>0. PICK u \in Unit, wasClosed \in BOOLEAN :
          u = scan[s].unit /\ wasClosed = scan[s].wasClosed
  BY TwoUnits
<1> DEFINE p    == {u, v}
           srcs == (sources[u] \cup sources[v]) \ gone
<1>1. UnitTypes /\ SourceTypes /\ PairTypes
  BY TypeParts DEF TypeInv
<1>2. Superseding(p, srcs) /\ p \subseteq Unit
  BY <1>0, <1>1, TwoUnits, ConflictOutcome DEF Record
<1> HIDE DEF srcs
<1>3. CASE KeepUnits
  BY <1>3, OpenKept DEF KeepUnits, OpenAfter, OpenInv
<1>4. ASSUME NEW old \in p, NEW new \in p \ {old}, NEW was \in BOOLEAN,
             status[old] = "active", was = closed[old],
             Supersede(old, new, [older |-> old, newer |-> new,
                                  closedBefore |-> was, sources |-> srcs])
      PROVE  OpenInv'
  <2>1. ~ was /\ old \in Unit
    BY <1>2, <1>4 DEF OpenInv, CurrentClaimsAreOpen
  <2>2. \A c \in supersessions' : ~ c.closedBefore
    BY <1>4, <2>1 DEF Supersede, OpenInv
  <2>3. \A w \in Unit : OpenAfter(w) \/ status'[w] = "superseded"
    BY <1>1, <1>4, <2>1 DEF Supersede, OpenAfter, UnitTypes
  <2> QED BY <2>2, <2>3, OpenKept
<1> QED BY <1>2, <1>3, <1>4 DEF Superseding

LEMMA OpenStep ==
    ASSUME "restore" \notin Deeds, TypeInv, OpenInv, [Next]_vars
    PROVE  OpenInv'
<1>1. UnitTypes /\ PairTypes
  BY TypeParts DEF TypeInv
<1>2. ASSUME UNCHANGED <<status, by, closed>>, supersessions' \subseteq supersessions
      PROVE  OpenInv'
  BY <1>2 DEF OpenInv, CurrentClaimsAreOpen
<1>3. ASSUME NEW s \in Scanner, ScannerStep(s) \/ Fail(s) PROVE OpenInv'
  <2>1. ASSUME ~ \E v \in Unit : Record(s, v) PROVE OpenInv'
    BY <1>2, <1>3, <2>1 DEF ScannerStep, LoadCandidates, Claim, ClaimLost, Fail,
                            Finish, Load, Skip, GoIdle, certs, units
  <2> QED BY <2>1, RecordOpen
<1>4. ASSUME NEW u \in Unit, UnitStep(u) PROVE OpenInv'
  <2>1. CASE Reject(u)
    <3> DEFINE st == [status EXCEPT ![u] = "retracted"]
    <3>1. /\ st \in [Unit -> {None, "active", "superseded", "retracted"}]
          /\ \A v \in Unit : st[v] = status[v] \/ st[v] = "retracted"
      BY <1>1 DEF UnitTypes
    <3>2. RetractUnitDependents({u}, gone, st)
      BY <2>1 DEF Reject
    <3> HIDE DEF st
    <3> QED BY <3>1, <3>2, WithdrawnAreOpen
  <2>2. ASSUME NEW t, NEW x, EditUnit(u, t, x) PROVE OpenInv'
    <3>1. status \in [Unit -> {None, "active", "superseded", "retracted"}]
      BY <1>1 DEF UnitTypes
    <3> QED BY <2>2, <3>1, WithdrawnAreOpen DEF EditUnit
  <2>3. ASSUME NEW t \in Time, NEW x \in Subject, NEW a \in Artifact, Persist(u, t, x, a)
        PROVE  OpenInv'
    <3>1. /\ status[u] = None /\ status' = [status EXCEPT ![u] = "active"]
          /\ UNCHANGED <<by, closed, supersessions>>
      BY <2>3 DEF Persist, certs
    <3>2. by'[u] = None /\ ~ closed'[u] /\ status'[u] = "active"
      BY <1>1, <3>1 DEF OpenInv, UnitTypes
    <3>3. \A v \in Unit : OpenAfter(v)
      BY <1>1, <3>1, <3>2, NoneAssumption DEF OpenAfter, UnitTypes
    <3> QED BY <3>1, <3>3, OpenKept DEF OpenInv
  <2>4. ASSUME NEW a \in Artifact, Reassert(u, a) PROVE OpenInv'
    BY <1>2, <2>4 DEF Reassert, units, certs
  <2> QED BY <1>4, <2>1, <2>2, <2>3, <2>4 DEF UnitStep, Edit, Resave, Restore, Deed
<1>5. ASSUME NEW p \in Pair, PairStep(p) PROVE OpenInv'
  <2>1. CASE Settle(p) \/ Agree(p)
    BY <1>2, <2>1 DEF Settle, Agree, units
  <2>2. ASSUME NEW l \in p, Resolve(p, l) PROVE OpenInv'
    <3>1. /\ status' = [status EXCEPT ![l] = "superseded"] /\ supersessions' = supersessions
          /\ \A v \in Unit \ {l} : by'[v] = by[v] /\ closed'[v] = closed[v]
      BY <1>1, <2>2 DEF Resolve, UnitTypes
    <3>2. \A v \in Unit : OpenAfter(v) \/ status'[v] = "superseded"
      BY <1>1, <3>1 DEF OpenAfter, UnitTypes
    <3> QED BY <3>1, <3>2, OpenKept DEF OpenInv
  <2>3. CASE Confirm(p)
    <3>1. /\ Between(p) \in SUBSET supersessions /\ Between(p) \subseteq Supersession
          /\ status \in [Unit -> {None, "active", "superseded", "retracted"}]
          /\ UndoSupersessions(Between(p), status) /\ supersessions' \subseteq supersessions
      BY <1>1, <2>3 DEF Confirm, Between, PairTypes, UnitTypes
    <3>2. \A u \in Unit : OpenAfter(u)
      BY <1>1, <3>1, UndoneAreOpen
    <3> QED BY <3>1, <3>2, OpenKept DEF OpenInv
  <2> QED BY <1>5, <2>1, <2>2, <2>3 DEF PairStep
<1>6. ASSUME NEW a \in Artifact, RetractArtifact(a) PROVE OpenInv'
  <2> DEFINE R  == Orphans(a)
             W  == gone \cup {a}
             st == [u \in Unit |-> IF u \in R THEN "retracted" ELSE status[u]]
  <2>1. /\ R \in SUBSET Unit
        /\ st \in [Unit -> {None, "active", "superseded", "retracted"}]
        /\ \A u \in Unit : st[u] = status[u] \/ st[u] = "retracted"
    BY <1>1 DEF Orphans, UnitTypes
  <2>2. \/ RetractUnitDependents(R, W, st)
        \/ PropagateWithdrawal({}, W) /\ UNCHANGED <<status, by, closed>>
    BY <1>6 DEF RetractArtifact
  <2> HIDE DEF R, W, st
  <2>3. {} \in SUBSET Unit
    OBVIOUS
  <2>4. CASE PropagateWithdrawal({}, W) /\ UNCHANGED <<status, by, closed>>
    BY <1>1, <1>2, <2>3, <2>4, GoesAlong
  <2> QED BY <2>1, <2>2, <2>4, WithdrawnAreOpen
<1>7. CASE Merge \/ Split
  BY <1>2, <1>7 DEF Merge, Split, certs
<1>8. CASE UNCHANGED vars
  BY <1>2, <1>8 DEF vars
<1> QED BY <1>3, <1>4, <1>5, <1>6, <1>7, <1>8 DEF Next

\* As long as nobody restores a rejected claim, a current claim bears no trace
\* of having been superseded: every undo clears valid_to and the pointer.
THEOREM CurrentOnesAreOpen ==
    ASSUME "restore" \notin Deeds
    PROVE  Spec => []CurrentClaimsAreOpen
<1>1. Init => TypeInv /\ OpenInv
  BY InitTypes DEF Init, OpenInv, CurrentClaimsAreOpen
<1>2. TypeInv /\ OpenInv /\ [Next]_vars => TypeInv' /\ OpenInv'
  BY TypeStep, OpenStep
<1>3. OpenInv => CurrentClaimsAreOpen
  BY DEF OpenInv
<1> QED BY <1>1, <1>2, <1>3, PTL DEF Spec

-----------------------------------------------------------------------------
(* The graph.  A live certificate is what took the edges of its older claim *)
(* away, and the pointer of that claim names its newer one; so undoing the  *)
(* certificate brings claim and edges back together.  Resolving a conflict  *)
(* moves the pointer and leaves the certificate, a withdrawal drops it and  *)
(* leaves the pointer: with those deeds, and with restoring, the two part.  *)

EdgesInv ==
    /\ EdgesFollowUnits
    /\ \A c \in supersessions : /\ c.older # c.newer
                                /\ by[c.older] = c.newer /\ edges[c.older] = "superseded"

LEMMA EdgesKept ==
    ASSUME EdgesInv, supersessions' \subseteq supersessions,
           \A c \in supersessions' : /\ by'[c.older] = by[c.older]
                                    /\ edges'[c.older] = edges[c.older],
           \A u \in Unit : (edges'[u] = "active") = (status'[u] = "active")
    PROVE  EdgesInv'
BY DEF EdgesInv, EdgesFollowUnits

\* Undoing certificates C brings back their older claims, with their edges, and
\* nothing else.
LEMMA UndoneEdges ==
    ASSUME TypeInv, RecordsInv, EdgesInv, NEW C \in SUBSET supersessions,
           NEW st \in [Unit -> {None, "active", "superseded", "retracted"}],
           NEW ed \in [Unit -> {None, "active", "superseded", "retracted"}],
           \A c \in C : st[c.older] = status[c.older] /\ ed[c.older] = edges[c.older],
           UndoSupersessions(C, st), NEW u \in Unit
    PROVE  /\ u \in Olders(C) => status'[u] = "active" /\ EdgesAfter(C, ed)[u] = "active"
           /\ u \notin Olders(C) => /\ status'[u] = st[u] /\ by'[u] = by[u]
                                   /\ EdgesAfter(C, ed)[u] = ed[u]
<1>1. CASE u \in Olders(C)
  <2>1. PICK c \in C : c.older = u
    BY <1>1 DEF Olders
  <2>2. st[u] = "superseded" /\ by[u] = c.newer /\ ed[u] = "superseded"
    BY <2>1 DEF RecordsInv, SupersessionsInForce, EdgesInv
  <2>3. c \in Reverted(C, st)
    BY <2>1, <2>2 DEF Reverted
  <2>4. u \in Olders(Reverted(C, st))
    BY <2>1, <2>3 DEF Olders
  <2>5. status'[u] = "active"
    BY <2>4 DEF UndoSupersessions, StatusAfter
  <2>6. EdgesAfter(C, ed)[u] = "active"
    BY <1>1, <2>2 DEF EdgesAfter
  <2> QED BY <1>1, <2>5, <2>6
<1>2. CASE u \notin Olders(C)
  <2>1. u \notin Olders(Reverted(C, st))
    BY <1>2 DEF Olders, Reverted
  <2>2. status'[u] = st[u] /\ by'[u] = by[u]
    BY <2>1 DEF UndoSupersessions, StatusAfter, ByAfter
  <2>3. EdgesAfter(C, ed)[u] = ed[u]
    BY <1>2 DEF EdgesAfter
  <2> QED BY <1>2, <2>2, <2>3
<1> QED BY <1>1, <1>2

\* A single unit u that is withdrawn or rewritten, st being its status then.
LEMMA WithdrawnEdges ==
    ASSUME TypeInv, RecordsInv, EdgesInv, NEW u \in Unit,
           NEW st \in [Unit -> {None, "active", "superseded", "retracted"}],
           \A v \in Unit \ {u} : st[v] = status[v],
           RetractUnitDependents({u}, gone, st),
           \A v \in Unit \ {u} :
               edges'[v] = EdgesAfter(CausedBy({u}), Deactivated({u}))[v],
           (edges'[u] = "active") = (st[u] = "active")
    PROVE  EdgesInv'
<1> DEFINE C  == CausedBy({u})
           ed == Deactivated({u})
<1>1. UnitTypes /\ PairTypes
  BY TypeParts DEF TypeInv
<1>2. /\ C \in SUBSET supersessions
      /\ \A c \in C : c.newer = u /\ c.older \in Unit /\ c.older # u
  BY <1>1 DEF CausedBy, PairTypes, Supersession, EdgesInv
<1>3. /\ ed \in [Unit -> {None, "active", "superseded", "retracted"}]
      /\ \A v \in Unit \ {u} : ed[v] = edges[v]
  BY <1>1 DEF Deactivated, UnitTypes
<1>4. UndoSupersessions(C, st) /\ PropagateWithdrawal({u}, gone)
  BY DEF RetractUnitDependents
<1>5. /\ supersessions' \subseteq supersessions
      /\ \A c \in supersessions' : c.older # u /\ c.newer # u
  <2>1. {u} \in SUBSET Unit
    OBVIOUS
  <2> QED BY <1>1, <1>4, <2>1, GoesAlong
<1>6. \A v \in Unit \ {u} : edges'[v] = EdgesAfter(C, ed)[v]
  OBVIOUS
<1>7. \A c \in supersessions' : c.older \notin Olders(C) /\ c.older \in Unit
  <2>1. \A c \in supersessions', d \in C : c.older # d.older
    BY <1>2, <1>5 DEF RecordsInv, SupersessionsInForce
  <2> QED BY <1>1, <1>5, <2>1 DEF Olders, PairTypes, Supersession
<1>8. u \notin Olders(C)
  BY <1>2 DEF Olders
<1> HIDE DEF C, ed
<1>9. \A v \in Unit :
          /\ v \in Olders(C) => status'[v] = "active" /\ EdgesAfter(C, ed)[v] = "active"
          /\ v \notin Olders(C) => /\ status'[v] = st[v] /\ by'[v] = by[v]
                                  /\ EdgesAfter(C, ed)[v] = ed[v]
  BY <1>2, <1>3, <1>4, UndoneEdges
<1>10. \A v \in Unit : (edges'[v] = "active") = (status'[v] = "active")
  <2> SUFFICES ASSUME NEW v \in Unit PROVE (edges'[v] = "active") = (status'[v] = "active")
    OBVIOUS
  <2>1. CASE v = u
    BY <1>8, <1>9, <2>1
  <2>2. CASE v # u
    BY <1>3, <1>6, <1>9, <2>2 DEF EdgesInv, EdgesFollowUnits
  <2> QED BY <2>1, <2>2
<1>11. \A c \in supersessions' : by'[c.older] = by[c.older] /\ edges'[c.older] = edges[c.older]
  BY <1>3, <1>5, <1>6, <1>7, <1>9
<1> QED BY <1>5, <1>10, <1>11, EdgesKept

LEMMA RejectEdges ==
    ASSUME TypeInv, RecordsInv, EdgesInv, NEW u \in Unit, Reject(u)
    PROVE  EdgesInv'
<1> DEFINE st == [status EXCEPT ![u] = "retracted"]
<1>1. UnitTypes /\ PairTypes
  BY TypeParts DEF TypeInv
<1>2. /\ st \in [Unit -> {None, "active", "superseded", "retracted"}]
      /\ \A v \in Unit \ {u} : st[v] = status[v]
      /\ st[u] = "retracted"
  BY <1>1 DEF UnitTypes
<1>3. /\ RetractUnitDependents({u}, gone, st)
      /\ edges' = EdgesAfter(CausedBy({u}), Deactivated({u}))
  BY DEF Reject
<1>4. edges'[u] # "active"
  <2>1. u \notin Olders(CausedBy({u}))
    BY <1>1 DEF Olders, CausedBy, EdgesInv
  <2>2. Deactivated({u})[u] # "active"
    BY DEF Deactivated
  <2> QED BY <1>3, <2>1, <2>2 DEF EdgesAfter
<1> HIDE DEF st
<1> QED BY <1>2, <1>3, <1>4, WithdrawnEdges

LEMMA EditEdges ==
    ASSUME TypeInv, RecordsInv, EdgesInv, NEW u \in Unit, NEW t, NEW x, EditUnit(u, t, x)
    PROVE  EdgesInv'
<1>1. UnitTypes
  BY TypeParts DEF TypeInv
<1>2. /\ status \in [Unit -> {None, "active", "superseded", "retracted"}]
      /\ RetractUnitDependents({u}, gone, status)
  BY <1>1 DEF UnitTypes, EditUnit
<1> DEFINE ed == EdgesAfter(CausedBy({u}), Deactivated({u}))
<1>3. edges' = [ed EXCEPT ![u] = IF status[u] = "active" THEN "active" ELSE None]
  BY DEF EditUnit
<1>4. ed = [v \in Unit |-> ed[v]]
  BY DEF EdgesAfter
<1> HIDE DEF ed
<1>5. /\ \A v \in Unit \ {u} : edges'[v] = ed[v]
      /\ (edges'[u] = "active") = (status[u] = "active")
  BY <1>3, <1>4, NoneAssumption
<1> QED BY <1>2, <1>5, WithdrawnEdges DEF ed

LEMMA ConfirmEdges ==
    ASSUME TypeInv, RecordsInv, EdgesInv, NEW p \in Pair, Confirm(p)
    PROVE  EdgesInv'
<1> DEFINE C == Between(p)
<1>1. UnitTypes /\ PairTypes
  BY TypeParts DEF TypeInv
<1>2. /\ C \in SUBSET supersessions /\ UndoSupersessions(C, status)
      /\ supersessions' = supersessions \ C /\ edges' = EdgesAfter(C, edges)
      /\ status \in [Unit -> {None, "active", "superseded", "retracted"}]
      /\ edges \in [Unit -> {None, "active", "superseded", "retracted"}]
  BY <1>1 DEF Confirm, Between, UnitTypes
<1> HIDE DEF C
<1>3. \A v \in Unit :
          /\ v \in Olders(C) => status'[v] = "active" /\ edges'[v] = "active"
          /\ v \notin Olders(C) => /\ status'[v] = status[v] /\ by'[v] = by[v]
                                  /\ edges'[v] = edges[v]
  BY <1>2, UndoneEdges
<1>4. \A v \in Unit : (edges'[v] = "active") = (status'[v] = "active")
  BY <1>3 DEF EdgesInv, EdgesFollowUnits
<1>5. \A c \in supersessions' : c.older \notin Olders(C) /\ c.older \in Unit
  <2>1. \A c \in supersessions', d \in C : c.older # d.older
    BY <1>2 DEF RecordsInv, SupersessionsInForce
  <2> QED BY <1>1, <1>2, <2>1 DEF Olders, PairTypes, Supersession
<1> QED BY <1>2, <1>3, <1>4, <1>5, EdgesKept

LEMMA RecordEdges ==
    ASSUME TypeInv, RecordsInv, EdgesInv, NEW s \in Scanner, NEW v \in Unit, Record(s, v)
    PROVE  EdgesInv'
<1>0. PICK u \in Unit, wasClosed \in BOOLEAN :
          u = scan[s].unit /\ wasClosed = scan[s].wasClosed
  BY TwoUnits
<1> DEFINE p    == {u, v}
           srcs == (sources[u] \cup sources[v]) \ gone
<1>1. UnitTypes /\ SourceTypes /\ PairTypes
  BY TypeParts DEF TypeInv
<1>2. Superseding(p, srcs) /\ p \subseteq Unit
  BY <1>0, <1>1, TwoUnits, ConflictOutcome DEF Record
<1> HIDE DEF srcs
<1>3. CASE KeepUnits
  BY <1>3 DEF KeepUnits, EdgesInv, EdgesFollowUnits
<1>4. ASSUME NEW old \in p, NEW new \in p \ {old}, NEW was \in BOOLEAN,
             status[old] = "active",
             Supersede(old, new, [older |-> old, newer |-> new,
                                  closedBefore |-> was, sources |-> srcs])
      PROVE  EdgesInv'
  <2> DEFINE cert == [older |-> old, newer |-> new, closedBefore |-> was, sources |-> srcs]
  <2>1. old \in Unit /\ edges[old] = "active"
    BY <1>2, <1>4 DEF EdgesInv, EdgesFollowUnits
  <2>2. /\ status'[old] = "superseded" /\ by'[old] = new /\ edges'[old] = "superseded"
        /\ \A w \in Unit \ {old} : status'[w] = status[w] /\ by'[w] = by[w] /\ edges'[w] = edges[w]
        /\ supersessions' \subseteq supersessions \cup {cert}
    BY <1>1, <1>4, <2>1 DEF Supersede, UnitTypes
  <2>3. \A c \in supersessions : c.older \in Unit /\ c.older # old
    BY <1>1, <1>4 DEF PairTypes, Supersession, RecordsInv, SupersessionsInForce
  <2>4. cert.older = old /\ cert.newer = new /\ old # new
    OBVIOUS
  <2> HIDE DEF cert
  <2>5. EdgesFollowUnits'
    BY <2>2 DEF EdgesInv, EdgesFollowUnits
  <2>6. ASSUME NEW c \in supersessions'
        PROVE  c.older # c.newer /\ by'[c.older] = c.newer /\ edges'[c.older] = "superseded"
    <3>1. CASE c = cert
      BY <2>2, <2>4, <3>1
    <3>2. CASE c \in supersessions
      BY <2>2, <2>3, <3>2 DEF EdgesInv
    <3> QED BY <2>2, <3>1, <3>2
  <2> QED BY <2>5, <2>6 DEF EdgesInv
<1> QED BY <1>2, <1>3, <1>4 DEF Superseding

LEMMA EdgesStep ==
    ASSUME Deeds \cap {"resolve", "retract", "restore"} = {},
           TypeInv, RecordsInv, EdgesInv, [Next]_vars
    PROVE  EdgesInv'
<1>1. UnitTypes /\ PairTypes
  BY TypeParts DEF TypeInv
<1>2. ASSUME UNCHANGED <<status, by, edges, supersessions>> PROVE EdgesInv'
  BY <1>2 DEF EdgesInv, EdgesFollowUnits
<1>3. ASSUME NEW s \in Scanner, ScannerStep(s) \/ Fail(s) PROVE EdgesInv'
  <2>1. ASSUME ~ \E v \in Unit : Record(s, v) PROVE EdgesInv'
    BY <1>2, <1>3, <2>1 DEF ScannerStep, LoadCandidates, Claim, ClaimLost, Fail,
                            Finish, Load, Skip, GoIdle, certs, units
  <2> QED BY <2>1, RecordEdges
<1>4. ASSUME NEW u \in Unit, UnitStep(u) PROVE EdgesInv'
  <2>1. ASSUME NEW t \in Time, NEW x \in Subject, NEW a \in Artifact, Persist(u, t, x, a)
        PROVE  EdgesInv'
    <3>1. /\ status[u] = None /\ status' = [status EXCEPT ![u] = "active"]
          /\ edges' = [edges EXCEPT ![u] = "active"] /\ UNCHANGED <<by, supersessions>>
      BY <2>1 DEF Persist, certs
    <3>2. \A c \in supersessions : c.older \in Unit /\ c.older # u
      BY <1>1, <3>1, NoneAssumption DEF PairTypes, Supersession, RecordsInv, SupersessionsInForce
    <3>3. \A v \in Unit : (edges'[v] = "active") = (status'[v] = "active")
      BY <1>1, <3>1 DEF EdgesInv, EdgesFollowUnits, UnitTypes
    <3>4. \A c \in supersessions : edges'[c.older] = edges[c.older]
      BY <1>1, <3>1, <3>2 DEF UnitTypes
    <3> QED BY <3>1, <3>3, <3>4, EdgesKept
  <2>2. ASSUME NEW a \in Artifact, Reassert(u, a) PROVE EdgesInv'
    BY <1>2, <2>2 DEF Reassert, units, certs
  <2> QED BY <1>4, <2>1, <2>2, RejectEdges, EditEdges DEF UnitStep, Edit, Resave, Restore, Deed
<1>5. ASSUME NEW p \in Pair, PairStep(p) PROVE EdgesInv'
  <2>1. CASE Settle(p) \/ Agree(p)
    BY <1>2, <2>1 DEF Settle, Agree, units
  <2> QED BY <1>5, <2>1, ConfirmEdges DEF PairStep, Resolve, Deed
<1>6. CASE Merge \/ Split
  BY <1>2, <1>6 DEF Merge, Split, certs
<1>7. CASE UNCHANGED vars
  BY <1>2, <1>7 DEF vars
<1> QED BY <1>3, <1>4, <1>5, <1>6, <1>7 DEF Next, RetractArtifact, Deed

\* Edges and validity follow the claims through scans, rejections, edits,
\* confirmations, merges and splits of any number of claims, by any number of
\* scanners, as long as nobody resolves, withdraws or restores: each of those
\* deeds parts a certificate from what it did.
THEOREM GraphIsFollowed ==
    ASSUME Deeds \cap {"resolve", "retract", "restore"} = {}
    PROVE  Spec => []GraphFollowsClaims
<1>1. Init => TypeInv /\ PairsInv /\ RecordsInv /\ OpenInv /\ EdgesInv
  <2> SUFFICES ASSUME Init PROVE OpenInv /\ EdgesInv
    BY InitTypes, InitPairs, InitRecords
  <2>1. OpenInv
    BY DEF Init, OpenInv, CurrentClaimsAreOpen
  <2>2. EdgesInv
    BY DEF Init, EdgesInv, EdgesFollowUnits
  <2> QED BY <2>1, <2>2
<1>2. TypeInv /\ PairsInv /\ RecordsInv /\ OpenInv /\ EdgesInv /\ [Next]_vars
          => TypeInv' /\ PairsInv' /\ RecordsInv' /\ OpenInv' /\ EdgesInv'
  BY TypeStep, PairsStep, RecordsStep, OpenStep, EdgesStep DEF PairsInv
<1>3. OpenInv /\ EdgesInv => GraphFollowsClaims
  BY DEF OpenInv, EdgesInv, GraphFollowsClaims
<1> QED BY <1>1, <1>2, <1>3, PTL DEF Spec

-----------------------------------------------------------------------------
(* Conflicts on show.  The row of a conflict found between two claims that *)
(* are current as they were judged is only withdrawn when a withdrawal     *)
(* reaches one of the two.  It reaches, besides the units withdrawn, older *)
(* claims of certificates, and those are superseded: either they stay so,  *)
(* or they come back as revised rows and are judged again.                 *)

LEMMA ReachedAreSuperseded ==
    ASSUME SupersessionsInForce, NEW R, NEW W
    PROVE  \A u \in Reached(R, W) : u \in R \/ status[u] = "superseded"
<1> DEFINE S == R \cup Olders(supersessions)
<1>1. PICK reach : AreRounds(reach, R, W) /\ Reached(R, W) = reach[7]
  BY RoundsOf
<1>2. \A X : Olders(Lapsed(X, W)) \subseteq S
  BY DEF Olders, Lapsed
<1>3. \A u \in S : u \in R \/ status[u] = "superseded"
  BY DEF SupersessionsInForce, Olders
<1>4. R \subseteq S
  OBVIOUS
<1> HIDE DEF S
<1>5. \A n \in 1..7 : reach[n - 1] \subseteq S => reach[n] \subseteq S
  BY <1>1, <1>2 DEF AreRounds
<1>6. reach[0] \subseteq S /\ reach[1] \subseteq S /\ reach[2] \subseteq S /\ reach[3] \subseteq S
  BY <1>1, <1>4, <1>5 DEF AreRounds
<1>7. reach[4] \subseteq S /\ reach[5] \subseteq S /\ reach[6] \subseteq S /\ reach[7] \subseteq S
  BY <1>5, <1>6
<1> QED BY <1>1, <1>3, <1>7

Current(p) == \A u \in p : status[u] = "active"

FoundInv ==
    /\ gone = {}
    /\ \A p \in found : Current(p) => contradiction[p] \notin {None, "withdrawn"}
    /\ \A p \in Pair : verdict[p] = "confirmed" => contradiction[p] # None

\* What was found of rows that no step revised stays good while their rows do.
LEMMA FoundKept ==
    ASSUME TypeInv, FoundInv, gone' = gone, verdict' = verdict,
           NEW R \in SUBSET Unit, found' = {p \in found : p \cap R = {}},
           \A u \in Unit \ R : status'[u] = "active" => status[u] = "active",
           \A p \in Pair : \/ contradiction'[p] = contradiction[p]
                           \/ contradiction'[p] \notin {None, "withdrawn"}
                           \/ contradiction'[p] # None /\ (p \cap R # {} \/ ~ Current(p)')
    PROVE  FoundInv'
<1>1. found \subseteq Pair /\ \A p \in Pair : p \subseteq Unit
  BY InPair, TypeParts DEF TypeInv, HistoryTypes
<1>2. \A p \in found' : Current(p)' => contradiction'[p] \notin {None, "withdrawn"}
  <2> SUFFICES ASSUME NEW p \in found', Current(p)'
               PROVE  contradiction'[p] \notin {None, "withdrawn"}
    OBVIOUS
  <2>1. p \in found /\ p \cap R = {} /\ p \in Pair /\ p \subseteq Unit
    BY <1>1
  <2>2. Current(p)
    BY <2>1 DEF Current
  <2>3. contradiction[p] \notin {None, "withdrawn"}
    BY <2>1, <2>2 DEF FoundInv
  <2> QED BY <2>1, <2>3
<1>3. \A p \in Pair : verdict'[p] = "confirmed" => contradiction'[p] # None
  BY DEF FoundInv
<1> QED BY <1>2, <1>3 DEF FoundInv

\* A single unit is withdrawn or rewritten, and revised unless it was not
\* current before or after.
LEMMA WithdrawnFound ==
    ASSUME TypeInv, RecordsInv, FoundInv, NEW u \in Unit, NEW X \in SUBSET Unit,
           NEW st \in [Unit -> {None, "active", "superseded", "retracted"}],
           \A v \in Unit \ {u} : st[v] = status[v],
           RetractUnitDependents({u}, gone, st), Revise(X),
           UNCHANGED <<gone, verdict>>,
           u \in X \/ st[u] = "retracted"
    PROVE  FoundInv'
<1> DEFINE R == Revised(X)
           C == CausedBy({u})
<1>1. UnitTypes /\ PairTypes
  BY TypeParts DEF TypeInv
<1>2. /\ R \in SUBSET Unit /\ X \subseteq R /\ found' = {p \in found : p \cap R = {}}
      /\ \A v \in Unit \ R : status'[v] = status[v]
  BY DEF Revised, Revise
<1>3. /\ UndoSupersessions(C, st) /\ WithdrawContradictions({u}, gone)
      /\ C \in SUBSET Supersession
  BY <1>1 DEF RetractUnitDependents, CausedBy, PairTypes
<1>4. u \in R \/ status'[u] # "active"
  <2>1. CASE u \in X
    BY <1>2, <2>1
  <2>2. CASE st[u] = "retracted"
    <3>1. status'[u] = st[u] \/ \E c \in C : c.older = u /\ st[u] = "superseded"
      BY <1>1, <1>3, ComesBack
    <3> QED BY <2>2, <3>1
  <2> QED BY <2>1, <2>2
<1>5. \A p \in Pair : \/ contradiction'[p] = contradiction[p]
                      \/ contradiction'[p] # None /\ (p \cap R # {} \/ ~ Current(p)')
  <2> SUFFICES ASSUME NEW p \in Pair, contradiction'[p] # contradiction[p]
               PROVE  contradiction'[p] # None /\ (p \cap R # {} \/ ~ Current(p)')
    OBVIOUS
  <2>1. /\ contradiction'[p] = "withdrawn"
        /\ u \in p \/ p \in LapsedReadings({u}, gone)
    BY <1>1, <1>3 DEF WithdrawContradictions, PairTypes
  <2>2. PICK w \in p : w = u \/ status[w] = "superseded"
    <3>1. CASE u \in p
      BY <3>1
    <3>2. CASE p \in LapsedReadings({u}, gone)
      <4>1. p \cap Reached({u}, gone) # {}
        BY <3>2 DEF LapsedReadings, Unsupported, FoundInv
      <4>2. \A w \in Reached({u}, gone) : w \in {u} \/ status[w] = "superseded"
        BY ReachedAreSuperseded DEF RecordsInv
      <4> QED BY <4>1, <4>2
    <3> QED BY <2>1, <3>1, <3>2
  <2>3. w \in Unit
    BY InPair
  <2>4. w \in R \/ status'[w] # "active"
    BY <1>2, <1>4, <2>2, <2>3
  <2> QED BY <2>1, <2>4, NoneAssumption DEF Current
<1> HIDE DEF R
<1>6. \A v \in Unit \ R : status'[v] = "active" => status[v] = "active"
  BY <1>2
<1> QED BY <1>2, <1>5, <1>6, FoundKept

\* A step that revises what its status says and touches no row of a pair.
LEMMA RevisedFound ==
    ASSUME TypeInv, FoundInv, Revise({}), UNCHANGED <<gone, verdict>>,
           \A p \in Pair : \/ contradiction'[p] = contradiction[p]
                           \/ contradiction'[p] \notin {None, "withdrawn"}
    PROVE  FoundInv'
<1> DEFINE R == Revised({})
<1>1. /\ R \in SUBSET Unit /\ found' = {p \in found : p \cap R = {}}
      /\ \A v \in Unit \ R : status'[v] = "active" => status[v] = "active"
  BY DEF Revised, Revise
<1> HIDE DEF R
<1> QED BY <1>1, FoundKept

LEMMA QuietFound ==
    ASSUME TypeInv, FoundInv, UNCHANGED <<gone, verdict, status, found, contradiction>>
    PROVE  FoundInv'
BY DEF FoundInv, Current

\* A conflict a person confirmed has a row and is opened again; another one is
\* found when it is reported, and then shown unless a person dealt with it.
LEMMA RecordFound ==
    ASSUME TypeInv, FoundInv, NEW s \in Scanner, NEW v \in Unit, Record(s, v)
    PROVE  FoundInv'
<1>0. PICK u \in Unit, wasClosed \in BOOLEAN :
          u = scan[s].unit /\ wasClosed = scan[s].wasClosed
  BY TwoUnits
<1> DEFINE p    == {u, v}
           srcs == (sources[u] \cup sources[v]) \ gone
           R    == Revised({})
<1>1. UnitTypes /\ SourceTypes /\ PairTypes /\ HistoryTypes
  BY TypeParts DEF TypeInv
<1>2. /\ u # v /\ p \in Pair /\ RecordConflict(u, v, wasClosed)
      /\ UNCHANGED <<gone, verdict>>
      /\ found'  = {q \in IF \/ verdict[p] = "confirmed"
                             \/ reading'[p] # None /\ reading'[p].outcome = "reported"
                          THEN found \cup {p} ELSE found \ {p} : q \cap R = {}}
  BY <1>0, TwoUnits DEF Record
<1>3. Superseding(p, srcs) /\ Recording(p, srcs)
  BY <1>1, <1>2, ConflictOutcome
<1>4. \A w \in Unit \ R : status'[w] = status[w]
  BY DEF Revised
<1>5. \A q \in Pair \ {p} : contradiction'[q] = contradiction[q]
  BY <1>1, <1>2, <1>3 DEF Recording, Reopen, Block, Report, PairTypes
<1>6. p \in found' => contradiction'[p] \notin {None, "withdrawn"}
  <2>1. CASE verdict[p] = "confirmed"
    <3>1. contradiction[p] # None /\ Reopen(p)
      BY <1>2, <2>1 DEF FoundInv, RecordConflict
    <3> QED BY <1>1, <1>2, <3>1, NoneAssumption DEF Reopen, PairTypes
  <2>2. CASE verdict[p] # "confirmed"
    <3>1. Block(p, srcs) \/ Report(p, srcs)
      BY <1>2, <2>2 DEF RecordConflict
    <3> HIDE DEF srcs
    <3>2. CASE Block(p, srcs)
      BY <1>1, <1>2, <2>2, <3>2 DEF Block, PairTypes
    <3>3. CASE Report(p, srcs)
      <4>1. contradiction'[p] = IF Shown(p) THEN "open" ELSE contradiction[p]
        BY <1>1, <1>2, <3>3 DEF Report, PairTypes
      <4> QED BY <4>1, NoneAssumption DEF Shown
    <3> QED BY <3>1, <3>2, <3>3
  <2> QED BY <2>1, <2>2
<1>7. verdict[p] = "confirmed" => contradiction'[p] # None
  BY <1>1, <1>2, NoneAssumption DEF RecordConflict, Reopen, FoundInv, PairTypes
<1> HIDE DEF srcs, R
<1>8. ASSUME NEW q \in found', Current(q)'
      PROVE  contradiction'[q] \notin {None, "withdrawn"}
  <2>1. CASE q = p
    BY <1>6, <1>8, <2>1
  <2>2. CASE q # p
    <3>1. q \in found /\ q \in Pair /\ q \cap R = {}
      BY <1>1, <1>2, <1>8, <2>2 DEF HistoryTypes
    <3>2. Current(q)
      BY <1>4, <1>8, <3>1, InPair DEF Current
    <3> QED BY <1>5, <2>2, <3>1, <3>2 DEF FoundInv
  <2> QED BY <2>1, <2>2
<1>9. ASSUME NEW q \in Pair, verdict'[q] = "confirmed" PROVE contradiction'[q] # None
  BY <1>2, <1>5, <1>7, <1>9 DEF FoundInv
<1>10. gone' = {}
  BY <1>2 DEF FoundInv
<1> QED BY <1>8, <1>9, <1>10 DEF FoundInv

\* Confirming opens the row of the pair.
LEMMA ConfirmFound ==
    ASSUME TypeInv, FoundInv, NEW p \in Pair, Confirm(p)
    PROVE  FoundInv'
<1>1. PairTypes /\ HistoryTypes
  BY TypeParts DEF TypeInv
<1>2. /\ verdict' = [verdict EXCEPT ![p] = "confirmed"]
      /\ contradiction' = [contradiction EXCEPT ![p] = "open"]
      /\ gone' = gone /\ Revise({})
  BY DEF Confirm
<1>3. /\ contradiction'[p] = "open"
      /\ \A q \in Pair \ {p} : contradiction'[q] = contradiction[q] /\ verdict'[q] = verdict[q]
  BY <1>1, <1>2 DEF PairTypes
<1>4. ASSUME NEW q \in found', Current(q)'
      PROVE  contradiction'[q] \notin {None, "withdrawn"}
  <2>1. q \in found /\ q \in Pair /\ q \cap Revised({}) = {} /\ q \subseteq Unit
    BY <1>1, <1>2, InPair DEF Revise, HistoryTypes
  <2>2. Current(q)
    BY <1>4, <2>1 DEF Current, Revised
  <2> QED BY <1>3, <2>1, <2>2, NoneAssumption DEF FoundInv
<1>5. \A q \in Pair : verdict'[q] = "confirmed" => contradiction'[q] # None
  BY <1>3, NoneAssumption DEF FoundInv
<1> QED BY <1>2, <1>4, <1>5 DEF FoundInv

LEMMA FoundStep ==
    ASSUME Deeds \cap {"retract", "resave", "split"} = {},
           TypeInv, RecordsInv, FoundInv, [Next]_vars
    PROVE  FoundInv'
<1>1. UnitTypes /\ PairTypes
  BY TypeParts DEF TypeInv
<1>2. ASSUME NEW s \in Scanner, ScannerStep(s) \/ Fail(s) PROVE FoundInv'
  <2>1. ASSUME ~ \E v \in Unit : Record(s, v) PROVE FoundInv'
    BY <1>2, <2>1, QuietFound DEF ScannerStep, LoadCandidates, Claim, ClaimLost, Fail,
                                  Finish, Load, Skip, GoIdle, certs, units, history
  <2> QED BY <2>1, RecordFound
<1>3. ASSUME NEW u \in Unit, UnitStep(u) PROVE FoundInv'
  <2>1. CASE Reject(u)
    <3> DEFINE st == [status EXCEPT ![u] = "retracted"]
    <3>1. /\ st \in [Unit -> {None, "active", "superseded", "retracted"}]
          /\ \A v \in Unit \ {u} : st[v] = status[v]
          /\ st[u] = "retracted" /\ {} \in SUBSET Unit
      BY <1>1 DEF UnitTypes
    <3>2. RetractUnitDependents({u}, gone, st) /\ Revise({}) /\ UNCHANGED <<gone, verdict>>
      BY <2>1 DEF Reject
    <3> HIDE DEF st
    <3> QED BY <3>1, <3>2, WithdrawnFound
  <2>2. ASSUME NEW t, NEW x, EditUnit(u, t, x), Revise({u}) PROVE FoundInv'
    <3>1. /\ status \in [Unit -> {None, "active", "superseded", "retracted"}]
          /\ RetractUnitDependents({u}, gone, status) /\ UNCHANGED <<gone, verdict>>
          /\ {u} \in SUBSET Unit /\ u \in {u}
      BY <1>1, <2>2 DEF UnitTypes, EditUnit
    <3> QED BY <2>2, <3>1, WithdrawnFound
  <2>3. CASE Restore(u) \/ \E t \in Time, x \in Subject, a \in Artifact : Persist(u, t, x, a)
    BY <2>3, RevisedFound DEF Restore, Persist, certs
  <2>4. ASSUME NEW a \in Artifact, Reassert(u, a) PROVE FoundInv'
    BY <2>4, QuietFound DEF Reassert, units, certs, history
  <2> QED BY <1>3, <2>1, <2>2, <2>3, <2>4 DEF UnitStep, Edit, Resave, Deed
<1>4. ASSUME NEW p \in Pair, PairStep(p) PROVE FoundInv'
  <2>1. ASSUME NEW l \in p, Resolve(p, l) PROVE FoundInv'
    <3>1. /\ Revise({}) /\ UNCHANGED <<gone, verdict>>
          /\ contradiction' = [contradiction EXCEPT ![p] = "decided"]
      BY <2>1 DEF Resolve
    <3>2. \A q \in Pair : contradiction'[q] \in {contradiction[q], "decided"}
      BY <1>1, <3>1 DEF PairTypes
    <3> QED BY <3>1, <3>2, RevisedFound, NoneAssumption
  <2>2. CASE Settle(p) \/ Agree(p)
    <3>1. /\ gone' = gone /\ status' = status /\ found' = found
          /\ \A q \in Pair : verdict'[q] \in {verdict[q], "notConflict"}
      BY <1>1, <2>2 DEF Settle, Agree, units, history, PairTypes
    <3>2. \A q \in Pair : contradiction'[q] \in {contradiction[q], "settled", "agreed"}
      BY <1>1, <2>2 DEF Settle, Agree, PairTypes
    <3>3. found \subseteq Pair
      BY TypeParts DEF TypeInv, HistoryTypes
    <3> QED BY <3>1, <3>2, <3>3, NoneAssumption DEF FoundInv, Current
  <2> QED BY <1>4, <2>1, <2>2, ConfirmFound DEF PairStep
<1>5. CASE Merge
  BY <1>5, RevisedFound DEF Merge, certs
<1>6. CASE UNCHANGED vars
  BY <1>6, QuietFound DEF vars
<1> QED BY <1>2, <1>3, <1>4, <1>5, <1>6 DEF Next, RetractArtifact, Split, Deed

\* A conflict found between two current claims is on show or a person dealt
\* with it: what a withdrawal takes off the list was judged on a row that is
\* revised, and comes back with the next scan.  Withdrawing a source, saving
\* a correction as it is and splitting subjects take rows off the list without
\* revising the claims; the theorem is about behaviours without these deeds.
THEOREM ConflictsStayOnShow ==
    ASSUME Deeds \cap {"retract", "resave", "split"} = {}
    PROVE  Spec => []ConflictsAreShown
<1>1. Init => TypeInv /\ PairsInv /\ RecordsInv /\ FoundInv
  <2> SUFFICES ASSUME Init PROVE FoundInv
    BY InitTypes, InitPairs, InitRecords
  <2>1. \A p \in Pair : verdict[p] # "confirmed"
    BY NoneAssumption DEF Init
  <2> QED BY <2>1 DEF Init, FoundInv
<1>2. TypeInv /\ PairsInv /\ RecordsInv /\ FoundInv /\ [Next]_vars
          => TypeInv' /\ PairsInv' /\ RecordsInv' /\ FoundInv'
  BY TypeStep, PairsStep, RecordsStep, FoundStep DEF PairsInv
<1>3. FoundInv => ConflictsAreShown
  BY DEF FoundInv, ConflictsAreShown, Current, Done
<1> QED BY <1>1, <1>2, <1>3, PTL DEF Spec
=============================================================================
