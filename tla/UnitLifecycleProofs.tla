------------------------- MODULE UnitLifecycleProofs ------------------------
(***************************************************************************)
(* Theorems about UnitLifecycle for any number of units, sources, scanners *)
(* and deeds: rows keep their types (TypeCorrect), and two current claims  *)
(* about one subject that have been scanned have been compared as they are *)
(* now (PairsAreJudged).  For each there is an inductive invariant, and a  *)
(* lemma per action that the action preserves it.                          *)
(***************************************************************************)
EXTENDS UnitLifecycle, TLAPS

-----------------------------------------------------------------------------
(* Pairs and the operators on certificates.                                *)

\* A pair is made of two units that differ.
LEMMA PairOf ==
    ASSUME NEW u \in Unit, NEW v \in Unit, u # v
    PROVE  {u, v} \in Pair
BY DEF Pair

LEMMA InPair ==
    ASSUME NEW p \in Pair
    PROVE  p \subseteq Unit /\ \E u, v \in Unit : u # v /\ p = {u, v}
BY DEF Pair

\* Undoing supersessions yields rows of units again.
LEMMA UndoneTypes ==
    ASSUME NEW C \in SUBSET Supersession,
           NEW st \in [Unit -> {None, "active", "superseded", "retracted"}],
           NEW ed \in [Unit -> {None, "active", "superseded", "retracted"}],
           by \in [Unit -> Unit \cup {None}], closed \in [Unit -> BOOLEAN],
           scanned \in [Unit -> BOOLEAN],
           \A u \in Unit : st[u] = "superseded" => by[u] # None
    PROVE  /\ StatusAfter(C, st) \in [Unit -> {None, "active", "superseded", "retracted"}]
           /\ ByAfter(C, st) \in [Unit -> Unit \cup {None}]
           /\ ClosedAfter(C, st) \in [Unit -> BOOLEAN]
           /\ ScannedAfter(C, st) \in [Unit -> BOOLEAN]
           /\ EdgesAfter(C, ed) \in [Unit -> {None, "active", "superseded", "retracted"}]
           /\ \A u \in Unit : StatusAfter(C, st)[u] = "superseded" => ByAfter(C, st)[u] # None
<1>1. Olders(Reverted(C, st)) \subseteq Unit
  BY DEF Olders, Reverted, Supersession
<1>2. ClosedAfter(C, st) \in [Unit -> BOOLEAN]
  BY DEF ClosedAfter
<1>3. ScannedAfter(C, st) \in [Unit -> BOOLEAN]
  BY DEF ScannedAfter
<1>4. StatusAfter(C, st) \in [Unit -> {None, "active", "superseded", "retracted"}]
  BY DEF StatusAfter
<1>5. ByAfter(C, st) \in [Unit -> Unit \cup {None}]
  BY DEF ByAfter
<1>6. EdgesAfter(C, ed) \in [Unit -> {None, "active", "superseded", "retracted"}]
  BY DEF EdgesAfter
<1>7. \A u \in Unit : StatusAfter(C, st)[u] = "superseded" => ByAfter(C, st)[u] # None
  BY DEF StatusAfter, ByAfter
<1> QED BY <1>2, <1>3, <1>4, <1>5, <1>6, <1>7

-----------------------------------------------------------------------------
(* Types.                                                                  *)

\* A scanner at work has a unit, which is not among its own candidates; the
\* one in its transaction is recording.
ScansOK ==
    \A s \in Scanner :
        /\ scan[s].at # "idle" => scan[s].unit \in Unit /\ status[scan[s].unit] # None
        /\ scan[s].unit \notin scan[s].todo
        /\ lock = s => scan[s].at = "recording"

TypeInv == TypeOK /\ ScansOK

\* The parts of TypeOK one by one.
UnitTypes ==
    /\ status  \in [Unit -> {None, "active", "superseded", "retracted"}]
    /\ time    \in [Unit -> Time \cup {None}]
    /\ subject \in [Unit -> Subject \cup {None}]
    /\ by      \in [Unit -> Unit \cup {None}]
    /\ closed  \in [Unit -> BOOLEAN]
    /\ scanned \in [Unit -> BOOLEAN]
    /\ edges   \in [Unit -> {None, "active", "superseded", "retracted"}]
    /\ \A u \in Unit : status[u] = "superseded" => by[u] # None

SourceTypes ==
    /\ sources  \in [Unit -> SUBSET Artifact]
    /\ manual   \in [Unit -> BOOLEAN]
    /\ rejected \in [Unit -> BOOLEAN]
    /\ gone     \subseteq Artifact

PairTypes ==
    /\ supersessions \subseteq Supersession
    /\ reading       \in [Pair -> Reading \cup {None}]
    /\ contradiction \in [Pair -> Rows]
    /\ linked        \subseteq Pair
    /\ verdict       \in [Pair -> {None, "confirmed", "notConflict"}]
    /\ journal       \in Journal \cup {None}

ScanTypes ==
    /\ scan  \in [Scanner -> [at : {"idle", "loaded", "scored", "recording"},
                              unit : Unit \cup {None}, wasClosed : BOOLEAN,
                              todo : SUBSET Unit]]
    /\ fresh \in [Scanner -> SUBSET Unit]
    /\ lock  \in Scanner \cup {None}
    /\ deeds \in 0..MaxDeeds

HistoryTypes == judged \subseteq Pair /\ found \subseteq Pair

LEMMA TypeParts ==
    TypeOK <=> UnitTypes /\ SourceTypes /\ PairTypes /\ ScanTypes /\ HistoryTypes
BY DEF TypeOK, UnitTypes, SourceTypes, PairTypes, ScanTypes, HistoryTypes

LEMMA TypePartsNext ==
    TypeOK' <=> UnitTypes' /\ SourceTypes' /\ PairTypes' /\ ScanTypes' /\ HistoryTypes'
BY DEF TypeOK, UnitTypes, SourceTypes, PairTypes, ScanTypes, HistoryTypes

THEOREM InitTypes == Init => TypeInv
<1> SUFFICES ASSUME Init PROVE TypeInv
  OBVIOUS
<1>1. UnitTypes
  BY NoneAssumption DEF Init, UnitTypes
<1>2. SourceTypes /\ PairTypes /\ HistoryTypes
  BY DEF Init, SourceTypes, PairTypes, HistoryTypes, Rows
<1>3. ScanTypes
  BY BoundAssumption DEF Init, ScanTypes, Idle
<1>4. ScansOK
  BY NoneAssumption DEF Init, ScansOK, Idle
<1> QED BY <1>1, <1>2, <1>3, <1>4, TypeParts DEF TypeInv

\* Revising rows keeps the types of what scanners and histories know.
LEMMA ReviseTypes ==
    ASSUME ScanTypes, HistoryTypes, NEW X \in SUBSET Unit, Revise(X)
    PROVE  fresh' \in [Scanner -> SUBSET Unit] /\ HistoryTypes'
<1>1. fresh' \in [Scanner -> SUBSET Unit]
  BY DEF ScanTypes, Revise
<1>2. HistoryTypes'
  BY DEF HistoryTypes, Revise
<1> QED BY <1>1, <1>2

\* Withdrawing a set of units and sources keeps the types of certificates.
LEMMA WithdrawalTypes ==
    ASSUME PairTypes, NEW R \in SUBSET Unit, NEW W \in SUBSET Artifact,
           PropagateWithdrawal(R, W)
    PROVE  /\ supersessions' \subseteq Supersession
           /\ reading' \in [Pair -> Reading \cup {None}]
           /\ linked' \subseteq Pair
BY DEF PairTypes, PropagateWithdrawal

LEMMA WithdrawnRowTypes ==
    ASSUME PairTypes, NEW R, NEW W, WithdrawContradictions(R, W)
    PROVE  contradiction' \in [Pair -> Rows]
BY DEF PairTypes, WithdrawContradictions, Rows

\* A step outside the scanner keeps the types of what scanners hold.
LEMMA OrdinaryTypes ==
    ASSUME TypeInv, UNCHANGED scanner, NEW X \in SUBSET Unit,
           Revise(X) \/ UNCHANGED <<fresh, history>>,
           deeds' = deeds \/ (deeds < MaxDeeds /\ deeds' = deeds + 1),
           \A u \in Unit : status'[u] = None => status[u] = None
    PROVE  ScanTypes' /\ HistoryTypes' /\ ScansOK'
<1>1. ScanTypes /\ HistoryTypes /\ ScansOK
  BY TypeParts DEF TypeInv
<1>2. fresh' \in [Scanner -> SUBSET Unit] /\ HistoryTypes'
  <2>1. CASE Revise(X)
    BY <1>1, <2>1, ReviseTypes
  <2>2. CASE UNCHANGED <<fresh, history>>
    BY <1>1, <2>2 DEF ScanTypes, HistoryTypes, history
  <2> QED BY <2>1, <2>2
<1>3. deeds' \in 0..MaxDeeds
  BY <1>1, BoundAssumption DEF ScanTypes
<1>4. ScanTypes'
  BY <1>1, <1>2, <1>3 DEF ScanTypes, scanner
<1>5. ScansOK'
  BY <1>1 DEF ScansOK, ScanTypes, scanner
<1> QED BY <1>2, <1>4, <1>5

LEMMA PersistTypes ==
    ASSUME TypeInv, NEW u \in Unit, NEW t \in Time, NEW x \in Subject,
           NEW a \in Artifact, Persist(u, t, x, a)
    PROVE  TypeInv'
<1> USE DEF Persist
<1>1. UnitTypes /\ SourceTypes /\ PairTypes
  BY TypeParts DEF TypeInv
<1>2. UnitTypes'
  BY <1>1 DEF UnitTypes
<1>3. SourceTypes'
  BY <1>1 DEF SourceTypes
<1>4. PairTypes'
  BY <1>1 DEF PairTypes, certs
<1>5. ScanTypes' /\ HistoryTypes' /\ ScansOK'
  BY <1>1, NoneAssumption, OrdinaryTypes DEF UnitTypes
<1> QED BY <1>2, <1>3, <1>4, <1>5, TypePartsNext DEF TypeInv

LEMMA ReassertTypes ==
    ASSUME TypeInv, NEW u \in Unit, NEW a \in Artifact, Reassert(u, a)
    PROVE  TypeInv'
<1> USE DEF Reassert
<1>1. UnitTypes /\ SourceTypes /\ PairTypes
  BY TypeParts DEF TypeInv
<1>2. UnitTypes'
  BY <1>1 DEF UnitTypes, units
<1>3. SourceTypes'
  BY <1>1 DEF SourceTypes
<1>4. PairTypes'
  BY <1>1 DEF PairTypes, certs
<1>5. ScanTypes' /\ HistoryTypes' /\ ScansOK'
  BY <1>1, OrdinaryTypes DEF Deed, units
<1> QED BY <1>2, <1>3, <1>4, <1>5, TypePartsNext DEF TypeInv

\* Withdrawing units with what rests on them keeps the types.
LEMMA DependentsTypes ==
    ASSUME UnitTypes, SourceTypes, PairTypes,
           NEW R \in SUBSET Unit, NEW W \in SUBSET Artifact,
           NEW st \in [Unit -> {None, "active", "superseded", "retracted"}],
           \A u \in Unit : st[u] = "superseded" => by[u] # None,
           RetractUnitDependents(R, W, st)
    PROVE  /\ status' \in [Unit -> {None, "active", "superseded", "retracted"}]
           /\ by'     \in [Unit -> Unit \cup {None}]
           /\ closed' \in [Unit -> BOOLEAN]
           /\ \A u \in Unit : status'[u] = "superseded" => by'[u] # None
           /\ \A u \in Unit : status'[u] = None => st[u] = None
           /\ ScannedAfter(CausedBy(R), st) \in [Unit -> BOOLEAN]
           /\ EdgesAfter(CausedBy(R), Deactivated(R))
                  \in [Unit -> {None, "active", "superseded", "retracted"}]
           /\ supersessions' \subseteq Supersession
           /\ reading'       \in [Pair -> Reading \cup {None}]
           /\ linked'        \subseteq Pair
           /\ contradiction' \in [Pair -> Rows]
<1> DEFINE C  == CausedBy(R)
           ed == Deactivated(R)
<1>1. C \in SUBSET Supersession
  BY DEF CausedBy, PairTypes
<1>2. ed \in [Unit -> {None, "active", "superseded", "retracted"}]
  BY DEF UnitTypes, Deactivated
<1>3. /\ status' = StatusAfter(C, st) /\ by' = ByAfter(C, st) /\ closed' = ClosedAfter(C, st)
      /\ PropagateWithdrawal(R, W) /\ WithdrawContradictions(R, W)
  BY DEF RetractUnitDependents, UndoSupersessions
<1> HIDE DEF C, ed
<1>4. /\ by \in [Unit -> Unit \cup {None}] /\ closed \in [Unit -> BOOLEAN]
      /\ scanned \in [Unit -> BOOLEAN]
  BY DEF UnitTypes
<1>5. /\ StatusAfter(C, st) \in [Unit -> {None, "active", "superseded", "retracted"}]
      /\ ByAfter(C, st) \in [Unit -> Unit \cup {None}]
      /\ ClosedAfter(C, st) \in [Unit -> BOOLEAN]
      /\ ScannedAfter(C, st) \in [Unit -> BOOLEAN]
      /\ EdgesAfter(C, ed) \in [Unit -> {None, "active", "superseded", "retracted"}]
      /\ \A u \in Unit : StatusAfter(C, st)[u] = "superseded" => ByAfter(C, st)[u] # None
  BY <1>1, <1>2, <1>4, UndoneTypes
<1>6. \A u \in Unit : StatusAfter(C, st)[u] = None => st[u] = None
  BY NoneAssumption DEF StatusAfter
<1>7. /\ supersessions' \subseteq Supersession
      /\ reading' \in [Pair -> Reading \cup {None}]
      /\ linked' \subseteq Pair
      /\ contradiction' \in [Pair -> Rows]
  BY <1>3, WithdrawalTypes, WithdrawnRowTypes
<1> QED BY <1>3, <1>5, <1>6, <1>7 DEF C, ed

LEMMA RejectTypes ==
    ASSUME TypeInv, NEW u \in Unit, Reject(u)
    PROVE  TypeInv'
<1> DEFINE st == [status EXCEPT ![u] = "retracted"]
<1>1. UnitTypes /\ SourceTypes /\ PairTypes
  BY TypeParts DEF TypeInv
<1>2. /\ st \in [Unit -> {None, "active", "superseded", "retracted"}]
      /\ \A v \in Unit : st[v] = "superseded" => by[v] # None
      /\ \A v \in Unit : st[v] = None => status[v] = None
  BY <1>1, NoneAssumption DEF UnitTypes
<1>3. /\ RetractUnitDependents({u}, gone, st) /\ gone \in SUBSET Artifact
      /\ scanned' = ScannedAfter(CausedBy({u}), st)
      /\ edges' = EdgesAfter(CausedBy({u}), Deactivated({u}))
      /\ rejected' = [rejected EXCEPT ![u] = TRUE]
      /\ UNCHANGED <<time, subject, sources, manual, gone, verdict, journal, scanner>>
      /\ Revise({}) /\ Deed("reject")
  BY <1>1 DEF Reject, SourceTypes
<1> HIDE DEF st
<1>4. /\ status' \in [Unit -> {None, "active", "superseded", "retracted"}]
      /\ by'     \in [Unit -> Unit \cup {None}]
      /\ closed' \in [Unit -> BOOLEAN]
      /\ \A v \in Unit : status'[v] = "superseded" => by'[v] # None
      /\ \A v \in Unit : status'[v] = None => st[v] = None
      /\ ScannedAfter(CausedBy({u}), st) \in [Unit -> BOOLEAN]
      /\ EdgesAfter(CausedBy({u}), Deactivated({u}))
             \in [Unit -> {None, "active", "superseded", "retracted"}]
      /\ supersessions' \subseteq Supersession
      /\ reading'       \in [Pair -> Reading \cup {None}]
      /\ linked'        \subseteq Pair
      /\ contradiction' \in [Pair -> Rows]
  <2>1. {u} \in SUBSET Unit
    OBVIOUS
  <2> QED BY <1>1, <1>2, <1>3, <2>1, DependentsTypes
<1>5. UnitTypes'
  BY <1>1, <1>3, <1>4 DEF UnitTypes
<1>6. SourceTypes'
  BY <1>1, <1>3 DEF SourceTypes
<1>7. PairTypes'
  BY <1>1, <1>3, <1>4 DEF PairTypes
<1>8. ScanTypes' /\ HistoryTypes' /\ ScansOK'
  BY <1>2, <1>3, <1>4, OrdinaryTypes DEF Deed
<1> QED BY <1>5, <1>6, <1>7, <1>8, TypePartsNext DEF TypeInv

LEMMA RestoreTypes ==
    ASSUME TypeInv, NEW u \in Unit, Restore(u)
    PROVE  TypeInv'
<1> USE DEF Restore
<1>1. UnitTypes /\ SourceTypes /\ PairTypes
  BY TypeParts DEF TypeInv
<1>2. UnitTypes'
  BY <1>1 DEF UnitTypes
<1>3. SourceTypes'
  BY <1>1 DEF SourceTypes
<1>4. PairTypes'
  BY <1>1 DEF PairTypes, certs
<1>5. ScanTypes' /\ HistoryTypes' /\ ScansOK'
  BY <1>1, NoneAssumption, OrdinaryTypes DEF UnitTypes, Deed
<1> QED BY <1>2, <1>3, <1>4, <1>5, TypePartsNext DEF TypeInv

LEMMA EditTypes ==
    ASSUME TypeInv, NEW u \in Unit, NEW t \in Time \cup {None},
           NEW x \in Subject \cup {None}, EditUnit(u, t, x),
           NEW X \in SUBSET Unit, Revise(X), NEW kind, Deed(kind)
    PROVE  TypeInv'
<1>1. UnitTypes /\ SourceTypes /\ PairTypes
  BY TypeParts DEF TypeInv
<1>2. /\ status \in [Unit -> {None, "active", "superseded", "retracted"}]
      /\ \A v \in Unit : status[v] = "superseded" => by[v] # None
  BY <1>1 DEF UnitTypes
<1>3. /\ RetractUnitDependents({u}, gone, status) /\ gone \in SUBSET Artifact
      /\ time' = [time EXCEPT ![u] = t] /\ subject' = [subject EXCEPT ![u] = x]
      /\ scanned' = [ScannedAfter(CausedBy({u}), status) EXCEPT ![u] = FALSE]
      /\ edges' = [EdgesAfter(CausedBy({u}), Deactivated({u})) EXCEPT
                       ![u] = IF status[u] = "active" THEN "active" ELSE None]
      /\ manual' = [manual EXCEPT ![u] = TRUE]
      /\ UNCHANGED <<sources, rejected, gone, verdict, journal, scanner>>
  BY <1>1 DEF EditUnit, SourceTypes
<1>4. /\ status' \in [Unit -> {None, "active", "superseded", "retracted"}]
      /\ by'     \in [Unit -> Unit \cup {None}]
      /\ closed' \in [Unit -> BOOLEAN]
      /\ \A v \in Unit : status'[v] = "superseded" => by'[v] # None
      /\ \A v \in Unit : status'[v] = None => status[v] = None
      /\ ScannedAfter(CausedBy({u}), status) \in [Unit -> BOOLEAN]
      /\ EdgesAfter(CausedBy({u}), Deactivated({u}))
             \in [Unit -> {None, "active", "superseded", "retracted"}]
      /\ supersessions' \subseteq Supersession
      /\ reading'       \in [Pair -> Reading \cup {None}]
      /\ linked'        \subseteq Pair
      /\ contradiction' \in [Pair -> Rows]
  <2>1. {u} \in SUBSET Unit
    OBVIOUS
  <2> QED BY <1>1, <1>2, <1>3, <2>1, DependentsTypes
<1>5. UnitTypes'
  <2>1. /\ time' \in [Unit -> Time \cup {None}] /\ subject' \in [Unit -> Subject \cup {None}]
        /\ scanned' \in [Unit -> BOOLEAN]
        /\ edges' \in [Unit -> {None, "active", "superseded", "retracted"}]
    BY <1>1, <1>3, <1>4 DEF UnitTypes
  <2> QED BY <1>4, <2>1 DEF UnitTypes
<1>6. SourceTypes'
  BY <1>1, <1>3 DEF SourceTypes
<1>7. PairTypes'
  BY <1>1, <1>3, <1>4 DEF PairTypes
<1>8. ScanTypes' /\ HistoryTypes' /\ ScansOK'
  BY <1>3, <1>4, OrdinaryTypes DEF Deed
<1> QED BY <1>5, <1>6, <1>7, <1>8, TypePartsNext DEF TypeInv

LEMMA RetractTypes ==
    ASSUME TypeInv, NEW a \in Artifact, RetractArtifact(a)
    PROVE  TypeInv'
<1> DEFINE R  == Orphans(a)
           W  == gone \cup {a}
           st == [u \in Unit |-> IF u \in R THEN "retracted" ELSE status[u]]
<1>1. UnitTypes /\ SourceTypes /\ PairTypes
  BY TypeParts DEF TypeInv
<1>2. R \in SUBSET Unit /\ W \in SUBSET Artifact
  BY <1>1 DEF Orphans, SourceTypes
<1>3. /\ st \in [Unit -> {None, "active", "superseded", "retracted"}]
      /\ \A v \in Unit : st[v] = "superseded" => by[v] # None
      /\ \A v \in Unit : st[v] = None => status[v] = None
  BY <1>1, NoneAssumption DEF UnitTypes
<1>4. /\ \/ /\ RetractUnitDependents(R, W, st)
            /\ scanned' = ScannedAfter(CausedBy(R), st)
            /\ edges' = EdgesAfter(CausedBy(R), Deactivated(R))
         \/ /\ PropagateWithdrawal({}, W)
            /\ UNCHANGED <<status, by, closed, scanned, edges, contradiction>>
      /\ gone' = W
      /\ UNCHANGED <<time, subject, sources, manual, rejected, verdict, journal, scanner>>
      /\ Revise({}) /\ Deed("retract")
  BY DEF RetractArtifact
<1> HIDE DEF R, W, st
<1>5. /\ UnitTypes' /\ PairTypes'
      /\ \A v \in Unit : status'[v] = None => status[v] = None
  <2>1. CASE /\ RetractUnitDependents(R, W, st)
             /\ scanned' = ScannedAfter(CausedBy(R), st)
             /\ edges' = EdgesAfter(CausedBy(R), Deactivated(R))
    <3>1. /\ status' \in [Unit -> {None, "active", "superseded", "retracted"}]
          /\ by'     \in [Unit -> Unit \cup {None}]
          /\ closed' \in [Unit -> BOOLEAN]
          /\ \A v \in Unit : status'[v] = "superseded" => by'[v] # None
          /\ \A v \in Unit : status'[v] = None => st[v] = None
          /\ ScannedAfter(CausedBy(R), st) \in [Unit -> BOOLEAN]
          /\ EdgesAfter(CausedBy(R), Deactivated(R))
                 \in [Unit -> {None, "active", "superseded", "retracted"}]
          /\ supersessions' \subseteq Supersession
          /\ reading'       \in [Pair -> Reading \cup {None}]
          /\ linked'        \subseteq Pair
          /\ contradiction' \in [Pair -> Rows]
      BY <1>1, <1>2, <1>3, <2>1, DependentsTypes
    <3>2. UnitTypes'
      BY <1>1, <1>4, <2>1, <3>1 DEF UnitTypes
    <3>3. PairTypes'
      BY <1>1, <1>4, <3>1 DEF PairTypes
    <3> QED BY <1>3, <3>1, <3>2, <3>3
  <2>2. CASE /\ PropagateWithdrawal({}, W)
             /\ UNCHANGED <<status, by, closed, scanned, edges, contradiction>>
    <3>1. UnitTypes'
      BY <1>1, <1>4, <2>2 DEF UnitTypes
    <3>2. {} \in SUBSET Unit
      OBVIOUS
    <3>3. PairTypes'
      BY <1>1, <1>2, <1>4, <2>2, <3>2, WithdrawalTypes DEF PairTypes
    <3> QED BY <2>2, <3>1, <3>3
  <2> QED BY <1>4, <2>1, <2>2
<1>6. SourceTypes'
  BY <1>1, <1>2, <1>4 DEF SourceTypes
<1>7. ScanTypes' /\ HistoryTypes' /\ ScansOK'
  BY <1>4, <1>5, OrdinaryTypes DEF Deed
<1> QED BY <1>5, <1>6, <1>7, TypePartsNext DEF TypeInv

LEMMA ResolveTypes ==
    ASSUME TypeInv, NEW p \in Pair, NEW l \in p, Resolve(p, l)
    PROVE  TypeInv'
<1>1. UnitTypes /\ SourceTypes /\ PairTypes
  BY TypeParts DEF TypeInv
<1>2. p \subseteq Unit
  BY InPair
<1>3. PICK w \in p \ {l} :
        /\ contradiction' = [contradiction EXCEPT ![p] = "decided"]
        /\ status' = [status EXCEPT ![l] = "superseded"]
        /\ by'     = [by EXCEPT ![l] = w]
        /\ closed' = [closed EXCEPT ![l] = TRUE]
        /\ edges'  = [edges EXCEPT ![l] = IF @ = None THEN None ELSE "superseded"]
        /\ UNCHANGED <<time, subject, scanned, sources, manual, rejected, gone,
                       supersessions, reading, linked, verdict, journal, scanner>>
        /\ Revise({}) /\ Deed("resolve")
  BY DEF Resolve
<1>4. UnitTypes'
  BY <1>1, <1>2, <1>3, NoneAssumption DEF UnitTypes
<1>5. SourceTypes'
  BY <1>1, <1>3 DEF SourceTypes
<1>6. PairTypes'
  BY <1>1, <1>3 DEF PairTypes, Rows
<1>7. ScanTypes' /\ HistoryTypes' /\ ScansOK'
  BY <1>1, <1>2, <1>3, NoneAssumption, OrdinaryTypes DEF UnitTypes, Deed
<1> QED BY <1>4, <1>5, <1>6, <1>7, TypePartsNext DEF TypeInv

LEMMA SettleTypes ==
    ASSUME TypeInv, NEW p \in Pair, Settle(p) \/ Agree(p)
    PROVE  TypeInv'
<1> USE DEF Settle, Agree
<1>1. UnitTypes /\ SourceTypes /\ PairTypes
  BY TypeParts DEF TypeInv
<1>2. UnitTypes'
  BY <1>1 DEF UnitTypes, units
<1>3. SourceTypes'
  BY <1>1 DEF SourceTypes
<1>4. PairTypes'
  BY <1>1 DEF PairTypes, Rows
<1>5. ScanTypes' /\ HistoryTypes' /\ ScansOK'
  BY <1>1, OrdinaryTypes DEF Deed, units
<1> QED BY <1>2, <1>3, <1>4, <1>5, TypePartsNext DEF TypeInv

LEMMA ConfirmTypes ==
    ASSUME TypeInv, NEW p \in Pair, Confirm(p)
    PROVE  TypeInv'
<1> DEFINE C == Between(p)
<1>1. UnitTypes /\ SourceTypes /\ PairTypes
  BY TypeParts DEF TypeInv
<1>2. /\ status' = StatusAfter(C, status) /\ by' = ByAfter(C, status)
      /\ closed' = ClosedAfter(C, status) /\ scanned' = ScannedAfter(C, status)
      /\ edges' = EdgesAfter(C, edges)
      /\ verdict' = [verdict EXCEPT ![p] = "confirmed"]
      /\ supersessions' = supersessions \ C
      /\ reading'       = [reading EXCEPT ![p] = None]
      /\ contradiction' = [contradiction EXCEPT ![p] = "open"]
      /\ linked'        = linked \ {p}
      /\ UNCHANGED <<time, subject, sources, manual, rejected, gone, journal, scanner>>
      /\ Revise({}) /\ Deed("confirm")
  BY DEF Confirm, UndoSupersessions
<1>3. C \in SUBSET Supersession
  BY <1>1 DEF Between, PairTypes
<1> HIDE DEF C
<1>4. /\ status \in [Unit -> {None, "active", "superseded", "retracted"}]
      /\ edges \in [Unit -> {None, "active", "superseded", "retracted"}]
      /\ by \in [Unit -> Unit \cup {None}] /\ closed \in [Unit -> BOOLEAN]
      /\ scanned \in [Unit -> BOOLEAN]
      /\ \A u \in Unit : status[u] = "superseded" => by[u] # None
  BY <1>1 DEF UnitTypes
<1>5. /\ StatusAfter(C, status) \in [Unit -> {None, "active", "superseded", "retracted"}]
      /\ ByAfter(C, status) \in [Unit -> Unit \cup {None}]
      /\ ClosedAfter(C, status) \in [Unit -> BOOLEAN]
      /\ ScannedAfter(C, status) \in [Unit -> BOOLEAN]
      /\ EdgesAfter(C, edges) \in [Unit -> {None, "active", "superseded", "retracted"}]
      /\ \A u \in Unit : StatusAfter(C, status)[u] = "superseded" => ByAfter(C, status)[u] # None
  BY <1>3, <1>4, UndoneTypes
<1>6. UnitTypes'
  BY <1>1, <1>2, <1>5 DEF UnitTypes
<1>7. SourceTypes'
  BY <1>1, <1>2 DEF SourceTypes
<1>8. PairTypes'
  BY <1>1, <1>2 DEF PairTypes, Rows
<1>9. \A u \in Unit : status'[u] = None => status[u] = None
  BY <1>2, NoneAssumption DEF StatusAfter
<1>10. ScanTypes' /\ HistoryTypes' /\ ScansOK'
  BY <1>2, <1>9, OrdinaryTypes DEF Deed
<1> QED BY <1>6, <1>7, <1>8, <1>10, TypePartsNext DEF TypeInv

LEMMA MergeTypes ==
    ASSUME TypeInv, Merge
    PROVE  TypeInv'
<1> USE DEF Merge
<1>1. UnitTypes /\ SourceTypes /\ PairTypes
  BY TypeParts DEF TypeInv
<1>2. UnitTypes'
  BY <1>1, EntityAssumption DEF UnitTypes, KeepsCursor
<1>3. SourceTypes'
  BY <1>1 DEF SourceTypes
<1>4. PairTypes'
  BY <1>1 DEF PairTypes, certs, Journal, About
<1>5. ScanTypes' /\ HistoryTypes' /\ ScansOK'
  BY <1>1, OrdinaryTypes DEF Deed
<1> QED BY <1>2, <1>3, <1>4, <1>5, TypePartsNext DEF TypeInv

LEMMA SplitTypes ==
    ASSUME TypeInv, Split
    PROVE  TypeInv'
<1>1. UnitTypes /\ SourceTypes /\ PairTypes
  BY TypeParts DEF TypeInv
<1>2. /\ subject' = [u \in Unit |-> IF u \in journal.units \cap About(Winner) THEN Loser ELSE subject[u]]
      /\ scanned' = [u \in Unit |-> scanned[u] /\ u \notin journal.units \cap About(Winner)]
      /\ contradiction' = [p \in Pair |-> IF p \in Crossing THEN None ELSE contradiction[p]]
      /\ reading' = [p \in Pair |-> IF p \in Crossing \cap linked THEN None ELSE reading[p]]
      /\ linked'  = linked \ Crossing
      /\ journal' = None
      /\ UNCHANGED <<status, time, by, closed, edges, sources, manual, rejected,
                     gone, supersessions, verdict, scanner>>
      /\ Revise({}) /\ Deed("split")
  BY DEF Split
<1>3. UnitTypes'
  BY <1>1, <1>2, EntityAssumption DEF UnitTypes, About, Deed
<1>4. SourceTypes'
  BY <1>1, <1>2 DEF SourceTypes
<1>5. PairTypes'
  BY <1>1, <1>2 DEF PairTypes, Rows
<1>6. ScanTypes' /\ HistoryTypes' /\ ScansOK'
  BY <1>1, <1>2, OrdinaryTypes DEF Deed
<1> QED BY <1>3, <1>4, <1>5, <1>6, TypePartsNext DEF TypeInv

\* What a scanner holds has types again when its own row does.
LEMMA ScannerTypes ==
    ASSUME TypeInv, NEW s \in Scanner, NEW row,
           row \in [at : {"idle", "loaded", "scored", "recording"},
                    unit : Unit \cup {None}, wasClosed : BOOLEAN, todo : SUBSET Unit],
           scan' = [scan EXCEPT ![s] = row],
           fresh' \in [Scanner -> SUBSET Unit], HistoryTypes',
           lock' \in {lock, None, s}, deeds' \in 0..MaxDeeds,
           row.at # "idle" => row.unit \in Unit /\ status[row.unit] # None,
           row.unit \notin row.todo,
           lock' = s => row.at = "recording",
           \A u \in Unit : status'[u] = None => status[u] = None
    PROVE  ScanTypes' /\ ScansOK'
<1>1. ScanTypes /\ ScansOK
  BY TypeParts DEF TypeInv
<1>2. ScanTypes'
  BY <1>1 DEF ScanTypes
<1>3. ASSUME NEW t \in Scanner
      PROVE  /\ scan'[t].at # "idle" => scan'[t].unit \in Unit /\ status'[scan'[t].unit] # None
             /\ scan'[t].unit \notin scan'[t].todo
             /\ lock' = t => scan'[t].at = "recording"
  <2>1. CASE t = s
    BY <1>1, <2>1 DEF ScanTypes
  <2>2. CASE t # s
    BY <1>1, <2>2, NoneAssumption DEF ScanTypes, ScansOK
  <2> QED BY <2>1, <2>2
<1>4. ScansOK'
  BY <1>3 DEF ScansOK
<1> QED BY <1>2, <1>4

\* The scanner touches only cursors and its own row unless it records.
LEMMA ReadingTypes ==
    ASSUME TypeInv, NEW s \in Scanner,
           \/ \E u \in Unit : Load(s, u) \/ Skip(s, u)
           \/ LoadCandidates(s) \/ Claim(s)
    PROVE  TypeInv'
<1>1. /\ UnitTypes /\ SourceTypes /\ PairTypes /\ ScanTypes /\ HistoryTypes
      /\ ScansOK
  BY TypeParts DEF TypeInv
<1>2. UNCHANGED <<units, scanned, edges, sources, manual, rejected, gone, certs,
                  verdict, journal, deeds, history>>
  BY DEF Load, Skip, LoadCandidates, Claim, history, units
<1>3. UnitTypes' /\ SourceTypes' /\ PairTypes' /\ HistoryTypes'
  BY <1>1, <1>2 DEF UnitTypes, SourceTypes, PairTypes, HistoryTypes, units, certs, history
<1>4. deeds' \in 0..MaxDeeds /\ \A u \in Unit : status'[u] = None => status[u] = None
  BY <1>1, <1>2 DEF ScanTypes, units
<1>5. ASSUME NEW u \in Unit, Load(s, u) PROVE ScanTypes' /\ ScansOK'
  <2> DEFINE row == [at |-> "loaded", unit |-> u, wasClosed |-> closed[u], todo |-> {}]
  <2>1. /\ scan' = [scan EXCEPT ![s] = row] /\ fresh' = [fresh EXCEPT ![s] = {u}]
        /\ lock' = lock /\ lock = None /\ status[u] = "active"
    BY <1>5 DEF Load
  <2>2. /\ row \in [at : {"idle", "loaded", "scored", "recording"},
                    unit : Unit \cup {None}, wasClosed : BOOLEAN, todo : SUBSET Unit]
        /\ row.at = "loaded" /\ row.unit = u /\ row.todo = {}
    BY <1>1 DEF UnitTypes
  <2> HIDE DEF row
  <2>3. fresh' \in [Scanner -> SUBSET Unit]
    BY <1>1, <2>1 DEF ScanTypes
  <2> QED BY <1>3, <1>4, <2>1, <2>2, <2>3, NoneAssumption, ScannerTypes
<1>6. ASSUME NEW v \in Unit, Skip(s, v) PROVE ScanTypes' /\ ScansOK'
  <2> DEFINE row == [scan[s] EXCEPT !.todo = @ \ {v}]
  <2>1. /\ scan' = [scan EXCEPT ![s] = row] /\ fresh' = fresh /\ lock' = lock /\ lock = s
    BY <1>6 DEF Skip
  <2>2. /\ row \in [at : {"idle", "loaded", "scored", "recording"},
                    unit : Unit \cup {None}, wasClosed : BOOLEAN, todo : SUBSET Unit]
        /\ row.at = scan[s].at /\ row.unit = scan[s].unit /\ row.todo = scan[s].todo \ {v}
    BY <1>1 DEF ScanTypes
  <2> HIDE DEF row
  <2>3. fresh' \in [Scanner -> SUBSET Unit]
    BY <1>1, <2>1 DEF ScanTypes
  <2>4. /\ row.at # "idle" => row.unit \in Unit /\ status[row.unit] # None
        /\ row.unit \notin row.todo /\ row.at = "recording"
    BY <1>1, <2>1, <2>2 DEF ScansOK
  <2> QED BY <1>3, <1>4, <2>1, <2>2, <2>3, <2>4, ScannerTypes
<1>7. ASSUME LoadCandidates(s) PROVE ScanTypes' /\ ScansOK'
  <2> DEFINE C   == Candidates(scan[s].unit)
             row == [scan[s] EXCEPT !.at = "scored", !.todo = C]
  <2>1. /\ scan' = [scan EXCEPT ![s] = row] /\ fresh' = [fresh EXCEPT ![s] = @ \cup C]
        /\ lock' = lock /\ lock = None /\ scan[s].at = "loaded"
    BY <1>1, <1>7 DEF LoadCandidates, ScanTypes
  <2>2. C \in SUBSET Unit /\ scan[s].unit \notin C
    BY DEF Candidates, About
  <2> HIDE DEF C
  <2>3. /\ row \in [at : {"idle", "loaded", "scored", "recording"},
                    unit : Unit \cup {None}, wasClosed : BOOLEAN, todo : SUBSET Unit]
        /\ row.at = "scored" /\ row.unit = scan[s].unit /\ row.todo = C
    BY <1>1, <2>2 DEF ScanTypes
  <2> HIDE DEF row
  <2>4. fresh' \in [Scanner -> SUBSET Unit]
    BY <1>1, <2>1, <2>2 DEF ScanTypes
  <2>5. row.unit \in Unit /\ status[row.unit] # None
    BY <1>1, <2>1, <2>3 DEF ScansOK
  <2> QED BY <1>3, <1>4, <2>1, <2>2, <2>3, <2>4, <2>5, NoneAssumption, ScannerTypes
<1>8. ASSUME Claim(s) PROVE ScanTypes' /\ ScansOK'
  <2> DEFINE row == [scan[s] EXCEPT !.at = "recording"]
  <2>1. /\ scan' = [scan EXCEPT ![s] = row] /\ fresh' = fresh /\ lock' = s
        /\ scan[s].at = "scored"
    BY <1>8 DEF Claim
  <2>2. /\ row \in [at : {"idle", "loaded", "scored", "recording"},
                    unit : Unit \cup {None}, wasClosed : BOOLEAN, todo : SUBSET Unit]
        /\ row.at = "recording" /\ row.unit = scan[s].unit /\ row.todo = scan[s].todo
    BY <1>1 DEF ScanTypes
  <2> HIDE DEF row
  <2>3. fresh' \in [Scanner -> SUBSET Unit]
    BY <1>1, <2>1 DEF ScanTypes
  <2>4. /\ row.unit \in Unit /\ status[row.unit] # None /\ row.unit \notin row.todo
    BY <1>1, <2>1, <2>2 DEF ScansOK
  <2> QED BY <1>3, <1>4, <2>1, <2>2, <2>3, <2>4, ScannerTypes
<1> QED BY <1>3, <1>5, <1>6, <1>7, <1>8, TypePartsNext DEF TypeInv

LEMMA IdleTypes ==
    ASSUME TypeInv, NEW s \in Scanner, ClaimLost(s) \/ Fail(s) \/ Finish(s)
    PROVE  TypeInv'
<1>1. /\ UnitTypes /\ SourceTypes /\ PairTypes /\ ScanTypes /\ HistoryTypes /\ ScansOK
  BY TypeParts DEF TypeInv
<1>2. /\ scan' = [scan EXCEPT ![s] = Idle] /\ fresh' = [fresh EXCEPT ![s] = {}]
      /\ lock' = None
      /\ UNCHANGED <<status, time, subject, by, closed, edges, sources, manual, rejected,
                     gone, certs, verdict, journal, history>>
      /\ deeds' = deeds \/ (deeds < MaxDeeds /\ deeds' = deeds + 1)
  BY DEF ClaimLost, Fail, Finish, GoIdle, units, Deed
<1>3. scanned' \in [Unit -> BOOLEAN]
  BY <1>1 DEF ClaimLost, Fail, Finish, UnitTypes
<1>4. UnitTypes' /\ SourceTypes' /\ PairTypes' /\ HistoryTypes'
  BY <1>1, <1>2, <1>3 DEF UnitTypes, SourceTypes, PairTypes, HistoryTypes, certs, history
<1>5. /\ Idle \in [at : {"idle", "loaded", "scored", "recording"},
                   unit : Unit \cup {None}, wasClosed : BOOLEAN, todo : SUBSET Unit]
      /\ Idle.at = "idle" /\ Idle.unit \notin Idle.todo
  BY DEF Idle
<1>6. fresh' \in [Scanner -> SUBSET Unit] /\ deeds' \in 0..MaxDeeds
  BY <1>1, <1>2, BoundAssumption DEF ScanTypes
<1>7. ScanTypes' /\ ScansOK'
  BY <1>2, <1>4, <1>5, <1>6, NoneAssumption, ScannerTypes
<1> QED BY <1>4, <1>7, TypePartsNext DEF TypeInv

\* At most one of the two claims is superseded, one that was active.
Superseding(p, srcs) ==
    \/ KeepUnits
    \/ \E old \in p : \E new \in p \ {old}, was \in BOOLEAN :
          /\ status[old] = "active" /\ was = closed[old]
          /\ Supersede(old, new, [older |-> old, newer |-> new,
                                  closedBefore |-> was, sources |-> srcs])

Recording(p, srcs) == Reopen(p) \/ Block(p, srcs) \/ Report(p, srcs)

\* Recording a conflict reports it, explains it away or opens it again, and
\* supersedes at most one of the two.
LEMMA ConflictOutcome ==
    ASSUME UnitTypes, SourceTypes, PairTypes, NEW u \in Unit, NEW v \in Unit, u # v,
           NEW wasClosed \in BOOLEAN, RecordConflict(u, v, wasClosed)
    PROVE  /\ Superseding({u, v}, (sources[u] \cup sources[v]) \ gone)
           /\ Recording({u, v}, (sources[u] \cup sources[v]) \ gone)
<1> USE DEF Superseding, Recording
<1> DEFINE p    == {u, v}
           srcs == (sources[u] \cup sources[v]) \ gone
<1>1. CASE Reopen(p) /\ KeepUnits
  BY <1>1
<1>2. CASE ~ (Reopen(p) /\ KeepUnits)
  <2>1. PICK e \in Evaluate(u, v, wasClosed) :
             /\ IF e.outcome = "blocked" \/ UserRejected(p) \/ verdict[p] = "notConflict"
                THEN Block(p, srcs) ELSE Report(p, srcs)
             /\ IF e.older # None /\ ~ UserRejected(p) /\ status[e.older] = "active"
                THEN LET new == CHOOSE w \in p : w # e.older
                     IN  Supersede(e.older, new,
                                   [older |-> e.older, newer |-> new,
                                    closedBefore |-> closed[e.older], sources |-> srcs])
                ELSE KeepUnits
    BY <1>2 DEF RecordConflict
  <2>2. e.older \in {u, v, None}
    BY DEF Evaluate
  <2>3. CASE e.older # None /\ ~ UserRejected(p) /\ status[e.older] = "active"
    <3> DEFINE new == CHOOSE w \in p : w # e.older
    <3>1. e.older \in p
      BY <2>2, <2>3
    <3>2. new \in p \ {e.older}
      BY <3>1
    <3>3. closed[e.older] \in BOOLEAN
      BY <3>1 DEF UnitTypes
    <3> QED BY <2>1, <2>3, <3>1, <3>2, <3>3
  <2> QED BY <2>1, <2>3
<1> QED BY <1>1, <1>2

\* A recording scanner looks at two different units.
LEMMA TwoUnits ==
    ASSUME TypeInv, NEW s \in Scanner, NEW v \in Unit, Record(s, v)
    PROVE  /\ scan[s].unit \in Unit /\ scan[s].unit # v
           /\ scan[s].at = "recording" /\ scan[s].wasClosed \in BOOLEAN
           /\ {scan[s].unit, v} \in Pair
<1>1. ScanTypes /\ ScansOK /\ lock = s /\ v \in scan[s].todo
  BY TypeParts DEF TypeInv, Record
<1>2. /\ scan[s].unit \in Unit /\ scan[s].unit # v
      /\ scan[s].at = "recording" /\ scan[s].wasClosed \in BOOLEAN
  BY <1>1 DEF ScanTypes, ScansOK
<1> QED BY <1>2, PairOf

LEMMA RecordTypes ==
    ASSUME TypeInv, NEW s \in Scanner, NEW v \in Unit, Record(s, v)
    PROVE  TypeInv'
<1>0. PICK u \in Unit, wasClosed \in BOOLEAN :
          u = scan[s].unit /\ wasClosed = scan[s].wasClosed
  BY TwoUnits
<1> DEFINE p    == {u, v}
           srcs == (sources[u] \cup sources[v]) \ gone
<1>1. /\ UnitTypes /\ SourceTypes /\ PairTypes /\ ScanTypes /\ HistoryTypes /\ ScansOK
  BY TypeParts DEF TypeInv
<1>2. u # v /\ scan[s].at = "recording" /\ p \in Pair
  BY <1>0, TwoUnits
<1>3. /\ lock = s
      /\ RecordConflict(u, v, wasClosed)
      /\ scan'   = [scan EXCEPT ![s].todo = @ \ {v}]
      /\ UNCHANGED <<time, subject, scanned, sources, manual, rejected, gone,
                     verdict, journal, lock, deeds>>
      /\ fresh'  = [x \in Scanner |-> fresh[x] \ Revised({})]
      /\ judged' \subseteq judged \cup {p}
      /\ found'  \subseteq found \cup {p}
  BY <1>0 DEF Record
<1>4. srcs \in SUBSET Artifact
  BY <1>1, <1>2 DEF SourceTypes
<1>5. Superseding(p, srcs) /\ Recording(p, srcs)
  BY <1>1, <1>2, <1>3, ConflictOutcome
<1> HIDE DEF srcs
<1>6. /\ UnitTypes' /\ supersessions' \subseteq Supersession
      /\ \A w \in Unit : status'[w] = None => status[w] = None
  <2>1. CASE KeepUnits
    BY <1>1, <1>3, <2>1 DEF KeepUnits, UnitTypes, PairTypes
  <2>2. ASSUME NEW old \in p, NEW new \in p \ {old}, NEW was \in BOOLEAN,
               status[old] = "active",
               Supersede(old, new, [older |-> old, newer |-> new,
                                    closedBefore |-> was, sources |-> srcs])
        PROVE  /\ UnitTypes' /\ supersessions' \subseteq Supersession
               /\ \A w \in Unit : status'[w] = None => status[w] = None
    <3>1. old \in Unit /\ new \in Unit
      BY <1>2
    <3>2. [older |-> old, newer |-> new, closedBefore |-> was, sources |-> srcs] \in Supersession
      BY <1>4, <3>1 DEF Supersession
    <3>3. supersessions' \subseteq Supersession
      BY <1>1, <2>2, <3>2 DEF Supersede, PairTypes
    <3>4. UnitTypes' /\ \A w \in Unit : status'[w] = None => status[w] = None
      BY <1>1, <1>3, <2>2, <3>1, NoneAssumption DEF Supersede, UnitTypes
    <3> QED BY <3>3, <3>4
  <2> QED BY <1>5, <2>1, <2>2 DEF Superseding
<1>7. SourceTypes'
  BY <1>1, <1>3 DEF SourceTypes
<1>8. PairTypes'
  <2>1. /\ reading' \in [Pair -> Reading \cup {None}] /\ linked' \subseteq Pair
        /\ contradiction' \in [Pair -> Rows]
    <3>1. CASE Reopen(p)
      BY <1>1, <1>2, <3>1 DEF Reopen, PairTypes, Rows
    <3>2. CASE Block(p, srcs)
      BY <1>1, <1>2, <1>4, <3>2 DEF Block, PairTypes, Reading
    <3>3. CASE Report(p, srcs)
      BY <1>1, <1>2, <1>4, <3>3 DEF Report, PairTypes, Reading, Rows
    <3> QED BY <1>5, <3>1, <3>2, <3>3 DEF Recording
  <2> QED BY <1>1, <1>3, <1>6, <2>1 DEF PairTypes
<1>9. HistoryTypes'
  BY <1>1, <1>2, <1>3 DEF HistoryTypes
<1>10. ScanTypes' /\ ScansOK'
  <2> DEFINE row == [scan[s] EXCEPT !.todo = @ \ {v}]
  <2>1. /\ scan' = [scan EXCEPT ![s] = row] /\ lock' = lock
        /\ deeds' \in 0..MaxDeeds /\ fresh' \in [Scanner -> SUBSET Unit]
    BY <1>1, <1>3 DEF ScanTypes
  <2>2. /\ row \in [at : {"idle", "loaded", "scored", "recording"},
                    unit : Unit \cup {None}, wasClosed : BOOLEAN, todo : SUBSET Unit]
        /\ row.at = scan[s].at /\ row.unit = u /\ row.todo = scan[s].todo \ {v}
    BY <1>0, <1>1 DEF ScanTypes
  <2> HIDE DEF row
  <2>3. row.unit \in Unit /\ status[row.unit] # None /\ row.unit \notin row.todo
    BY <1>0, <1>1, <1>2, <2>2 DEF ScansOK
  <2> QED BY <1>2, <1>6, <1>9, <2>1, <2>2, <2>3, ScannerTypes
<1> QED BY <1>6, <1>7, <1>8, <1>9, <1>10, TypePartsNext DEF TypeInv

LEMMA StutterTypes ==
    ASSUME TypeInv, UNCHANGED vars
    PROVE  TypeInv'
<1>1. /\ UnitTypes /\ SourceTypes /\ PairTypes /\ ScanTypes /\ HistoryTypes /\ ScansOK
  BY TypeParts DEF TypeInv
<1>2. UnitTypes' /\ SourceTypes'
  BY <1>1 DEF UnitTypes, SourceTypes, vars
<1>3. PairTypes' /\ ScanTypes' /\ HistoryTypes'
  BY <1>1 DEF PairTypes, ScanTypes, HistoryTypes, vars
<1>4. ScansOK'
  BY <1>1 DEF ScansOK, vars
<1> QED BY <1>2, <1>3, <1>4, TypePartsNext DEF TypeInv

THEOREM TypeStep == TypeInv /\ [Next]_vars => TypeInv'
<1> SUFFICES ASSUME TypeInv, [Next]_vars PROVE TypeInv'
  OBVIOUS
<1>1. ASSUME NEW s \in Scanner, ScannerStep(s) \/ Fail(s) PROVE TypeInv'
  BY <1>1, ReadingTypes, IdleTypes, RecordTypes DEF ScannerStep
<1>2. ASSUME NEW u \in Unit, UnitStep(u) PROVE TypeInv'
  <2>1. ASSUME NEW t \in Time, NEW x \in Subject, Edit(u, t, x) PROVE TypeInv'
    <3>1. EditUnit(u, t, x) /\ Revise({u}) /\ Deed("edit")
      BY <2>1 DEF Edit
    <3>2. {u} \in SUBSET Unit
      OBVIOUS
    <3> QED BY <3>1, <3>2, EditTypes
  <2>2. ASSUME Resave(u) PROVE TypeInv'
    <3>1. EditUnit(u, time[u], subject[u]) /\ Revise({}) /\ Deed("resave")
      BY <2>2 DEF Resave
    <3>2. {} \in SUBSET Unit /\ time[u] \in Time \cup {None} /\ subject[u] \in Subject \cup {None}
      BY DEF TypeInv, TypeOK
    <3> QED BY <3>1, <3>2, EditTypes
  <2> QED BY <1>2, <2>1, <2>2, RejectTypes, RestoreTypes, PersistTypes, ReassertTypes DEF UnitStep
<1>3. ASSUME NEW p \in Pair, PairStep(p) PROVE TypeInv'
  BY <1>3, ResolveTypes, SettleTypes, ConfirmTypes DEF PairStep
<1>4. CASE UNCHANGED vars
  BY <1>4, StutterTypes
<1> QED BY <1>1, <1>2, <1>3, <1>4, RetractTypes, MergeTypes, SplitTypes DEF Next

\* Rows keep the types of their tables, and a superseded unit names the one
\* that superseded it, through every undo.
THEOREM TypeCorrect == Spec => []TypeOK
<1>1. TypeInv => TypeOK
  BY DEF TypeInv
<1> QED BY <1>1, InitTypes, TypeStep, PTL DEF Spec

-----------------------------------------------------------------------------
(* Pairs.  A unit is scanned when a scanner that knew its candidates has   *)
(* gone through all of them, so the invariant speaks of the lists scanners *)
(* hold: for every claim that is scanned already, and for every claim that *)
(* another scanner is about to finish, the pair is either judged or still  *)
(* to come.  A row that is revised leaves every list and judgement it was  *)
(* on; it is never a scanned one afterwards.                               *)

Listed(s, v) == v \in scan[s].todo \cap fresh[s]

\* The scanner knows the candidates of a unit that is still as it was loaded.
Scored(s) == scan[s].at \in {"scored", "recording"} /\ scan[s].unit \in fresh[s]

FreshAreActive == \A s \in Scanner : \A u \in fresh[s] : status[u] = "active"

NewAreUnscanned == \A u \in Unit : status[u] = None => ~ scanned[u]

LockedUnit ==
    lock # None => scan[lock].unit \in fresh[lock] \/ status[scan[lock].unit] # "active"

ListsAreComplete ==
    \A s \in Scanner, v \in Unit :
        /\ Scored(s) /\ v # scan[s].unit
        /\ Done(v) /\ subject[v] = subject[scan[s].unit]
        => Listed(s, v) \/ {scan[s].unit, v} \in judged

ListsOverlap ==
    \A s, t \in Scanner :
        /\ Scored(s) /\ Scored(t) /\ scan[s].unit # scan[t].unit
        /\ subject[scan[s].unit] = subject[scan[t].unit]
        => \/ Listed(s, scan[t].unit) \/ Listed(t, scan[s].unit)
           \/ {scan[s].unit, scan[t].unit} \in judged

RowsInv   == FreshAreActive /\ NewAreUnscanned /\ LockedUnit
ListsInv  == ListsAreComplete /\ ListsOverlap /\ NoPairMissed
PairsInv  == RowsInv /\ ListsInv

\* NoPairMissed in terms of two units.
LEMMA MissedPair ==
    NoPairMissed <=> \A u, v \in Unit :
        u # v /\ Done(u) /\ Done(v) /\ subject[u] = subject[v] => {u, v} \in judged
<1>1. ASSUME NoPairMissed, NEW u \in Unit, NEW v \in Unit,
             u # v, Done(u), Done(v), subject[u] = subject[v]
      PROVE  {u, v} \in judged
  BY <1>1, PairOf DEF NoPairMissed, Together
<1>2. ASSUME \A u, v \in Unit :
                 u # v /\ Done(u) /\ Done(v) /\ subject[u] = subject[v] => {u, v} \in judged,
             NEW p \in Pair, Together(p), \A u \in p : Done(u)
      PROVE  p \in judged
  <2>1. PICK u \in Unit, v \in Unit : u # v /\ p = {u, v}
    BY InPair
  <2> QED BY <1>2, <2>1 DEF Together
<1> QED BY <1>1, <1>2 DEF NoPairMissed

LEMMA MissedPairNext ==
    (\A u, v \in Unit :
        u # v /\ Done(u)' /\ Done(v)' /\ subject'[u] = subject'[v] => {u, v} \in judged')
    => NoPairMissed'
<1> SUFFICES ASSUME \A u, v \in Unit : u # v /\ Done(u)' /\ Done(v)' /\ subject'[u] = subject'[v]
                        => {u, v} \in judged',
                    NEW p \in Pair, Together(p)', \A u \in p : Done(u)'
             PROVE  p \in judged'
  BY DEF NoPairMissed
<1>1. PICK u \in Unit, v \in Unit : u # v /\ p = {u, v}
  BY InPair
<1> QED BY <1>1 DEF Together

THEOREM InitPairs == Init => PairsInv
<1> SUFFICES ASSUME Init PROVE PairsInv
  OBVIOUS
<1>1. RowsInv
  BY DEF Init, RowsInv, FreshAreActive, NewAreUnscanned, LockedUnit
<1>2. ListsAreComplete /\ ListsOverlap
  BY DEF Init, ListsAreComplete, ListsOverlap, Scored
<1>3. NoPairMissed
  BY MissedPair DEF Init, Done
<1> QED BY <1>1, <1>2, <1>3 DEF PairsInv, ListsInv

\* The lists stay as good as they are when revised rows, those of R, are not
\* scanned ones, and what leaves a list was revised or has been judged.
LEMMA ListsKept ==
    ASSUME TypeInv, ListsInv, NEW R \in SUBSET Unit,
           \A u \in Unit \ R : status'[u] = status[u] /\ subject'[u] = subject[u],
           \A u \in Unit : scanned'[u] => scanned[u],
           \A u \in R : ~ (status'[u] = "active" /\ scanned'[u]),
           \A p \in judged : p \cap R = {} => p \in judged',
           \A s \in Scanner : Scored(s)' => /\ Scored(s) /\ scan'[s].unit = scan[s].unit
                                            /\ scan[s].unit \notin R,
           \A s \in Scanner, v \in Unit \ R :
               Scored(s)' /\ Listed(s, v) => Listed(s, v)' \/ {scan[s].unit, v} \in judged'
    PROVE  ListsInv'
<1>1. \A s \in Scanner : Scored(s) => scan[s].unit \in Unit
  BY DEF TypeInv, ScansOK, Scored
<1>2. \A u \in Unit : Done(u)' => u \notin R /\ Done(u)
  BY DEF Done
<1>3. \A u, v \in Unit : u \notin R /\ v \notin R /\ {u, v} \in judged => {u, v} \in judged'
  OBVIOUS
<1>4. ListsAreComplete'
  <2> SUFFICES ASSUME NEW s \in Scanner, NEW v \in Unit,
                      Scored(s)', v # scan'[s].unit, Done(v)',
                      subject'[v] = subject'[scan'[s].unit]
               PROVE  Listed(s, v)' \/ {scan'[s].unit, v} \in judged'
    BY DEF ListsAreComplete
  <2>1. /\ Scored(s) /\ scan'[s].unit = scan[s].unit /\ scan[s].unit \in Unit \ R
        /\ v \notin R /\ Done(v)
    BY <1>1, <1>2
  <2>2. subject[v] = subject[scan[s].unit]
    BY <2>1
  <2>3. Listed(s, v) \/ {scan[s].unit, v} \in judged
    BY <2>1, <2>2 DEF ListsInv, ListsAreComplete
  <2> QED BY <1>3, <2>1, <2>3
<1>5. ListsOverlap'
  <2> SUFFICES ASSUME NEW s \in Scanner, NEW t \in Scanner, Scored(s)', Scored(t)',
                      scan'[s].unit # scan'[t].unit,
                      subject'[scan'[s].unit] = subject'[scan'[t].unit]
               PROVE  \/ Listed(s, scan[t].unit)' \/ Listed(t, scan[s].unit)'
                      \/ {scan'[s].unit, scan'[t].unit} \in judged'
    BY DEF ListsOverlap
  <2>1. /\ Scored(s) /\ scan'[s].unit = scan[s].unit /\ scan[s].unit \in Unit \ R
        /\ Scored(t) /\ scan'[t].unit = scan[t].unit /\ scan[t].unit \in Unit \ R
    BY <1>1
  <2>2. PICK x \in Unit \ R, y \in Unit \ R : x = scan[s].unit /\ y = scan[t].unit
    BY <2>1
  <2>3. subject[x] = subject[y] /\ x # y
    BY <2>1, <2>2
  <2>4. Listed(s, y) \/ Listed(t, x) \/ {x, y} \in judged
    BY <2>1, <2>2, <2>3 DEF ListsInv, ListsOverlap, Listed
  <2>5. Listed(s, y)' \/ Listed(t, x)' \/ {x, y} \in judged' \/ {y, x} \in judged'
    BY <1>3, <2>2, <2>4
  <2>6. {x, y} = {y, x}
    OBVIOUS
  <2> QED BY <2>1, <2>2, <2>5, <2>6 DEF Listed
<1>6. NoPairMissed'
  <2>1. ASSUME NEW u \in Unit, NEW v \in Unit, u # v, Done(u)', Done(v)',
               subject'[u] = subject'[v]
        PROVE  {u, v} \in judged'
    <3>1. u \notin R /\ v \notin R /\ Done(u) /\ Done(v)
      BY <1>2, <2>1
    <3>2. subject[u] = subject[v]
      BY <2>1, <3>1
    <3>3. {u, v} \in judged
      BY <2>1, <3>1, <3>2, MissedPair DEF ListsInv
    <3> QED BY <1>3, <3>1, <3>3
  <2> QED BY <2>1, MissedPairNext
<1> QED BY <1>4, <1>5, <1>6 DEF ListsInv

\* A step that raises revisions outside the scanner keeps the lists if no
\* revised row is a scanned current claim after it.
LEMMA RevisionKeeps ==
    ASSUME TypeInv, PairsInv, lock = None, UNCHANGED scanner,
           NEW X \in SUBSET Unit, Revise(X),
           \A u \in Unit : scanned'[u] => scanned[u],
           \A u \in Revised(X) : ~ (status'[u] = "active" /\ scanned'[u]),
           \A u \in Unit : status'[u] = None => status[u] = None
    PROVE  PairsInv'
<1> DEFINE R == Revised(X)
<1>1. /\ ScanTypes /\ HistoryTypes /\ ScansOK /\ RowsInv /\ ListsInv
      /\ scan' = scan /\ lock' = None
  BY TypeParts DEF TypeInv, PairsInv, scanner
<1>2. /\ R \in SUBSET Unit
      /\ \A u \in Unit \ R : status'[u] = status[u] /\ subject'[u] = subject[u]
  BY DEF Revised
<1>3. /\ fresh'  = [s \in Scanner |-> fresh[s] \ R]
      /\ judged' = {p \in judged : p \cap R = {}}
  BY DEF Revise
<1>4. \A u \in R : ~ (status'[u] = "active" /\ scanned'[u])
  OBVIOUS
<1> HIDE DEF R
<1>5. \A s \in Scanner : Scored(s)' => /\ Scored(s) /\ scan'[s].unit = scan[s].unit
                                       /\ scan[s].unit \notin R
  BY <1>1, <1>3 DEF Scored
<1>6. \A s \in Scanner, v \in Unit \ R :
          Scored(s)' /\ Listed(s, v) => Listed(s, v)' \/ {scan[s].unit, v} \in judged'
  BY <1>1, <1>3 DEF Listed
<1>7. \A p \in judged : p \cap R = {} => p \in judged'
  BY <1>3
<1>8. ListsInv'
  BY <1>1, <1>2, <1>4, <1>5, <1>6, <1>7, ListsKept
<1>9. RowsInv'
  <2>1. FreshAreActive'
    BY <1>1, <1>2, <1>3 DEF RowsInv, FreshAreActive, ScanTypes
  <2>2. NewAreUnscanned'
    BY <1>1 DEF RowsInv, NewAreUnscanned
  <2>3. LockedUnit'
    BY <1>1 DEF LockedUnit
  <2> QED BY <2>1, <2>2, <2>3 DEF RowsInv
<1> QED BY <1>8, <1>9 DEF PairsInv

\* Undoing supersessions revises the claims that come back, and those are to
\* be scanned again.
LEMMA UndoKeeps ==
    ASSUME TypeInv, PairsInv, lock = None, UNCHANGED scanner,
           NEW C \in SUBSET Supersession,
           NEW st, \A u \in Unit : st[u] \in {status[u], "retracted"},
           UndoSupersessions(C, st),
           \A u \in Unit : scanned'[u] => ScannedAfter(C, st)[u],
           NEW X \in SUBSET Unit, Revise(X),
           \A u \in Unit : \/ ~ scanned'[u]
                           \/ u \notin X /\ time'[u] = time[u] /\ subject'[u] = subject[u]
    PROVE  PairsInv'
<1> DEFINE B == Olders(Reverted(C, st))
<1>1. \A u \in Unit : /\ status'[u] = IF u \in B THEN "active" ELSE st[u]
                      /\ u \notin B => closed'[u] = closed[u]
                      /\ scanned'[u] => scanned[u] /\ u \notin B
  <2>1. /\ status' = [u \in Unit |-> IF u \in B THEN "active" ELSE st[u]]
        /\ closed' = [u \in Unit |-> IF u \in B
                          THEN \E c \in Reverted(C, st) : c.older = u /\ c.closedBefore
                          ELSE closed[u]]
        /\ ScannedAfter(C, st) = [u \in Unit |-> scanned[u] /\ u \notin B]
    BY DEF UndoSupersessions, StatusAfter, ClosedAfter, ScannedAfter
  <2> QED BY <2>1
<1> HIDE DEF B
<1>2. \A u \in Revised(X) : ~ (status'[u] = "active" /\ scanned'[u])
  BY <1>1 DEF Revised
<1>3. \A u \in Unit : status'[u] = None => status[u] = None
  BY <1>1, NoneAssumption
<1>4. \A u \in Unit : scanned'[u] => scanned[u]
  BY <1>1
<1> QED BY <1>2, <1>3, <1>4, RevisionKeeps

\* Withdrawing units undoes the supersessions they caused.
LEMMA WithdrawalKeeps ==
    ASSUME TypeInv, PairsInv, lock = None, UNCHANGED scanner,
           NEW R \in SUBSET Unit, NEW W, NEW st,
           \A u \in Unit : st[u] \in {status[u], "retracted"},
           RetractUnitDependents(R, W, st),
           \A u \in Unit : scanned'[u] => ScannedAfter(CausedBy(R), st)[u],
           NEW X \in SUBSET Unit, Revise(X),
           \A u \in Unit : \/ ~ scanned'[u]
                           \/ u \notin X /\ time'[u] = time[u] /\ subject'[u] = subject[u]
    PROVE  PairsInv'
<1> DEFINE C == CausedBy(R)
<1>1. C \in SUBSET Supersession /\ UndoSupersessions(C, st)
  BY TypeParts DEF TypeInv, CausedBy, PairTypes, RetractUnitDependents
<1>2. \A u \in Unit : scanned'[u] => ScannedAfter(C, st)[u]
  OBVIOUS
<1> HIDE DEF C
<1> QED BY <1>1, <1>2, UndoKeeps

LEMMA PersistPairs ==
    ASSUME TypeInv, PairsInv, NEW u \in Unit, NEW t \in Time, NEW x \in Subject,
           NEW a \in Artifact, Persist(u, t, x, a)
    PROVE  PairsInv'
<1> USE DEF Persist
<1>1. UnitTypes /\ ~ scanned[u]
  BY TypeParts DEF TypeInv, PairsInv, RowsInv, NewAreUnscanned
<1>2. \A v \in Revised({}) : v = u
  BY <1>1 DEF Revised, UnitTypes
<1>3. \A v \in Unit : status'[v] = None => status[v] = None
  BY <1>1, NoneAssumption DEF UnitTypes
<1> QED BY <1>1, <1>2, <1>3, RevisionKeeps

LEMMA RejectPairs ==
    ASSUME TypeInv, PairsInv, NEW u \in Unit, Reject(u)
    PROVE  PairsInv'
<1> DEFINE st == [status EXCEPT ![u] = "retracted"]
<1>1. /\ RetractUnitDependents({u}, gone, st) /\ scanned' = ScannedAfter(CausedBy({u}), st)
      /\ lock = None /\ UNCHANGED <<time, subject, scanner>> /\ Revise({})
  BY DEF Reject, Deed
<1>2. \A v \in Unit : st[v] \in {status[v], "retracted"}
  BY TypeParts DEF TypeInv, UnitTypes
<1>3. {u} \in SUBSET Unit
  OBVIOUS
<1> HIDE DEF st
<1> QED BY <1>1, <1>2, <1>3, WithdrawalKeeps

LEMMA RestorePairs ==
    ASSUME TypeInv, PairsInv, NEW u \in Unit, Restore(u)
    PROVE  PairsInv'
<1> USE DEF Restore, Deed
<1>1. UnitTypes
  BY TypeParts DEF TypeInv
<1>2. \A v \in Revised({}) : v = u /\ ~ scanned'[u]
  BY <1>1 DEF Revised, UnitTypes
<1>3. \A v \in Unit : (status'[v] = None => status[v] = None) /\ (scanned'[v] => scanned[v])
  BY <1>1, NoneAssumption DEF UnitTypes
<1> QED BY <1>2, <1>3, RevisionKeeps

LEMMA EditPairs ==
    ASSUME TypeInv, PairsInv, NEW u \in Unit, NEW t, NEW x, EditUnit(u, t, x),
           NEW X \in SUBSET {u}, Revise(X), lock = None
    PROVE  PairsInv'
<1>1. UnitTypes
  BY TypeParts DEF TypeInv
<1>2. /\ RetractUnitDependents({u}, gone, status) /\ UNCHANGED scanner
      /\ time' = [time EXCEPT ![u] = t] /\ subject' = [subject EXCEPT ![u] = x]
      /\ scanned' = [ScannedAfter(CausedBy({u}), status) EXCEPT ![u] = FALSE]
  BY DEF EditUnit
<1>3. ~ scanned'[u] /\ \A v \in Unit : scanned'[v] => ScannedAfter(CausedBy({u}), status)[v]
  BY <1>2 DEF ScannedAfter
<1>4. \A v \in Unit : \/ ~ scanned'[v]
                      \/ v \notin X /\ time'[v] = time[v] /\ subject'[v] = subject[v]
  BY <1>1, <1>2, <1>3 DEF UnitTypes
<1>5. {u} \in SUBSET Unit /\ X \in SUBSET Unit /\ \A v \in Unit : status[v] \in {status[v], "retracted"}
  OBVIOUS
<1> QED BY <1>2, <1>3, <1>4, <1>5, WithdrawalKeeps

LEMMA RetractPairs ==
    ASSUME TypeInv, PairsInv, NEW a \in Artifact, RetractArtifact(a)
    PROVE  PairsInv'
<1> DEFINE R  == Orphans(a)
           st == [u \in Unit |-> IF u \in R THEN "retracted" ELSE status[u]]
<1>1. /\ \/ /\ RetractUnitDependents(R, gone \cup {a}, st)
            /\ scanned' = ScannedAfter(CausedBy(R), st)
         \/ UNCHANGED <<status, closed, scanned>>
      /\ UNCHANGED <<time, subject, scanner>>
      /\ Revise({}) /\ lock = None
  BY DEF RetractArtifact, Deed
<1>2. R \in SUBSET Unit /\ \A u \in Unit : st[u] \in {status[u], "retracted"}
  BY DEF Orphans
<1> HIDE DEF R, st
<1>3. CASE /\ RetractUnitDependents(R, gone \cup {a}, st)
           /\ scanned' = ScannedAfter(CausedBy(R), st)
  BY <1>1, <1>2, <1>3, WithdrawalKeeps
<1>4. CASE UNCHANGED <<status, closed, scanned>>
  <2>1. Revised({}) = {}
    BY <1>1, <1>4 DEF Revised
  <2> QED BY <1>1, <1>4, <2>1, RevisionKeeps
<1> QED BY <1>1, <1>3, <1>4

LEMMA ResolvePairs ==
    ASSUME TypeInv, PairsInv, NEW p \in Pair, NEW l \in p, Resolve(p, l)
    PROVE  PairsInv'
<1>1. UnitTypes /\ l \in Unit
  BY TypeParts, InPair DEF TypeInv
<1>2. /\ status' = [status EXCEPT ![l] = "superseded"]
      /\ closed' = [closed EXCEPT ![l] = TRUE]
      /\ UNCHANGED <<time, subject, scanned, scanner>>
      /\ Revise({}) /\ lock = None
  BY DEF Resolve, Deed
<1>3. \A v \in Revised({}) : v = l /\ status'[l] = "superseded"
  BY <1>1, <1>2 DEF Revised, UnitTypes
<1>4. \A v \in Unit : (status'[v] = None => status[v] = None) /\ (scanned'[v] => scanned[v])
  BY <1>1, <1>2, NoneAssumption DEF UnitTypes
<1> QED BY <1>2, <1>3, <1>4, RevisionKeeps

LEMMA ConfirmPairs ==
    ASSUME TypeInv, PairsInv, NEW p \in Pair, Confirm(p)
    PROVE  PairsInv'
<1> DEFINE C == Between(p)
<1>1. /\ UndoSupersessions(C, status) /\ scanned' = ScannedAfter(C, status)
      /\ UNCHANGED <<time, subject, scanner>> /\ Revise({}) /\ lock = None
  BY DEF Confirm, Deed
<1>2. C \in SUBSET Supersession /\ \A u \in Unit : status[u] \in {status[u], "retracted"}
  BY TypeParts DEF TypeInv, PairTypes, Between
<1> HIDE DEF C
<1> QED BY <1>1, <1>2, UndoKeeps

LEMMA MergePairs ==
    ASSUME TypeInv, PairsInv, Merge \/ Split
    PROVE  PairsInv'
<1>1. /\ UNCHANGED <<status, time, closed, scanner>> /\ Revise({}) /\ lock = None
      /\ \A u \in Unit : /\ scanned'[u] => scanned[u]
                         /\ subject'[u] # subject[u] => ~ scanned'[u]
  BY DEF Merge, Split, Deed, KeepsCursor, About
<1>2. \A u \in Revised({}) : ~ (status'[u] = "active" /\ scanned'[u])
  BY <1>1 DEF Revised
<1> QED BY <1>1, <1>2, RevisionKeeps

\* Steps that change no row that the lists are about.
LEMMA UnrevisedPairs ==
    ASSUME TypeInv, PairsInv,
           UNCHANGED <<status, subject, scanned, scanner, fresh, judged>>
    PROVE  PairsInv'
<1>1. RowsInv'
  BY DEF PairsInv, RowsInv, FreshAreActive, NewAreUnscanned, LockedUnit, scanner
<1>2. ListsAreComplete'
  BY DEF PairsInv, ListsInv, ListsAreComplete, Scored, Listed, Done, scanner
<1>3. ListsOverlap'
  BY DEF PairsInv, ListsInv, ListsOverlap, Scored, Listed, scanner
<1>4. NoPairMissed'
  BY DEF PairsInv, ListsInv, NoPairMissed, Together, Done
<1> QED BY <1>1, <1>2, <1>3, <1>4 DEF PairsInv, ListsInv

\* A scanner that starts, claims, passes over a candidate or gives up puts
\* nothing on a list and takes nothing off one that is still good.
LEMMA QuietPairs ==
    ASSUME TypeInv, PairsInv, NEW s \in Scanner,
           \/ \E u \in Unit : Load(s, u) \/ Skip(s, u)
           \/ Claim(s) \/ ClaimLost(s) \/ Fail(s)
    PROVE  PairsInv'
<1>1. ScanTypes /\ ScansOK /\ RowsInv /\ ListsInv
  BY TypeParts DEF TypeInv, PairsInv
<1>2. UNCHANGED <<status, subject, scanned, judged>>
  BY DEF Load, Skip, Claim, ClaimLost, Fail, GoIdle, units, history
<1>3. RowsInv'
  <2>1. FreshAreActive'
    BY <1>1, <1>2 DEF RowsInv, FreshAreActive, ScanTypes,
                      Load, Skip, Claim, ClaimLost, Fail, GoIdle
  <2>2. NewAreUnscanned'
    BY <1>1, <1>2 DEF RowsInv, NewAreUnscanned
  <2>3. LockedUnit'
    BY <1>1, <1>2, NoneAssumption
       DEF RowsInv, LockedUnit, ScanTypes, Claimable,
           Load, Skip, Claim, ClaimLost, Fail, GoIdle, Deed
  <2> QED BY <2>1, <2>2, <2>3 DEF RowsInv
<1>4. ASSUME NEW t \in Scanner, Scored(t)'
      PROVE  /\ Scored(t) /\ scan'[t].unit = scan[t].unit
             /\ \A v \in Unit : Listed(t, v) => Listed(t, v)'
  <2>1. CASE t = s
    <3>1. ~ ClaimLost(s) /\ ~ Fail(s) /\ \A u \in Unit : ~ Load(s, u)
      BY <1>1, <1>4, <2>1 DEF Scored, ScanTypes, Load, ClaimLost, Fail, GoIdle, Idle
    <3>2. CASE Claim(s)
      BY <1>1, <1>4, <2>1, <3>2 DEF Scored, Listed, ScanTypes, Claim
    <3>3. ASSUME NEW u \in Unit, Skip(s, u)
          PROVE  /\ Scored(t) /\ scan'[t].unit = scan[t].unit
                 /\ \A v \in Unit : Listed(t, v) => Listed(t, v)'
      BY <1>1, <1>4, <2>1, <3>3 DEF Scored, Listed, ScanTypes, Skip
    <3> QED BY <3>1, <3>2, <3>3
  <2>2. CASE t # s
    <3>1. scan'[t] = scan[t] /\ fresh'[t] = fresh[t]
      BY <1>1, <2>2 DEF ScanTypes, Load, Skip, Claim, ClaimLost, Fail, GoIdle
    <3> QED BY <1>4, <3>1 DEF Scored, Listed
  <2> QED BY <2>1, <2>2
<1>5. ListsInv'
  <2> DEFINE R == {}
  <2>1. /\ R \in SUBSET Unit
        /\ \A u \in Unit \ R : status'[u] = status[u] /\ subject'[u] = subject[u]
        /\ \A u \in Unit : scanned'[u] => scanned[u]
        /\ \A u \in R : ~ (status'[u] = "active" /\ scanned'[u])
        /\ \A p \in judged : p \cap R = {} => p \in judged'
    BY <1>2
  <2>2. /\ \A t \in Scanner : Scored(t)' => /\ Scored(t) /\ scan'[t].unit = scan[t].unit
                                            /\ scan[t].unit \notin R
        /\ \A t \in Scanner, v \in Unit \ R :
               Scored(t)' /\ Listed(t, v) => Listed(t, v)' \/ {scan[t].unit, v} \in judged'
    BY <1>4
  <2> HIDE DEF R
  <2> QED BY <1>1, <2>1, <2>2, ListsKept
<1> QED BY <1>3, <1>5 DEF PairsInv

\* The candidates are all current claims about the subject, so also those
\* that are scanned and those other scanners have loaded.
LEMMA CandidatesPairs ==
    ASSUME TypeInv, PairsInv, NEW s \in Scanner, LoadCandidates(s)
    PROVE  PairsInv'
<1>0. PICK u \in Unit : u = scan[s].unit
  BY NoneAssumption DEF TypeInv, ScansOK, LoadCandidates
<1> DEFINE C == Candidates(u)
<1>1. ScanTypes /\ ScansOK /\ RowsInv /\ ListsInv
  BY TypeParts DEF TypeInv, PairsInv
<1>2. /\ lock = None /\ scan[s].at = "loaded"
      /\ scan'  = [scan EXCEPT ![s].at = "scored", ![s].todo = C]
      /\ fresh' = [fresh EXCEPT ![s] = @ \cup C]
      /\ UNCHANGED <<status, subject, scanned, judged, lock>>
  BY <1>0 DEF LoadCandidates, units, history
<1>3. /\ scan'[s].at = "scored" /\ scan'[s].unit = u /\ scan'[s].todo = C
      /\ fresh'[s] = fresh[s] \cup C
      /\ \A t \in Scanner \ {s} : scan'[t] = scan[t] /\ fresh'[t] = fresh[t]
  BY <1>0, <1>1, <1>2 DEF ScanTypes
<1>4. /\ C \in SUBSET Unit
      /\ \A v \in C : status[v] = "active"
      /\ \A v \in Unit : v # u /\ status[v] = "active" /\ subject[v] = subject[u] => v \in C
  BY DEF Candidates, About
<1> HIDE DEF C
<1>5. UNCHANGED <<status, subject, scanned, judged>>
  BY <1>2
<1>6. RowsInv'
  <2>1. FreshAreActive'
    BY <1>1, <1>2, <1>3, <1>4 DEF RowsInv, FreshAreActive, ScanTypes
  <2>2. NewAreUnscanned' /\ LockedUnit'
    BY <1>1, <1>2 DEF RowsInv, NewAreUnscanned, LockedUnit
  <2> QED BY <2>1, <2>2 DEF RowsInv
<1>7. \A t \in Scanner \ {s} : (Scored(t)' <=> Scored(t)) /\ \A v : Listed(t, v)' <=> Listed(t, v)
  BY <1>3 DEF Scored, Listed
<1>8. \A v \in Unit : v # u /\ status[v] = "active" /\ subject[v] = subject[u] => Listed(s, v)'
  BY <1>3, <1>4 DEF Listed
<1>9. ListsAreComplete'
  <2> SUFFICES ASSUME NEW t \in Scanner, NEW v \in Unit,
                      Scored(t)', v # scan'[t].unit, Done(v)',
                      subject'[v] = subject'[scan'[t].unit]
               PROVE  Listed(t, v)' \/ {scan'[t].unit, v} \in judged'
    BY DEF ListsAreComplete
  <2>1. Done(v) /\ status[v] = "active"
    BY <1>2 DEF Done
  <2>2. CASE t = s
    BY <1>2, <1>3, <1>8, <2>1, <2>2
  <2>3. CASE t # s
    <3>1. Scored(t) /\ scan'[t] = scan[t]
      BY <1>3, <1>7, <2>3
    <3>2. Listed(t, v) \/ {scan[t].unit, v} \in judged
      BY <1>1, <1>5, <2>1, <3>1 DEF ListsInv, ListsAreComplete
    <3> QED BY <1>7, <1>5, <2>3, <3>1, <3>2
  <2> QED BY <2>2, <2>3
<1>10. ListsOverlap'
  <2>1. ASSUME NEW t \in Scanner \ {s}, Scored(t)', scan'[t].unit # u,
               subject'[scan'[t].unit] = subject'[u]
        PROVE  Listed(s, scan[t].unit)'
    <3>1. PICK y \in Unit : y = scan[t].unit /\ y \in fresh[t] /\ scan'[t].unit = y
      BY <1>1, <1>3, <1>7, <2>1 DEF Scored, ScanTypes
    <3>2. status[y] = "active" /\ y # u /\ subject[y] = subject[u]
      BY <1>1, <1>2, <2>1, <3>1 DEF RowsInv, FreshAreActive
    <3>3. Listed(s, y)'
      BY <1>8, <3>2
    <3> QED BY <3>1, <3>3 DEF Listed
  <2>2. ASSUME NEW x \in Scanner \ {s}, NEW y \in Scanner \ {s}, Scored(x)', Scored(y)',
               scan'[x].unit # scan'[y].unit, subject'[scan'[x].unit] = subject'[scan'[y].unit]
        PROVE  \/ Listed(x, scan[y].unit)' \/ Listed(y, scan[x].unit)'
               \/ {scan'[x].unit, scan'[y].unit} \in judged'
    <3>1. Scored(x) /\ Scored(y) /\ scan'[x] = scan[x] /\ scan'[y] = scan[y]
      BY <1>3, <1>7, <2>2
    <3>2. \/ Listed(x, scan[y].unit) \/ Listed(y, scan[x].unit)
          \/ {scan[x].unit, scan[y].unit} \in judged
      BY <1>1, <1>5, <2>2, <3>1 DEF ListsInv, ListsOverlap
    <3>3. fresh'[x] = fresh[x] /\ fresh'[y] = fresh[y]
      BY <1>3
    <3> QED BY <1>5, <3>1, <3>2, <3>3 DEF Listed
  <2>3. ASSUME NEW x \in Scanner, NEW y \in Scanner, Scored(x)', Scored(y)',
               scan'[x].unit # scan'[y].unit, subject'[scan'[x].unit] = subject'[scan'[y].unit]
        PROVE  \/ Listed(x, scan[y].unit)' \/ Listed(y, scan[x].unit)'
               \/ {scan'[x].unit, scan'[y].unit} \in judged'
    BY <1>3, <2>1, <2>2, <2>3
  <2> QED BY <2>3 DEF ListsOverlap
<1>11. NoPairMissed'
  BY <1>1, <1>2 DEF ListsInv, NoPairMissed, Together, Done
<1> QED BY <1>6, <1>9, <1>10, <1>11 DEF PairsInv, ListsInv

\* The unit that becomes scanned has an empty list, so that it was judged with
\* every scanned one, and is still on the lists of other scanners.
LEMMA FinishPairs ==
    ASSUME TypeInv, PairsInv, NEW s \in Scanner, Finish(s)
    PROVE  PairsInv'
<1>0. PICK u \in Unit : u = scan[s].unit
  BY NoneAssumption DEF TypeInv, ScansOK, Finish
<1>1. ScanTypes /\ UnitTypes /\ ScansOK /\ RowsInv /\ ListsInv
  BY TypeParts DEF TypeInv, PairsInv
<1>2. /\ lock = s /\ scan[s].todo = {} /\ scan[s].at = "recording" /\ status[u] # None
      /\ scanned' = [scanned EXCEPT ![u] = TRUE]
      /\ scan' = [scan EXCEPT ![s] = Idle] /\ fresh' = [fresh EXCEPT ![s] = {}]
      /\ lock' = None
      /\ UNCHANGED <<status, subject, judged>>
  BY <1>0, <1>1 DEF Finish, GoIdle, units, history, ScansOK
<1>3. /\ scan'[s].at = "idle"
      /\ \A t \in Scanner \ {s} : scan'[t] = scan[t] /\ fresh'[t] = fresh[t]
  BY <1>1, <1>2 DEF ScanTypes, Idle
<1>4. RowsInv'
  <2>1. FreshAreActive'
    BY <1>1, <1>2 DEF RowsInv, FreshAreActive, ScanTypes
  <2>2. NewAreUnscanned'
    BY <1>1, <1>2 DEF RowsInv, NewAreUnscanned, UnitTypes
  <2>3. LockedUnit'
    BY <1>2 DEF LockedUnit
  <2> QED BY <2>1, <2>2, <2>3 DEF RowsInv
<1>5. \A t \in Scanner : Scored(t)' =>
          t # s /\ Scored(t) /\ scan'[t] = scan[t] /\ fresh'[t] = fresh[t]
  BY <1>3 DEF Scored
<1>6. status[u] = "active" => Scored(s) /\ \A v : ~ Listed(s, v)
  BY <1>0, <1>1, <1>2, NoneAssumption DEF RowsInv, LockedUnit, Scored, Listed
<1>7. \A v \in Unit : Done(v)' => (v = u /\ status[u] = "active") \/ Done(v)
  BY <1>1, <1>2 DEF Done, UnitTypes
<1>8. ListsAreComplete'
  <2> SUFFICES ASSUME NEW t \in Scanner, NEW v \in Unit,
                      Scored(t)', v # scan'[t].unit, Done(v)',
                      subject'[v] = subject'[scan'[t].unit]
               PROVE  Listed(t, v)' \/ {scan'[t].unit, v} \in judged'
    BY DEF ListsAreComplete
  <2>1. t # s /\ Scored(t) /\ scan'[t] = scan[t] /\ fresh'[t] = fresh[t]
    BY <1>5
  <2>2. v # scan[t].unit /\ subject[v] = subject[scan[t].unit]
    BY <1>2, <2>1
  <2>3. Listed(t, v) \/ {scan[t].unit, v} \in judged
    <3>1. CASE Done(v)
      BY <1>1, <2>1, <2>2, <3>1 DEF ListsInv, ListsAreComplete
    <3>2. CASE v = u /\ status[u] = "active"
      <4>1. Scored(s) /\ \A w : ~ Listed(s, w)
        BY <1>6, <3>2
      <4>2. \/ Listed(t, scan[s].unit) \/ Listed(s, scan[t].unit)
            \/ {scan[t].unit, scan[s].unit} \in judged
        BY <1>0, <1>1, <2>1, <2>2, <3>2, <4>1 DEF ListsInv, ListsOverlap
      <4> QED BY <1>0, <3>2, <4>1, <4>2 DEF Listed
    <3> QED BY <1>7, <3>1, <3>2
  <2> QED BY <1>2, <2>1, <2>3 DEF Listed
<1>9. ListsOverlap'
  <2> SUFFICES ASSUME NEW x \in Scanner, NEW y \in Scanner, Scored(x)', Scored(y)',
                      scan'[x].unit # scan'[y].unit,
                      subject'[scan'[x].unit] = subject'[scan'[y].unit]
               PROVE  \/ Listed(x, scan[y].unit)' \/ Listed(y, scan[x].unit)'
                      \/ {scan'[x].unit, scan'[y].unit} \in judged'
    BY DEF ListsOverlap
  <2>1. /\ Scored(x) /\ scan'[x] = scan[x] /\ fresh'[x] = fresh[x]
        /\ Scored(y) /\ scan'[y] = scan[y] /\ fresh'[y] = fresh[y]
    BY <1>5
  <2>2. subject' = subject /\ judged' = judged
    BY <1>2
  <2>3. \/ Listed(x, scan[y].unit) \/ Listed(y, scan[x].unit)
        \/ {scan[x].unit, scan[y].unit} \in judged
    BY <1>1, <2>1, <2>2 DEF ListsInv, ListsOverlap
  <2> QED BY <2>1, <2>2, <2>3 DEF Listed
<1>10. NoPairMissed'
  <2>1. ASSUME NEW v \in Unit, v # u, status[u] = "active", Done(v), subject[v] = subject[u]
        PROVE  {u, v} \in judged
    BY <1>0, <1>1, <1>6, <2>1 DEF ListsInv, ListsAreComplete
  <2>2. ASSUME NEW v \in Unit, NEW w \in Unit, v # w, Done(v)', Done(w)',
               subject'[v] = subject'[w]
        PROVE  {v, w} \in judged'
    <3>1. subject[v] = subject[w] /\ judged' = judged
      BY <1>2, <2>2
    <3>2. CASE v = u \/ w = u
      <4>1. {v, w} = {w, v}
        OBVIOUS
      <4>2. status[u] = "active"
        BY <1>2, <2>2, <3>2 DEF Done
      <4> QED BY <1>7, <2>1, <2>2, <3>1, <3>2, <4>1, <4>2
    <3>3. CASE v # u /\ w # u
      BY <1>1, <1>7, <2>2, <3>1, <3>3, MissedPair DEF ListsInv
    <3> QED BY <3>2, <3>3
  <2> QED BY <2>2, MissedPairNext
<1> QED BY <1>4, <1>8, <1>9, <1>10 DEF PairsInv, ListsInv

\* A candidate leaves the list with its pair judged, unless one of the two is
\* superseded by that.
LEMMA RecordPairs ==
    ASSUME TypeInv, PairsInv, NEW s \in Scanner, NEW v \in Unit, Record(s, v)
    PROVE  PairsInv'
<1>0. PICK u \in Unit, wasClosed \in BOOLEAN :
          u = scan[s].unit /\ wasClosed = scan[s].wasClosed
  BY TwoUnits
<1> DEFINE p == {u, v}
           R == Revised({})
<1>1. /\ UnitTypes /\ SourceTypes /\ PairTypes /\ ScanTypes /\ HistoryTypes
      /\ ScansOK /\ RowsInv /\ ListsInv
  BY TypeParts DEF TypeInv, PairsInv
<1>2. u # v
  BY <1>0, TwoUnits
<1>3. /\ lock = s
      /\ RecordConflict(u, v, wasClosed)
      /\ scan'   = [scan EXCEPT ![s].todo = @ \ {v}]
      /\ UNCHANGED <<time, subject, scanned, lock>>
      /\ fresh'  = [x \in Scanner |-> fresh[x] \ R]
      /\ judged' = {q \in judged \cup {p} : q \cap R = {}}
  BY <1>0 DEF Record
<1>4. /\ \A x \in Scanner : scan'[x].at = scan[x].at /\ scan'[x].unit = scan[x].unit
      /\ \A x \in Scanner \ {s} : scan'[x].todo = scan[x].todo
      /\ scan'[s].todo = scan[s].todo \ {v}
  BY <1>1, <1>3 DEF ScanTypes
<1>5. /\ UNCHANGED <<subject, scanned, lock>>
      /\ \A x \in Scanner : fresh'[x] = fresh[x] \ R
      /\ \A q \in judged \cup {p} : q \cap R = {} => q \in judged'
  BY <1>3
<1>6. /\ R \in SUBSET Unit
      /\ \A w \in Unit \ R : status'[w] = status[w] /\ subject'[w] = subject[w]
  BY DEF Revised
<1>7. /\ \A w \in R : status'[w] = "superseded"
      /\ \A w \in Unit : status'[w] = None => status[w] = None
  <2>1. Superseding(p, (sources[u] \cup sources[v]) \ gone)
    BY <1>1, <1>2, <1>3, ConflictOutcome
  <2>2. CASE KeepUnits
    BY <1>3, <2>2 DEF KeepUnits, Revised
  <2>3. ASSUME NEW old \in p, NEW new, NEW cert, Supersede(old, new, cert)
        PROVE  /\ \A w \in R : status'[w] = "superseded"
               /\ \A w \in Unit : status'[w] = None => status[w] = None
    BY <1>1, <1>3, <2>3, NoneAssumption DEF Supersede, Revised, UnitTypes
  <2> QED BY <2>1, <2>2, <2>3 DEF Superseding
<1> HIDE DEF R
<1>8. RowsInv'
  <2>1. FreshAreActive'
    BY <1>1, <1>5, <1>6 DEF RowsInv, FreshAreActive, ScanTypes
  <2>2. NewAreUnscanned'
    BY <1>1, <1>5, <1>7 DEF RowsInv, NewAreUnscanned
  <2>3. LockedUnit'
    <3>1. u \in fresh[s] \/ status[u] # "active"
      BY <1>0, <1>1, <1>3, NoneAssumption DEF RowsInv, LockedUnit
    <3>2. u \in fresh'[s] \/ status'[u] # "active"
      BY <1>5, <1>6, <1>7, <3>1
    <3> QED BY <1>0, <1>3, <1>4, <3>2 DEF LockedUnit
  <2> QED BY <2>1, <2>2, <2>3 DEF RowsInv
<1>9. ListsInv'
  <2>1. \A x \in Scanner : Scored(x)' => /\ Scored(x) /\ scan'[x].unit = scan[x].unit
                                         /\ scan[x].unit \notin R
    BY <1>4, <1>5 DEF Scored
  <2>2. ASSUME NEW x \in Scanner, NEW w \in Unit \ R, Scored(x)', Listed(x, w)
        PROVE  Listed(x, w)' \/ {scan[x].unit, w} \in judged'
    <3>1. CASE x = s /\ w = v
      BY <1>0, <1>5, <2>1, <2>2, <3>1
    <3>2. CASE x # s \/ w # v
      BY <1>4, <1>5, <2>2, <3>2 DEF Listed
    <3> QED BY <3>1, <3>2
  <2>3. /\ \A w \in Unit : scanned'[w] => scanned[w]
        /\ \A w \in R : ~ (status'[w] = "active" /\ scanned'[w])
        /\ \A q \in judged : q \cap R = {} => q \in judged'
    BY <1>5, <1>7
  <2> QED BY <1>1, <1>6, <2>1, <2>2, <2>3, ListsKept
<1> QED BY <1>8, <1>9 DEF PairsInv

THEOREM PairsStep == TypeInv /\ PairsInv /\ [Next]_vars => PairsInv'
<1> SUFFICES ASSUME TypeInv, PairsInv, [Next]_vars PROVE PairsInv'
  OBVIOUS
<1>1. ASSUME NEW s \in Scanner, ScannerStep(s) \/ Fail(s) PROVE PairsInv'
  BY <1>1, QuietPairs, CandidatesPairs, FinishPairs, RecordPairs DEF ScannerStep
<1>2. ASSUME NEW u \in Unit, UnitStep(u) PROVE PairsInv'
  <2>1. ASSUME NEW t \in Time, NEW x \in Subject, Edit(u, t, x) PROVE PairsInv'
    <3>1. EditUnit(u, t, x) /\ Revise({u}) /\ lock = None /\ {u} \in SUBSET {u}
      BY <2>1 DEF Edit, Deed
    <3> QED BY <3>1, EditPairs
  <2>2. ASSUME Resave(u) PROVE PairsInv'
    <3>1. EditUnit(u, time[u], subject[u]) /\ Revise({}) /\ lock = None /\ {} \in SUBSET {u}
      BY <2>2 DEF Resave, Deed
    <3> QED BY <3>1, EditPairs
  <2>3. ASSUME NEW a \in Artifact, Reassert(u, a) PROVE PairsInv'
    BY <2>3, UnrevisedPairs DEF Reassert, units, history
  <2> QED BY <1>2, <2>1, <2>2, <2>3, RejectPairs, RestorePairs, PersistPairs DEF UnitStep
<1>3. ASSUME NEW p \in Pair, PairStep(p) PROVE PairsInv'
  <2>1. ASSUME Settle(p) \/ Agree(p) PROVE PairsInv'
    BY <2>1, UnrevisedPairs DEF Settle, Agree, units, history
  <2> QED BY <1>3, <2>1, ResolvePairs, ConfirmPairs DEF PairStep
<1>4. CASE UNCHANGED vars
  BY <1>4, UnrevisedPairs DEF vars, scanner
<1> QED BY <1>1, <1>2, <1>3, <1>4, RetractPairs, MergePairs DEF Next

\* However extraction, people and any number of scanners interleave, two
\* current claims about one subject that are both scanned have been compared
\* as they are now.
THEOREM PairsAreJudged == Spec => []NoPairMissed
<1>1. Init => TypeInv /\ PairsInv
  BY InitTypes, InitPairs
<1>2. TypeInv /\ PairsInv /\ [Next]_vars => TypeInv' /\ PairsInv'
  BY TypeStep, PairsStep
<1>3. PairsInv => NoPairMissed
  BY DEF PairsInv, ListsInv
<1> QED BY <1>1, <1>2, <1>3, PTL DEF Spec
=============================================================================
