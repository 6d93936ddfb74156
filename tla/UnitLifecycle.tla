--------------------------- MODULE UnitLifecycle ---------------------------
(***************************************************************************)
(* What becomes of a claim (an atomic unit) after extraction: the scanner  *)
(* pairs it with others about the same subject, reports contradictions and *)
(* supersedes older claims; people reject, restore and edit claims, settle *)
(* contradictions, judge what the scanner explained away and withdraw      *)
(* sources; merging and splitting their subjects makes claims meet.        *)
(*                                                                         *)
(* The scanner loads a unit, then its candidates, scores them, and only    *)
(* then opens the transaction that claims the unit and records what it     *)
(* found.  Rows carry a content_revision; a row revised since it was       *)
(* loaded is not acted upon.  Here fresh[s] is the set of units that have  *)
(* not been revised since scanner s loaded them.                           *)
(*                                                                         *)
(* The recording transaction is a step per candidate (lock).  Nothing else *)
(* runs meanwhile: most writers take the same advisory lock, and those     *)
(* that do not can only touch rows the transaction has not touched yet, so *)
(* they might as well have run before it.                                  *)
(*                                                                         *)
(* A claim is reduced to the time it speaks of; two claims about one       *)
(* subject with equal times conflict, the later of two others succeeds the *)
(* earlier.  Claims the scorer does not flag are like claims about         *)
(* different subjects.  Left out: candidates found by embedding, the limit *)
(* on candidates, the local judge, tray items, feedback without effect.    *)
(***************************************************************************)
EXTENDS Naturals

CONSTANTS
    Unit,       \* ids of atomic units
    Time,       \* when a claim holds from
    Artifact,   \* sources
    Scanner,    \* scanning processes
    Subject,    \* entities that claims are about
    Winner,     \* the one that survives a merge ...
    Loser,      \* ... and the one merged into it
    None,
    Deeds,      \* the kinds of deeds people do in a behaviour
    MaxDeeds    \* bound on the number of deeds

DeedKinds == {"reject", "restore", "edit", "resolve", "settle", "confirm",
              "agree", "retract", "reassert", "merge", "split", "fail", "resave"}

ASSUME TimeAssumption   == Time \subseteq Nat
ASSUME EntityAssumption == /\ Winner \in Subject /\ Winner # Loser
                           /\ "split" \in Deeds => Loser \in Subject
ASSUME NoneAssumption   ==
    /\ None \notin Unit \cup Scanner \cup Time \cup Subject
    /\ None \notin {"active", "superseded", "retracted"}
    /\ None \notin {"open", "withdrawn", "agreed", "settled", "decided"}
    /\ None \notin {"confirmed", "notConflict"}
ASSUME BoundAssumption  == Deeds \subseteq DeedKinds /\ MaxDeeds \in Nat

Pair == UNION {{{u, v} : v \in Unit \ {u}} : u \in Unit}

VARIABLES
    status,        \* atomic_units.status; None before extraction
    time,          \* what the statement says
    subject,       \* atomic_units.subject_entity_id
    by,            \* atomic_units.superseded_by_unit_id
    closed,        \* valid_to is set
    scanned,       \* contradiction_scanned_at is set
    edges,         \* status of the relationships a unit asserts
    sources,       \* atomic_unit_provenance: the artifacts of a unit
    manual,        \* extraction_method is 'manual': the claim was edited
    rejected,      \* the last feedback on a unit is a reject
    gone,          \* artifacts with retracted_at set
    supersessions, \* live certificates of automatic supersessions
    reading,       \* the live contradiction certificate of a pair
    contradiction, \* the contradictions row of a pair
    linked,        \* pairs whose row points at their live certificate
    verdict,       \* semantic_user_decisions on a pair, not revoked
    journal,       \* what the merge of Loser into Winner moved, None unmerged
    scan,          \* what each scanner has loaded
    fresh,         \* units not revised since a scanner loaded them
    lock,          \* the scanner in its recording transaction
    deeds,         \* number of deeds
    judged,        \* history: pairs judged on what they are now
    found          \* history: those of them read as conflicts

units   == <<status, time, subject, by, closed>>
certs   == <<supersessions, reading, contradiction, linked>>
scanner == <<scan, lock>>
history == <<judged, found>>
vars    == <<status, time, subject, by, closed, scanned, edges, sources,
             manual, rejected, gone, supersessions, reading, contradiction,
             linked, verdict, journal, scan, fresh, lock, deeds, judged,
             found>>

-----------------------------------------------------------------------------
(* Row shapes.                                                             *)

Supersession == [older : Unit, newer : Unit, closedBefore : BOOLEAN,
                 sources : SUBSET Artifact]

Reading == [outcome : {"blocked", "reported"}, sources : SUBSET Artifact]

\* withdrawn: dismissed by 'safety'; agreed: both_valid by AGREED_BY;
\* settled: a person's dismissed or both_valid; decided: resolved_a or _b.
Rows == {None, "open", "withdrawn", "agreed", "settled", "decided"}

Journal == [units : SUBSET Unit, rowsBefore : SUBSET Pair]

Idle == [at |-> "idle", unit |-> None, wasClosed |-> FALSE, todo |-> {}]

Init ==
    /\ status        = [u \in Unit |-> None]
    /\ time          = [u \in Unit |-> None]
    /\ subject       = [u \in Unit |-> None]
    /\ by            = [u \in Unit |-> None]
    /\ closed        = [u \in Unit |-> FALSE]
    /\ scanned       = [u \in Unit |-> FALSE]
    /\ edges         = [u \in Unit |-> None]
    /\ sources       = [u \in Unit |-> {}]
    /\ manual        = [u \in Unit |-> FALSE]
    /\ rejected      = [u \in Unit |-> FALSE]
    /\ gone          = {}
    /\ supersessions = {}
    /\ reading       = [p \in Pair |-> None]
    /\ contradiction = [p \in Pair |-> None]
    /\ linked        = {}
    /\ verdict       = [p \in Pair |-> None]
    /\ journal       = None
    /\ scan          = [s \in Scanner |-> Idle]
    /\ fresh         = [s \in Scanner |-> {}]
    /\ lock          = None
    /\ deeds         = 0
    /\ judged        = {}
    /\ found         = {}

-----------------------------------------------------------------------------
(* Revisions.                                                              *)

\* Rows whose content_revision the trigger raises in this step, besides those
\* in X whose wording changes.
Revised(X) == X \cup {u \in Unit : \/ status'[u]  # status[u]
                                  \/ time'[u]    # time[u]
                                  \/ subject'[u] # subject[u]
                                  \/ closed'[u]  # closed[u]}

\* A scanner no longer acts on what it loaded of a revised row, and what was
\* judged of such a row no longer counts.
Revise(X) ==
    /\ fresh'  = [s \in Scanner |-> fresh[s] \ Revised(X)]
    /\ judged' = {p \in judged : p \cap Revised(X) = {}}
    /\ found'  = {p \in found : p \cap Revised(X) = {}}

\* Steps of people and of other workers, in transactions of their own.
Deed(kind) ==
    /\ kind \in Deeds
    /\ deeds < MaxDeeds
    /\ lock = None
    /\ deeds' = deeds + 1

\* An entity that has been merged away gets no new claims.
LiveSubject(x) == x = Loser => journal = None

-----------------------------------------------------------------------------
(* Undoing supersessions: undo_supersession over the certificates C, for   *)
(* statuses st and edges ed as the transaction has left them so far.       *)

Olders(C) == {c.older : c \in C}

\* The older claims that are still superseded by the newer one.
Reverted(C, st) == {c \in C : st[c.older] = "superseded" /\ by[c.older] = c.newer}

StatusAfter(C, st) ==
    [u \in Unit |-> IF u \in Olders(Reverted(C, st)) THEN "active" ELSE st[u]]

ByAfter(C, st) ==
    [u \in Unit |-> IF u \in Olders(Reverted(C, st)) THEN None ELSE by[u]]

ClosedAfter(C, st) ==
    [u \in Unit |-> IF u \in Olders(Reverted(C, st))
                    THEN \E c \in Reverted(C, st) : c.older = u /\ c.closedBefore
                    ELSE closed[u]]

ScannedAfter(C, st) ==
    [u \in Unit |-> scanned[u] /\ u \notin Olders(Reverted(C, st))]

\* Wrong: the claim comes back without its edges.
EdgesStay(C, ed) == ed

\* The edges come back whether or not the claim does.
EdgesAfter(C, ed) ==
    [u \in Unit |-> IF u \in Olders(C) /\ ed[u] = "superseded" THEN "active" ELSE ed[u]]

UndoSupersessions(C, st) ==
    /\ status' = StatusAfter(C, st)
    /\ by'     = ByAfter(C, st)
    /\ closed' = ClosedAfter(C, st)

-----------------------------------------------------------------------------
(* Withdrawing units: retract_unit_dependents.                             *)

\* Certificates whose sources are all gone.
Unsupported(c, W) == c.sources # {} /\ c.sources \subseteq W

\* Wrong: a certificate rests on the newer claim only.
LapsedByNewer(U, W) == {c \in supersessions : c.newer \in U \/ Unsupported(c, W)}

Lapsed(U, W) == {c \in supersessions : \/ {c.older, c.newer} \cap U # {}
                                        \/ Unsupported(c, W)}

Rounds == 8

\* What has been withdrawn when the last round starts: the units R and the
\* conclusions of the certificates that rested on what went before.
Reached(R, W) ==
    LET reach[n \in 0..Rounds] ==
            IF n = 0 THEN R ELSE reach[n - 1] \cup Olders(Lapsed(reach[n - 1], W))
    IN  reach[Rounds - 1]

LapsedReadings(R, W) ==
    {p \in Pair : /\ reading[p] # None
                  /\ p \cap Reached(R, W) # {} \/ Unsupported(reading[p], W)}

PropagateWithdrawal(R, W) ==
    /\ supersessions' = supersessions \ Lapsed(Reached(R, W), W)
    /\ reading' = [p \in Pair |-> IF p \in LapsedReadings(R, W) THEN None ELSE reading[p]]
    /\ linked'  = linked \ LapsedReadings(R, W)

\* Wrong: contradictions go with their certificate only.
WithdrawCertified(R, W) ==
    contradiction' =
        [p \in Pair |-> IF contradiction[p] = "open" /\ p \in linked \cap LapsedReadings(R, W)
                        THEN "withdrawn" ELSE contradiction[p]]

WithdrawContradictions(R, W) ==
    contradiction' =
        [p \in Pair |-> IF /\ contradiction[p] = "open"
                           /\ p \cap R # {} \/ p \in linked \cap LapsedReadings(R, W)
                        THEN "withdrawn" ELSE contradiction[p]]

CausedBy(R) == {c \in supersessions : c.newer \in R}

Deactivated(R) ==
    [u \in Unit |-> IF u \in R /\ edges[u] = "active" THEN "retracted" ELSE edges[u]]

\* All of it but the cursors and edges, of which Edit changes more.
RetractUnitDependents(R, W, st) ==
    /\ UndoSupersessions(CausedBy(R), st)
    /\ PropagateWithdrawal(R, W)
    /\ WithdrawContradictions(R, W)

-----------------------------------------------------------------------------
(* Extraction.                                                             *)

\* A new claim t about x, read from source a.
Persist(u, t, x, a) ==
    /\ lock = None
    /\ status[u] = None
    /\ a \notin gone
    /\ LiveSubject(x)
    /\ status'  = [status EXCEPT ![u] = "active"]
    /\ time'    = [time EXCEPT ![u] = t]
    /\ subject' = [subject EXCEPT ![u] = x]
    /\ edges'   = [edges EXCEPT ![u] = "active"]
    /\ sources' = [sources EXCEPT ![u] = {a}]
    /\ UNCHANGED <<by, closed, scanned, manual, rejected, gone, certs, verdict,
                   journal, scanner, deeds>>
    /\ Revise({})

\* A known claim is read again from another source, with the time it has, so
\* that no other claim comes between (intervening_state).
Reassert(u, a) ==
    /\ Deed("reassert")
    /\ status[u] = "active" \/ rejected[u]
    /\ a \notin gone \cup sources[u]
    /\ sources' = [sources EXCEPT ![u] = @ \cup {a}]
    /\ UNCHANGED <<units, scanned, edges, manual, rejected, gone, certs,
                   verdict, journal, scanner, fresh, history>>

-----------------------------------------------------------------------------
(* People and claims.                                                      *)

Reject(u) ==
    LET st == [status EXCEPT ![u] = "retracted"]
        C  == CausedBy({u})
    IN  /\ Deed("reject")
        /\ status[u] # None
        /\ RetractUnitDependents({u}, gone, st)
        /\ scanned'  = ScannedAfter(C, st)
        /\ edges'    = EdgesAfter(C, Deactivated({u}))
        /\ rejected' = [rejected EXCEPT ![u] = TRUE]
        /\ UNCHANGED <<time, subject, sources, manual, gone, verdict, journal,
                       scanner>>
        /\ Revise({})

Restore(u) ==
    /\ Deed("restore")
    /\ status[u] = "retracted"
    /\ ~ sources[u] \subseteq gone
    /\ status'   = [status EXCEPT ![u] = "active"]
    /\ scanned'  = [scanned EXCEPT ![u] = FALSE]
    /\ edges'    = [edges EXCEPT ![u] = IF @ = "retracted" THEN "active" ELSE @]
    /\ rejected' = [rejected EXCEPT ![u] = FALSE]
    /\ UNCHANGED <<time, subject, by, closed, sources, manual, gone, certs,
                   verdict, journal, scanner>>
    /\ Revise({})

\* The old edges are deleted; only a current claim gets new ones.
EditUnit(u, t, x) ==
    LET C == CausedBy({u})
    IN  /\ status[u] # None
        /\ LiveSubject(x)
        /\ RetractUnitDependents({u}, gone, status)
        /\ time'    = [time EXCEPT ![u] = t]
        /\ subject' = [subject EXCEPT ![u] = x]
        /\ scanned' = [ScannedAfter(C, status) EXCEPT ![u] = FALSE]
        /\ edges'   = [EdgesAfter(C, Deactivated({u})) EXCEPT
                          ![u] = IF status[u] = "active" THEN "active" ELSE None]
        /\ manual'  = [manual EXCEPT ![u] = TRUE]
        /\ UNCHANGED <<sources, rejected, gone, verdict, journal, scanner>>

\* Another wording, and so another revision.
Edit(u, t, x) ==
    /\ Deed("edit")
    /\ EditUnit(u, t, x)
    /\ Revise({u})

\* A correction saved once more as it is: nothing the trigger compares changes.
Resave(u) ==
    /\ Deed("resave")
    /\ manual[u]
    /\ EditUnit(u, time[u], subject[u])
    /\ Revise({})

Orphans(a) == {u \in Unit : /\ status[u] \notin {None, "retracted"}
                            /\ a \in sources[u]
                            /\ sources[u] \subseteq gone \cup {a}}

\* When no unit is left without a source, only certificates are withdrawn.
RetractArtifact(a) ==
    LET R  == Orphans(a)
        W  == gone \cup {a}
        C  == CausedBy(R)
        st == [u \in Unit |-> IF u \in R THEN "retracted" ELSE status[u]]
    IN  /\ Deed("retract")
        /\ a \notin gone
        /\ gone' = W
        /\ \/ /\ R # {}
              /\ RetractUnitDependents(R, W, st)
              /\ scanned' = ScannedAfter(C, st)
              /\ edges'   = EdgesAfter(C, Deactivated(R))
           \/ /\ R = {}
              /\ PropagateWithdrawal({}, W)
              /\ UNCHANGED <<status, by, closed, scanned, edges,
                             contradiction>>
        /\ UNCHANGED <<time, subject, sources, manual, rejected, verdict,
                       journal, scanner>>
        /\ Revise({})

-----------------------------------------------------------------------------
(* People and pairs.                                                       *)

\* resolved_a or resolved_b: claim l loses, whatever its status.
Resolve(p, l) ==
    \E w \in p \ {l} :
        /\ Deed("resolve")
        /\ contradiction[p] = "open"
        /\ contradiction' = [contradiction EXCEPT ![p] = "decided"]
        /\ status' = [status EXCEPT ![l] = "superseded"]
        /\ by'     = [by EXCEPT ![l] = w]
        /\ closed' = [closed EXCEPT ![l] = TRUE]
        /\ edges'  = [edges EXCEPT ![l] = IF @ = None THEN None ELSE "superseded"]
        /\ UNCHANGED <<time, subject, scanned, sources, manual, rejected, gone,
                       supersessions, reading, linked, verdict, journal,
                       scanner>>
        /\ Revise({})

\* both_valid or dismissed.
Settle(p) ==
    /\ Deed("settle")
    /\ contradiction[p] = "open"
    /\ contradiction' = [contradiction EXCEPT ![p] = "settled"]
    /\ UNCHANGED <<units, scanned, edges, sources, manual, rejected, gone,
                   supersessions, reading, linked, verdict, journal, scanner,
                   fresh, history>>

Explained(p) == reading[p] # None /\ reading[p].outcome = "blocked"

\* Wrong: a change of state that was read into the pair stands.
NothingBetween(p) == {}

Between(p) == {c \in supersessions : {c.older, c.newer} = p}

\* "It's a real conflict."
Confirm(p) ==
    LET C == Between(p)
    IN  /\ Deed("confirm")
        /\ Explained(p)
        /\ verdict' = [verdict EXCEPT ![p] = "confirmed"]
        /\ UndoSupersessions(C, status)
        /\ scanned' = ScannedAfter(C, status)
        /\ edges'   = EdgesAfter(C, edges)
        /\ supersessions' = supersessions \ C
        /\ reading'       = [reading EXCEPT ![p] = None]
        /\ contradiction' = [contradiction EXCEPT ![p] = "open"]
        /\ linked'        = linked \ {p}
        /\ UNCHANGED <<time, subject, sources, manual, rejected, gone, journal,
                       scanner>>
        /\ Revise({})

\* "Explanation is right."
Agree(p) ==
    /\ Deed("agree")
    /\ Explained(p)
    /\ verdict' = [verdict EXCEPT ![p] = "notConflict"]
    /\ contradiction' = [contradiction EXCEPT ![p] = IF @ = "open" THEN "agreed" ELSE @]
    /\ UNCHANGED <<units, scanned, edges, sources, manual, rejected, gone,
                   supersessions, reading, linked, journal, scanner, fresh,
                   history>>

-----------------------------------------------------------------------------
(* Merging and splitting the subjects.                                     *)

About(x) == {u \in Unit : subject[u] = x}

\* Wrong: units that change sides keep their cursor.
KeepsEveryCursor(u) == scanned[u]

\* Both sides are scanned again.
KeepsCursor(u) == /\ scanned[u]
                  /\ u \notin About(Loser)
                  /\ u \in About(Winner) => status[u] # "active"

Merge ==
    /\ Deed("merge")
    /\ journal = None
    /\ journal' = [units |-> About(Loser),
                   rowsBefore |-> {p \in Pair : contradiction[p] # None}]
    /\ subject' = [u \in Unit |-> IF u \in About(Loser) THEN Winner ELSE subject[u]]
    /\ scanned' = [u \in Unit |-> KeepsCursor(u)]
    /\ UNCHANGED <<status, time, by, closed, edges, sources, manual, rejected,
                   gone, certs, verdict, scanner>>
    /\ Revise({})

\* Open contradictions that only the merge made visible are deleted.
Crossing ==
    {p \in Pair \ journal.rowsBefore :
        /\ contradiction[p] = "open"
        /\ p \cap journal.units # {}
        /\ p \cap (About(Winner) \ journal.units) # {}}

Split ==
    LET moved == journal.units \cap About(Winner)
    IN  /\ Deed("split")
        /\ journal # None
        /\ subject' = [u \in Unit |-> IF u \in moved THEN Loser ELSE subject[u]]
        /\ scanned' = [u \in Unit |-> scanned[u] /\ u \notin moved]
        /\ contradiction' = [p \in Pair |-> IF p \in Crossing THEN None
                                            ELSE contradiction[p]]
        /\ reading' = [p \in Pair |-> IF p \in Crossing \cap linked THEN None
                                      ELSE reading[p]]
        /\ linked'  = linked \ Crossing
        /\ journal' = None
        /\ UNCHANGED <<status, time, by, closed, edges, sources, manual,
                       rejected, gone, supersessions, verdict, scanner>>
        /\ Revise({})

-----------------------------------------------------------------------------
(* The scanner: run_one_scan.                                              *)

Load(s, u) ==
    /\ lock = None
    /\ scan[s] = Idle
    /\ status[u] = "active"
    /\ ~ scanned[u]
    /\ scan'  = [scan EXCEPT ![s] = [at |-> "loaded", unit |-> u,
                                     wasClosed |-> closed[u], todo |-> {}]]
    /\ fresh' = [fresh EXCEPT ![s] = {u}]
    /\ UNCHANGED <<units, scanned, edges, sources, manual, rejected, gone,
                   certs, verdict, journal, lock, deeds, history>>

Candidates(u) == {v \in About(subject[u]) \ {u} : status[v] = "active"}

LoadCandidates(s) ==
    /\ lock = None
    /\ scan[s].at = "loaded"
    /\ scan'  = [scan EXCEPT ![s].at = "scored",
                             ![s].todo = Candidates(scan[s].unit)]
    /\ fresh' = [fresh EXCEPT ![s] = @ \cup Candidates(scan[s].unit)]
    /\ UNCHANGED <<units, scanned, edges, sources, manual, rejected, gone,
                   certs, verdict, journal, lock, deeds, history>>

\* The unit is still as it was loaded, and no other scanner has done it.
Claimable(s) == scan[s].unit \in fresh[s] /\ ~ scanned[scan[s].unit]

Claim(s) ==
    /\ lock = None
    /\ scan[s].at = "scored"
    /\ Claimable(s)
    /\ lock' = s
    /\ scan' = [scan EXCEPT ![s].at = "recording"]
    /\ UNCHANGED <<units, scanned, edges, sources, manual, rejected, gone,
                   certs, verdict, journal, fresh, deeds, history>>

GoIdle(s) ==
    /\ scan'  = [scan EXCEPT ![s] = Idle]
    /\ fresh' = [fresh EXCEPT ![s] = {}]
    /\ lock'  = None
    /\ UNCHANGED <<units, edges, sources, manual, rejected, gone, certs,
                   verdict, journal, history>>

\* Wrong: the scanner waits for the unit it cannot claim.
WaitForClaim(s) ==
    /\ lock = None
    /\ scan[s].at = "scored"
    /\ ~ Claimable(s)
    /\ UNCHANGED vars

ClaimLost(s) ==
    /\ lock = None
    /\ scan[s].at = "scored"
    /\ ~ Claimable(s)
    /\ GoIdle(s)
    /\ UNCHANGED <<scanned, deeds>>

\* An error or a crash; a transaction rolls back to where it was claimed.
Fail(s) ==
    /\ Deed("fail")
    /\ scan[s].at \in {"loaded", "scored"}
    /\ GoIdle(s)
    /\ UNCHANGED scanned

\* What evaluate may say of claims u and v, u having been loaded as closed or
\* not: report them, or explain them away, and which claim is superseded.
\* How the end of a closed claim lies to the other claim is left open.
Evaluate(u, v, wasClosed) ==
    LET says(o, x) == [outcome |-> o, older |-> x]
        earlier    == IF time[u] < time[v] THEN u ELSE v
    IN  IF ~ wasClosed /\ ~ closed[v]
        THEN {IF time[u] = time[v] THEN says("reported", None)
                                   ELSE says("blocked", earlier)}
        ELSE {says("reported", None), says("blocked", None)}
             \cup (IF closed[v]  THEN {} ELSE {says("blocked", u)})
             \cup (IF wasClosed THEN {} ELSE {says("blocked", v)})

\* A person has called the pair compatible.
UserRejected(p) == contradiction[p] = "settled"

\* Wrong: what replaced the claim is not recorded.
SupersedeByNobody(old, new, cert) ==
    /\ status' = [status EXCEPT ![old] = "superseded"]
    /\ closed' = [closed EXCEPT ![old] = TRUE]
    /\ edges'  = [edges EXCEPT ![old] = IF @ = "active" THEN "superseded" ELSE @]
    /\ supersessions' = supersessions \cup {cert}
    /\ UNCHANGED by

\* The older claim, if it is current, is superseded.
Supersede(old, new, cert) ==
    /\ status' = [status EXCEPT ![old] = "superseded"]
    /\ by'     = [by EXCEPT ![old] = new]
    /\ closed' = [closed EXCEPT ![old] = TRUE]
    /\ edges'  = [edges EXCEPT ![old] = IF @ = "active" THEN "superseded" ELSE @]
    /\ supersessions' = {c \in supersessions : c.older # old \/ c.newer # new} \cup {cert}

\* The pair is explained away.
Block(p, srcs) ==
    /\ reading' = [reading EXCEPT ![p] = [outcome |-> "blocked", sources |-> srcs]]
    /\ linked'  = linked \ {p}
    /\ UNCHANGED contradiction

\* Wrong: what was withdrawn stays so.
ShownOnce(p) == contradiction[p] \in {None, "open"}

\* Wrong: what a person decided is opened again.
ShownAgain(p) == contradiction[p] \notin {"settled", "agreed"}

\* Rows a report opens or updates: those no person has dealt with.
Shown(p) == contradiction[p] \in {None, "open", "withdrawn"}

Report(p, srcs) ==
    /\ reading' = [reading EXCEPT ![p] = [outcome |-> "reported", sources |-> srcs]]
    /\ linked'  = IF Shown(p) THEN linked \cup {p} ELSE linked \ {p}
    /\ contradiction' = [contradiction EXCEPT ![p] = IF Shown(p) THEN "open" ELSE @]

\* A confirmed conflict only comes back if it was withdrawn.
Reopen(p) ==
    /\ contradiction' = [contradiction EXCEPT ![p] = IF @ = "withdrawn" THEN "open" ELSE @]
    /\ UNCHANGED <<reading, linked>>

KeepUnits == UNCHANGED <<status, by, closed, edges, supersessions>>

RecordConflict(u, v, wasClosed) ==
    LET p    == {u, v}
        srcs == (sources[u] \cup sources[v]) \ gone
    IN  \/ /\ verdict[p] = "confirmed"
           /\ Reopen(p)
           /\ KeepUnits
        \/ /\ verdict[p] # "confirmed"
           /\ \E e \in Evaluate(u, v, wasClosed) :
                 /\ IF e.outcome = "blocked" \/ UserRejected(p) \/ verdict[p] = "notConflict"
                    THEN Block(p, srcs) ELSE Report(p, srcs)
                 /\ IF e.older # None /\ ~ UserRejected(p) /\ status[e.older] = "active"
                    THEN LET new == CHOOSE w \in p : w # e.older
                         IN  Supersede(e.older, new,
                                       [older |-> e.older, newer |-> new,
                                        closedBefore |-> closed[e.older], sources |-> srcs])
                    ELSE KeepUnits

\* The next candidate: recorded if it is still as it was loaded.
Record(s, v) ==
    LET u == scan[s].unit
        p == {u, v}
    IN  /\ lock = s
        /\ v \in scan[s].todo \cap fresh[s]
        /\ RecordConflict(u, v, scan[s].wasClosed)
        /\ scan'   = [scan EXCEPT ![s].todo = @ \ {v}]
        /\ UNCHANGED <<time, subject, scanned, sources, manual, rejected, gone,
                       verdict, journal, lock, deeds>>
        /\ fresh'  = [x \in Scanner |-> fresh[x] \ Revised({})]
        /\ judged' = {q \in judged \cup {p} : q \cap Revised({}) = {}}
        /\ found'  = {q \in IF \/ verdict[p] = "confirmed"
                               \/ reading'[p] # None /\ reading'[p].outcome = "reported"
                            THEN found \cup {p} ELSE found \ {p} : q \cap Revised({}) = {}}

Skip(s, v) ==
    /\ lock = s
    /\ v \in scan[s].todo \ fresh[s]
    /\ scan' = [scan EXCEPT ![s].todo = @ \ {v}]
    /\ UNCHANGED <<units, scanned, edges, sources, manual, rejected, gone,
                   certs, verdict, journal, fresh, lock, deeds, history>>

Finish(s) ==
    /\ lock = s
    /\ scan[s].todo = {}
    /\ scanned' = [scanned EXCEPT ![scan[s].unit] = TRUE]
    /\ GoIdle(s)
    /\ UNCHANGED deeds

-----------------------------------------------------------------------------

ScannerStep(s) ==
    \/ LoadCandidates(s) \/ Claim(s) \/ ClaimLost(s) \/ Finish(s)
    \/ \E u \in Unit : Load(s, u) \/ Record(s, u) \/ Skip(s, u)

PairStep(p) == (\E l \in p : Resolve(p, l)) \/ Settle(p) \/ Confirm(p) \/ Agree(p)

UnitStep(u) ==
    \/ Reject(u) \/ Restore(u) \/ Resave(u)
    \/ \E t \in Time, x \in Subject :
          Edit(u, t, x) \/ \E a \in Artifact : Persist(u, t, x, a)
    \/ \E a \in Artifact : Reassert(u, a)

Next ==
    \/ \E s \in Scanner : ScannerStep(s) \/ Fail(s)
    \/ \E u \in Unit : UnitStep(u)
    \/ \E p \in Pair : PairStep(p)
    \/ \E a \in Artifact : RetractArtifact(a)
    \/ Merge \/ Split

Spec == Init /\ [][Next]_vars

\* The scanner's loop starts a new pass after every interval, whatever the
\* last one came to.
FairSpec == Spec /\ \A s \in Scanner : WF_vars(ScannerStep(s))

-----------------------------------------------------------------------------
(* Properties.                                                             *)

\* Every variable holds rows of its table, and a superseded unit names the
\* unit that superseded it.
TypeOK ==
    /\ status        \in [Unit -> {None, "active", "superseded", "retracted"}]
    /\ time          \in [Unit -> Time \cup {None}]
    /\ subject       \in [Unit -> Subject \cup {None}]
    /\ by            \in [Unit -> Unit \cup {None}]
    /\ closed        \in [Unit -> BOOLEAN]
    /\ scanned       \in [Unit -> BOOLEAN]
    /\ edges         \in [Unit -> {None, "active", "superseded", "retracted"}]
    /\ sources       \in [Unit -> SUBSET Artifact]
    /\ manual        \in [Unit -> BOOLEAN]
    /\ rejected      \in [Unit -> BOOLEAN]
    /\ gone          \subseteq Artifact
    /\ supersessions \subseteq Supersession
    /\ reading       \in [Pair -> Reading \cup {None}]
    /\ contradiction \in [Pair -> Rows]
    /\ linked        \subseteq Pair
    /\ verdict       \in [Pair -> {None, "confirmed", "notConflict"}]
    /\ journal       \in Journal \cup {None}
    /\ scan          \in [Scanner -> [at : {"idle", "loaded", "scored", "recording"},
                                      unit : Unit \cup {None}, wasClosed : BOOLEAN,
                                      todo : SUBSET Unit]]
    /\ fresh         \in [Scanner -> SUBSET Unit]
    /\ lock          \in Scanner \cup {None}
    /\ deeds         \in 0..MaxDeeds
    /\ judged        \subseteq Pair
    /\ found         \subseteq Pair
    /\ \A u \in Unit : status[u] = "superseded" => by[u] # None

\* Units the scanner has been through.
Done(u) == status[u] = "active" /\ scanned[u]

Together(p) == \A u, v \in p : subject[u] = subject[v]

\* Two current claims about one subject, both scanned, have been judged
\* against each other as they are now, whatever was edited, rejected, restored
\* or merged while scanners were at work.  This is what the guard on revisions
\* in run_one_scan and the cleared cursors of every handler are for.
NoPairMissed ==
    \A p \in Pair : (Together(p) /\ \A u \in p : Done(u)) => p \in judged

\* A conflict the scanner found between two current claims is on show or was
\* dealt with by a person: what the safety layer withdraws comes back.
ConflictsAreShown ==
    \A p \in found : (Together(p) /\ \A u \in p : Done(u)) =>
        contradiction[p] \notin {None, "withdrawn"}

\* A live supersession is in force: the older claim is superseded, the newer
\* one not rejected, and no other certificate claims the same older one.
SupersessionsInForce ==
    \A c \in supersessions :
        /\ status[c.older] = "superseded"
        /\ status[c.newer] # "retracted"
        /\ \A d \in supersessions : d.older = c.older => d = c

\* Nobody is asked about a contradiction with a rejected claim.
OpenOnesAreAboutClaims ==
    \A p \in Pair : contradiction[p] = "open" => \A u \in p : status[u] # "retracted"

\* A pair a person confirmed as a conflict is never explained away again, and
\* neither claim is superseded by the other.
ConfirmedStands ==
    \A p \in Pair : verdict[p] = "confirmed" =>
        ~ Explained(p) /\ \A c \in supersessions : {c.older, c.newer} # p

\* What a person has resolved only opens again when a person confirms it.
ResolvedStands ==
    [][\A p \in Pair : contradiction[p] \in {"settled", "decided", "agreed"} =>
          \/ contradiction'[p] = contradiction[p]
          \/ contradiction'[p] = "open" /\ verdict'[p] = "confirmed"]_vars

\* What a person said of a pair stands, whatever scanners find later.
JudgementsStand == []ConfirmedStands /\ ResolvedStands

\* The graph shows the edges of current claims and no others: rejecting,
\* superseding and undoing a supersession take the edges along.
EdgesFollowUnits ==
    \A u \in Unit : (edges[u] = "active") = (status[u] = "active")

\* A claim that is current again bears no trace of having been superseded.
CurrentClaimsAreOpen ==
    \A u \in Unit : status[u] = "active" => by[u] = None /\ ~ closed[u]

\* The graph follows the claims: edges and validity of a claim change with its
\* status (undo_supersession, retract_unit_dependents, record_conflict).
GraphFollowsClaims == EdgesFollowUnits /\ CurrentClaimsAreOpen

\* Every current claim is scanned in the end, or stops being current.
EventuallyScanned ==
    \A u \in Unit : status[u] = "active" /\ ~ scanned[u]
                        ~> status[u] # "active" \/ scanned[u]
=============================================================================
