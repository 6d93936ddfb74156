---------------------------- MODULE ReadingLedger ---------------------------
(***************************************************************************)
(* What the reading of files comes to, without queues, jobs and workers: a *)
(* ledger of what each reader has found in each file.  An entry is made    *)
(* once and stays, several readers may make theirs in one step, and none   *)
(* is made for a file that was withdrawn.                                  *)
(***************************************************************************)
EXTENDS Naturals

CONSTANTS File, Reader

VARIABLES
    withdrawn,   \* files that were withdrawn
    backed       \* backed[f][r]: how often r backs what it found in f

ledgerVars == <<withdrawn, backed>>

LedgerInit ==
    /\ withdrawn = {}
    /\ backed = [f \in File |-> [r \in Reader |-> 0]]

TakeBack(f) ==
    /\ f \notin withdrawn
    /\ withdrawn' = withdrawn \cup {f}
    /\ UNCHANGED backed

\* One transaction stores what some readers have found in a file.
Testify(f, readers) ==
    /\ f \notin withdrawn
    /\ \A r \in readers : backed[f][r] = 0
    /\ backed' = [backed EXCEPT ![f] = [r \in Reader |-> IF r \in readers THEN 1 ELSE @[r]]]
    /\ UNCHANGED withdrawn

LedgerNext == \E f \in File : TakeBack(f) \/ \E readers \in SUBSET Reader : Testify(f, readers)

LedgerSpec == LedgerInit /\ [][LedgerNext]_ledgerVars
=============================================================================
