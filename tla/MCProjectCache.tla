--------------------------- MODULE MCProjectCache ---------------------------
(* A ledger that keeps a few revisions only.                               *)
EXTENDS ProjectCache

MCCacheBudgets == {[write |-> 1, load |-> 3, remove |-> 0, rollback |-> 0, failure |-> 0],
                   [write |-> 2, load |-> 2, remove |-> 0, rollback |-> 0, failure |-> 0],
                   [write |-> 1, load |-> 2, remove |-> 1, rollback |-> 1, failure |-> 1]}
=============================================================================
