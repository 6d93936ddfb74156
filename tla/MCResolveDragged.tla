--------------------------- MODULE MCResolveDragged ---------------------------
(* Four entities and two passes, with the inputs narrowed to one story: the   *)
(* pair 1, 3 is dismissed; the first pass may merge 3 and 4; a person may     *)
(* merge 2 into 4; and the second pass may plan the group 1, 2, 4.  The order *)
(* of the steps is left open.                                                 *)
EXTENDS MCResolvePass

Inputs ==
    /\ cannotLink \subseteq {{1, 3}}
    /\ plan \subseteq {IF passes = 1 THEN {3, 4} ELSE {1, 2, 4}}
    /\ request[p1] # None => request[p1].winner = 4 /\ request[p1].losers = {2}
    /\ \A m \in audit : m.actor = p1 => m.winner = 4 /\ m.loser = 2

DraggedNext == ResolveNext /\ Inputs'
DraggedSpec == ResolveInit /\ [][DraggedNext]_allVars
=============================================================================
