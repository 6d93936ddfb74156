---------------------------- MODULE MCEntityMerge ----------------------------
(* Three entities, one unit with two edges of one relation type: the least   *)
(* that lets edges become self-loops and duplicates of each other.           *)
EXTENDS EntityMerge, TLC

CONSTANTS e1, e2, u1, n1, p1, p2

MCUnitOf  == [i \in Edge |-> u1]
MCLabelOf == [i \in Edge |-> "uses"]
=============================================================================
