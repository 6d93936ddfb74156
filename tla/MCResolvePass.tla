---------------------------- MODULE MCResolvePass ----------------------------
(* Three entities without units or edges: the pass moves heads only.         *)
EXTENDS ResolvePass, TLC

CONSTANTS p1

MCUnitOf == [i \in Edge |-> i]
MCSurvivorKey == [x \in Entity |-> x]
=============================================================================
