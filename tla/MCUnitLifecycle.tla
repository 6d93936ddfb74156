--------------------------- MODULE MCUnitLifecycle --------------------------
(* Units, sources and scanners are interchangeable: no id is compared with   *)
(* another, and pairs are sets.                                              *)
EXTENDS UnitLifecycle, TLC

Symmetric == Permutations(Unit) \cup Permutations(Artifact) \cup Permutations(Scanner)
=============================================================================
