--------------------------- MODULE MCProjectWords ---------------------------
(* Three words among three signatures.                                      *)
EXTENDS ProjectWords
=============================================================================
