-------------------------- MODULE MCSourceFamilies --------------------------
(* Three files that say the same, one of them in two chunks, and one that   *)
(* says nothing of it but links the others: an older version of the third.  *)
EXTENDS SourceFamilies

MCChunks == {<<1, 1>>, <<2, 2>>, <<3, 1>>, <<3, 3>>}
MCVersions == {<<3, 4>>}
MCFileBudgets == {[declare |-> 2, remove |-> 0], [declare |-> 1, remove |-> 1], [declare |-> 0, remove |-> 2]}
=============================================================================
