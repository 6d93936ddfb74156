---------------------------- MODULE MCClaimIndex ----------------------------
(* Two claims, three statements of which two are alike, two models.          *)
EXTENDS ClaimIndex

CONSTANTS u1, u2

Deeds(edits, rejects, fails, starts) ==
    [deed \in Deed |-> CASE deed = "edit" -> edits [] deed = "fail" -> fails
                         [] deed = "start" -> starts [] OTHER -> rejects]
MCIndexBudgets == {Deeds(2, 0, 0, 1), Deeds(1, 1, 0, 1), Deeds(1, 0, 1, 1), Deeds(0, 0, 1, 2),
                   Deeds(1, 0, 0, 2)}
MCAtFirst == {[c \in Claim |-> IF c = u1 THEN "s" ELSE "t"]}
MCSimilar == {{"s", "t"}}
=============================================================================
