--------------------------- MODULE MCDesktopRuntime ---------------------------
(* Sessions of the app with two threads, and up to six daemons. *)
EXTENDS DesktopRuntime

MCDaemons == 1..6
NoStackDeeds == [deed \in StackDeed |-> 0]
MCStackBudgets ==
    {[NoStackDeeds EXCEPT !["crash"] = 1, !["quit"] = 1, !["save"] = 1],
     [NoStackDeeds EXCEPT !["save"] = 1, !["model"] = 1, !["quit"] = 1, !["crash"] = 1],
     [NoStackDeeds EXCEPT !["crash"] = 1, !["quit"] = 1, !["update"] = 1, !["fail"] = 1, !["hang"] = 1],
     [NoStackDeeds EXCEPT !["crash"] = 2, !["quit"] = 1, !["theirs"] = 1],
     [NoStackDeeds EXCEPT !["crash"] = 1, !["save"] = 1, !["quit"] = 1, !["die"] = 1],
     [NoStackDeeds EXCEPT !["save"] = 1, !["quit"] = 1, !["die"] = 1, !["theirs"] = 1]}
=============================================================================
