--------------------------- MODULE MCLibraryBundle ---------------------------
(* Two contents, three files and claims, two models and two topics. *)
EXTENDS LibraryBundle

NoBundleDeeds == [deed \in BundleDeed |-> 0]
MCBundleBudgets ==
    {[NoBundleDeeds EXCEPT !["file"] = 2, !["embed"] = 2, !["topic"] = 1, !["export"] = 1, !["move"] = 1,
                           !["switch"] = 1, !["import"] = 1],
     [NoBundleDeeds EXCEPT !["file"] = 2, !["embed"] = 1, !["topic"] = 1, !["export"] = 1, !["move"] = 1,
                           !["import"] = 1, !["cut"] = 1],
     [NoBundleDeeds EXCEPT !["file"] = 2, !["embed"] = 1, !["edit"] = 1, !["export"] = 1, !["move"] = 1,
                           !["import"] = 1],
     [NoBundleDeeds EXCEPT !["file"] = 1, !["embed"] = 2, !["topic"] = 2, !["edit"] = 1, !["export"] = 1,
                           !["import"] = 2]}
=============================================================================
