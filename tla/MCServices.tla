----------------------------- MODULE MCServices -----------------------------
(* The services around claims and people, side by side.  They share no state *)
(* in these models, so a behaviour lets one of them act; the others rest at  *)
(* one of their initial states.                                              *)
EXTENDS MCReadingQueue, MCIntake, MCProjectTree, MCClaimIndex, MCPhotoPipeline,
        MCDesktopRuntime, MCLibraryBundle, MCReviewTray, MCProjectCache, MCProjectWords,
        MCProjectRanking, MCClaimConflict, MCSourceFamilies

CONSTANT Part   \* the services to run

VARIABLE part   \* the one that acts

Acting(name) == part = name

\* One initial state of a service that rests, where it has several.
TrayAtRest ==
    LET lib == CHOOSE l \in Library : TRUE
    IN  /\ asked = lib.asked /\ evidence = lib.evidence /\ tuned = lib.tuned
        /\ merged = lib.merged /\ different = lib.different
        /\ claims = [u \in Claims |-> IF u \in lib.unread THEN "unread" ELSE "active"]
        /\ trayDeeds = CHOOSE b \in TrayBudgets : TRUE

AtRest ==
    /\ IF Acting("reading") THEN TRUE ELSE scenario = CHOOSE s \in Scenario : TRUE
    /\ IF Acting("intake") THEN TRUE ELSE budget = CHOOSE b \in Budgets : TRUE
    /\ IF Acting("index") THEN TRUE ELSE /\ deeds = CHOOSE b \in IndexBudgets : TRUE
                                         /\ says = CHOOSE a \in AtFirst : TRUE
    /\ IF Acting("photo") THEN TRUE ELSE photoDeeds = CHOOSE b \in PhotoBudgets : TRUE
    /\ IF Acting("stack") THEN TRUE ELSE /\ theirs = TRUE
                                         /\ stackDeeds = CHOOSE b \in StackBudgets : TRUE
    /\ IF Acting("bundle") THEN TRUE ELSE /\ bundleDeeds = CHOOSE b \in BundleBudgets : TRUE
                                          /\ modelInUse = CHOOSE m \in BundleModel : TRUE
    /\ IF Acting("tray") THEN TRUE ELSE TrayAtRest
    /\ IF Acting("cache") THEN TRUE ELSE cacheDeeds = CHOOSE b \in CacheBudgets : TRUE
    /\ IF Acting("ranking") THEN TRUE ELSE shelf = BareShelf
    /\ IF Acting("conflict") THEN TRUE ELSE arrivals = (CHOOSE a \in Arrivals : TRUE) /\ idsRise = TRUE
    /\ IF Acting("families") THEN TRUE ELSE fileDeeds = CHOOSE b \in FileBudgets : TRUE

ServicesInit ==
    /\ part \in Part
    /\ AtRest
    /\ ReadingInit /\ IntakeInit /\ ProjectInit /\ IndexInit /\ PhotoInit /\ StackInit /\ BundleInit
    /\ TrayInit /\ CacheInit /\ WordsInit /\ RankingInit /\ ConflictInit /\ FamilyInit

\* The others stay as they are.
OthersRest ==
    /\ UNCHANGED part
    /\ IF Acting("reading") THEN TRUE ELSE UNCHANGED readingVars
    /\ IF Acting("intake") THEN TRUE ELSE UNCHANGED intakeVars
    /\ IF Acting("project") THEN TRUE ELSE UNCHANGED treeVars
    /\ IF Acting("index") THEN TRUE ELSE UNCHANGED indexVars
    /\ IF Acting("photo") THEN TRUE ELSE UNCHANGED photoVars
    /\ IF Acting("stack") THEN TRUE ELSE UNCHANGED stackVars
    /\ IF Acting("bundle") THEN TRUE ELSE UNCHANGED bundleVars
    /\ IF Acting("tray") THEN TRUE ELSE UNCHANGED trayVars
    /\ IF Acting("cache") THEN TRUE ELSE UNCHANGED cacheVars
    /\ IF Acting("words") THEN TRUE ELSE UNCHANGED wordsVars
    /\ IF Acting("ranking") THEN TRUE ELSE UNCHANGED rankingVars
    /\ IF Acting("conflict") THEN TRUE ELSE UNCHANGED conflictVars
    /\ IF Acting("families") THEN TRUE ELSE UNCHANGED familyVars

ServicesNext ==
    \/ Acting("reading") /\ ReadingNext /\ OthersRest
    \/ Acting("intake") /\ IntakeNext /\ OthersRest
    \/ Acting("project") /\ ProjectNext /\ OthersRest
    \/ Acting("index") /\ IndexNext /\ OthersRest
    \/ Acting("photo") /\ PhotoNext /\ OthersRest
    \/ Acting("stack") /\ StackNext /\ OthersRest
    \/ Acting("bundle") /\ BundleNext /\ OthersRest
    \/ Acting("tray") /\ TrayNext /\ OthersRest
    \/ Acting("cache") /\ CacheNext /\ OthersRest
    \/ Acting("words") /\ WordsNext /\ OthersRest
    \/ Acting("ranking") /\ DrawPair /\ OthersRest
    \/ Acting("conflict") /\ ConflictNext /\ OthersRest
    \/ Acting("families") /\ FamilyNext /\ OthersRest

\* The fairness of the parts, for the part that acts.
ServicesFairness ==
    /\ \A w \in Worker : /\ WF_readingVars(Acting("reading") /\ WorkerStep(w))
                         /\ WF_readingVars(Acting("reading") /\ Start(w))
    /\ WF_intakeVars(Acting("intake") /\ TaskStep)
    /\ WF_intakeVars(Acting("intake") /\ StartImporter)
    /\ \A c \in Client : WF_treeVars(Acting("project") /\ RequestStep(c))
    /\ \A d \in Indexer : /\ WF_indexVars(Acting("index") /\ Embed(d))
                          /\ WF_indexVars(Acting("index") /\ Group(d))
                          /\ WF_indexVars(Acting("index") /\ StartIndexing(d))
    /\ WF_indexVars(Acting("index") /\ TimePasses)
    /\ WF_photoVars(Acting("photo") /\ PhotoPass)
    /\ \A t \in Thread : WF_stackVars(Acting("stack") /\ (Act(t) \/ Orphan(t)))
    /\ \A d \in Daemon : WF_stackVars(Acting("stack") /\ Boot(d))
    /\ WF_trayVars(Acting("tray") /\ TuningPass)
    /\ WF_trayVars(Acting("tray") /\ ReadingPass)

servicesVars == <<part, readingVars, intakeVars, treeVars, indexVars, photoVars, stackVars,
                  bundleVars, trayVars, cacheVars, wordsVars, rankingVars, conflictVars, familyVars>>

ServicesSpec == ServicesInit /\ [][ServicesNext]_servicesVars /\ ServicesFairness

-----------------------------------------------------------------------------
(* Properties of services that belong together.                             *)

\* What comes in is dealt with: files leave the inbox, sessions are read to
\* their end, and requests are answered (autoimport.rs, projects/mod.rs).
ArrivalsAreDealtWith == EveryFileIsFiled /\ WhatIsSaidIsStored /\ RequestsEnd

\* Projects are compared word by word and sample by sample, and the closest are
\* shown (projects/similarity.rs).
ComparisonIsSound ==
    /\ WordsTypeOK /\ NumbersKeepTheirWords /\ VocabularyIsInUse
    /\ SamplesLineUp /\ RarityIsPositive /\ CountsArePossible /\ ClosestAreDrawn

\* What runs in the background gets somewhere: photos are grouped and have
\* captions, the tray is brought in order and its bars come to rest, and the
\* app says whether it started, and takes its processes along when it quits.
ServicesFinish ==
    /\ EveryPhotoIsGrouped /\ EveryPhotoIsCaptioned
    /\ StartEnds /\ QuitStopsBoth
    /\ BarsSettle /\ TrayIsKept
=============================================================================
