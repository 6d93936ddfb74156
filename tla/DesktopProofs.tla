--------------------------- MODULE DesktopProofs ----------------------------
(***************************************************************************)
(* Theorems about the desktop shell and about the library it moves to a    *)
(* new computer.                                                           *)
(*                                                                         *)
(* DesktopRuntime, for any threads, daemons and deeds: what the app shows  *)
(* is so (StackSound), and quitting it leaves nothing behind               *)
(* (QuitLeavesNothing). As long as nothing was disturbed one thread works  *)
(* at a time, beside the pg_ctl and initdb that crashed sessions left;     *)
(* only the daemon on record runs, and what runs is in the slots that a    *)
(* stop empties, or a thread is on its way to put it there; only the       *)
(* user's daemon and one that ended by itself were not seen since the app  *)
(* last looked.                                                            *)
(*                                                                         *)
(* LibraryBundle, for any contents, ids, models and deeds: the library is  *)
(* in order after every import (BundleInOrder), but for members that an    *)
(* edit crossed, and what an import puts in is what was taken out          *)
(* (BundleIsKept). The export has sent the tables of one snapshot, a       *)
(* library that was in order, or parts of them; so a bundle has no two     *)
(* rows for one id and no two files for one content. What an import has    *)
(* inserted stays new to the library people go on changing, and a table it *)
(* is done with has a row for every row of the bundle. A library moved to  *)
(* a new installation keeps no rows, but the ids in the bundle are still   *)
(* given out.                                                              *)
(***************************************************************************)
EXTENDS DesktopRuntime, LibraryBundle, TLAPS

\* A thread is at one of these steps.
At(steps) == \E w \in Thread : worker[w] \in steps

\* Not a thread of the app at work.
Idle == {"none", "orphan", "initdb"}

\* The threads end with the app, but for a pg_ctl and an initdb.
NobodyWhenOff == app = "off" => \A w \in Thread : worker[w] \in Idle

\* PostgreSQL is only started where check_major_version found it whole.
ClusterIsWhole ==
    /\ (postgres \/ pgSlot \/ At({"pg_ctl", "orphan", "daemon", "spawn", "wait"}))
           => cluster = "whole"
    /\ At({"database"}) => cluster # "none"

\* One daemon has the port.
OnePort == theirs => \A d \in Daemon : process[d] # "serves"

\* Nobody restarts the stack while a process of an earlier session runs.
OneAtATime ==
    /\ \A v, w \in Thread : worker[v] \notin Idle /\ worker[w] \notin Idle => v = w
    /\ At({"orphan", "initdb"}) => ~At({"halt", "pg_stop", "resume"})

StopsOnPurpose == (app = "up" /\ stopping) => At({"pg_stop", "resume"})

\* The daemon that runs is the one on record; it is in the slot, or about to
\* be taken back; it has the settings saved last, or is about to be stopped.
OneDaemon ==
    /\ \A d \in Alive :
        /\ d = pidFile
        /\ (process[d] = "serves" \/ (app = "up" /\ slot = d))
        /\ (process[d] = "boots" => (At({"wait"}) \/ lost))
        /\ (process[d] = "hangs" => troubled)
        /\ (app = "up" => (slot = d \/ At({"look", "adopt"})))
        /\ (settings[d] = saved \/ At({"halt"}))
    /\ (At({"init", "rename", "spoiled", "database", "pg_ctl", "daemon", "spawn", "pg_stop",
            "resume"}) => Alive = {})
    /\ (At({"look", "adopt"}) => \A d \in Alive : process[d] = "serves")
    /\ (At({"wait"}) => slot \in Daemon /\ (slot \in Alive \/ troubled))
    /\ (At({"look", "adopt", "pg_stop", "resume"}) => slot = NoDaemon)

\* A stop of the stack will find PostgreSQL, unless it stands aside.
DatabaseIsOurs ==
    /\ (app = "up" /\ (postgres \/ At({"orphan"})))
           => (pgSlot \/ shown = "unmanaged"
                \/ At({"look", "adopt", "init", "rename", "spoiled", "database"}))
    /\ (At({"init", "rename", "spoiled"}) => cluster = "none")
    /\ (At({"pg_ctl", "daemon", "spawn", "wait"}) => pgSlot)
    /\ (At({"daemon", "spawn", "wait"}) => postgres)

ShownIsSo ==
    /\ (app = "up" /\ shown = "ready")
           => ((slot \in Daemon /\ process[slot] = "serves") \/ lost \/ At({"pg_stop", "resume"}))
    /\ (app = "up" /\ shown = "failed" => (troubled \/ cluster = "half"))
    /\ (app = "up" /\ shown = "unmanaged")
           => (slot = NoDaemon /\ Alive = {} /\ \A w \in Thread : worker[w] \in Idle)
    /\ (At({"look", "adopt", "init", "rename", "spoiled", "database", "pg_ctl", "daemon", "spawn",
            "wait"}) => shown = "starting")
    /\ (theirs /\ At({"init", "rename", "spoiled", "database", "pg_ctl", "daemon", "spawn", "wait"})
            => lost)

UndisturbedInv == OneAtATime /\ StopsOnPurpose /\ OneDaemon /\ DatabaseIsOurs /\ ShownIsSo

StackInv == /\ StackTypeOK /\ NobodyWhenOff /\ ClusterIsWhole /\ OnePort
            /\ (undisturbed => UndisturbedInv)

-----------------------------------------------------------------------------
\* Daemons are counted from 1.
LEMMA ZeroIsNoDaemon == 0 \notin Daemon
<1> DEFINE n == Cardinality(Daemon)
<1>1. Daemon = 1..n
  BY StackAssumption
<1> HIDE DEF n
<1> QED
  BY <1>1

LEMMA LaunchKeeps ==
    ASSUME StackInv, Launch
    PROVE  StackInv'
<1> USE ZeroIsNoDaemon DEF Launch, Doing, Turn, Shows, world, Alive, NoDaemon, Idle
<1>1. StackTypeOK'
  BY DEF StackInv, StackTypeOK
<1>2. NobodyWhenOff'
  BY DEF StackInv, StackTypeOK, NobodyWhenOff
<1>3. ClusterIsWhole'
  BY DEF StackInv, StackTypeOK, ClusterIsWhole, At
<1>4. OnePort'
  BY DEF StackInv, StackTypeOK, OnePort
<1>5. SUFFICES ASSUME undisturbed' PROVE UndisturbedInv'
  BY <1>1, <1>2, <1>3, <1>4 DEF StackInv
<1>6. OneAtATime'
  BY <1>5 DEF StackInv, StackTypeOK, NobodyWhenOff, UndisturbedInv, OneAtATime, ShownIsSo, At
<1>7. StopsOnPurpose'
  BY <1>5 DEF StackInv, StackTypeOK, UndisturbedInv, StopsOnPurpose, At
<1>8. OneDaemon'
  BY <1>5 DEF StackInv, StackTypeOK, NobodyWhenOff, UndisturbedInv, OneDaemon, At
<1>9. DatabaseIsOurs'
  BY <1>5 DEF StackInv, StackTypeOK, NobodyWhenOff, UndisturbedInv, DatabaseIsOurs, At
<1>10. ShownIsSo'
  BY <1>5 DEF StackInv, StackTypeOK, UndisturbedInv, OneAtATime, ShownIsSo, At
<1> QED
  BY <1>6, <1>7, <1>8, <1>9, <1>10 DEF UndisturbedInv

LEMMA SaveSettingsKeeps ==
    ASSUME StackInv, SaveSettings
    PROVE  StackInv'
<1> USE ZeroIsNoDaemon DEF SaveSettings, Restarted, Working, Doing, Turn, Shows, StackDoes,
         Alive, NoDaemon, Idle
<1>1. StackTypeOK'
  BY DEF StackInv, StackTypeOK
<1>2. NobodyWhenOff'
  BY DEF StackInv, StackTypeOK, NobodyWhenOff
<1>3. ClusterIsWhole'
  BY DEF StackInv, StackTypeOK, ClusterIsWhole, At
<1>4. OnePort'
  BY DEF StackInv, StackTypeOK, OnePort
<1>5. SUFFICES ASSUME undisturbed' PROVE UndisturbedInv'
  BY <1>1, <1>2, <1>3, <1>4 DEF StackInv
<1>6. OneAtATime'
  <2>1. \A v \in Thread : worker[v] = "none"
    BY <1>5
  <2>2. PICK w \in Thread : worker' = [worker EXCEPT ![w] = "halt"]
    OBVIOUS
  <2> QED
    BY <2>1, <2>2 DEF StackInv, StackTypeOK, OneAtATime, At
<1>7. StopsOnPurpose'
  BY <1>5 DEF StackInv, StackTypeOK, UndisturbedInv, StopsOnPurpose, At
<1>8. OneDaemon'
  BY <1>5 DEF StackInv, StackTypeOK, UndisturbedInv, OneAtATime, OneDaemon, At
<1>9. DatabaseIsOurs'
  BY <1>5 DEF StackInv, StackTypeOK, UndisturbedInv, OneAtATime, DatabaseIsOurs, At
<1>10. ShownIsSo'
  BY <1>5 DEF StackInv, StackTypeOK, UndisturbedInv, OneAtATime, ShownIsSo, At
<1> QED
  BY <1>6, <1>7, <1>8, <1>9, <1>10 DEF UndisturbedInv

LEMMA TryModelKeeps ==
    ASSUME StackInv, TryModel
    PROVE  StackInv'
<1> USE ZeroIsNoDaemon DEF TryModel, StackDoes, world, past, Alive, NoDaemon, Idle
<1>1. StackTypeOK'
  BY DEF StackInv, StackTypeOK
<1>2. NobodyWhenOff'
  BY DEF StackInv, StackTypeOK, NobodyWhenOff
<1>3. ClusterIsWhole'
  BY DEF StackInv, StackTypeOK, ClusterIsWhole, At
<1>4. OnePort'
  BY DEF StackInv, StackTypeOK, OnePort
<1>5. SUFFICES ASSUME undisturbed' PROVE UndisturbedInv'
  BY <1>1, <1>2, <1>3, <1>4 DEF StackInv
<1>6. OneAtATime'
  BY <1>5 DEF StackInv, StackTypeOK, UndisturbedInv, OneAtATime, At
<1>7. StopsOnPurpose'
  BY <1>5 DEF StackInv, StackTypeOK, UndisturbedInv, StopsOnPurpose, At
<1>8. OneDaemon'
  BY <1>5 DEF StackInv, StackTypeOK, UndisturbedInv, OneAtATime, OneDaemon, At
<1>9. DatabaseIsOurs'
  BY <1>5 DEF StackInv, StackTypeOK, UndisturbedInv, OneAtATime, DatabaseIsOurs, At
<1>10. ShownIsSo'
  BY <1>5 DEF StackInv, StackTypeOK, UndisturbedInv, OneAtATime, ShownIsSo, At
<1> QED
  BY <1>6, <1>7, <1>8, <1>9, <1>10 DEF UndisturbedInv

LEMMA SaveModelKeeps ==
    ASSUME StackInv, SaveModel
    PROVE  StackInv'
<1> USE ZeroIsNoDaemon DEF SaveModel, Restarted, Working, Doing, Turn, Shows, Alive, NoDaemon,
         Idle
<1>1. StackTypeOK'
  <2>1. settings' \in [Daemon -> 0..saved'] /\ saved' \in Nat
    BY DEF StackInv, StackTypeOK
  <2>2. worker' \in [Thread -> {"none", "look", "adopt", "init", "rename", "spoiled", "database",
                               "pg_ctl", "daemon", "spawn", "wait", "halt", "pg_stop", "resume",
                               "orphan", "initdb"}]
    BY DEF StackInv, StackTypeOK
  <2> QED
    BY <2>1, <2>2 DEF StackInv, StackTypeOK
<1>2. NobodyWhenOff'
  BY DEF StackInv, StackTypeOK, NobodyWhenOff
<1>3. ClusterIsWhole'
  BY DEF StackInv, StackTypeOK, ClusterIsWhole, At
<1>4. OnePort'
  BY DEF StackInv, StackTypeOK, OnePort
<1>5. SUFFICES ASSUME undisturbed' PROVE UndisturbedInv'
  BY <1>1, <1>2, <1>3, <1>4 DEF StackInv
<1>6. OneAtATime'
  <2>1. \A v \in Thread : worker[v] = "none"
    BY <1>5
  <2>2. worker' = worker \/ \E w \in Thread : worker' = [worker EXCEPT ![w] = "halt"]
    OBVIOUS
  <2> QED
    BY <2>1, <2>2 DEF StackInv, StackTypeOK, OneAtATime, At
<1>7. StopsOnPurpose'
  BY <1>5 DEF StackInv, StackTypeOK, UndisturbedInv, StopsOnPurpose, At
<1>8. OneDaemon'
  BY <1>5 DEF StackInv, StackTypeOK, NobodyWhenOff, UndisturbedInv, OneDaemon, ShownIsSo, At
<1>9. DatabaseIsOurs'
  BY <1>5 DEF StackInv, StackTypeOK, UndisturbedInv, OneAtATime, DatabaseIsOurs, At
<1>10. ShownIsSo'
  BY <1>5 DEF StackInv, StackTypeOK, UndisturbedInv, OneAtATime, ShownIsSo, At
<1> QED
  BY <1>6, <1>7, <1>8, <1>9, <1>10 DEF UndisturbedInv

LEMMA UpdateFailsKeeps ==
    ASSUME StackInv, UpdateFails
    PROVE  StackInv'
<1> USE ZeroIsNoDaemon DEF UpdateFails, Restarted, Working, Doing, Turn, StackDoes, world,
         Alive, NoDaemon, Idle
<1>1. StackTypeOK'
  BY DEF StackInv, StackTypeOK
<1>2. NobodyWhenOff'
  BY DEF StackInv, StackTypeOK, NobodyWhenOff
<1>3. ClusterIsWhole'
  BY DEF StackInv, StackTypeOK, ClusterIsWhole, At
<1>4. OnePort'
  BY DEF StackInv, StackTypeOK, OnePort
<1>5. SUFFICES ASSUME undisturbed' PROVE UndisturbedInv'
  BY <1>1, <1>2, <1>3, <1>4 DEF StackInv
<1>6. OneAtATime'
  <2>1. \A v \in Thread : worker[v] = "none"
    BY <1>5
  <2>2. PICK w \in Thread : worker' = [worker EXCEPT ![w] = "halt"]
    OBVIOUS
  <2> QED
    BY <2>1, <2>2 DEF StackInv, StackTypeOK, OneAtATime, At
<1>7. StopsOnPurpose'
  BY <1>5 DEF StackInv, StackTypeOK, UndisturbedInv, StopsOnPurpose, At
<1>8. OneDaemon'
  BY <1>5 DEF StackInv, StackTypeOK, UndisturbedInv, OneAtATime, OneDaemon, At
<1>9. DatabaseIsOurs'
  BY <1>5 DEF StackInv, StackTypeOK, UndisturbedInv, OneAtATime, DatabaseIsOurs, At
<1>10. ShownIsSo'
  BY <1>5 DEF StackInv, StackTypeOK, UndisturbedInv, OneAtATime, ShownIsSo, At
<1> QED
  BY <1>6, <1>7, <1>8, <1>9, <1>10 DEF UndisturbedInv

LEMMA QuitKeeps ==
    ASSUME StackInv, Quit
    PROVE  StackInv'
<1> USE ZeroIsNoDaemon DEF Quit, WithoutApp, Making, StopDaemon, Killed, Working, Doing,
         StackDoes, Alive, NoDaemon, Idle
<1>1. StackTypeOK'
  BY DEF StackInv, StackTypeOK
<1>2. NobodyWhenOff'
  BY DEF StackInv, StackTypeOK, NobodyWhenOff
<1>3. ClusterIsWhole'
  BY DEF StackInv, StackTypeOK, ClusterIsWhole, At
<1>4. OnePort'
  BY DEF StackInv, StackTypeOK, OnePort
<1>5. SUFFICES ASSUME undisturbed' PROVE UndisturbedInv'
  BY <1>1, <1>2, <1>3, <1>4 DEF StackInv
<1>6. OneAtATime'
  BY <1>5 DEF StackInv, StackTypeOK, UndisturbedInv, OneAtATime, At
<1>7. StopsOnPurpose'
  BY <1>5 DEF StackInv, StackTypeOK, UndisturbedInv, StopsOnPurpose, At
<1>8. OneDaemon'
  BY <1>5 DEF StackInv, StackTypeOK, UndisturbedInv, OneAtATime, OneDaemon, At
<1>9. DatabaseIsOurs'
  BY <1>5 DEF StackInv, StackTypeOK, UndisturbedInv, OneAtATime, DatabaseIsOurs, At
<1>10. ShownIsSo'
  BY <1>5 DEF StackInv, StackTypeOK, UndisturbedInv, OneAtATime, ShownIsSo, At
<1> QED
  BY <1>6, <1>7, <1>8, <1>9, <1>10 DEF UndisturbedInv

LEMMA AppCrashKeeps ==
    ASSUME StackInv, AppCrash
    PROVE  StackInv'
<1> USE ZeroIsNoDaemon DEF AppCrash, WithoutApp, Making, HaltAhead, Doing, StackDoes, world,
         Alive, NoDaemon, Idle
<1>1. StackTypeOK'
  BY DEF StackInv, StackTypeOK
<1>2. NobodyWhenOff'
  BY DEF StackInv, StackTypeOK, NobodyWhenOff
<1>3. ClusterIsWhole'
  BY DEF StackInv, StackTypeOK, ClusterIsWhole, At
<1>4. OnePort'
  BY DEF StackInv, StackTypeOK, OnePort
<1>5. SUFFICES ASSUME undisturbed' PROVE UndisturbedInv'
  BY <1>1, <1>2, <1>3, <1>4 DEF StackInv
<1>6. OneAtATime'
  BY <1>5 DEF StackInv, StackTypeOK, UndisturbedInv, OneAtATime, At
<1>7. StopsOnPurpose'
  BY <1>5 DEF StackInv, StackTypeOK, UndisturbedInv, StopsOnPurpose, At
<1>8. OneDaemon'
  BY <1>5 DEF StackInv, StackTypeOK, UndisturbedInv, OneAtATime, OneDaemon, At
<1>9. DatabaseIsOurs'
  BY <1>5 DEF StackInv, StackTypeOK, UndisturbedInv, OneAtATime, DatabaseIsOurs, At
<1>10. ShownIsSo'
  BY <1>5 DEF StackInv, StackTypeOK, UndisturbedInv, OneAtATime, ShownIsSo, At
<1> QED
  BY <1>6, <1>7, <1>8, <1>9, <1>10 DEF UndisturbedInv

LEMMA LookAroundKeeps ==
    ASSUME StackInv, NEW w \in Thread, app = "up", LookAround(w)
    PROVE  StackInv'
<1> USE ZeroIsNoDaemon DEF LookAround, Healthy, Doing, Turn, Shows, world, Alive, NoDaemon, Idle
<1>1. StackTypeOK'
  BY DEF StackInv, StackTypeOK
<1>2. NobodyWhenOff'
  BY DEF StackInv, StackTypeOK, NobodyWhenOff
<1>3. ClusterIsWhole'
  BY DEF StackInv, StackTypeOK, ClusterIsWhole, At
<1>4. OnePort'
  BY DEF StackInv, StackTypeOK, OnePort
<1>5. SUFFICES ASSUME undisturbed' PROVE UndisturbedInv'
  BY <1>1, <1>2, <1>3, <1>4 DEF StackInv
<1>6. OneAtATime'
  BY <1>5 DEF StackInv, StackTypeOK, UndisturbedInv, OneAtATime, At
<1>7. StopsOnPurpose'
  BY <1>5 DEF StackInv, StackTypeOK, UndisturbedInv, StopsOnPurpose, At
<1>8. OneDaemon'
  BY <1>5 DEF StackInv, StackTypeOK, UndisturbedInv, OneAtATime, OneDaemon, At
<1>9. DatabaseIsOurs'
  BY <1>5 DEF StackInv, StackTypeOK, UndisturbedInv, OneAtATime, DatabaseIsOurs, At
<1>10. ShownIsSo'
  BY <1>5 DEF StackInv, StackTypeOK, UndisturbedInv, OneAtATime, ShownIsSo, At
<1> QED
  BY <1>6, <1>7, <1>8, <1>9, <1>10 DEF UndisturbedInv

LEMMA AdoptKeeps ==
    ASSUME StackInv, NEW w \in Thread, app = "up", Adopt(w)
    PROVE  StackInv'
<1> USE ZeroIsNoDaemon DEF Adopt, TakesBack, Doing, Turn, Shows, world, past, Alive, NoDaemon,
         Idle
<1>1. StackTypeOK'
  BY DEF StackInv, StackTypeOK
<1>2. NobodyWhenOff'
  BY DEF StackInv, StackTypeOK, NobodyWhenOff
<1>3. ClusterIsWhole'
  BY DEF StackInv, StackTypeOK, ClusterIsWhole, At
<1>4. OnePort'
  BY DEF StackInv, StackTypeOK, OnePort
<1>5. SUFFICES ASSUME undisturbed' PROVE UndisturbedInv'
  BY <1>1, <1>2, <1>3, <1>4 DEF StackInv
<1>6. OneAtATime'
  BY <1>5 DEF StackInv, StackTypeOK, UndisturbedInv, OneAtATime, At
<1>7. StopsOnPurpose'
  BY <1>5 DEF StackInv, StackTypeOK, UndisturbedInv, StopsOnPurpose, At
<1>8. OneDaemon'
  BY <1>5 DEF StackInv, StackTypeOK, UndisturbedInv, OneAtATime, OneDaemon, At
<1>9. DatabaseIsOurs'
  BY <1>5
     DEF StackInv, StackTypeOK, ClusterIsWhole, UndisturbedInv, OneAtATime, OneDaemon,
         DatabaseIsOurs, ShownIsSo, At
<1>10. ShownIsSo'
  BY <1>5
     DEF StackInv, StackTypeOK, ClusterIsWhole, UndisturbedInv, OneAtATime, OneDaemon,
         DatabaseIsOurs, ShownIsSo, At
<1> QED
  BY <1>6, <1>7, <1>8, <1>9, <1>10 DEF UndisturbedInv

LEMMA BeginClusterKeeps ==
    ASSUME StackInv, NEW w \in Thread, app = "up", BeginCluster(w)
    PROVE  StackInv'
<1> USE ZeroIsNoDaemon DEF BeginCluster, Making, Doing, Shows, world, past, Alive, NoDaemon,
         Idle
<1>1. StackTypeOK'
  BY DEF StackInv, StackTypeOK
<1>2. NobodyWhenOff'
  BY DEF StackInv, StackTypeOK, NobodyWhenOff
<1>3. ClusterIsWhole'
  BY DEF StackInv, StackTypeOK, ClusterIsWhole, At
<1>4. OnePort'
  BY DEF StackInv, StackTypeOK, OnePort
<1>5. SUFFICES ASSUME undisturbed' PROVE UndisturbedInv'
  BY <1>1, <1>2, <1>3, <1>4 DEF StackInv
<1>6. OneAtATime'
  BY <1>5 DEF StackInv, StackTypeOK, UndisturbedInv, OneAtATime, At
<1>7. StopsOnPurpose'
  BY <1>5 DEF StackInv, StackTypeOK, UndisturbedInv, StopsOnPurpose, At
<1>8. OneDaemon'
  BY <1>5 DEF StackInv, StackTypeOK, UndisturbedInv, OneAtATime, OneDaemon, At
<1>9. DatabaseIsOurs'
  BY <1>5 DEF StackInv, StackTypeOK, UndisturbedInv, OneAtATime, DatabaseIsOurs, At
<1>10. ShownIsSo'
  BY <1>5 DEF StackInv, StackTypeOK, UndisturbedInv, OneAtATime, ShownIsSo, At
<1> QED
  BY <1>6, <1>7, <1>8, <1>9, <1>10 DEF UndisturbedInv

LEMMA FinishClusterKeeps ==
    ASSUME StackInv, NEW w \in Thread, app = "up", FinishCluster(w)
    PROVE  StackInv'
<1> USE ZeroIsNoDaemon DEF FinishCluster, Doing, Turn, past, Alive, NoDaemon, Idle
<1>1. StackTypeOK'
  BY DEF StackInv, StackTypeOK
<1>2. NobodyWhenOff'
  BY DEF StackInv, StackTypeOK, NobodyWhenOff
<1>3. ClusterIsWhole'
  BY DEF StackInv, StackTypeOK, ClusterIsWhole, At
<1>4. OnePort'
  BY DEF StackInv, StackTypeOK, OnePort
<1>5. SUFFICES ASSUME undisturbed' PROVE UndisturbedInv'
  BY <1>1, <1>2, <1>3, <1>4 DEF StackInv
<1>6. OneAtATime'
  BY <1>5 DEF StackInv, StackTypeOK, UndisturbedInv, OneAtATime, At
<1>7. StopsOnPurpose'
  BY <1>5 DEF StackInv, StackTypeOK, UndisturbedInv, StopsOnPurpose, At
<1>8. OneDaemon'
  BY <1>5 DEF StackInv, StackTypeOK, UndisturbedInv, OneAtATime, OneDaemon, At
<1>9. DatabaseIsOurs'
  BY <1>5 DEF StackInv, StackTypeOK, UndisturbedInv, OneAtATime, DatabaseIsOurs, At
<1>10. ShownIsSo'
  BY <1>5 DEF StackInv, StackTypeOK, UndisturbedInv, OneAtATime, ShownIsSo, At
<1> QED
  BY <1>6, <1>7, <1>8, <1>9, <1>10 DEF UndisturbedInv

LEMMA ClusterFailsKeeps ==
    ASSUME StackInv, NEW w \in Thread, app = "up", ClusterFails(w)
    PROVE  StackInv'
<1> USE ZeroIsNoDaemon DEF ClusterFails, Doing, Turn, Shows, StackDoes, world, Alive, NoDaemon,
         Idle
<1>1. StackTypeOK'
  BY DEF StackInv, StackTypeOK
<1>2. NobodyWhenOff'
  BY DEF StackInv, StackTypeOK, NobodyWhenOff
<1>3. ClusterIsWhole'
  BY DEF StackInv, StackTypeOK, ClusterIsWhole, At
<1>4. OnePort'
  BY DEF StackInv, StackTypeOK, OnePort
<1>5. SUFFICES ASSUME undisturbed' PROVE UndisturbedInv'
  BY <1>1, <1>2, <1>3, <1>4 DEF StackInv
<1>6. OneAtATime'
  BY <1>5 DEF StackInv, StackTypeOK, UndisturbedInv, OneAtATime, At
<1>7. StopsOnPurpose'
  BY <1>5 DEF StackInv, StackTypeOK, UndisturbedInv, StopsOnPurpose, At
<1>8. OneDaemon'
  BY <1>5 DEF StackInv, StackTypeOK, UndisturbedInv, OneAtATime, OneDaemon, At
<1>9. DatabaseIsOurs'
  BY <1>5
     DEF StackInv, StackTypeOK, ClusterIsWhole, UndisturbedInv, OneAtATime, OneDaemon,
         DatabaseIsOurs, ShownIsSo, At
<1>10. ShownIsSo'
  BY <1>5 DEF StackInv, StackTypeOK, UndisturbedInv, OneAtATime, ShownIsSo, At
<1> QED
  BY <1>6, <1>7, <1>8, <1>9, <1>10 DEF UndisturbedInv

LEMMA RefuseClusterKeeps ==
    ASSUME StackInv, NEW w \in Thread, app = "up", RefuseCluster(w)
    PROVE  StackInv'
<1> USE ZeroIsNoDaemon DEF RefuseCluster, Doing, Turn, Shows, world, past, Alive, NoDaemon, Idle
<1>1. StackTypeOK'
  BY DEF StackInv, StackTypeOK
<1>2. NobodyWhenOff'
  BY DEF StackInv, StackTypeOK, NobodyWhenOff
<1>3. ClusterIsWhole'
  BY DEF StackInv, StackTypeOK, ClusterIsWhole, At
<1>4. OnePort'
  BY DEF StackInv, StackTypeOK, OnePort
<1>5. SUFFICES ASSUME undisturbed' PROVE UndisturbedInv'
  BY <1>1, <1>2, <1>3, <1>4 DEF StackInv
<1>6. OneAtATime'
  BY <1>5 DEF StackInv, StackTypeOK, UndisturbedInv, OneAtATime, At
<1>7. StopsOnPurpose'
  BY <1>5 DEF StackInv, StackTypeOK, UndisturbedInv, StopsOnPurpose, At
<1>8. OneDaemon'
  BY <1>5 DEF StackInv, StackTypeOK, UndisturbedInv, OneAtATime, OneDaemon, At
<1>9. DatabaseIsOurs'
  BY <1>5
     DEF StackInv, StackTypeOK, ClusterIsWhole, UndisturbedInv, OneAtATime, OneDaemon,
         DatabaseIsOurs, ShownIsSo, At
<1>10. ShownIsSo'
  BY <1>5 DEF StackInv, StackTypeOK, UndisturbedInv, OneAtATime, ShownIsSo, At
<1> QED
  BY <1>6, <1>7, <1>8, <1>9, <1>10 DEF UndisturbedInv

LEMMA PrepareDatabaseKeeps ==
    ASSUME StackInv, NEW w \in Thread, app = "up", PrepareDatabase(w)
    PROVE  StackInv'
<1> USE ZeroIsNoDaemon DEF PrepareDatabase, Doing, Turn, Shows, world, past, Alive, NoDaemon,
         Idle
<1>1. StackTypeOK'
  BY DEF StackInv, StackTypeOK
<1>2. NobodyWhenOff'
  BY DEF StackInv, StackTypeOK, NobodyWhenOff
<1>3. ClusterIsWhole'
  BY DEF StackInv, StackTypeOK, ClusterIsWhole, At
<1>4. OnePort'
  BY DEF StackInv, StackTypeOK, OnePort
<1>5. SUFFICES ASSUME undisturbed' PROVE UndisturbedInv'
  BY <1>1, <1>2, <1>3, <1>4 DEF StackInv
<1>6. OneAtATime'
  BY <1>5 DEF StackInv, StackTypeOK, UndisturbedInv, OneAtATime, At
<1>7. StopsOnPurpose'
  BY <1>5 DEF StackInv, StackTypeOK, UndisturbedInv, StopsOnPurpose, At
<1>8. OneDaemon'
  BY <1>5 DEF StackInv, StackTypeOK, UndisturbedInv, OneAtATime, OneDaemon, At
<1>9. DatabaseIsOurs'
  BY <1>5 DEF StackInv, StackTypeOK, UndisturbedInv, OneAtATime, DatabaseIsOurs, At
<1>10. ShownIsSo'
  BY <1>5 DEF StackInv, StackTypeOK, UndisturbedInv, OneAtATime, ShownIsSo, At
<1> QED
  BY <1>6, <1>7, <1>8, <1>9, <1>10 DEF UndisturbedInv

LEMMA StartPostgresKeeps ==
    ASSUME StackInv, NEW w \in Thread, app = "up", StartPostgres(w)
    PROVE  StackInv'
<1> USE ZeroIsNoDaemon DEF StartPostgres, Doing, Turn, past, Alive, NoDaemon, Idle
<1>1. StackTypeOK'
  BY DEF StackInv, StackTypeOK
<1>2. NobodyWhenOff'
  BY DEF StackInv, StackTypeOK, NobodyWhenOff
<1>3. ClusterIsWhole'
  BY DEF StackInv, StackTypeOK, ClusterIsWhole, At
<1>4. OnePort'
  BY DEF StackInv, StackTypeOK, OnePort
<1>5. SUFFICES ASSUME undisturbed' PROVE UndisturbedInv'
  BY <1>1, <1>2, <1>3, <1>4 DEF StackInv
<1>6. OneAtATime'
  BY <1>5 DEF StackInv, StackTypeOK, UndisturbedInv, OneAtATime, At
<1>7. StopsOnPurpose'
  BY <1>5 DEF StackInv, StackTypeOK, UndisturbedInv, StopsOnPurpose, At
<1>8. OneDaemon'
  BY <1>5 DEF StackInv, StackTypeOK, UndisturbedInv, OneAtATime, OneDaemon, At
<1>9. DatabaseIsOurs'
  BY <1>5 DEF StackInv, StackTypeOK, UndisturbedInv, OneAtATime, DatabaseIsOurs, At
<1>10. ShownIsSo'
  BY <1>5 DEF StackInv, StackTypeOK, UndisturbedInv, OneAtATime, ShownIsSo, At
<1> QED
  BY <1>6, <1>7, <1>8, <1>9, <1>10 DEF UndisturbedInv

LEMMA PostgresFailsKeeps ==
    ASSUME StackInv, NEW w \in Thread, app = "up", PostgresFails(w)
    PROVE  StackInv'
<1> USE ZeroIsNoDaemon DEF PostgresFails, Doing, Turn, Shows, StackDoes, world, Alive, NoDaemon,
         Idle
<1>1. StackTypeOK'
  BY DEF StackInv, StackTypeOK
<1>2. NobodyWhenOff'
  BY DEF StackInv, StackTypeOK, NobodyWhenOff
<1>3. ClusterIsWhole'
  BY DEF StackInv, StackTypeOK, ClusterIsWhole, At
<1>4. OnePort'
  BY DEF StackInv, StackTypeOK, OnePort
<1>5. SUFFICES ASSUME undisturbed' PROVE UndisturbedInv'
  BY <1>1, <1>2, <1>3, <1>4 DEF StackInv
<1>6. OneAtATime'
  BY <1>5 DEF StackInv, StackTypeOK, UndisturbedInv, OneAtATime, At
<1>7. StopsOnPurpose'
  BY <1>5 DEF StackInv, StackTypeOK, UndisturbedInv, StopsOnPurpose, At
<1>8. OneDaemon'
  BY <1>5 DEF StackInv, StackTypeOK, UndisturbedInv, OneAtATime, OneDaemon, At
<1>9. DatabaseIsOurs'
  BY <1>5 DEF StackInv, StackTypeOK, UndisturbedInv, OneAtATime, DatabaseIsOurs, At
<1>10. ShownIsSo'
  BY <1>5 DEF StackInv, StackTypeOK, UndisturbedInv, OneAtATime, ShownIsSo, At
<1> QED
  BY <1>6, <1>7, <1>8, <1>9, <1>10 DEF UndisturbedInv

LEMMA PrepareDaemonKeeps ==
    ASSUME StackInv, NEW w \in Thread, app = "up", PrepareDaemon(w)
    PROVE  StackInv'
<1> USE ZeroIsNoDaemon DEF PrepareDaemon, Doing, Turn, Shows, world, past, Alive, NoDaemon, Idle
<1>1. StackTypeOK'
  BY DEF StackInv, StackTypeOK
<1>2. NobodyWhenOff'
  BY DEF StackInv, StackTypeOK, NobodyWhenOff
<1>3. ClusterIsWhole'
  BY DEF StackInv, StackTypeOK, ClusterIsWhole, At
<1>4. OnePort'
  BY DEF StackInv, StackTypeOK, OnePort
<1>5. SUFFICES ASSUME undisturbed' PROVE UndisturbedInv'
  BY <1>1, <1>2, <1>3, <1>4 DEF StackInv
<1>6. OneAtATime'
  BY <1>5 DEF StackInv, StackTypeOK, UndisturbedInv, OneAtATime, At
<1>7. StopsOnPurpose'
  BY <1>5 DEF StackInv, StackTypeOK, UndisturbedInv, StopsOnPurpose, At
<1>8. OneDaemon'
  BY <1>5 DEF StackInv, StackTypeOK, UndisturbedInv, OneAtATime, OneDaemon, At
<1>9. DatabaseIsOurs'
  BY <1>5 DEF StackInv, StackTypeOK, UndisturbedInv, OneAtATime, DatabaseIsOurs, At
<1>10. ShownIsSo'
  BY <1>5 DEF StackInv, StackTypeOK, UndisturbedInv, OneAtATime, ShownIsSo, At
<1> QED
  BY <1>6, <1>7, <1>8, <1>9, <1>10 DEF UndisturbedInv

LEMMA SpawnDaemonKeeps ==
    ASSUME StackInv, NEW w \in Thread, app = "up", SpawnDaemon(w)
    PROVE  StackInv'
<1> USE ZeroIsNoDaemon DEF SpawnDaemon, Doing, Turn, past, Alive, NoDaemon, Idle
<1>1. StackTypeOK'
  BY DEF StackInv, StackTypeOK
<1>2. NobodyWhenOff'
  BY DEF StackInv, StackTypeOK, NobodyWhenOff
<1>3. ClusterIsWhole'
  BY DEF StackInv, StackTypeOK, ClusterIsWhole, At
<1>4. OnePort'
  BY DEF StackInv, StackTypeOK, OnePort
<1>5. SUFFICES ASSUME undisturbed' PROVE UndisturbedInv'
  BY <1>1, <1>2, <1>3, <1>4 DEF StackInv
<1>6. OneAtATime'
  BY <1>5 DEF StackInv, StackTypeOK, UndisturbedInv, OneAtATime, At
<1>7. StopsOnPurpose'
  BY <1>5 DEF StackInv, StackTypeOK, UndisturbedInv, StopsOnPurpose, At
<1>8. OneDaemon'
  BY <1>5 DEF StackInv, StackTypeOK, UndisturbedInv, OneAtATime, OneDaemon, At
<1>9. DatabaseIsOurs'
  BY <1>5 DEF StackInv, StackTypeOK, UndisturbedInv, OneAtATime, DatabaseIsOurs, At
<1>10. ShownIsSo'
  BY <1>5 DEF StackInv, StackTypeOK, UndisturbedInv, OneAtATime, ShownIsSo, At
<1> QED
  BY <1>6, <1>7, <1>8, <1>9, <1>10 DEF UndisturbedInv

LEMMA GiveUpKeeps ==
    ASSUME StackInv, NEW w \in Thread, app = "up", GiveUp(w)
    PROVE  StackInv'
<1> USE ZeroIsNoDaemon DEF GiveUp, Turn, Shows, world, past, Alive, NoDaemon, Idle
<1>1. StackTypeOK'
  BY DEF StackInv, StackTypeOK
<1>2. NobodyWhenOff'
  BY DEF StackInv, StackTypeOK, NobodyWhenOff
<1>3. ClusterIsWhole'
  BY DEF StackInv, StackTypeOK, ClusterIsWhole, At
<1>4. OnePort'
  BY DEF StackInv, StackTypeOK, OnePort
<1>5. SUFFICES ASSUME undisturbed' PROVE UndisturbedInv'
  BY <1>1, <1>2, <1>3, <1>4 DEF StackInv
<1>6. OneAtATime'
  BY <1>5 DEF StackInv, StackTypeOK, UndisturbedInv, OneAtATime, At
<1>7. StopsOnPurpose'
  BY <1>5 DEF StackInv, StackTypeOK, UndisturbedInv, StopsOnPurpose, At
<1>8. OneDaemon'
  BY <1>5 DEF StackInv, StackTypeOK, UndisturbedInv, OneAtATime, OneDaemon, At
<1>9. DatabaseIsOurs'
  BY <1>5
     DEF StackInv, StackTypeOK, UndisturbedInv, OneAtATime, StopsOnPurpose, DatabaseIsOurs,
         ShownIsSo, At
<1>10. ShownIsSo'
  BY <1>5
     DEF StackInv, StackTypeOK, UndisturbedInv, OneAtATime, StopsOnPurpose, DatabaseIsOurs,
         ShownIsSo, At
<1> QED
  BY <1>6, <1>7, <1>8, <1>9, <1>10 DEF UndisturbedInv

LEMMA AwaitDaemonKeeps ==
    ASSUME StackInv, NEW w \in Thread, app = "up", AwaitDaemon(w)
    PROVE  StackInv'
<1> USE ZeroIsNoDaemon DEF AwaitDaemon, Healthy, Deadline, Doing, Turn, Shows, world, past,
         Alive, NoDaemon, Idle
<1>1. StackTypeOK'
  BY DEF StackInv, StackTypeOK
<1>2. NobodyWhenOff'
  BY DEF StackInv, StackTypeOK, NobodyWhenOff
<1>3. ClusterIsWhole'
  BY DEF StackInv, StackTypeOK, ClusterIsWhole, At
<1>4. OnePort'
  BY DEF StackInv, StackTypeOK, OnePort
<1>5. SUFFICES ASSUME undisturbed' PROVE UndisturbedInv'
  BY <1>1, <1>2, <1>3, <1>4 DEF StackInv
<1>6. OneAtATime'
  BY <1>5 DEF StackInv, StackTypeOK, UndisturbedInv, OneAtATime, At
<1>7. StopsOnPurpose'
  BY <1>5 DEF StackInv, StackTypeOK, UndisturbedInv, StopsOnPurpose, At
<1>8. OneDaemon'
  BY <1>5
     DEF StackInv, StackTypeOK, ClusterIsWhole, UndisturbedInv, OneAtATime, OneDaemon,
         DatabaseIsOurs, ShownIsSo, At
<1>9. DatabaseIsOurs'
  BY <1>5 DEF StackInv, StackTypeOK, UndisturbedInv, OneAtATime, DatabaseIsOurs, At
<1>10. ShownIsSo'
  BY <1>5
     DEF StackInv, StackTypeOK, ClusterIsWhole, UndisturbedInv, OneAtATime, OneDaemon,
         DatabaseIsOurs, ShownIsSo, At
<1> QED
  BY <1>6, <1>7, <1>8, <1>9, <1>10 DEF UndisturbedInv

LEMMA HaltKeeps ==
    ASSUME StackInv, NEW w \in Thread, app = "up", Halt(w)
    PROVE  StackInv'
<1> USE ZeroIsNoDaemon DEF Halt, StopDaemon, Killed, Doing, Turn, past, Alive, NoDaemon, Idle
<1>1. StackTypeOK'
  BY DEF StackInv, StackTypeOK
<1>2. NobodyWhenOff'
  BY DEF StackInv, StackTypeOK, NobodyWhenOff
<1>3. ClusterIsWhole'
  BY DEF StackInv, StackTypeOK, ClusterIsWhole, At
<1>4. OnePort'
  BY DEF StackInv, StackTypeOK, OnePort
<1>5. SUFFICES ASSUME undisturbed' PROVE UndisturbedInv'
  BY <1>1, <1>2, <1>3, <1>4 DEF StackInv
<1>6. OneAtATime'
  BY <1>5 DEF StackInv, StackTypeOK, UndisturbedInv, OneAtATime, At
<1>7. StopsOnPurpose'
  BY <1>5 DEF StackInv, StackTypeOK, UndisturbedInv, StopsOnPurpose, At
<1>8. OneDaemon'
  BY <1>5 DEF StackInv, StackTypeOK, UndisturbedInv, OneAtATime, OneDaemon, At
<1>9. DatabaseIsOurs'
  BY <1>5 DEF StackInv, StackTypeOK, UndisturbedInv, OneAtATime, DatabaseIsOurs, At
<1>10. ShownIsSo'
  BY <1>5 DEF StackInv, StackTypeOK, UndisturbedInv, OneAtATime, ShownIsSo, At
<1> QED
  BY <1>6, <1>7, <1>8, <1>9, <1>10 DEF UndisturbedInv

LEMMA HaltPostgresKeeps ==
    ASSUME StackInv, NEW w \in Thread, app = "up", HaltPostgres(w)
    PROVE  StackInv'
<1> USE ZeroIsNoDaemon DEF HaltPostgres, Doing, Turn, past, Alive, NoDaemon, Idle
<1>1. StackTypeOK'
  BY DEF StackInv, StackTypeOK
<1>2. NobodyWhenOff'
  BY DEF StackInv, StackTypeOK, NobodyWhenOff
<1>3. ClusterIsWhole'
  BY DEF StackInv, StackTypeOK, ClusterIsWhole, At
<1>4. OnePort'
  BY DEF StackInv, StackTypeOK, OnePort
<1>5. SUFFICES ASSUME undisturbed' PROVE UndisturbedInv'
  BY <1>1, <1>2, <1>3, <1>4 DEF StackInv
<1>6. OneAtATime'
  BY <1>5 DEF StackInv, StackTypeOK, UndisturbedInv, OneAtATime, At
<1>7. StopsOnPurpose'
  BY <1>5 DEF StackInv, StackTypeOK, UndisturbedInv, StopsOnPurpose, At
<1>8. OneDaemon'
  BY <1>5 DEF StackInv, StackTypeOK, UndisturbedInv, OneAtATime, OneDaemon, At
<1>9. DatabaseIsOurs'
  BY <1>5 DEF StackInv, StackTypeOK, UndisturbedInv, OneAtATime, DatabaseIsOurs, At
<1>10. ShownIsSo'
  BY <1>5 DEF StackInv, StackTypeOK, UndisturbedInv, OneAtATime, ShownIsSo, At
<1> QED
  BY <1>6, <1>7, <1>8, <1>9, <1>10 DEF UndisturbedInv

LEMMA ResumeKeeps ==
    ASSUME StackInv, NEW w \in Thread, app = "up", Resume(w)
    PROVE  StackInv'
<1> USE ZeroIsNoDaemon DEF Resume, Doing, Turn, Shows, world, past, Alive, NoDaemon, Idle
<1>1. StackTypeOK'
  BY DEF StackInv, StackTypeOK
<1>2. NobodyWhenOff'
  BY DEF StackInv, StackTypeOK, NobodyWhenOff
<1>3. ClusterIsWhole'
  BY DEF StackInv, StackTypeOK, ClusterIsWhole, At
<1>4. OnePort'
  BY DEF StackInv, StackTypeOK, OnePort
<1>5. SUFFICES ASSUME undisturbed' PROVE UndisturbedInv'
  BY <1>1, <1>2, <1>3, <1>4 DEF StackInv
<1>6. OneAtATime'
  BY <1>5 DEF StackInv, StackTypeOK, UndisturbedInv, OneAtATime, At
<1>7. StopsOnPurpose'
  BY <1>5 DEF StackInv, StackTypeOK, UndisturbedInv, StopsOnPurpose, At
<1>8. OneDaemon'
  BY <1>5 DEF StackInv, StackTypeOK, UndisturbedInv, OneAtATime, OneDaemon, At
<1>9. DatabaseIsOurs'
  BY <1>5 DEF StackInv, StackTypeOK, UndisturbedInv, OneAtATime, DatabaseIsOurs, At
<1>10. ShownIsSo'
  BY <1>5 DEF StackInv, StackTypeOK, UndisturbedInv, OneAtATime, ShownIsSo, At
<1> QED
  BY <1>6, <1>7, <1>8, <1>9, <1>10 DEF UndisturbedInv

LEMMA OrphanedPgCtlKeeps ==
    ASSUME StackInv, NEW w \in Thread, OrphanedPgCtl(w)
    PROVE  StackInv'
<1> USE ZeroIsNoDaemon DEF OrphanedPgCtl, Doing, Turn, past, Alive, NoDaemon, Idle
<1>1. StackTypeOK'
  BY DEF StackInv, StackTypeOK
<1>2. NobodyWhenOff'
  BY DEF StackInv, StackTypeOK, NobodyWhenOff
<1>3. ClusterIsWhole'
  BY DEF StackInv, StackTypeOK, ClusterIsWhole, At
<1>4. OnePort'
  BY DEF StackInv, StackTypeOK, OnePort
<1>5. SUFFICES ASSUME undisturbed' PROVE UndisturbedInv'
  BY <1>1, <1>2, <1>3, <1>4 DEF StackInv
<1>6. OneAtATime'
  BY <1>5 DEF StackInv, StackTypeOK, UndisturbedInv, OneAtATime, At
<1>7. StopsOnPurpose'
  BY <1>5 DEF StackInv, StackTypeOK, UndisturbedInv, StopsOnPurpose, At
<1>8. OneDaemon'
  BY <1>5 DEF StackInv, StackTypeOK, UndisturbedInv, OneAtATime, OneDaemon, At
<1>9. DatabaseIsOurs'
  BY <1>5 DEF StackInv, StackTypeOK, UndisturbedInv, OneAtATime, DatabaseIsOurs, At
<1>10. ShownIsSo'
  BY <1>5 DEF StackInv, StackTypeOK, UndisturbedInv, OneAtATime, ShownIsSo, At
<1> QED
  BY <1>6, <1>7, <1>8, <1>9, <1>10 DEF UndisturbedInv

LEMMA OrphanedInitdbKeeps ==
    ASSUME StackInv, NEW w \in Thread, OrphanedInitdb(w)
    PROVE  StackInv'
<1> USE ZeroIsNoDaemon DEF OrphanedInitdb, Doing, Turn, world, past, Alive, NoDaemon, Idle
<1>1. StackTypeOK'
  BY DEF StackInv, StackTypeOK
<1>2. NobodyWhenOff'
  BY DEF StackInv, StackTypeOK, NobodyWhenOff
<1>3. ClusterIsWhole'
  BY DEF StackInv, StackTypeOK, ClusterIsWhole, At
<1>4. OnePort'
  BY DEF StackInv, StackTypeOK, OnePort
<1>5. SUFFICES ASSUME undisturbed' PROVE UndisturbedInv'
  BY <1>1, <1>2, <1>3, <1>4 DEF StackInv
<1>6. OneAtATime'
  BY <1>5 DEF StackInv, StackTypeOK, UndisturbedInv, OneAtATime, At
<1>7. StopsOnPurpose'
  BY <1>5 DEF StackInv, StackTypeOK, UndisturbedInv, StopsOnPurpose, At
<1>8. OneDaemon'
  BY <1>5 DEF StackInv, StackTypeOK, UndisturbedInv, OneAtATime, OneDaemon, At
<1>9. DatabaseIsOurs'
  BY <1>5 DEF StackInv, StackTypeOK, UndisturbedInv, OneAtATime, DatabaseIsOurs, At
<1>10. ShownIsSo'
  BY <1>5 DEF StackInv, StackTypeOK, UndisturbedInv, OneAtATime, ShownIsSo, At
<1> QED
  BY <1>6, <1>7, <1>8, <1>9, <1>10 DEF UndisturbedInv

LEMMA BootKeeps ==
    ASSUME StackInv, NEW d \in Daemon, Boot(d)
    PROVE  StackInv'
<1> USE ZeroIsNoDaemon DEF Boot, Healthy, Alive, NoDaemon, Idle
<1>1. StackTypeOK'
  BY DEF StackInv, StackTypeOK
<1>2. NobodyWhenOff'
  BY DEF StackInv, StackTypeOK, NobodyWhenOff
<1>3. ClusterIsWhole'
  BY DEF StackInv, StackTypeOK, ClusterIsWhole, At
<1>4. OnePort'
  BY DEF StackInv, StackTypeOK, OnePort
<1>5. SUFFICES ASSUME undisturbed' PROVE UndisturbedInv'
  BY <1>1, <1>2, <1>3, <1>4 DEF StackInv
<1>6. OneAtATime'
  BY <1>5 DEF StackInv, StackTypeOK, UndisturbedInv, OneAtATime, At
<1>7. StopsOnPurpose'
  BY <1>5 DEF StackInv, StackTypeOK, UndisturbedInv, StopsOnPurpose, At
<1>8. OneDaemon'
  BY <1>5
     DEF StackInv, StackTypeOK, NobodyWhenOff, ClusterIsWhole, OnePort, UndisturbedInv,
         OneAtATime, OneDaemon, DatabaseIsOurs, ShownIsSo, At
<1>9. DatabaseIsOurs'
  BY <1>5 DEF StackInv, StackTypeOK, UndisturbedInv, OneAtATime, DatabaseIsOurs, At
<1>10. ShownIsSo'
  BY <1>5 DEF StackInv, StackTypeOK, UndisturbedInv, OneAtATime, ShownIsSo, At
<1> QED
  BY <1>6, <1>7, <1>8, <1>9, <1>10 DEF UndisturbedInv

LEMMA HangKeeps ==
    ASSUME StackInv, NEW d \in Daemon, Hang(d)
    PROVE  StackInv'
<1> USE ZeroIsNoDaemon DEF Hang, StackDoes, Alive, NoDaemon, Idle
<1>1. StackTypeOK'
  BY DEF StackInv, StackTypeOK
<1>2. NobodyWhenOff'
  BY DEF StackInv, StackTypeOK, NobodyWhenOff
<1>3. ClusterIsWhole'
  BY DEF StackInv, StackTypeOK, ClusterIsWhole, At
<1>4. OnePort'
  BY DEF StackInv, StackTypeOK, OnePort
<1>5. SUFFICES ASSUME undisturbed' PROVE UndisturbedInv'
  BY <1>1, <1>2, <1>3, <1>4 DEF StackInv
<1>6. OneAtATime'
  BY <1>5 DEF StackInv, StackTypeOK, UndisturbedInv, OneAtATime, At
<1>7. StopsOnPurpose'
  BY <1>5 DEF StackInv, StackTypeOK, UndisturbedInv, StopsOnPurpose, At
<1>8. OneDaemon'
  BY <1>5 DEF StackInv, StackTypeOK, UndisturbedInv, OneAtATime, OneDaemon, At
<1>9. DatabaseIsOurs'
  BY <1>5 DEF StackInv, StackTypeOK, UndisturbedInv, OneAtATime, DatabaseIsOurs, At
<1>10. ShownIsSo'
  BY <1>5 DEF StackInv, StackTypeOK, UndisturbedInv, OneAtATime, ShownIsSo, At
<1> QED
  BY <1>6, <1>7, <1>8, <1>9, <1>10 DEF UndisturbedInv

LEMMA DieKeeps ==
    ASSUME StackInv, NEW d \in Daemon, Die(d)
    PROVE  StackInv'
<1> USE ZeroIsNoDaemon DEF Die, Killed, StackDoes, Alive, NoDaemon, Idle
<1>1. StackTypeOK'
  BY DEF StackInv, StackTypeOK
<1>2. NobodyWhenOff'
  BY DEF StackInv, StackTypeOK, NobodyWhenOff
<1>3. ClusterIsWhole'
  BY DEF StackInv, StackTypeOK, ClusterIsWhole, At
<1>4. OnePort'
  BY DEF StackInv, StackTypeOK, OnePort
<1>5. SUFFICES ASSUME undisturbed' PROVE UndisturbedInv'
  BY <1>1, <1>2, <1>3, <1>4 DEF StackInv
<1>6. OneAtATime'
  BY <1>5 DEF StackInv, StackTypeOK, UndisturbedInv, OneAtATime, At
<1>7. StopsOnPurpose'
  BY <1>5 DEF StackInv, StackTypeOK, UndisturbedInv, StopsOnPurpose, At
<1>8. OneDaemon'
  BY <1>5 DEF StackInv, StackTypeOK, UndisturbedInv, OneAtATime, OneDaemon, At
<1>9. DatabaseIsOurs'
  BY <1>5 DEF StackInv, StackTypeOK, UndisturbedInv, OneAtATime, DatabaseIsOurs, At
<1>10. ShownIsSo'
  BY <1>5 DEF StackInv, StackTypeOK, UndisturbedInv, OneAtATime, ShownIsSo, At
<1> QED
  BY <1>6, <1>7, <1>8, <1>9, <1>10 DEF UndisturbedInv

LEMMA TheirsStartsKeeps ==
    ASSUME StackInv, TheirsStarts
    PROVE  StackInv'
<1> USE ZeroIsNoDaemon DEF TheirsStarts, Healthy, StackDoes, Alive, NoDaemon, Idle
<1>1. StackTypeOK'
  BY DEF StackInv, StackTypeOK
<1>2. NobodyWhenOff'
  BY DEF StackInv, StackTypeOK, NobodyWhenOff
<1>3. ClusterIsWhole'
  BY DEF StackInv, StackTypeOK, ClusterIsWhole, At
<1>4. OnePort'
  BY DEF StackInv, StackTypeOK, OnePort
<1>5. SUFFICES ASSUME undisturbed' PROVE UndisturbedInv'
  BY <1>1, <1>2, <1>3, <1>4 DEF StackInv
<1>6. OneAtATime'
  BY <1>5 DEF StackInv, StackTypeOK, UndisturbedInv, OneAtATime, At
<1>7. StopsOnPurpose'
  BY <1>5 DEF StackInv, StackTypeOK, UndisturbedInv, StopsOnPurpose, At
<1>8. OneDaemon'
  BY <1>5 DEF StackInv, StackTypeOK, UndisturbedInv, OneAtATime, OneDaemon, At
<1>9. DatabaseIsOurs'
  BY <1>5 DEF StackInv, StackTypeOK, UndisturbedInv, OneAtATime, DatabaseIsOurs, At
<1>10. ShownIsSo'
  BY <1>5 DEF StackInv, StackTypeOK, UndisturbedInv, OneAtATime, ShownIsSo, At
<1> QED
  BY <1>6, <1>7, <1>8, <1>9, <1>10 DEF UndisturbedInv

LEMMA TheirsEndsKeeps ==
    ASSUME StackInv, TheirsEnds
    PROVE  StackInv'
<1> USE ZeroIsNoDaemon DEF TheirsEnds, past, Alive, NoDaemon, Idle
<1>1. StackTypeOK'
  BY DEF StackInv, StackTypeOK
<1>2. NobodyWhenOff'
  BY DEF StackInv, StackTypeOK, NobodyWhenOff
<1>3. ClusterIsWhole'
  BY DEF StackInv, StackTypeOK, ClusterIsWhole, At
<1>4. OnePort'
  BY DEF StackInv, StackTypeOK, OnePort
<1>5. SUFFICES ASSUME undisturbed' PROVE UndisturbedInv'
  BY <1>1, <1>2, <1>3, <1>4 DEF StackInv
<1>6. OneAtATime'
  BY <1>5 DEF StackInv, StackTypeOK, UndisturbedInv, OneAtATime, At
<1>7. StopsOnPurpose'
  BY <1>5 DEF StackInv, StackTypeOK, UndisturbedInv, StopsOnPurpose, At
<1>8. OneDaemon'
  BY <1>5 DEF StackInv, StackTypeOK, UndisturbedInv, OneAtATime, OneDaemon, At
<1>9. DatabaseIsOurs'
  BY <1>5 DEF StackInv, StackTypeOK, UndisturbedInv, OneAtATime, DatabaseIsOurs, At
<1>10. ShownIsSo'
  BY <1>5 DEF StackInv, StackTypeOK, UndisturbedInv, OneAtATime, ShownIsSo, At
<1> QED
  BY <1>6, <1>7, <1>8, <1>9, <1>10 DEF UndisturbedInv

-----------------------------------------------------------------------------
LEMMA InitStack == StackInit => StackInv
<1> SUFFICES ASSUME StackInit PROVE StackInv
  OBVIOUS
<1> USE DEF StackInit, NoDaemon, Idle
<1>1. StackTypeOK
  <2>1. settings \in [Daemon -> 0..saved] /\ saved \in Nat
    OBVIOUS
  <2>2. process \in [Daemon -> {"none", "boots", "hangs", "serves", "dead"}]
    OBVIOUS
  <2>3. worker \in [Thread -> {"none", "look", "adopt", "init", "rename", "spoiled", "database",
                              "pg_ctl", "daemon", "spawn", "wait", "halt", "pg_stop", "resume",
                              "orphan", "initdb"}]
    OBVIOUS
  <2>4. {pgSlot, stopping, theirs, postgres, checking, undisturbed, troubled, lost} \subseteq BOOLEAN
    OBVIOUS
  <2> QED
    BY <2>1, <2>2, <2>3, <2>4 DEF StackTypeOK
<1>2. Alive = {} /\ \A w \in Thread : worker[w] = "none"
  BY DEF Alive
<1> QED
  BY <1>1, <1>2
     DEF StackInv, NobodyWhenOff, ClusterIsWhole, OnePort, UndisturbedInv, OneAtATime,
         StopsOnPurpose, OneDaemon, DatabaseIsOurs, ShownIsSo, At

LEMMA StackStep == StackInv /\ [StackNext]_stackVars => StackInv'
<1> SUFFICES ASSUME StackInv, [StackNext]_stackVars PROVE StackInv'
  OBVIOUS
<1>1. CASE Launch
  BY <1>1, LaunchKeeps
<1>2. CASE SaveSettings
  BY <1>2, SaveSettingsKeeps
<1>3. CASE TryModel
  BY <1>3, TryModelKeeps
<1>4. CASE SaveModel
  BY <1>4, SaveModelKeeps
<1>5. CASE UpdateFails
  BY <1>5, UpdateFailsKeeps
<1>6. CASE Quit
  BY <1>6, QuitKeeps
<1>7. CASE AppCrash
  BY <1>7, AppCrashKeeps
<1>8. CASE TheirsStarts \/ TheirsEnds
  BY <1>8, TheirsStartsKeeps, TheirsEndsKeeps
<1>9. CASE \E w \in Thread : Act(w) \/ Orphan(w)
  <2> SUFFICES ASSUME NEW w \in Thread, Act(w) \/ Orphan(w) PROVE StackInv'
    BY <1>9
  <2> QED
    BY LookAroundKeeps, AdoptKeeps, BeginClusterKeeps, FinishClusterKeeps, ClusterFailsKeeps,
       RefuseClusterKeeps, PrepareDatabaseKeeps, StartPostgresKeeps, PostgresFailsKeeps,
       PrepareDaemonKeeps, SpawnDaemonKeeps, GiveUpKeeps, AwaitDaemonKeeps, HaltKeeps,
       HaltPostgresKeeps, ResumeKeeps, OrphanedPgCtlKeeps, OrphanedInitdbKeeps
       DEF Act, Orphan
<1>10. CASE \E d \in Daemon : Boot(d) \/ Hang(d) \/ Die(d)
  BY <1>10, BootKeeps, HangKeeps, DieKeeps
<1>11. CASE UNCHANGED stackVars
  BY <1>11
     DEF stackVars, Alive, StackInv, StackTypeOK, NobodyWhenOff, ClusterIsWhole, OnePort,
         UndisturbedInv, OneAtATime, StopsOnPurpose, OneDaemon, DatabaseIsOurs, ShownIsSo, At
<1> QED
  BY <1>1, <1>2, <1>3, <1>4, <1>5, <1>6, <1>7, <1>8, <1>9, <1>10, <1>11 DEF StackNext

\* When nothing else is going on, what is shown is so.
LEMMA SoundWhenQuiet == StackInv => StackIsSound
<1> SUFFICES ASSUME StackInv PROVE StackIsSound
  OBVIOUS
<1> USE ZeroIsNoDaemon DEF NoDaemon, Working
<1>1. SettingsInForce
  <2> SUFFICES ASSUME app = "up", shown = "ready", Working = {}, undisturbed, ~lost
               PROVE  \E d \in Daemon : process[d] = "serves" /\ settings[d] = saved /\ slot = d
    BY DEF SettingsInForce
  <2>1. \A w \in Thread : worker[w] = "none"
    OBVIOUS
  <2>2. slot \in Daemon /\ process[slot] = "serves"
    BY <2>1 DEF StackInv, UndisturbedInv, ShownIsSo, At
  <2>3. settings[slot] = saved
    BY <2>1, <2>2 DEF StackInv, UndisturbedInv, OneDaemon, Alive, At
  <2> QED
    BY <2>2, <2>3
<1>2. FailedForACause
  BY DEF FailedForACause, StackInv, UndisturbedInv, ShownIsSo
<1>3. StandsAside
  BY DEF StandsAside, StackInv, UndisturbedInv, ShownIsSo
<1> QED
  BY <1>1, <1>2, <1>3 DEF StackIsSound, StackInv

\* What the app shows is so, after crashes at any step, restarts and deaths,
\* whenever a daemon of the user's own comes and goes, whatever the threads
\* and the processes they leave behind do (runtime.rs).
THEOREM StackSound == StackSpec => []StackIsSound
<1>1. StackInv /\ [StackNext]_stackVars => StackInv'
  BY StackStep
<1> QED
  BY InitStack, <1>1, SoundWhenQuiet, PTL DEF StackSpec

\* The step of QuitStopsBoth.
StopsBoth == Quit /\ undisturbed' => Alive' = {} /\ (shown # "unmanaged" => ~postgres')

LEMMA QuitStep == StackInv => StopsBoth
<1> SUFFICES ASSUME StackInv, Quit, undisturbed'
             PROVE  Alive' = {} /\ (shown # "unmanaged" => ~postgres')
  BY DEF StopsBoth
<1> USE ZeroIsNoDaemon DEF NoDaemon
<1>1. undisturbed /\ app = "up" /\ \A w \in Thread : worker[w] = "none"
  BY DEF Quit, Working, StackInv, StackTypeOK
<1>2. UndisturbedInv
  BY <1>1 DEF StackInv
<1>3. \A d \in Alive : d = slot
  BY <1>1, <1>2 DEF UndisturbedInv, OneDaemon, At
<1>4. Alive' = {}
  BY <1>3 DEF Quit, StopDaemon, Killed, Alive, StackInv, StackTypeOK
<1>5. postgres => (pgSlot \/ shown = "unmanaged")
  BY <1>1, <1>2 DEF UndisturbedInv, DatabaseIsOurs, At
<1> QED
  BY <1>4, <1>5 DEF Quit

\* An app quit in peace leaves no daemon behind, and no PostgreSQL unless it
\* stood aside for the user's own daemon, also when it took its daemon back
\* from a session that had crashed (stop, adopt).
THEOREM QuitLeavesNothing == StackSpec => QuitStopsBoth
<1>1. StackInv /\ [StackNext]_stackVars => StackInv'
  BY StackStep
<1>2. StackInv => [StopsBoth]_stackVars
  BY QuitStep
<1>3. [][StopsBoth]_stackVars <=> QuitStopsBoth
  BY DEF StopsBoth, QuitStopsBoth
<1> QED
  BY InitStack, <1>1, <1>2, <1>3, PTL DEF StackSpec

-----------------------------------------------------------------------------
(* The library in a bundle.                                                *)

\* No two rows with one id, no content twice.
OneRowEach(lib) ==
    /\ \A f, g \in lib.files : f.id = g.id \/ f.text = g.text => f = g
    /\ \A c, d \in lib.claims : c.id = d.id => c = d

\* A library in order, whatever the model.
InOrder(lib) == RefersWell(lib) /\ OneRowEach(lib)

\* Every id of the library was given out.
IdsUsed(lib) == /\ \A f \in lib.files : f.id \in used
                /\ \A c \in lib.claims : c.id \in used

PartOf(b, lib) == /\ b.files \subseteq lib.files /\ b.claims \subseteq lib.claims
                  /\ b.topics \subseteq lib.topics /\ b.members \subseteq lib.members

SameRows(b, lib) == /\ b.files = lib.files /\ b.claims = lib.claims
                    /\ b.topics = lib.topics /\ b.members = lib.members

LibraryInv ==
    /\ InOrder(library) /\ IdsUsed(library)
    /\ \A c \in library.claims : c.vector \in {NoModel, modelInUse}
    /\ blank => (library = Empty /\ crossed = {})

ExportInv ==
    /\ InOrder(snapshot) /\ IdsUsed(snapshot) /\ origin = snapshot
    /\ PartOf(bundle, snapshot)
    /\ bundle.complete => SameRows(bundle, snapshot)
    /\ reader # 0 => ~ bundle.complete
    /\ reader > 1 => bundle.files = snapshot.files
    /\ reader > 2 => bundle.topics = snapshot.topics
    /\ reader > 3 => bundle.claims = snapshot.claims

\* What an import has inserted is new to the library.
StagedIsNew ==
    /\ \A f \in staged.files : /\ f \in bundle.files
                               /\ \A g \in library.files : g.id # f.id /\ g.text # f.text
    /\ \A d \in staged.claims : /\ \E c \in bundle.claims : d = Fitted(c, importer)
                                /\ \A c \in library.claims : c.id # d.id
    /\ staged.topics \subseteq bundle.topics /\ staged.members \subseteq bundle.members

\* The tables it is done with have a row for every row of the bundle.
TablesDone ==
    /\ writer > 1 => \A f \in bundle.files : \E g \in library.files \cup staged.files :
                         g.id = f.id \/ g.text = f.text
    /\ writer > 2 => bundle.topics \subseteq library.topics \cup staged.topics
    /\ writer > 3 => \A c \in bundle.claims : \E d \in library.claims \cup staged.claims :
                         d.id = c.id

ImportInv ==
    /\ (importer = NoModel) <=> (writer = 0)
    /\ importer = NoModel => (staged = Empty /\ toPut = {} /\ awaited = {})
    /\ importer # NoModel => reader = 0
    /\ writer \in 1..3 => (toPut = bundle.members /\ awaited = {} /\ staged.members = {})
    /\ \A m, n \in awaited : m = n
    /\ StagedIsNew /\ TablesDone

\* A member stands for a claim, unless an edit crossed the import; of those
\* the import has come to it has left out none that stands.
MembersInv ==
    /\ \A m \in library.members : m \in crossed \/ Represented(m, library.claims)
    /\ \A m \in staged.members : m \in crossed \/ Represented(m, library.claims \cup staged.claims)
    /\ \A m \in awaited : m \in doomed \/ m \in crossed
    /\ \A m \in doomed : editing = {m.claim}
    /\ importer # NoModel =>
           \A m \in bundle.members \ (toPut \cup awaited) :
               Represented(m, library.claims \cup staged.claims)
                   => m \in library.members \cup staged.members

BundleInv == BundleTypeOK /\ LibraryInv /\ ExportInv /\ ImportInv /\ MembersInv

LEMMA TheTables ==
    /\ Len(Tables) = 4
    /\ Tables[1] = "files" /\ Tables[2] = "topics" /\ Tables[3] = "claims" /\ Tables[4] = "members"
BY DEF Tables

LEMMA InitBundle == BundleInit => BundleInv
<1> SUFFICES ASSUME BundleInit PROVE BundleInv
  OBVIOUS
<1> USE DEF BundleInit
<1>1. BundleTypeOK
  BY TheTables DEF BundleTypeOK, LibraryRows, BundleRows, Empty, NoBundle, NoModel
<1>2. InOrder(Empty) /\ IdsUsed(Empty)
  BY DEF InOrder, RefersWell, OneRowEach, IdsUsed, Empty
<1>3. LibraryInv
  BY <1>2 DEF LibraryInv, Empty
<1>4. PartOf(NoBundle, Empty) /\ ~ NoBundle.complete
  BY DEF PartOf, NoBundle, Empty
<1>5. ExportInv
  BY <1>2, <1>4 DEF ExportInv
<1>6. ImportInv /\ MembersInv
  BY DEF ImportInv, StagedIsNew, TablesDone, MembersInv, Empty
<1> QED BY <1>1, <1>3, <1>5, <1>6 DEF BundleInv

LEMMA FittedRows ==
    ASSUME NEW c \in ClaimRow, NEW m
    PROVE  /\ Fitted(c, m) \in ClaimRow
           /\ Fitted(c, m).id = c.id /\ Fitted(c, m).file = c.file
           /\ Fitted(c, m).vector \in {NoModel, m}
           /\ Fitted(c, m).topic \in {NoModel, c.topic}
BY DEF Fitted, ClaimRow

\* A step of the library in use leaves the export and its bundle alone.
LEMMA ExportKept ==
    ASSUME BundleInv, UNCHANGED <<snapshot, reader, bundle, origin>>, used \subseteq used'
    PROVE  ExportInv'
<1>1. ExportInv
  BY DEF BundleInv
<1>2. InOrder(snapshot)' /\ IdsUsed(snapshot)' /\ PartOf(bundle, snapshot)'
      /\ (SameRows(bundle, snapshot) => SameRows(bundle, snapshot)')
  BY <1>1 DEF ExportInv, InOrder, RefersWell, OneRowEach, IdsUsed, PartOf, SameRows
<1> QED BY <1>1, <1>2 DEF ExportInv

\* The ids of an import's rows were given out before.
LEMMA StagedIdsUsed ==
    ASSUME BundleInv
    PROVE  (\A f \in staged.files : f.id \in used) /\ (\A d \in staged.claims : d.id \in used)
<1>1. /\ bundle \in BundleRows /\ PartOf(bundle, snapshot) /\ IdsUsed(snapshot) /\ StagedIsNew
  BY DEF BundleInv, BundleTypeOK, ExportInv, ImportInv
<1>2. \A c \in bundle.claims : Fitted(c, importer).id = c.id
  BY <1>1, FittedRows DEF BundleRows
<1> QED BY <1>1, <1>2 DEF PartOf, IdsUsed, StagedIsNew

LEMMA StoreFileBundle ==
    ASSUME BundleInv, NEW text \in Text, StoreFile(text)
    PROVE  BundleInv'
<1> DEFINE f == NewId(FileId)
           c == NewId(ClaimId)
           file  == [id |-> f, text |-> text]
           claim == [id |-> c, file |-> f, revision |-> 0, vector |-> NoModel, topic |-> NoModel]
<1>1. f \in FileId \ used /\ c \in ClaimId \ used
  BY DEF StoreFile, IdsLeft, NewId
<1>2. /\ \A g \in library.files \cup staged.files : g.text # text
      /\ library' = [library EXCEPT !.files = @ \cup {file}, !.claims = @ \cup {claim}]
      /\ used' = used \cup {f, c} /\ blank' = FALSE
      /\ UNCHANGED <<modelInUse, export, import, edits>>
  BY DEF StoreFile
<1>3. library \in LibraryRows /\ used \subseteq FileId \cup ClaimId \cup TopicId
  BY DEF BundleInv, BundleTypeOK
<1>4. file \in FileRow /\ file.id = f /\ file.text = text
  BY <1>1 DEF FileRow
<1>5. claim \in ClaimRow /\ claim.id = c /\ claim.file = f /\ claim.vector = NoModel
      /\ claim.topic = NoModel
  BY <1>1 DEF ClaimRow
<1> HIDE DEF f, c, file, claim
<1>6. /\ library'.files = library.files \cup {file} /\ library'.claims = library.claims \cup {claim}
      /\ library'.topics = library.topics /\ library'.members = library.members
      /\ library' \in LibraryRows
  BY <1>2, <1>3, <1>4, <1>5 DEF LibraryRows
<1>7. BundleTypeOK'
  BY <1>1, <1>2, <1>3, <1>6 DEF BundleInv, BundleTypeOK, export, import, edits
<1>8. LibraryInv /\ ImportInv /\ MembersInv
  BY DEF BundleInv
<1>9. RefersWell(library')
  BY <1>4, <1>5, <1>6, <1>8 DEF LibraryInv, InOrder, RefersWell
<1>10. OneRowEach(library')
  BY <1>1, <1>2, <1>4, <1>5, <1>6, <1>8 DEF LibraryInv, InOrder, OneRowEach, IdsUsed
<1>11. IdsUsed(library)'
  BY <1>2, <1>4, <1>5, <1>6, <1>8 DEF LibraryInv, IdsUsed
<1>12. LibraryInv'
  BY <1>2, <1>5, <1>6, <1>8, <1>9, <1>10, <1>11 DEF LibraryInv, InOrder
<1>13. StagedIsNew'
  <2>1. \A g \in staged.files : g.id # file.id /\ g.text # file.text
    BY <1>1, <1>2, <1>4, StagedIdsUsed
  <2>2. \A d \in staged.claims : d.id # claim.id
    BY <1>1, <1>5, StagedIdsUsed
  <2>3. StagedIsNew
    BY <1>8 DEF ImportInv
  <2> QED BY <1>2, <1>6, <2>1, <2>2, <2>3 DEF StagedIsNew, export, import
<1>14. TablesDone'
  BY <1>2, <1>6, <1>8 DEF ImportInv, TablesDone, export, import
<1>15. ImportInv'
  BY <1>2, <1>8, <1>13, <1>14 DEF ImportInv, export, import
<1>16. MembersInv'
  <2>1. \A m \in bundle.members : m.topic # claim.topic
    BY <1>5, NoModelAssumption DEF BundleInv, BundleTypeOK, BundleRows, MemberRow
  <2> QED BY <1>2, <1>6, <1>8, <2>1 DEF MembersInv, Represented, export, import, edits
<1>17. used \subseteq used' /\ UNCHANGED <<snapshot, reader, bundle, origin>>
  BY <1>2 DEF export
<1> QED BY <1>7, <1>12, <1>15, <1>16, <1>17, ExportKept DEF BundleInv

\* A claim changes but for its id and file.
LEMMA ClaimBundle ==
    ASSUME BundleInv, NEW c \in library.claims, NEW new \in ClaimRow, NEW more \in SUBSET TopicId,
           new.id = c.id, new.file = c.file, new.vector \in {NoModel, modelInUse},
           new.topic # NoModel => new.topic \in library.topics \cup more,
           library' \in LibraryRows, library'.files = library.files,
           library'.topics = library.topics \cup more,
           library'.claims = (library.claims \ {c}) \cup {new},
           library'.members \subseteq library.members \cup [topic : more, claim : {c.id}],
           used' = used \cup more, blank' => blank,
           editing' \subseteq ClaimId, doomed' \subseteq MemberRow, crossed' \subseteq MemberRow,
           UNCHANGED <<modelInUse, export, import>>, MembersInv'
    PROVE  BundleInv'
<1>1. BundleTypeOK'
  BY DEF BundleInv, BundleTypeOK, export, import
<1>2. LibraryInv /\ library \in LibraryRows /\ ImportInv
  BY DEF BundleInv, BundleTypeOK
<1>3. RefersWell(library')
  <2>1. \A d \in library'.claims : \E f \in library'.files : f.id = d.file
    BY <1>2 DEF LibraryInv, InOrder, RefersWell
  <2>2. \A d \in library'.claims : d.topic # NoModel => d.topic \in library'.topics
    BY <1>2 DEF LibraryInv, InOrder, RefersWell
  <2>3. \A m \in library'.members : m.topic \in library'.topics
    BY <1>2 DEF LibraryInv, InOrder, RefersWell
  <2> QED BY <2>1, <2>2, <2>3 DEF RefersWell
<1>4. OneRowEach(library')
  BY <1>2 DEF LibraryInv, InOrder, OneRowEach
<1>5. IdsUsed(library)'
  BY <1>2 DEF LibraryInv, IdsUsed
<1>6. \A d \in library'.claims : d.vector \in {NoModel, modelInUse}
  BY <1>2 DEF LibraryInv
<1>7. ~ blank'
  BY <1>2 DEF LibraryInv, Empty
<1>8. LibraryInv'
  BY <1>3, <1>4, <1>5, <1>6, <1>7 DEF LibraryInv, InOrder
<1>9. StagedIsNew'
  BY <1>2 DEF ImportInv, StagedIsNew, export, import
<1>10. TablesDone'
  <2>1. \A d \in library.claims : \E e \in library'.claims : e.id = d.id
    OBVIOUS
  <2> QED BY <1>2, <2>1 DEF ImportInv, TablesDone, export, import
<1>11. ImportInv'
  BY <1>2, <1>9, <1>10 DEF ImportInv, export, import
<1>12. used \subseteq used' /\ UNCHANGED <<snapshot, reader, bundle, origin>>
  BY DEF export
<1> QED BY <1>1, <1>8, <1>11, <1>12, ExportKept DEF BundleInv

LEMMA BeginEditBundle ==
    ASSUME BundleInv, NEW c \in library.claims, BeginEdit(c)
    PROVE  BundleInv'
<1>1. /\ UNCHANGED <<library, modelInUse, used, export, import, crossed, blank>>
      /\ editing' = {c.id} /\ doomed' = {m \in library.members : m.claim = c.id} /\ editing = {}
  BY DEF BeginEdit
<1>2. BundleTypeOK'
  BY <1>1 DEF BundleInv, BundleTypeOK, LibraryRows, ClaimRow, export, import
<1>3. LibraryInv' /\ ImportInv'
  BY <1>1 DEF BundleInv, LibraryInv, IdsUsed, ImportInv, StagedIsNew, TablesDone, export, import
<1>4. MembersInv'
  <2>1. MembersInv /\ \A m \in awaited : m \in crossed
    BY <1>1 DEF BundleInv, MembersInv
  <2> QED BY <1>1, <2>1 DEF MembersInv, export, import
<1>5. UNCHANGED <<snapshot, reader, bundle, origin, used>>
  BY <1>1 DEF export
<1> QED BY <1>2, <1>3, <1>4, <1>5, ExportKept DEF BundleInv


LEMMA CommitEditBundle ==
    ASSUME BundleInv, NEW c \in library.claims, CommitEdit(c)
    PROVE  BundleInv'
<1> DEFINE new == [c EXCEPT !.revision = @ + 1, !.vector = NoModel, !.topic = NoModel]
           mine == {m \in staged.members \cup awaited \cup (library.members \ doomed) :
                        m.claim = c.id}
<1>1. /\ library \in LibraryRows /\ c \in ClaimRow /\ LibraryInv /\ ImportInv /\ MembersInv
      /\ doomed \subseteq MemberRow /\ crossed \subseteq MemberRow
      /\ staged \in LibraryRows /\ awaited \subseteq MemberRow /\ bundle.members \subseteq MemberRow
  BY DEF BundleInv, BundleTypeOK, LibraryRows, BundleRows
<1>2. /\ editing' = {} /\ doomed' = {} /\ crossed' = crossed \cup mine /\ blank' = FALSE
      /\ library' = [library EXCEPT !.claims = (@ \ {c}) \cup {new}, !.members = @ \ doomed]
      /\ UNCHANGED <<modelInUse, used, export, import>>
  BY DEF CommitEdit
<1>3. new \in ClaimRow /\ new.id = c.id /\ new.file = c.file /\ new.vector = NoModel
      /\ new.topic = NoModel
  <2>1. PICK n \in Nat : n = c.revision + 1
    BY <1>1 DEF ClaimRow
  <2> QED BY <1>1, <2>1 DEF ClaimRow
<1>4. mine \subseteq MemberRow
  BY <1>1 DEF LibraryRows
<1>5. \A m \in staged.members \cup awaited \cup (library.members \ doomed) :
          m.claim = c.id => m \in crossed'
  BY <1>2
<1> HIDE DEF new, mine
<1>6. /\ library' \in LibraryRows /\ library'.files = library.files
      /\ library'.topics = library.topics
      /\ library'.claims = (library.claims \ {c}) \cup {new}
      /\ library'.members = library.members \ doomed
  BY <1>1, <1>2, <1>3 DEF LibraryRows
<1>7. MembersInv'
  <2>1. ASSUME NEW m \in library'.members
        PROVE  m \in crossed' \/ Represented(m, library'.claims)
    <3>1. CASE m.claim = c.id
      BY <1>5, <1>6, <3>1
    <3>2. CASE m.claim # c.id
      <4>1. m \in crossed \/ Represented(m, library.claims)
        BY <1>1, <1>6 DEF MembersInv
      <4> QED BY <1>2, <1>3, <1>6, <3>2, <4>1 DEF Represented
    <3> QED BY <3>1, <3>2
  <2>2. ASSUME NEW m \in staged.members
        PROVE  m \in crossed' \/ Represented(m, library'.claims \cup staged.claims)
    <3>1. CASE m.claim = c.id
      BY <1>5, <3>1
    <3>2. CASE m.claim # c.id
      <4>1. m \in crossed \/ Represented(m, library.claims \cup staged.claims)
        BY <1>1 DEF MembersInv
      <4> QED BY <1>2, <1>3, <1>6, <3>2, <4>1 DEF Represented
    <3> QED BY <3>1, <3>2
  <2>3. \A m \in awaited : m \in crossed'
    <3>1. \A m \in doomed : m.claim = c.id
      BY <1>1 DEF CommitEdit, MembersInv
    <3> QED BY <1>1, <1>2, <1>5, <3>1 DEF MembersInv
  <2>4. ASSUME importer # NoModel, NEW m \in bundle.members \ (toPut \cup awaited),
               Represented(m, library'.claims \cup staged.claims)
        PROVE  m \in library'.members \cup staged.members
    <3>1. PICK e \in library'.claims \cup staged.claims : e.id = m.claim /\ e.topic = m.topic
      BY <2>4 DEF Represented
    <3>2. m.topic # NoModel
      BY <1>1, NoModelAssumption DEF MemberRow
    <3>3. e \in (library.claims \ {c}) \cup staged.claims
      BY <1>3, <1>6, <3>1, <3>2
    <3>4. m \in library.members \cup staged.members
      BY <1>1, <2>4, <3>1, <3>3 DEF MembersInv, Represented
    <3>5. e.id # c.id
      BY <1>1, <3>3 DEF LibraryInv, InOrder, OneRowEach, ImportInv, StagedIsNew
    <3>6. m \notin doomed
      BY <1>1, <3>1, <3>5 DEF CommitEdit, MembersInv
    <3> QED BY <1>6, <3>4, <3>6
  <2> QED BY <1>2, <2>1, <2>2, <2>3, <2>4 DEF MembersInv, export, import
<1>8. {} \in SUBSET TopicId /\ used' = used \cup {} /\ library'.topics = library.topics \cup {}
  BY <1>2, <1>6
<1> QED BY <1>1, <1>2, <1>3, <1>4, <1>6, <1>7, <1>8, ClaimBundle

LEMMA EmbedBundle ==
    ASSUME BundleInv, NEW c \in library.claims, EmbedStatement(c)
    PROVE  BundleInv'
<1> DEFINE new == [c EXCEPT !.vector = modelInUse]
<1>1. /\ library \in LibraryRows /\ c \in ClaimRow /\ LibraryInv /\ MembersInv
      /\ modelInUse \in BundleModel
      /\ editing \subseteq ClaimId /\ doomed \subseteq MemberRow /\ crossed \subseteq MemberRow
  BY DEF BundleInv, BundleTypeOK, LibraryRows
<1>2. /\ library' = [library EXCEPT !.claims = (@ \ {c}) \cup {new}]
      /\ UNCHANGED <<modelInUse, used, export, import, edits, blank>>
  BY DEF EmbedStatement
<1>3. new \in ClaimRow /\ new.id = c.id /\ new.file = c.file /\ new.vector = modelInUse
      /\ new.topic = c.topic
  BY <1>1 DEF ClaimRow
<1> HIDE DEF new
<1>4. /\ library' \in LibraryRows /\ library'.files = library.files
      /\ library'.topics = library.topics /\ library'.members = library.members
      /\ library'.claims = (library.claims \ {c}) \cup {new}
  BY <1>1, <1>2, <1>3 DEF LibraryRows
<1>5. \A m, others : Represented(m, library'.claims \cup others)
                        <=> Represented(m, library.claims \cup others)
  BY <1>3, <1>4 DEF Represented
<1>6. \A m : Represented(m, library'.claims) <=> Represented(m, library.claims)
  BY <1>3, <1>4 DEF Represented
<1>7. MembersInv'
  BY <1>1, <1>2, <1>4, <1>5, <1>6 DEF MembersInv, export, import, edits
<1>8. new.topic # NoModel => new.topic \in library.topics
  BY <1>1, <1>3 DEF LibraryInv, InOrder, RefersWell
<1>9. /\ {} \in SUBSET TopicId /\ used' = used \cup {}
      /\ library'.topics = library.topics \cup {}
  BY <1>2, <1>4
<1>10. /\ editing' = editing /\ doomed' = doomed /\ crossed' = crossed
       /\ blank' = blank /\ UNCHANGED <<modelInUse, export, import>>
  BY <1>2 DEF edits
<1> QED BY <1>1, <1>3, <1>4, <1>7, <1>8, <1>9, <1>10, ClaimBundle

LEMMA GroupBundle ==
    ASSUME BundleInv, NEW c \in library.claims, NEW t \in TopicId, GroupStatement(c, t)
    PROVE  BundleInv'
<1> DEFINE new == [c EXCEPT !.topic = t]
           member == [topic |-> t, claim |-> c.id]
<1>1. /\ library \in LibraryRows /\ c \in ClaimRow /\ LibraryInv /\ MembersInv
      /\ editing \subseteq ClaimId /\ doomed \subseteq MemberRow /\ crossed \subseteq MemberRow
      /\ staged \in LibraryRows /\ bundle.members \subseteq MemberRow
  BY DEF BundleInv, BundleTypeOK, LibraryRows, BundleRows
<1>2. /\ c.topic = NoModel /\ used' = used \cup {t} /\ blank' = FALSE
      /\ library' = [library EXCEPT !.topics = @ \cup {t}, !.claims = (@ \ {c}) \cup {new},
                                   !.members = @ \cup {member}]
      /\ UNCHANGED <<modelInUse, export, import, edits>>
  BY DEF GroupStatement
<1>3. /\ new \in ClaimRow /\ new.id = c.id /\ new.file = c.file /\ new.vector = c.vector
      /\ new.topic = t /\ t # NoModel
      /\ member \in MemberRow /\ member.topic = t /\ member.claim = c.id
  BY <1>1, NoModelAssumption DEF ClaimRow, MemberRow
<1>4. member \in [topic : {t}, claim : {c.id}]
  OBVIOUS
<1>5. \A m \in MemberRow : m.topic = t /\ m.claim = c.id => m = member
  BY DEF MemberRow
<1> HIDE DEF new, member
<1>6. /\ library' \in LibraryRows /\ library'.files = library.files
      /\ library'.topics = library.topics \cup {t}
      /\ library'.claims = (library.claims \ {c}) \cup {new}
      /\ library'.members = library.members \cup {member}
  BY <1>1, <1>2, <1>3 DEF LibraryRows
<1>7. new.vector \in {NoModel, modelInUse}
  BY <1>1, <1>3 DEF LibraryInv
<1>8. \A m \in MemberRow : m.topic # c.topic
  BY <1>2, NoModelAssumption DEF MemberRow
<1>9. MembersInv'
  <2>1. ASSUME NEW m \in library'.members
        PROVE  m \in crossed \/ Represented(m, library'.claims)
    <3>1. CASE m = member
      BY <1>3, <1>6, <3>1 DEF Represented
    <3>2. CASE m # member
      <4>1. m \in MemberRow /\ (m \in crossed \/ Represented(m, library.claims))
        BY <1>1, <1>6, <3>2 DEF MembersInv, LibraryRows
      <4> QED BY <1>3, <1>6, <1>8, <4>1 DEF Represented
    <3> QED BY <3>1, <3>2
  <2>2. ASSUME NEW m \in staged.members
        PROVE  m \in crossed \/ Represented(m, library'.claims \cup staged.claims)
    <3>1. m \in MemberRow /\ (m \in crossed \/ Represented(m, library.claims \cup staged.claims))
      BY <1>1 DEF MembersInv, LibraryRows
    <3> QED BY <1>3, <1>6, <1>8, <3>1 DEF Represented
  <2>3. ASSUME importer # NoModel, NEW m \in bundle.members \ (toPut \cup awaited),
               Represented(m, library'.claims \cup staged.claims)
        PROVE  m \in library'.members \cup staged.members
    <3>1. PICK e \in library'.claims \cup staged.claims : e.id = m.claim /\ e.topic = m.topic
      BY <2>3 DEF Represented
    <3>2. CASE e = new
      BY <1>1, <1>3, <1>5, <1>6, <3>1, <3>2
    <3>3. CASE e # new
      <4>1. m \in library.members \cup staged.members
        BY <1>1, <1>6, <2>3, <3>1, <3>3 DEF MembersInv, Represented
      <4> QED BY <1>6, <4>1
    <3> QED BY <3>2, <3>3
  <2> QED BY <1>1, <1>2, <2>1, <2>2, <2>3 DEF MembersInv, export, import, edits
<1>10. {t} \in SUBSET TopicId
  OBVIOUS
<1>11. /\ editing' = editing /\ doomed' = doomed /\ crossed' = crossed
       /\ blank' => blank /\ UNCHANGED <<modelInUse, export, import>>
  BY <1>2 DEF edits
<1> QED BY <1>1, <1>2, <1>3, <1>4, <1>6, <1>7, <1>9, <1>10, <1>11, ClaimBundle

\* What a model made goes with it; a new installation has nothing.
LEMMA SwitchBundle ==
    ASSUME BundleInv, NEW m \in BundleModel, SwitchModel(m) \/ Move(m)
    PROVE  BundleInv'
<1>1. library \in LibraryRows /\ LibraryInv /\ ImportInv /\ MembersInv
  BY DEF BundleInv, BundleTypeOK
<1>2. /\ modelInUse' = m /\ importer = NoModel /\ editing = {}
      /\ UNCHANGED <<used, export, import, editing, doomed>>
      /\ crossed' \in {crossed, {}}
  BY DEF SwitchModel, Move, ModelLocked, edits
<1>3. library' \in LibraryRows /\ LibraryInv' /\ library'.members = {}
  <2>1. CASE SwitchModel(m)
    <3> DEFINE bare(c) == [c EXCEPT !.vector = NoModel, !.topic = NoModel]
    <3>1. /\ library' = [library EXCEPT !.claims = {bare(c) : c \in library.claims},
                                       !.topics = {}, !.members = {}]
          /\ blank' = blank /\ crossed' = crossed
      BY <2>1 DEF SwitchModel, edits
    <3>2. \A c \in library.claims : /\ bare(c) \in ClaimRow /\ bare(c).id = c.id
                                    /\ bare(c).file = c.file /\ bare(c).vector = NoModel
                                    /\ bare(c).topic = NoModel
      BY <1>1 DEF LibraryRows, ClaimRow
    <3> HIDE DEF bare
    <3>3. /\ library'.files = library.files /\ library'.topics = {} /\ library'.members = {}
          /\ library'.claims = {bare(c) : c \in library.claims} /\ library' \in LibraryRows
      BY <1>1, <3>1, <3>2 DEF LibraryRows
    <3>4. RefersWell(library')
      BY <1>1, <3>2, <3>3 DEF LibraryInv, InOrder, RefersWell
    <3>5. OneRowEach(library') /\ IdsUsed(library)'
      BY <1>1, <1>2, <3>2, <3>3 DEF LibraryInv, InOrder, OneRowEach, IdsUsed
    <3>6. \A c \in library'.claims : c.vector \in {NoModel, m}
      BY <3>2, <3>3
    <3>7. blank' => library' = Empty /\ crossed' = {}
      <4> SUFFICES ASSUME blank' PROVE library' = Empty /\ crossed' = {}
        OBVIOUS
      <4>1. library.files = {} /\ library.claims = {} /\ crossed' = {}
        BY <1>1, <3>1 DEF LibraryInv, Empty
      <4>2. library'.files = {} /\ library'.claims = {}
        BY <3>3, <4>1
      <4> QED BY <3>3, <4>1, <4>2 DEF LibraryRows, Empty
    <3> QED BY <1>2, <3>3, <3>4, <3>5, <3>6, <3>7 DEF LibraryInv, InOrder
  <2>2. CASE Move(m)
    <3>1. library' = Empty /\ Empty \in LibraryRows /\ crossed' = {}
      BY <2>2 DEF Move, Empty, LibraryRows
    <3>2. LibraryInv'
      BY <3>1 DEF LibraryInv, InOrder, RefersWell, OneRowEach, IdsUsed, Empty
    <3> QED BY <3>1, <3>2 DEF Empty
  <2> QED BY <2>1, <2>2
<1>4. BundleTypeOK'
  BY <1>2, <1>3 DEF BundleInv, BundleTypeOK, ImportInv, export, import
<1>5. staged = Empty /\ toPut = {} /\ awaited = {} /\ writer = 0
  BY <1>1, <1>2 DEF ImportInv
<1>6. ImportInv' /\ MembersInv'
  BY <1>1, <1>2, <1>3, <1>5
     DEF ImportInv, StagedIsNew, TablesDone, MembersInv, Empty, export, import
<1>7. UNCHANGED <<snapshot, reader, bundle, origin, used>>
  BY <1>2 DEF export
<1> QED BY <1>3, <1>4, <1>6, <1>7, ExportKept DEF BundleInv

-----------------------------------------------------------------------------
(* The export.                                                             *)

LEMMA BeginExportBundle ==
    ASSUME BundleInv, BeginExport
    PROVE  BundleInv'
<1>1. /\ snapshot' = library /\ origin' = library /\ reader' = 1 /\ bundle' = NoBundle
      /\ UNCHANGED <<library, modelInUse, used, import, edits, blank>> /\ importer = NoModel
  BY DEF BeginExport
<1>2. BundleTypeOK /\ LibraryInv /\ ImportInv /\ MembersInv
  BY DEF BundleInv
<1>3. NoBundle \in BundleRows /\ PartOf(NoBundle, library) /\ ~ NoBundle.complete
  BY DEF NoBundle, BundleRows, PartOf
<1>4. staged = Empty /\ toPut = {} /\ awaited = {} /\ writer = 0
  BY <1>1, <1>2 DEF ImportInv
<1>5. BundleTypeOK'
  BY <1>1, <1>2, <1>3, <1>4, TheTables DEF BundleTypeOK, import, edits
<1>6. LibraryInv'
  BY <1>1, <1>2 DEF LibraryInv, IdsUsed, edits
<1>7. InOrder(library) /\ IdsUsed(library)
  BY <1>2 DEF LibraryInv
<1>8. ExportInv'
  BY <1>1, <1>3, <1>7 DEF ExportInv, IdsUsed
<1>9. ImportInv' /\ MembersInv'
  BY <1>1, <1>2, <1>4
     DEF ImportInv, StagedIsNew, TablesDone, MembersInv, Empty, import, edits
<1> QED BY <1>5, <1>6, <1>8, <1>9 DEF BundleInv

\* A table of the snapshot, or the rows of it that were sent.
LEMMA SendBundle ==
    ASSUME BundleInv, SendTable \/ CutExport
    PROVE  BundleInv'
<1>1. /\ UNCHANGED <<library, modelInUse, used, snapshot, import, edits, origin, blank>>
      /\ reader \in 1..4
  <2>1. reader \in 0..4
    BY TheTables DEF BundleInv, BundleTypeOK
  <2>2. CASE SendTable
    BY <2>2, TheTables DEF SendTable
  <2>3. CASE CutExport
    BY <2>1, <2>3 DEF CutExport
  <2> QED BY <2>2, <2>3
<1>2. BundleTypeOK /\ LibraryInv /\ ExportInv /\ ImportInv /\ MembersInv
      /\ importer = NoModel
  BY <1>1 DEF BundleInv, ImportInv
<1>3. snapshot \in LibraryRows /\ bundle \in BundleRows
  BY <1>2 DEF BundleTypeOK
<1>4. bundle' \in BundleRows /\ reader' \in 0..4 /\ ExportInv'
  <2>1. CASE SendTable
    <3> DEFINE last == reader = Len(Tables)
    <3>1. bundle' = [bundle EXCEPT ![Tables[reader]] = snapshot[Tables[reader]], !.complete = last]
      BY <2>1 DEF SendTable, Source
    <3>7. reader' = IF reader = 4 THEN 0 ELSE reader + 1
      BY <2>1, TheTables DEF SendTable
    <3>6. (reader # 4 => last = FALSE) /\ (reader = 4 => last = TRUE)
      BY TheTables
    <3> HIDE DEF last
    <3>2. CASE reader = 1
      <4>1. bundle' = [bundle EXCEPT !.files = snapshot.files, !.complete = FALSE] /\ reader' = 2
        <5>1. reader' = 2
          BY <3>7, <3>2
        <5>2. Tables[reader] = "files" /\ last = FALSE
          BY <3>2, <3>6, TheTables
        <5>3. bundle' = [bundle EXCEPT !["files"] = snapshot["files"], !.complete = FALSE]
          BY <3>1, <5>2
        <5> QED BY <5>1, <5>3
      <4>2. /\ bundle' \in BundleRows /\ bundle'.files = snapshot.files
            /\ bundle'.topics = bundle.topics /\ bundle'.claims = bundle.claims
            /\ bundle'.members = bundle.members /\ bundle'.complete = FALSE
        BY <1>3, <4>1 DEF BundleRows, LibraryRows
      <4> QED BY <1>1, <1>2, <4>1, <4>2 DEF ExportInv, PartOf, IdsUsed
    <3>3. CASE reader = 2
      <4>1. bundle' = [bundle EXCEPT !.topics = snapshot.topics, !.complete = FALSE] /\ reader' = 3
        <5>1. reader' = 3
          BY <3>7, <3>3
        <5>2. Tables[reader] = "topics" /\ last = FALSE
          BY <3>3, <3>6, TheTables
        <5>3. bundle' = [bundle EXCEPT !["topics"] = snapshot["topics"], !.complete = FALSE]
          BY <3>1, <5>2
        <5> QED BY <5>1, <5>3
      <4>2. /\ bundle' \in BundleRows /\ bundle'.files = bundle.files
            /\ bundle'.topics = snapshot.topics /\ bundle'.claims = bundle.claims
            /\ bundle'.members = bundle.members /\ bundle'.complete = FALSE
        BY <1>3, <4>1 DEF BundleRows, LibraryRows
      <4> QED BY <1>1, <1>2, <3>3, <4>1, <4>2 DEF ExportInv, PartOf, IdsUsed
    <3>4. CASE reader = 3
      <4>1. bundle' = [bundle EXCEPT !.claims = snapshot.claims, !.complete = FALSE] /\ reader' = 4
        <5>1. reader' = 4
          BY <3>7, <3>4
        <5>2. Tables[reader] = "claims" /\ last = FALSE
          BY <3>4, <3>6, TheTables
        <5>3. bundle' = [bundle EXCEPT !["claims"] = snapshot["claims"], !.complete = FALSE]
          BY <3>1, <5>2
        <5> QED BY <5>1, <5>3
      <4>2. /\ bundle' \in BundleRows /\ bundle'.files = bundle.files
            /\ bundle'.topics = bundle.topics /\ bundle'.claims = snapshot.claims
            /\ bundle'.members = bundle.members /\ bundle'.complete = FALSE
        BY <1>3, <4>1 DEF BundleRows, LibraryRows
      <4> QED BY <1>1, <1>2, <3>4, <4>1, <4>2 DEF ExportInv, PartOf, IdsUsed
    <3>5. CASE reader = 4
      <4>1. bundle' = [bundle EXCEPT !.members = snapshot.members, !.complete = TRUE] /\ reader' = 0
        BY <3>1, <3>5, <3>6, <3>7, TheTables
      <4>2. /\ bundle' \in BundleRows /\ bundle'.files = bundle.files
            /\ bundle'.topics = bundle.topics /\ bundle'.claims = bundle.claims
            /\ bundle'.members = snapshot.members
        BY <1>3, <4>1 DEF BundleRows, LibraryRows
      <4> QED BY <1>1, <1>2, <3>5, <4>1, <4>2 DEF ExportInv, PartOf, SameRows, IdsUsed
    <3> QED BY <1>1, <3>2, <3>3, <3>4, <3>5
  <2>2. CASE CutExport
    <3>1. PICK part \in SUBSET snapshot[Tables[reader]] :
               bundle' = [bundle EXCEPT ![Tables[reader]] = part] /\ reader' = 0
      BY <2>2 DEF CutExport, Source
    <3>2. ~ bundle.complete
      BY <1>1, <1>2 DEF ExportInv
    <3>3. bundle' \in BundleRows /\ PartOf(bundle', snapshot) /\ ~ bundle'.complete
      <4>1. CASE reader = 1
        BY <1>2, <1>3, <3>1, <3>2, <4>1, TheTables DEF BundleRows, LibraryRows, ExportInv, PartOf
      <4>2. CASE reader = 2
        BY <1>2, <1>3, <3>1, <3>2, <4>2, TheTables DEF BundleRows, LibraryRows, ExportInv, PartOf
      <4>3. CASE reader = 3
        BY <1>2, <1>3, <3>1, <3>2, <4>3, TheTables DEF BundleRows, LibraryRows, ExportInv, PartOf
      <4>4. CASE reader = 4
        BY <1>2, <1>3, <3>1, <3>2, <4>4, TheTables DEF BundleRows, LibraryRows, ExportInv, PartOf
      <4> QED BY <1>1, <4>1, <4>2, <4>3, <4>4
    <3> QED BY <1>1, <1>2, <3>1, <3>3 DEF ExportInv, IdsUsed
  <2> QED BY <2>1, <2>2
<1>5. BundleTypeOK'
  BY <1>1, <1>2, <1>4, TheTables DEF BundleTypeOK, ImportInv, import, edits
<1>6. LibraryInv'
  BY <1>1, <1>2 DEF LibraryInv, IdsUsed, edits
<1>7. ImportInv' /\ MembersInv'
  BY <1>1, <1>2, <1>4 DEF ImportInv, StagedIsNew, TablesDone, MembersInv, Empty, import, edits
<1> QED BY <1>4, <1>5, <1>6, <1>7 DEF BundleInv

-----------------------------------------------------------------------------
(* The import.                                                             *)

\* Tables after an import, those before it in them.
LEMMA AppliedRows ==
    ASSUME NEW lib \in LibraryRows, NEW b \in BundleRows, NEW m
    PROVE  LET result == Applied(lib, b, m)
           IN  /\ result \in LibraryRows
               /\ result.files = lib.files \cup
                      {f \in b.files : \A g \in lib.files : g.id # f.id /\ g.text # f.text}
               /\ result.claims = lib.claims \cup
                      {d \in {Fitted(c, m) : c \in b.claims} : \A c \in lib.claims : c.id # d.id}
               /\ result.topics = lib.topics \cup b.topics
               /\ result.members = lib.members \cup
                      {n \in b.members : Represented(n, result.claims)}
<1> DEFINE files   == {f \in b.files : \A g \in lib.files : g.id # f.id => g.text # f.text}
           fitted  == {Fitted(c, m) : c \in b.claims}
           claims  == Kept(lib.claims, fitted)
           members == lib.members \cup {n \in b.members : Represented(n, claims)}
<1>1. Applied(lib, b, m) = [files |-> Kept(lib.files, files), topics |-> lib.topics \cup b.topics,
                            claims |-> claims, members |-> members]
  BY DEF Applied
<1>2. Kept(lib.files, files) = lib.files \cup
          {f \in b.files : \A g \in lib.files : g.id # f.id /\ g.text # f.text}
  BY DEF Kept
<1>3. claims = lib.claims \cup {d \in fitted : \A c \in lib.claims : c.id # d.id}
  BY DEF Kept
<1>4. fitted \subseteq ClaimRow
  BY FittedRows DEF BundleRows
<1> HIDE DEF fitted
<1>5. Kept(lib.files, files) \subseteq FileRow /\ claims \subseteq ClaimRow
  BY <1>2, <1>3, <1>4 DEF LibraryRows, BundleRows
<1>6. members \subseteq MemberRow /\ lib.topics \cup b.topics \subseteq TopicId
  BY DEF LibraryRows, BundleRows
<1> HIDE DEF files, claims, members
<1>7. Applied(lib, b, m) \in LibraryRows
  BY <1>1, <1>5, <1>6 DEF LibraryRows
<1> QED BY <1>1, <1>2, <1>3, <1>7 DEF fitted, members

LEMMA BeginImportBundle ==
    ASSUME BundleInv, BeginImport
    PROVE  BundleInv'
<1>1. /\ reader = 0 /\ importer = NoModel /\ importer' = modelInUse /\ writer' = 1
      /\ toPut' = bundle.members
      /\ UNCHANGED <<library, modelInUse, used, export, staged, awaited, edits, blank>>
  BY DEF BeginImport
<1>2. BundleTypeOK /\ LibraryInv /\ ImportInv /\ MembersInv
  BY DEF BundleInv
<1>3. staged = Empty /\ awaited = {} /\ modelInUse # NoModel
  BY <1>1, <1>2, NoModelAssumption DEF ImportInv, BundleTypeOK
<1>4. BundleTypeOK'
  BY <1>1, <1>2, <1>3, TheTables DEF BundleTypeOK, export, edits
<1>5. LibraryInv'
  BY <1>1, <1>2 DEF LibraryInv, IdsUsed, edits
<1>6. ImportInv' /\ MembersInv'
  BY <1>1, <1>2, <1>3
     DEF ImportInv, StagedIsNew, TablesDone, MembersInv, Empty, export, edits
<1>7. UNCHANGED <<snapshot, reader, bundle, origin, used>>
  BY <1>1 DEF export
<1> QED BY <1>4, <1>5, <1>6, <1>7, ExportKept DEF BundleInv

LEMMA StageBundle ==
    ASSUME BundleInv, StageTable
    PROVE  BundleInv'
<1> DEFINE applied == Applied(library, bundle, importer)
           fitted  == {Fitted(c, importer) : c \in bundle.claims}
<1>1. /\ writer \in 1..3 /\ writer' = writer + 1
      /\ staged' = [staged EXCEPT ![Tables[writer]] =
                        applied[Tables[writer]] \ library[Tables[writer]]]
      /\ UNCHANGED <<library, modelInUse, used, export, importer, toPut, awaited, edits, blank>>
  BY DEF StageTable
<1>2. /\ BundleTypeOK /\ LibraryInv /\ ImportInv /\ MembersInv
      /\ library \in LibraryRows /\ bundle \in BundleRows /\ staged \in LibraryRows
  BY DEF BundleInv, BundleTypeOK
<1>3. /\ applied \in LibraryRows
      /\ applied.files = library.files \cup
             {f \in bundle.files : \A g \in library.files : g.id # f.id /\ g.text # f.text}
      /\ applied.claims = library.claims \cup
             {d \in fitted : \A c \in library.claims : c.id # d.id}
      /\ applied.topics = library.topics \cup bundle.topics
  BY <1>2, AppliedRows
<1>4. \A d \in fitted : \E c \in bundle.claims : d = Fitted(c, importer)
  OBVIOUS
<1>5. \A c \in bundle.claims : Fitted(c, importer) \in fitted /\ Fitted(c, importer).id = c.id
  BY <1>2, FittedRows DEF BundleRows
<1> HIDE DEF applied, fitted
<1>6. /\ staged' \in LibraryRows /\ StagedIsNew' /\ TablesDone' /\ staged'.members = staged.members
  <2>1. CASE writer = 1
    <3>1. staged' = [staged EXCEPT !.files = applied.files \ library.files] /\ writer' = 2
      <4>1. Tables[writer] = "files" /\ writer' = 2
        BY <1>1, <2>1, TheTables
      <4>2. staged' = [staged EXCEPT !["files"] = applied["files"] \ library["files"]]
        BY <1>1, <4>1
      <4> QED BY <4>1, <4>2
    <3>2. /\ staged' \in LibraryRows /\ staged'.files = applied.files \ library.files
          /\ staged'.topics = staged.topics /\ staged'.claims = staged.claims
          /\ staged'.members = staged.members
      BY <1>2, <1>3, <3>1 DEF LibraryRows
    <3> QED BY <1>1, <1>2, <1>3, <3>1, <3>2 DEF ImportInv, StagedIsNew, TablesDone, export
  <2>2. CASE writer = 2
    <3>1. staged' = [staged EXCEPT !.topics = applied.topics \ library.topics] /\ writer' = 3
      <4>1. Tables[writer] = "topics" /\ writer' = 3
        BY <1>1, <2>2, TheTables
      <4>2. staged' = [staged EXCEPT !["topics"] = applied["topics"] \ library["topics"]]
        BY <1>1, <4>1
      <4> QED BY <4>1, <4>2
    <3>2. /\ staged' \in LibraryRows /\ staged'.topics = applied.topics \ library.topics
          /\ staged'.files = staged.files /\ staged'.claims = staged.claims
          /\ staged'.members = staged.members
      BY <1>2, <1>3, <3>1 DEF LibraryRows
    <3> QED BY <1>1, <1>2, <1>3, <2>2, <3>1, <3>2 DEF ImportInv, StagedIsNew, TablesDone, export
  <2>3. CASE writer = 3
    <3>1. staged' = [staged EXCEPT !.claims = applied.claims \ library.claims] /\ writer' = 4
      <4>1. Tables[writer] = "claims" /\ writer' = 4
        BY <1>1, <2>3, TheTables
      <4>2. staged' = [staged EXCEPT !["claims"] = applied["claims"] \ library["claims"]]
        BY <1>1, <4>1
      <4> QED BY <4>1, <4>2
    <3>2. /\ staged' \in LibraryRows /\ staged'.claims = applied.claims \ library.claims
          /\ staged'.files = staged.files /\ staged'.topics = staged.topics
          /\ staged'.members = staged.members
      BY <1>2, <1>3, <3>1 DEF LibraryRows
    <3>3. /\ \A d \in staged'.claims : /\ \E c \in bundle.claims : d = Fitted(c, importer)
                                       /\ \A c \in library.claims : c.id # d.id
          /\ \A c \in bundle.claims : \E d \in library.claims \cup staged'.claims : d.id = c.id
      BY <1>3, <1>4, <1>5, <3>2
    <3> QED BY <1>1, <1>2, <2>3, <3>1, <3>2, <3>3
            DEF ImportInv, StagedIsNew, TablesDone, export
  <2> QED BY <1>1, <2>1, <2>2, <2>3
<1>7. /\ toPut = bundle.members /\ awaited = {} /\ staged.members = {}
      /\ importer # NoModel /\ reader = 0
  BY <1>1, <1>2 DEF ImportInv
<1>8. BundleTypeOK'
  BY <1>1, <1>2, <1>6, TheTables DEF BundleTypeOK, export, edits
<1>9. LibraryInv'
  BY <1>1, <1>2 DEF LibraryInv, IdsUsed, edits
<1>10. ImportInv'
  BY <1>1, <1>2, <1>6, <1>7 DEF ImportInv, export
<1>11. MembersInv'
  BY <1>1, <1>2, <1>6, <1>7 DEF MembersInv, Represented, export, edits
<1>12. UNCHANGED <<snapshot, reader, bundle, origin, used>>
  BY <1>1 DEF export
<1> QED BY <1>8, <1>9, <1>10, <1>11, <1>12, ExportKept DEF BundleInv

LEMMA PutBundle ==
    ASSUME BundleInv, NEW m \in bundle.members, PutMember(m) \/ PutAwaited(m)
    PROVE  BundleInv'
<1>1. /\ BundleTypeOK /\ LibraryInv /\ ImportInv /\ MembersInv
      /\ staged \in LibraryRows /\ m \in MemberRow /\ toPut \cup awaited \subseteq bundle.members
  BY DEF BundleInv, BundleTypeOK, BundleRows
<1>2. /\ UNCHANGED <<library, modelInUse, used, export, importer, writer, edits, blank>>
      /\ toPut' \subseteq toPut /\ awaited' \subseteq {m}
      /\ staged' \in {staged, [staged EXCEPT !.members = @ \cup {m}]}
  BY DEF PutMember, PutAwaited
<1>3. /\ staged' \in LibraryRows /\ staged'.files = staged.files
      /\ staged'.topics = staged.topics /\ staged'.claims = staged.claims
      /\ staged'.members \in {staged.members, staged.members \cup {m}}
  BY <1>1, <1>2 DEF LibraryRows
<1>4. BundleTypeOK'
  BY <1>1, <1>2, <1>3 DEF BundleTypeOK, export, edits
<1>5. LibraryInv'
  BY <1>1, <1>2 DEF LibraryInv, IdsUsed, edits
<1>6. writer = 4 /\ importer # NoModel
  <2>1. CASE PutMember(m)
    BY <1>1, <2>1 DEF PutMember, ImportInv
  <2>2. CASE PutAwaited(m)
    <3>1. awaited # {} /\ writer \in 0..4
      BY <1>1, <2>2, TheTables DEF PutAwaited, BundleTypeOK
    <3> QED BY <1>1, <3>1 DEF ImportInv
  <2> QED BY <2>1, <2>2
<1>7. ImportInv'
  BY <1>1, <1>2, <1>3, <1>6 DEF ImportInv, StagedIsNew, TablesDone, export
<1>8. MembersInv'
  <2> DEFINE stands(n) == Represented(n, library.claims \cup staged.claims)
  <2>1. CASE PutMember(m)
    <3>1. /\ toPut' = toPut \ {m} /\ awaited = {}
          /\ awaited' = (IF stands(m) /\ m \in doomed THEN {m} ELSE {})
          /\ staged'.members = (IF stands(m) /\ m \notin library.members
                                THEN staged.members \cup {m} ELSE staged.members)
      BY <1>1, <2>1 DEF PutMember, LibraryRows
    <3>2. \A n \in staged'.members : n \in crossed \/ stands(n)
      <4>1. \A n \in staged.members : n \in crossed \/ stands(n)
        BY <1>1 DEF MembersInv
      <4> QED BY <3>1, <4>1
    <3>3. \A n \in bundle.members \ (toPut' \cup awaited') :
              stands(n) => n \in library.members \cup staged'.members
      BY <1>1, <1>6, <3>1 DEF MembersInv
    <3>4. \A n \in awaited' : n \in doomed
      BY <3>1
    <3> QED BY <1>1, <1>2, <1>3, <3>2, <3>3, <3>4 DEF MembersInv, export, edits
  <2>2. CASE PutAwaited(m)
    <3>1. /\ toPut' = toPut /\ m \in awaited /\ m \notin doomed /\ awaited' = {}
          /\ staged'.members = (IF m \in library.members THEN staged.members
                                ELSE staged.members \cup {m})
      BY <1>1, <2>2 DEF PutAwaited, LibraryRows
    <3>2. \A n \in staged'.members : n \in crossed \/ stands(n)
      <4>1. \A n \in staged.members : n \in crossed \/ stands(n)
        BY <1>1 DEF MembersInv
      <4>2. m \in crossed
        BY <1>1, <3>1 DEF MembersInv
      <4> QED BY <3>1, <4>1, <4>2
    <3>3. awaited \subseteq {m}
      BY <1>1, <3>1 DEF ImportInv
    <3>4. \A n \in bundle.members \ (toPut' \cup awaited') :
              stands(n) => n \in library.members \cup staged'.members
      BY <1>1, <1>6, <3>1, <3>3 DEF MembersInv
    <3> QED BY <1>1, <1>2, <1>3, <3>1, <3>2, <3>4 DEF MembersInv, export, edits
  <2> QED BY <2>1, <2>2
<1>9. UNCHANGED <<snapshot, reader, bundle, origin, used>>
  BY <1>2 DEF export
<1> QED BY <1>4, <1>5, <1>7, <1>8, <1>9, ExportKept DEF BundleInv

\* What an import that is not refused leaves: rows for ids that had none.
LEMMA EndImportBundle ==
    ASSUME BundleInv, EndImport \/ StopImport
    PROVE  BundleInv'
<1>1. /\ BundleTypeOK /\ LibraryInv /\ ExportInv /\ ImportInv /\ MembersInv
      /\ library \in LibraryRows /\ staged \in LibraryRows /\ bundle \in BundleRows
  BY DEF BundleInv, BundleTypeOK
<1>2. /\ UNCHANGED <<modelInUse, used, export, edits>> /\ importer # NoModel
      /\ importer' = NoModel /\ writer' = 0 /\ staged' = Empty /\ toPut' = {} /\ awaited' = {}
  BY <1>1 DEF EndImport, StopImport, ImportOver, ImportInv
<1>3. library' \in LibraryRows /\ LibraryInv'
      /\ \A m \in library'.members : m \in crossed \/ Represented(m, library'.claims)
  <2>1. CASE UNCHANGED <<library, blank>>
    BY <1>1, <1>2, <2>1 DEF LibraryInv, IdsUsed, MembersInv, edits
  <2>2. CASE ~ UNCHANGED <<library, blank>>
    <3>1. RefersWell(WithStaged) /\ library' = WithStaged /\ blank' = FALSE
      BY <2>2 DEF EndImport, StopImport
    <3>2. /\ library' \in LibraryRows
          /\ library'.files = library.files \cup staged.files
          /\ library'.topics = library.topics \cup staged.topics
          /\ library'.claims = library.claims \cup staged.claims
          /\ library'.members = library.members \cup staged.members
      BY <1>1, <3>1 DEF WithStaged, LibraryRows
    <3>3. /\ OneRowEach(library) /\ IdsUsed(library) /\ OneRowEach(snapshot)
          /\ PartOf(bundle, snapshot) /\ StagedIsNew /\ importer = modelInUse
      BY <1>1, <1>2 DEF LibraryInv, ExportInv, InOrder, ImportInv, BundleTypeOK
    <3>4. \A c \in bundle.claims : /\ Fitted(c, importer).id = c.id
                                   /\ Fitted(c, importer).vector \in {NoModel, importer}
      BY <1>1, FittedRows DEF BundleRows
    <3>5. OneRowEach(library')
      <4>1. ASSUME NEW f \in library'.files, NEW g \in library'.files,
                   f.id = g.id \/ f.text = g.text
            PROVE  f = g
        BY <3>2, <3>3, <4>1 DEF OneRowEach, PartOf, StagedIsNew
      <4>2. ASSUME NEW c \in staged.claims, NEW d \in staged.claims, c.id = d.id
            PROVE  c = d
        BY <3>3, <3>4, <4>2 DEF OneRowEach, PartOf, StagedIsNew
      <4>3. ASSUME NEW c \in library'.claims, NEW d \in library'.claims, c.id = d.id
            PROVE  c = d
        BY <3>2, <3>3, <4>2, <4>3 DEF OneRowEach, StagedIsNew
      <4> QED BY <4>1, <4>3 DEF OneRowEach
    <3>6. IdsUsed(library)'
      BY <1>2, <3>2, <3>3, StagedIdsUsed DEF IdsUsed
    <3>7. \A c \in library'.claims : c.vector \in {NoModel, modelInUse}
      BY <1>1, <3>2, <3>3, <3>4 DEF LibraryInv, StagedIsNew
    <3>8. LibraryInv'
      BY <1>2, <3>1, <3>5, <3>6, <3>7 DEF LibraryInv, InOrder
    <3>9. \A m \in library'.members : m \in crossed \/ Represented(m, library'.claims)
      BY <1>1, <3>2 DEF MembersInv, Represented
    <3> QED BY <3>2, <3>8, <3>9
  <2> QED BY <2>1, <2>2
<1>4. BundleTypeOK'
  BY <1>1, <1>2, <1>3, TheTables DEF BundleTypeOK, Empty, LibraryRows, export, edits
<1>5. ImportInv' /\ MembersInv'
  BY <1>1, <1>2, <1>3
     DEF ImportInv, StagedIsNew, TablesDone, MembersInv, Empty, export, edits
<1>6. UNCHANGED <<snapshot, reader, bundle, origin, used>>
  BY <1>2 DEF export
<1> QED BY <1>3, <1>4, <1>5, <1>6, ExportKept DEF BundleInv

LEMMA BundleStep == BundleInv /\ [BundleNext]_bundleVars => BundleInv'
<1> SUFFICES ASSUME BundleInv, [BundleNext]_bundleVars PROVE BundleInv'
  OBVIOUS
<1>1. ASSUME NEW text \in Text, StoreFile(text) PROVE BundleInv'
  BY <1>1, StoreFileBundle
<1>2. ASSUME NEW c \in library.claims, BeginEdit(c) \/ CommitEdit(c) \/ EmbedStatement(c)
      PROVE  BundleInv'
  BY <1>2, BeginEditBundle, CommitEditBundle, EmbedBundle
<1>3. ASSUME NEW c \in library.claims, NEW t \in TopicId, GroupStatement(c, t) PROVE BundleInv'
  BY <1>3, GroupBundle
<1>4. ASSUME NEW m \in BundleModel, SwitchModel(m) \/ Move(m) PROVE BundleInv'
  BY <1>4, SwitchBundle
<1>5. CASE BeginExport
  BY <1>5, BeginExportBundle
<1>6. CASE SendTable \/ CutExport
  BY <1>6, SendBundle
<1>7. CASE BeginImport \/ StageTable
  BY <1>7, BeginImportBundle, StageBundle
<1>8. ASSUME NEW m \in bundle.members, PutMember(m) \/ PutAwaited(m) PROVE BundleInv'
  BY <1>8, PutBundle
<1>9. CASE EndImport \/ StopImport
  BY <1>9, EndImportBundle
<1>10. CASE UNCHANGED bundleVars
  <2>1. /\ BundleTypeOK /\ LibraryInv /\ ImportInv /\ MembersInv
        /\ UNCHANGED <<library, modelInUse, used, export, import, edits, blank>>
    BY <1>10 DEF BundleInv, bundleVars, export, import, edits
  <2>2. BundleTypeOK'
    BY <2>1 DEF BundleTypeOK, export, import, edits
  <2>3. LibraryInv'
    BY <2>1 DEF LibraryInv, IdsUsed, edits
  <2>4. ImportInv'
    BY <2>1 DEF ImportInv, StagedIsNew, TablesDone, export, import
  <2>5. MembersInv'
    BY <2>1 DEF MembersInv, export, import, edits
  <2>6. UNCHANGED <<snapshot, reader, bundle, origin, used>>
    BY <2>1 DEF export
  <2> QED BY <2>2, <2>3, <2>4, <2>5, <2>6, ExportKept DEF BundleInv
<1> QED BY <1>1, <1>2, <1>3, <1>4, <1>5, <1>6, <1>7, <1>8, <1>9, <1>10 DEF BundleNext

\* The library is in order whatever is exported, cut short, moved and
\* imported, and whatever people do meanwhile, between any two rows of an
\* import (import_bundle_file, bundle_stream, edit_unit_core).
THEOREM BundleInOrder == BundleSpec => []BundleIsSound
<1>1. BundleInv => BundleIsSound
  BY DEF BundleInv, LibraryInv, MembersInv, Represented, InOrder, RefersWell, OneRowEach,
         BundleIsSound, LibraryIsSound, ImportedFits
<1> QED BY InitBundle, BundleStep, <1>1, PTL DEF BundleSpec

-----------------------------------------------------------------------------
(* What an import puts in.                                                 *)

\* The steps of RestoredIsExported and ImportKeepsRows.
IsRestored ==
    EndImport /\ blank /\ bundle.complete =>
         /\ library'.files = origin.files
         /\ library'.claims = {Fitted(c, modelInUse) : c \in origin.claims}
         /\ library'.members = {m \in origin.members : \E c \in library'.claims :
                                                          c.id = m.claim /\ c.topic = m.topic}
RowsStay ==
    EndImport => /\ \A table \in {"files", "claims", "topics", "members"} :
                      library[table] \subseteq library'[table]
                 /\ library' # library => Applied(library', bundle, modelInUse) = library'

\* A whole bundle fits into an empty library: its references lead back.
LEMMA WholeIsRestored == BundleInv => IsRestored
<1> SUFFICES ASSUME BundleInv, EndImport, blank, bundle.complete
             PROVE  /\ library'.files = origin.files
                    /\ library'.claims = {Fitted(c, modelInUse) : c \in origin.claims}
                    /\ library'.members = {m \in origin.members : \E c \in library'.claims :
                                                          c.id = m.claim /\ c.topic = m.topic}
  BY DEF IsRestored
<1> DEFINE fitted == {Fitted(c, importer) : c \in bundle.claims}
<1>1. /\ bundle \in BundleRows /\ importer # NoModel /\ importer = modelInUse
      /\ library = Empty /\ crossed = {} /\ writer = 4 /\ toPut = {} /\ awaited = {}
      /\ SameRows(bundle, snapshot) /\ origin = snapshot /\ InOrder(snapshot)
      /\ StagedIsNew /\ TablesDone /\ MembersInv
  BY DEF EndImport, BundleInv, BundleTypeOK, LibraryInv, ExportInv, ImportInv
<1>2. library.files = {} /\ library.claims = {} /\ library.topics = {} /\ library.members = {}
  BY <1>1 DEF Empty
<1>3. \A c \in bundle.claims : /\ Fitted(c, importer) \in fitted /\ Fitted(c, importer).id = c.id
                               /\ Fitted(c, importer).file = c.file
                               /\ Fitted(c, importer).topic \in {NoModel, c.topic}
  BY <1>1, FittedRows DEF BundleRows
<1>4. \A d \in fitted : \E c \in bundle.claims : d = Fitted(c, importer)
  OBVIOUS
<1> HIDE DEF fitted
<1>5. staged.files = bundle.files /\ staged.topics = bundle.topics
  <2>1. bundle.files \subseteq staged.files
    BY <1>1, <1>2 DEF TablesDone, StagedIsNew, InOrder, OneRowEach, SameRows
  <2>2. bundle.topics \subseteq staged.topics
    BY <1>1, <1>2 DEF TablesDone
  <2> QED BY <1>1, <2>1, <2>2 DEF StagedIsNew
<1>6. staged.claims = fitted
  <2>1. staged.claims \subseteq fitted
    BY <1>1, <1>3 DEF StagedIsNew
  <2>2. ASSUME NEW d \in fitted PROVE d \in staged.claims
    <3>1. PICK c \in bundle.claims : d = Fitted(c, importer)
      BY <1>4
    <3>2. PICK e \in staged.claims : e.id = c.id
      BY <1>1, <1>2 DEF TablesDone
    <3>3. PICK b \in bundle.claims : e = Fitted(b, importer)
      BY <1>1 DEF StagedIsNew
    <3>4. b = c
      BY <1>1, <1>3, <3>2, <3>3 DEF InOrder, OneRowEach, SameRows
    <3> QED BY <3>1, <3>3, <3>4
  <2> QED BY <2>1, <2>2
<1>7. staged.members = {m \in bundle.members : Represented(m, fitted)}
  <2>1. library.claims \cup staged.claims = fitted
    BY <1>2, <1>6
  <2> QED BY <1>1, <1>2, <2>1 DEF MembersInv, StagedIsNew
<1>8. /\ WithStaged.files = bundle.files /\ WithStaged.topics = bundle.topics
      /\ WithStaged.claims = fitted
      /\ WithStaged.members = {m \in bundle.members : Represented(m, fitted)}
  BY <1>2, <1>5, <1>6, <1>7 DEF WithStaged
<1>9. RefersWell(WithStaged)
  <2>1. ASSUME NEW d \in fitted
        PROVE  /\ \E f \in bundle.files : f.id = d.file
               /\ d.topic # NoModel => d.topic \in bundle.topics
    <3>1. PICK c \in bundle.claims : d = Fitted(c, importer)
      BY <1>4
    <3> QED BY <1>1, <1>3, <3>1 DEF InOrder, RefersWell, SameRows
  <2>2. \A m \in bundle.members : m.topic \in bundle.topics
    BY <1>1 DEF InOrder, RefersWell, SameRows
  <2> QED BY <1>8, <2>1, <2>2 DEF RefersWell
<1>10. library' = WithStaged
  BY <1>9 DEF EndImport
<1> QED BY <1>1, <1>8, <1>10 DEF SameRows, Represented, fitted

LEMMA SameTables ==
    ASSUME NEW x \in LibraryRows, NEW y \in LibraryRows, x.files = y.files,
           x.claims = y.claims, x.topics = y.topics, x.members = y.members
    PROVE  x = y
BY DEF LibraryRows

\* Rows only come in under ids and contents that had none, so that a second
\* import finds every row taken, and every member that stands for a claim.
LEMMA RowsAreKept == BundleInv => RowsStay
<1> SUFFICES ASSUME BundleInv, EndImport, library' # library
             PROVE  /\ library.files \subseteq library'.files
                    /\ library.claims \subseteq library'.claims
                    /\ library.topics \subseteq library'.topics
                    /\ library.members \subseteq library'.members
                    /\ Applied(library', bundle, modelInUse) = library'
  BY DEF RowsStay
<1> DEFINE fitted == {Fitted(c, modelInUse) : c \in bundle.claims}
           again  == Applied(library', bundle, modelInUse)
<1>1. /\ library \in LibraryRows /\ staged \in LibraryRows /\ bundle \in BundleRows
      /\ writer = 4 /\ toPut = {} /\ awaited = {} /\ importer # NoModel
      /\ TablesDone /\ MembersInv /\ library' = WithStaged
  BY DEF EndImport, BundleInv, BundleTypeOK, ImportInv
<1>2. /\ library' \in LibraryRows
      /\ library'.files = library.files \cup staged.files
      /\ library'.claims = library.claims \cup staged.claims
      /\ library'.topics = library.topics \cup staged.topics
      /\ library'.members = library.members \cup staged.members
  BY <1>1 DEF WithStaged, LibraryRows
<1>3. /\ again \in LibraryRows
      /\ again.files = library'.files \cup
             {f \in bundle.files : \A g \in library'.files : g.id # f.id /\ g.text # f.text}
      /\ again.claims = library'.claims \cup
             {d \in fitted : \A c \in library'.claims : c.id # d.id}
      /\ again.topics = library'.topics \cup bundle.topics
      /\ again.members = library'.members \cup
             {n \in bundle.members : Represented(n, again.claims)}
  BY <1>1, <1>2, AppliedRows
<1>4. \A d \in fitted : \E c \in bundle.claims : d.id = c.id
  BY <1>1, FittedRows DEF BundleRows
<1> HIDE DEF fitted, again
<1>5. again.files = library'.files /\ again.topics = library'.topics
  BY <1>1, <1>2, <1>3 DEF TablesDone
<1>6. again.claims = library'.claims
  BY <1>1, <1>2, <1>3, <1>4 DEF TablesDone
<1>7. again.members = library'.members
  BY <1>1, <1>2, <1>3, <1>6 DEF MembersInv
<1>8. again = library'
  BY <1>2, <1>3, <1>5, <1>6, <1>7, SameTables
<1> QED BY <1>2, <1>8 DEF again

\* A whole bundle brings back the library it was taken from, but for what
\* another model made; an import adds rows, changes none, and adds nothing
\* the second time (import_bundle_file, ON CONFLICT DO NOTHING).
THEOREM BundleIsKept == BundleSpec => BundleKeeps
<1>1. [][IsRestored]_bundleVars <=> RestoredIsExported
  BY DEF IsRestored, RestoredIsExported
<1>2. [][RowsStay]_bundleVars <=> ImportKeepsRows
  BY DEF RowsStay, ImportKeepsRows
<1> QED BY InitBundle, BundleStep, WholeIsRestored, RowsAreKept, <1>1, <1>2, PTL
        DEF BundleSpec, BundleKeeps
=============================================================================
