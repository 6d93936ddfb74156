--------------------------- MODULE DesktopRuntime ---------------------------
(***************************************************************************)
(* The desktop app runs a bundled PostgreSQL and the daemon.  Threads of   *)
(* the app start and stop the two; the processes outlive the app when it   *)
(* crashes, and the next session takes back a daemon it finds recorded in  *)
(* daemon.pid.  A saved setting, or an update that fails to install, stops *)
(* the stack and starts it again.  The daemon may end by itself, and the   *)
(* user may run one of their own on the same port, at any time.            *)
(*                                                                         *)
(* One thread stops or starts at a time only by chance: nothing in the     *)
(* code serialises them.  `undisturbed` is history: no thread began, and   *)
(* the app was not quit, while another was still at work, and it did not   *)
(* crash while a daemon was coming up or about to be stopped.  A daemon is *)
(* spawned and entered into the slot in one step: the code does the one    *)
(* right after the other.  Left out: memory profiles, logs, passwords, the *)
(* major version, a PostgreSQL that ends by itself, and a recorded pid     *)
(* that another process got since.                                         *)
(***************************************************************************)
EXTENDS Naturals, FiniteSets

CONSTANTS
    Thread,         \* bound on threads at a time
    Daemon,         \* 1..n: daemons the app spawns, in that order
    StackBudgets    \* how often at most each deed is done: [StackDeed -> Nat]

StackDeed == {"crash", "quit", "save", "model", "update", "fail", "hang", "die", "theirs"}

ASSUME StackAssumption ==
    /\ Daemon = 1..Cardinality(Daemon) /\ IsFiniteSet(Thread)
    /\ StackBudgets \subseteq [StackDeed -> Nat]

VARIABLES
    app,        \* "off" or "up"
    shown,      \* Runtime.status
    worker,     \* what each thread is doing
    slot,       \* Runtime.daemon: the daemon to stop, 0 for None
    pgSlot,     \* Runtime.pg_data is set
    stopping,   \* Runtime.stopping
    process,    \* daemons: "none", "boots", "hangs", "serves" or "dead"
    settings,   \* the settings each daemon was started with
    theirs,     \* a daemon the user runs serves on the port
    pidFile,    \* daemon.pid, 0 when there is none
    postgres,   \* PostgreSQL runs
    cluster,    \* pgdata: "none", "half" or "whole"
    saved,      \* the settings saved, counted
    checking,   \* an AI model is being checked before it is saved
    undisturbed,
    troubled,   \* history: initdb, PostgreSQL or the daemon failed in this session
    lost,       \* history: since the app last looked around its daemon ended by
                \* itself, or the user started one of their own
    stackDeeds

stackVars == <<app, shown, worker, slot, pgSlot, stopping, process, settings, theirs, pidFile,
               postgres, cluster, saved, checking, undisturbed, troubled, lost, stackDeeds>>
past == <<undisturbed, troubled, lost>>
world == <<process, settings, theirs, pidFile, postgres, cluster, saved>>

NoDaemon == 0

StackInit ==
    /\ app = "off" /\ shown = "starting" /\ worker = [w \in Thread |-> "none"]
    /\ slot = NoDaemon /\ pgSlot = FALSE /\ stopping = FALSE
    /\ process = [d \in Daemon |-> "none"] /\ settings = [d \in Daemon |-> 0]
    /\ theirs \in BOOLEAN
    /\ pidFile = NoDaemon /\ postgres = FALSE /\ cluster = "none" /\ saved = 0
    /\ checking = FALSE /\ undisturbed = TRUE /\ troubled = FALSE /\ lost = FALSE
    /\ stackDeeds \in StackBudgets

StackDoes(deed) == stackDeeds[deed] > 0 /\ stackDeeds' = [stackDeeds EXCEPT ![deed] = @ - 1]
Doing(w, step) == worker[w] = step
Turn(w, step) == worker' = [worker EXCEPT ![w] = step]
Shows(status) == shown' = status

Working == {w \in Thread : worker[w] # "none"}
Alive == {d \in Daemon : process[d] \in {"boots", "hangs", "serves"}}
Healthy == theirs \/ \E d \in Daemon : process[d] = "serves"
Killed(d) == [process EXCEPT ![d] = "dead"]

-----------------------------------------------------------------------------
\* setup: the lock lets one app run; its runtime starts afresh.
Launch ==
    /\ app = "off" /\ app' = "up"
    /\ \E w \in Thread : Doing(w, "none") /\ Turn(w, "look")
    /\ Shows("starting") /\ slot' = NoDaemon /\ pgSlot' = FALSE /\ stopping' = FALSE
    /\ troubled' = FALSE
    /\ UNCHANGED <<world, checking, undisturbed, lost, stackDeeds>>

\* try_start: does a daemon answer?
LookAround(w) ==
    /\ Doing(w, "look") /\ lost' = FALSE
    /\ \/ Healthy /\ Turn(w, "adopt") /\ UNCHANGED shown
       \/ ~Healthy /\ Turn(w, IF cluster = "none" THEN "init" ELSE "database") /\ Shows("starting")
    /\ UNCHANGED <<app, slot, pgSlot, stopping, world, checking, undisturbed, troubled, stackDeeds>>

\* Wrong: whatever serves on the port is taken over.
WrongTakesBack(d) == TRUE
\* adopt: only a daemon an earlier session recorded, when it is running.
TakesBack(d) == d = pidFile /\ d \in Alive

\* One of an earlier session is used, and its database with it; any other is
\* the user's own.
Adopt(w) ==
    /\ Doing(w, "adopt") /\ Turn(w, "none")
    /\ \/ \E d \in Daemon :
              /\ TakesBack(d) /\ slot' = d
              /\ pgSlot' = (pgSlot \/ cluster = "whole") /\ Shows("ready")
       \/ /\ \A d \in Daemon : ~TakesBack(d)
          /\ Shows("unmanaged") /\ UNCHANGED <<slot, pgSlot>>
    /\ UNCHANGED <<app, stopping, world, checking, past, stackDeeds>>

\* An initdb that runs, of this session or left by one that ended.
Making == {w \in Thread : worker[w] \in {"rename", "spoiled", "initdb"}}

\* init_cluster: what is in pgdata.init is removed and initdb begins there.
\* Where another one is at work they spoil each other's files.
BeginCluster(w) ==
    /\ Doing(w, "init") /\ ~stopping /\ Shows("starting")
    /\ worker' = [v \in Thread |->
                    IF v = w THEN IF Making = {} THEN "rename" ELSE "spoiled"
                    ELSE IF Doing(v, "rename") THEN "spoiled" ELSE worker[v]]
    /\ UNCHANGED <<app, slot, pgSlot, stopping, world, checking, past, stackDeeds>>

\* When initdb is done the directory gets its name, whatever it holds.
FinishCluster(w) ==
    /\ cluster = "none"
    /\ \/ Doing(w, "rename") /\ cluster' = "whole"
       \/ Doing(w, "spoiled") /\ cluster' \in {"half", "whole"}
    /\ Turn(w, "database")
    /\ UNCHANGED <<app, shown, slot, pgSlot, stopping, process, settings, theirs, pidFile, postgres,
                   saved, checking, past, stackDeeds>>

\* initdb or the removal fails, or another thread's pgdata is there already.
ClusterFails(w) ==
    /\ \/ worker[w] \in {"rename", "spoiled"} /\ cluster # "none" /\ UNCHANGED stackDeeds
       \/ Doing(w, "spoiled") /\ UNCHANGED stackDeeds
       \/ Doing(w, "rename") /\ StackDoes("fail")
    /\ Shows("failed") /\ Turn(w, "none") /\ troubled' = TRUE
    /\ UNCHANGED <<app, slot, pgSlot, stopping, world, checking, undisturbed, lost>>

\* check_major_version refuses a cluster that is not complete.
RefuseCluster(w) ==
    /\ Doing(w, "database") /\ cluster = "half"
    /\ Shows("failed") /\ Turn(w, "none")
    /\ UNCHANGED <<app, slot, pgSlot, stopping, world, checking, past, stackDeeds>>

\* From here on a stop also stops PostgreSQL.
PrepareDatabase(w) ==
    /\ Doing(w, "database") /\ cluster = "whole" /\ ~stopping
    /\ pgSlot' = TRUE /\ Turn(w, "pg_ctl") /\ Shows("starting")
    /\ UNCHANGED <<app, slot, stopping, world, checking, past, stackDeeds>>

\* start_postgres, one that runs is restarted, and ensure_database
StartPostgres(w) ==
    /\ Doing(w, "pg_ctl")
    /\ postgres' = TRUE /\ Turn(w, "daemon")
    /\ UNCHANGED <<app, shown, slot, pgSlot, stopping, process, settings, theirs, pidFile, cluster,
                   saved, checking, past, stackDeeds>>

\* The port is taken, say.
PostgresFails(w) ==
    /\ Doing(w, "pg_ctl") /\ StackDoes("fail")
    /\ Shows("failed") /\ Turn(w, "none") /\ troubled' = TRUE
    /\ UNCHANGED <<app, slot, pgSlot, stopping, world, checking, undisturbed, lost>>

PrepareDaemon(w) ==
    /\ Doing(w, "daemon") /\ ~stopping
    /\ Turn(w, "spawn") /\ Shows("starting")
    /\ UNCHANGED <<app, slot, pgSlot, stopping, world, checking, past, stackDeeds>>

\* step gives up when the app is stopping, and so does a start that has
\* spawned its daemon: it stops it again.
GiveUp(w) ==
    /\ worker[w] \in {"init", "database", "daemon", "spawn"} /\ stopping
    /\ Shows("failed") /\ Turn(w, "none")
    /\ UNCHANGED <<app, slot, pgSlot, stopping, world, checking, past, stackDeeds>>

\* spawn_daemon with the settings as they are saved; then it is recorded and
\* entered into the slot.
SpawnDaemon(w) ==
    /\ Doing(w, "spawn") /\ ~stopping
    /\ \E d \in Daemon :
        /\ process[d] = "none" /\ \A e \in Daemon : e < d => process[e] # "none"
        /\ process' = [process EXCEPT ![d] = "boots"]
        /\ settings' = [settings EXCEPT ![d] = saved]
        /\ pidFile' = d /\ slot' = d
    /\ Turn(w, "wait")
    /\ UNCHANGED <<app, shown, pgSlot, stopping, theirs, postgres, cluster, saved, checking, past,
                   stackDeeds>>

\* Wrong: it waits for the daemon for as long as it takes.
WrongDeadline(w) == FALSE
Deadline(w) == slot # NoDaemon /\ process[slot] = "hangs"

\* Whichever daemon answers; else the one in the slot has ended, or time is up.
AwaitDaemon(w) ==
    /\ Doing(w, "wait")
    /\ \/ Healthy /\ Shows("ready")
       \/ ~Healthy /\ slot # NoDaemon /\ process[slot] = "dead" /\ Shows("failed")
       \/ ~Healthy /\ Deadline(w) /\ Shows("failed")
       \* the slot was emptied by a stop: until the deadline
       \/ ~Healthy /\ slot = NoDaemon /\ Shows("failed")
    /\ Turn(w, "none")
    /\ UNCHANGED <<app, slot, pgSlot, stopping, world, checking, past, stackDeeds>>

-----------------------------------------------------------------------------
\* stop, first half: the daemon, under the lock of its slot, and daemon.pid.
StopDaemon(after) ==
    /\ stopping' = TRUE
    /\ process' = IF slot = NoDaemon THEN process ELSE Killed(slot)
    /\ slot' = NoDaemon /\ pidFile' = NoDaemon
    /\ after

\* A restart by a thread of its own: restart, or install_update gone wrong.
Halt(w) ==
    /\ Doing(w, "halt")
    /\ StopDaemon(Turn(w, "pg_stop"))
    /\ UNCHANGED <<app, shown, pgSlot, settings, theirs, postgres, cluster, saved, checking, past,
                   stackDeeds>>

HaltPostgres(w) ==
    /\ Doing(w, "pg_stop")
    /\ postgres' = (postgres /\ ~pgSlot) /\ pgSlot' = FALSE
    /\ Turn(w, "resume")
    /\ UNCHANGED <<app, shown, slot, stopping, process, settings, theirs, pidFile, cluster, saved,
                   checking, past, stackDeeds>>

Resume(w) ==
    /\ Doing(w, "resume")
    /\ stopping' = FALSE /\ Shows("starting") /\ Turn(w, "look")
    /\ UNCHANGED <<app, slot, pgSlot, world, checking, past, stackDeeds>>

Restarted == \E w \in Thread : Doing(w, "none") /\ Turn(w, "halt")

\* save_import_settings from the Settings page, shown once the app is ready.
SaveSettings ==
    /\ app = "up" /\ shown = "ready" /\ StackDoes("save")
    /\ saved' = saved + 1
    /\ Restarted /\ Shows("starting")
    /\ undisturbed' = (undisturbed /\ Working = {})
    /\ UNCHANGED <<app, slot, pgSlot, stopping, process, settings, theirs, pidFile, postgres, cluster,
                   checking, troubled, lost>>

\* save_ai_settings: the model is tried for up to two minutes, ...
TryModel ==
    /\ app = "up" /\ shown = "ready" /\ ~checking /\ StackDoes("model")
    /\ checking' = TRUE
    /\ UNCHANGED <<app, shown, worker, slot, pgSlot, stopping, world, past>>

\* ... then the choice is saved, whatever the app does by then.
SaveModel ==
    /\ app = "up" /\ checking /\ checking' = FALSE
    /\ saved' = saved + 1
    /\ IF shown = "unmanaged" THEN UNCHANGED <<worker, shown>> ELSE Restarted /\ Shows("starting")
    /\ undisturbed' = (undisturbed /\ Working = {})
    /\ UNCHANGED <<app, slot, pgSlot, stopping, process, settings, theirs, pidFile, postgres, cluster,
                   troubled, lost, stackDeeds>>

\* install_update: the stack is stopped, the installer fails, the stack is
\* brought back.
UpdateFails ==
    /\ app = "up" /\ shown = "ready" /\ StackDoes("update")
    /\ Restarted
    /\ undisturbed' = (undisturbed /\ Working = {})
    /\ UNCHANGED <<app, shown, slot, pgSlot, stopping, world, checking, troubled, lost>>

-----------------------------------------------------------------------------
\* pg_ctl and initdb are processes of their own: once begun they go on
\* without the app.
WithoutApp == [w \in Thread |-> CASE worker[w] \in {"pg_ctl", "orphan"} -> "orphan"
                                  [] w \in Making -> "initdb"
                                  [] OTHER -> "none"]

\* RunEvent::Exit: stop, after which every thread is gone.
Quit ==
    /\ app = "up" /\ StackDoes("quit")
    /\ app' = "off"
    /\ StopDaemon(worker' = WithoutApp)
    /\ postgres' = (postgres /\ ~pgSlot) /\ pgSlot' = FALSE
    /\ undisturbed' = (undisturbed /\ Working = {}) /\ checking' = FALSE
    /\ UNCHANGED <<shown, settings, theirs, cluster, saved, troubled, lost>>

OrphanedPgCtl(w) ==
    /\ Doing(w, "orphan")
    /\ postgres' = TRUE /\ Turn(w, "none")
    /\ UNCHANGED <<app, shown, slot, pgSlot, stopping, process, settings, theirs, pidFile, cluster,
                   saved, checking, past, stackDeeds>>

\* It leaves pgdata.init behind, complete or not: nobody renames it.
OrphanedInitdb(w) ==
    /\ Doing(w, "initdb") /\ Turn(w, "none")
    /\ UNCHANGED <<app, shown, slot, pgSlot, stopping, world, checking, past, stackDeeds>>

\* A thread is about to stop the daemon.
HaltAhead == \E w \in Thread : Doing(w, "halt")

AppCrash ==
    /\ app = "up" /\ StackDoes("crash")
    /\ app' = "off"
    /\ worker' = WithoutApp
    /\ undisturbed' = (undisturbed /\ \A d \in Alive : process[d] = "serves" /\ ~HaltAhead)
    /\ checking' = FALSE
    /\ UNCHANGED <<shown, slot, pgSlot, stopping, world, troubled, lost>>

\* The daemon connects to the database, then takes the port.
Boot(d) ==
    /\ process[d] = "boots"
    /\ process' = [process EXCEPT ![d] = IF postgres /\ ~Healthy THEN "serves" ELSE "dead"]
    /\ troubled' = (troubled \/ Healthy)
    /\ UNCHANGED <<app, shown, worker, slot, pgSlot, stopping, settings, theirs, pidFile, postgres,
                   cluster, saved, checking, undisturbed, lost, stackDeeds>>

\* A migration takes longer than the app waits.
Hang(d) ==
    /\ process[d] = "boots" /\ StackDoes("hang")
    /\ process' = [process EXCEPT ![d] = "hangs"] /\ troubled' = TRUE
    /\ UNCHANGED <<app, shown, worker, slot, pgSlot, stopping, settings, theirs, pidFile, postgres,
                   cluster, saved, checking, undisturbed, lost>>

\* The daemon ends by itself. The app does not watch it once it is ready.
Die(d) ==
    /\ d \in Alive /\ StackDoes("die")
    /\ process' = Killed(d) /\ troubled' = TRUE /\ lost' = TRUE
    /\ UNCHANGED <<app, shown, worker, slot, pgSlot, stopping, settings, theirs, pidFile, postgres,
                   cluster, saved, checking, undisturbed>>

\* The user starts a daemon of their own where the port is free, ...
TheirsStarts ==
    /\ ~Healthy /\ StackDoes("theirs")
    /\ theirs' = TRUE /\ lost' = TRUE
    /\ UNCHANGED <<app, shown, worker, slot, pgSlot, stopping, process, settings, pidFile, postgres,
                   cluster, saved, checking, undisturbed, troubled>>

\* ... and ends it.
TheirsEnds ==
    /\ theirs /\ theirs' = FALSE
    /\ UNCHANGED <<app, shown, worker, slot, pgSlot, stopping, process, settings, pidFile, postgres,
                   cluster, saved, checking, past, stackDeeds>>

-----------------------------------------------------------------------------
Act(w) ==
    /\ app = "up"
    /\ \/ LookAround(w) \/ Adopt(w) \/ BeginCluster(w) \/ FinishCluster(w) \/ ClusterFails(w)
       \/ RefuseCluster(w) \/ PrepareDatabase(w) \/ StartPostgres(w) \/ PostgresFails(w)
       \/ PrepareDaemon(w) \/ SpawnDaemon(w) \/ GiveUp(w) \/ AwaitDaemon(w)
       \/ Halt(w) \/ HaltPostgres(w) \/ Resume(w)

Orphan(w) == OrphanedPgCtl(w) \/ OrphanedInitdb(w)

StackNext ==
    \/ Launch \/ SaveSettings \/ TryModel \/ SaveModel \/ UpdateFails \/ Quit \/ AppCrash
    \/ TheirsStarts \/ TheirsEnds
    \/ \E w \in Thread : Act(w) \/ Orphan(w)
    \/ \E d \in Daemon : Boot(d) \/ Hang(d) \/ Die(d)

\* Threads and processes run as long as they have something to do.
StackFairness ==
    /\ \A w \in Thread : WF_stackVars(Act(w) \/ Orphan(w))
    /\ \A d \in Daemon : WF_stackVars(Boot(d))
StackSpec == StackInit /\ [][StackNext]_stackVars /\ StackFairness

-----------------------------------------------------------------------------
StackTypeOK ==
    /\ app \in {"off", "up"} /\ shown \in {"starting", "ready", "unmanaged", "failed"}
    /\ worker \in [Thread -> {"none", "look", "adopt", "init", "rename", "spoiled", "database",
                              "pg_ctl", "daemon", "spawn", "wait", "halt", "pg_stop", "resume",
                              "orphan", "initdb"}]
    /\ slot \in Daemon \cup {NoDaemon} /\ pidFile \in Daemon \cup {NoDaemon}
    /\ {pgSlot, stopping, theirs, postgres, checking, undisturbed, troubled, lost} \subseteq BOOLEAN
    /\ process \in [Daemon -> {"none", "boots", "hangs", "serves", "dead"}]
    /\ saved \in Nat /\ settings \in [Daemon -> 0..saved]
    /\ cluster \in {"none", "half", "whole"}
    /\ app = "up" /\ slot # NoDaemon => pidFile = slot

\* When the app has been quit while nothing was being started or stopped, it
\* leaves no daemon behind, and no PostgreSQL unless it stood aside for a
\* daemon of the user's own, also when an earlier session had crashed and
\* this one took its daemon back (stop, adopt).
QuitStopsBoth ==
    [][Quit /\ undisturbed' => Alive' = {} /\ (shown # "unmanaged" => ~postgres')]_stackVars

\* Once the app says it is ready and nothing else is going on, the daemon
\* that serves is its own and has the settings that were saved last, unless
\* since the start it has ended by itself, or the user has started another
\* (restart, spawn_daemon, adopt).
SettingsInForce ==
    app = "up" /\ shown = "ready" /\ Working = {} /\ undisturbed /\ ~lost
        => \E d \in Daemon : process[d] = "serves" /\ settings[d] = saved /\ slot = d

\* A start fails only because initdb, PostgreSQL or the daemon did, never
\* because of a restart or because an earlier session ended at a bad moment;
\* but for one that ended while it set up the database: its initdb goes on
\* and may spoil the next (init_cluster, start_postgres, resume).
FailedForACause ==
    app = "up" /\ shown = "failed" /\ undisturbed => troubled \/ cluster = "half"

\* When the app stands aside for a daemon of the user's own it has none of
\* its own, running or to stop, whenever theirs came and went (try_start,
\* adopt).
StandsAside ==
    app = "up" /\ shown = "unmanaged" /\ undisturbed => slot = NoDaemon /\ Alive = {}

\* The app does not stay at "starting": it becomes ready or says why not.
StartEnds == []<>(app = "off" \/ shown # "starting")

\* What the app shows is so, after crashes, restarts and a daemon of the
\* user's own (runtime.rs).
StackIsSound == StackTypeOK /\ SettingsInForce /\ FailedForACause /\ StandsAside
=============================================================================
