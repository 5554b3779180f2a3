------------------------------- MODULE MapOps -------------------------------
(***************************************************************************)
(* The operations of the Discord bot on map containers, at the grain at    *)
(* which they interleave: one step per call that leaves the process (the   *)
(* Podman socket, RCON), per lock acquisition and per section under b.mu.  *)
(*                                                                         *)
(* A process is a goroutine: a Handler runs one slash command at a time    *)
(* (bot.go onInteractionCreate; discordgo starts one goroutine per         *)
(* interaction), the Scanner is runScanWorker, the Scheduler is            *)
(* runSchedulers and Main is Run, which ends in gracefulShutdown.        *)
(* cmdStart and cmdStop work on one map; cmdSave, cmdBackup, cmdStatus,    *)
(* updatePresence, scanIdleOnce, runLocalBackupScheduler and               *)
(* gracefulShutdown are rounds that visit the maps found running by        *)
(* CollectStatuses.  A new process may take over at any time.              *)
(***************************************************************************)
EXTENDS Naturals, FiniteSets, Podman

CONSTANTS
  Map,              \* the map_ids of config.yaml
  NoMap,
  Handler,          \* goroutines serving slash commands
  Scanner,          \* the runScanWorker goroutine
  Scheduler,        \* the runSchedulers goroutine
  Main,             \* the goroutine of Run
  Nobody,           \* owner of a free mutex
  ClusterID,        \* server_defaults.cluster_id
  MaxRunningMaps,   \* runtime.max_running_maps
  LocalEnabled,     \* backup.local.enabled
  RunOnStop,        \* backup.local.run_on_stop
  BackupEnabled,    \* the maps whose backup_enabled is not false
  Command           \* what happens to the bot: commands, ticks, a signal, an end

Proc == Handler \cup {Scanner, Scheduler, Main}

ASSUME MapOpsAssumption ==
  /\ ClusterID \in Cluster /\ NoCluster \notin Cluster
  /\ MaxRunningMaps \in Nat \ {0}      \* applyDefaults turns <= 0 into 2
  /\ LocalEnabled \in BOOLEAN /\ RunOnStop \in BOOLEAN
  /\ BackupEnabled \subseteq Map
  /\ NoMap \notin Map
  /\ Nobody \notin Proc
  /\ Scanner # Scheduler /\ Main \notin {Scanner, Scheduler}
  /\ {Scanner, Scheduler, Main} \cap Handler = {}
  /\ IsFiniteSet(Map) /\ IsFiniteSet(Handler) /\ Handler # {}
  /\ Command \subseteq {"start", "stop", "save", "backup", "status", "scan",
                        "interval", "presence", "local", "signal", "restart"}

VARIABLES
  container,   \* Podman's containers
  lock,        \* b.mapLocks: the holder of each map's mutex
  scanMu,      \* b.scanMu: its holder
  scanQueue,   \* b.scanQueue (capacity 1) holds a reason
  tracked,     \* which of b.zeroSince, b.startedAt, b.nextLocalBackup
               \*   have an entry for the map
  done,        \* maps for which cmdStop returned no error in a scan or a
               \*   shutdown: result.Stopped, stopped of gracefulShutdown
  notice,      \* the last start/stop result this process posted for the map
  pc,          \* where each goroutine stands
  round,       \* the round it is on, "none" in cmdStart and cmdStop
  target,      \* the map it works on
  room,        \* cmdStart: runningCount was read below MaxRunningMaps
  todo,        \* maps the loop of the round has still to reach
  seen         \* maps CollectStatuses found running

goVars    == <<pc, round, target, room, todo, seen>>
roundVars == <<round, todo, seen>>
muVars    == <<tracked, notice>>
scanVars  == <<scanMu, scanQueue, done>>
vars == <<container, lock, scanMu, scanQueue, done, tracked, notice,
          pc, round, target, room, todo, seen>>

Round == {"save", "backup", "status", "scan", "local", "shutdown"}
Entry == {"zeroSince", "startedAt", "nextLocalBackup"}

\* Steps of a goroutine that holds the mutex of its target map.
Section ==
  {"count", "inspect", "remove", "recreate", "create", "run", "started",
   "check", "saveworld", "halt", "coldbackup", "stopped",
   "visit", "hotbackup"}
Label ==
  Section \cup {"idle", "wait_start", "wait_stop", "wait_visit", "wait_scan",
                "collect", "each", "due", "judge_zero", "judge_some",
                "resched"}

StartLabel == {"wait_start", "count", "inspect", "remove", "recreate", "create",
               "run", "started"}

InSection(p) == pc[p] \in Section

RunningMaps == {m \in Map : Running(container[m])}

\* What cmdStart and restoreRuntimeState enter for a running map.
StartEntries == {"startedAt"} \cup
                (IF LocalEnabled THEN {"nextLocalBackup"} ELSE {})

\* restoreRuntimeState enters the running maps whose two InspectState calls both
\* succeeded.
Restored ==
  {[m \in Map |-> IF m \in found THEN StartEntries ELSE {}] : found \in SUBSET RunningMaps}

\* NewBot, beside containers of an earlier life.
Init ==
  /\ container \in [Map -> Container]
  /\ Cardinality(RunningMaps) <= MaxRunningMaps
  /\ lock = [m \in Map |-> Nobody]
  /\ scanMu = Nobody /\ scanQueue = FALSE
  /\ tracked \in Restored
  /\ notice = [m \in Map |-> "none"]
  /\ pc = [p \in Proc |-> "idle"]
  /\ round = [p \in Proc |-> "none"]
  /\ target = [p \in Proc |-> NoMap]
  /\ room = [p \in Proc |-> FALSE]
  /\ todo = [p \in Proc |-> {}]
  /\ seen = [p \in Proc |-> {}]
  /\ done = [p \in Proc |-> {}]

-----------------------------------------------------------------------------
(* Locks and returns *)

At(p, label) == pc[p] = label
Goto(p, label) == pc' = [pc EXCEPT ![p] = label]

FirstStep(p) ==
  CASE At(p, "wait_start") -> "count"
    [] At(p, "wait_stop")  -> "check"
    [] At(p, "wait_visit") -> "visit"

\* Mutant: a mutex that is not the one the others hold.
LockMapOther(p) ==
  /\ pc[p] \in {"wait_start", "wait_stop", "wait_visit"}
  /\ lock' = [lock EXCEPT ![target[p]] = p]
  /\ Goto(p, FirstStep(p))
  /\ UNCHANGED <<container, scanVars, muVars, roundVars, target, room>>

\* mapLock(target).Lock()
LockMap(p) ==
  /\ pc[p] \in {"wait_start", "wait_stop", "wait_visit"}
  /\ lock[target[p]] = Nobody
  /\ lock' = [lock EXCEPT ![target[p]] = p]
  /\ Goto(p, FirstStep(p))
  /\ UNCHANGED <<container, scanVars, muVars, roundVars, target, room>>

\* The deferred Unlock: back to the caller, a slash command or a round's loop.
Leave(p) ==
  /\ lock' = [lock EXCEPT ![target[p]] = Nobody]
  /\ Goto(p, IF round[p] = "none" THEN "idle" ELSE "each")
  /\ target' = [target EXCEPT ![p] = NoMap]
  /\ room' = [room EXCEPT ![p] = FALSE]
  /\ UNCHANGED roundVars

\* An Unlock after which the goroutine goes on with its target.
UnlockThen(p, label) ==
  /\ lock' = [lock EXCEPT ![target[p]] = Nobody]
  /\ Goto(p, label)
  /\ UNCHANGED <<roundVars, target, room>>

\* The next step of an operation, the mutex still held.
Proceed(p, label) ==
  /\ Goto(p, label)
  /\ UNCHANGED <<lock, roundVars, target, room>>

\* notify(msg): the last message of the notification channel about map m.
Notify(m, msg) == notice' = [notice EXCEPT ![m] = msg]

-----------------------------------------------------------------------------
(* cmdStart *)

\* Podman.RunningCount: one listing of all containers, or an error.
StartCount(p) ==
  /\ At(p, "count")
  /\ \/ /\ Goto(p, "inspect")
        /\ room' = [room EXCEPT ![p] = Cardinality(RunningMaps) < MaxRunningMaps]
        /\ UNCHANGED <<lock, roundVars, target>>
     \/ Leave(p)
  /\ UNCHANGED <<container, scanVars, muVars>>

\* Mutant: the container of another cluster is removed even if it runs.
StartInspectForce(p) ==
  LET c == container[target[p]] IN
  /\ At(p, "inspect")
  /\ IF Exists(c) /\ c.cluster # ClusterID THEN Proceed(p, "remove")
     ELSE IF Running(c) \/ ~room[p] THEN Leave(p)
     ELSE Proceed(p, IF Exists(c) THEN "run" ELSE "create")
  /\ UNCHANGED <<container, scanVars, muVars>>

\* Mutant: "already running" returns without giving the mutex back.
StartInspectKeepsLock(p) ==
  LET c == container[target[p]] IN
  /\ At(p, "inspect")
  /\ IF Running(c)
     THEN Goto(p, "idle") /\ UNCHANGED <<lock, roundVars, target, room>>
     ELSE Leave(p)
  /\ UNCHANGED <<container, scanVars, muVars>>

\* InspectState and the decisions taken on its result.
StartInspect(p) ==
  LET c == container[target[p]] IN
  /\ At(p, "inspect")
  /\ \/ Leave(p)                                    \* inspect error
     \/ /\ Running(c) \/ (~room[p] /\ (Exists(c) => c.cluster = ClusterID))
        /\ Leave(p)                                 \* already running, or full
     \/ /\ ~Running(c) /\ Exists(c) /\ c.cluster # ClusterID
        /\ Proceed(p, "remove")
     \/ /\ ~Exists(c) /\ room[p]
        /\ Proceed(p, "create")
     \/ /\ ~Running(c) /\ Exists(c) /\ c.cluster = ClusterID /\ room[p]
        /\ Proceed(p, "run")
  /\ UNCHANGED <<container, scanVars, muVars>>

\* A stopped container of another cluster is removed ...
StartRemove(p) ==
  /\ At(p, "remove")
  /\ \E r \in RemoveOutcomes(container[target[p]]) :
       /\ container' = [container EXCEPT ![target[p]] = r.after]
       /\ IF r.ok THEN Proceed(p, "recreate") ELSE Leave(p)
  /\ UNCHANGED <<scanVars, muVars>>

\* Mutant: the limit is forgotten on this path.
StartRecreateUnlimited(p) ==
  /\ At(p, "recreate")
  /\ \E r \in CreateOutcomes(container[target[p]], ClusterID) :
       /\ container' = [container EXCEPT ![target[p]] = r.after]
       /\ IF r.ok THEN Proceed(p, "run") ELSE Leave(p)
  /\ UNCHANGED <<scanVars, muVars>>

\* ... and created again, before the limit is looked at.
StartRecreate(p) ==
  /\ At(p, "recreate")
  /\ \E r \in CreateOutcomes(container[target[p]], ClusterID) :
       /\ container' = [container EXCEPT ![target[p]] = r.after]
       /\ IF r.ok /\ room[p] THEN Proceed(p, "run") ELSE Leave(p)
  /\ UNCHANGED <<scanVars, muVars>>

\* Mutant: a container created without its CLUSTER_ID.
StartCreateBare(p) ==
  /\ At(p, "create")
  /\ container' = [container EXCEPT ![target[p]] = Stopped(NoCluster)]
  /\ Proceed(p, "run")
  /\ UNCHANGED <<scanVars, muVars>>

StartCreate(p) ==
  /\ At(p, "create")
  /\ \E r \in CreateOutcomes(container[target[p]], ClusterID) :
       /\ container' = [container EXCEPT ![target[p]] = r.after]
       /\ IF r.ok THEN Proceed(p, "run") ELSE Leave(p)
  /\ UNCHANGED <<scanVars, muVars>>

StartRun(p) ==
  /\ At(p, "run")
  /\ \E r \in StartOutcomes(container[target[p]]) :
       /\ container' = [container EXCEPT ![target[p]] = r.after]
       /\ \/ /\ r.ok
             /\ Goto(p, "started")
             /\ room' = [room EXCEPT ![p] = FALSE]   \* not used any more
             /\ UNCHANGED <<lock, roundVars, target, notice>>
          \/ /\ ~r.ok
             /\ Notify(target[p], "start failed")
             /\ Leave(p)
  /\ UNCHANGED <<scanVars, tracked>>

\* The section under b.mu, the notification and the return.
StartFinish(p) ==
  /\ At(p, "started")
  /\ tracked' = [tracked EXCEPT ![target[p]] = @ \cup StartEntries]
  /\ Notify(target[p], "started")
  /\ Leave(p)
  /\ UNCHANGED <<container, scanVars>>

Start(p) ==
  \/ StartCount(p) \/ StartInspect(p) \/ StartRemove(p) \/ StartRecreate(p)
  \/ StartCreate(p) \/ StartRun(p) \/ StartFinish(p)

-----------------------------------------------------------------------------
(* cmdStop: called by /ark stop and by a scan *)

\* The caller is a scan or a shutdown and gets no error.
Report(p) ==
  done' = IF round[p] = "none" THEN done
          ELSE [done EXCEPT ![p] = @ \cup {target[p]}]

\* Mutant: an inspect error is taken for a map that is stopped already.
StopCheckLenient(p) ==
  /\ At(p, "check")
  /\ \/ Leave(p) /\ Report(p)
     \/ /\ Running(container[target[p]])
        /\ Proceed(p, "saveworld") /\ UNCHANGED done
  /\ UNCHANGED <<container, scanMu, scanQueue, muVars>>

StopCheck(p) ==
  /\ At(p, "check")
  /\ \/ Leave(p) /\ UNCHANGED done                      \* inspect error
     \/ ~Running(container[target[p]]) /\ Leave(p) /\ Report(p)
     \/ /\ Running(container[target[p]])
        /\ Proceed(p, "saveworld") /\ UNCHANGED done
  /\ UNCHANGED <<container, scanMu, scanQueue, muVars>>

\* SaveWorld, its error ignored, and the sleep of SaveWaitSeconds.
StopSaveWorld(p) ==
  /\ At(p, "saveworld")
  /\ Proceed(p, "halt")
  /\ UNCHANGED <<container, scanVars, muVars>>

\* Mutant: the error of Podman.Stop is dropped.
StopHaltUnchecked(p) ==
  /\ At(p, "halt")
  /\ \E r \in StopOutcomes(container[target[p]]) :
       container' = [container EXCEPT ![target[p]] = r.after]
  /\ Proceed(p, IF RunOnStop /\ LocalEnabled THEN "coldbackup" ELSE "stopped")
  /\ UNCHANGED <<scanVars, muVars>>

StopHalt(p) ==
  /\ At(p, "halt")
  /\ \E r \in StopOutcomes(container[target[p]]) :
       /\ container' = [container EXCEPT ![target[p]] = r.after]
       /\ \/ /\ r.ok
             /\ Proceed(p, IF RunOnStop /\ LocalEnabled
                           THEN "coldbackup" ELSE "stopped")
             /\ UNCHANGED notice
          \/ /\ ~r.ok
             /\ Notify(target[p], "stop failed")
             /\ Leave(p)
  /\ UNCHANGED <<scanVars, tracked>>

\* LocalBackup of the stopped map, its result ignored.
StopBackup(p) ==
  /\ At(p, "coldbackup")
  /\ Proceed(p, "stopped")
  /\ UNCHANGED <<container, scanVars, muVars>>

StopFinish(p) ==
  /\ At(p, "stopped")
  /\ tracked' = [tracked EXCEPT ![target[p]] = {}]
  /\ Notify(target[p], "stopped")
  /\ Leave(p) /\ Report(p)
  /\ UNCHANGED <<container, scanMu, scanQueue>>

Stop(p) ==
  \/ StopCheck(p) \/ StopSaveWorld(p) \/ StopHalt(p) \/ StopBackup(p)
  \/ StopFinish(p)

-----------------------------------------------------------------------------
(* Rounds: CollectStatuses, then a visit to every map it found running.     *)
(* The code visits the maps in the order of config.yaml; here the order is  *)
(* left open.                                                               *)

BeginRound(p, r) ==
  /\ At(p, "idle")
  /\ round' = [round EXCEPT ![p] = r]
  /\ todo' = [todo EXCEPT ![p] = Map]
  /\ Goto(p, IF r = "scan" THEN "wait_scan" ELSE "collect")
  /\ UNCHANGED <<container, lock, muVars, target, room, seen>>

\* Mutant: a scan does not wait for the one under way.
LockScanTry(p) ==
  /\ At(p, "wait_scan")
  /\ scanMu' = p
  /\ Goto(p, "collect")
  /\ UNCHANGED <<container, lock, scanQueue, done, muVars, roundVars, target, room>>

\* scanIdleOnce: scanMu.Lock()
LockScan(p) ==
  /\ At(p, "wait_scan")
  /\ scanMu = Nobody
  /\ scanMu' = p
  /\ Goto(p, "collect")
  /\ UNCHANGED <<container, lock, scanQueue, done, muVars, roundVars, target, room>>

\* One InspectState of CollectStatuses; an error leaves Running false.
Collect(p, m) ==
  /\ At(p, "collect")
  /\ m \in todo[p]
  /\ \E found \in {FALSE, Running(container[m])} :
       seen' = [seen EXCEPT ![p] = IF found THEN @ \cup {m} ELSE @]
  /\ IF todo[p] = {m}
     THEN todo' = [todo EXCEPT ![p] = Map] /\ Goto(p, "each")
     ELSE todo' = [todo EXCEPT ![p] = @ \ {m}] /\ UNCHANGED pc
  /\ UNCHANGED <<container, lock, scanVars, muVars, round, target, room>>

\* Mutant: the scan clears every entry of a map it did not find running.
SkipClearsAll(p, m) ==
  /\ At(p, "each")
  /\ m \in todo[p]
  /\ m \notin seen[p]
  /\ todo' = [todo EXCEPT ![p] = @ \ {m}]
  /\ tracked' = IF round[p] = "scan" THEN [tracked EXCEPT ![m] = {}] ELSE tracked
  /\ UNCHANGED <<container, lock, scanVars, notice, pc, round, target, room,
                 seen>>

\* A map not found running: only the scan does something about it.
Skip(p, m) ==
  /\ At(p, "each")
  /\ m \in todo[p]
  /\ m \notin seen[p] \/ (round[p] = "local" /\ m \notin BackupEnabled)
  /\ todo' = [todo EXCEPT ![p] = @ \ {m}]
  /\ tracked' = IF round[p] = "scan"
                THEN [tracked EXCEPT ![m] = @ \ {"zeroSince"}] ELSE tracked
  /\ UNCHANGED <<container, lock, scanVars, notice, pc, round, target, room,
                 seen>>

VisitMap(p, m) ==
  /\ At(p, "each")
  /\ m \in todo[p] \cap seen[p]
  /\ round[p] = "local" => m \in BackupEnabled
  /\ todo' = [todo EXCEPT ![p] = @ \ {m}]
  /\ target' = [target EXCEPT ![p] = m]
  /\ Goto(p, CASE round[p] = "local"    -> "due"
               [] round[p] = "shutdown" -> "wait_stop"
               [] OTHER                 -> "wait_visit")
  /\ UNCHANGED <<container, lock, scanVars, muVars, round, room, seen>>

\* Mutant: scanMu is given back by an interval scan only.
EndRoundKeepsScanMu(p) ==
  /\ At(p, "each") /\ todo[p] = {} /\ p # Main
  /\ Goto(p, "idle")
  /\ round' = [round EXCEPT ![p] = "none"]
  /\ seen' = [seen EXCEPT ![p] = {}]
  /\ done' = [done EXCEPT ![p] = {}]
  /\ scanMu' = IF p = Scanner THEN Nobody ELSE scanMu
  /\ UNCHANGED <<container, lock, scanQueue, muVars, target, room, todo>>

\* The return of a round; after that of gracefulShutdown the process ends.
EndRound(p) ==
  /\ At(p, "each") /\ todo[p] = {} /\ p # Main
  /\ Goto(p, "idle")
  /\ round' = [round EXCEPT ![p] = "none"]
  /\ seen' = [seen EXCEPT ![p] = {}]
  /\ done' = [done EXCEPT ![p] = {}]
  /\ scanMu' = IF round[p] = "scan" THEN Nobody ELSE scanMu
  /\ UNCHANGED <<container, lock, scanQueue, muVars, target, room, todo>>

\* Mutant: the scan calls cmdStop with the map's mutex held.
VisitRconHolds(p) ==
  /\ At(p, "visit")
  /\ \/ round[p] = "scan" /\ Proceed(p, "judge_zero")
     \/ round[p] # "scan" /\ Leave(p)
  /\ UNCHANGED <<container, scanVars, muVars>>

\* The RCON call of a visit: saveworld, or ListPlayers in a scan or status.
VisitRcon(p) ==
  /\ At(p, "visit")
  /\ \/ /\ round[p] \in {"save", "status", "scan"}   \* scan: an RCON error
        /\ Leave(p)
     \/ /\ round[p] \in {"backup", "local"}   \* and the sleep
        /\ Proceed(p, "hotbackup")
     \/ /\ round[p] = "scan"
        /\ \E answer \in {"judge_zero", "judge_some"} : UnlockThen(p, answer)
  /\ UNCHANGED <<container, scanVars, muVars>>

\* LocalBackup of a running map.
VisitBackup(p) ==
  /\ At(p, "hotbackup")
  /\ IF round[p] = "local" THEN UnlockThen(p, "resched") ELSE Leave(p)
  /\ UNCHANGED <<container, scanVars, muVars>>

Rounds(p) ==
  \/ LockScan(p) \/ EndRound(p) \/ VisitRcon(p) \/ VisitBackup(p)
  \/ \E m \in Map : Collect(p, m) \/ Skip(p, m) \/ VisitMap(p, m)

-----------------------------------------------------------------------------
(* scanIdleOnce after ListPlayers, the map's mutex already given back *)

\* shouldStop: a manual scan (only handlers run one) stops an empty map at
\* once; an interval scan needs an entry old enough, never one just made.
JudgeEmpty(p) ==
  /\ At(p, "judge_zero")
  /\ tracked' = [tracked EXCEPT ![target[p]] = @ \cup {"zeroSince"}]
  /\ \/ /\ p \in Handler \/ "zeroSince" \in tracked[target[p]]
        /\ Goto(p, "wait_stop")
        /\ UNCHANGED target
     \/ /\ p \notin Handler
        /\ Goto(p, "each")
        /\ target' = [target EXCEPT ![p] = NoMap]
  /\ UNCHANGED <<container, lock, scanVars, notice, roundVars, room>>

JudgeOccupied(p) ==
  /\ At(p, "judge_some")
  /\ tracked' = [tracked EXCEPT ![target[p]] = @ \ {"zeroSince"}]
  /\ Goto(p, "each")
  /\ target' = [target EXCEPT ![p] = NoMap]
  /\ UNCHANGED <<container, lock, scanVars, notice, roundVars, room>>

-----------------------------------------------------------------------------
(* runLocalBackupScheduler around its visit, under b.mu *)

\* A missing nextLocalBackup is computed from startedAt (made up if missing
\* too) and lies after now; an existing one may have come.
LocalDue(p) ==
  /\ At(p, "due")
  /\ \/ /\ "nextLocalBackup" \in tracked[target[p]]        \* it has come
        /\ Goto(p, "wait_visit")
        /\ UNCHANGED <<tracked, target>>
     \/ /\ IF "nextLocalBackup" \in tracked[target[p]]     \* it has not
           THEN UNCHANGED tracked
           ELSE tracked' = [tracked EXCEPT ![target[p]] =
                              @ \cup {"startedAt", "nextLocalBackup"}]
        /\ Goto(p, "each")
        /\ target' = [target EXCEPT ![p] = NoMap]
  /\ UNCHANGED <<container, lock, scanVars, notice, roundVars, room>>

\* The next time is written after the map's mutex was given back.
LocalReschedule(p) ==
  /\ At(p, "resched")
  /\ tracked' = [tracked EXCEPT ![target[p]] =
                   @ \cup {"startedAt", "nextLocalBackup"}]
  /\ Goto(p, "each")
  /\ target' = [target EXCEPT ![p] = NoMap]
  /\ UNCHANGED <<container, lock, scanVars, notice, roundVars, room>>

Judge(p) ==
  JudgeEmpty(p) \/ JudgeOccupied(p) \/ LocalDue(p) \/ LocalReschedule(p)

-----------------------------------------------------------------------------
(* What is asked of the bot *)

SlashStart(p, m) ==
  /\ "start" \in Command /\ At(p, "idle")
  /\ target' = [target EXCEPT ![p] = m]
  /\ Goto(p, "wait_start")
  /\ UNCHANGED <<container, lock, scanVars, muVars, roundVars, room>>

SlashStop(p, m) ==
  /\ "stop" \in Command /\ At(p, "idle")
  /\ target' = [target EXCEPT ![p] = m]
  /\ Goto(p, "wait_stop")
  /\ UNCHANGED <<container, lock, scanVars, muVars, roundVars, room>>

\* /ark save, backup, status, and scan, which does not use scanQueue.
SlashRound(p, r) ==
  /\ r \in {"save", "backup", "status", "scan"} \cap Command
  /\ BeginRound(p, r)
  /\ UNCHANGED scanVars

\* scanTicker: enqueueScan drops the reason when one is waiting.
ScanTick ==
  /\ "interval" \in Command /\ At(Scheduler, "idle")
  /\ ~scanQueue
  /\ scanQueue' = TRUE
  /\ UNCHANGED <<container, lock, scanMu, done, muVars, goVars>>

\* runScanWorker takes a reason from the channel.
ScanWorker ==
  /\ scanQueue
  /\ scanQueue' = FALSE
  /\ BeginRound(Scanner, "scan")
  /\ UNCHANGED <<scanMu, done>>

\* presenceTicker: updatePresence asks every running map for its players.
PresenceTick ==
  /\ "presence" \in Command
  /\ BeginRound(Scheduler, "status")
  /\ UNCHANGED scanVars

\* minuteTicker; with backup.local disabled the scheduler returns at once.
MinuteTick ==
  /\ "local" \in Command /\ LocalEnabled
  /\ BeginRound(Scheduler, "local")
  /\ UNCHANGED scanVars

\* SIGINT or SIGTERM: gracefulShutdown, beside everybody else's work.
Signal ==
  /\ "signal" \in Command
  /\ BeginRound(Main, "shutdown")
  /\ UNCHANGED scanVars

\* The process ends, by a crash or after gracefulShutdown, and a new one takes
\* over.
Restart ==
  /\ "restart" \in Command
  /\ lock' = [m \in Map |-> Nobody]
  /\ scanMu' = Nobody /\ scanQueue' = FALSE
  /\ tracked' \in Restored
  /\ notice' = [m \in Map |-> "none"]
  /\ pc' = [p \in Proc |-> "idle"]
  /\ round' = [p \in Proc |-> "none"]
  /\ target' = [p \in Proc |-> NoMap]
  /\ room' = [p \in Proc |-> FALSE]
  /\ todo' = [p \in Proc |-> {}]
  /\ seen' = [p \in Proc |-> {}]
  /\ done' = [p \in Proc |-> {}]
  /\ UNCHANGED container

\* A server process ends by itself.
ServerExits(m) ==
  /\ Running(container[m])
  /\ container' = [container EXCEPT ![m] = Stopped(@.cluster)]
  /\ UNCHANGED <<lock, scanVars, muVars, goVars>>

Work(p) == LockMap(p) \/ Start(p) \/ Stop(p) \/ Rounds(p) \/ Judge(p)

Next ==
  \/ \E p \in Proc : Work(p)
  \/ \E p \in Handler, m \in Map : SlashStart(p, m) \/ SlashStop(p, m)
  \/ \E p \in Handler, r \in Round : SlashRound(p, r)
  \/ ScanTick \/ ScanWorker \/ PresenceTick \/ MinuteTick \/ Signal \/ Restart
  \/ \E m \in Map : ServerExits(m)

Spec == Init /\ [][Next]_vars

-----------------------------------------------------------------------------
(* Fairness *)

\* Waiting for the Podman socket.
PodmanCall == {"count", "inspect", "remove", "recreate", "create", "run",
               "check", "halt", "collect"}

\* A handler's calls end, its context lasts two minutes.  A goroutine waiting
\* for a mutex gets it when it is given back again and again: sync.Mutex hands
\* itself to a waiter of more than a millisecond.  The background goroutines
\* call Podman with context.Background() and a client without a timeout:
\* nothing ends such a call if the daemon does not answer.
Fairness ==
  /\ \A p \in Handler : SF_vars(Work(p))
  /\ \A p \in {Scanner, Scheduler, Main} : SF_vars(pc[p] \notin PodmanCall /\ Work(p))
  /\ WF_vars(ScanWorker)

FairSpec == Spec /\ Fairness

\* The daemon answers every call.
ResponsiveSpec ==
  Spec /\ (\A p \in Proc : SF_vars(Work(p))) /\ WF_vars(ScanWorker)

-----------------------------------------------------------------------------
(* Properties *)

\* Every variable has its type: container states Podman knows, a mutex per
\* map, a label and a target per goroutine.
TypeOK ==
  /\ container \in [Map -> Container]
  /\ lock \in [Map -> Proc \cup {Nobody}]
  /\ scanMu \in Proc \cup {Nobody}
  /\ scanQueue \in BOOLEAN
  /\ done \in [Proc -> SUBSET Map]
  /\ tracked \in [Map -> SUBSET Entry]
  /\ notice \in [Map -> {"none", "started", "stopped", "start failed",
                         "stop failed"}]
  /\ pc \in [Proc -> Label]
  /\ round \in [Proc -> Round \cup {"none"}]
  /\ target \in [Proc -> Map \cup {NoMap}]
  /\ room \in [Proc -> BOOLEAN]
  /\ todo \in [Proc -> SUBSET Map]
  /\ seen \in [Proc -> SUBSET Map]

\* Start, stop, save and backup never work on the same map at once
\* (docs/spec/01_bot_spec.md section 14): two goroutines between Lock and
\* Unlock of a map's mutex have different maps.
OneOperationPerMap ==
  \A p, q \in Proc : InSection(p) /\ InSection(q) /\ p # q
                      => target[p] # target[q]

\* cmdStart checks the limit and acts on it under the mutex of one map only,
\* so max_running_maps can be exceeded; but never by more than the other
\* commands that may have read the count before: the running maps and the
\* starts that still hold a count below the limit.  With one handler at work
\* the limit is exact.
OvershootBounded ==
  Cardinality(RunningMaps) + Cardinality({p \in Proc : room[p]})
    <= MaxRunningMaps - 1 + Cardinality(Handler)

\* The backup cmdStop takes after Podman.Stop reads the files of a server
\* that is not running, whatever else was asked of the bot meanwhile.
StopBackupCold ==
  \A p \in Proc : At(p, "coldbackup") => ~Running(container[target[p]])

\* When the channel was last told that a map was stopped and nobody works on
\* it, the map is not running: no start goes unreported.
NoticeTruthful ==
  \A m \in Map : lock[m] = Nobody /\ notice[m] = "stopped"
                  => ~Running(container[m])

\* A map last reported as started is in the books of the idle watch's and the
\* local backup's schedulers, whichever goroutine wrote to them last.
StartedIsScheduled ==
  \A m \in Map : lock[m] = Nobody /\ notice[m] = "started"
                  => StartEntries \subseteq tracked[m]

\* A map that a scan or a shutdown lists as stopped and that runs after all was
\* touched by a command since, and the channel was told.
ReportedDown ==
  \A p \in Proc : \A m \in done[p] :
    lock[m] = Nobody /\ Running(container[m]) => notice[m] \notin {"none", "stopped"}

\* At most one goroutine is between CollectStatuses and the last map of an
\* idle scan, and it holds scanMu: scans are queued behind each other.
OneScan ==
  \A p \in Proc : round[p] = "scan" /\ ~At(p, "wait_scan") <=> scanMu = p

\* The goroutine that holds the mutex p waits for.
WaitsFor(p, q) ==
  \/ pc[p] \in {"wait_start", "wait_stop", "wait_visit"} /\ lock[target[p]] = q
  \/ At(p, "wait_scan") /\ scanMu = q

\* No goroutines wait for each other in a circle, none for itself: only the
\* holder of scanMu waits while others wait for it, and then for a goroutine
\* that waits for nobody (scanIdleOnce gives the map's mutex back before it
\* calls cmdStop).
NoCircularWait ==
  \A p, q \in Proc : WaitsFor(p, q) =>
    \A r \in Proc : WaitsFor(q, r)
      => At(p, "wait_scan") /\ ~ \E s \in Proc : WaitsFor(r, s)

\* The inductive invariant of the safety properties: the mutexes agree with
\* the labels, only handlers start maps, and what a goroutine has read or done
\* under a map's mutex still holds of the container.
LockHeld ==
  \A p \in Proc, m \in Map : lock[m] = p <=> InSection(p) /\ target[p] = m

TargetChosen ==
  \A p \in Proc : pc[p] \notin {"idle", "wait_scan", "collect", "each"}
                  => target[p] \in Map

RoomRead ==
  \A p \in Proc :
    /\ pc[p] \in StartLabel => p \in Handler
    /\ room[p] => pc[p] \in StartLabel
    /\ pc[p] \in {"create", "run"} => room[p]

Knows(p) ==
  LET c == container[target[p]] IN
  /\ At(p, "remove") => c.status = "stopped" /\ c.cluster # ClusterID
  /\ pc[p] \in {"recreate", "create"} => c = Absent
  /\ At(p, "run") => c = Stopped(ClusterID)
  /\ pc[p] \in {"coldbackup", "stopped"} => c.status = "stopped"

ContainerKnown == \A p \in Proc : Knows(p)

UnreportedStart ==
  \A m \in Map : notice[m] = "stopped" /\ Running(container[m])
                  => lock[m] # Nobody /\ At(lock[m], "started")

\* A map reported stopped runs again only through a start, which tells the
\* channel before it gives the mutex back.
DoneDown ==
  \A p \in Proc : \A m \in done[p] :
    notice[m] = "none" /\ Running(container[m])
      => lock[m] # Nobody /\ At(lock[m], "started")

RoundPlaced ==
  \A p \in Proc : /\ At(p, "idle") => round[p] = "none"
                  /\ At(p, "wait_scan") => round[p] = "scan"

BooksKept ==
  \A m \in Map : notice[m] = "started" => StartEntries \subseteq tracked[m]

IInv == /\ TypeOK /\ LockHeld /\ TargetChosen /\ RoomRead
        /\ ContainerKnown /\ UnreportedStart /\ DoneDown /\ OvershootBounded
        /\ RoundPlaced /\ OneScan /\ BooksKept

\* The limit as the specification words it (docs/spec/01_bot_spec.md:263 and
\* 268-270): a start over max_running_maps is refused.
RunningLimit == Cardinality(RunningMaps) <= MaxRunningMaps

\* Every slash command is answered in the end: the mutexes of cmdStart,
\* cmdStop, the rounds and the scan admit no deadlock and no starvation.
EveryCommandReturns ==
  \A p \in Handler : ~At(p, "idle") ~> At(p, "idle")

\* What the ticker asked for is taken from the queue by a scan that comes to its
\* end: it gets scanMu, collects the statuses, visits every map, stops those it
\* must and returns.
EveryTickScanned ==
  scanQueue ~> (/\ ~scanQueue /\ At(Scanner, "wait_scan")
                /\ <>At(Scanner, "idle"))

\* gracefulShutdown comes to its end, though handlers and schedulers go on
\* taking the mutexes it waits for.
ShutdownEnds ==
  round[Main] = "shutdown" ~> At(Main, "each") /\ todo[Main] = {}

\* The maps as the mutexes serialise them: MapOps implements SerialMaps, the
\* holder of a map's mutex being its owner.
Serial == INSTANCE SerialMaps WITH owner <- lock
Serialised == Serial!Spec
=============================================================================
