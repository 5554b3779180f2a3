# Verification of yokan-ark

TLA+ models of the Discord bot that operates the ARK map servers of yokan-ark
(`bot/src/*.go`), the TLC runs that check them on small instances, and theorems
about them that TLAPS proves for every value of the constants. Line numbers
refer to the sources of this repository.

## The system

The bot is one Go process. `discordgo` calls `onInteractionCreate` in a
goroutine of its own for every slash command (bot.go 186-254), from `dg.Open` on
(bot.go 92); `runScanWorker` and `runSchedulers` are two more goroutines (bot.go
103-104), and `Run` itself ends in `gracefulShutdown`. They share the
maps of `Bot` (bot.go 20-36) and drive game servers, one container per map,
through the Podman socket, RCON and the file system.

| part | state | operations | what makes it correct | hard because |
|---|---|---|---|---|
| Podman client (podman.go) | containers, held by the daemon | Inspect, Create, Start, Stop, Remove, RunningCount, CollectStatuses | each call tells the truth about a container at one moment | calls fail before or after their effect; 304/404/409 are treated differently per call |
| Map commands (bot.go 316-485) | `mapLocks` | `cmdStart`, `cmdStop`, `cmdSave`, `cmdBackup` | one operation per map at a time, limit of running maps, no unreported change | any number of handlers; check-then-act over several calls |
| Idle scan (bot.go 487-496, 672-737) | `scanMu`, `scanQueue`, `zeroSince` | manual and interval scan | one scan at a time; stops only maps that were empty long enough | nested locks; `zeroSince` written outside the map's mutex |
| Schedulers (bot.go 739-923) | `startedAt`, `nextLocalBackup`, `lastScheduleRun` | scan, presence and minute tickers | local backup every interval, cloud backup once a day | state written back after an unlock; ticks missed |
| Backup manager (backup.go) | archives on disk, objects in R2 | `LocalBackup`, `keepLocalGenerations`, `UploadLatestToCloud`, `cleanupCloudOld` | archives never damaged, enough generations kept | partial files, killed process, upload without the mutex |
| Runtime state (bot.go 958-1006) | `startedAt`, `nextLocalBackup` | `restoreRuntimeState`, `nextBackupFromStart` | the schedule survives a restart | containers of an earlier life; commands are answered before it has run |
| Configuration reload (bot.go 498-572) | `cfg`, `mapByID`, `mapLocks` | `cmdConfigReload` | operations in flight keep their meaning | mutexes deleted while held |
| Shutdown (bot.go 108-123, 925-956) | none | `gracefulShutdown` | every map is stopped and reported | 90 second budget, handlers still live |
| Configuration, permissions (config.go, bot.go 151-184) | none | defaults, `Validate`, `permissionAllowed` | no two servers share a port | optional fields |
| RCON client (rcon.go) | none | `SaveWorld`, `ListPlayers`, `parsePlayers` | an error is not an empty server | answers are free text |
| Announcements, logger, helpers | `lastScheduleRun` | `runAnnouncementScheduler` | once per configured minute | clock |
| Map image and scripts (maps/, scripts/) | host files | start script, podman wrappers | ports as the bot computes them | bypass the bot |

`PROJECT.json` lists the hazards of each part at their lines.

## Modules

```
Podman          outcomes of one Podman call (pure operators)
SerialMaps      abstract: each map has one owner at a time, who alone changes it
MapOps          commands, scan and rounds of the bot      implements SerialMaps
MCMapOps        instances of MapOps for TLC
MapOpsProofs    theorems about MapOps
Schedule        the minute tasks with their clock: local backup, daily jobs, restart
MCSchedule      instance of Schedule for TLC
ScheduleProofs  theorems about Schedule
Reload          /ark config-reload beside the operations on maps
MCReload        instances of Reload for TLC
ReloadProofs    theorems about Reload
ArchiveStore    abstract: what a reader of the backups may rely on
Backups         archives of one map and their copies in the bucket
                                                          implements ArchiveStore
MCBackups       instance of Backups for TLC
BackupsProofs   theorems about Backups
IdleStop        the idle scan of one map with its clock
IdleStopProofs  theorems about IdleStop
```

### Podman

A container is `absent`, `stopped` or `running`, with the `CLUSTER_ID` it was
created for. `CreateOutcomes`, `StartOutcomes`, `StopOutcomes` and
`RemoveOutcomes` give the pairs of a container afterwards and a nil or non-nil
error that the Go method can produce: success, refusal without effect, and an
effect whose answer was lost because the context expired. Create turns 409
into success, Start turns 304 into success, Stop does not, Remove uses
`force=true` and accepts 404. A request has taken effect or never will when the
Go call returns; a Podman that acts later is outside the model.

### MapOps

A process is a goroutine with a label (`pc`), the round it is on, the map it
works on and what it has read. One action is one call that leaves the process,
one lock acquisition, or one section under `b.mu` with the non-blocking code up
to the next such point; an unlock by `defer` belongs to the return.

| code | actions |
|---|---|
| `mapLock(id).Lock()` | `LockMap` |
| `cmdStart` | `SlashStart`, `StartCount`, `StartInspect`, `StartRemove`, `StartRecreate`, `StartCreate`, `StartRun`, `StartFinish` |
| `cmdStop` | `SlashStop`, `StopCheck`, `StopSaveWorld`, `StopHalt`, `StopBackup`, `StopFinish` |
| `CollectStatuses` | `Collect`, one map a step; an error reads as not running |
| loops of `cmdSave`, `cmdBackup`, `cmdStatus`, `updatePresence`, `scanIdleOnce`, `runLocalBackupScheduler`, `gracefulShutdown` | `SlashRound`, `PresenceTick`, `MinuteTick`, `VisitMap`, `Skip`, `VisitRcon`, `VisitBackup`, `EndRound` |
| `scanIdleOnce` after `ListPlayers` | `JudgeEmpty`, `JudgeOccupied`, then `cmdStop` |
| `runLocalBackupScheduler` under `b.mu` | `LocalDue`, `LocalReschedule` |
| `enqueueScan`, `runScanWorker` | `ScanTick`, `ScanWorker` |
| SIGINT or SIGTERM, `gracefulShutdown` | `Signal`, then a round of `Main` whose visits are `cmdStop` |
| the end of the process and its successor, `restoreRuntimeState` | `Restart`, `Restored` |
| a server that ends by itself | `ServerExits` |

`tracked` abstracts `zeroSince`, `startedAt` and `nextLocalBackup` to the set of
those that have an entry for a map; the times are left open (an existing backup
time may or may not have come, an old entry may or may not be old enough).
`notice` is the last start or stop message about a map, and `done` what a scan
or a shutdown is going to list as stopped. A process may end at any step, so the
90 seconds of the shutdown and a signal in the middle of a command need no action
of their own. `Restart` restores the books in one step; the steps of
`restoreRuntimeState` are in `Schedule`. The order of the maps in
a round is left open, which includes the order of config.yaml. `/ark players`
makes the calls of `status`; `/ark maps` changes nothing and takes no mutex.

### SerialMaps

What the mutexes are for (docs/spec/01_bot_spec.md section 14, "operations on
one map are not executed at the same time"): a goroutine takes a map, changes
its container by permitted transitions and gives it back. `MapOps` implements
it with `owner <- lock`.

### Backups

One map's directory and its objects in the bucket, named by the second their
archive was begun at. `LocalBackup` is `Acquire` (mutex, SaveWorld, sleep),
`Create`, `Walk`/`WalkFails`, `Retain` (one `os.Remove` each), `Retained` and
`Close`: the deferred Close calls come after the result is decided and may fail
silently. `GiveUp` is a `cmdStop` whose Podman.Stop failed. `UploadLatestToCloud`
is `UploadPick`, `UploadOpen`, `UploadPut` and `UploadClean`, without the mutex.
`Crash` kills the process anywhere. Errors of MkdirAll and os.Create change
nothing and are `GiveUp`; a listing that fails counts as a walk that fails.
`ArchiveStore` leaves out who does this and when: an archive is begun newer than
everything there is, only the newest is completed, one with Keep newer ones may
go; an upload sends an archive no older than any object and replaces no object by
less, and the newest object stays. It says nothing of mutexes, crashes or
failures: `Backups` implements it in spite of them.
Assumptions: the wall clock does not go back, one page of `ListObjectsV2` holds
a map's objects, and `save_wait_seconds` is at least one (`applyDefaults`).

### Schedule

One map and the scheduler goroutine with a clock of minutes. `Tick` ends a
minute; `Fire` is the minute ticker, anywhere in its minute, into a channel of
one; `TaskBegin` is `runMinuteTasks`, which takes its `now` when the tick is
taken. `LocalCollect`, `LocalDue`, `BackupLock`, `BackupEnd` and `Reschedule`
are `runLocalBackupScheduler`, `JobSkip`, `JobBegin` and `JobEnd` the cloud
backup and the announcements in the order of the code, one minute of the day
each. `StartRun`, `StartFinish`, `StopHalt` and `StopFinish` are the parts of
`cmdStart` and `cmdStop` that touch the container and the books. `Restart` begins
a new process with empty books; `RestoreCollect` and `Restore` are
`restoreRuntimeState`, whose two looks at the container are apart and beside
commands, and `Ready` makes the tickers. `NextFrom` is
`nextBackupFromStartNoLock`. `Key` is that of `lastScheduleRun`: what the job is
called, the date and the minute (bot.go 836, 887); with the date in it, the
comparison with one hour never decides otherwise. `Name` leaves the names open:
config.yaml need not give an announcement one, nor different ones (config.go
211-242). `begun` is a history variable of the jobs themselves. Scan and
presence ticks of the same goroutine only make a minute tick wait: `MaxWait`.

### Reload

The map set of config.yaml, the one in use (`cfg`, `mapByID`) and the mutexes,
each known by its number. An operation is `Ask` (`getMap`), `Lookup`
(`mapLock`, without `b.mu` unless the entry is missing), `Lock`, its effect on
the container and then on the books; `cmdConfigReload` is `ReloadLoad`,
`ReloadCopy`, `ReloadCheck` for each removed map with the `cmdStop` it calls, and
`ReloadSwap`. A reload may run beside another one. An invalid file ends it at
`ReloadLoad`. The Go runtime may find a map read while it is written and kill the
process, which is `Restart`; a read that races with the swap and is not caught
sees the entry before or after. `kept` (the maps of every
configuration so far) and `missed` (what a reload failed on or what was changed
behind its back) are history variables. Only the maps are followed through a
reload: other settings are read where they are used.

### IdleStop

The scan of one map with the times of `zeroSince`: `ScanBegin` is
`CollectStatuses` and `now`, `ListEmpty`, `ListSome` and `ListFails` are the
outcomes of `ListPlayers` as `parsePlayers` reports them, `JudgeZero` and
`JudgeSome` the section under `b.mu` that follows without the map's mutex,
`ScanStop*` the scan's `cmdStop`. Commands of handlers, a server that exits and
a new bot process come in between. Times are ages that stop growing at
`idle_stop_minutes` plus the length of a scan, so the clock needs no bound.
`empty` and `emptyAge` are history variables: since when scans have found the
map empty and nothing else. `MaxScan`, the longest scan, is an assumption: it is
exceeded only by a hanging Podman call (`hang`). How many people really play is
not part of the model, only what RCON answers.

## Runs

| run | instance | checks |
|---|---|---|
| `slash` | 3 maps, limit 1, 2 handlers, start and stop, restart | types, mutual exclusion, cold stop backup, truthful notices, the limit exceeded by less than the number of handlers, the invariant of the proofs |
| `everyone` | 1 map, 1 handler with every command, worker, all tickers, signal, restart | scans queue; no circular wait; a map reported started stays in the books; a map listed as stopped runs again only with a message; implements SerialMaps |
| `live` | 1 map, 1 handler with start, stop and scan, worker, scan ticker, signal | every command and a shutdown end; every tick is taken by a scan that ends |
| `minutes` | 1 map, interval 3, days of 4 minutes, 3 jobs, 9 minutes | backups on the grid and in time; jobs once a day, skipped only by a busy scheduler or behind one of the same name and time |
| `reload` | 2 maps, 2 goroutines, 2 edits | operations exclude each other on maps that stay; dropped maps that run are accounted for |
| `retention` | 1 map, 2 goroutines, Keep 2, 4 seconds | archives and bucket, one by one and as ArchiveStore |
| `watch` | 1 map, idle time 3, scans up to 2 | interval scans stop only maps found empty that long; a map nobody uses is stopped in the end |
| `hang`, `overstart`, `fresh`, `generations`, `relock` | smallest that shows it | disagreements, below |

Bounds. Two goroutines on one map and two maps for one goroutine are the
interleavings a mutex per map can get wrong; a third map and limit 1 let two
starts pass the check beside a full bot. One handler beside worker, scheduler and
`Main` is enough on one map, because every pair of kinds of work meets there and
`scanMu` makes further scans wait. The cluster set of `slash` holds the
configured id and one other. `live` leaves out `restart` (a successor owes
nothing), the rounds that take no mutex but a map's, and says
`CHECK_DEADLOCK FALSE` because the process ends after its shutdown. In
`retention`, Keep 2 and 4 seconds allow four archives, one more than
needed to delete one while a partial one counts. An idle time of 3 and scans of up
to 2 let an entry be made late, grow old during a scan and be kept over several.
In `minutes`, nine minutes hold two days, three intervals, a restart in each and
the time ticks may wait (`MaxWait` 1) or a task may take (`MaxTask` 1, which the
next tick then finds under way); two announcements share name and time, the first
on one of the two days only, so the second is sent on one and skipped on the other.
In `slash` and `overstart` the limit holds when the first process starts, which the
code does not check: containers left running by something else could exceed it from the
beginning, and then every start is refused. In `reload`, two edits let a map leave the
file and come back while a goroutine works on it. `MaxTime`, `MaxScan`,
`MaxTask`, `MaxWait`, `MaxClock` and `MaxEdit` are the only artificial bounds;
everything else is finite in the code.

### Fairness

`FairSpec` gives a handler strong fairness: its context ends after two minutes
(bot.go 218) and ends the calls that take it, and `sync.Mutex` hands itself to a
waiter that has waited a millisecond, so a mutex given back again and again is
obtained. The background goroutines and `Main` get the same outside Podman calls only:
they pass `context.Background()` (bot.go 678, 103-104; the 90 seconds of `Main` bound
its calls, but nothing bounds its wait for a mutex), and the HTTP client has
no timeout beyond the dial (podman.go 42-54). `ResponsiveSpec` adds that the
daemon answers every call; `live` uses it, and `hang` shows it is needed. That is
fairness of the whole of a goroutine's work, the shutdown's too: `ShutdownEnds`
says that no handler or scheduler can keep it from the mutexes it waits for, and
`EveryTickScanned` that the scan which takes a tick gets scanMu, the maps' mutexes
and its answers and returns; under `FairSpec` it may stay in `CollectStatuses` for
ever, with scanMu.
`FairSpec` of `IdleStop` lets time pass, the ticker's scans begin and end and
RCON answer again and again; `EmptyMapStopped` also supposes that from some time on
statuses are read, nobody plays, Podman.Stop works and the bot keeps running
(`Trouble`): each missed status or restart drops the entry, so without this the
map may stay up. Nothing is assumed of the callers: commands, ticks and crashes need not happen.

### Disagreements found

* `overstart`: two starts on different maps both pass the limit (bot.go
  326-347); the specification refuses a start over the limit (01_bot_spec.md
  263-270).
* `hang`: a Podman request without an answer in the scan worker keeps `scanMu`,
  and `/ark scan` outlives its own timeout; timeouts are to follow the
  configuration (01_bot_spec.md 422).
* `fresh`: `cmdStart` keeps an old entry of `zeroSince` (bot.go 363-368), so a
  map started again after a crash is stopped by the next scan, before it has run
  for idle_stop_minutes (01_bot_spec.md 333).
* `relock`: a reload deletes the mutex of a map that left the file although a
  goroutine holds it (bot.go 534-536); listed again, the map gets a new one and
  two operations on it run at once; they are to exclude each other
  (01_bot_spec.md 412).
* `generations`: the partial archive of a failed or killed backup counts as a
  generation and pushes whole ones out (backup.go 127-129, 141-165); keep_generations
  are to remain (01_bot_spec.md 354).

The upload takes the newest name without the map's mutex (backup.go 223-239), so
an archive still being written, or the rest of a failed backup, can be uploaded;
`Backups` has these behaviours, and no run asserts the contrary. Nor does one
assert that LocalBackup reports only whole archives (it returns nil before its
deferred Close calls flush them, and drops their errors, backup.go 90-94), or that
the cloud backup runs every day (01_bot_spec.md 361): `SkippedOnlyIfShadowed` says
when it does not.

One more is shown by a passing run: of two announcements of one name, or of none, at
one time the second is always skipped, because it finds the key of the first (bot.go
887-893), while the items of config.yaml are to be carried out at their times
(01_bot_spec.md 370, 377). `SkippedOnlyIfShadowed` states it as an equivalence, and
in `minutes` both sides occur.

## Proofs

`MapOpsProofs` proves, for any sets of maps and handlers, any limit and any
configuration (`MapOpsAssumption`), the safety properties of `slash` and
`everyone` and the refinement. None of them is inductive. `IInv` adds:

* `LockHeld`: a goroutine holds a map's mutex exactly while its label is in a
  section and its target is that map. Mutual exclusion is a corollary.
* `TargetChosen`, `RoomRead`: labels, targets and the remembered count agree;
  only handlers start maps.
* `ContainerKnown`: what a goroutine read or did under the mutex (removed,
  created, stopped) still holds of the container when it acts on it. Every other
  goroutine changes other maps only, and a server that exits goes from running
  to stopped, which no goroutine's knowledge excludes. The cold stop backup and
  the permitted transitions of `SerialMaps` follow.
* `UnreportedStart`: a map that runs although the channel was told it stopped is
  held by the start about to report it.
* `DoneDown`: the same for a map that a scan or a shutdown counts as stopped.
* `RoundPlaced`, `BooksKept`: where a goroutine may be in a round, so that
  `OneScan` is kept by the steps that begin and end a scan; and that no step but a
  stop takes a started map out of the books.
* `OneScan`, with `LockHeld`, leaves no room for a circle of waiting goroutines
  (`NoDeadlock`): who is waited for is in a map's section, where no mutex is
  taken, or holds `scanMu` and waits at most for one of those.
* `OvershootBounded`: starts that read room plus running maps stay within the
  bound: whoever reads room adds one when fewer than the limit run, and running a
  map turns a reader into a running map. `ExactAlone` is the case of one handler:
  there the limit itself (`RunningLimit`, which `overstart` refutes for two)
  holds.

`TurnFootprint` classifies each step of a goroutine by what it does to the
mutexes (stays, enters, leaves), so that the invariant's conjuncts of the other
goroutines are treated once, not once per action. `FiniteCounts` and `Balance`
isolate the arithmetic of cardinalities.

`BackupsProofs` proves that a whole archive is never overwritten, from `BInv`:
the section is exclusive, archives are not of the future, and none has been
begun since the mutex holder's sleep began, so the name it then uses is new. For
retention `BInv` adds `SurplusOld`: what is still to be deleted has Keep newer
archives, and Keep at most remain without it. The listing establishes it
(`NewestKept`: the oldest of the times with fewer than Keep newer ones bounds
their number), and deleting the oldest first keeps the newer ones of the others.

The bucket follows from `BucketBehind`: the directory always reaches the newest
object and the archive picked for an upload, because only archives with newer
ones are deleted (`DirectoryReaches`), and a cleanup finds the newest object
modified this moment. So what is uploaded is as new as all there is
(`BucketForward`) and the cleanup leaves the newest object (`BucketKept`).
`WritesNewest` (the archive being written is the newest, so its own retention
spares it) and `BucketWhole` (what the bucket or the open upload has whole is
not being written, and the upload holds no less than the bucket) complete what
`StoreImplemented` needs: every step of `Backups` is one of `ArchiveStore` or
invisible there (`BackupMapped`, `UploadMapped`). `NameUnused` is the step that
matters: a new archive's second is beyond that of every archive, object and
upload under way.

`ScheduleProofs` proves for every interval, day, week and list of jobs that
`nextBackupFromStart` yields the first multiple after now (`NextIsFirst`), and
from `SInv` that the two books stay on one grid and within an interval (the books
change in the five ways of `BooksStep`, whoever does it), and that no job is done
twice for a day (`JobRecorded`: the key of what is begun is recorded, but for the
job at hand). The deadline of a running map's backup (`BackupsInTime`) follows from three
parts, for every interval and every `MaxWait` and `MaxTask`: a task begins at most
`Reach` minutes after the one before (`TickTimes`); what the books and the
goroutine hold from before the last backup, start or restore is old
(`QuietTimes`); and the next backup is entered by the first task after that, and
taken by the first one after it is due (`Underway`). The bound is tight: one
minute less is violated in the instance of `minutes`. `IdleSkipsOnlyShadowed`
holds for any names, shared or not. Jobs come in order and the key of each due one
is recorded before the next (`JobsReached`), so an idle scheduler has the keys of
all that were due in its last task's minute, and `TickTimes` says which minute that
was. A recorded key is that of a job begun (`JobRecorded`), and of the jobs with
one key only the first is ever begun (`FirstOfKey`, from `JobsReached` again: the one
before would have been recorded); so a due job has been begun, or it is behind
another of its key.

`ReloadProofs` proves for any maps, goroutines and number of reloads that
operations exclude each other on maps that stay, from `KeptLock` (such a map has
its first mutex still, and who works on it or waits for it has looked up that
one), and that a running map a reload drops is accounted for, from
`ReloadChecked` (a map it has dealt with is down or missed). `ReloadsHarmless`:
with no edit (`MaxEdit` 0) all maps of the file stay, so operations exclude each
other without exception, whatever reloads overlap; `relock` needs its edits.

`IdleStopProofs` proves that an interval scan respects idle_stop_minutes, from
`TimeInv`: an entry is no older than the run of empty scans it stands for, and
saturating ages keep their order.

Every safety and action property of the passing runs is a theorem. Only
model-checked: liveness (`EveryCommandReturns`, `EveryTickScanned`,
`ShutdownEnds`, `EmptyMapStopped`), which needs fairness and ENABLED and is out of
the prover's reach; its safety part, that the mutexes admit no circle, is
`NoDeadlock`. The violations are runs of their own.

## Plan

Done: `Podman`, `SerialMaps`, `MapOps`, `Backups`, `IdleStop`, `Schedule`,
`Reload`, in this order: the commands first, because every other part calls
them, then what is kept on disk, the clock of the scan, the clock of the
schedulers, and the reload that changes what the others stand on. Shutdown and
restart are part of `MapOps`. Then the theorems: first the invariants of each
module, then the deadline, the bucket, the mutexes and `ArchiveStore`. Left to do:

1. Two maps in `Schedule`: the backup of one delays the tick of the other, which
   `MaxTask` bounds instead.
2. An abstract map set that `Reload` implements as far as its maps stay, as
   `SerialMaps` is for `MapOps`.

## Not modelled

* Formatting of replies, memory statistics, sizes shown by `/ark status`, the
  logger, and Discord's delivery of messages: no property is about them.
* `allowedChannel` and `permissionAllowed`, the defaults of `applyDefaults` beyond
  the assumptions on constants, `parsePlayers`: text and comparisons in one
  step, which unit tests reach.
* Settings other than the maps through a reload: a `cluster_id` or a port changed
  by one (`cmdStart` recreates a container only for another cluster_id, so a new
  port waits until the container is removed, which the answer calls
  restart_required); a torn read of `*b.cfg` while `cmdConfigReload` assigns it
  (bot.go 527), a data race whose outcomes are not bounded by the language; two
  entries of one map_id, which `Validate` does not refuse.
* A Podman call that takes effect after its caller has gone, in particular one
  that outlives a restart of the bot.
* The map image's start script and the host scripts: sequential shell that
  bypasses the bot's mutexes.
