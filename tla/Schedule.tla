------------------------------ MODULE Schedule ------------------------------
(***************************************************************************)
(* The minute tasks of runSchedulers with their clock, for one map: the    *)
(* local backup every Interval minutes from the map's start               *)
(* (runLocalBackupScheduler) and then the jobs of fixed times of the day,  *)
(* the cloud backup first and the announcements after it.  One goroutine   *)
(* does all of it, one tick at a time; handlers start and stop the map and *)
(* the process may be killed meanwhile.  A new process answers commands    *)
(* before restoreRuntimeState has filled its books and the ticker exists.  *)
(*                                                                         *)
(* A time is a minute.  The ticker fires once in every minute, at any      *)
(* moment of it, into a channel of capacity one; presence updates of the   *)
(* same goroutine and long tasks let the tick wait there.                  *)
(***************************************************************************)
EXTENDS Naturals

CONSTANTS
  Interval,   \* backup.local.interval_minutes
  DayLen,     \* minutes in a day
  WeekLen,    \* days in a week
  JobCount,   \* the cloud backup and the announcements, in code order
  Name,       \* what its key in lastScheduleRun begins with: "cloud", items[].name
  Minute,     \* schedule_hhmm and items[].time, a minute of the day
  Weekdays,   \* the days of the week of each
  MaxTask,    \* bound: minutes one minute task takes
  MaxWait,    \* bound: minutes a tick waits for a goroutine without a task
  MaxClock    \* bound: the last minute

Job == 1 .. JobCount

ASSUME ScheduleAssumption ==
  /\ Interval \in Nat \ {0}          \* applyDefaults turns <= 0 into 120
  /\ DayLen \in Nat \ {0} /\ WeekLen \in Nat \ {0}
  /\ JobCount \in Nat /\ MaxTask \in Nat /\ MaxWait \in Nat
  /\ MaxClock \in Nat
  /\ Name = [j \in Job |-> Name[j]]   \* Validate asks for no name, nor for
                                     \* different ones
  /\ Minute \in [Job -> 0 .. DayLen - 1]
  /\ Weekdays \in [Job -> SUBSET (0 .. WeekLen - 1)]

VARIABLES
  clock,      \* the current minute
  fired,      \* the ticker has fired in it
  pending,    \* a tick waits in the channel
  late,       \* for how many minutes, with no task under way
  phase,      \* where restoreRuntimeState or runMinuteTasks stands
  now,        \* the time it works with
  job,        \* the job it has reached
  up,         \* the map's container is running
  since,      \* its StartedAt
  startedAt,  \* b.startedAt, None when missing
  next,       \* b.nextLocalBackup, None when missing
  holder,     \* who has the map's mutex across steps
  ran,        \* the keys of b.lastScheduleRun
  booted,     \* when the process made its tickers
  begun,      \* jobs begun in this process, each with its day
  quiet       \* since when the map runs and is seen running without a backup

ticker == <<fired, pending, late>>
task   == <<phase, now, job>>
server == <<up, since>>
books  == <<startedAt, next>>
jobs   == <<ran, begun>>
vars == <<clock, ticker, task, server, books, holder, jobs, booted, quiet>>

None == 0   \* time.Time{}, what a missing entry reads as

DayOf(t) == t \div DayLen
Today == DayOf(now)

\* The key of a job's run of day d: its name, the date and the minute.
Key(j, d) == <<Name[j], d, Minute[j]>>

\* weekdayMatch
OnDay(j, d) == d % WeekLen \in Weekdays[j]

\* parseHHMM, weekdayMatch and sameClockMinute.
DueAt(j, t) == t % DayLen = Minute[j] /\ OnDay(j, DayOf(t))

\* Mutant: one interval too many.
NextFromLater(started, t) ==
  started + (IF t <= started THEN 1 ELSE (t - started) \div Interval + 2) * Interval

\* nextBackupFromStart: the first multiple of the interval after now.
NextFrom(started, t) ==
  started + (IF t <= started THEN 1 ELSE (t - started) \div Interval + 1) * Interval

\* The entries for a map when one is missing are made up from t.
Started(t) == IF startedAt = None THEN t ELSE startedAt

Init ==
  /\ clock = 1 /\ booted = 1
  /\ fired = TRUE /\ pending = FALSE /\ late = 0
  /\ phase = "boot" /\ now = 1 /\ job = 1
  /\ up \in BOOLEAN /\ since = 1
  /\ startedAt = None /\ next = None
  /\ holder = "free"
  /\ ran = {} /\ begun = {}
  /\ quiet = 1

-----------------------------------------------------------------------------
(* The clock and the ticker *)

Busy == phase # "idle"
Starting == phase \in {"boot", "restore"}

\* A minute ends; the next may have its tick, once there is a ticker.
Tick ==
  /\ fired /\ clock < MaxClock
  /\ Busy => clock < now + MaxTask
  /\ pending /\ ~Busy => late < MaxWait
  /\ clock' = clock + 1
  /\ fired' = Starting
  /\ late' = IF pending /\ ~Busy THEN late + 1 ELSE late
  /\ UNCHANGED <<pending, task, server, books, holder, jobs, booted, quiet>>

\* A tick that finds one in the channel is dropped.
Fire ==
  /\ ~fired
  /\ fired' = TRUE /\ pending' = TRUE
  /\ UNCHANGED <<clock, late, task, server, books, holder, jobs, booted, quiet>>

\* runMinuteTasks: now is when the tick is taken, not when it fired.
TaskBegin ==
  /\ pending /\ ~Busy
  /\ pending' = FALSE /\ late' = 0
  /\ phase' = "local" /\ now' = clock
  /\ UNCHANGED <<clock, fired, job, server, books, holder, jobs, booted, quiet>>

-----------------------------------------------------------------------------
(* restoreRuntimeState *)

\* runSchedulers makes its tickers; the first tick comes a minute later.
Ready ==
  /\ phase' = "idle" /\ fired' = TRUE
  /\ booted' = clock /\ quiet' = clock
  /\ UNCHANGED now

\* CollectStatuses, where an error reads as not running.
RestoreCollect ==
  /\ phase = "boot"
  /\ \/ up /\ phase' = "restore" /\ now' = clock
        /\ UNCHANGED <<fired, booted, quiet>>
     \/ Ready
  /\ UNCHANGED <<clock, pending, late, job, server, books, holder, jobs>>

\* A second InspectState, which does not look at Running again: its StartedAt,
\* or now if there is none, goes over whatever a command entered meanwhile.
Restore ==
  /\ phase = "restore"
  /\ \/ UNCHANGED books                                     \* inspect error
     \/ \E s \in {since, now} : startedAt' = s /\ next' = NextFrom(s, now)
  /\ Ready
  /\ UNCHANGED <<clock, pending, late, job, server, holder, jobs>>

-----------------------------------------------------------------------------
(* runLocalBackupScheduler *)

\* CollectStatuses, where an error reads as not running.
LocalCollect ==
  /\ phase = "local"
  /\ \/ up /\ phase' = "due" /\ UNCHANGED quiet
     \/ phase' = "job" /\ quiet' = clock
  /\ UNCHANGED <<clock, ticker, now, job, server, books, holder, jobs, booted>>

\* Mutant: a missing entry is not stored.
LocalDueForgets ==
  /\ phase = "due"
  /\ phase' = IF next # None /\ now >= next THEN "wait" ELSE "job"
  /\ UNCHANGED <<clock, ticker, now, job, server, books, holder, jobs, booted,
                 quiet>>

\* The section under b.mu.
LocalDue ==
  LET n == IF next = None THEN NextFrom(Started(now), now) ELSE next IN
  /\ phase = "due"
  /\ startedAt' = IF next = None THEN Started(now) ELSE startedAt
  /\ next' = n
  /\ phase' = IF now < n THEN "job" ELSE "wait"
  /\ UNCHANGED <<clock, ticker, now, job, server, holder, jobs, booted, quiet>>

BackupLock ==
  /\ phase = "wait" /\ holder = "free"
  /\ phase' = "backup" /\ holder' = "tick"
  /\ UNCHANGED <<clock, ticker, now, job, server, books, jobs, booted, quiet>>

\* SaveWorld, the sleep and LocalBackup, whatever their results.
BackupEnd ==
  /\ phase = "backup"
  /\ phase' = "resched" /\ holder' = "free"
  /\ quiet' = clock
  /\ UNCHANGED <<clock, ticker, now, job, server, books, jobs, booted>>

\* Mutant: the next time lies an interval after this tick.
RescheduleFromNow ==
  /\ phase = "resched"
  /\ startedAt' = Started(now)
  /\ next' = now + Interval
  /\ phase' = "job"
  /\ UNCHANGED <<clock, ticker, now, job, server, holder, jobs, booted, quiet>>

\* The mutex was given back: the map may have been stopped, or started again.
Reschedule ==
  /\ phase = "resched"
  /\ startedAt' = Started(now)
  /\ next' = NextFrom(Started(now), now)
  /\ phase' = "job"
  /\ UNCHANGED <<clock, ticker, now, job, server, holder, jobs, booted, quiet>>

-----------------------------------------------------------------------------
(* runCloudBackupScheduler, runAnnouncementScheduler *)

\* Mutant: the key is the name without the date.
DoneUndated(j) == \E k \in ran : k[1] = Name[j]

Done(j) == Key(j, Today) \in ran

\* The uploads, or CollectStatuses and the message.
JobBegin ==
  /\ phase = "job" /\ job \in Job
  /\ DueAt(job, now) /\ ~Done(job)
  /\ phase' = "run"
  /\ begun' = begun \cup {<<job, Today>>}
  /\ UNCHANGED <<clock, ticker, now, job, server, books, holder, ran, booted,
                 quiet>>

JobSkip ==
  /\ phase = "job" /\ job \in Job
  /\ ~DueAt(job, now) \/ Done(job)
  /\ job' = job + 1
  /\ UNCHANGED <<clock, ticker, phase, now, server, books, holder, jobs, booted,
                 quiet>>

\* Mutant: the run is not recorded.
JobEndUnrecorded ==
  /\ phase = "run"
  /\ phase' = "job" /\ job' = job + 1
  /\ UNCHANGED <<clock, ticker, now, server, books, holder, jobs, booted, quiet>>

\* lastScheduleRun is written afterwards.  Its key holds the date and the
\* minute, so an entry of the same key is never an hour old.
JobEnd ==
  /\ phase = "run"
  /\ ran' = ran \cup {Key(job, Today)}
  /\ phase' = "job" /\ job' = job + 1
  /\ UNCHANGED <<clock, ticker, now, server, books, holder, begun, booted, quiet>>

TaskEnd ==
  /\ phase = "job" /\ job \notin Job
  /\ phase' = "idle" /\ job' = 1
  /\ UNCHANGED <<clock, ticker, now, server, books, holder, jobs, booted, quiet>>

Task ==
  \/ LocalCollect \/ LocalDue \/ BackupLock \/ BackupEnd \/ Reschedule
  \/ JobBegin \/ JobSkip \/ JobEnd \/ TaskEnd

-----------------------------------------------------------------------------
(* Commands on the map, its server, and the process *)

\* Podman.Start in cmdStart; an error after the effect leaves the books alone.
StartRun ==
  /\ holder = "free" /\ ~up
  /\ up' = TRUE /\ since' = clock /\ quiet' = clock
  /\ holder' \in {"free", "start"}
  /\ UNCHANGED <<clock, ticker, task, books, jobs, booted>>

StartFinish ==
  /\ holder = "start"
  /\ startedAt' = clock /\ next' = clock + Interval
  /\ holder' = "free" /\ quiet' = clock
  /\ UNCHANGED <<clock, ticker, task, server, jobs, booted>>

\* Podman.Stop in cmdStop.
StopHalt ==
  /\ holder = "free" /\ up
  /\ up' = FALSE
  /\ holder' \in {"free", "stop"}
  /\ UNCHANGED <<clock, ticker, task, since, books, jobs, booted, quiet>>

\* Mutant: the time of the next backup outlives the stop.
StopFinishKeepsNext ==
  /\ holder = "stop"
  /\ startedAt' = None /\ UNCHANGED next
  /\ holder' = "free"
  /\ UNCHANGED <<clock, ticker, task, server, jobs, booted, quiet>>

StopFinish ==
  /\ holder = "stop"
  /\ startedAt' = None /\ next' = None
  /\ holder' = "free"
  /\ UNCHANGED <<clock, ticker, task, server, jobs, booted, quiet>>

ServerExits ==
  /\ up
  /\ up' = FALSE
  /\ UNCHANGED <<clock, ticker, task, since, books, holder, jobs, booted, quiet>>

\* The process dies and a new one begins.
Restart ==
  /\ fired' = TRUE /\ pending' = FALSE /\ late' = 0
  /\ phase' = "boot" /\ now' = clock /\ job' = 1
  /\ startedAt' = None /\ next' = None
  /\ holder' = "free" /\ ran' = {} /\ begun' = {}
  /\ booted' = clock /\ quiet' = clock
  /\ UNCHANGED <<clock, server>>

Next ==
  \/ Tick \/ Fire \/ TaskBegin \/ Task \/ RestoreCollect \/ Restore
  \/ StartRun \/ StartFinish \/ StopHalt \/ StopFinish \/ ServerExits
  \/ Restart

Spec == Init /\ [][Next]_vars

-----------------------------------------------------------------------------
(* Properties *)

Phase == {"boot", "restore", "idle", "local", "due", "wait", "backup", "resched", "job", "run"}

Keys == {Name[j] : j \in Job} \X Nat \X (0 .. DayLen - 1)

\* Every variable has its type, and no time noted lies in the future.
TypeOK ==
  /\ clock \in Nat \ {0} /\ fired \in BOOLEAN /\ pending \in BOOLEAN /\ late \in Nat
  /\ phase \in Phase /\ now \in 1 .. clock /\ job \in 1 .. JobCount + 1
  /\ up \in BOOLEAN /\ since \in 1 .. clock
  /\ startedAt \in {None} \cup 1 .. clock
  /\ next \in Nat
  /\ holder \in {"free", "tick", "start", "stop"}
  /\ ran \subseteq Keys /\ begun \subseteq Job \X Nat
  /\ booted \in 1 .. clock /\ quiet \in 1 .. clock

\* docs/spec/01_bot_spec.md:352: backups come every interval from the start of
\* the map.  Whoever wrote the two entries last, in whatever order the stop,
\* the start and the scheduler's late write came, the next backup is a whole
\* number of intervals after the start entered beside it.
OnGrid ==
  /\ next = None <=> startedAt = None
  /\ next # None => \E k \in 1 .. next : next = startedAt + k * Interval

\* No backup is put off beyond one interval from now: a stop, a restart or the
\* scheduler's late write never moves it further away.
NeverPutOff == next # None => next <= clock + Interval

\* The mutex is held across steps by the task's backup or by a command.
BackupHolds == phase = "backup" <=> holder = "tick"

\* Every key recorded is that of a job begun, and what the goroutine has begun
\* and not recorded is the job at hand.
JobRecorded ==
  /\ \A k \in ran : \E b \in begun : k = Key(b[1], b[2])
  /\ \A b \in begun : Key(b[1], b[2]) \in ran \/ (phase = "run" /\ b = <<job, Today>>)
  /\ phase = "run" => job \in Job /\ <<job, Today>> \in begun

\* A job before j in the list has its key on day d: the same name, not asked to
\* be unique or even there, and the same minute.
Shadowed(j, d) ==
  \E i \in 1 .. j - 1 : Name[i] = Name[j] /\ Minute[i] = Minute[j] /\ OnDay(i, d)

\* Of the jobs that share a key, only the first is ever begun, on its days.
FirstOfKey == \A b \in begun : OnDay(b[1], b[2]) /\ ~Shadowed(b[1], b[2])

\* A minute task begins at most Reach minutes after the one before it, or after
\* the process was Ready: the tick missed meanwhile waits in the channel.
Gap   == IF MaxTask = 0 THEN 1 ELSE MaxTask
Reach == MaxWait + Gap
Last  == IF booted > now THEN booted ELSE now

TickTimes ==
  /\ late <= MaxWait
  /\ Busy => clock <= now + MaxTask
  /\ Starting => fired /\ ~pending
  /\ Busy /\ ~Starting => booted <= now
  /\ ~Starting /\ ~pending => clock <= Last + (IF fired THEN 0 ELSE 1)
  /\ ~Busy => clock <= Last + Gap + late

\* What the books and the goroutine hold of the time before quiet is old.
QuietTimes ==
  /\ holder = "stop" => ~up
  /\ since <= quiet /\ booted <= quiet
  /\ startedAt <= quiet \/ startedAt <= now
  /\ phase \in {"boot", "resched"} => now <= quiet
  /\ phase = "restore" => now <= quiet + MaxTask

\* How far the scheduler has come with a map that runs since quiet: its next
\* backup is entered by the first task after quiet, and the last task before
\* this one began before it was due.
Underway ==
  up => /\ next # None => next <= quiet + Interval + Reach
        /\ phase \in {"idle", "job", "run"}
             => now <= quiet \/ (next # None /\ now < next)
        /\ phase \in {"local", "due"} /\ next = None => now <= quiet + Reach
        /\ phase \in {"local", "due", "wait", "backup"}
             => now < quiet + Interval + 2 * Reach

\* The jobs of the task at hand, or of the last one, come in order, and the key
\* of each that was due is recorded when the next one is reached.
JobsReached ==
  /\ phase \notin {"job", "run"} => job = 1
  /\ \A j \in Job :
       /\ \/ phase \in {"job", "run"} /\ j < job
          \/ phase = "idle" /\ booted < now
       /\ DueAt(j, now)
       => Key(j, Today) \in ran

SInv ==
  /\ TypeOK /\ OnGrid /\ NeverPutOff /\ BackupHolds /\ JobRecorded /\ FirstOfKey
  /\ TickTimes /\ QuietTimes /\ Underway /\ JobsReached

\* A map that runs, and that every tick finds running, is backed up within an
\* interval and the time ticks wait and tasks take, counted from its start, its
\* last backup or the end of restoreRuntimeState.
Slack == 2 * Reach + MaxTask - 1
BackedUpInTime == up => clock - quiet <= Interval + Slack

\* No job is done twice for one day in the life of a process, although two
\* ticks may be taken in one minute.
OncePerDay ==
  [][phase = "job" /\ phase' = "run" => <<job, Today>> \notin begun]_vars

\* A job whose minute ends has been begun, unless the goroutine was kept by an
\* earlier task or a presence update, or the process is too young to have had a
\* tick, or a job before it in the list has its name and its time that day. That
\* one is never begun: bot.go:887-893 finds the key of the first. So two items
\* with one name, or none, at one time are one announcement, though
\* docs/spec/01_bot_spec.md:370 and 377 have each carried out at its time.
SkippedOnlyIfShadowed ==
  [][\A j \in Job : clock' > clock /\ DueAt(j, clock)
                      /\ ~Busy /\ ~pending /\ booted < clock
                      => (<<j, DayOf(clock)>> \in begun
                            <=> ~Shadowed(j, DayOf(clock)))]_vars
=============================================================================
