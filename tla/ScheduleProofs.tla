--------------------------- MODULE ScheduleProofs ---------------------------
(* Theorems about Schedule, for every interval, day, week and list of jobs. *)
EXTENDS Schedule, TLAPS

LEMMA Numbers ==
  /\ Interval \in Nat /\ Interval >= 1 /\ JobCount \in Nat
  /\ DayLen \in Nat /\ DayLen >= 1
BY ScheduleAssumption

LEMMA Bounds ==
  /\ MaxTask \in Nat /\ MaxWait \in Nat
  /\ Gap \in Nat /\ Gap >= 1 /\ Gap >= MaxTask
  /\ Reach \in Nat /\ Reach = MaxWait + Gap /\ Reach >= 1
BY ScheduleAssumption DEF Gap, Reach

\* Rounding down to a multiple of d and adding d passes the number, and by no
\* more than d.
LEMMA FloorBounds ==
  ASSUME NEW n \in Nat, NEW d \in Nat, d >= 1
  PROVE  /\ n \div d \in Nat
         /\ (n \div d) * d <= n
         /\ n < (n \div d + 1) * d
OBVIOUS

\* What holds of a time holds of it later.
LEMMA Later ==
  ASSUME NEW x \in Nat, NEW y \in Nat, y >= x
  PROVE  /\ 1 .. x \subseteq 1 .. y
         /\ \A i, n \in Nat : n <= x + i => n <= y + i
OBVIOUS

-----------------------------------------------------------------------------
(* nextBackupFromStart *)

\* The next backup is a multiple of the interval from the start; it lies after
\* now, and an interval earlier it would not have (or not after the start).
THEOREM NextIsFirst ==
  ASSUME NEW s \in Nat, NEW t \in Nat
  PROVE  /\ NextFrom(s, t) \in Nat
         /\ \E k \in 1 .. NextFrom(s, t) : NextFrom(s, t) = s + k * Interval
         /\ t < NextFrom(s, t)
         /\ s <= t => NextFrom(s, t) <= t + Interval
         /\ t <= s => NextFrom(s, t) = s + Interval
<1>0. Interval \in Nat /\ Interval >= 1
  BY Numbers
<1>1. CASE t <= s
  <2>1. NextFrom(s, t) = s + 1 * Interval
    BY <1>1 DEF NextFrom
  <2>2. 1 * Interval = Interval
    BY <1>0
  <2> QED
    BY <1>0, <1>1, <2>1, <2>2
<1>2. CASE ~(t <= s)
  <2> DEFINE n == t - s
             q == n \div Interval
             k == q + 1
  <2>1. n \in Nat /\ n >= 1 /\ t = s + n
    BY <1>2
  <2>2. NextFrom(s, t) = s + k * Interval
    BY <1>2 DEF NextFrom
  <2>3. q \in Nat /\ q * Interval <= n /\ n < k * Interval
    BY <1>0, <2>1, FloorBounds
  <2> HIDE DEF q
  <2>4. k * Interval = q * Interval + Interval /\ k * Interval \in Nat
    BY <1>0, <2>3
  <2>5. k \in Nat /\ k >= 1 /\ k <= k * Interval
    BY <1>0, <2>3
  <2> HIDE DEF k, n
  <2>6. NextFrom(s, t) \in Nat /\ k \in 1 .. NextFrom(s, t)
    BY <1>0, <2>2, <2>4, <2>5
  <2> QED
    BY <1>0, <1>2, <2>1, <2>2, <2>3, <2>4, <2>6
<1> QED
  BY <1>1, <1>2

\* What the books hold after nextBackupFromStart worked on a start and a time
\* that are not in the future.
LEMMA Entered ==
  ASSUME TypeOK, NEW s \in 1 .. clock, NEW t \in 1 .. clock
  PROVE  /\ NextFrom(s, t) \in Nat /\ NextFrom(s, t) # None
         /\ \E k \in 1 .. NextFrom(s, t) : NextFrom(s, t) = s + k * Interval
         /\ NextFrom(s, t) <= clock + Interval
<1>1. s \in Nat /\ t \in Nat /\ clock \in Nat /\ Interval \in Nat
  BY Numbers DEF TypeOK
<1> DEFINE r == NextFrom(s, t)
<1>2. /\ r \in Nat /\ t < r
      /\ \E k \in 1 .. r : r = s + k * Interval
      /\ s <= t => r <= t + Interval
      /\ t <= s => r = s + Interval
  BY <1>1, NextIsFirst
<1> HIDE DEF r
<1>3. r # None /\ r <= clock + Interval
  BY <1>1, <1>2 DEF None
<1> QED
  BY <1>2, <1>3 DEF r

LEMMA KeyType ==
  ASSUME NEW j \in Job, NEW d \in Nat
  PROVE  Key(j, d) \in Keys
BY ScheduleAssumption DEF Key, Keys

LEMMA TodayType == TypeOK => Today \in Nat
<1> SUFFICES ASSUME TypeOK PROVE now \div DayLen \in Nat
  BY DEF Today, DayOf
<1>1. now \in Nat
  BY DEF TypeOK
<1> QED
  BY <1>1, Numbers, FloorBounds

\* Whoever shares j's key on a day shares its name and minute.
LEMMA SameKey ==
  ASSUME NEW i, NEW j, NEW c, NEW d, Key(i, c) = Key(j, d)
  PROVE  Name[i] = Name[j] /\ c = d /\ Minute[i] = Minute[j]
BY DEF Key

-----------------------------------------------------------------------------
(* The invariant *)

LEMMA InitHolds == Init => SInv
<1> SUFFICES ASSUME Init PROVE SInv
  OBVIOUS
<1> USE DEF Init
<1>0. JobCount \in Nat /\ 1 \in 1 .. JobCount + 1 /\ 1 \in 1 .. clock /\ clock \in Nat \ {0}
  BY Numbers
<1>2. startedAt \in {None} \cup 1 .. clock /\ next \in Nat /\ OnGrid /\ NeverPutOff
  BY DEF OnGrid, NeverPutOff, None
<1>3. TypeOK
  BY <1>0, <1>2 DEF TypeOK, Phase
<1>4. BackupHolds /\ JobRecorded /\ FirstOfKey
  BY DEF BackupHolds, JobRecorded, FirstOfKey
<1>5. MaxTask \in Nat /\ MaxWait \in Nat /\ Reach \in Nat /\ Reach >= 1 /\ Interval \in Nat
  BY Numbers, Bounds
<1>6. TickTimes /\ QuietTimes
  BY <1>5 DEF TickTimes, QuietTimes, Busy, Starting, None
<1>7. Underway /\ JobsReached
  BY <1>5 DEF Underway, JobsReached, None
<1> QED
  BY <1>2, <1>3, <1>4, <1>6, <1>7 DEF SInv

\* The books change in five ways.
Deleted == startedAt' = None /\ next' = None
Entering == \E s, t \in 1 .. clock : startedAt' = s /\ next' = NextFrom(s, t)
Reported == startedAt' = clock /\ next' = clock + Interval

LEMMA BooksStep ==
  ASSUME TypeOK, Next
  PROVE  /\ clock' = clock \/ (clock' = clock + 1 /\ UNCHANGED books)
         /\ UNCHANGED books \/ Deleted \/ Entering \/ Reported
<1> USE DEF books, ticker, task, server, jobs
<1>0. clock \in Nat \ {0} /\ now \in 1 .. clock /\ clock \in 1 .. clock /\ since \in 1 .. clock
  BY DEF TypeOK
<1>1. Started(now) \in 1 .. clock
  BY <1>0 DEF Started, TypeOK
<1>2. CASE Tick \/ Fire \/ TaskBegin
  BY <1>2 DEF Tick, Fire, TaskBegin
<1>3. CASE LocalDue
  <2>1. CASE next = None
    <3>1. startedAt' = Started(now) /\ next' = NextFrom(Started(now), now)
      BY <1>3, <2>1 DEF LocalDue
    <3> QED
      BY <1>0, <1>1, <1>3, <3>1 DEF LocalDue, Entering
  <2>2. CASE next # None
    BY <1>3, <2>2 DEF LocalDue
  <2> QED
    BY <2>1, <2>2
<1>4. CASE Reschedule
  <2>1. startedAt' = Started(now) /\ next' = NextFrom(Started(now), now)
    BY <1>4 DEF Reschedule
  <2> QED
    BY <1>0, <1>1, <1>4, <2>1 DEF Reschedule, Entering
<1>5. CASE LocalCollect \/ BackupLock \/ BackupEnd \/ JobBegin \/ JobSkip \/ JobEnd
           \/ TaskEnd
  BY <1>5 DEF LocalCollect, BackupLock, BackupEnd, JobBegin, JobSkip, JobEnd, TaskEnd
<1>6. CASE StartRun \/ StopHalt \/ ServerExits
  BY <1>6 DEF StartRun, StopHalt, ServerExits
<1>8. CASE StartFinish \/ StopFinish
  BY <1>8 DEF StartFinish, StopFinish, Deleted, Reported
<1>7. CASE Restart \/ RestoreCollect
  BY <1>7 DEF Restart, RestoreCollect, Deleted
<1>9. CASE Restore
  BY <1>0, <1>9 DEF Restore, Entering
<1> QED
  BY <1>2, <1>3, <1>4, <1>5, <1>6, <1>7, <1>8, <1>9 DEF Next, Task

LEMMA BooksKept ==
  ASSUME SInv, Next
  PROVE  /\ startedAt' \in {None} \cup 1 .. clock' /\ next' \in Nat
         /\ OnGrid' /\ NeverPutOff'
<1> USE DEF SInv
<1>0. /\ clock \in Nat \ {0} /\ clock' \in Nat /\ clock' >= clock
      /\ Interval \in Nat /\ Interval >= 1 /\ next \in Nat
  BY BooksStep, Numbers DEF TypeOK
<1>5. /\ 1 .. clock \subseteq 1 .. clock'
      /\ \A n \in Nat : n <= clock + Interval => n <= clock' + Interval
  BY <1>0, Later
<1>1. CASE UNCHANGED books
  <2>2. startedAt' = startedAt /\ next' = next
    BY <1>1 DEF books
  <2>3. startedAt' \in {None} \cup 1 .. clock'
    BY <1>5, <2>2 DEF TypeOK
  <2>4. NeverPutOff'
    <3>1. ASSUME next # None PROVE next <= clock' + Interval
      BY <1>0, <1>5, <3>1 DEF NeverPutOff
    <3> QED
      BY <2>2, <3>1 DEF NeverPutOff
  <2> QED
    BY <1>0, <2>2, <2>3, <2>4 DEF OnGrid
<1>2. CASE Deleted
  BY <1>0, <1>2 DEF Deleted, OnGrid, NeverPutOff, None
<1>3. ASSUME NEW s \in 1 .. clock, NEW t \in 1 .. clock,
             startedAt' = s, next' = NextFrom(s, t)
      PROVE  /\ startedAt' \in {None} \cup 1 .. clock' /\ next' \in Nat
             /\ OnGrid' /\ NeverPutOff'
  <2>1. /\ NextFrom(s, t) \in Nat /\ NextFrom(s, t) # None
        /\ \E k \in 1 .. NextFrom(s, t) : NextFrom(s, t) = s + k * Interval
        /\ NextFrom(s, t) <= clock + Interval
    BY Entered
  <2>2. s # None /\ s \in 1 .. clock'
    BY <1>5 DEF None
  <2>3. next' <= clock' + Interval
    <3>1. NextFrom(s, t) <= clock' + Interval
      BY <1>5, <2>1
    <3> QED
      BY <1>3, <3>1
  <2> QED
    BY <1>3, <2>1, <2>2, <2>3 DEF OnGrid, NeverPutOff
<1>4. CASE Reported
  <2>1. /\ clock + Interval = clock + 1 * Interval /\ 1 \in 1 .. clock + Interval
        /\ clock + Interval \in Nat /\ clock + Interval <= clock + Interval
        /\ clock \in 1 .. clock /\ clock + Interval # 0
    BY <1>0
  <2>2. clock \in 1 .. clock' /\ clock + Interval <= clock' + Interval
    BY <1>5, <2>1
  <2>3. startedAt' = clock /\ next' = clock + Interval
    BY <1>4 DEF Reported
  <2> HIDE <1>4
  <2>4. startedAt' # None /\ next' # None
    BY <2>1, <2>2, <2>3 DEF None
  <2>5. \E k \in 1 .. next' : next' = startedAt' + k * Interval
    BY <2>1, <2>3
  <2> QED
    BY <2>1, <2>2, <2>3, <2>4, <2>5 DEF OnGrid, NeverPutOff
<1> QED
  BY <1>1, <1>2, <1>3, <1>4, BooksStep DEF Entering

\* A job begun now is the first of its key: one before it in the list would have
\* been due as well, and its key, the same one, recorded.
LEMMA BeginsFirst ==
  ASSUME SInv, JobBegin
  PROVE  OnDay(job, Today) /\ ~Shadowed(job, Today)
<1>1. /\ phase = "job" /\ job \in Job /\ DueAt(job, now) /\ Key(job, Today) \notin ran
      /\ JobsReached
  BY DEF SInv, JobBegin, Done
<1>2. OnDay(job, Today) /\ now % DayLen = Minute[job]
  BY <1>1 DEF DueAt, Today
<1>3. ASSUME NEW i \in 1 .. job - 1, Name[i] = Name[job], Minute[i] = Minute[job],
             OnDay(i, Today)
      PROVE  FALSE
  <2>1. i \in Job /\ i < job
    BY <1>1, Numbers DEF Job
  <2>2. DueAt(i, now)
    BY <1>2, <1>3 DEF DueAt, Today
  <2>3. Key(i, Today) \in ran
    BY <1>1, <2>1, <2>2 DEF JobsReached
  <2> QED
    BY <1>1, <1>3, <2>3 DEF Key
<1> QED
  BY <1>2, <1>3 DEF Shadowed

LEMMA JobsKept ==
  ASSUME SInv, Next
  PROVE  ran' \subseteq Keys /\ begun' \subseteq Job \X Nat /\ JobRecorded' /\ FirstOfKey'
<1> USE DEF ticker, task, server, books, jobs
<1>0. /\ TypeOK /\ JobRecorded /\ FirstOfKey
      /\ ran \subseteq Keys /\ begun \subseteq Job \X Nat
  BY DEF SInv, TypeOK
<1>d. Today \in Nat
  BY <1>0, TodayType
<1>s. ASSUME UNCHANGED jobs,
             \/ UNCHANGED <<phase, now, job>>
             \/ phase # "run" /\ phase' # "run"
      PROVE  ran' \subseteq Keys /\ begun' \subseteq Job \X Nat /\ JobRecorded' /\ FirstOfKey'
  <2>1. ran' = ran /\ begun' = begun
    BY <1>s
  <2>2. JobRecorded'
    <3>1. CASE UNCHANGED <<phase, now, job>>
      BY <1>0, <2>1, <3>1 DEF JobRecorded, Today, DayOf
    <3>2. CASE phase # "run" /\ phase' # "run"
      BY <1>0, <2>1, <3>2 DEF JobRecorded
    <3> QED
      BY <1>s, <3>1, <3>2
  <2> QED
    BY <1>0, <2>1, <2>2 DEF FirstOfKey
<1>1. CASE Tick \/ Fire \/ StartRun \/ StartFinish \/ StopHalt \/ StopFinish \/ ServerExits
  BY <1>1, <1>s DEF Tick, Fire, StartRun, StartFinish, StopHalt, StopFinish, ServerExits
<1>2. CASE TaskBegin \/ LocalCollect \/ LocalDue \/ BackupLock \/ BackupEnd \/ Reschedule
           \/ JobSkip \/ TaskEnd
  <2>1. UNCHANGED jobs /\ phase # "run" /\ phase' # "run"
    BY <1>2 DEF TaskBegin, LocalCollect, LocalDue, BackupLock, BackupEnd, Reschedule,
       JobSkip, TaskEnd, Busy
  <2> QED
    BY <1>s, <2>1
<1>3. CASE JobBegin
  <2> DEFINE b == <<job, Today>>
  <2>1. /\ phase = "job" /\ phase' = "run" /\ job' = job /\ now' = now /\ ran' = ran
        /\ begun' = begun \cup {b} /\ job \in Job
    BY <1>3 DEF JobBegin
  <2>2. Today' = Today
    BY <2>1 DEF Today, DayOf
  <2>3. b \in Job \X Nat /\ b[1] = job /\ b[2] = Today
    BY <1>d, <2>1
  <2>4. OnDay(job, Today) /\ ~Shadowed(job, Today)
    BY <1>3, BeginsFirst
  <2>5. FirstOfKey'
    BY <1>0, <2>1, <2>3, <2>4 DEF FirstOfKey
  <2>6. b = <<job', Today'>>
    BY <2>1, <2>2
  <2> HIDE DEF b
  <2>7. JobRecorded'
    <3>1. \A k \in ran' : \E c \in begun' : k = Key(c[1], c[2])
      BY <1>0, <2>1 DEF JobRecorded
    <3>2. \A c \in begun' : Key(c[1], c[2]) \in ran' \/ c = b
      BY <1>0, <2>1 DEF JobRecorded
    <3>3. b \in begun'
      BY <2>1
    <3> QED
      BY <2>1, <2>6, <3>1, <3>2, <3>3 DEF JobRecorded
  <2> QED
    BY <1>0, <2>1, <2>3, <2>5, <2>7
<1>4. CASE JobEnd
  <2> DEFINE b == <<job, Today>>
  <2>1. /\ phase = "run" /\ phase' = "job" /\ begun' = begun
        /\ ran' = ran \cup {Key(job, Today)}
    BY <1>4 DEF JobEnd
  <2>2. job \in Job /\ b \in begun
    BY <1>0, <2>1 DEF JobRecorded
  <2>3. b[1] = job /\ b[2] = Today
    OBVIOUS
  <2>4. \A c \in begun : Key(c[1], c[2]) \in ran \/ c = b
    BY <1>0 DEF JobRecorded
  <2> HIDE DEF b
  <2>5. \A c \in begun' : Key(c[1], c[2]) \in ran'
    BY <2>1, <2>3, <2>4
  <2>6. \A k \in ran' : \E c \in begun' : k = Key(c[1], c[2])
    BY <1>0, <2>1, <2>2, <2>3 DEF JobRecorded
  <2>7. ran' \subseteq Keys
    BY <1>0, <1>d, <2>1, <2>2, KeyType
  <2> QED
    BY <1>0, <2>1, <2>5, <2>6, <2>7 DEF JobRecorded, FirstOfKey
<1>5. CASE Restart
  BY <1>5 DEF Restart, JobRecorded, FirstOfKey
<1>6. CASE RestoreCollect \/ Restore
  BY <1>6, <1>s DEF RestoreCollect, Restore, Ready
<1> QED
  BY <1>1, <1>2, <1>3, <1>4, <1>5, <1>6 DEF Next, Task

LEMMA RestKept ==
  ASSUME SInv, Next
  PROVE  TypeOK' /\ BackupHolds'
<1> USE DEF SInv, BackupHolds, ticker, task, server, books, jobs, Phase
<1>0. /\ clock \in Nat \ {0} /\ now \in 1 .. clock /\ since \in 1 .. clock
      /\ booted \in 1 .. clock /\ quiet \in 1 .. clock /\ clock \in 1 .. clock
      /\ JobCount \in Nat /\ 1 \in 1 .. JobCount + 1
      /\ \A j \in Job : j + 1 \in 1 .. JobCount + 1
  BY Numbers DEF TypeOK, Job
<1>1. /\ startedAt' \in {None} \cup 1 .. clock' /\ next' \in Nat
      /\ ran' \subseteq Keys /\ begun' \subseteq Job \X Nat
  BY BooksKept, JobsKept
<1>2. CASE Tick
  <2>1. clock' = clock + 1 /\ clock' \in Nat \ {0} /\ late' \in Nat
    BY <1>0, <1>2 DEF Tick, TypeOK
  <2>2. clock + 1 >= clock /\ clock + 1 \in Nat
    BY <1>0
  <2>3. 1 .. clock \subseteq 1 .. clock'
    BY <1>0, <2>1, <2>2, Later
  <2>4. now' \in 1 .. clock' /\ since' \in 1 .. clock' /\ booted' \in 1 .. clock'
        /\ quiet' \in 1 .. clock'
    BY <1>0, <1>2, <2>3 DEF Tick
  <2> QED
    <3>1. /\ fired' \in BOOLEAN
      BY <1>2 DEF Tick, Starting
    <3>2. /\ pending' \in BOOLEAN /\ up' \in BOOLEAN
          /\ phase' \in Phase /\ job' \in 1 .. JobCount + 1
          /\ holder' \in {"free", "tick", "start", "stop"} /\ BackupHolds'
      BY <1>2 DEF Tick, TypeOK
    <3> QED
      BY <1>1, <2>1, <2>4, <3>1, <3>2 DEF TypeOK
<1>3. CASE Fire
  BY <1>0, <1>1, <1>3 DEF Fire, TypeOK
<1>8. CASE TaskBegin
  <2>1. clock' = clock /\ now' = clock /\ late' = 0 /\ pending' = FALSE /\ phase' = "local"
        /\ phase = "idle" /\ UNCHANGED <<fired, job, server, holder, booted, quiet>>
    BY <1>8 DEF TaskBegin, Busy
  <2>2. BackupHolds'
    BY <2>1
  <2>3. fired' \in BOOLEAN /\ job' \in 1 .. JobCount + 1 /\ up' \in BOOLEAN
        /\ holder' \in {"free", "tick", "start", "stop"}
    BY <2>1 DEF TypeOK
  <2> QED
    BY <1>0, <1>1, <2>1, <2>2, <2>3 DEF TypeOK
<1>4. CASE LocalCollect \/ LocalDue \/ BackupLock \/ BackupEnd \/ Reschedule
  BY <1>0, <1>1, <1>4 DEF LocalCollect, LocalDue, BackupLock, BackupEnd, Reschedule, TypeOK
<1>5. CASE JobBegin \/ JobSkip \/ JobEnd \/ TaskEnd
  BY <1>0, <1>1, <1>5 DEF JobBegin, JobSkip, JobEnd, TaskEnd, TypeOK, JobRecorded
<1>6. CASE StartRun \/ StartFinish \/ StopHalt \/ StopFinish \/ ServerExits
  BY <1>0, <1>1, <1>6 DEF StartRun, StartFinish, StopHalt, StopFinish, ServerExits, TypeOK
<1>7. CASE Restart
  BY <1>0, <1>1, <1>7 DEF Restart, TypeOK
<1>9. CASE RestoreCollect \/ Restore
  BY <1>0, <1>1, <1>9 DEF RestoreCollect, Restore, Ready, TypeOK
<1> QED
  BY <1>2, <1>3, <1>4, <1>5, <1>6, <1>7, <1>8, <1>9 DEF Next, Task

-----------------------------------------------------------------------------
(* Ticks, backups and jobs in time *)

LEMMA Sizes ==
  ASSUME TypeOK
  PROVE  /\ clock \in Nat /\ now \in Nat /\ late \in Nat /\ since \in Nat
         /\ booted \in Nat /\ quiet \in Nat /\ startedAt \in Nat /\ next \in Nat
         /\ now <= clock /\ since <= clock /\ booted <= clock /\ quiet <= clock
         /\ startedAt <= clock
BY DEF TypeOK, None

\* The steps of the goroutine that are none of the ticker's and end no task.
Inner ==
  \/ LocalCollect \/ LocalDue \/ BackupLock \/ BackupEnd \/ Reschedule
  \/ JobBegin \/ JobSkip \/ JobEnd

Command == StartRun \/ StartFinish \/ StopHalt \/ StopFinish \/ ServerExits

LEMMA TicksKept ==
  ASSUME SInv, Next
  PROVE  TickTimes'
<1> USE DEF TickTimes, Busy, Starting, Last
<1>0. TypeOK /\ TickTimes
  BY DEF SInv
<1>s. /\ clock \in Nat /\ now \in Nat /\ late \in Nat /\ booted \in Nat
      /\ now <= clock /\ booted <= clock
      /\ MaxTask \in Nat /\ MaxWait \in Nat /\ Gap \in Nat /\ Gap >= 1 /\ Gap >= MaxTask
  BY <1>0, Sizes, Bounds
<1>1. CASE Tick
  <2>1. /\ fired /\ clock' = clock + 1 /\ fired' = Starting
        /\ late' = (IF pending /\ ~Busy THEN late + 1 ELSE late)
        /\ (Busy => clock < now + MaxTask) /\ (pending /\ ~Busy => late < MaxWait)
        /\ UNCHANGED <<pending, phase, now, booted>>
    BY <1>1 DEF Tick, task
  <2>2. late' <= MaxWait /\ (Busy' => clock' <= now' + MaxTask)
    BY <1>0, <1>s, <2>1
  <2>3. /\ Starting' => fired' /\ ~pending'
        /\ Busy' /\ ~Starting' => booted' <= now'
    BY <1>0, <2>1
  <2>4. ~Starting' /\ ~pending' => clock' <= Last' + (IF fired' THEN 0 ELSE 1)
    <3> SUFFICES ASSUME ~Starting, ~pending PROVE clock + 1 <= Last' + 1 /\ ~fired'
      BY <2>1 DEF Starting
    <3>1. clock <= Last + 0 /\ Last \in Nat /\ Last' = Last
      BY <1>0, <1>s, <2>1
    <3> HIDE DEF Last
    <3>2. clock <= Last
      BY <1>s, <3>1
    <3>3. ~fired'
      BY <2>1
    <3> QED
      BY <1>s, <3>1, <3>2, <3>3
  <2>5. ~Busy' => clock' <= Last' + Gap + late'
    <3>1. CASE pending
      BY <1>0, <1>s, <2>1, <3>1
    <3>2. CASE ~pending /\ ~Busy
      <4>1. clock <= Last + 0 /\ Last \in Nat /\ late' = late /\ Last' = Last
        BY <1>0, <1>s, <2>1, <3>2
      <4> HIDE DEF Last
      <4>2. clock <= Last
        BY <1>s, <4>1
      <4> QED
        BY <1>s, <2>1, <4>1, <4>2
    <3> QED
      BY <2>1, <3>1, <3>2
  <2> QED
    BY <2>2, <2>3, <2>4, <2>5
<1>2. CASE Fire
  BY <1>0, <1>s, <1>2 DEF Fire, task
<1>3. CASE TaskBegin
  BY <1>0, <1>s, <1>3 DEF TaskBegin
<1>4. CASE Inner
  <2>1. /\ UNCHANGED <<clock, fired, pending, late, now, booted>>
        /\ Busy /\ ~Starting /\ Busy' /\ ~Starting'
    BY <1>4 DEF Inner, LocalCollect, LocalDue, BackupLock, BackupEnd, Reschedule, JobBegin,
       JobSkip, JobEnd, ticker
  <2> QED
    BY <1>0, <1>s, <2>1
<1>5. CASE TaskEnd
  BY <1>0, <1>s, <1>5 DEF TaskEnd, ticker
<1>6. CASE RestoreCollect \/ Restore
  BY <1>0, <1>s, <1>6 DEF RestoreCollect, Restore, Ready
<1>7. CASE Command
  <2>1. UNCHANGED <<clock, fired, pending, late, phase, now, booted>>
    BY <1>7 DEF Command, StartRun, StartFinish, StopHalt, StopFinish, ServerExits, ticker,
       task
  <2> QED
    BY <1>0, <2>1
<1>8. CASE Restart
  BY <1>s, <1>8 DEF Restart
<1> QED
  BY <1>1, <1>2, <1>3, <1>4, <1>5, <1>6, <1>7, <1>8 DEF Next, Task, Inner, Command

LEMMA QuietKept ==
  ASSUME SInv, Next
  PROVE  QuietTimes'
<1> USE DEF QuietTimes
<1>0. TypeOK /\ QuietTimes /\ BackupHolds /\ TickTimes
  BY DEF SInv
<1>s. /\ clock \in Nat /\ now \in Nat /\ since \in Nat /\ booted \in Nat
      /\ quiet \in Nat /\ startedAt \in Nat
      /\ now <= clock /\ since <= clock /\ booted <= clock /\ quiet <= clock
      /\ startedAt <= clock /\ MaxTask \in Nat
  BY <1>0, Sizes, Bounds
<1>1. CASE Tick \/ Fire
  <2>1. UNCHANGED <<phase, now, up, since, startedAt, holder, booted, quiet>>
    BY <1>1 DEF Tick, Fire, task, server, books
  <2> QED
    BY <1>0, <2>1
<1>3. CASE TaskBegin
  BY <1>0, <1>s, <1>3 DEF TaskBegin, server, books
<1>4. CASE LocalCollect \/ BackupLock \/ BackupEnd
  <2>1. /\ UNCHANGED <<now, up, since, startedAt, booted>>
        /\ holder' \in {holder, "tick", "free"}
        /\ (quiet' = quiet /\ phase' # "resched") \/ quiet' = clock
        /\ phase' \notin {"boot", "restore"}
    BY <1>4 DEF LocalCollect, BackupLock, BackupEnd, server, books
  <2> QED
    BY <1>0, <1>s, <2>1
<1>5. CASE LocalDue \/ Reschedule
  <2>1. /\ UNCHANGED <<now, up, since, holder, booted, quiet>>
        /\ startedAt' = startedAt \/ startedAt' = now
        /\ phase' \notin {"boot", "resched", "restore"}
    BY <1>5 DEF LocalDue, Reschedule, server, Started
  <2> QED
    BY <1>0, <1>s, <2>1
<1>6. CASE JobBegin \/ JobSkip \/ JobEnd \/ TaskEnd
  <2>1. /\ UNCHANGED <<now, up, since, holder, startedAt, booted, quiet>>
        /\ phase' \notin {"boot", "resched", "restore"}
    BY <1>6 DEF JobBegin, JobSkip, JobEnd, TaskEnd, server, books
  <2> QED
    BY <1>0, <1>s, <2>1
<1>7. CASE RestoreCollect
  <2>1. /\ UNCHANGED <<up, since, holder, startedAt>> /\ phase = "boot"
        /\ \/ phase' = "restore" /\ now' = clock /\ UNCHANGED <<booted, quiet>>
           \/ phase' = "idle" /\ booted' = clock /\ quiet' = clock /\ now' = now
    BY <1>7 DEF RestoreCollect, Ready, server, books
  <2>2. clock <= now + MaxTask
    BY <1>0, <2>1 DEF TickTimes, Busy
  <2> QED
    BY <1>0, <1>s, <2>1, <2>2
<1>8. CASE Restore
  <2>1. /\ UNCHANGED <<now, up, since, holder>>
        /\ startedAt' \in {startedAt, since, now}
        /\ phase' = "idle" /\ booted' = clock /\ quiet' = clock
    BY <1>8 DEF Restore, Ready, server, books
  <2> QED
    BY <1>0, <1>s, <2>1
<1>9. CASE StartRun
  BY <1>0, <1>s, <1>9 DEF StartRun, task, books
<1>10. CASE StartFinish
  BY <1>0, <1>s, <1>10 DEF StartFinish, task, server
<1>11. CASE StopHalt \/ StopFinish \/ ServerExits
  <2>1. /\ UNCHANGED <<phase, now, since, booted, quiet>>
        /\ startedAt' \in {startedAt, None}
        /\ ~up' \/ (up' = up /\ holder' = "free")
    BY <1>11 DEF StopHalt, StopFinish, ServerExits, task, server, books
  <2> QED
    BY <1>0, <1>s, <2>1 DEF None
<1>12. CASE Restart
  BY <1>s, <1>12 DEF Restart, server, None
<1> QED
  BY <1>1, <1>3, <1>4, <1>5, <1>6, <1>7, <1>8, <1>9, <1>10, <1>11, <1>12 DEF Next, Task

\* Where the books and the task stand when quiet is now.
LEMMA Settled ==
  ASSUME TypeOK', NeverPutOff', quiet' = clock'
  PROVE  Underway'
<1>1. /\ clock' \in Nat /\ quiet' \in Nat /\ now' \in Nat /\ next' \in Nat
      /\ now' <= quiet' /\ quiet' = clock'
      /\ Interval \in Nat /\ Interval >= 1 /\ Reach \in Nat /\ Reach >= 1
  BY Numbers, Bounds DEF TypeOK
<1>2. next' # None => next' <= clock' + Interval
  BY DEF NeverPutOff
<1> DEFINE q == quiet'
           r == Reach
<1> HIDE DEF q, r
<1>3. q \in Nat /\ r \in Nat /\ r >= 1 /\ now' <= q /\ (next' # None => next' <= q + Interval)
  BY <1>1, <1>2 DEF q, r
<1>4. /\ next' # None => next' <= q + Interval + r
      /\ now' <= q /\ now' <= q + r /\ now' < q + Interval + 2 * r
  BY <1>1, <1>3
<1> QED
  BY <1>4 DEF Underway, q, r

LEMMA UnderwayKept ==
  ASSUME SInv, Next
  PROVE  Underway'
<1>0. TypeOK /\ TickTimes /\ QuietTimes /\ Underway /\ NeverPutOff /\ OnGrid
  BY DEF SInv
<1>s. /\ clock \in Nat /\ now \in Nat /\ late \in Nat /\ booted \in Nat
      /\ quiet \in Nat /\ startedAt \in Nat /\ next \in Nat
      /\ now <= clock /\ booted <= clock /\ quiet <= clock /\ startedAt <= clock
  BY <1>0, Sizes
<1>c. /\ Interval \in Nat /\ Interval >= 1
      /\ MaxTask \in Nat /\ MaxWait \in Nat /\ Gap \in Nat /\ Gap >= 1
      /\ Reach \in Nat /\ Reach = MaxWait + Gap /\ Reach >= 1
  BY Numbers, Bounds
<1>n. TypeOK' /\ NeverPutOff'
  BY BooksKept, RestKept
<1>1. CASE Tick \/ Fire
  <2>1. UNCHANGED <<phase, now, up, next, quiet>>
    BY <1>1 DEF Tick, Fire, task, server, books
  <2> QED
    BY <1>0, <2>1 DEF Underway
<1>2. CASE TaskBegin
  <2>1. /\ phase = "idle" /\ phase' = "local" /\ now' = clock
        /\ UNCHANGED <<up, next, quiet>>
    BY <1>2 DEF TaskBegin, Busy, server, books
  <2>2. late <= MaxWait /\ clock <= Last + Gap + late /\ booted <= quiet
    BY <1>0, <2>1 DEF TickTimes, QuietTimes, Busy
  <2>3. clock <= Last + Reach
    <3>1. Last \in Nat
      BY <1>s DEF Last
    <3> QED
      BY <1>s, <1>c, <2>2, <3>1
  <2>4. ASSUME up
        PROVE  /\ next # None => next <= quiet + Interval + Reach
               /\ Last <= quiet \/ (next # None /\ Last < next)
    <3>1. /\ next # None => next <= quiet + Interval + Reach
          /\ now <= quiet \/ (next # None /\ now < next)
      BY <1>0, <2>1, <2>4 DEF Underway
    <3> QED
      BY <1>s, <2>2, <3>1 DEF Last
  <2>5. Last \in Nat
    BY <1>s DEF Last
  <2>6. ASSUME up
        PROVE  /\ next = None => clock <= quiet + Reach
               /\ clock < quiet + Interval + 2 * Reach
    BY <1>s, <1>c, <2>3, <2>4, <2>5, <2>6
  <2> QED
    BY <2>1, <2>4, <2>6 DEF Underway
<1>3. CASE LocalCollect
  <2>1. CASE quiet' = clock'
    BY <1>n, <2>1, Settled
  <2>2. CASE quiet' # clock'
    <3>1. phase = "local" /\ phase' = "due" /\ UNCHANGED <<up, now, next, quiet>>
      BY <1>3, <2>2 DEF LocalCollect, server, books
    <3> QED
      BY <1>0, <3>1 DEF Underway
  <2> QED
    BY <2>1, <2>2
<1>4. CASE LocalDue
  <2>1. /\ phase = "due" /\ UNCHANGED <<up, now, quiet>>
        /\ next' = (IF next = None THEN NextFrom(Started(now), now) ELSE next)
        /\ phase' = (IF now < next' THEN "job" ELSE "wait")
    BY <1>4 DEF LocalDue, server
  <2>2. CASE next = None
    <3>1. Started(now) = now
      BY <1>0, <2>2 DEF OnGrid, Started
    <3>2. next' = now + Interval
      BY <1>s, <2>1, <2>2, <3>1, NextIsFirst
    <3>3. next' # None /\ phase' = "job" /\ now < next'
      BY <1>s, <1>c, <2>1, <3>2 DEF None
    <3>4. up => now <= quiet + Reach
      BY <1>0, <2>1, <2>2 DEF Underway
    <3>5. up => next' <= quiet + Interval + Reach
      BY <1>s, <1>c, <3>2, <3>4
    <3> QED
      BY <2>1, <3>3, <3>5 DEF Underway
  <2>3. CASE next # None
    BY <1>0, <2>1, <2>3 DEF Underway
  <2> QED
    BY <2>2, <2>3
<1>5. CASE BackupLock
  <2>1. /\ phase = "wait" /\ phase' = "backup" /\ UNCHANGED <<up, now, next, quiet>>
    BY <1>5 DEF BackupLock, server, books
  <2> QED
    BY <1>0, <2>1 DEF Underway
<1>6. CASE Reschedule
  <2>1. /\ phase = "resched" /\ phase' = "job" /\ UNCHANGED <<up, now, quiet>>
        /\ next' = NextFrom(Started(now), now)
    BY <1>6 DEF Reschedule, server
  <2>2. now <= quiet /\ Started(now) \in Nat /\ Started(now) <= quiet
    BY <1>0, <1>s, <2>1 DEF QuietTimes, Started
  <2>3. /\ next' \in Nat
        /\ next' <= now + Interval \/ next' = Started(now) + Interval
    <3> DEFINE s == Started(now)
    <3>1. s <= now \/ now <= s
      BY <1>s, <2>2
    <3> HIDE DEF s
    <3>2. /\ NextFrom(s, now) \in Nat
          /\ s <= now => NextFrom(s, now) <= now + Interval
          /\ now <= s => NextFrom(s, now) = s + Interval
      BY <1>s, <2>2, NextIsFirst DEF s
    <3> QED
      BY <2>1, <3>1, <3>2 DEF s
  <2>4. next' <= quiet + Interval + Reach
    BY <1>s, <1>c, <2>2, <2>3
  <2> QED
    BY <2>1, <2>2, <2>4 DEF Underway
<1>7. CASE JobBegin \/ JobSkip \/ JobEnd \/ TaskEnd
  <2>1. /\ phase \in {"job", "run"} /\ phase' \in {"job", "run", "idle"}
        /\ UNCHANGED <<up, now, next, quiet>>
    BY <1>7 DEF JobBegin, JobSkip, JobEnd, TaskEnd, server, books
  <2> QED
    BY <1>0, <2>1 DEF Underway
<1>8. CASE RestoreCollect \/ Restore
  <2>1. CASE quiet' = clock'
    BY <1>n, <2>1, Settled
  <2>2. CASE quiet' # clock'
    <3>1. phase' = "restore" /\ UNCHANGED <<up, next, quiet>>
      BY <1>8, <2>2 DEF RestoreCollect, Restore, Ready, server, books
    <3> QED
      BY <1>0, <3>1 DEF Underway
  <2> QED
    BY <2>1, <2>2
<1>9. CASE BackupEnd \/ StartRun \/ StartFinish \/ Restart
  <2>1. quiet' = clock'
    BY <1>9 DEF BackupEnd, StartRun, StartFinish, Restart
  <2> QED
    BY <1>n, <2>1, Settled
<1>10. CASE StopHalt \/ StopFinish \/ ServerExits
  <2>1. ~up'
    BY <1>0, <1>10 DEF StopHalt, StopFinish, ServerExits, QuietTimes, server
  <2> QED
    BY <2>1 DEF Underway
<1> QED
  BY <1>1, <1>2, <1>3, <1>4, <1>5, <1>6, <1>7, <1>8, <1>9, <1>10 DEF Next, Task

LEMMA JobsReachedKept ==
  ASSUME SInv, Next
  PROVE  JobsReached'
<1> USE DEF JobsReached
<1>0. TypeOK /\ TickTimes /\ JobRecorded /\ JobsReached
  BY DEF SInv
<1>s. /\ clock \in Nat /\ now \in Nat /\ booted \in Nat /\ now <= clock /\ booted <= clock
      /\ JobCount \in Nat /\ job \in Nat /\ \A j \in Job : j \in Nat /\ j >= 1
  BY <1>0, Sizes, Numbers DEF TypeOK, Job
<1>1. CASE Tick \/ Fire \/ Command \/ JobBegin
  <2>1. /\ UNCHANGED <<now, job, ran, booted>>
        /\ phase' = phase \/ (phase = "job" /\ phase' = "run")
    BY <1>1 DEF Tick, Fire, Command, StartRun, StartFinish, StopHalt, StopFinish,
       ServerExits, JobBegin, task, jobs
  <2> QED
    BY <1>0, <2>1 DEF DueAt, Today, DayOf
<1>2. CASE TaskBegin
  <2>1. phase = "idle" /\ phase' = "local" /\ job' = job
    BY <1>2 DEF TaskBegin, Busy
  <2> QED
    BY <1>0, <2>1
<1>3. CASE LocalCollect \/ LocalDue \/ BackupLock \/ BackupEnd \/ Reschedule
  <2>1. phase \notin {"job", "run"} /\ phase' \notin {"idle", "run"} /\ job' = job
    BY <1>3 DEF LocalCollect, LocalDue, BackupLock, BackupEnd, Reschedule
  <2>2. job = 1
    BY <1>0, <2>1
  <2>3. \A j \in Job : ~(j < job')
    BY <1>s, <2>1, <2>2
  <2> QED
    BY <2>1, <2>2, <2>3
<1>4. CASE JobSkip \/ JobEnd
  <2>1. /\ phase \in {"job", "run"} /\ phase' = "job" /\ job' = job + 1 /\ job \in Job
        /\ ran \subseteq ran' /\ UNCHANGED <<now, booted>>
    BY <1>0, <1>4 DEF JobSkip, JobEnd, JobRecorded, jobs
  <2>2. DueAt(job, now) => Key(job, Today) \in ran'
    BY <1>4 DEF JobSkip, JobEnd, Done, jobs
  <2>3. \A j \in Job : j < job + 1 => j < job \/ j = job
    BY <1>s
  <2> QED
    BY <1>0, <2>1, <2>2, <2>3 DEF DueAt, Today, DayOf
<1>6. CASE TaskEnd
  <2>1. /\ phase = "job" /\ phase' = "idle" /\ job' = 1 /\ job \notin Job
        /\ UNCHANGED <<now, ran, booted>>
    BY <1>6 DEF TaskEnd, jobs
  <2>2. \A j \in Job : j < job
    BY <1>0, <1>s, <2>1 DEF TypeOK, Job
  <2> QED
    BY <1>0, <2>1, <2>2 DEF DueAt, Today, DayOf
<1>7. CASE RestoreCollect \/ Restore
  <2>1. /\ phase \in {"boot", "restore"} /\ job' = job
        /\ phase' = "restore" \/ (phase' = "idle" /\ booted' = clock /\ now' = now)
    BY <1>7 DEF RestoreCollect, Restore, Ready
  <2> QED
    BY <1>0, <1>s, <2>1
<1>8. CASE Restart
  BY <1>8 DEF Restart
<1> QED
  BY <1>1, <1>2, <1>3, <1>4, <1>6, <1>7, <1>8 DEF Next, Task, Command

LEMMA Inductive == SInv /\ [Next]_vars => SInv'
<1>1. SInv /\ Next => SInv'
  BY BooksKept, JobsKept, RestKept, TicksKept, QuietKept, UnderwayKept, JobsReachedKept
     DEF SInv
<1>2. SInv /\ UNCHANGED vars => SInv'
  <2> SUFFICES ASSUME SInv, UNCHANGED vars PROVE SInv'
    OBVIOUS
  <2>1. UNCHANGED <<clock, fired, pending, late, phase, now, job, up, since, startedAt, next,
                    holder, ran, begun, booted, quiet>>
    BY DEF vars, ticker, task, server, books, jobs
  <2>2. (TypeOK /\ OnGrid /\ NeverPutOff /\ BackupHolds /\ JobRecorded /\ FirstOfKey)'
    BY <2>1 DEF SInv, TypeOK, OnGrid, NeverPutOff, BackupHolds, JobRecorded, FirstOfKey,
       Today, DayOf
  <2>3. TickTimes' /\ QuietTimes' /\ Underway'
    BY <2>1 DEF SInv, TickTimes, QuietTimes, Underway, Busy, Starting, Last
  <2>4. JobsReached'
    BY <2>1 DEF SInv, JobsReached, DueAt, Today, DayOf
  <2> QED
    BY <2>2, <2>3, <2>4 DEF SInv
<1> QED
  BY <1>1, <1>2

-----------------------------------------------------------------------------
(* Theorems *)

\* Types, the two books, the mutex and the record of the jobs agree for every
\* interval and every list of jobs.
THEOREM Invariance == Spec => []SInv
  BY InitHolds, Inductive, PTL DEF Spec

\* The next backup is always a whole number of intervals after the start
\* entered beside it, whoever wrote the two last.
THEOREM GridKept == Spec => []OnGrid
  BY Invariance, PTL DEF SInv

\* The next backup is never more than one interval away.
THEOREM PutOffBounded == Spec => []NeverPutOff
  BY Invariance, PTL DEF SInv

\* No cloud backup and no announcement is done twice for one day in the life
\* of a process.
THEOREM JobsOnce == Spec => OncePerDay
<1> DEFINE First == phase = "job" /\ phase' = "run" => <<job, Today>> \notin begun
<1>1. SInv /\ [Next]_vars => [First]_vars
  <2> SUFFICES ASSUME SInv, Next, phase = "job", phase' = "run"
               PROVE  <<job, Today>> \notin begun
    OBVIOUS
  <2>1. JobBegin
    BY DEF Next, Task, Tick, Fire, TaskBegin, LocalCollect, LocalDue, BackupLock, BackupEnd,
       Reschedule, JobSkip, JobEnd, TaskEnd, StartRun, StartFinish, StopHalt, StopFinish,
       ServerExits, Restart, RestoreCollect, Restore, Ready, task, Busy
  <2>2. Key(job, Today) \notin ran
    BY <2>1 DEF JobBegin, Done
  <2>3. \A b \in begun : Key(b[1], b[2]) \in ran
    BY DEF SInv, JobRecorded
  <2> QED
    BY <2>2, <2>3
<1> QED
  BY <1>1, Invariance, PTL DEF Spec, OncePerDay

\* A map that runs and is seen running is backed up within the interval and
\* Slack, for any interval and any bounds on how long tasks take and ticks wait:
\* no stop, start, late write of the scheduler or restart opens a longer gap.
THEOREM BackupsInTime == Spec => []BackedUpInTime
<1>1. SInv => BackedUpInTime
  <2> SUFFICES ASSUME SInv, up PROVE clock - quiet <= Interval + Slack
    BY DEF BackedUpInTime
  <2>0. TypeOK /\ TickTimes /\ QuietTimes /\ Underway
    BY DEF SInv
  <2>s. /\ clock \in Nat /\ now \in Nat /\ late \in Nat /\ booted \in Nat /\ quiet \in Nat
        /\ next \in Nat /\ now <= clock /\ booted <= clock /\ quiet <= clock
    BY <2>0, Sizes
  <2>c. /\ Interval \in Nat /\ Interval >= 1
        /\ MaxTask \in Nat /\ MaxWait \in Nat /\ Gap \in Nat /\ Gap >= 1 /\ Gap >= MaxTask
        /\ Reach \in Nat /\ Reach = MaxWait + Gap /\ Reach >= 1
    BY Numbers, Bounds
  <2> SUFFICES clock <= quiet + Interval + 2 * Reach + MaxTask - 1
    BY <2>s, <2>c DEF Slack
  <2>1. CASE phase \in {"boot", "restore", "resched"}
    <3>1. now <= quiet + MaxTask /\ clock <= now + MaxTask
      BY <2>0, <2>1, <2>s, <2>c DEF QuietTimes, TickTimes, Busy
    <3> QED
      BY <2>s, <2>c, <3>1
  <2>2. CASE phase \in {"local", "due", "wait", "backup"}
    <3>1. now < quiet + Interval + 2 * Reach /\ clock <= now + MaxTask
      BY <2>0, <2>2 DEF Underway, TickTimes, Busy
    <3> QED
      BY <2>s, <2>c, <3>1
  <2>3. CASE phase \in {"job", "run"}
    <3>1. /\ now <= quiet \/ (now < next /\ next <= quiet + Interval + Reach)
          /\ clock <= now + MaxTask
      BY <2>0, <2>3 DEF Underway, TickTimes, Busy
    <3> QED
      BY <2>s, <2>c, <3>1
  <2>4. CASE phase = "idle"
    <3>1. /\ now <= quiet \/ (now < next /\ next <= quiet + Interval + Reach)
          /\ booted <= quiet /\ late <= MaxWait /\ clock <= Last + Gap + late
      BY <2>0, <2>4 DEF Underway, QuietTimes, TickTimes, Busy
    <3>2. Last \in Nat /\ (Last <= quiet \/ Last < quiet + Interval + Reach)
      BY <2>s, <2>c, <3>1 DEF Last
    <3> QED
      BY <2>s, <2>c, <3>1, <3>2
  <2> QED
    BY <2>0, <2>1, <2>2, <2>3, <2>4 DEF TypeOK, Phase
<1> QED
  BY <1>1, Invariance, PTL

\* A key recorded for a due job is that of the first of its key: the job itself,
\* unless one before it has the same.
LEMMA RecordedRun ==
  ASSUME SInv, NEW j \in Job, NEW d \in Nat, OnDay(j, d), Key(j, d) \in ran
  PROVE  <<j, d>> \in begun <=> ~Shadowed(j, d)
<1>0. TypeOK /\ JobRecorded /\ FirstOfKey
  BY DEF SInv
<1>1. <<j, d>> \in begun => ~Shadowed(j, d)
  BY <1>0 DEF FirstOfKey
<1>2. PICK b \in begun : Key(j, d) = Key(b[1], b[2])
  BY <1>0 DEF JobRecorded
<1>3. PICK i \in Job, c \in Nat : b = <<i, c>>
  BY <1>0 DEF TypeOK
<1>4. Name[i] = Name[j] /\ c = d /\ Minute[i] = Minute[j]
  BY <1>2, <1>3, SameKey
<1>5. OnDay(i, d) /\ ~Shadowed(i, d)
  BY <1>0, <1>3, <1>4 DEF FirstOfKey
<1>6. i \in 1 .. j - 1 \/ i = j \/ j \in 1 .. i - 1
  BY Numbers DEF Job
<1>7. CASE i \in 1 .. j - 1
  BY <1>1, <1>4, <1>5, <1>7 DEF Shadowed
<1>8. CASE i = j
  BY <1>1, <1>3, <1>4, <1>8
<1>9. CASE j \in 1 .. i - 1
  BY <1>4, <1>5, <1>9 DEF Shadowed
<1> QED
  BY <1>6, <1>7, <1>8, <1>9

\* For any jobs, whatever names, minutes and days they share: when a minute ends
\* with the goroutine idle and no tick waiting, the jobs due in it have been begun
\* that day, except those behind one of the same name and time. So a cloud backup
\* is missed only behind a longer task, a presence update or a young process, and
\* so is an announcement with a key of its own.
THEOREM IdleSkipsOnlyShadowed == Spec => SkippedOnlyIfShadowed
<1> DEFINE Kept == \A j \in Job : clock' > clock /\ DueAt(j, clock)
                                  /\ ~Busy /\ ~pending /\ booted < clock
                                  => (<<j, DayOf(clock)>> \in begun
                                        <=> ~Shadowed(j, DayOf(clock)))
<1>1. SInv /\ [Next]_vars => [Kept]_vars
  <2> SUFFICES ASSUME SInv, Next, NEW j \in Job, clock' > clock, DueAt(j, clock),
                      ~Busy, ~pending, booted < clock
               PROVE  <<j, DayOf(clock)>> \in begun <=> ~Shadowed(j, DayOf(clock))
    OBVIOUS
  <2>0. TypeOK /\ TickTimes /\ JobsReached
    BY DEF SInv
  <2>s. clock \in Nat /\ now \in Nat /\ booted \in Nat /\ now <= clock
    BY <2>0, Sizes
  <2>1. fired
    <3>1. Tick \/ clock' = clock
      BY DEF Next, Task, Fire, TaskBegin, LocalCollect, LocalDue, BackupLock, BackupEnd,
         Reschedule, JobBegin, JobSkip, JobEnd, TaskEnd, StartRun, StartFinish, StopHalt,
         StopFinish, ServerExits, Restart, RestoreCollect, Restore
    <3>2. clock' # clock
      BY <2>s
    <3> QED
      BY <3>1, <3>2 DEF Tick
  <2>2. phase = "idle"
    BY DEF Busy
  <2>3. clock <= Last
    <3>1. ~Starting
      BY <2>2 DEF Starting
    <3> QED
      BY <2>0, <2>1, <2>s, <3>1 DEF TickTimes, Last
  <2>4. now = clock /\ Today = DayOf(clock)
    BY <2>s, <2>3 DEF Last, Today
  <2>5. Key(j, DayOf(clock)) \in ran
    BY <2>0, <2>2, <2>4 DEF JobsReached
  <2>6. DayOf(clock) \in Nat /\ OnDay(j, DayOf(clock))
    BY <2>0, <2>4, TodayType DEF DueAt
  <2> QED
    BY <2>5, <2>6, RecordedRun
<1> QED
  BY <1>1, Invariance, PTL DEF Spec, SkippedOnlyIfShadowed
=============================================================================
