------------------------------ MODULE Backups ------------------------------
(***************************************************************************)
(* The archives of one map (bot/src/backup.go): LocalBackup writes one and *)
(* deletes the oldest, UploadLatestToCloud copies the newest to R2 and     *)
(* deletes what is older than keep_days there.  LocalBackup is called with *)
(* the map's mutex held (cmdStop, cmdBackup, runLocalBackupScheduler), the *)
(* upload without it.  The directories of different maps are disjoint.     *)
(*                                                                         *)
(* An archive is named by the second it was begun at; names sort as times  *)
(* do.  It is "partial" from os.Create until the deferred Close calls have *)
(* flushed the tar and gzip streams, "whole" after that.                   *)
(***************************************************************************)
EXTENDS Naturals, FiniteSets

CONSTANTS
  Caller,     \* goroutines that back the map up
  Scheduler,  \* the one of them that also uploads
  Nobody,
  Keep,       \* backup.local.keep_generations
  KeepDays,   \* backup.cloud.keep_days
  MaxTime     \* bound on the clock

ASSUME BackupsAssumption ==
  /\ Scheduler \in Caller /\ Nobody \notin Caller
  /\ Keep \in Nat \ {0}       \* keepLocalGenerations turns < 1 into 1
  /\ KeepDays \in Nat
  /\ MaxTime \in Nat

Time == 0 .. MaxTime

VARIABLES
  now,       \* the wall clock
  archive,   \* OutDir/map_id: the content of the archive begun at each time
  cloud,     \* the bucket's objects of this map, by the archive's name
  modified,  \* LastModified of each object
  mutex,     \* mapLock(map_id)
  pc,
  since,     \* when the sleep of save_wait_seconds began
  name,      \* the archive a goroutine writes or uploads
  surplus,   \* keepLocalGenerations: names still to delete
  held,      \* what the file opened for the upload contained
  taken      \* archives made whole so far, counted up to Keep

disk == <<archive, taken>>
bucket == <<cloud, modified>>
local == <<since, name, surplus, held>>
vars == <<now, disk, bucket, mutex, pc, local>>

Content == {"none", "partial", "whole"}
Section == {"sleep", "walk", "retain", "close", "close_failed"}
Label == Section \cup {"idle", "open", "put", "clean"}

Archives == {t \in Time : archive[t] # "none"}
Whole    == {t \in Time : archive[t] = "whole"}
Objects  == {t \in Time : cloud[t] # "none"}

Init ==
  /\ now = 0
  /\ archive = [t \in Time |-> "none"]
  /\ cloud = [t \in Time |-> "none"]
  /\ modified = [t \in Time |-> 0]
  /\ mutex = Nobody
  /\ pc = [p \in Caller |-> "idle"]
  /\ since = [p \in Caller |-> 0]
  /\ name = [p \in Caller |-> 0]
  /\ surplus = [p \in Caller |-> {}]
  /\ held = "none"
  /\ taken = 0

At(p, label) == pc[p] = label
Goto(p, label) == pc' = [pc EXCEPT ![p] = label]

\* Unlock; what the goroutine worked with is forgotten.
Unlock(p) ==
  /\ mutex' = Nobody
  /\ Goto(p, "idle")
  /\ since' = [since EXCEPT ![p] = 0]
  /\ name' = [name EXCEPT ![p] = 0]

-----------------------------------------------------------------------------
(* LocalBackup under the map's mutex *)

\* Mutant: a mutex that is not the one the other callers hold.
AcquireOther(p) ==
  /\ At(p, "idle")
  /\ mutex' = p
  /\ since' = [since EXCEPT ![p] = now]
  /\ Goto(p, "sleep")
  /\ UNCHANGED <<now, disk, bucket, name, surplus, held>>

\* Lock, SaveWorld, and the sleep of save_wait_seconds begins.
Acquire(p) ==
  /\ At(p, "idle")
  /\ mutex = Nobody
  /\ mutex' = p
  /\ since' = [since EXCEPT ![p] = now]
  /\ Goto(p, "sleep")
  /\ UNCHANGED <<now, disk, bucket, name, surplus, held>>

\* cmdStop goes no further when Podman.Stop fails.
GiveUp(p) ==
  /\ At(p, "sleep")
  /\ Unlock(p)
  /\ UNCHANGED <<now, disk, bucket, surplus, held>>

\* Mutant: the archive is begun without waiting for the save.
CreateAtOnce(p) ==
  /\ At(p, "sleep")
  /\ name' = [name EXCEPT ![p] = now]
  /\ archive' = [archive EXCEPT ![now] = "partial"]
  /\ Goto(p, "walk")
  /\ UNCHANGED <<now, taken, bucket, mutex, since, surplus, held>>

\* Mutant: the name is rounded up to the next second.
CreateNextSecond(p) ==
  /\ At(p, "sleep")
  /\ now > since[p]
  /\ name' = [name EXCEPT ![p] = now + 1]
  /\ archive' = [archive EXCEPT ![now + 1] = "partial"]
  /\ Goto(p, "walk")
  /\ UNCHANGED <<now, taken, bucket, mutex, since, surplus, held>>

\* After the sleep (at least a second): os.Create, which truncates a file of
\* that name.
Create(p) ==
  /\ At(p, "sleep")
  /\ now > since[p]
  /\ name' = [name EXCEPT ![p] = now]
  /\ archive' = [archive EXCEPT ![now] = "partial"]
  /\ Goto(p, "walk")
  /\ UNCHANGED <<now, taken, bucket, mutex, since, surplus, held>>

Newer(t) == {u \in Archives : u > t}

\* Mutant: one generation too few is kept.
WalkKeepsOneLess(p) ==
  /\ At(p, "walk")
  /\ surplus' = [surplus EXCEPT
                   ![p] = {t \in Archives : Cardinality(Newer(t)) >= Keep - 1}]
  /\ Goto(p, "retain")
  /\ UNCHANGED <<now, disk, bucket, mutex, since, name, held>>

\* Mutant: one generation too many is kept.
WalkKeepsOneMore(p) ==
  /\ At(p, "walk")
  /\ surplus' = [surplus EXCEPT
                   ![p] = {t \in Archives : Cardinality(Newer(t)) > Keep}]
  /\ Goto(p, "retain")
  /\ UNCHANGED <<now, disk, bucket, mutex, since, name, held>>

\* The walk over the save directory succeeds; keepLocalGenerations lists the
\* directory.  The names beyond the Keep newest are to go.
Walk(p) ==
  /\ At(p, "walk")
  /\ surplus' = [surplus EXCEPT
                   ![p] = {t \in Archives : Cardinality(Newer(t)) >= Keep}]
  /\ Goto(p, "retain")
  /\ UNCHANGED <<now, disk, bucket, mutex, since, name, held>>

\* A file that vanished, a full disk: the error is returned, the file stays.
WalkFails(p) ==
  /\ At(p, "walk")
  /\ Unlock(p)
  /\ UNCHANGED <<now, disk, bucket, surplus, held>>

\* os.Remove of the oldest name left.
Retain(p) ==
  /\ At(p, "retain")
  /\ \E t \in surplus[p] :
       /\ \A u \in surplus[p] : t <= u
       /\ archive' = [archive EXCEPT ![t] = "none"]
       /\ surplus' = [surplus EXCEPT ![p] = @ \ {t}]
  /\ UNCHANGED <<now, taken, bucket, mutex, pc, since, name, held>>

Retained(p) ==
  /\ At(p, "retain")
  /\ \/ surplus[p] = {} /\ Goto(p, "close")
     \/ surplus[p] # {} /\ Goto(p, "close_failed")    \* os.Remove failed
  /\ surplus' = [surplus EXCEPT ![p] = {}]
  /\ UNCHANGED <<now, disk, bucket, mutex, since, name, held>>

\* The deferred Close calls flush tar, gzip and file once the result is
\* settled; their errors are dropped.
Close(p) ==
  /\ pc[p] \in {"close", "close_failed"}
  /\ \/ /\ archive' = [archive EXCEPT ![name[p]] = "whole"]
        /\ taken' = IF taken < Keep THEN taken + 1 ELSE taken
     \/ UNCHANGED <<archive, taken>>
  /\ Unlock(p)
  /\ UNCHANGED <<now, bucket, surplus, held>>

-----------------------------------------------------------------------------
(* UploadLatestToCloud in runCloudBackupScheduler, without the mutex *)

\* Mutant: the listing is not sorted.
UploadPickUnsorted(p) ==
  /\ At(p, "idle")
  /\ \E t \in Archives : name' = [name EXCEPT ![p] = t]
  /\ Goto(p, "open")
  /\ UNCHANGED <<now, disk, bucket, mutex, since, surplus, held>>

\* latestLocalBackup: the last name of the listing.
UploadPick(p) ==
  /\ At(p, "idle")
  /\ \E t \in Archives :
       /\ \A u \in Archives : u <= t
       /\ name' = [name EXCEPT ![p] = t]
  /\ Goto(p, "open")
  /\ UNCHANGED <<now, disk, bucket, mutex, since, surplus, held>>

\* os.Open; PutObject measures the body before it sends it.
UploadOpen(p) ==
  /\ At(p, "open")
  /\ \/ /\ archive[name[p]] # "none"
        /\ held' = archive[name[p]]
        /\ Goto(p, "put")
        /\ UNCHANGED name
     \/ /\ Goto(p, "idle")       \* deleted meanwhile, or no R2 credentials
        /\ name' = [name EXCEPT ![p] = 0]
        /\ UNCHANGED held
  /\ UNCHANGED <<now, disk, bucket, mutex, since, surplus>>

\* Mutant: the cleanup runs after a failed PutObject, too.
UploadPutThenClean(p) ==
  /\ At(p, "put")
  /\ \/ /\ cloud' = [cloud EXCEPT ![name[p]] = held]
        /\ modified' = [modified EXCEPT ![name[p]] = now]
     \/ UNCHANGED bucket
  /\ Goto(p, "clean")
  /\ held' = "none"
  /\ name' = [name EXCEPT ![p] = 0]
  /\ UNCHANGED <<now, disk, mutex, since, surplus>>

\* PutObject replaces an object of that name; it may fail before or after.
UploadPut(p) ==
  /\ At(p, "put")
  /\ \/ /\ cloud' = [cloud EXCEPT ![name[p]] = held]
        /\ modified' = [modified EXCEPT ![name[p]] = now]
        /\ Goto(p, "clean") \/ Goto(p, "idle")
     \/ UNCHANGED bucket /\ Goto(p, "idle")
  /\ held' = "none"
  /\ name' = [name EXCEPT ![p] = 0]
  /\ UNCHANGED <<now, disk, mutex, since, surplus>>

\* Mutant: the age of the backup, not that of its upload.
ExpiredByName == {t \in Objects : t + KeepDays <= now}

\* Objects not modified after the cutoff.
Expired == {t \in Objects : modified[t] + KeepDays <= now}

\* cleanupCloudOld: the expired objects are deleted in the order of their
\* names until one DeleteObject fails.
UploadClean(p) ==
  /\ At(p, "clean")
  /\ \E gone \in SUBSET (IF KeepDays = 0 THEN {} ELSE Expired) :
       /\ \A t \in gone, u \in Expired : u < t => u \in gone
       /\ cloud' = [t \in Time |-> IF t \in gone THEN "none" ELSE cloud[t]]
       /\ modified' = [t \in Time |-> IF t \in gone THEN 0 ELSE modified[t]]
  /\ Goto(p, "idle")
  /\ UNCHANGED <<now, disk, mutex, local>>

-----------------------------------------------------------------------------

\* The upload and the cleanup after it take less than keep_days.
Tick ==
  /\ now < MaxTime
  /\ \A p \in Caller : ~At(p, "clean")
  /\ now' = now + 1
  /\ UNCHANGED <<disk, bucket, mutex, pc, local>>

\* The process is killed; what is on disk and in the bucket stays.
Crash ==
  /\ mutex' = Nobody
  /\ pc' = [p \in Caller |-> "idle"]
  /\ since' = [p \in Caller |-> 0]
  /\ name' = [p \in Caller |-> 0]
  /\ surplus' = [p \in Caller |-> {}]
  /\ held' = "none"
  /\ UNCHANGED <<now, disk, bucket>>

LocalBackup(p) ==
  \/ Acquire(p) \/ GiveUp(p) \/ Create(p) \/ Walk(p) \/ WalkFails(p)
  \/ Retain(p) \/ Retained(p) \/ Close(p)

Upload(p) == UploadPick(p) \/ UploadOpen(p) \/ UploadPut(p) \/ UploadClean(p)

Next ==
  \/ \E p \in Caller : LocalBackup(p)
  \/ Upload(Scheduler)
  \/ Tick \/ Crash

Spec == Init /\ [][Next]_vars

-----------------------------------------------------------------------------
(* Properties *)

\* Every variable has its type.
TypeOK ==
  /\ now \in Time
  /\ archive \in [Time -> Content] /\ cloud \in [Time -> Content]
  /\ modified \in [Time -> Time]
  /\ mutex \in Caller \cup {Nobody}
  /\ pc \in [Caller -> Label]
  /\ since \in [Caller -> Time] /\ name \in [Caller -> Time]
  /\ surplus \in [Caller -> SUBSET Time]
  /\ held \in Content
  /\ taken \in 0 .. Keep

\* A finished archive is never written to again: os.Create names by the
\* second, and only the sleep under the map's mutex keeps two backups of a
\* map from sharing a name.
WholeStaysWhole ==
  [][\A t \in Time : archive[t] = "whole" => archive'[t] \in {"whole", "none"}]_vars

\* Deleting an archive leaves Keep newer ones in the directory, whatever
\* backups, failures and crashes came before (keepLocalGenerations).
DeletesOnlyOld ==
  [][\A t \in Time : archive[t] # "none" /\ archive'[t] = "none"
       => Cardinality(Newer(t)) >= Keep]_vars

\* A backup that succeeds leaves no more than Keep archives, leftovers of
\* failed and interrupted ones included.
KeepsGenerations ==
  \A p \in Caller : At(p, "close") => Cardinality(Archives) <= Keep

\* Once the map has an object in the bucket it keeps having one, however long
\* ago it last ran: the cleanup follows an upload that refreshed LastModified.
CloudNeverEmptied ==
  [][Objects # {} => Objects' # {}]_vars

\* A new object is never older than one already in the bucket: the upload
\* picks without the mutex, but retention never deletes the newest archive.
CloudMovesForward ==
  [][\A t \in Time : cloud[t] = "none" /\ cloud'[t] # "none"
       => \A u \in Objects : u <= t]_vars

\* The inductive invariant of the properties of archives: a goroutine is in the section
\* exactly while it holds the mutex, no archive is of the future, and while
\* the holder sleeps none was begun since its sleep began.
Exclusive == \A p \in Caller : pc[p] \in Section <=> mutex = p

Past == \A t \in Time : archive[t] # "none" => t <= now

Quiet ==
  \A p \in Caller, t \in Time :
    At(p, "sleep") /\ archive[t] # "none" => t <= since[p]

\* The archive being written is the newest and still there: retention, which
\* runs before it is finished, leaves it alone.
WritesNewest ==
  \A p \in Caller : pc[p] \in Section \ {"sleep"} =>
    archive[name[p]] = "partial" /\ \A t \in Archives : t <= name[p]

\* What keepLocalGenerations still has to delete has Keep newer archives, and
\* Keep archives at most are left when it is done.
SurplusOld ==
  \A p \in Caller : At(p, "retain") =>
    /\ \A t \in surplus[p] : Cardinality(Newer(t)) >= Keep
    /\ Cardinality(Archives \ surplus[p]) <= Keep

\* The directory is never behind the bucket, nor is the archive picked for an
\* upload; and a cleanup follows an upload of this very moment.
BucketBehind ==
  /\ \A u \in Objects : \E t \in Archives : u <= t
  /\ pc[Scheduler] \in {"open", "put"} =>
       /\ \E t \in Archives : name[Scheduler] <= t
       /\ \A u \in Objects : u <= name[Scheduler]
  /\ At(Scheduler, "put") => held # "none"
  /\ At(Scheduler, "clean") =>
       \E t \in Objects : modified[t] = now /\ \A u \in Objects : u <= t

\* What the bucket has whole, or the upload has read whole, is not being
\* written; and the upload has read no less than the bucket has.
BucketWhole ==
  /\ \A t \in Time : cloud[t] = "whole" => archive[t] # "partial"
  /\ At(Scheduler, "put") =>
       /\ held = "whole" => archive[name[Scheduler]] # "partial"
       /\ cloud[name[Scheduler]] = "whole" => held = "whole"

BInv == /\ TypeOK /\ Exclusive /\ Past /\ Quiet /\ WritesNewest
        /\ SurplusOld /\ KeepsGenerations /\ BucketBehind /\ BucketWhole

\* Directory and bucket as the promises to whoever restores a backup: Backups
\* implements ArchiveStore, so a crash, a failure or an upload without the mutex
\* never lets either of them get worse.
Store == INSTANCE ArchiveStore
Stored == Store!Spec

\* docs/spec/01_bot_spec.md:354: keep_generations backups of the map remain,
\* or all that were made if there were fewer.
GenerationsKept ==
  mutex = Nobody => Cardinality(Whole) >= taken
=============================================================================
