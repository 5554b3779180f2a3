------------------------------ MODULE IdleStop ------------------------------
(***************************************************************************)
(* The unattended stop of one map with its clock (bot.go scanIdleOnce):    *)
(* an interval scan stops a map whose entry in zeroSince is IdleMinutes    *)
(* old.  MapOps has the locks; here a command on the map is the step that  *)
(* changes the container and, for a stop, the step that deletes the entry, *)
(* both under the map's mutex.  scanMu lets one scan run at a time.        *)
(*                                                                         *)
(* Times are kept as ages, which Tick advances up to Old: nothing compares *)
(* ages beyond it.                                                         *)
(***************************************************************************)
EXTENDS Naturals

CONSTANTS
  IdleMinutes,   \* runtime.idle_stop_minutes
  MaxScan        \* bound: how long one scan takes

ASSUME IdleStopAssumption ==
  IdleMinutes \in Nat \ {0} /\ MaxScan \in Nat

VARIABLES
  up,        \* the map's container is running
  upAge,     \* since when
  entry,     \* zeroSince has an entry for the map
  zeroAge,   \* its age
  scan,      \* where scanIdleOnce stands
  reason,    \* of the scan
  scanAge,   \* age of the scan's now
  command,   \* a handler's cmdStop between Podman.Stop and its return
  empty,     \* scans have found the map running and empty, nothing else,
  emptyAge   \*   and since when: what the entry is to stand for

watch == <<entry, zeroAge, empty, emptyAge>>
server == <<up, upAge>>
scanning == <<scan, reason, scanAge>>
vars == <<server, watch, scanning, command>>

Old == IdleMinutes + MaxScan

Init ==
  /\ up \in BOOLEAN /\ upAge = IF up THEN Old ELSE 0
  /\ entry = FALSE /\ zeroAge = 0
  /\ scan = "idle" /\ reason = "interval" /\ scanAge = 0
  /\ command = "idle"
  /\ empty = FALSE /\ emptyAge = 0

\* The scan or a handler holds the map's mutex across steps.
MapLocked == scan = "stopped" \/ command = "stopped"

EndScan == scan' = "idle" /\ reason' = "interval" /\ scanAge' = 0
Forget  == entry' = FALSE /\ zeroAge' = 0 /\ empty' = FALSE /\ emptyAge' = 0
Down    == up' = FALSE /\ upAge' = 0

-----------------------------------------------------------------------------
(* scanIdleOnce *)

\* CollectStatuses, where an error reads as not running, and now.
ScanBegin(r) ==
  /\ scan = "idle"
  /\ \E found \in {FALSE, up} : scan' = IF found THEN "list" ELSE "skip"
  /\ reason' = r
  /\ scanAge' = 0
  /\ UNCHANGED <<server, watch, command>>

ScanSkip ==
  /\ scan = "skip"
  /\ Forget
  /\ EndScan
  /\ UNCHANGED <<server, command>>

\* ListPlayers under the map's mutex: nobody, somebody, or no answer.
ListEmpty ==
  /\ scan = "list" /\ ~MapLocked /\ up
  /\ scan' = "judge_zero"
  /\ UNCHANGED <<server, watch, reason, scanAge, command>>

ListSome ==
  /\ scan = "list" /\ ~MapLocked /\ up
  /\ scan' = "judge_some"
  /\ empty' = FALSE /\ emptyAge' = 0
  /\ UNCHANGED <<server, entry, zeroAge, reason, scanAge, command>>

ListFails ==
  /\ scan = "list" /\ ~MapLocked
  /\ EndScan
  /\ UNCHANGED <<server, watch, command>>

\* Mutant: every empty scan counts the idle time from now.
JudgeZeroAnew ==
  /\ scan = "judge_zero"
  /\ entry' = TRUE /\ zeroAge' = scanAge
  /\ empty' = TRUE /\ emptyAge' = IF empty THEN emptyAge ELSE scanAge
  /\ IF reason = "manual"
     THEN scan' = "stop" /\ UNCHANGED <<reason, scanAge>>
     ELSE EndScan
  /\ UNCHANGED <<server, command>>

\* The section under b.mu after an empty answer, and shouldStop:
\* now.Sub(zeroAt) is the difference of the ages.
JudgeZero ==
  LET zero == IF entry THEN zeroAge ELSE scanAge IN
  /\ scan = "judge_zero"
  /\ entry' = TRUE /\ zeroAge' = zero
  /\ empty' = TRUE /\ emptyAge' = IF empty THEN emptyAge ELSE scanAge
  /\ IF reason = "manual" \/ zero >= scanAge + IdleMinutes
     THEN scan' = "stop" /\ UNCHANGED <<reason, scanAge>>
     ELSE EndScan
  /\ UNCHANGED <<server, command>>

\* Mutant: players do not clear the entry.
JudgeSomeKeeps ==
  /\ scan = "judge_some"
  /\ EndScan
  /\ UNCHANGED <<server, watch, command>>

JudgeSome ==
  /\ scan = "judge_some"
  /\ entry' = FALSE /\ zeroAge' = 0
  /\ EndScan
  /\ UNCHANGED <<server, empty, emptyAge, command>>

\* cmdStop of the scan: InspectState says stopped or fails, or Podman.Stop
\* does, perhaps after its effect.
ScanStopEnds ==
  /\ scan = "stop" /\ ~MapLocked
  /\ UNCHANGED server \/ Down
  /\ EndScan
  /\ UNCHANGED <<watch, command>>

ScanStop ==
  /\ scan = "stop" /\ ~MapLocked /\ up
  /\ Down
  /\ scan' = "stopped"
  /\ UNCHANGED <<watch, reason, scanAge, command>>

\* The entries are deleted and the scan ends.
ScanStopped ==
  /\ scan = "stopped"
  /\ Forget
  /\ EndScan
  /\ UNCHANGED <<server, command>>

-----------------------------------------------------------------------------
(* Other goroutines and the world *)

\* cmdStart does not touch zeroSince.
Start ==
  /\ command = "idle" /\ ~MapLocked /\ ~up
  /\ up' = TRUE /\ upAge' = 0
  /\ UNCHANGED <<watch, scanning, command>>

\* cmdStop of a handler; an error of Podman.Stop leaves the entry.
Stop ==
  /\ command = "idle" /\ ~MapLocked /\ up
  /\ Down
  /\ command' \in {"idle", "stopped"}
  /\ UNCHANGED <<watch, scanning>>

\* Mutant: a stop leaves the entry to the next scan.
StoppedKeeps ==
  /\ command = "stopped"
  /\ empty' = FALSE /\ emptyAge' = 0
  /\ command' = "idle"
  /\ UNCHANGED <<server, entry, zeroAge, scanning>>

Stopped ==
  /\ command = "stopped"
  /\ Forget
  /\ command' = "idle"
  /\ UNCHANGED <<server, scanning>>

ServerExits ==
  /\ up
  /\ Down
  /\ UNCHANGED <<watch, scanning, command>>

\* A new bot process starts with an empty zeroSince.
Restart ==
  /\ Forget
  /\ EndScan
  /\ command' = "idle"
  /\ UNCHANGED server

Older(age) == IF age < Old THEN age + 1 ELSE age

\* A scan takes MaxScan at most.
Tick ==
  /\ scan = "idle" \/ scanAge < MaxScan
  /\ upAge' = IF up THEN Older(upAge) ELSE upAge
  /\ zeroAge' = IF entry THEN Older(zeroAge) ELSE zeroAge
  /\ scanAge' = IF scan = "idle" THEN scanAge ELSE scanAge + 1
  /\ emptyAge' = IF empty THEN Older(emptyAge) ELSE emptyAge
  /\ UNCHANGED <<up, entry, scan, reason, command, empty>>

Scan ==
  \/ ScanSkip \/ ListEmpty \/ ListSome \/ ListFails \/ JudgeZero \/ JudgeSome
  \/ ScanStopEnds \/ ScanStop \/ ScanStopped

Next ==
  \/ \E r \in {"interval", "manual"} : ScanBegin(r)
  \/ Scan
  \/ Start \/ Stop \/ Stopped \/ ServerExits
  \/ Restart \/ Tick

Spec == Init /\ [][Next]_vars

\* Time passes, the ticker's scans begin and their calls come back, RCON
\* answers again and again, and a handler's stop returns.  Nothing makes a
\* command, a manual scan or a failure happen.
FairSpec ==
  /\ Spec
  /\ WF_vars(Tick) /\ WF_vars(Stopped)
  /\ SF_vars(ScanBegin("interval")) /\ SF_vars(Scan)
  /\ SF_vars(ListEmpty \/ ListSome) /\ SF_vars(ScanStop)

-----------------------------------------------------------------------------
(* Properties *)

\* Every variable has its type.
TypeOK ==
  /\ up \in BOOLEAN /\ entry \in BOOLEAN /\ empty \in BOOLEAN
  /\ upAge \in 0 .. Old /\ zeroAge \in 0 .. Old /\ emptyAge \in 0 .. Old
  /\ scan \in {"idle", "skip", "list", "judge_zero", "judge_some", "stop",
               "stopped"}
  /\ reason \in {"interval", "manual"}
  /\ scanAge \in 0 .. MaxScan
  /\ command \in {"idle", "stopped"}

\* The inductive invariant: an entry is no older than the run of empty scans it
\* stands for, except between an answer with players and its deletion, and
\* there is no such run without an entry.
EntryCovered ==
  /\ entry /\ scan # "judge_some" => empty /\ zeroAge <= emptyAge
  /\ empty => entry /\ scan # "judge_some"

TimeInv == TypeOK /\ EntryCovered

\* An interval scan decides to stop a map only if scans have found it empty,
\* and neither occupied nor stopped, for the last idle_stop_minutes, whatever
\* commands, failures and restarts came between.
StopsOnlyIdle ==
  [][scan = "judge_zero" /\ scan' = "stop" /\ reason = "interval"
       => empty' /\ emptyAge' >= scanAge + IdleMinutes]_vars

\* From some moment on the statuses are read, nobody plays, Podman.Stop works
\* and the bot is not restarted.
Trouble ==
  \/ ListSome \/ ScanStopEnds \/ Restart
  \/ up /\ \E r \in {"interval", "manual"} : ScanBegin(r) /\ scan' = "skip"

\* Then a running map is stopped in the end.
EmptyMapStopped == <>[][~Trouble]_vars => []<>~up

\* docs/spec/01_bot_spec.md:333: a map is stopped when it was unattended for
\* longer than idle_stop_minutes: not when it has not even run that long.
StopsNoFreshServer ==
  [][scan = "judge_zero" /\ scan' = "stop" /\ reason = "interval" /\ up
       => upAge >= IdleMinutes]_vars
=============================================================================
