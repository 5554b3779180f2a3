------------------------------- MODULE Reload -------------------------------
(***************************************************************************)
(* /ark config-reload (bot.go cmdConfigReload) beside the operations on    *)
(* maps.  A reload stops the maps that left config.yaml, replaces the      *)
(* configuration, and makes and deletes mutexes; operations look their map *)
(* and their mutex up without b.mu, one after the other, and keep what     *)
(* they found.  MapOps has the steps of the operations under one           *)
(* configuration; here an operation is what it does to the container and   *)
(* then to the books, both under the mutex it looked up.                   *)
(*                                                                         *)
(* A mutex of a map is known by a number: the how many-th made for it.     *)
(***************************************************************************)
EXTENDS Naturals, FiniteSets

CONSTANTS
  Map,        \* the map_ids an operator may list
  NoMap,
  Goroutine,  \* handlers and background goroutines
  MaxEdit     \* bound: how often config.yaml is edited

ASSUME ReloadAssumption == NoMap \notin Map /\ MaxEdit \in Nat

VARIABLES
  file,       \* the maps config.yaml lists; none, if it is invalid
  edits,      \* how often it was edited
  cfg,        \* b.cfg.Maps and b.mapByID
  locks,      \* b.mapLocks: the mutex of each map that has an entry
  made,       \* how many mutexes were made for a map
  books,      \* maps with entries in startedAt, nextLocalBackup, zeroSince
  up,         \* maps whose container is running
  pc,         \* where each goroutine stands
  op,         \* its operation
  target,     \* the map it works on
  mutex,      \* the mutex mapLock gave it
  new,        \* cmdConfigReload: newCfg, {} outside a reload
  todo,       \*   maps of the old configuration it has still to look at
  kept,       \* maps in every configuration of this process
  missed      \* per reload: maps it failed on, or that ran again behind it

mapTable  == <<cfg, locks, made, kept>>
fileVars  == <<file, edits>>
reloading == <<new, todo>>
going     == <<op, target, mutex>>
vars == <<fileVars, mapTable, books, up, pc, going, reloading, missed>>

\* LoadConfig with Validate: at least one map.
Valid(c) == c # {}

Section == {"work", "finish"}
Working(p, m) == pc[p] \in Section /\ target[p] = m

Init ==
  /\ file \in {c \in SUBSET Map : Valid(c)} /\ edits = 0
  /\ cfg = file /\ kept = file
  /\ locks = [m \in file |-> 1]
  /\ made = [m \in Map |-> IF m \in file THEN 1 ELSE 0]
  /\ books = {} /\ up = {}
  /\ pc = [p \in Goroutine |-> "idle"]
  /\ op = [p \in Goroutine |-> "none"]
  /\ target = [p \in Goroutine |-> NoMap]
  /\ mutex = [p \in Goroutine |-> 0]
  /\ new = [p \in Goroutine |-> {}]
  /\ todo = [p \in Goroutine |-> {}]
  /\ missed = [p \in Goroutine |-> {}]

-----------------------------------------------------------------------------
(* The operations on a map *)

At(p, label) == pc[p] = label
Goto(p, label) == pc' = [pc EXCEPT ![p] = label]

\* getMap, or the MapConfig a round took from CollectStatuses.
Choose(p, o, m) ==
  /\ m \in cfg
  /\ Goto(p, "lookup")
  /\ op' = [op EXCEPT ![p] = o]
  /\ target' = [target EXCEPT ![p] = m]
  /\ UNCHANGED mutex

\* A slash command or a step of a round; "visit" saves, backs up or asks for
\* the players.
Ask(p, o, m) ==
  /\ At(p, "idle")
  /\ Choose(p, o, m)
  /\ UNCHANGED <<fileVars, mapTable, books, up, reloading, missed>>

\* mapLock: a map without a mutex gets a new one.
Lookup(p) ==
  LET m == target[p]
      number == IF m \in DOMAIN locks THEN locks[m] ELSE made[m] + 1 IN
  /\ At(p, "lookup")
  /\ mutex' = [mutex EXCEPT ![p] = number]
  /\ locks' = [n \in DOMAIN locks \cup {m} |-> IF n = m THEN number ELSE locks[n]]
  /\ made' = [made EXCEPT ![m] = IF m \in DOMAIN locks THEN @ ELSE @ + 1]
  /\ Goto(p, "wait")
  /\ UNCHANGED <<fileVars, cfg, kept, books, up, op, target, reloading, missed>>

Lock(p) ==
  /\ At(p, "wait")
  /\ \A q \in Goroutine : Working(q, target[p]) => mutex[q] # mutex[p]
  /\ Goto(p, "work")
  /\ UNCHANGED <<fileVars, mapTable, books, up, going, reloading, missed>>

\* The deferred Unlock; a reload goes on with its next map.
Leave(p) ==
  /\ Goto(p, IF new[p] = {} THEN "idle" ELSE "check")
  /\ op' = [op EXCEPT ![p] = "none"]
  /\ target' = [target EXCEPT ![p] = NoMap]
  /\ mutex' = [mutex EXCEPT ![p] = 0]
  /\ UNCHANGED <<fileVars, mapTable, reloading>>

\* A save, a backup, a listing; or an operation that has nothing to do, or
\* fails before its effect.  A reload whose cmdStop does so has missed the map.
GiveUp(p) ==
  /\ At(p, "work")
  /\ Leave(p)
  /\ missed' = [missed EXCEPT ![p] = @ \cup ({target[p]} \cap up)]
  /\ UNCHANGED <<books, up>>

\* cmdStart: CreateContainer only for a map without a container, and
\* Podman.Start, whose answer may be lost.
StartRun(p) ==
  LET m == target[p] IN
  /\ At(p, "work") /\ op[p] = "start" /\ m \notin up
  /\ up' = up \cup {m}
  /\ missed' = [q \in Goroutine |->
                  IF new[q] # {} THEN missed[q] \cup {m} ELSE missed[q]]
  /\ \/ /\ Goto(p, "finish")
        /\ UNCHANGED <<fileVars, mapTable, going, reloading>>
     \/ Leave(p)
  /\ UNCHANGED books

StartFinish(p) ==
  /\ At(p, "finish") /\ op[p] = "start"
  /\ books' = books \cup {target[p]}
  /\ Leave(p)
  /\ UNCHANGED <<up, missed>>

\* cmdStop.
StopHalt(p) ==
  /\ At(p, "work") /\ op[p] = "stop" /\ target[p] \in up
  /\ up' = up \ {target[p]}
  /\ \/ /\ Goto(p, "finish")
        /\ UNCHANGED <<fileVars, mapTable, going, reloading>>
     \/ Leave(p)
  /\ UNCHANGED <<books, missed>>

StopFinish(p) ==
  /\ At(p, "finish") /\ op[p] = "stop"
  /\ books' = books \ {target[p]}
  /\ Leave(p)
  /\ UNCHANGED <<up, missed>>

-----------------------------------------------------------------------------
(* cmdConfigReload *)

\* An unreadable or invalid file ends the reload here, without effect.
ReloadLoad(p) ==
  /\ At(p, "idle") /\ Valid(file)
  /\ new' = [new EXCEPT ![p] = file]
  /\ Goto(p, "copy")
  /\ UNCHANGED <<fileVars, mapTable, books, up, going, todo, missed>>

\* The copy of mapByID under b.mu.
ReloadCopy(p) ==
  /\ At(p, "copy")
  /\ todo' = [todo EXCEPT ![p] = cfg \ new[p]]
  /\ missed' = [missed EXCEPT ![p] = {}]
  /\ Goto(p, "check")
  /\ UNCHANGED <<fileVars, mapTable, books, up, going, new>>

\* Mutant: InspectState of a removed map, but no cmdStop.
ReloadCheckOnly(p, m) ==
  /\ At(p, "check") /\ m \in todo[p]
  /\ todo' = [todo EXCEPT ![p] = @ \ {m}]
  /\ UNCHANGED <<pc, missed, fileVars, mapTable, books, up, new, going>>

\* InspectState of a removed map, and cmdStop if it runs.  The map is skipped
\* after an error of InspectState, or of getMap when another reload has removed
\* it already.
ReloadCheck(p, m) ==
  /\ At(p, "check") /\ m \in todo[p]
  /\ todo' = [todo EXCEPT ![p] = @ \ {m}]
  /\ \/ /\ m \in up
        /\ Choose(p, "stop", m)
        /\ UNCHANGED missed
     \/ /\ missed' = [missed EXCEPT ![p] = @ \cup ({m} \cap up)]
        /\ UNCHANGED <<pc, going>>
  /\ UNCHANGED <<fileVars, mapTable, books, up, new>>

\* Mutant: every map gets a new mutex.
ReloadSwapAnew(p) ==
  LET c == new[p] IN
  /\ At(p, "check") /\ todo[p] = {}
  /\ cfg' = c /\ kept' = kept \cap c
  /\ made' = [m \in Map |-> IF m \in c THEN made[m] + 1 ELSE made[m]]
  /\ locks' = [m \in c |-> made'[m]]
  /\ books' = books \ (DOMAIN locks \ c)
  /\ new' = [new EXCEPT ![p] = {}]
  /\ missed' = [q \in Goroutine |-> IF new'[q] = {} THEN {} ELSE Map]
  /\ Goto(p, "idle")
  /\ UNCHANGED <<fileVars, up, going, todo>>

\* The section under b.mu: mutexes for added maps, none for the others.
\* A reload under way meanwhile has missed whatever this one changed.
ReloadSwap(p) ==
  LET c == new[p]
      added == c \ DOMAIN locks IN
  /\ At(p, "check") /\ todo[p] = {}
  /\ cfg' = c /\ kept' = kept \cap c
  /\ made' = [m \in Map |-> IF m \in added THEN made[m] + 1 ELSE made[m]]
  /\ locks' = [m \in c |-> IF m \in added THEN made[m] + 1 ELSE locks[m]]
  /\ books' = books \ (DOMAIN locks \ c)
  /\ new' = [new EXCEPT ![p] = {}]
  /\ missed' = [q \in Goroutine |-> IF new'[q] = {} THEN {} ELSE Map]
  /\ Goto(p, "idle")
  /\ UNCHANGED <<fileVars, up, going, todo>>

-----------------------------------------------------------------------------
(* The world *)

\* An operator edits config.yaml, perhaps wrongly.
Edit ==
  /\ edits < MaxEdit
  /\ file' \in SUBSET Map \ {file} /\ edits' = edits + 1
  /\ UNCHANGED <<mapTable, books, up, pc, going, reloading, missed>>

ServerExits(m) ==
  /\ m \in up
  /\ up' = up \ {m}
  /\ UNCHANGED <<fileVars, mapTable, books, pc, going, reloading, missed>>

\* The process ends, by a signal or by the Go runtime, which kills a process
\* that it catches reading mapLocks or mapByID during the swap; a new one loads
\* the file and restores the books of maps it finds running.
Restart ==
  /\ Valid(file)
  /\ cfg' = file /\ kept' = file
  /\ locks' = [m \in file |-> 1]
  /\ made' = [m \in Map |-> IF m \in file THEN 1 ELSE 0]
  /\ books' \in SUBSET (up \cap file)
  /\ pc' = [p \in Goroutine |-> "idle"]
  /\ op' = [p \in Goroutine |-> "none"]
  /\ target' = [p \in Goroutine |-> NoMap]
  /\ mutex' = [p \in Goroutine |-> 0]
  /\ new' = [p \in Goroutine |-> {}]
  /\ todo' = [p \in Goroutine |-> {}]
  /\ missed' = [p \in Goroutine |-> {}]
  /\ UNCHANGED <<fileVars, up>>

Operation(p) ==
  \/ \E o \in {"start", "stop", "visit"}, m \in Map : Ask(p, o, m)
  \/ Lookup(p) \/ Lock(p) \/ GiveUp(p)
  \/ StartRun(p) \/ StartFinish(p) \/ StopHalt(p) \/ StopFinish(p)

ReloadStep(p) ==
  \/ ReloadLoad(p) \/ ReloadCopy(p) \/ ReloadSwap(p)
  \/ \E m \in Map : ReloadCheck(p, m)

Next ==
  \/ \E p \in Goroutine : Operation(p) \/ ReloadStep(p)
  \/ \E m \in Map : ServerExits(m)
  \/ Edit \/ Restart

Spec == Init /\ [][Next]_vars

-----------------------------------------------------------------------------
(* Properties *)

Label == {"idle", "lookup", "wait", "work", "finish", "copy", "check"}

\* Every variable has its type.
TypeOK ==
  /\ file \subseteq Map /\ edits \in Nat
  /\ cfg \subseteq Map /\ kept \subseteq Map
  /\ locks \in [DOMAIN locks -> Nat] /\ DOMAIN locks \subseteq Map
  /\ made \in [Map -> Nat]
  /\ books \subseteq Map /\ up \subseteq Map
  /\ pc \in [Goroutine -> Label]
  /\ op \in [Goroutine -> {"none", "start", "stop", "visit"}]
  /\ target \in [Goroutine -> Map \cup {NoMap}]
  /\ mutex \in [Goroutine -> Nat]
  /\ new \in [Goroutine -> SUBSET Map]
  /\ todo \in [Goroutine -> SUBSET Map]
  /\ missed \in [Goroutine -> SUBSET Map]

\* The operations on a map exclude each other across any number of reloads, as
\* long as each of their configurations lists the map.
KeptExclusive ==
  \A m \in kept, p, q \in Goroutine : Working(p, m) /\ Working(q, m) => p = q

\* Why: such a map has its first mutex still, and everybody who works on it or
\* waits for it has looked up that one.
KeptLock ==
  \A m \in kept :
    /\ m \in cfg /\ m \in DOMAIN locks /\ locks[m] = 1
    /\ \A p \in Goroutine : target[p] = m /\ pc[p] \in Section \cup {"wait"}
                              => mutex[p] = 1

\* A map a reload has dealt with is down, unless the reload failed on it, it
\* was started behind its back, or another reload overlapped.
Dealt(p) == cfg \ (new[p] \cup todo[p])

ReloadChecked ==
  \A p \in Goroutine : new[p] # {} /\ ~At(p, "copy") =>
    \A m \in Dealt(p) \cap up :
      m \in missed[p] \/ (target[p] = m /\ pc[p] \in {"lookup", "wait", "work"})

\* Whoever operates has a map, and whoever reloads a configuration.
Placed ==
  \A p \in Goroutine :
    /\ pc[p] \in Section \cup {"lookup", "wait"} => target[p] \in Map
    /\ pc[p] \in {"copy", "check"} => new[p] # {}

RInv == TypeOK /\ Placed /\ KeptExclusive /\ KeptLock /\ ReloadChecked

\* A running map that a reload is about to drop from the configuration, after
\* which no command reaches it, is one that it failed to inspect or to stop, or
\* that was started behind its back; or another reload overlapped.
OrphansExplained ==
  \A p \in Goroutine : At(p, "check") /\ todo[p] = {}
    => (cfg \ new[p]) \cap up \subseteq missed[p]

\* docs/spec/01_bot_spec.md:412: operations on one map are never executed at
\* the same time, whatever happens to the configuration.
OneOperationPerMap ==
  \A m \in Map, p, q \in Goroutine : Working(p, m) /\ Working(q, m) => p = q
=============================================================================
