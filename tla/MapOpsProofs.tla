---------------------------- MODULE MapOpsProofs ----------------------------
(* Theorems about MapOps, for every value of its constants. *)
EXTENDS MapOps, FiniteSetTheorems, TLAPS

-----------------------------------------------------------------------------
(* Podman's outcomes *)

\* The containers a Podman call leaves behind, as the caller may use them.
LEMMA CreateAfter ==
  ASSUME NEW c \in Container, NEW r \in CreateOutcomes(c, ClusterID)
  PROVE  /\ r.after \in Container /\ r.ok \in BOOLEAN
         /\ r.after = c \/ (c = Absent /\ r.after = Stopped(ClusterID))
         /\ r.ok /\ c = Absent => r.after = Stopped(ClusterID)
<1>1. Stopped(ClusterID) \in Container
  BY MapOpsAssumption DEF Stopped, Container
<1>2. Exists(c) <=> c # Absent
  BY DEF Exists, Container, Absent
<1>3. \/ r = Refused(c)
      \/ c # Absent /\ r = [after |-> c, ok |-> TRUE]
      \/ c = Absent /\ r \in [after : {Stopped(ClusterID)}, ok : BOOLEAN]
  BY <1>2 DEF CreateOutcomes
<1>4. CASE r = Refused(c)
  BY <1>4 DEF Refused
<1>5. CASE c # Absent /\ r = [after |-> c, ok |-> TRUE]
  BY <1>5
<1>6. CASE c = Absent /\ r \in [after : {Stopped(ClusterID)}, ok : BOOLEAN]
  <2>1. r.after = Stopped(ClusterID) /\ r.ok \in BOOLEAN
    BY <1>6
  <2> QED
    BY <2>1, <1>1, <1>6
<1> QED
  BY <1>3, <1>4, <1>5, <1>6

LEMMA StartAfter ==
  ASSUME NEW c \in Container, NEW r \in StartOutcomes(c)
  PROVE  /\ r.after \in Container /\ r.ok \in BOOLEAN
         /\ r.after = c \/ (c # Absent /\ r.after = [c EXCEPT !.status = "running"])
<1>1. c # Absent => c \in [status : {"stopped", "running"}, cluster : Cluster]
  BY DEF Container
<1>2. c # Absent => [c EXCEPT !.status = "running"] \in Container
  BY <1>1 DEF Container
<1> DEFINE on == [c EXCEPT !.status = "running"]
<1>3. r = Refused(c) \/ (c # Absent /\ r \in [after : {on}, ok : BOOLEAN])
  BY DEF StartOutcomes, Exists, Absent
<1> HIDE DEF on
<1>4. CASE r = Refused(c)
  BY <1>4 DEF Refused
<1>5. CASE c # Absent /\ r \in [after : {on}, ok : BOOLEAN]
  <2>1. r.after = on /\ r.ok \in BOOLEAN
    BY <1>5
  <2> QED
    BY <2>1, <1>2, <1>5 DEF on
<1> QED
  BY <1>3, <1>4, <1>5

LEMMA RunningCluster ==
  ASSUME NEW c \in Container, Running(c)
  PROVE  c.cluster \in Cluster
<1>1. c # Absent
  BY DEF Running, Absent
<1> QED
  BY <1>1 DEF Container

LEMMA StopAfter ==
  ASSUME NEW c \in Container, NEW r \in StopOutcomes(c)
  PROVE  /\ r.after \in Container /\ r.ok \in BOOLEAN
         /\ r.after = c \/ (Running(c) /\ r.after = Stopped(c.cluster))
         /\ r.ok => r.after.status = "stopped"
<1>1. Running(c) => c \in [status : {"stopped", "running"}, cluster : Cluster]
  BY DEF Container, Absent, Running
<1>2. Running(c) => /\ [c EXCEPT !.status = "stopped"] = Stopped(c.cluster)
                    /\ Stopped(c.cluster) \in Container
  BY <1>1 DEF Container, Stopped
<1> DEFINE off == [c EXCEPT !.status = "stopped"]
<1>3. \/ r = Refused(c)
      \/ Running(c) /\ r \in [after : {off}, ok : BOOLEAN]
  BY DEF StopOutcomes
<1> HIDE DEF off
<1>4. CASE r = Refused(c)
  BY <1>4 DEF Refused
<1>5. CASE Running(c) /\ r \in [after : {off}, ok : BOOLEAN]
  <2>1. r.after = off /\ r.ok \in BOOLEAN
    BY <1>5
  <2>2. off = Stopped(c.cluster) /\ off \in Container
    BY <1>2, <1>5 DEF off
  <2> QED
    BY <2>1, <2>2, <1>5 DEF Stopped
<1> QED
  BY <1>3, <1>4, <1>5

LEMMA RemoveAfter ==
  ASSUME NEW c \in Container, NEW r \in RemoveOutcomes(c)
  PROVE  /\ r.after \in Container /\ r.ok \in BOOLEAN
         /\ r.after = c \/ r.after = Absent
         /\ r.ok => r.after = Absent
<1>1. r = Refused(c) \/ r \in [after : {Absent}, ok : BOOLEAN]
  BY DEF RemoveOutcomes
<1>2. CASE r = Refused(c)
  BY <1>2 DEF Refused
<1>3. CASE r \in [after : {Absent}, ok : BOOLEAN]
  <2>1. r.after = Absent /\ r.ok \in BOOLEAN
    BY <1>3
  <2> QED
    BY <2>1 DEF Container
<1> QED
  BY <1>1, <1>2, <1>3

-----------------------------------------------------------------------------
(* Types *)

LEMMA ExceptTyped ==
  ASSUME NEW S, NEW T, NEW f \in [S -> T], NEW x, NEW e \in T
  PROVE  [f EXCEPT ![x] = e] \in [S -> T]
  OBVIOUS

\* What the unlocking steps of p do to the types.
LEMMA UnlockTyped ==
  ASSUME TypeOK, NEW p \in Proc
  PROVE  /\ Leave(p) => /\ lock' \in [Map -> Proc \cup {Nobody}]
                        /\ pc' \in [Proc -> Label]
                        /\ round' \in [Proc -> Round \cup {"none"}]
                        /\ target' \in [Proc -> Map \cup {NoMap}]
                        /\ room' \in [Proc -> BOOLEAN]
                        /\ todo' \in [Proc -> SUBSET Map]
                        /\ seen' \in [Proc -> SUBSET Map]
         /\ \A label \in Label : UnlockThen(p, label) \/ Proceed(p, label)
                     => /\ lock' \in [Map -> Proc \cup {Nobody}]
                        /\ pc' \in [Proc -> Label]
                        /\ round' \in [Proc -> Round \cup {"none"}]
                        /\ target' \in [Proc -> Map \cup {NoMap}]
                        /\ room' \in [Proc -> BOOLEAN]
                        /\ todo' \in [Proc -> SUBSET Map]
                        /\ seen' \in [Proc -> SUBSET Map]
  BY DEF TypeOK, Leave, UnlockThen, Proceed, Goto, roundVars, Label

LEMMA StartTyped ==
  ASSUME TypeOK, NEW p \in Proc, Start(p), target[p] \in Map
  PROVE  TypeOK'
<1> USE DEF scanVars, muVars, roundVars, goVars
<1> DEFINE c == container[target[p]]
<1>c. c \in Container
  BY DEF TypeOK
<1>1. CASE StartCount(p)
  <2>1. CASE Leave(p)
    BY <2>1, <1>1, UnlockTyped DEF TypeOK, StartCount
  <2>2. CASE ~Leave(p)
    <3> DEFINE below == Cardinality(RunningMaps) < MaxRunningMaps
    <3>1. below \in BOOLEAN
      OBVIOUS
    <3>2. room' = [room EXCEPT ![p] = below] /\ Goto(p, "inspect")
      BY <2>2, <1>1 DEF StartCount
    <3> HIDE DEF below
    <3>3. room' \in [Proc -> BOOLEAN]
      BY <3>1, <3>2 DEF TypeOK
    <3>4. pc' \in [Proc -> Label]
      BY <3>2 DEF TypeOK, Goto, Label, Section
    <3> QED
      BY <3>3, <3>4, <2>2, <1>1 DEF TypeOK, StartCount
  <2> QED
    BY <2>1, <2>2
<1>2. CASE StartInspect(p)
  BY <1>2, UnlockTyped DEF TypeOK, StartInspect, Label, Section
<1>3. CASE StartRemove(p)
  BY <1>3, <1>c, UnlockTyped, RemoveAfter DEF TypeOK, StartRemove, Label, Section
<1>4. CASE StartRecreate(p)
  BY <1>4, <1>c, UnlockTyped, CreateAfter DEF TypeOK, StartRecreate, Label, Section
<1>5. CASE StartCreate(p)
  BY <1>5, <1>c, UnlockTyped, CreateAfter DEF TypeOK, StartCreate, Label, Section
<1>6. CASE StartRun(p)
  <2>1. PICK r \in StartOutcomes(container[target[p]]) :
          /\ container' = [container EXCEPT ![target[p]] = r.after]
          /\ \/ /\ Goto(p, "started")
                /\ room' = [room EXCEPT ![p] = FALSE]
                /\ UNCHANGED <<lock, roundVars, target, notice>>
             \/ Notify(target[p], "start failed") /\ Leave(p)
    BY <1>6 DEF StartRun
  <2>2. container' \in [Map -> Container]
    BY <2>1, <1>c, StartAfter DEF TypeOK
  <2>3. UNCHANGED <<scanVars, tracked>>
    BY <1>6 DEF StartRun
  <2>4. CASE Notify(target[p], "start failed") /\ Leave(p)
    BY <2>2, <2>3, <2>4, UnlockTyped DEF TypeOK, Notify
  <2>5. CASE /\ Goto(p, "started")
             /\ room' = [room EXCEPT ![p] = FALSE]
             /\ UNCHANGED <<lock, roundVars, target, notice>>
    <3>1. pc' \in [Proc -> Label] /\ room' \in [Proc -> BOOLEAN]
      BY <2>5 DEF TypeOK, Goto, Label, Section
    <3> QED
      BY <3>1, <2>2, <2>3, <2>5 DEF TypeOK
  <2> QED
    BY <2>1, <2>4, <2>5
<1>7. CASE StartFinish(p)
  BY <1>7, UnlockTyped DEF TypeOK, StartFinish, Notify, StartEntries, Entry
<1> QED
  BY <1>1, <1>2, <1>3, <1>4, <1>5, <1>6, <1>7 DEF Start

LEMMA StopTyped ==
  ASSUME TypeOK, NEW p \in Proc, Stop(p), target[p] \in Map
  PROVE  TypeOK'
<1> USE DEF scanVars, muVars, roundVars, goVars
<1> DEFINE c == container[target[p]]
<1>c. c \in Container
  BY DEF TypeOK
<1>r. Report(p) => done' \in [Proc -> SUBSET Map]
  <2> DEFINE more == done[p] \cup {target[p]}
  <2>1. done \in [Proc -> SUBSET Map] /\ more \in SUBSET Map
    BY DEF TypeOK
  <2>2. Report(p) => done' = done \/ done' = [done EXCEPT ![p] = more]
    BY DEF Report
  <2> HIDE DEF more
  <2> QED
    BY <2>1, <2>2
<1>1. CASE StopCheck(p)
  BY <1>1, <1>r, UnlockTyped DEF TypeOK, StopCheck, Label, Section
<1>2. CASE StopSaveWorld(p)
  BY <1>2, UnlockTyped DEF TypeOK, StopSaveWorld, Label, Section
<1>3. CASE StopHalt(p)
  <2> DEFINE next == IF RunOnStop /\ LocalEnabled THEN "coldbackup" ELSE "stopped"
  <2>1. PICK r \in StopOutcomes(container[target[p]]) :
          /\ container' = [container EXCEPT ![target[p]] = r.after]
          /\ \/ Proceed(p, next) /\ UNCHANGED notice
             \/ Notify(target[p], "stop failed") /\ Leave(p)
    BY <1>3 DEF StopHalt
  <2>2. container' \in [Map -> Container]
    BY <2>1, <1>c, StopAfter DEF TypeOK
  <2>3. UNCHANGED <<scanVars, tracked>>
    BY <1>3 DEF StopHalt
  <2>4. CASE Notify(target[p], "stop failed") /\ Leave(p)
    BY <2>2, <2>3, <2>4, UnlockTyped DEF TypeOK, Notify
  <2>5. CASE Proceed(p, next) /\ UNCHANGED notice
    <3>1. next \in Label
      BY DEF Label, Section
    <3> HIDE DEF next
    <3> QED
      BY <3>1, <2>2, <2>3, <2>5, UnlockTyped DEF TypeOK
  <2> QED
    BY <2>1, <2>4, <2>5
<1>4. CASE StopBackup(p)
  BY <1>4, UnlockTyped DEF TypeOK, StopBackup, Label, Section
<1>5. CASE StopFinish(p)
  BY <1>5, <1>r, UnlockTyped DEF TypeOK, StopFinish, Notify
<1> QED
  BY <1>1, <1>2, <1>3, <1>4, <1>5 DEF Stop

LEMMA RoundsTyped ==
  ASSUME TypeOK, NEW p \in Proc, Rounds(p)
  PROVE  TypeOK'
<1> USE DEF scanVars, muVars, roundVars, goVars
<1>1. CASE LockScan(p)
  BY <1>1 DEF TypeOK, LockScan, Goto, Label
<1>2. CASE EndRound(p)
  BY <1>2 DEF TypeOK, EndRound, Goto, Label
<1>3. CASE VisitRcon(p)
  BY <1>3, UnlockTyped DEF TypeOK, VisitRcon, Label, Section
<1>4. CASE VisitBackup(p)
  BY <1>4, UnlockTyped DEF TypeOK, VisitBackup, Label, Section
<1>5. ASSUME NEW m \in Map, Collect(p, m) PROVE TypeOK'
  <2>1. PICK found \in {FALSE, Running(container[m])} :
          seen' = [seen EXCEPT ![p] = IF found THEN @ \cup {m} ELSE @]
    BY <1>5 DEF Collect
  <2>2. seen' \in [Proc -> SUBSET Map]
    BY <2>1 DEF TypeOK
  <2>3. CASE todo[p] = {m}
    BY <2>2, <2>3, <1>5 DEF TypeOK, Collect, Goto, Label
  <2>4. CASE todo[p] # {m}
    <3>1. todo[p] \ {m} \in SUBSET Map
      BY DEF TypeOK
    <3>2. todo' = [todo EXCEPT ![p] = todo[p] \ {m}] /\ pc' = pc
      BY <2>4, <1>5 DEF Collect
    <3>3. todo' \in [Proc -> SUBSET Map]
      BY <3>1, <3>2, ExceptTyped DEF TypeOK
    <3> QED
      BY <2>2, <3>2, <3>3, <1>5 DEF TypeOK, Collect
  <2> QED
    BY <2>3, <2>4
<1>6. ASSUME NEW m \in Map, Skip(p, m) PROVE TypeOK'
  BY <1>6 DEF TypeOK, Skip
<1>7. ASSUME NEW m \in Map, VisitMap(p, m) PROVE TypeOK'
  BY <1>7 DEF TypeOK, VisitMap, Goto, Label
<1> QED
  BY <1>1, <1>2, <1>3, <1>4, <1>5, <1>6, <1>7 DEF Rounds

LEMMA JudgeTyped ==
  ASSUME TypeOK, NEW p \in Proc, Judge(p), target[p] \in Map
  PROVE  TypeOK'
<1> USE DEF scanVars, muVars, roundVars, goVars, Goto, Label
<1>1. CASE JudgeEmpty(p)
  BY <1>1 DEF TypeOK, JudgeEmpty, Entry
<1>2. CASE JudgeOccupied(p)
  BY <1>2 DEF TypeOK, JudgeOccupied
<1>3. CASE LocalDue(p)
  <2> DEFINE entered == tracked[target[p]] \cup {"startedAt", "nextLocalBackup"}
  <2>1. entered \in SUBSET Entry /\ tracked \in [Map -> SUBSET Entry]
    BY DEF TypeOK, Entry
  <2>2. tracked' = tracked \/ tracked' = [tracked EXCEPT ![target[p]] = entered]
    BY <1>3 DEF LocalDue
  <2> HIDE DEF entered
  <2>3. tracked' \in [Map -> SUBSET Entry]
    BY <2>1, <2>2, ExceptTyped
  <2> QED
    BY <2>3, <1>3 DEF TypeOK, LocalDue
<1>4. CASE LocalReschedule(p)
  BY <1>4 DEF TypeOK, LocalReschedule, Entry
<1> QED
  BY <1>1, <1>2, <1>3, <1>4 DEF Judge

\* A command or a tick that begins a round.
LEMMA BeginTyped ==
  ASSUME TypeOK, NEW p \in Proc, NEW r \in Round, BeginRound(p, r),
         scanMu' = scanMu, scanQueue' \in BOOLEAN, done' = done
  PROVE  TypeOK'
  BY DEF TypeOK, BeginRound, muVars, Goto, Label

\* The books restoreRuntimeState makes.
LEMMA RestoredTyped ==
  /\ Restored \subseteq [Map -> SUBSET Entry]
  /\ Restored' \subseteq [Map -> SUBSET Entry]
  BY DEF Restored, StartEntries, Entry

LEMMA TypeStep ==
  ASSUME TypeOK, TargetChosen, [Next]_vars
  PROVE  TypeOK'
<1> USE DEF scanVars, muVars, roundVars, goVars
<1>1. CASE UNCHANGED vars
  BY <1>1 DEF TypeOK, vars
<1>2. ASSUME NEW p \in Proc, LockMap(p) PROVE TypeOK'
  BY <1>2 DEF TypeOK, LockMap, Goto, FirstStep, Label, Section, At
<1>3. ASSUME NEW p \in Proc, Start(p) PROVE TypeOK'
  BY <1>3, StartTyped
  DEF TargetChosen, At, Start, StartCount, StartInspect, StartRemove,
      StartRecreate, StartCreate, StartRun, StartFinish
<1>4. ASSUME NEW p \in Proc, Stop(p) PROVE TypeOK'
  BY <1>4, StopTyped
  DEF TargetChosen, At, Stop, StopCheck, StopSaveWorld, StopHalt, StopBackup,
      StopFinish
<1>5. ASSUME NEW p \in Proc, Rounds(p) PROVE TypeOK'
  BY <1>5, RoundsTyped
<1>6. ASSUME NEW p \in Proc, Judge(p) PROVE TypeOK'
  BY <1>6, JudgeTyped
  DEF TargetChosen, At, Judge, JudgeEmpty, JudgeOccupied, LocalDue,
      LocalReschedule
<1>7. ASSUME NEW p \in Handler, NEW m \in Map, SlashStart(p, m) \/ SlashStop(p, m)
      PROVE  TypeOK'
  <2>1. p \in Proc
    BY DEF Proc
  <2>2. CASE SlashStart(p, m)
    BY <2>1, <2>2 DEF TypeOK, SlashStart, Goto, Label
  <2>3. CASE SlashStop(p, m)
    BY <2>1, <2>3 DEF TypeOK, SlashStop, Goto, Label
  <2> QED
    BY <1>7, <2>2, <2>3
<1>8. ASSUME NEW p \in Handler, NEW r \in Round, SlashRound(p, r) PROVE TypeOK'
  BY <1>8, BeginTyped DEF TypeOK, SlashRound, Proc
<1>9. CASE ScanTick
  BY <1>9 DEF TypeOK, ScanTick
<1>10. CASE ScanWorker \/ PresenceTick \/ MinuteTick \/ Signal
  BY <1>10, BeginTyped
  DEF TypeOK, ScanWorker, PresenceTick, MinuteTick, Signal, Proc, Round
<1>11. ASSUME NEW m \in Map, ServerExits(m) PROVE TypeOK'
  <2>c. container[m] \in Container /\ Running(container[m])
    BY <1>11 DEF TypeOK, ServerExits
  <2>1. Stopped(container[m].cluster) \in Container
    BY <2>c, RunningCluster DEF Stopped, Container
  <2> QED
    BY <2>1, <1>11 DEF TypeOK, ServerExits
<1>12. CASE Restart
  BY <1>12, RestoredTyped DEF TypeOK, Restart, Label
<1> QED
  BY <1>1, <1>2, <1>3, <1>4, <1>5, <1>6, <1>7, <1>8, <1>9, <1>10, <1>11, <1>12
  DEF Next, Work

-----------------------------------------------------------------------------
(* What one step of one goroutine can touch *)

\* The steps of goroutine p.
Turn(p) ==
  \/ Work(p)
  \/ p \in Handler /\ \E m \in Map : SlashStart(p, m) \/ SlashStop(p, m)
  \/ p \in Handler /\ \E r \in Round : SlashRound(p, r)
  \/ p = Scanner /\ ScanWorker
  \/ p = Scheduler /\ (PresenceTick \/ MinuteTick)
  \/ p = Main /\ Signal

Stays(p) ==
  /\ lock' = lock /\ (InSection(p)' <=> InSection(p))
  /\ InSection(p) => target'[p] = target[p]

Enters(p) ==
  /\ ~InSection(p) /\ InSection(p)' /\ target[p] \in Map /\ target'[p] = target[p]
  /\ lock[target[p]] = Nobody /\ lock' = [lock EXCEPT ![target[p]] = p]

Exits(p) ==
  /\ InSection(p) /\ ~InSection(p)' /\ target[p] \in Map
  /\ lock' = [lock EXCEPT ![target[p]] = Nobody]

Footprint(p) ==
  /\ \A q \in Proc \ {p} : /\ pc'[q] = pc[q] /\ target'[q] = target[q]
                           /\ room'[q] = room[q]
  /\ \A m \in Map : container'[m] = container[m] \/ (InSection(p) /\ m = target[p])
  /\ Stays(p) \/ Enters(p) \/ Exits(p)
  /\ pc'[p] \notin {"idle", "wait_scan", "collect", "each"} => target'[p] \in Map

\* The three ways an operation's step ends.
LEMMA EndOfStep ==
  ASSUME TypeOK, NEW p \in Proc, InSection(p), target[p] \in Map,
         \A m \in Map \ {target[p]} : container'[m] = container[m]
  PROVE  /\ Leave(p) => Footprint(p)
         /\ \A label \in Section : Proceed(p, label) => Footprint(p)
         /\ \A label \in Label \ Section : UnlockThen(p, label) => Footprint(p)
<1>1. Leave(p) => Footprint(p)
  BY DEF TypeOK, Leave, Footprint, Stays, Enters, Exits, InSection, Section, Goto
<1>2. ASSUME NEW label \in Section, Proceed(p, label) PROVE Footprint(p)
  BY <1>2 DEF TypeOK, Proceed, Footprint, Stays, Enters, Exits, InSection, Goto
<1>3. ASSUME NEW label \in Label \ Section, UnlockThen(p, label) PROVE Footprint(p)
  BY <1>3 DEF TypeOK, UnlockThen, Footprint, Stays, Enters, Exits, InSection, Goto
<1> QED
  BY <1>1, <1>2, <1>3

LEMMA StartFootprint ==
  ASSUME TypeOK, TargetChosen, NEW p \in Proc, Start(p)
  PROVE  Footprint(p)
<1>0. InSection(p) /\ target[p] \in Map
  BY DEF InSection, TargetChosen, Section, At, Start, StartCount, StartInspect,
         StartRemove, StartRecreate, StartCreate, StartRun, StartFinish
<1>1. CASE StartCount(p)
  <2>1. CASE Leave(p)
    BY <1>0, <1>1, <2>1, EndOfStep DEF StartCount
  <2>2. CASE ~Leave(p)
    BY <1>0, <1>1, <2>2
    DEF TypeOK, StartCount, Goto, Footprint, Stays, InSection, Section
  <2> QED
    BY <2>1, <2>2
<1>2. CASE StartInspect(p)
  BY <1>0, <1>2, EndOfStep DEF StartInspect, Section
<1>3. CASE StartRemove(p)
  BY <1>0, <1>3, EndOfStep DEF TypeOK, StartRemove, Section
<1>4. CASE StartRecreate(p)
  BY <1>0, <1>4, EndOfStep DEF TypeOK, StartRecreate, Section
<1>5. CASE StartCreate(p)
  BY <1>0, <1>5, EndOfStep DEF TypeOK, StartCreate, Section
<1>6. CASE StartRun(p)
  <2>1. \A m \in Map \ {target[p]} : container'[m] = container[m]
    BY <1>6 DEF TypeOK, StartRun
  <2>2. CASE Leave(p)
    BY <1>0, <2>1, <2>2, EndOfStep
  <2>3. CASE ~Leave(p)
    BY <1>0, <1>6, <2>1, <2>3
    DEF TypeOK, StartRun, Goto, Footprint, Stays, InSection, Section
  <2> QED
    BY <2>2, <2>3
<1>7. CASE StartFinish(p)
  BY <1>0, <1>7, EndOfStep DEF StartFinish
<1> QED
  BY <1>1, <1>2, <1>3, <1>4, <1>5, <1>6, <1>7 DEF Start

LEMMA StopFootprint ==
  ASSUME TypeOK, TargetChosen, NEW p \in Proc, Stop(p)
  PROVE  Footprint(p)
<1>0. InSection(p) /\ target[p] \in Map
  BY DEF InSection, TargetChosen, Section, At, Stop, StopCheck, StopSaveWorld,
         StopHalt, StopBackup, StopFinish
<1>1. CASE StopCheck(p)
  BY <1>0, <1>1, EndOfStep DEF StopCheck, Section
<1>2. CASE StopSaveWorld(p)
  BY <1>0, <1>2, EndOfStep DEF StopSaveWorld, Section
<1>3. CASE StopHalt(p)
  BY <1>0, <1>3, EndOfStep DEF TypeOK, StopHalt, Section
<1>4. CASE StopBackup(p)
  BY <1>0, <1>4, EndOfStep DEF StopBackup, Section
<1>5. CASE StopFinish(p)
  BY <1>0, <1>5, EndOfStep DEF StopFinish
<1> QED
  BY <1>1, <1>2, <1>3, <1>4, <1>5 DEF Stop

LEMMA RoundsFootprint ==
  ASSUME TypeOK, TargetChosen, NEW p \in Proc, Rounds(p)
  PROVE  Footprint(p)
<1> USE DEF roundVars, scanVars, muVars, At
<1>1. CASE LockScan(p)
  BY <1>1 DEF TypeOK, LockScan, Goto, Footprint, Stays, InSection, Section
<1>2. CASE EndRound(p)
  BY <1>2 DEF TypeOK, EndRound, Goto, Footprint, Stays, InSection, Section
<1>3. CASE VisitRcon(p)
  <2>1. InSection(p) /\ target[p] \in Map
    BY <1>3 DEF VisitRcon, InSection, Section, TargetChosen
  <2> QED
    BY <1>3, <2>1, EndOfStep DEF VisitRcon, Section, Label
<1>4. CASE VisitBackup(p)
  <2>1. InSection(p) /\ target[p] \in Map
    BY <1>4 DEF VisitBackup, InSection, Section, TargetChosen
  <2> QED
    BY <1>4, <2>1, EndOfStep DEF VisitBackup, Section, Label
<1>5. ASSUME NEW m \in Map, Collect(p, m) PROVE Footprint(p)
  <2>1. pc' = pc \/ pc' = [pc EXCEPT ![p] = "each"]
    BY <1>5 DEF Collect, Goto
  <2> QED
    BY <1>5, <2>1 DEF TypeOK, Collect, Footprint, Stays, InSection, Section
<1>6. ASSUME NEW m \in Map, Skip(p, m) PROVE Footprint(p)
  BY <1>6 DEF TypeOK, Skip, Footprint, Stays, InSection, Section
<1>7. ASSUME NEW m \in Map, VisitMap(p, m) PROVE Footprint(p)
  BY <1>7 DEF TypeOK, VisitMap, Goto, Footprint, Stays, InSection, Section
<1> QED
  BY <1>1, <1>2, <1>3, <1>4, <1>5, <1>6, <1>7 DEF Rounds

LEMMA JudgeFootprint ==
  ASSUME TypeOK, TargetChosen, NEW p \in Proc, Judge(p)
  PROVE  Footprint(p)
<1> USE DEF roundVars, scanVars, At, Goto, TypeOK, TargetChosen, Footprint, Stays,
            InSection, Section
<1>1. CASE JudgeEmpty(p)
  BY <1>1 DEF JudgeEmpty
<1>2. CASE JudgeOccupied(p)
  BY <1>2 DEF JudgeOccupied
<1>3. CASE LocalDue(p)
  BY <1>3 DEF LocalDue
<1>4. CASE LocalReschedule(p)
  BY <1>4 DEF LocalReschedule
<1> QED
  BY <1>1, <1>2, <1>3, <1>4 DEF Judge

LEMMA TurnFootprint ==
  ASSUME TypeOK, TargetChosen, NEW p \in Proc, Turn(p)
  PROVE  Footprint(p)
<1>1. CASE LockMap(p)
  BY <1>1 DEF TypeOK, TargetChosen, LockMap, FirstStep, Goto, At, Footprint, Enters,
              InSection, Section
<1>2. ASSUME NEW m \in Map, SlashStart(p, m) \/ SlashStop(p, m) PROVE Footprint(p)
  <2> USE DEF TypeOK, Goto, At, Footprint, Stays, InSection, Section
  <2>1. CASE SlashStart(p, m)
    BY <2>1 DEF SlashStart
  <2>2. CASE SlashStop(p, m)
    BY <2>2 DEF SlashStop
  <2> QED
    BY <1>2, <2>1, <2>2
<1>3. ASSUME NEW r \in Round, BeginRound(p, r) PROVE Footprint(p)
  BY <1>3 DEF TypeOK, BeginRound, Goto, At, Footprint, Stays, InSection, Section
<1>4. CASE \E r \in Round : SlashRound(p, r)
  BY <1>3, <1>4 DEF SlashRound
<1>5. CASE \/ p = Scanner /\ ScanWorker
           \/ p = Scheduler /\ (PresenceTick \/ MinuteTick)
           \/ p = Main /\ Signal
  BY <1>3, <1>5 DEF ScanWorker, PresenceTick, MinuteTick, Signal, Round
<1>6. CASE Work(p)
  BY <1>1, <1>6, StartFootprint, StopFootprint, RoundsFootprint, JudgeFootprint
  DEF Work
<1> QED
  BY <1>2, <1>4, <1>5, <1>6 DEF Turn

\* A step is a goroutine's, or the ticker's, or a server exits, or the process
\* makes way for a new one.
LEMMA StepKinds ==
  ASSUME Next
  PROVE  \/ \E p \in Proc : Turn(p)
         \/ ScanTick
         \/ \E m \in Map : ServerExits(m)
         \/ Restart
<1>1. CASE \E p \in Proc : Work(p)
  BY <1>1 DEF Turn
<1>2. CASE \E p \in Handler, m \in Map : SlashStart(p, m) \/ SlashStop(p, m)
  BY <1>2 DEF Turn, Proc
<1>3. CASE \E p \in Handler, r \in Round : SlashRound(p, r)
  BY <1>3 DEF Turn, Proc
<1>4. CASE ScanWorker \/ PresenceTick \/ MinuteTick \/ Signal
  BY <1>4 DEF Turn, Proc
<1> QED
  BY <1>1, <1>2, <1>3, <1>4 DEF Next

-----------------------------------------------------------------------------
(* The mutexes *)

LEMMA LockTurn ==
  ASSUME TypeOK, LockHeld, TargetChosen, NEW p \in Proc, Turn(p)
  PROVE  LockHeld' /\ TargetChosen'
<1>1. Footprint(p)
  BY TurnFootprint
<1>2. TargetChosen'
  BY <1>1 DEF Footprint, TargetChosen
<1>3. \A q \in Proc \ {p} : /\ InSection(q)' <=> InSection(q)
                            /\ target'[q] = target[q]
  BY <1>1 DEF Footprint, InSection
<1>4. p # Nobody /\ lock \in [Map -> Proc \cup {Nobody}]
  BY MapOpsAssumption DEF TypeOK
<1>5. CASE Stays(p)
  BY <1>2, <1>3, <1>5 DEF Stays, LockHeld
<1>6. CASE Enters(p) \/ Exits(p)
  <2> SUFFICES ASSUME NEW q \in Proc, NEW m \in Map
               PROVE  lock'[m] = q <=> InSection(q)' /\ target'[q] = m
    BY <1>2 DEF LockHeld
  <2>1. CASE m # target[p]
    BY <1>3, <1>4, <1>6, <2>1 DEF Enters, Exits, LockHeld
  <2>2. CASE m = target[p]
    BY <1>3, <1>4, <1>6, <2>2, MapOpsAssumption DEF Enters, Exits, LockHeld
  <2> QED
    BY <2>1, <2>2
<1> QED
  BY <1>1, <1>2, <1>5, <1>6 DEF Footprint

LEMMA LockStep ==
  ASSUME TypeOK, LockHeld, TargetChosen, [Next]_vars
  PROVE  LockHeld' /\ TargetChosen'
<1>1. CASE UNCHANGED vars
  BY <1>1 DEF vars, LockHeld, TargetChosen, InSection
<1>2. ASSUME NEW p \in Proc, Turn(p) PROVE LockHeld' /\ TargetChosen'
  BY <1>2, LockTurn
<1>3. CASE ScanTick \/ \E m \in Map : ServerExits(m)
  BY <1>3 DEF ScanTick, ServerExits, goVars, LockHeld, TargetChosen, InSection
<1>4. CASE Restart
  BY <1>4, MapOpsAssumption DEF Restart, LockHeld, TargetChosen, InSection, Section
<1> QED
  BY <1>1, <1>2, <1>3, <1>4, StepKinds

LEMMA HolderAlone ==
  ASSUME TypeOK, LockHeld, TargetChosen
  PROVE  OneOperationPerMap
  BY DEF LockHeld, TargetChosen, OneOperationPerMap, InSection, Section

-----------------------------------------------------------------------------
(* The count of running maps a start has read *)

\* Outside of cmdStart nothing is read and no start is under way.
LEMMA OffStart ==
  ASSUME TypeOK, NEW p \in Proc, Stop(p) \/ Rounds(p) \/ Judge(p)
  PROVE  /\ pc[p] \notin StartLabel /\ pc'[p] \notin StartLabel
         /\ room' = room \/ room' = [room EXCEPT ![p] = FALSE]
<1> USE DEF StartLabel, Goto, At
<1>1. CASE Stop(p)
  <2> USE DEF Proceed, Leave, TypeOK
  <2>1. CASE StopCheck(p)
    BY <2>1 DEF StopCheck
  <2>2. CASE StopSaveWorld(p)
    BY <2>2 DEF StopSaveWorld
  <2>3. CASE StopHalt(p)
    BY <2>3 DEF StopHalt
  <2>4. CASE StopBackup(p)
    BY <2>4 DEF StopBackup
  <2>5. CASE StopFinish(p)
    BY <2>5 DEF StopFinish
  <2> QED
    BY <1>1, <2>1, <2>2, <2>3, <2>4, <2>5 DEF Stop
<1>2. CASE Rounds(p)
  <2> USE DEF Proceed, Leave, UnlockThen, TypeOK
  <2>1. CASE LockScan(p)
    BY <2>1 DEF LockScan
  <2>2. CASE EndRound(p)
    BY <2>2 DEF EndRound
  <2>3. CASE VisitRcon(p)
    BY <2>3 DEF VisitRcon
  <2>4. CASE VisitBackup(p)
    BY <2>4 DEF VisitBackup
  <2>5. ASSUME NEW m \in Map, Collect(p, m)
        PROVE  /\ pc[p] \notin StartLabel /\ pc'[p] \notin StartLabel
               /\ room' = room
    BY <2>5 DEF Collect
  <2>6. ASSUME NEW m \in Map, Skip(p, m) \/ VisitMap(p, m)
        PROVE  /\ pc[p] \notin StartLabel /\ pc'[p] \notin StartLabel
               /\ room' = room
    BY <2>6 DEF Skip, VisitMap
  <2> QED
    BY <1>2, <2>1, <2>2, <2>3, <2>4, <2>5, <2>6 DEF Rounds
<1>3. CASE Judge(p)
  BY <1>3 DEF TypeOK, Judge, JudgeEmpty, JudgeOccupied, LocalDue, LocalReschedule
<1> QED
  BY <1>1, <1>2, <1>3

LEMMA RoomStep ==
  ASSUME TypeOK, TargetChosen, RoomRead, [Next]_vars
  PROVE  RoomRead'
<1> USE DEF StartLabel
<1>1. CASE UNCHANGED vars
  BY <1>1 DEF vars, RoomRead
<1>2. ASSUME NEW p \in Proc, Turn(p) PROVE RoomRead'
  <2> USE DEF At, Goto, roundVars
  <2>1. CASE Start(p)
    <3> USE DEF Proceed, Leave
    <3>1. CASE StartCount(p)
      BY <3>1 DEF TypeOK, StartCount, RoomRead
    <3>2. CASE StartInspect(p)
      BY <3>2 DEF TypeOK, StartInspect, RoomRead
    <3>3. CASE StartRemove(p)
      <4>1. At(p, "remove") /\ (Leave(p) \/ Proceed(p, "recreate"))
        BY <3>3 DEF StartRemove
      <4> QED
        BY <4>1 DEF TypeOK, RoomRead
    <3>4. CASE StartRecreate(p)
      <4>1. At(p, "recreate") /\ (Leave(p) \/ (room[p] /\ Proceed(p, "run")))
        BY <3>4 DEF StartRecreate
      <4> QED
        BY <4>1 DEF TypeOK, RoomRead
    <3>5. CASE StartCreate(p)
      <4>1. At(p, "create") /\ (Leave(p) \/ Proceed(p, "run"))
        BY <3>5 DEF StartCreate
      <4> QED
        BY <4>1 DEF TypeOK, RoomRead
    <3>6. CASE StartRun(p)
      BY <3>6 DEF TypeOK, StartRun, RoomRead
    <3>7. CASE StartFinish(p)
      BY <3>7 DEF TypeOK, StartFinish, RoomRead
    <3> QED
      BY <2>1, <3>1, <3>2, <3>3, <3>4, <3>5, <3>6, <3>7 DEF Start
  <2>2. CASE LockMap(p)
    BY <2>2 DEF TypeOK, LockMap, FirstStep, RoomRead
  <2>3. ASSUME NEW m \in Map, SlashStop(p, m) PROVE RoomRead'
    BY <2>3 DEF TypeOK, SlashStop, RoomRead
  <2>4. ASSUME NEW m \in Map, p \in Handler, SlashStart(p, m) PROVE RoomRead'
    BY <2>4 DEF TypeOK, SlashStart, RoomRead
  <2>5. ASSUME NEW r \in Round, BeginRound(p, r) PROVE RoomRead'
    BY <2>5 DEF TypeOK, BeginRound, RoomRead
  <2>6. CASE Stop(p) \/ Rounds(p) \/ Judge(p)
    <3>1. /\ pc[p] \notin StartLabel /\ pc'[p] \notin StartLabel
          /\ room' = room \/ room' = [room EXCEPT ![p] = FALSE]
      BY <2>6, OffStart
    <3>2. \A q \in Proc \ {p} : pc'[q] = pc[q]
      BY <1>2, TurnFootprint DEF Footprint
    <3> QED
      BY <3>1, <3>2 DEF TypeOK, RoomRead
  <2> QED
    BY <1>2, <2>1, <2>2, <2>3, <2>4, <2>5, <2>6
    DEF Turn, Work, SlashRound, ScanWorker, PresenceTick, MinuteTick, Signal, Round
<1>3. CASE ScanTick \/ \E m \in Map : ServerExits(m)
  BY <1>3 DEF ScanTick, ServerExits, goVars, RoomRead
<1>4. CASE Restart
  BY <1>4 DEF Restart, RoomRead
<1> QED
  BY <1>1, <1>2, <1>3, <1>4, StepKinds

-----------------------------------------------------------------------------
(* What a goroutine knows of its container *)

\* Only cmdStart and cmdStop go where the container is known.
LEMMA OffStartLabels ==
  ASSUME TypeOK, NEW p \in Proc, Turn(p), ~(Start(p) \/ Stop(p))
  PROVE  /\ pc'[p] \notin {"remove", "recreate", "create", "run", "coldbackup",
                           "stopped"}
         /\ container' = container /\ notice' = notice
         /\ \A q \in Proc : room'[q] => room[q]
         /\ pc[p] # "started"
<1> USE DEF TypeOK, Goto, At, Leave, UnlockThen, Proceed, roundVars, muVars, scanVars
<1>1. CASE LockMap(p)
  BY <1>1 DEF LockMap, FirstStep
<1>2. ASSUME NEW m \in Map, SlashStart(p, m) \/ SlashStop(p, m)
      PROVE  /\ pc'[p] \in {"wait_start", "wait_stop"} /\ pc[p] = "idle"
             /\ container' = container /\ notice' = notice /\ room' = room
  BY <1>2 DEF SlashStart, SlashStop
<1>3. ASSUME NEW r \in Round, BeginRound(p, r)
      PROVE  /\ pc'[p] \in {"wait_scan", "collect"} /\ pc[p] = "idle"
             /\ container' = container /\ notice' = notice /\ room' = room
  BY <1>3 DEF BeginRound
<1>4. CASE LockScan(p) \/ EndRound(p)
  BY <1>4 DEF LockScan, EndRound
<1>5. CASE VisitRcon(p) \/ VisitBackup(p)
  BY <1>5 DEF VisitRcon, VisitBackup
<1>6. ASSUME NEW m \in Map, Collect(p, m)
      PROVE  /\ pc'[p] \in {"collect", "each"} /\ pc[p] = "collect"
             /\ container' = container /\ notice' = notice /\ room' = room
  BY <1>6 DEF Collect
<1>7. ASSUME NEW m \in Map, Skip(p, m) \/ VisitMap(p, m)
      PROVE  /\ pc'[p] \in {"each", "due", "wait_visit", "wait_stop"}
             /\ pc[p] = "each"
             /\ container' = container /\ notice' = notice /\ room' = room
  BY <1>7 DEF Skip, VisitMap
<1>8. CASE Judge(p)
  <2>1. CASE JudgeEmpty(p)
    BY <2>1 DEF JudgeEmpty
  <2>2. CASE JudgeOccupied(p) \/ LocalReschedule(p)
    BY <2>2 DEF JudgeOccupied, LocalReschedule
  <2>3. CASE LocalDue(p)
    BY <2>3 DEF LocalDue
  <2> QED
    BY <1>8, <2>1, <2>2, <2>3 DEF Judge
<1> HIDE DEF TypeOK, Goto, At, Leave, UnlockThen, Proceed, roundVars, muVars, scanVars
<1>9. CASE Rounds(p)
  BY <1>4, <1>5, <1>6, <1>7, <1>9 DEF Rounds
<1>10. CASE \E r \in Round : BeginRound(p, r)
  BY <1>3, <1>10
<1>11. CASE \E m \in Map : SlashStart(p, m) \/ SlashStop(p, m)
  BY <1>2, <1>11
<1> QED
  BY <1>1, <1>8, <1>9, <1>10, <1>11
  DEF Turn, Work, SlashRound, ScanWorker, PresenceTick, MinuteTick, Signal, Round

LEMMA KnowledgeStep ==
  ASSUME TypeOK, LockHeld, TargetChosen, ContainerKnown, [Next]_vars
  PROVE  ContainerKnown'
<1>1. CASE UNCHANGED vars
  BY <1>1 DEF vars, ContainerKnown, Knows, At
<1>2. ASSUME NEW p \in Proc, Turn(p) PROVE ContainerKnown'
  <2>1. ASSUME NEW q \in Proc \ {p} PROVE Knows(q)'
    <3>1. CASE ~InSection(q)
      BY <1>2, <3>1, TurnFootprint DEF Footprint, Knows, At, InSection, Section
    <3>2. CASE InSection(q)
      <4>1. target[q] \in Map /\ (InSection(p) => target[q] # target[p])
        BY <3>2, HolderAlone DEF OneOperationPerMap, TargetChosen, InSection, Section
      <4>2. /\ pc'[q] = pc[q] /\ target'[q] = target[q]
            /\ container'[target[q]] = container[target[q]]
        BY <1>2, <4>1, TurnFootprint DEF Footprint
      <4>3. Knows(q)
        BY DEF ContainerKnown
      <4> QED
        BY <4>2, <4>3 DEF Knows, At
    <3> QED
      BY <3>1, <3>2
  <2>2. Knows(p)'
    <3> DEFINE Ends == {"remove", "recreate", "create", "run", "coldbackup", "stopped"}
    <3>0. pc'[p] \notin Ends => Knows(p)'
      BY DEF Knows, At
    <3> DEFINE c == container[target[p]]
    <3>t. CASE Start(p) \/ Stop(p)
      <4>0. target[p] \in Map
        BY <3>t DEF Start, StartCount, StartInspect, StartRemove, StartRecreate,
           StartCreate, StartRun, StartFinish, Stop, StopCheck, StopSaveWorld,
           StopHalt, StopBackup, StopFinish, At, TargetChosen
      <4>c. c \in Container /\ Knows(p)
        BY <4>0 DEF TypeOK, ContainerKnown
      <4> USE DEF Goto, Proceed, Leave
      <4>1. CASE StartCount(p)
        BY <4>1, <3>0 DEF TypeOK, StartCount
      <4>2. CASE StartInspect(p)
        <5>1. CASE Leave(p)
          BY <5>1, <3>0 DEF TypeOK
        <5>2. CASE Proceed(p, "remove") /\ ~Running(c) /\ Exists(c) /\ c.cluster # ClusterID
          <6>1. c.status = "stopped"
            BY <5>2, <4>c DEF Container, Running, Exists, Absent
          <6> QED
            BY <5>2, <6>1, <4>2 DEF TypeOK, StartInspect, Knows, At
        <5>3. CASE Proceed(p, "create") /\ ~Exists(c)
          <6>1. c = Absent
            BY <5>3, <4>c DEF Container, Exists
          <6> QED
            BY <5>3, <6>1, <4>2 DEF TypeOK, StartInspect, Knows, At
        <5>4. CASE Proceed(p, "run") /\ ~Running(c) /\ Exists(c) /\ c.cluster = ClusterID
          <6>1. c = Stopped(ClusterID)
            BY <5>4, <4>c DEF Container, Exists, Running, Stopped, Absent
          <6> QED
            BY <5>4, <6>1, <4>2 DEF TypeOK, StartInspect, Knows, At
        <5> QED
          BY <4>2, <5>1, <5>2, <5>3, <5>4 DEF StartInspect
      <4>3. CASE StartRemove(p)
        <5>1. CASE Leave(p)
          BY <5>1, <3>0 DEF TypeOK
        <5>2. CASE ~Leave(p)
          <6>1. Proceed(p, "recreate") /\ container'[target[p]] = Absent
            BY <4>3, <5>2, <4>0, <4>c, RemoveAfter DEF TypeOK, StartRemove
          <6> QED
            BY <6>1 DEF TypeOK, Knows, At
        <5> QED
          BY <5>1, <5>2
      <4>4. CASE StartRecreate(p) \/ StartCreate(p)
        <5>1. CASE Leave(p)
          BY <5>1, <3>0 DEF TypeOK
        <5>2. CASE ~Leave(p)
          <6>1. c = Absent
            BY <4>4, <4>c DEF StartRecreate, StartCreate, Knows, At
          <6>2. Proceed(p, "run") /\ container'[target[p]] = Stopped(ClusterID)
            <7>1. PICK r \in CreateOutcomes(c, ClusterID) :
                    /\ container' = [container EXCEPT ![target[p]] = r.after]
                    /\ r.ok /\ Proceed(p, "run")
              BY <4>4, <5>2 DEF StartRecreate, StartCreate
            <7>2. r.after = Stopped(ClusterID)
              BY <6>1, <7>1, <4>c, CreateAfter
            <7> QED
              BY <7>1, <7>2, <4>0 DEF TypeOK
          <6> QED
            BY <6>2 DEF TypeOK, Knows, At, Stopped
        <5> QED
          BY <5>1, <5>2
      <4>5. CASE StartRun(p)
        BY <4>5, <3>0 DEF TypeOK, StartRun
      <4>6. CASE StartFinish(p)
        BY <4>6, <3>0 DEF TypeOK, StartFinish
      <4>7. CASE StopCheck(p) \/ StopSaveWorld(p)
        BY <4>7, <3>0 DEF TypeOK, StopCheck, StopSaveWorld
      <4>8. CASE StopHalt(p)
        <5>1. CASE Leave(p)
          BY <5>1, <3>0 DEF TypeOK
        <5>2. CASE ~Leave(p)
          <6>1. /\ container'[target[p]].status = "stopped"
                /\ Proceed(p, "coldbackup") \/ Proceed(p, "stopped")
            BY <4>8, <5>2, <4>0, <4>c, StopAfter DEF TypeOK, StopHalt
          <6> QED
            BY <6>1 DEF TypeOK, Knows, At
        <5> QED
          BY <5>1, <5>2
      <4>9. CASE StopBackup(p)
        BY <4>9, <4>c DEF TypeOK, StopBackup, Knows, At
      <4>10. CASE StopFinish(p)
        BY <4>10, <3>0 DEF TypeOK, StopFinish
      <4> QED
        BY <3>t, <4>1, <4>2, <4>3, <4>4, <4>5, <4>6, <4>7, <4>8, <4>9, <4>10
        DEF Start, Stop
    <3>o. CASE ~(Start(p) \/ Stop(p))
      <4>1. pc'[p] \notin Ends
        BY <1>2, <3>o, OffStartLabels
      <4> QED
        BY <3>0, <4>1
    <3> QED
      BY <3>t, <3>o
  <2> QED
    BY <2>1, <2>2 DEF ContainerKnown
<1>3. CASE ScanTick
  BY <1>3 DEF ScanTick, goVars, ContainerKnown, Knows, At
<1>4. ASSUME NEW m \in Map, ServerExits(m) PROVE ContainerKnown'
  <2>1. ASSUME NEW q \in Proc PROVE Knows(q)'
    <3>1. Knows(q)
      BY DEF ContainerKnown
    <3>2. CASE target[q] # m
      BY <1>4, <3>1, <3>2 DEF ServerExits, goVars, Knows, At
    <3>3. CASE target[q] = m
      BY <1>4, <3>1, <3>3 DEF ServerExits, goVars, Knows, At, Running, Stopped, Absent
    <3> QED
      BY <3>2, <3>3
  <2> QED
    BY <2>1 DEF ContainerKnown
<1>5. CASE Restart
  BY <1>5 DEF Restart, ContainerKnown, Knows, At
<1> QED
  BY <1>1, <1>2, <1>3, <1>4, <1>5, StepKinds

-----------------------------------------------------------------------------
(* What the channel was told *)

\* What p's step leaves of the container and the notice of its map.
LEMMA OwnMap ==
  ASSUME TypeOK, LockHeld, TargetChosen, ContainerKnown, NEW p \in Proc, Turn(p),
         InSection(p), target[p] \in Map
  PROVE  LET m == target[p] IN
         \/ notice'[m] \notin {"stopped", "none"}
         \/ ~Running(container'[m])
         \/ pc'[p] = "started" /\ lock'[m] = p
         \/ /\ pc[p] # "started" /\ notice'[m] = notice[m]
            /\ Running(container[m])
<1> DEFINE m == target[p]
<1> DEFINE c == container[m]
<1>c. /\ c \in Container /\ lock[m] = p
      /\ \A d : container' = [container EXCEPT ![m] = d] => container'[m] = d
  BY DEF TypeOK, LockHeld
<1>1. CASE ~(Start(p) \/ Stop(p))
  BY <1>1, OffStartLabels
<1> USE DEF At, muVars
<1>2. CASE StartCount(p) \/ StartInspect(p) \/ StopCheck(p) \/ StopSaveWorld(p)
              \/ StopBackup(p)
  BY <1>2 DEF StartCount, StartInspect, StopCheck, StopSaveWorld, StopBackup
<1>3. CASE StartRemove(p)
  <2>1. PICK r \in RemoveOutcomes(c) : container' = [container EXCEPT ![m] = r.after]
    BY <1>3 DEF StartRemove
  <2>2. container'[m] = c \/ container'[m] = Absent
    BY <2>1, <1>c, RemoveAfter
  <2>3. pc[p] # "started" /\ notice' = notice
    BY <1>3 DEF StartRemove
  <2> QED
    BY <2>2, <2>3 DEF Running, Absent
<1>4. CASE StartRecreate(p) \/ StartCreate(p)
  <2>1. PICK r \in CreateOutcomes(c, ClusterID) :
          container' = [container EXCEPT ![m] = r.after]
    BY <1>4 DEF StartRecreate, StartCreate
  <2>2. container'[m] = c \/ container'[m] = Stopped(ClusterID)
    BY <2>1, <1>c, CreateAfter
  <2>3. pc[p] # "started" /\ notice' = notice
    BY <1>4 DEF StartRecreate, StartCreate
  <2> QED
    BY <2>2, <2>3 DEF Running, Stopped
<1>5. CASE StartRun(p)
  BY <1>5, <1>c DEF TypeOK, StartRun, Notify, Goto, Leave
<1>6. CASE StartFinish(p)
  BY <1>6 DEF TypeOK, StartFinish, Notify
<1>7. CASE StopHalt(p)
  <2>1. PICK r \in StopOutcomes(c) : container' = [container EXCEPT ![m] = r.after]
    BY <1>7 DEF StopHalt
  <2>2. container'[m] = c \/ container'[m] = Stopped(c.cluster)
    BY <2>1, <1>c, StopAfter
  <2>3. /\ pc[p] # "started"
        /\ notice' = notice \/ notice'[m] = "stop failed"
    BY <1>7 DEF TypeOK, StopHalt, Notify
  <2>4. Running(container'[m]) => Running(c)
    BY <2>2 DEF Running, Stopped
  <2> QED
    BY <2>3, <2>4
<1>8. CASE StopFinish(p)
  BY <1>8 DEF StopFinish, ContainerKnown, Knows, Running
<1> QED
  BY <1>1, <1>2, <1>3, <1>4, <1>5, <1>6, <1>7, <1>8 DEF Start, Stop

LEMMA NoticeElsewhere ==
  ASSUME TypeOK, TargetChosen, NEW p \in Proc, Turn(p), NEW m \in Map,
         ~InSection(p) \/ m # target[p]
  PROVE  notice'[m] = notice[m]
<1> USE DEF muVars, Notify, TypeOK
<1>1. CASE Start(p)
  BY <1>1 DEF Start, StartCount, StartInspect, StartRemove, StartRecreate,
     StartCreate, StartRun, StartFinish, InSection, Section, At
<1>2. CASE Stop(p)
  BY <1>2 DEF Stop, StopCheck, StopSaveWorld, StopHalt, StopBackup, StopFinish,
     InSection, Section, At
<1> QED
  BY <1>1, <1>2, OffStartLabels

\* What was unsaid of a running map stays so only while a start is about to
\* tell.
LEMMA Unsaid ==
  ASSUME TypeOK, LockHeld, TargetChosen, ContainerKnown, NEW p \in Proc, Turn(p),
         NEW m \in Map, NEW x \in {"stopped", "none"},
         notice'[m] = x, Running(container'[m]),
         notice[m] = x /\ Running(container[m])
           => lock[m] # Nobody /\ At(lock[m], "started")
  PROVE  lock'[m] # Nobody /\ pc'[lock'[m]] = "started"
<1>0. LockHeld' /\ TargetChosen' /\ Footprint(p)
  BY LockTurn, TurnFootprint
<1>1. CASE InSection(p) /\ m = target[p]
  <2>1. lock[m] = p
    BY <1>1 DEF LockHeld
  <2>2. ~(pc[p] # "started" /\ notice'[m] = notice[m] /\ Running(container[m]))
    BY <2>1 DEF At
  <2>3. pc'[p] = "started" /\ lock'[m] = p
    BY <1>1, <2>2, OwnMap
  <2> QED
    BY <2>3, MapOpsAssumption
<1>2. CASE ~(InSection(p) /\ m = target[p])
  <2>1. notice[m] = x /\ Running(container[m])
    BY <1>0, <1>2, NoticeElsewhere DEF Footprint
  <2>2. lock[m] # Nobody /\ pc[lock[m]] = "started"
    BY <2>1 DEF At
  <2> DEFINE q == lock[m]
  <2>3. q \in Proc /\ InSection(q) /\ target[q] = m
    <3>1. q \in Proc
      BY <2>2 DEF TypeOK
    <3> QED
      BY <3>1 DEF LockHeld
  <2>4. q # p
    BY <1>2, <2>3
  <2>5. pc'[q] = "started" /\ target'[q] = m
    BY <1>0, <2>2, <2>3, <2>4 DEF Footprint
  <2>6. lock'[m] = q
    BY <1>0, <2>3, <2>5 DEF LockHeld, InSection, Section
  <2> QED
    BY <2>2, <2>5, <2>6
<1> QED
  BY <1>1, <1>2

\* cmdStop returns without an error to a scan or a shutdown only for a map that
\* does not run.
LEMMA DoneGrows ==
  ASSUME TypeOK, TargetChosen, ContainerKnown, NEW p \in Proc, Turn(p)
  PROVE  /\ \A q \in Proc \ {p} : done'[q] = done[q]
         /\ \A m \in done'[p] \ done[p] : ~Running(container'[m])
<1> USE DEF TypeOK, scanVars, At
<1>1. CASE StopCheck(p)
  <2>1. container' = container
    BY <1>1 DEF StopCheck
  <2>2. CASE done' = done
    BY <2>2
  <2>3. CASE ~Running(container[target[p]]) /\ Report(p)
    BY <2>1, <2>3 DEF Report
  <2> QED
    BY <1>1, <2>2, <2>3 DEF StopCheck
<1>2. CASE StopFinish(p)
  <2>1. ~Running(container[target[p]]) /\ container' = container
    BY <1>2 DEF StopFinish, ContainerKnown, Knows, Running
  <2> QED
    BY <1>2, <2>1 DEF StopFinish, Report
<1>3. CASE EndRound(p)
  BY <1>3 DEF EndRound
<1>4. ASSUME ~StopCheck(p), ~StopFinish(p), ~EndRound(p) PROVE done' = done
  <2>1. CASE Start(p) \/ Stop(p)
    BY <1>4, <2>1 DEF Start, StartCount, StartInspect, StartRemove, StartRecreate,
       StartCreate, StartRun, StartFinish, Stop, StopSaveWorld, StopHalt, StopBackup
  <2>2. CASE LockMap(p) \/ Judge(p)
    BY <2>2 DEF LockMap, Judge, JudgeEmpty, JudgeOccupied, LocalDue, LocalReschedule
  <2>3. CASE Rounds(p)
    BY <1>4, <2>3 DEF Rounds, LockScan, VisitRcon, VisitBackup, Collect, Skip, VisitMap
  <2>4. CASE ~Work(p)
    BY <2>4 DEF Turn, SlashStart, SlashStop, SlashRound, ScanWorker, PresenceTick,
       MinuteTick, Signal
  <2> QED
    BY <2>1, <2>2, <2>3, <2>4 DEF Work
<1> QED
  BY <1>1, <1>2, <1>3, <1>4

LEMMA NoticeStep ==
  ASSUME TypeOK, LockHeld, TargetChosen, ContainerKnown, UnreportedStart, DoneDown,
         [Next]_vars
  PROVE  UnreportedStart' /\ DoneDown'
<1>1. CASE UNCHANGED vars
  BY <1>1 DEF vars, UnreportedStart, DoneDown, At
<1>2. ASSUME NEW p \in Proc, Turn(p) PROVE UnreportedStart' /\ DoneDown'
  <2>1. UnreportedStart'
    <3> SUFFICES ASSUME NEW m \in Map, notice'[m] = "stopped", Running(container'[m])
                 PROVE  lock'[m] # Nobody /\ pc'[lock'[m]] = "started"
      BY DEF UnreportedStart, At
    <3>1. notice[m] = "stopped" /\ Running(container[m])
            => lock[m] # Nobody /\ At(lock[m], "started")
      BY DEF UnreportedStart
    <3> QED
      BY <1>2, <3>1, Unsaid
  <2>2. DoneDown'
    <3> SUFFICES ASSUME NEW q \in Proc, NEW m \in done'[q],
                        notice'[m] = "none", Running(container'[m])
                 PROVE  lock'[m] # Nobody /\ pc'[lock'[m]] = "started"
      BY DEF DoneDown, At
    <3>1. m \in done[q]
      BY <1>2, DoneGrows
    <3>2. m \in Map
      BY <3>1 DEF TypeOK
    <3>3. notice[m] = "none" /\ Running(container[m])
            => lock[m] # Nobody /\ At(lock[m], "started")
      BY <3>1 DEF DoneDown
    <3> QED
      BY <1>2, <3>2, <3>3, Unsaid
  <2> QED
    BY <2>1, <2>2
<1>3. CASE ScanTick
  BY <1>3 DEF ScanTick, goVars, muVars, UnreportedStart, DoneDown, At
<1>4. ASSUME NEW m \in Map, ServerExits(m) PROVE UnreportedStart' /\ DoneDown'
  <2>1. /\ UNCHANGED <<lock, done, notice, pc>>
        /\ \A n \in Map : Running(container'[n]) => Running(container[n])
    BY <1>4 DEF ServerExits, goVars, muVars, scanVars, TypeOK, Running, Stopped
  <2> QED
    BY <2>1 DEF UnreportedStart, DoneDown, At, TypeOK
<1>5. CASE Restart
  BY <1>5 DEF Restart, UnreportedStart, DoneDown
<1> QED
  BY <1>1, <1>2, <1>3, <1>4, <1>5, StepKinds

-----------------------------------------------------------------------------
(* How far the limit can be exceeded *)

\* The starts that hold a count read below the limit; all are handlers'.
Readers == {p \in Proc : room[p]}

LEMMA FiniteCounts ==
  ASSUME NEW M \in SUBSET Map, NEW D \in SUBSET Handler
  PROVE  /\ IsFiniteSet(M) /\ IsFiniteSet(D)
         /\ Cardinality(M) \in Nat /\ Cardinality(D) \in Nat
         /\ Cardinality(D) <= Cardinality(Handler)
         /\ Cardinality(Handler) \in Nat \ {0}
<1>1. IsFiniteSet(M)
  BY MapOpsAssumption, FS_Subset
<1>2. IsFiniteSet(D) /\ Cardinality(D) <= Cardinality(Handler)
  BY MapOpsAssumption, FS_Subset
<1>3. Cardinality(Handler) \in Nat /\ Cardinality(Handler) # 0
  BY MapOpsAssumption, FS_CardinalityType, FS_EmptySet
<1> QED
  BY <1>1, <1>2, <1>3, FS_CardinalityType

\* The arithmetic of the bound, for m running maps allowed and h handlers.
LEMMA Balance ==
  ASSUME NEW r \in Nat, NEW a \in Nat, NEW r2 \in Nat, NEW a2 \in Nat,
         NEW h \in Nat \ {0}, NEW m \in Nat \ {0},
         \/ r + a <= m - 1 + h /\ r2 <= r /\ a2 <= a
         \/ r + a <= m - 1 + h /\ r2 <= r + 1 /\ a2 = a - 1
         \/ r2 < m /\ a2 <= h
         \/ r2 <= m /\ a2 = 0
  PROVE  r2 + a2 <= m - 1 + h
  OBVIOUS

\* Steps that make neither set larger.
LEMMA CalmStep ==
  ASSUME TypeOK, TargetChosen, ContainerKnown, NEW p \in Proc, Turn(p),
         ~StartCount(p), ~StartRun(p)
  PROVE  RunningMaps' \subseteq RunningMaps /\ Readers' \subseteq Readers
<1>1. CASE ~(Start(p) \/ Stop(p))
  BY <1>1, OffStartLabels DEF RunningMaps, Readers
<1>2. CASE Start(p) \/ Stop(p)
  <2>0. target[p] \in Map
    BY <1>2 DEF Start, StartCount, StartInspect, StartRemove, StartRecreate,
       StartCreate, StartRun, StartFinish, Stop, StopCheck, StopSaveWorld,
       StopHalt, StopBackup, StopFinish, At, TargetChosen
  <2> DEFINE c == container[target[p]]
  <2>c. c \in Container
    BY <2>0 DEF TypeOK
  <2>1. Readers' \subseteq Readers
    BY <1>2 DEF TypeOK, Readers, Start, StartInspect, StartRemove, StartRecreate,
       StartCreate, StartFinish, Stop, StopCheck, StopSaveWorld,
       StopHalt, StopBackup, StopFinish, Proceed, Leave
  <2>2. \/ container' = container
        \/ \E d \in Container : /\ container' = [container EXCEPT ![target[p]] = d]
                                /\ Running(d) => Running(c)
    <3>1. CASE StartRemove(p)
      <4>1. PICK r \in RemoveOutcomes(c) :
              container' = [container EXCEPT ![target[p]] = r.after]
        BY <3>1 DEF StartRemove
      <4>2. r.after \in Container /\ (Running(r.after) => Running(c))
        BY <2>c, RemoveAfter DEF Running, Absent
      <4> QED
        BY <4>1, <4>2
    <3>2. CASE StartRecreate(p) \/ StartCreate(p)
      <4>1. PICK r \in CreateOutcomes(c, ClusterID) :
              container' = [container EXCEPT ![target[p]] = r.after]
        BY <3>2 DEF StartRecreate, StartCreate
      <4>2. r.after \in Container /\ (Running(r.after) => Running(c))
        BY <2>c, CreateAfter DEF Running, Stopped
      <4> QED
        BY <4>1, <4>2
    <3>3. CASE StopHalt(p)
      <4>1. PICK r \in StopOutcomes(c) :
              container' = [container EXCEPT ![target[p]] = r.after]
        BY <3>3 DEF StopHalt
      <4>2. r.after \in Container /\ (Running(r.after) => Running(c))
        BY <2>c, StopAfter DEF Running, Stopped
      <4> QED
        BY <4>1, <4>2
    <3> QED
      BY <1>2, <3>1, <3>2, <3>3 DEF Start, StartInspect, StartFinish, Stop,
         StopCheck, StopSaveWorld, StopBackup, StopFinish
  <2>3. \A m \in Map : Running(container'[m]) => Running(container[m])
    <3>1. CASE container' = container
      BY <3>1
    <3>2. CASE container' # container
      <4>1. PICK d \in Container :
              /\ container' = [container EXCEPT ![target[p]] = d]
              /\ Running(d) => Running(c)
        BY <2>2, <3>2
      <4>2. container'[target[p]] = d
        BY <2>0, <4>1 DEF TypeOK
      <4>3. \A m \in Map \ {target[p]} : container'[m] = container[m]
        BY <4>1 DEF TypeOK
      <4> QED
        BY <4>1, <4>2, <4>3
    <3> QED
      BY <3>1, <3>2
  <2>4. RunningMaps' \subseteq RunningMaps
    BY <2>3 DEF RunningMaps
  <2> QED
    BY <2>1, <2>4
<1> QED
  BY <1>1, <1>2

LEMMA OvershootStep ==
  ASSUME TypeOK, TargetChosen, RoomRead, ContainerKnown, OvershootBounded,
         [Next]_vars
  PROVE  OvershootBounded'
<1>0. /\ RunningMaps \in SUBSET Map /\ RunningMaps' \in SUBSET Map
      /\ Readers \in SUBSET Handler /\ Readers' \in SUBSET Handler
  BY RoomStep DEF RunningMaps, Readers, RoomRead
<1> DEFINE R == Cardinality(RunningMaps)  A == Cardinality(Readers)
           H == Cardinality(Handler)
<1>n. R \in Nat /\ R' \in Nat /\ A \in Nat /\ A' \in Nat /\ H \in Nat \ {0}
      /\ A' <= H /\ MaxRunningMaps \in Nat \ {0}
  BY <1>0, FiniteCounts, MapOpsAssumption
<1>b. R + A <= MaxRunningMaps - 1 + H
  BY DEF OvershootBounded, Readers
<1>q. R' + A' <= MaxRunningMaps - 1 + H => OvershootBounded'
  BY DEF OvershootBounded, Readers
<1>1. ASSUME RunningMaps' \subseteq RunningMaps, Readers' \subseteq Readers
      PROVE  OvershootBounded'
  <2>1. R' <= R /\ A' <= A
    BY <1>0, <1>1, FiniteCounts, FS_Subset
  <2> HIDE DEF R, A, H
  <2>2. R' + A' <= MaxRunningMaps - 1 + H
    BY <1>n, <1>b, <2>1, Balance
  <2> QED
    BY <1>q, <2>2
<1>2. CASE UNCHANGED vars
  <2>1. RunningMaps' = RunningMaps /\ Readers' = Readers
    BY <1>2 DEF vars, RunningMaps, Readers
  <2> QED
    BY <1>1, <2>1
<1>3. ASSUME NEW p \in Proc, Turn(p) PROVE OvershootBounded'
  <2>1. CASE StartCount(p)
    <3>1. RunningMaps' = RunningMaps
      BY <2>1 DEF StartCount, RunningMaps
    <3>2. CASE R < MaxRunningMaps
      <4>1. R' = R
        BY <3>1
      <4> HIDE DEF R, A, H
      <4>2. R' + A' <= MaxRunningMaps - 1 + H
        BY <1>n, <3>2, <4>1, Balance
      <4> QED
        BY <1>q, <4>2
    <3>3. CASE ~(R < MaxRunningMaps)
      <4>1. Readers' \subseteq Readers
        BY <2>1, <3>3 DEF StartCount, Leave, TypeOK, Readers
      <4> QED
        BY <1>1, <3>1, <4>1
    <3> QED
      BY <3>2, <3>3
  <2>2. CASE StartRun(p)
    <3>1. p \in Readers /\ Readers' = Readers \ {p}
      BY <2>2 DEF StartRun, Leave, TypeOK, Readers, RoomRead, At
    <3>2. A' = A - 1
      BY <1>0, <3>1, FiniteCounts, FS_RemoveElement
    <3>3. RunningMaps' \subseteq RunningMaps \cup {target[p]}
      BY <2>2 DEF StartRun, RunningMaps, TypeOK
    <3>4. R' <= R + 1
      <4>1. /\ IsFiniteSet(RunningMaps \cup {target[p]})
            /\ Cardinality(RunningMaps \cup {target[p]}) \in {R, R + 1}
        BY <1>0, FiniteCounts, FS_AddElement
      <4>2. R' <= Cardinality(RunningMaps \cup {target[p]})
        BY <3>3, <4>1, FS_Subset
      <4> HIDE DEF R, A, H
      <4> QED
        BY <1>n, <4>1, <4>2
    <3> HIDE DEF R, A, H
    <3>5. R' + A' <= MaxRunningMaps - 1 + H
      BY <1>n, <1>b, <3>2, <3>4, Balance
    <3> QED
      BY <1>q, <3>5
  <2>3. CASE ~StartCount(p) /\ ~StartRun(p)
    BY <1>1, <1>3, <2>3, CalmStep
  <2> QED
    BY <2>1, <2>2, <2>3
<1>4. CASE ScanTick
  BY <1>1, <1>4 DEF ScanTick, goVars, RunningMaps, Readers
<1>5. ASSUME NEW m \in Map, ServerExits(m) PROVE OvershootBounded'
  <2>1. RunningMaps' \subseteq RunningMaps /\ Readers' = Readers
    BY <1>5 DEF ServerExits, goVars, RunningMaps, Readers, Running, Stopped, TypeOK
  <2> QED
    BY <1>1, <2>1
<1>6. CASE Restart
  <2>1. RunningMaps' = RunningMaps /\ Readers' = {}
    BY <1>6 DEF Restart, RunningMaps, Readers
  <2> QED
    BY <1>1, <2>1
<1> QED
  BY <1>2, <1>3, <1>4, <1>5, <1>6, StepKinds

-----------------------------------------------------------------------------
(* The scan's mutex *)

\* Who a step makes hold scanMu, and where rounds begin and end.
LEMMA RoundKinds ==
  ASSUME TypeOK, NEW p \in Proc, Turn(p)
  PROVE  \/ LockScan(p) \/ EndRound(p) \/ \E r \in Round : BeginRound(p, r)
         \/ /\ round' = round /\ scanMu' = scanMu /\ pc[p] # "wait_scan"
            /\ pc'[p] # "wait_scan" /\ (pc'[p] = "idle" => round[p] = "none")
<1> USE DEF TypeOK, Goto, At, roundVars, scanVars, goVars, Leave, Proceed, UnlockThen
<1>1. CASE LockMap(p)
  BY <1>1 DEF LockMap, FirstStep
<1>2. CASE Start(p)
  <2>1. CASE StartCount(p) \/ StartInspect(p)
    BY <2>1 DEF StartCount, StartInspect
  <2>2. CASE StartRemove(p) \/ StartRecreate(p) \/ StartCreate(p)
    BY <2>2 DEF StartRemove, StartRecreate, StartCreate
  <2>3. CASE StartRun(p) \/ StartFinish(p)
    BY <2>3 DEF StartRun, StartFinish
  <2> QED
    BY <1>2, <2>1, <2>2, <2>3 DEF Start
<1>3. CASE Stop(p)
  <2>1. CASE StopCheck(p) \/ StopSaveWorld(p)
    BY <2>1 DEF StopCheck, StopSaveWorld
  <2>2. CASE StopHalt(p)
    BY <2>2 DEF StopHalt
  <2>3. CASE StopBackup(p) \/ StopFinish(p)
    BY <2>3 DEF StopBackup, StopFinish
  <2> QED
    BY <1>3, <2>1, <2>2, <2>3 DEF Stop
<1>4. CASE VisitRcon(p) \/ VisitBackup(p)
  BY <1>4 DEF VisitRcon, VisitBackup
<1>5. CASE \E m \in Map : Collect(p, m) \/ Skip(p, m) \/ VisitMap(p, m)
  BY <1>5 DEF Collect, Skip, VisitMap
<1>6. CASE Judge(p)
  BY <1>6 DEF Judge, JudgeEmpty, JudgeOccupied, LocalDue, LocalReschedule
<1>7. CASE \E m \in Map : SlashStart(p, m) \/ SlashStop(p, m)
  BY <1>7 DEF SlashStart, SlashStop
<1>8. CASE \/ \E r \in Round : SlashRound(p, r)
           \/ p = Scanner /\ ScanWorker
           \/ p = Scheduler /\ (PresenceTick \/ MinuteTick)
           \/ p = Main /\ Signal
  <2>1. {"scan", "status", "local", "shutdown"} \subseteq Round
    BY DEF Round
  <2> QED
    BY <1>8, <2>1 DEF SlashRound, ScanWorker, PresenceTick, MinuteTick, Signal
<1> QED
  BY <1>1, <1>2, <1>3, <1>4, <1>5, <1>6, <1>7, <1>8 DEF Turn, Work, Rounds

\* What p's step does to the rounds of the others.
LEMMA OthersRounds ==
  ASSUME TypeOK, NEW p \in Proc,
         LockScan(p) \/ EndRound(p) \/ \E r \in Round : BeginRound(p, r)
  PROVE  \A q \in Proc \ {p} : pc'[q] = pc[q] /\ round'[q] = round[q]
  BY DEF TypeOK, LockScan, EndRound, BeginRound, Goto, roundVars

\* A goroutine that was idle leaves scanMu alone.
LEMMA BeginKeeps ==
  ASSUME NEW p \in Proc, Turn(p), pc[p] = "idle"
  PROVE  scanMu' = scanMu
  BY DEF Turn, Work, At, LockMap, Start, StartCount, StartInspect, StartRemove,
     StartRecreate, StartCreate, StartRun, StartFinish, Stop, StopCheck,
     StopSaveWorld, StopHalt, StopBackup, StopFinish, Rounds, LockScan, EndRound,
     VisitRcon, VisitBackup, Collect, Skip, VisitMap, Judge, JudgeEmpty,
     JudgeOccupied, LocalDue, LocalReschedule, SlashStart, SlashStop, SlashRound,
     ScanWorker, PresenceTick, MinuteTick, Signal, scanVars

LEMMA ScanTurn ==
  ASSUME TypeOK, TargetChosen, RoundPlaced, OneScan, NEW p \in Proc, Turn(p)
  PROVE  RoundPlaced' /\ OneScan'
<1> USE DEF TypeOK, Goto, At, roundVars, OneScan, RoundPlaced
<1>1. CASE LockScan(p)
  <2>1. /\ scanMu = Nobody /\ scanMu' = p /\ round[p] = "scan" /\ round' = round
        /\ pc'[p] = "collect"
    BY <1>1 DEF LockScan
  <2> QED
    BY <1>1, <2>1, OthersRounds, MapOpsAssumption
<1>2. CASE EndRound(p)
  <2>1. /\ pc[p] = "each" /\ pc'[p] = "idle" /\ round'[p] = "none"
        /\ scanMu' = IF round[p] = "scan" THEN Nobody ELSE scanMu
    BY <1>2 DEF EndRound
  <2>2. ASSUME NEW q \in Proc \ {p} PROVE scanMu' = q <=> scanMu = q
    BY <2>1, MapOpsAssumption
  <2>3. scanMu' # p
    BY <2>1, MapOpsAssumption
  <2> QED
    BY <1>2, <2>1, <2>2, <2>3, OthersRounds
<1>3. ASSUME NEW r \in Round, BeginRound(p, r) PROVE RoundPlaced' /\ OneScan'
  <2>1. /\ pc[p] = "idle" /\ round[p] = "none" /\ round'[p] = r
        /\ pc'[p] = (IF r = "scan" THEN "wait_scan" ELSE "collect")
    BY <1>3 DEF BeginRound
  <2>2. scanMu' = scanMu
    BY <2>1, BeginKeeps
  <2>3. scanMu # p
    BY <2>1
  <2>4. \A q \in Proc \ {p} : pc'[q] = pc[q] /\ round'[q] = round[q]
    BY <1>3, OthersRounds
  <2>5. /\ pc'[p] # "idle" /\ (pc'[p] = "wait_scan" => round'[p] = "scan")
        /\ ~(round'[p] = "scan" /\ pc'[p] # "wait_scan")
    BY <2>1
  <2> SUFFICES ASSUME NEW q \in Proc
               PROVE  /\ pc'[q] = "idle" => round'[q] = "none"
                      /\ pc'[q] = "wait_scan" => round'[q] = "scan"
                      /\ (round'[q] = "scan" /\ pc'[q] # "wait_scan") <=> scanMu' = q
    OBVIOUS
  <2>6. CASE q = p
    BY <2>2, <2>3, <2>5, <2>6
  <2>7. CASE q # p
    BY <2>2, <2>4, <2>7
  <2> QED
    BY <2>6, <2>7
<1>4. CASE /\ round' = round /\ scanMu' = scanMu /\ pc[p] # "wait_scan"
           /\ pc'[p] # "wait_scan" /\ (pc'[p] = "idle" => round[p] = "none")
  <2>1. \A q \in Proc \ {p} : pc'[q] = pc[q]
    BY TurnFootprint DEF Footprint
  <2> SUFFICES ASSUME NEW q \in Proc
               PROVE  /\ pc'[q] = "idle" => round'[q] = "none"
                      /\ pc'[q] = "wait_scan" => round'[q] = "scan"
                      /\ (round'[q] = "scan" /\ pc'[q] # "wait_scan") <=> scanMu' = q
    OBVIOUS
  <2>2. CASE q = p
    BY <1>4, <2>2
  <2>3. CASE q # p
    BY <1>4, <2>1, <2>3
  <2> QED
    BY <2>2, <2>3
<1> QED
  BY <1>1, <1>2, <1>3, <1>4, RoundKinds

LEMMA ScanStep ==
  ASSUME TypeOK, TargetChosen, RoundPlaced, OneScan, [Next]_vars
  PROVE  RoundPlaced' /\ OneScan'
<1>1. CASE UNCHANGED vars
  BY <1>1 DEF vars, RoundPlaced, OneScan, At
<1>2. ASSUME NEW p \in Proc, Turn(p) PROVE RoundPlaced' /\ OneScan'
  BY <1>2, ScanTurn
<1>3. CASE ScanTick \/ \E m \in Map : ServerExits(m)
  BY <1>3 DEF ScanTick, ServerExits, goVars, scanVars, RoundPlaced, OneScan, At
<1>4. CASE Restart
  BY <1>4, MapOpsAssumption DEF Restart, RoundPlaced, OneScan, At
<1> QED
  BY <1>1, <1>2, <1>3, <1>4, StepKinds

-----------------------------------------------------------------------------
(* The books of the schedulers *)

\* A step that says a map was started enters it; a step that takes an entry of
\* cmdStart away says that the map was stopped.
LEMMA BooksTurn ==
  ASSUME TypeOK, TargetChosen, NEW p \in Proc, Turn(p), NEW m \in Map
  PROVE  \/ notice'[m] # "started"
         \/ notice'[m] = notice[m] /\ tracked[m] \ {"zeroSince"} \subseteq tracked'[m]
         \/ StartEntries \subseteq tracked'[m]
<1> USE DEF TypeOK, muVars, At, Notify
<1>1. CASE StartFinish(p) \/ StopFinish(p)
  <2>1. target[p] \in Map
    BY <1>1 DEF StartFinish, StopFinish, TargetChosen
  <2>2. CASE StartFinish(p)
    BY <2>1, <2>2 DEF StartFinish
  <2>3. CASE StopFinish(p)
    BY <2>1, <2>3 DEF StopFinish
  <2> QED
    BY <1>1, <2>2, <2>3
<1>2. CASE StartRun(p) \/ StopHalt(p)
  BY <1>2 DEF StartRun, StopHalt
<1>3. ASSUME ~StartFinish(p), ~StopFinish(p), ~StartRun(p), ~StopHalt(p)
      PROVE  notice' = notice
  BY <1>3, OffStartLabels DEF Start, StartCount, StartInspect, StartRemove,
     StartRecreate, StartCreate, Stop, StopCheck, StopSaveWorld, StopBackup
<1>4. CASE \E n \in Map : Skip(p, n)
  BY <1>4 DEF Skip
<1>5. CASE JudgeEmpty(p) \/ JudgeOccupied(p) \/ LocalDue(p) \/ LocalReschedule(p)
  <2>1. target[p] \in Map /\ notice' = notice
    BY <1>5 DEF JudgeEmpty, JudgeOccupied, LocalDue, LocalReschedule, TargetChosen
  <2>2. \/ tracked' = tracked
        \/ \E S \in SUBSET Entry :
             /\ tracked' = [tracked EXCEPT ![target[p]] = S]
             /\ tracked[target[p]] \ {"zeroSince"} \subseteq S
    <3> DEFINE old == tracked[target[p]]
    <3>1. /\ old \in SUBSET Entry /\ old \cup {"zeroSince"} \in SUBSET Entry
          /\ old \ {"zeroSince"} \in SUBSET Entry
          /\ old \cup {"startedAt", "nextLocalBackup"} \in SUBSET Entry
      BY <2>1 DEF Entry
    <3>2. \/ tracked' = tracked
          \/ tracked' = [tracked EXCEPT ![target[p]] = old \cup {"zeroSince"}]
          \/ tracked' = [tracked EXCEPT ![target[p]] = old \ {"zeroSince"}]
          \/ tracked' = [tracked EXCEPT ![target[p]] =
                            old \cup {"startedAt", "nextLocalBackup"}]
      BY <1>5 DEF JudgeEmpty, JudgeOccupied, LocalDue, LocalReschedule
    <3> HIDE DEF old
    <3> QED
      BY <3>1, <3>2 DEF old
  <2>3. CASE tracked' = tracked
    BY <2>1, <2>3
  <2>4. ASSUME NEW S \in SUBSET Entry,
               tracked' = [tracked EXCEPT ![target[p]] = S],
               tracked[target[p]] \ {"zeroSince"} \subseteq S
        PROVE  tracked[m] \ {"zeroSince"} \subseteq tracked'[m]
    <3>1. CASE m = target[p]
      BY <2>4, <3>1
    <3>2. CASE m # target[p]
      BY <2>4, <3>2
    <3> QED
      BY <3>1, <3>2
  <2> QED
    BY <2>1, <2>2, <2>3, <2>4
<1>6. ASSUME ~StartFinish(p), ~StopFinish(p), ~Judge(p), ~(\E n \in Map : Skip(p, n))
      PROVE  tracked' = tracked
  <2>1. CASE Start(p) \/ Stop(p)
    BY <1>6, <2>1 DEF Start, StartCount, StartInspect, StartRemove, StartRecreate,
       StartCreate, StartRun, Stop, StopCheck, StopSaveWorld, StopHalt, StopBackup
  <2>2. CASE LockMap(p)
    BY <2>2 DEF LockMap
  <2>3. CASE Rounds(p)
    BY <1>6, <2>3 DEF Rounds, LockScan, EndRound, VisitRcon, VisitBackup, Collect,
       VisitMap
  <2>4. CASE ~Work(p)
    BY <2>4 DEF Turn, SlashStart, SlashStop, SlashRound, ScanWorker, PresenceTick,
       MinuteTick, Signal, BeginRound
  <2> QED
    BY <1>6, <2>1, <2>2, <2>3, <2>4 DEF Work
<1> QED
  BY <1>1, <1>2, <1>3, <1>4, <1>5, <1>6 DEF Judge

LEMMA BooksStep ==
  ASSUME TypeOK, TargetChosen, BooksKept, [Next]_vars
  PROVE  BooksKept'
<1>0. "zeroSince" \notin StartEntries
  BY DEF StartEntries
<1>1. CASE UNCHANGED vars
  BY <1>1 DEF vars, BooksKept
<1>2. ASSUME NEW p \in Proc, Turn(p) PROVE BooksKept'
  <2> SUFFICES ASSUME NEW m \in Map, notice'[m] = "started"
               PROVE  StartEntries \subseteq tracked'[m]
    BY DEF BooksKept, StartEntries
  <2>1. notice[m] = "started" => StartEntries \subseteq tracked[m]
    BY DEF BooksKept
  <2> QED
    BY <1>0, <1>2, <2>1, BooksTurn
<1>3. CASE ScanTick \/ \E m \in Map : ServerExits(m)
  BY <1>3 DEF ScanTick, ServerExits, muVars, BooksKept, StartEntries
<1>4. CASE Restart
  BY <1>4 DEF Restart, BooksKept
<1> QED
  BY <1>1, <1>2, <1>3, <1>4, StepKinds

-----------------------------------------------------------------------------
(* The invariant *)

LEMMA InitHolds == Init => IInv
<1> SUFFICES ASSUME Init PROVE IInv
  OBVIOUS
<1>1. TypeOK
  BY RestoredTyped DEF Init, TypeOK, Label
<1>2. LockHeld /\ TargetChosen /\ RoomRead /\ ContainerKnown /\ UnreportedStart
  BY MapOpsAssumption
  DEF Init, LockHeld, TargetChosen, RoomRead, ContainerKnown, Knows,
      UnreportedStart, InSection, Section, StartLabel, At
<1>4. DoneDown /\ RoundPlaced /\ OneScan /\ BooksKept
  BY MapOpsAssumption DEF Init, DoneDown, RoundPlaced, OneScan, BooksKept, At
<1>3. OvershootBounded
  <2>1. RunningMaps \in SUBSET Map /\ Readers = {}
    BY DEF Init, RunningMaps, Readers
  <2>2. Cardinality(RunningMaps) \in Nat /\ Cardinality(Handler) \in Nat \ {0}
    BY <2>1, FiniteCounts
  <2>3. Cardinality(RunningMaps) <= MaxRunningMaps
    BY DEF Init
  <2>4. Cardinality(Readers) = 0
    BY <2>1, FS_EmptySet
  <2>5. Cardinality(RunningMaps) + Cardinality(Readers)
          <= MaxRunningMaps - 1 + Cardinality(Handler)
    BY <2>2, <2>3, <2>4, Balance, MapOpsAssumption
  <2> QED
    BY <2>5 DEF OvershootBounded, Readers
<1> QED
  BY <1>1, <1>2, <1>3, <1>4 DEF IInv

LEMMA IInvStep == IInv /\ [Next]_vars => IInv'
  BY TypeStep, LockStep, RoomStep, KnowledgeStep, NoticeStep, OvershootStep,
     ScanStep, BooksStep DEF IInv

\* Every state the bot reaches satisfies the invariant: the mutexes agree with
\* what the goroutines do, and what cmdStart and cmdStop read under a mutex
\* stays true until they act on it.
THEOREM Invariance == Spec => []IInv
  BY InitHolds, IInvStep, PTL DEF Spec

\* The variables keep their types.
THEOREM TypeCorrect == Spec => []TypeOK
<1>1. IInv => TypeOK
  BY DEF IInv
<1> QED
  BY <1>1, Invariance, PTL

\* cmdStart, cmdStop and the rounds never work on one map at once.
THEOREM MutualExclusion == Spec => []OneOperationPerMap
<1>1. IInv => OneOperationPerMap
  BY HolderAlone DEF IInv
<1> QED
  BY <1>1, Invariance, PTL

\* However many commands run, max_running_maps is exceeded by less than their
\* number.
THEOREM Overshoot == Spec => []OvershootBounded
<1>1. IInv => OvershootBounded
  BY DEF IInv
<1> QED
  BY <1>1, Invariance, PTL

\* The limit as the specification words it holds where commands do not meet:
\* with one handler, beside all the scans, schedulers and the shutdown.
THEOREM ExactAlone ==
  ASSUME Cardinality(Handler) = 1
  PROVE  Spec => []RunningLimit
<1>1. ASSUME IInv PROVE RunningLimit
  <2>1. {p \in Proc : room[p]} \subseteq Handler
    BY <1>1 DEF IInv, RoomRead
  <2>2. /\ Cardinality(RunningMaps) \in Nat /\ Cardinality({p \in Proc : room[p]}) \in Nat
        /\ MaxRunningMaps \in Nat
    BY <2>1, FiniteCounts, MapOpsAssumption DEF RunningMaps
  <2>3. Cardinality(RunningMaps) + Cardinality({p \in Proc : room[p]})
          <= MaxRunningMaps - 1 + 1
    BY <1>1 DEF IInv, OvershootBounded
  <2> QED
    BY <2>2, <2>3 DEF RunningLimit
<1> QED
  BY <1>1, Invariance, PTL

\* cmdStop's backup never reads the files of a running server.
THEOREM ColdBackup == Spec => []StopBackupCold
<1>1. IInv => StopBackupCold
  BY DEF IInv, ContainerKnown, Knows, StopBackupCold, Running, At
<1> QED
  BY <1>1, Invariance, PTL

\* A map the channel was last told is stopped, and nobody works on, is not
\* running.
THEOREM TruthfulNotice == Spec => []NoticeTruthful
<1>1. IInv => NoticeTruthful
  BY DEF IInv, UnreportedStart, NoticeTruthful
<1> QED
  BY <1>1, Invariance, PTL

\* Scans are queued behind each other: who is in one holds scanMu (bot.go
\* scanIdleOnce).
THEOREM ScansAlone == Spec => []OneScan
<1>1. IInv => OneScan
  BY DEF IInv
<1> QED
  BY <1>1, Invariance, PTL

\* Whoever is waited for is inside a section of the map, or in a scan.
LEMMA WhoIsWaitedFor ==
  ASSUME IInv, NEW p \in Proc, NEW q \in Proc, WaitsFor(p, q)
  PROVE  \/ InSection(q)
         \/ At(p, "wait_scan") /\ ~At(q, "wait_scan")
<1>1. CASE pc[p] \in {"wait_start", "wait_stop", "wait_visit"} /\ lock[target[p]] = q
  <2>1. target[p] \in Map
    BY <1>1 DEF IInv, TargetChosen
  <2> QED
    BY <1>1, <2>1 DEF IInv, LockHeld
<1>2. CASE At(p, "wait_scan") /\ scanMu = q
  BY <1>2 DEF IInv, OneScan, At
<1> QED
  BY <1>1, <1>2 DEF WaitsFor

\* The mutexes admit no deadlock, for any number of goroutines: nobody waits
\* for a goroutine that waits, but for the holder of scanMu, and that one waits
\* for a goroutine at work.
THEOREM NoDeadlock == Spec => []NoCircularWait
<1>1. ASSUME IInv
      PROVE  NoCircularWait
  <2> SUFFICES ASSUME NEW p \in Proc, NEW q \in Proc, NEW r \in Proc,
                      WaitsFor(p, q), WaitsFor(q, r)
               PROVE  At(p, "wait_scan") /\ ~ \E s \in Proc : WaitsFor(r, s)
    BY DEF NoCircularWait
  <2>1. \A a, b \in Proc : WaitsFor(a, b) => ~InSection(a)
    BY DEF WaitsFor, At, InSection, Section
  <2>2. At(p, "wait_scan") /\ ~At(q, "wait_scan")
    BY <1>1, <2>1, WhoIsWaitedFor
  <2>3. InSection(r)
    BY <1>1, <2>2, WhoIsWaitedFor
  <2> QED
    BY <2>1, <2>2, <2>3
<1> QED
  BY <1>1, Invariance, PTL

\* A map last reported as started is in the books of its schedulers, whichever
\* goroutine wrote to them after cmdStart.
THEOREM StartedBooked == Spec => []StartedIsScheduled
<1>1. IInv => StartedIsScheduled
  BY DEF IInv, BooksKept, StartedIsScheduled
<1> QED
  BY <1>1, Invariance, PTL

\* A map a scan or a shutdown counts as stopped does not run again unsaid
\* (bot.go scanIdleOnce, gracefulShutdown).
THEOREM StoppedStays == Spec => []ReportedDown
<1>1. IInv => ReportedDown
  BY DEF IInv, TypeOK, UnreportedStart, DoneDown, ReportedDown
<1> QED
  BY <1>1, Invariance, PTL

-----------------------------------------------------------------------------
(* MapOps implements SerialMaps *)

\* A goroutine changes only the container of the map it holds, and only by a
\* permitted transition.
LEMMA PermittedChange ==
  ASSUME TypeOK, TargetChosen, ContainerKnown, NEW p \in Proc, Turn(p),
         container' # container
  PROVE  /\ InSection(p) /\ target[p] \in Map
         /\ \E d \in Container :
              /\ Serial!Permitted(container[target[p]], d)
              /\ container' = [container EXCEPT ![target[p]] = d]
<1> DEFINE c == container[target[p]]
           Changed(d) == container' = [container EXCEPT ![target[p]] = d]
<1>0. CASE StartRemove(p) \/ StartRecreate(p) \/ StartCreate(p) \/ StartRun(p)
              \/ StopHalt(p)
  <2>0. InSection(p) /\ target[p] \in Map
    BY <1>0 DEF StartRemove, StartRecreate, StartCreate, StartRun, StopHalt, At,
       InSection, Section, TargetChosen
  <2>c. c \in Container /\ Knows(p)
    BY <2>0 DEF TypeOK, ContainerKnown
  <2>s. ASSUME NEW d, Changed(d) PROVE d # c
    <3>1. container = [m \in Map |-> container[m]]
      BY DEF TypeOK
    <3>2. [container EXCEPT ![target[p]] = c] = container
      BY <3>1, <2>0
    <3> QED
      BY <2>s, <3>2
  <2> SUFFICES \E d \in Container : Serial!Permitted(c, d) /\ Changed(d)
    BY <2>0
  <2>1. CASE StartRemove(p)
    <3>1. PICK r \in RemoveOutcomes(c) : Changed(r.after)
      BY <2>1 DEF StartRemove
    <3>2. r.after \in Container /\ r.after = Absent
      BY <3>1, <2>c, <2>s, RemoveAfter
    <3>3. c.status = "stopped" /\ c.cluster # ClusterID
      BY <2>1, <2>c DEF StartRemove, Knows, At
    <3>4. Serial!Permitted(c, r.after)
      BY <3>2, <3>3 DEF Serial!Permitted, Serial!Absent, Serial!NoCluster, Absent,
         NoCluster
    <3> QED
      BY <3>1, <3>2, <3>4
  <2>2. CASE StartRecreate(p) \/ StartCreate(p)
    <3>1. PICK r \in CreateOutcomes(c, ClusterID) : Changed(r.after)
      BY <2>2 DEF StartRecreate, StartCreate
    <3>2. r.after \in Container /\ c = Absent /\ r.after = Stopped(ClusterID)
      BY <3>1, <2>c, <2>s, CreateAfter
    <3>3. Serial!Permitted(c, r.after)
      BY <3>2 DEF Serial!Permitted, Serial!Absent, Serial!NoCluster, Serial!Stopped,
         Absent, NoCluster, Stopped
    <3> QED
      BY <3>1, <3>2, <3>3
  <2>3. CASE StartRun(p)
    <3>1. PICK r \in StartOutcomes(c) : Changed(r.after)
      BY <2>3 DEF StartRun
    <3>2. r.after \in Container /\ r.after = [c EXCEPT !.status = "running"]
      BY <3>1, <2>c, <2>s, StartAfter
    <3>3. c = Stopped(ClusterID)
      BY <2>3, <2>c DEF StartRun, Knows, At
    <3>4. r.after = [status |-> "running", cluster |-> ClusterID]
      BY <3>2, <3>3 DEF Stopped
    <3>5. Serial!Permitted(c, r.after)
      BY <3>3, <3>4 DEF Serial!Permitted, Serial!Stopped, Serial!Running, Stopped
    <3> QED
      BY <3>1, <3>2, <3>5
  <2>4. CASE StopHalt(p)
    <3>1. PICK r \in StopOutcomes(c) : Changed(r.after)
      BY <2>4 DEF StopHalt
    <3>2. r.after \in Container /\ Running(c) /\ r.after = Stopped(c.cluster)
      BY <3>1, <2>c, <2>s, StopAfter
    <3>3. Serial!Permitted(c, r.after)
      BY <3>2 DEF Serial!Permitted, Serial!Stopped, Serial!Running, Stopped, Running
    <3> QED
      BY <3>1, <3>2, <3>3
  <2> QED
    BY <1>0, <2>1, <2>2, <2>3, <2>4
<1>1. CASE ~(Start(p) \/ Stop(p))
  BY <1>1, OffStartLabels
<1> QED
  BY <1>0, <1>1 DEF Start, StartCount, StartInspect, StartFinish, Stop, StopCheck,
     StopSaveWorld, StopBackup, StopFinish

LEMMA SerialStep ==
  ASSUME IInv, [Next]_vars
  PROVE  [Serial!Next]_(Serial!vars)
<1>0. TypeOK /\ LockHeld /\ TargetChosen /\ ContainerKnown
  BY DEF IInv
<1>1. CASE UNCHANGED vars
  BY <1>1 DEF vars, Serial!vars
<1>2. ASSUME NEW p \in Proc, Turn(p) PROVE [Serial!Next]_(Serial!vars)
  <2>0. Footprint(p)
    BY <1>0, <1>2, TurnFootprint
  <2>1. CASE container' = container
    <3>1. CASE Stays(p)
      BY <2>1, <3>1 DEF Stays, Serial!vars
    <3>2. CASE Enters(p)
      <4>1. Serial!Take(p, target[p])
        BY <2>1, <3>2 DEF Enters, Serial!Take
      <4> QED
        BY <3>2, <4>1 DEF Enters, Serial!Next
    <3>3. CASE Exits(p)
      <4>1. Serial!GiveBack(p, target[p])
        BY <1>0, <2>1, <3>3 DEF Exits, LockHeld, Serial!GiveBack
      <4> QED
        BY <3>3, <4>1 DEF Exits, Serial!Next
    <3> QED
      BY <2>0, <3>1, <3>2, <3>3 DEF Footprint
  <2>2. CASE container' # container
    <3>1. /\ InSection(p) /\ target[p] \in Map
          /\ \E d \in Container :
               /\ Serial!Permitted(container[target[p]], d)
               /\ container' = [container EXCEPT ![target[p]] = d]
      BY <1>0, <1>2, <2>2, PermittedChange
    <3>2. lock[target[p]] = p
      BY <1>0, <3>1 DEF LockHeld
    <3>3. lock' \in {lock, [lock EXCEPT ![target[p]] = Nobody]}
      BY <2>0, <3>1 DEF Footprint, Stays, Enters, Exits
    <3>4. Serial!Container = Container
      BY DEF Serial!Container, Serial!Absent, Serial!NoCluster, Container, Absent,
         NoCluster
    <3>5. Serial!Operate(p, target[p])
      BY <3>1, <3>2, <3>3, <3>4 DEF Serial!Operate
    <3> QED
      BY <3>1, <3>5 DEF Serial!Next
  <2> QED
    BY <2>1, <2>2
<1>3. CASE ScanTick
  BY <1>3 DEF ScanTick, Serial!vars
<1>4. ASSUME NEW m \in Map, ServerExits(m) PROVE [Serial!Next]_(Serial!vars)
  <2>1. Serial!ServerExits(m)
    BY <1>4 DEF ServerExits, Serial!ServerExits, Serial!Running, Serial!Stopped,
       Running, Stopped
  <2> QED
    BY <2>1 DEF Serial!Next
<1>5. CASE Restart
  BY <1>5 DEF Restart, Serial!Restart, Serial!Next
<1> QED
  BY <1>1, <1>2, <1>3, <1>4, <1>5, StepKinds

\* The bot serialises the operations on each map: it implements SerialMaps,
\* the holder of a map's mutex being the owner of the map.
THEOREM Refinement == Spec => Serialised
<1>1. Init => Serial!Init
  BY DEF Init, Serial!Init, Serial!Container, Serial!Absent, Serial!NoCluster,
     Container, Absent, NoCluster
<1>2. IInv /\ [Next]_vars => [Serial!Next]_(Serial!vars)
  BY SerialStep
<1> QED
  BY <1>1, <1>2, Invariance, PTL DEF Spec, Serialised, Serial!Spec
=============================================================================
