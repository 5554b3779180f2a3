--------------------------- MODULE ReloadProofs ---------------------------
(***************************************************************************)
(* Proofs about Reload, for any maps and goroutines and any number of     *)
(* edits: RInv is an inductive invariant; the exclusion of the          *)
(* operations on a map that stays configured and the account of orphans    *)
(* follow from it.                                                         *)
(***************************************************************************)
EXTENDS Reload, TLAPS

\* What a step of one goroutine, the world or a new process is.
Kinds(p) ==
  \/ \E o \in {"start", "stop", "visit"}, m \in Map : Ask(p, o, m)
  \/ Lookup(p) \/ Lock(p) \/ GiveUp(p)
  \/ StartRun(p) \/ StartFinish(p) \/ StopHalt(p) \/ StopFinish(p)
  \/ ReloadLoad(p) \/ ReloadCopy(p) \/ ReloadSwap(p)
  \/ \E m \in Map : ReloadCheck(p, m)

\* Next, seen by who takes the step.
LEMMA StepKinds ==
  ASSUME Next
  PROVE  \/ \E p \in Goroutine : Kinds(p)
         \/ \E m \in Map : ServerExits(m)
         \/ Edit \/ Restart
BY DEF Next, Operation, ReloadStep, Kinds

-----------------------------------------------------------------------------
(* Types *)

\* RInv holds at the start.
LEMMA Start == ASSUME Init PROVE RInv
<1> USE DEF Init
<1>1. TypeOK
  <2>1. file \subseteq Map
    OBVIOUS
  <2>5. locks \in [DOMAIN locks -> Nat] /\ DOMAIN locks \subseteq Map
    BY <2>1
  <2>2. made \in [Map -> Nat]
    OBVIOUS
  <2>4. /\ target \in [Goroutine -> Map \cup {NoMap}]
        /\ new \in [Goroutine -> SUBSET Map]
        /\ todo \in [Goroutine -> SUBSET Map]
        /\ missed \in [Goroutine -> SUBSET Map]
    OBVIOUS
  <2> QED
    BY <2>1, <2>2, <2>4, <2>5 DEF TypeOK, Label
<1>2. \A p \in Goroutine : pc[p] = "idle" /\ new[p] = {}
  OBVIOUS
<1>3. Placed
  BY <1>2 DEF Placed, Section
<1>4. KeptExclusive
  BY <1>2 DEF KeptExclusive, Working, Section
<1>5. KeptLock
  BY <1>2 DEF KeptLock, Section
<1>6. ReloadChecked
  BY <1>2 DEF ReloadChecked
<1> QED
  BY <1>1, <1>3, <1>4, <1>5, <1>6 DEF RInv

\* A goroutine's step keeps the types.
LEMMA TypeStep ==
  ASSUME TypeOK, Placed, NEW p \in Goroutine, Kinds(p)
  PROVE  TypeOK'
<1> USE DEF TypeOK, Label, Goto, At
<1>1. ASSUME NEW o \in {"start", "stop", "visit"}, NEW m \in Map, Ask(p, o, m)
      PROVE  TypeOK'
  BY <1>1 DEF Ask, Choose, fileVars, mapTable, reloading
<1>2. CASE Lookup(p)
  <2>1. target[p] \in Map
    BY <1>2 DEF Lookup, Placed
  <2>2. PICK k : mutex' = [mutex EXCEPT ![p] = k]
                 /\ k = IF target[p] \in DOMAIN locks THEN locks[target[p]]
                                                      ELSE made[target[p]] + 1
    BY <1>2 DEF Lookup
  <2>3. k \in Nat
    BY <2>1, <2>2
  <2>4. made' \in [Map -> Nat]
    BY <1>2, <2>1 DEF Lookup
  <2>5. /\ locks' \in [DOMAIN locks \cup {target[p]} -> Nat]
        /\ DOMAIN locks' = DOMAIN locks \cup {target[p]}
    BY <1>2, <2>1 DEF Lookup
  <2> QED
    BY <1>2, <2>2, <2>3, <2>4, <2>5 DEF Lookup, fileVars, reloading
<1>3. CASE Lock(p)
  BY <1>3 DEF Lock, fileVars, mapTable, reloading, going
<1>4. ASSUME Leave(p)
      PROVE  /\ pc' \in [Goroutine -> Label]
             /\ op' \in [Goroutine -> {"none", "start", "stop", "visit"}]
             /\ target' \in [Goroutine -> Map \cup {NoMap}]
             /\ mutex' \in [Goroutine -> Nat]
             /\ UNCHANGED <<file, edits, cfg, kept, locks, made, new, todo>>
  BY <1>4 DEF Leave, fileVars, mapTable, reloading
<1>5. CASE GiveUp(p)
  BY <1>4, <1>5 DEF GiveUp
<1>6. CASE StartRun(p)
  <2>1. target[p] \in Map
    BY <1>6 DEF StartRun, Placed, Section
  <2>2. up' \subseteq Map
    BY <1>6, <2>1 DEF StartRun
  <2>3. missed' \in [Goroutine -> SUBSET Map]
    BY <1>6, <2>1 DEF StartRun
  <2>4. CASE Leave(p)
    BY <1>4, <1>6, <2>2, <2>3, <2>4 DEF StartRun
  <2>5. CASE Goto(p, "finish") /\ UNCHANGED <<fileVars, mapTable, going, reloading>>
    BY <1>6, <2>2, <2>3, <2>5 DEF StartRun, fileVars, mapTable, going, reloading
  <2> QED
    BY <1>6, <2>4, <2>5 DEF StartRun
<1>7. CASE StartFinish(p)
  <2>1. target[p] \in Map
    BY <1>7 DEF StartFinish, Placed, Section
  <2> QED
    BY <1>4, <1>7, <2>1 DEF StartFinish
<1>8. CASE StopHalt(p)
  <2>1. up' \subseteq Map
    BY <1>8 DEF StopHalt
  <2>2. CASE Leave(p)
    BY <1>4, <1>8, <2>1, <2>2 DEF StopHalt
  <2>3. CASE Goto(p, "finish") /\ UNCHANGED <<fileVars, mapTable, going, reloading>>
    BY <1>8, <2>1, <2>3 DEF StopHalt, fileVars, mapTable, going, reloading
  <2> QED
    BY <1>8, <2>2, <2>3 DEF StopHalt
<1>9. CASE StopFinish(p)
  BY <1>4, <1>9 DEF StopFinish
<1>10. CASE ReloadLoad(p)
  BY <1>10 DEF ReloadLoad, fileVars, mapTable, going
<1>11. CASE ReloadCopy(p)
  BY <1>11 DEF ReloadCopy, fileVars, mapTable, going
<1>12. CASE ReloadSwap(p)
  <2>1. new[p] \subseteq Map
    OBVIOUS
  <2>2. cfg' \subseteq Map /\ kept' \subseteq Map /\ books' \subseteq Map
    BY <1>12, <2>1 DEF ReloadSwap
  <2>5. locks' \in [new[p] -> Nat] /\ DOMAIN locks' = new[p]
    BY <1>12, <2>1 DEF ReloadSwap
  <2>3. made' \in [Map -> Nat]
    BY <1>12 DEF ReloadSwap
  <2>4. new' \in [Goroutine -> SUBSET Map] /\ missed' \in [Goroutine -> SUBSET Map]
    BY <1>12 DEF ReloadSwap
  <2> QED
    BY <1>12, <2>2, <2>3, <2>4, <2>5 DEF ReloadSwap, fileVars, going
<1>13. ASSUME NEW m \in Map, ReloadCheck(p, m)
       PROVE  TypeOK'
  <2>1. CASE Choose(p, "stop", m) /\ UNCHANGED missed
    BY <1>13, <2>1 DEF ReloadCheck, Choose, fileVars, mapTable
  <2>2. CASE missed' = [missed EXCEPT ![p] = @ \cup ({m} \cap up)]
             /\ UNCHANGED <<pc, going>>
    BY <1>13, <2>2 DEF ReloadCheck, fileVars, mapTable, going
  <2> QED
    BY <1>13, <2>1, <2>2 DEF ReloadCheck
<1> QED
  BY <1>1, <1>2, <1>3, <1>5, <1>6, <1>7, <1>8, <1>9, <1>10, <1>11, <1>12,
     <1>13 DEF Kinds

-----------------------------------------------------------------------------
(* Steps of a goroutine *)

\* What a step of p leaves alone: the places of the others, and everything but
\* the tables in an operation.
LEMMA Others ==
  ASSUME TypeOK, NEW p \in Goroutine, Kinds(p)
  PROVE  \A q \in Goroutine \ {p} :
           /\ pc'[q] = pc[q] /\ target'[q] = target[q] /\ mutex'[q] = mutex[q]
           /\ new'[q] = new[q] /\ todo'[q] = todo[q]
BY SMTT(60) DEF TypeOK, Kinds, Ask, Choose, Lookup, Lock, GiveUp, StartRun,
   StartFinish, StopHalt, StopFinish, Leave, ReloadLoad, ReloadCopy, ReloadSwap,
   ReloadCheck, Goto, At, fileVars, mapTable, reloading, going

\* Where a step takes its goroutine.
LEMMA Own ==
  ASSUME TypeOK, NEW p \in Goroutine, Kinds(p)
  PROVE  \/ pc'[p] = "lookup" /\ target'[p] \in Map /\ new'[p] = new[p]
         \/ pc[p] = "lookup" /\ pc'[p] = "wait" /\ UNCHANGED <<target, new>>
         \/ pc[p] = "wait" /\ pc'[p] = "work" /\ UNCHANGED <<target, new>>
         \/ pc[p] = "work" /\ pc'[p] = "finish" /\ UNCHANGED <<target, new, mutex>>
         \/ /\ pc'[p] = (IF new[p] = {} THEN "idle" ELSE "check")
            /\ UNCHANGED new
         \/ pc'[p] = "copy" /\ new'[p] # {}
         \/ pc[p] = "copy" /\ pc'[p] = "check" /\ UNCHANGED new
         \/ pc[p] = "check" /\ pc'[p] = "idle"
         \/ pc[p] = "check" /\ pc'[p] = "check" /\ UNCHANGED new
<1> USE DEF TypeOK, Kinds, Goto, At
<1>1. ASSUME Leave(p)
      PROVE  /\ pc'[p] = IF new[p] = {} THEN "idle" ELSE "check"
             /\ UNCHANGED new
  BY <1>1 DEF Leave, reloading
<1>2. CASE \E o \in {"start", "stop", "visit"}, m \in Map : Ask(p, o, m)
  BY <1>2 DEF Ask, Choose, reloading
<1>3. CASE Lookup(p) \/ Lock(p)
  BY <1>3 DEF Lookup, Lock, reloading, going
<1>4. CASE GiveUp(p) \/ StartFinish(p) \/ StopFinish(p)
  BY <1>1, <1>4 DEF GiveUp, StartFinish, StopFinish
<1>5. CASE StartRun(p) \/ StopHalt(p)
  BY <1>1, <1>5 DEF StartRun, StopHalt, reloading, going
<1>6. CASE ReloadLoad(p) \/ ReloadCopy(p) \/ ReloadSwap(p)
  BY <1>6 DEF ReloadLoad, ReloadCopy, ReloadSwap, Valid
<1>7. CASE \E m \in Map : ReloadCheck(p, m)
  BY <1>7 DEF ReloadCheck, Choose
<1> QED
  BY <1>2, <1>3, <1>4, <1>5, <1>6, <1>7

LEMMA PlacedStep ==
  ASSUME TypeOK, Placed, NEW p \in Goroutine, Kinds(p)
  PROVE  Placed'
<1>1. /\ pc'[p] \in Section \cup {"lookup", "wait"} => target'[p] \in Map
      /\ pc'[p] \in {"copy", "check"} => new'[p] # {}
  BY Own DEF Placed, Section
<1>2. ASSUME NEW q \in Goroutine \ {p}
      PROVE  /\ pc'[q] \in Section \cup {"lookup", "wait"} => target'[q] \in Map
             /\ pc'[q] \in {"copy", "check"} => new'[q] # {}
  BY Others DEF Placed
<1> QED
  BY <1>1, <1>2 DEF Placed

-----------------------------------------------------------------------------
(* Mutexes *)

\* The first mutex of a map that stays configured survives every step.
LEMMA LockKept ==
  ASSUME TypeOK, Placed, KeptLock, NEW p \in Goroutine, Kinds(p), NEW m \in kept'
  PROVE  m \in kept /\ m \in cfg' /\ m \in DOMAIN locks' /\ locks'[m] = 1
<1> USE DEF TypeOK, KeptLock, Kinds
<1>1. CASE ReloadSwap(p)
  <2>1. m \in kept /\ m \in new[p] /\ cfg' = new[p]
    BY <1>1 DEF ReloadSwap
  <2>2. m \in DOMAIN locks /\ locks[m] = 1
    BY <2>1
  <2> QED
    BY <1>1, <2>1, <2>2 DEF ReloadSwap
<1>2. CASE Lookup(p)
  <2>1. m \in kept /\ m \in DOMAIN locks /\ locks[m] = 1 /\ m \in cfg
    BY <1>2 DEF Lookup
  <2>2. locks'[m] = 1
    <3>1. CASE target[p] = m
      BY <1>2, <2>1, <3>1 DEF Lookup
    <3>2. CASE target[p] # m
      BY <1>2, <2>1, <3>2 DEF Lookup
    <3> QED
      BY <3>1, <3>2
  <2> QED
    BY <1>2, <2>1, <2>2 DEF Lookup
<1>3. CASE UNCHANGED mapTable
  BY <1>3 DEF mapTable
<1>4. ASSUME ~ReloadSwap(p), ~Lookup(p) PROVE UNCHANGED mapTable
  BY <1>4 DEF Ask, Choose, Lock, GiveUp, StartRun, StartFinish, StopHalt,
     StopFinish, Leave, ReloadLoad, ReloadCopy, ReloadCheck
<1> QED
  BY <1>1, <1>2, <1>3, <1>4

\* Everyone who waits for a mutex, or holds it, had it or looks it up now.
LEMMA HeldMutex ==
  ASSUME TypeOK, NEW p \in Goroutine, Kinds(p),
         pc'[p] \in Section \cup {"wait"}
  PROVE  /\ target'[p] = target[p]
         /\ \/ pc[p] \in Section \cup {"wait"} /\ mutex'[p] = mutex[p]
            \/ Lookup(p) /\ pc'[p] = "wait"
<1> USE DEF TypeOK, Kinds, Goto, At, Section
<1>1. CASE Lookup(p) \/ Lock(p)
  BY <1>1 DEF Lookup, Lock, going
<1>2. CASE StartRun(p) \/ StopHalt(p)
  BY <1>2 DEF StartRun, StopHalt, Leave, going
<1>3. CASE GiveUp(p) \/ StartFinish(p) \/ StopFinish(p)
  BY <1>3 DEF GiveUp, StartFinish, StopFinish, Leave
<1>4. CASE \E o \in {"start", "stop", "visit"}, m \in Map : Ask(p, o, m)
  BY <1>4 DEF Ask, Choose
<1>5. CASE ReloadLoad(p) \/ ReloadCopy(p) \/ ReloadSwap(p)
  BY <1>5 DEF ReloadLoad, ReloadCopy, ReloadSwap
<1>6. CASE \E m \in Map : ReloadCheck(p, m)
  BY <1>6 DEF ReloadCheck, Choose, going
<1> QED
  BY <1>1, <1>2, <1>3, <1>4, <1>5, <1>6

LEMMA LockStep ==
  ASSUME TypeOK, Placed, KeptLock, NEW p \in Goroutine, Kinds(p)
  PROVE  KeptLock'
<1> SUFFICES ASSUME NEW m \in kept', NEW q \in Goroutine,
                    target'[q] = m, pc'[q] \in Section \cup {"wait"}
             PROVE  mutex'[q] = 1
  BY LockKept DEF KeptLock
<1>1. m \in kept /\ m \in DOMAIN locks /\ locks[m] = 1
  BY LockKept DEF KeptLock
<1>2. CASE q # p
  BY <1>1, <1>2, Others DEF KeptLock
<1>3. CASE q = p /\ Lookup(p)
  BY <1>1, <1>3, HeldMutex DEF Lookup, TypeOK
<1>4. CASE q = p /\ ~Lookup(p)
  BY <1>1, <1>4, HeldMutex DEF KeptLock
<1> QED
  BY <1>2, <1>3, <1>4

LEMMA ExclusiveStep ==
  ASSUME TypeOK, Placed, KeptLock, KeptExclusive, NEW p \in Goroutine, Kinds(p)
  PROVE  KeptExclusive'
<1>1. ASSUME NEW m \in kept', NEW q \in Goroutine \ {p},
             Working(p, m)', Working(q, m)'
      PROVE  FALSE
  <2>1. m \in kept
    BY LockKept
  <2>2. Working(q, m)
    BY <1>1, Others DEF Working
  <2>3. target[p] = m /\ pc[p] \in Section \cup {"wait"}
    BY <1>1, HeldMutex DEF Working, Section
  <2>4. ~Working(p, m)
    BY <2>1, <2>2 DEF KeptExclusive
  <2>5. pc[p] = "wait" /\ pc'[p] \in Section
    BY <1>1, <2>3, <2>4 DEF Working
  <2>6. Lock(p)
    BY <2>5 DEF Kinds, Ask, Choose, Lookup, GiveUp, StartRun, StartFinish, StopHalt,
       StopFinish, ReloadLoad, ReloadCopy, ReloadSwap, ReloadCheck, At, Section
  <2>7. mutex[p] = 1 /\ mutex[q] = 1
    BY <2>1, <2>2, <2>3 DEF KeptLock, Working
  <2> QED
    BY <2>2, <2>3, <2>6, <2>7 DEF Lock
<1>2. ASSUME NEW m \in kept', NEW q \in Goroutine \ {p}, NEW r \in Goroutine \ {p},
             Working(r, m)', Working(q, m)'
      PROVE  q = r
  <2>1. m \in kept /\ Working(q, m) /\ Working(r, m)
    BY <1>2, LockKept, Others DEF Working
  <2> QED
    BY <2>1 DEF KeptExclusive
<1> QED
  BY <1>1, <1>2 DEF KeptExclusive

-----------------------------------------------------------------------------
(* The account of removed maps *)

Pending(p, m) == target[p] = m /\ pc[p] \in {"lookup", "wait", "work"}

\* A map that runs after an operation ran before or was just noted as missed
\* by every reload, and the notes of the others stay.
LEMMA Notes ==
  ASSUME TypeOK, Placed, NEW p \in Goroutine, Kinds(p), ~ReloadSwap(p),
         NEW q \in Goroutine, new[q] # {}, pc[q] # "copy"
  PROVE  missed[q] \subseteq missed'[q] /\ up' \subseteq up \cup missed'[q]
<1> USE DEF TypeOK, Kinds, At
<1>1. CASE StartRun(p)
  BY <1>1 DEF StartRun
<1>2. CASE GiveUp(p)
  BY <1>2 DEF GiveUp
<1>3. CASE StopHalt(p)
  BY <1>3 DEF StopHalt
<1>4. CASE ReloadCopy(p)
  BY <1>4 DEF ReloadCopy
<1>5. CASE \E m \in Map : ReloadCheck(p, m)
  BY <1>5 DEF ReloadCheck
<1>6. CASE UNCHANGED <<up, missed>>
  BY <1>6
<1>7. ASSUME ~StartRun(p), ~GiveUp(p), ~StopHalt(p), ~ReloadCopy(p),
             ~(\E m \in Map : ReloadCheck(p, m))
      PROVE  UNCHANGED <<up, missed>>
  BY <1>7 DEF Ask, Lookup, Lock, StartFinish, StopFinish, ReloadLoad
<1> QED
  BY <1>1, <1>2, <1>3, <1>4, <1>5, <1>6, <1>7

\* A reload stops being about to stop a map by stopping it or by missing it.
LEMMA Settled ==
  ASSUME TypeOK, Placed, NEW p \in Goroutine, Kinds(p), ~ReloadSwap(p),
         NEW m \in up', Pending(p, m), ~Pending(p, m)', m \notin missed'[p],
         new[p] # {}
  PROVE  FALSE
<1> USE DEF TypeOK, Kinds, Goto, At, Pending, Placed
<1>1. CASE GiveUp(p)
  BY <1>1 DEF GiveUp
<1>2. CASE StartRun(p)
  BY <1>2 DEF StartRun
<1>3. CASE StopHalt(p)
  BY <1>3 DEF StopHalt
<1>4. CASE Lookup(p) \/ Lock(p)
  BY <1>4 DEF Lookup, Lock, going
<1>5. ASSUME ~GiveUp(p), ~StartRun(p), ~StopHalt(p), ~Lookup(p), ~Lock(p)
      PROVE  FALSE
  BY <1>5 DEF Ask, StartFinish, StopFinish, ReloadLoad, ReloadCopy, ReloadCheck
<1> QED
  BY <1>1, <1>2, <1>3, <1>4, <1>5

\* Only a swap changes the configuration, only a reload of a goroutine its own.
LEMMA SameConfig ==
  ASSUME TypeOK, NEW p \in Goroutine, Kinds(p), ~ReloadSwap(p)
  PROVE  /\ cfg' = cfg
         /\ ~ReloadLoad(p) => new' = new
         /\ ReloadLoad(p) => pc'[p] = "copy"
<1> USE DEF TypeOK, Kinds, Goto
<1>1. ASSUME Leave(p) PROVE cfg' = cfg /\ new' = new
  BY <1>1 DEF Leave, mapTable, reloading
<1>2. CASE StartRun(p) \/ StopHalt(p)
  BY <1>1, <1>2 DEF StartRun, StopHalt, mapTable, reloading, At, ReloadLoad
<1>3. CASE GiveUp(p) \/ StartFinish(p) \/ StopFinish(p)
  BY <1>1, <1>3 DEF GiveUp, StartFinish, StopFinish, At, ReloadLoad
<1>4. CASE ReloadLoad(p)
  BY <1>4 DEF ReloadLoad, mapTable
<1>5. ASSUME ~StartRun(p), ~StopHalt(p), ~GiveUp(p), ~StartFinish(p),
             ~StopFinish(p), ~ReloadLoad(p)
      PROVE  cfg' = cfg /\ new' = new
  BY <1>5 DEF Ask, Lookup, Lock, ReloadCopy, ReloadCheck, mapTable, reloading
<1> QED
  BY <1>2, <1>3, <1>4, <1>5

\* What is left to look at shrinks by one map at a time.
LEMMA TodoStep ==
  ASSUME TypeOK, NEW p \in Goroutine, Kinds(p), ~ReloadCopy(p), ~ReloadSwap(p)
  PROVE  \/ todo' = todo
         \/ \E m \in todo[p] : /\ todo'[p] = todo[p] \ {m}
                               /\ m \in up' => Pending(p, m)' \/ m \in missed'[p]
<1> USE DEF TypeOK, Kinds, Goto
<1>1. ASSUME NEW m \in Map, ReloadCheck(p, m)
      PROVE  /\ m \in todo[p] /\ todo'[p] = todo[p] \ {m}
             /\ m \in up' => Pending(p, m)' \/ m \in missed'[p]
  <2>1. m \in todo[p] /\ todo'[p] = todo[p] \ {m} /\ up' = up
    BY <1>1 DEF ReloadCheck
  <2>2. CASE Choose(p, "stop", m)
    BY <2>1, <2>2 DEF Choose, Pending
  <2>3. CASE missed' = [missed EXCEPT ![p] = @ \cup ({m} \cap up)]
    BY <2>1, <2>3
  <2> QED
    BY <1>1, <2>1, <2>2, <2>3 DEF ReloadCheck
<1>2. ASSUME \A m \in Map : ~ReloadCheck(p, m) PROVE todo' = todo
  BY <1>2 DEF Ask, Lookup, Lock, GiveUp, StartRun, StartFinish, StopHalt, StopFinish,
     Leave, ReloadLoad, reloading
<1> QED
  BY <1>1, <1>2

LEMMA CheckedStep ==
  ASSUME TypeOK, Placed, ReloadChecked, NEW p \in Goroutine, Kinds(p)
  PROVE  ReloadChecked'
<1> SUFFICES ASSUME NEW q \in Goroutine, new'[q] # {}, pc'[q] # "copy",
                    NEW m \in Dealt(q)' \cap up', ~Pending(q, m)'
             PROVE  m \in missed'[q]
  BY DEF ReloadChecked, Pending, At
<1>1. CASE ReloadSwap(p)
  <2>1. up' = up /\ missed'[q] = Map
    BY <1>1 DEF ReloadSwap, TypeOK
  <2> QED
    BY <2>1 DEF TypeOK
<1>2. CASE ReloadCopy(p) /\ q = p
  <2>1. cfg' = cfg /\ new' = new /\ todo'[p] = cfg \ new[p]
    BY <1>2 DEF ReloadCopy, mapTable, TypeOK
  <2> QED
    BY <1>2, <2>1 DEF Dealt
<1>3. CASE ~ReloadSwap(p) /\ ~(ReloadCopy(p) /\ q = p)
  <2>1. cfg' = cfg /\ new'[q] = new[q] /\ pc[q] # "copy"
    <3>1. CASE q = p
      <4>1. pc[p] # "copy"
        BY <1>3, <3>1 DEF Kinds, Ask, Lookup, Lock, GiveUp, StartRun, StartFinish,
           StopHalt, StopFinish, ReloadLoad, ReloadCheck, At
      <4> QED
        BY <1>3, <3>1, <4>1, SameConfig
    <3>2. CASE q # p
      BY <1>3, <3>2, SameConfig, Others
    <3> QED
      BY <3>1, <3>2
  <2>2. missed[q] \subseteq missed'[q] /\ up' \subseteq up \cup missed'[q]
    BY <1>3, <2>1, Notes
  <2>3. CASE m \in Dealt(q) /\ m \in up
    <3>1. m \in missed[q] \/ Pending(q, m)
      BY <2>1, <2>3 DEF ReloadChecked, Pending, At
    <3>2. CASE Pending(q, m)
      <4>1. CASE q = p
        BY <1>3, <2>1, <3>2, <4>1, Settled
      <4>2. CASE q # p
        BY <3>2, <4>2, Others DEF Pending
      <4> QED
        BY <4>1, <4>2
    <3> QED
      BY <2>2, <3>1, <3>2
  <2>4. CASE m \notin Dealt(q)
    <3>1. m \in todo[q] /\ m \notin todo'[q]
      BY <2>1, <2>4 DEF Dealt
    <3>2. q = p
      BY <3>1, Others
    <3>3. PICK n \in todo[p] : /\ todo'[p] = todo[p] \ {n}
                               /\ n \in up' => Pending(p, n)' \/ n \in missed'[p]
      BY <1>3, <3>1, <3>2, TodoStep
    <3> QED
      BY <3>1, <3>2, <3>3
  <2>5. CASE m \notin up
    BY <2>2, <2>5
  <2> QED
    BY <2>3, <2>4, <2>5
<1> QED
  BY <1>1, <1>2, <1>3

-----------------------------------------------------------------------------
(* The world, and the theorems *)

LEMMA WorldStep ==
  ASSUME RInv, Edit \/ \E m \in Map : ServerExits(m)
  PROVE  RInv'
<1>1. /\ UNCHANGED <<cfg, locks, made, kept, books, pc, op, target, mutex, new, todo, missed>>
      /\ up' \subseteq up
      /\ file' \subseteq Map /\ edits' \in Nat
  BY DEF RInv, TypeOK, Edit, ServerExits, mapTable, going, reloading,
     fileVars
<1>2. TypeOK'
  BY <1>1 DEF RInv, TypeOK
<1>3. (Placed /\ KeptExclusive /\ KeptLock)'
  BY <1>1 DEF RInv, Placed, KeptExclusive, KeptLock, Working
<1>4. ReloadChecked'
  BY <1>1 DEF RInv, ReloadChecked, Dealt, At
<1> QED
  BY <1>2, <1>3, <1>4 DEF RInv

\* A new process begins as the first one did, but for its containers and its
\* books.
LEMMA RestartStep ==
  ASSUME RInv, Restart
  PROVE  RInv'
<1>1. \A p \in Goroutine : pc'[p] = "idle" /\ new'[p] = {}
  BY DEF Restart
<1>2. TypeOK'
  <2> USE DEF RInv, TypeOK, Restart, fileVars, Label
  <2>1. locks' \in [file -> Nat] /\ DOMAIN locks' = file
    OBVIOUS
  <2>2. made' \in [Map -> Nat] /\ cfg' \subseteq Map /\ kept' \subseteq Map
        /\ books' \subseteq Map
    OBVIOUS
  <2>3. /\ target' \in [Goroutine -> Map \cup {NoMap}]
        /\ new' \in [Goroutine -> SUBSET Map]
        /\ todo' \in [Goroutine -> SUBSET Map]
        /\ missed' \in [Goroutine -> SUBSET Map]
    OBVIOUS
  <2> QED
    BY <2>1, <2>2, <2>3
<1>3. Placed'
  BY <1>1 DEF Placed, Section
<1>4. KeptExclusive'
  BY <1>1 DEF KeptExclusive, Working, Section
<1>5. KeptLock'
  BY <1>1 DEF Restart, KeptLock, Section
<1>6. ReloadChecked'
  BY <1>1 DEF ReloadChecked
<1> QED
  BY <1>2, <1>3, <1>4, <1>5, <1>6 DEF RInv

\* The first mutex of a map survives while every reload lists the map, its
\* operations exclude each other, and a reload accounts for every map that it
\* drops (bot.go mapLock, cmdConfigReload).
THEOREM Invariance == Spec => []RInv
<1>1. Init => RInv
  BY Start
<1>2. RInv /\ [Next]_vars => RInv'
  <2> SUFFICES ASSUME RInv, [Next]_vars PROVE RInv'
    OBVIOUS
  <2>1. ASSUME NEW p \in Goroutine, Kinds(p) PROVE RInv'
    BY <2>1, TypeStep, PlacedStep, LockStep, ExclusiveStep, CheckedStep DEF RInv
  <2>2. CASE UNCHANGED vars
    BY <2>2 DEF RInv, TypeOK, Placed, KeptExclusive, KeptLock, ReloadChecked, Dealt,
       Working, At, vars, fileVars, mapTable, reloading, going
  <2>3. CASE Next
    BY <2>1, <2>3, StepKinds, WorldStep, RestartStep
  <2> QED
    BY <2>2, <2>3
<1> QED
  BY <1>1, <1>2, PTL DEF Spec

\* A running map that a reload drops escaped it by a failure, by a start behind
\* its back or by another reload (bot.go cmdConfigReload).
THEOREM OrphansAccounted == Spec => []OrphansExplained
<1>1. RInv => OrphansExplained
  BY DEF RInv, Placed, ReloadChecked, Dealt, At, OrphansExplained
<1> QED
  BY <1>1, Invariance, PTL

\* A map that no reload leaves out is never worked on by two goroutines (bot.go
\* mapLock and the mutexes kept at 531-545).
THEOREM NeverRelocked == Spec => []KeptExclusive
<1>1. RInv => KeptExclusive
  BY DEF RInv
<1> QED
  BY <1>1, Invariance, PTL

-----------------------------------------------------------------------------
(* Reloads of one and the same file *)

\* While nobody edits config.yaml, reloads find what is in use already, and
\* every operation has a map of it.
Unedited ==
  /\ cfg = file /\ kept = file
  /\ \A p \in Goroutine :
       /\ new[p] \in {{}, file}
       /\ pc[p] \in Section \cup {"lookup", "wait"} => target[p] \in file

LEMMA UneditedStep ==
  ASSUME TypeOK, Placed, Unedited, NEW p \in Goroutine, Kinds(p)
  PROVE  Unedited'
<1>1. file' = file
  BY DEF Kinds, Ask, Lookup, Lock, GiveUp, StartRun, StartFinish, StopHalt, StopFinish,
     Leave, ReloadLoad, ReloadCopy, ReloadSwap, ReloadCheck, fileVars
<1>2. cfg' = file /\ kept' = file /\ new'[p] \in {{}, file}
  <2>1. CASE ReloadSwap(p)
    <3>1. new[p] = file /\ cfg' = new[p] /\ kept' = kept \cap new[p] /\ new'[p] = {}
      BY <2>1 DEF ReloadSwap, Placed, Unedited, At, TypeOK
    <3> QED
      BY <3>1 DEF Unedited
  <2>2. CASE ~ReloadSwap(p)
    <3>1. cfg' = cfg /\ kept' = kept
      BY <2>2 DEF Kinds, Ask, Lookup, Lock, GiveUp, StartRun, StartFinish, StopHalt,
         StopFinish, Leave, ReloadLoad, ReloadCopy, ReloadCheck, mapTable
    <3>2. ReloadLoad(p) => new'[p] = file
      BY DEF ReloadLoad, TypeOK
    <3>3. ~ReloadLoad(p) => new'[p] = new[p]
      BY <2>2, SameConfig
    <3> QED
      BY <3>1, <3>2, <3>3 DEF Unedited
  <2> QED
    BY <2>1, <2>2
<1>3. pc'[p] \in Section \cup {"lookup", "wait"} => target'[p] \in file
  <2>1. CASE pc'[p] = "lookup"
    <3>1. \E o \in {"start", "stop", "visit"}, m \in Map : Choose(p, o, m)
      BY <2>1 DEF Kinds, Ask, Lookup, Lock, GiveUp, StartRun, StartFinish, StopHalt,
         StopFinish, Leave, ReloadLoad, ReloadCopy, ReloadSwap, ReloadCheck, Goto, At,
         TypeOK
    <3> QED
      BY <3>1 DEF Choose, Unedited, TypeOK
  <2>2. CASE pc'[p] # "lookup"
    BY <2>2, Own DEF Unedited, Section
  <2> QED
    BY <2>1, <2>2
<1> QED
  BY <1>1, <1>2, <1>3, Others DEF Unedited

\* Reloads as such do not harm: only an edited file lets two operations on one
\* map meet, which the specification rules out (docs/spec/01_bot_spec.md:412).
THEOREM ReloadsHarmless ==
  ASSUME MaxEdit = 0
  PROVE  Spec => []OneOperationPerMap
<1>1. Init => Unedited
  BY DEF Init, Unedited, Section
<1>2. RInv /\ Unedited /\ [Next]_vars => Unedited'
  <2> SUFFICES ASSUME RInv, Unedited, [Next]_vars PROVE Unedited'
    OBVIOUS
  <2>1. ASSUME NEW p \in Goroutine, Kinds(p) PROVE Unedited'
    BY <2>1, UneditedStep DEF RInv
  <2>2. ASSUME NEW m \in Map, ServerExits(m) PROVE Unedited'
    BY <2>2 DEF ServerExits, Unedited, fileVars, mapTable, going, reloading
  <2>3. ~Edit
    BY DEF Edit, RInv, TypeOK
  <2>4. CASE Restart
    BY <2>4 DEF Restart, Unedited, Section, fileVars
  <2>5. CASE UNCHANGED vars
    BY <2>5 DEF Unedited, vars, fileVars, mapTable, going, reloading
  <2> QED
    BY <2>1, <2>2, <2>3, <2>4, <2>5, StepKinds
<1>3. RInv /\ Unedited => OneOperationPerMap
  <2> SUFFICES ASSUME RInv, Unedited, NEW m \in Map, NEW p \in Goroutine,
                      NEW q \in Goroutine, Working(p, m), Working(q, m)
               PROVE  p = q
    BY DEF OneOperationPerMap
  <2>1. m \in kept
    BY DEF Unedited, Working
  <2> QED
    BY <2>1 DEF RInv, KeptExclusive
<1> QED
  BY <1>1, <1>2, <1>3, Invariance, PTL DEF Spec
=============================================================================
