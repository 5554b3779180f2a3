--------------------------- MODULE IdleStopProofs ---------------------------
(* Theorems about IdleStop, for every idle time and length of a scan. *)
EXTENDS IdleStop, TLAPS

LEMMA Numbers ==
  /\ IdleMinutes \in Nat /\ MaxScan \in Nat /\ Old \in Nat /\ Old >= MaxScan
  /\ \A n \in 0 .. Old : n \in Nat /\ Older(n) \in 0 .. Old
  /\ \A n \in 0 .. MaxScan : n \in Nat /\ n \in 0 .. Old
  /\ \A n \in 0 .. MaxScan : n < MaxScan => n + 1 \in 0 .. MaxScan
BY IdleStopAssumption DEF Old, Older

\* Ages keep their order when time passes.
LEMMA OrderKept ==
  ASSUME NEW a \in 0 .. Old, NEW b \in 0 .. Old, a <= b
  PROVE  Older(a) <= Older(b)
BY Numbers DEF Older

LEMMA InitHolds == Init => TimeInv
<1>1. 0 \in 0 .. Old /\ 0 \in 0 .. MaxScan /\ Old \in 0 .. Old
  BY Numbers
<1> QED
  BY <1>1 DEF Init, TimeInv, TypeOK, EntryCovered

LEMMA TypeStep ==
  ASSUME TypeOK, [Next]_vars
  PROVE  TypeOK'
<1> USE DEF TypeOK, server, watch, scanning, EndScan, Forget, Down
<1>0. 0 \in 0 .. Old /\ 0 \in 0 .. MaxScan /\ scanAge \in 0 .. Old
  BY Numbers
<1>1. CASE UNCHANGED vars
  BY <1>1 DEF vars
<1>2. ASSUME NEW r \in {"interval", "manual"}, ScanBegin(r) PROVE TypeOK'
  BY <1>0, <1>2 DEF ScanBegin
<1>3. CASE ScanSkip \/ ListEmpty \/ ListSome \/ ListFails
  BY <1>0, <1>3 DEF ScanSkip, ListEmpty, ListSome, ListFails
<1>4. CASE JudgeZero
  BY <1>0, <1>4 DEF JudgeZero
<1>5. CASE JudgeSome \/ ScanStopEnds \/ ScanStop \/ ScanStopped
  BY <1>0, <1>5 DEF JudgeSome, ScanStopEnds, ScanStop, ScanStopped
<1>6. CASE Start \/ Stop \/ Stopped \/ ServerExits \/ Restart
  BY <1>0, <1>6 DEF Start, Stop, Stopped, ServerExits, Restart
<1>7. CASE Tick
  <2>1. upAge' \in 0 .. Old /\ zeroAge' \in 0 .. Old /\ emptyAge' \in 0 .. Old
    BY <1>7, Numbers DEF Tick
  <2>2. scanAge' \in 0 .. MaxScan
    BY <1>7, Numbers DEF Tick
  <2> QED
    BY <1>7, <2>1, <2>2 DEF Tick
<1> QED
  BY <1>1, <1>2, <1>3, <1>4, <1>5, <1>6, <1>7 DEF Next, Scan

LEMMA CoverStep ==
  ASSUME TimeInv, [Next]_vars
  PROVE  EntryCovered'
<1> USE DEF TimeInv, TypeOK, EntryCovered, server, watch, scanning, EndScan, Forget,
            Down
<1>0. zeroAge \in Nat /\ emptyAge \in Nat /\ scanAge \in Nat
  BY Numbers
<1>1. CASE UNCHANGED vars
  BY <1>1 DEF vars
<1>2. ASSUME NEW r \in {"interval", "manual"}, ScanBegin(r) PROVE EntryCovered'
  BY <1>2 DEF ScanBegin
<1>3. CASE ScanSkip \/ ListEmpty \/ ListSome \/ ListFails
  BY <1>3 DEF ScanSkip, ListEmpty, ListSome, ListFails
<1>4. CASE JudgeZero
  <2>1. CASE entry
    BY <1>0, <1>4, <2>1 DEF JudgeZero
  <2>2. CASE ~entry
    BY <1>0, <1>4, <2>2 DEF JudgeZero
  <2> QED
    BY <2>1, <2>2
<1>5. CASE JudgeSome \/ ScanStopEnds \/ ScanStop \/ ScanStopped
  BY <1>5 DEF JudgeSome, ScanStopEnds, ScanStop, ScanStopped
<1>6. CASE Start \/ Stop \/ Stopped \/ ServerExits \/ Restart
  BY <1>6 DEF Start, Stop, Stopped, ServerExits, Restart
<1>7. CASE Tick
  <2>1. entry /\ scan # "judge_some" => Older(zeroAge) <= Older(emptyAge)
    BY OrderKept
  <2> QED
    BY <1>7, <2>1 DEF Tick
<1> QED
  BY <1>1, <1>2, <1>3, <1>4, <1>5, <1>6, <1>7 DEF Next, Scan

LEMMA Inductive == TimeInv /\ [Next]_vars => TimeInv'
  BY TypeStep, CoverStep DEF TimeInv

\* The variables keep their types and no entry outlives the evidence for it.
THEOREM EntryNeverStale == Spec => []TimeInv
  BY InitHolds, Inductive, PTL DEF Spec

\* An interval scan stops no map that was found occupied or stopped within
\* idle_stop_minutes.
THEOREM IdleTimeRespected == Spec => StopsOnlyIdle
<1> DEFINE Justified ==
      scan = "judge_zero" /\ scan' = "stop" /\ reason = "interval"
        => empty' /\ emptyAge' >= scanAge + IdleMinutes
<1>1. TimeInv /\ [Next]_vars => [Justified]_vars
  <2> SUFFICES ASSUME TimeInv, Next, scan = "judge_zero", scan' = "stop",
                      reason = "interval"
               PROVE  empty' /\ emptyAge' >= scanAge + IdleMinutes
    OBVIOUS
  <2>1. JudgeZero
    BY DEF Next, Scan, ScanBegin, ScanSkip, ListEmpty, ListSome, ListFails, JudgeSome,
       ScanStopEnds, ScanStop, ScanStopped, Start, Stop, Stopped, ServerExits, Restart,
       Tick, EndScan, scanning
  <2>2. /\ zeroAge \in Nat /\ emptyAge \in Nat /\ scanAge \in Nat
        /\ IdleMinutes \in Nat \ {0}
    BY Numbers, IdleStopAssumption DEF TimeInv, TypeOK
  <2>3. (IF entry THEN zeroAge ELSE scanAge) >= scanAge + IdleMinutes
    BY <2>1 DEF JudgeZero, EndScan
  <2>4. entry /\ zeroAge >= scanAge + IdleMinutes
    BY <2>2, <2>3
  <2>5. empty /\ zeroAge <= emptyAge
    BY <2>4 DEF TimeInv, EntryCovered
  <2>6. empty' /\ emptyAge' = emptyAge
    BY <2>1, <2>5 DEF JudgeZero
  <2> QED
    BY <2>2, <2>4, <2>5, <2>6
<1> QED
  BY <1>1, EntryNeverStale, PTL DEF Spec, StopsOnlyIdle
=============================================================================
