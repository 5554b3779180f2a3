--------------------------- MODULE BackupsProofs ---------------------------
(* Theorems about Backups, for every number of goroutines and generations. *)
EXTENDS Backups, FiniteSetTheorems, WellFoundedInduction, TLAPS

\* Time is a range of the natural numbers.
LEMMA TimeOrder ==
  /\ 0 \in Time
  /\ \A t \in Time : t \in Nat /\ t <= MaxTime
  /\ \A t \in Time : t < MaxTime => t + 1 \in Time
BY BackupsAssumption DEF Time

LEMMA InitHolds == Init => BInv
<1> SUFFICES ASSUME Init PROVE BInv
  OBVIOUS
<1>1. 0 \in Time /\ 0 \in 0 .. Keep
  BY BackupsAssumption DEF Time
<1>2. TypeOK
  BY <1>1 DEF Init, TypeOK, Content, Label
<1>3. Exclusive
  BY BackupsAssumption DEF Init, Exclusive, Section
<1>4. Past /\ Quiet /\ WritesNewest
  BY DEF Init, Past, Quiet, WritesNewest, At, Section
<1>5. SurplusOld /\ KeepsGenerations
  BY DEF Init, SurplusOld, KeepsGenerations, At
<1>6. BucketBehind /\ BucketWhole
  BY BackupsAssumption DEF Init, BucketBehind, BucketWhole, At, Objects
<1> QED
  BY <1>2, <1>3, <1>4, <1>5, <1>6 DEF BInv

LEMMA TypeStep ==
  ASSUME TypeOK, [Next]_vars
  PROVE  TypeOK'
<1> USE DEF TypeOK, Content, Label, Section, Goto, At, Unlock
<1>0. Time \subseteq Nat /\ 0 \in Time /\ Scheduler \in Caller
  BY BackupsAssumption DEF Time
<1>1. CASE UNCHANGED vars
  BY <1>1 DEF vars, disk, bucket, local
<1>2. ASSUME NEW p \in Caller, LocalBackup(p) PROVE TypeOK'
  <2>1. CASE Acquire(p)
    BY <2>1 DEF Acquire, disk, bucket
  <2>2. CASE GiveUp(p)
    BY <1>0, <2>2 DEF GiveUp, disk, bucket
  <2>3. CASE Create(p)
    BY <2>3 DEF Create, bucket
  <2>4. CASE Walk(p)
    BY <2>4 DEF Walk, disk, bucket, Archives
  <2>5. CASE WalkFails(p)
    BY <1>0, <2>5 DEF WalkFails, disk, bucket
  <2>6. CASE Retain(p)
    BY <2>6 DEF Retain, bucket
  <2>7. CASE Retained(p)
    BY <2>7 DEF Retained, disk, bucket
  <2>8. CASE Close(p)
    <3>1. taken' \in 0 .. Keep
      BY <2>8, BackupsAssumption DEF Close
    <3> QED
      BY <1>0, <2>8, <3>1 DEF Close, bucket
  <2> QED
    BY <1>2, <2>1, <2>2, <2>3, <2>4, <2>5, <2>6, <2>7, <2>8 DEF LocalBackup
<1>3. CASE Upload(Scheduler)
  <2>1. CASE UploadPick(Scheduler)
    BY <1>0, <2>1 DEF UploadPick, disk, bucket, Archives
  <2>2. CASE UploadOpen(Scheduler)
    BY <1>0, <2>2 DEF UploadOpen, disk, bucket
  <2>3. CASE UploadPut(Scheduler)
    BY <1>0, <2>3 DEF UploadPut, disk, bucket
  <2>4. CASE UploadClean(Scheduler)
    BY <1>0, <2>4 DEF UploadClean, disk, local
  <2> QED
    BY <1>3, <2>1, <2>2, <2>3, <2>4 DEF Upload
<1>4. CASE Tick
  <2>1. now' \in Time
    BY <1>4, TimeOrder DEF Tick
  <2> QED
    BY <1>4, <2>1 DEF Tick, disk, bucket, local
<1>5. CASE Crash
  BY <1>0, <1>5 DEF Crash, disk, bucket
<1> QED
  BY <1>1, <1>2, <1>3, <1>4, <1>5 DEF Next

LEMMA ExclusiveStep ==
  ASSUME TypeOK, Exclusive, [Next]_vars
  PROVE  Exclusive'
<1> USE BackupsAssumption DEF Exclusive, TypeOK, Section, Goto, At, Unlock
<1>1. CASE UNCHANGED vars
  BY <1>1 DEF vars
<1>2. ASSUME NEW p \in Caller, LocalBackup(p) PROVE Exclusive'
  <2>1. CASE Acquire(p)
    BY <2>1 DEF Acquire
  <2>2. CASE GiveUp(p) \/ WalkFails(p) \/ Close(p)
    BY <2>2 DEF GiveUp, WalkFails, Close
  <2>3. CASE Create(p) \/ Walk(p)
    BY <2>3 DEF Create, Walk
  <2>4. CASE Retain(p) \/ Retained(p)
    BY <2>4 DEF Retain, Retained
  <2> QED
    BY <1>2, <2>1, <2>2, <2>3, <2>4 DEF LocalBackup
<1>3. CASE Upload(Scheduler)
  BY <1>3 DEF Upload, UploadPick, UploadOpen, UploadPut, UploadClean
<1>4. CASE Tick \/ Crash
  BY <1>4 DEF Tick, Crash
<1> QED
  BY <1>1, <1>2, <1>3, <1>4 DEF Next

\* A step that writes no archive and lets no goroutine fall asleep keeps what
\* BInv says of times.
LEMMA TimesKept ==
  ASSUME Past, Quiet, TypeOK,
         now' = now, \A t \in Time : archive'[t] # "none" => archive[t] # "none",
         \A p \in Caller : pc'[p] = "sleep" => pc[p] = "sleep" /\ since'[p] = since[p]
  PROVE  Past' /\ Quiet'
BY DEF Past, Quiet, At, Time

LEMMA TimesStep ==
  ASSUME TypeOK, Exclusive, Past, Quiet, WritesNewest, [Next]_vars
  PROVE  Past' /\ Quiet'
<1> USE DEF Goto, At, Unlock
<1>a. /\ Scheduler \in Caller /\ now \in Time
      /\ pc \in [Caller -> Label] /\ name \in [Caller -> Time]
      /\ since \in [Caller -> Time] /\ archive \in [Time -> Content]
  BY BackupsAssumption DEF TypeOK
<1>b. \A t \in Time : t \in Nat
  BY TimeOrder
<1>0. /\ Scheduler \in Caller /\ now \in Time /\ now \in Nat
      /\ pc \in [Caller -> Label] /\ name \in [Caller -> Time]
      /\ since \in [Caller -> Time] /\ archive \in [Time -> Content]
      /\ \A t \in Time : t \in Nat
      /\ \A p \in Caller : since[p] \in Nat /\ name[p] \in Nat
  BY <1>a, <1>b
<1>1. CASE UNCHANGED vars
  BY <1>1 DEF vars, disk, local, Past, Quiet
<1>2. ASSUME NEW p \in Caller, LocalBackup(p) PROVE Past' /\ Quiet'
  <2>1. CASE Acquire(p)
    BY <1>0, <2>1 DEF Acquire, disk, Past, Quiet, Section
  <2>2. CASE GiveUp(p) \/ WalkFails(p)
    BY <1>0, <2>2, TimesKept DEF GiveUp, WalkFails, disk, Section
  <2>3. CASE Create(p)
    <3>1. \A q \in Caller : pc[q] = "sleep" => q = p
      BY <2>3 DEF Create, Exclusive, Section
    <3>2. Past'
      BY <1>0, <2>3 DEF Create, Past
    <3>3. Quiet'
      BY <1>0, <2>3, <3>1 DEF Create, Quiet
    <3> QED
      BY <3>2, <3>3
  <2>4. CASE Walk(p) \/ Retained(p)
    BY <1>0, <2>4, TimesKept DEF Walk, Retained, disk, Section
  <2>5. CASE Retain(p)
    BY <1>0, <2>5, TimesKept DEF Retain, Section
  <2>6. CASE Close(p)
    <3>1. Past'
      BY <1>0, <2>6 DEF Close, Past, WritesNewest, Section
    <3>2. \A q \in Caller : pc'[q] # "sleep"
      BY <1>0, <2>6 DEF Close, Exclusive, Section
    <3>3. Quiet'
      BY <3>2 DEF Quiet
    <3> QED
      BY <3>1, <3>3
  <2> QED
    BY <1>2, <2>1, <2>2, <2>3, <2>4, <2>5, <2>6 DEF LocalBackup
<1>3. CASE Upload(Scheduler)
  <2>1. /\ now' = now /\ archive' = archive /\ since' = since
        /\ pc[Scheduler] \notin Section
        /\ \E l \in {"idle", "open", "put", "clean"} : Goto(Scheduler, l)
    BY <1>0, <1>3 DEF Upload, UploadPick, UploadOpen, UploadPut, UploadClean, disk,
       local, Section
  <2> QED
    BY <1>0, <2>1, TimesKept DEF Section
<1>4. CASE Tick
  <2>1. now' = now + 1 /\ archive' = archive /\ pc' = pc /\ since' = since
    BY <1>4 DEF Tick, disk, local
  <2>2. Past'
    BY <1>0, <2>1 DEF Past
  <2>3. Quiet'
    BY <2>1 DEF Quiet
  <2> QED
    BY <2>2, <2>3
<1>5. CASE Crash
  BY <1>0, <1>5, TimesKept DEF Crash, disk, Section
<1> QED
  BY <1>1, <1>2, <1>3, <1>4, <1>5 DEF Next

-----------------------------------------------------------------------------
(* keepLocalGenerations *)

\* A set of times has an oldest one.
LEMMA Oldest ==
  ASSUME NEW S \in SUBSET Nat, S # {}
  PROVE  \E t \in S : \A u \in S : t <= u
<1> DEFINE R == OpToRel(<, Nat)
<1>1. PICK t \in S : \A u \in S : <<u, t>> \notin R
  BY NatLessThanWellFounded, WFMin
<1>2. \A u \in S : ~(u < t)
  BY <1>1 DEF OpToRel
<1> QED
  BY <1>2

LEMMA OneMore ==
  ASSUME NEW n \in Nat, ~(n >= Keep)
  PROVE  n + 1 <= Keep
  BY BackupsAssumption

\* No more than Keep times of a set have fewer than Keep newer ones in it.
LEMMA NewestKept ==
  ASSUME TypeOK
  PROVE  /\ IsFiniteSet(Archives)
         /\ Cardinality({t \in Archives : ~(Cardinality(Newer(t)) >= Keep)}) <= Keep
<1>1. Archives \in SUBSET Time /\ IsFiniteSet(Time)
  BY FS_Interval, BackupsAssumption DEF Archives, Time
<1>2. IsFiniteSet(Archives) /\ Archives \subseteq Nat
  BY <1>1, FS_Subset, TimeOrder
<1> DEFINE S == {t \in Archives : ~(Cardinality(Newer(t)) >= Keep)}
<1>3. CASE S = {}
  BY <1>2, <1>3, FS_EmptySet, BackupsAssumption
<1>4. CASE S # {}
  <2>1. PICK t \in S : \A u \in S : t <= u
    BY <1>2, <1>4, Oldest
  <2>2. t \in Archives /\ Newer(t) \in SUBSET Archives
    BY <2>1 DEF Newer
  <2>3. IsFiniteSet(Newer(t)) /\ Cardinality(Newer(t)) \in Nat
    BY <1>2, <2>2, FS_Subset, FS_CardinalityType
  <2>4. Cardinality(Newer(t)) + 1 <= Keep
    <3>1. ~(Cardinality(Newer(t)) >= Keep)
      BY <2>1
    <3> QED
      BY <2>3, <3>1, OneMore
  <2>5. S \in SUBSET (Newer(t) \cup {t})
    <3> SUFFICES ASSUME NEW u \in S, u # t PROVE u \in Newer(t)
      OBVIOUS
    <3>1. u \in Archives /\ u \in Nat /\ t \in Nat /\ t <= u
      BY <1>2, <2>1, <2>2
    <3>2. u > t
      BY <3>1
    <3> QED
      BY <3>1, <3>2 DEF Newer
  <2>6. /\ IsFiniteSet(Newer(t) \cup {t})
        /\ Cardinality(Newer(t) \cup {t}) = Cardinality(Newer(t)) + 1
    <3>1. t \notin Newer(t)
      BY <1>2, <2>2 DEF Newer
    <3> QED
      BY <2>3, <3>1, FS_AddElement
  <2>7. Cardinality(S) <= Cardinality(Newer(t) \cup {t})
    BY <2>5, <2>6, FS_Subset
  <2>8. Cardinality(S) \in Nat
    BY <2>5, <2>6, FS_Subset, FS_CardinalityType
  <2>9. Cardinality(S) <= Keep
    <3> HIDE DEF S
    <3> QED
      BY <2>3, <2>4, <2>6, <2>7, <2>8, BackupsAssumption
  <2> QED
    BY <1>2, <2>9
<1> QED
  BY <1>2, <1>3, <1>4

\* Who holds the mutex is the only one between Acquire and Unlock.
LEMMA SectionAlone ==
  ASSUME Exclusive, NEW p \in Caller, NEW q \in Caller,
         pc[p] \in Section, pc[q] \in Section
  PROVE  p = q
  BY DEF Exclusive

\* What has Keep newer archives has one.
LEMMA SomeNewer ==
  ASSUME NEW t \in Time, Cardinality(Newer(t)) >= Keep
  PROVE  \E v \in Archives : v > t
<1>1. Cardinality({}) = 0 /\ ~(0 >= Keep)
  BY FS_EmptySet, BackupsAssumption
<1>2. Newer(t) # {}
  BY <1>1
<1> QED
  BY <1>2 DEF Newer

\* Steps that leave the directory's names alone.
LEMMA NamesKept ==
  ASSUME SurplusOld, KeepsGenerations, Archives' = Archives,
         \A p \in Caller : pc'[p] = "retain" => pc[p] = "retain" /\ surplus'[p] = surplus[p],
         \A p \in Caller : pc'[p] = "close" =>
            pc[p] = "close" \/ (pc[p] = "retain" /\ surplus[p] = {})
  PROVE  SurplusOld' /\ KeepsGenerations'
<1> USE DEF At
<1>1. \A t : Newer(t)' = Newer(t)
  BY DEF Newer
<1>2. SurplusOld'
  BY <1>1 DEF SurplusOld
<1>3. \A p \in Caller : At(p, "retain") /\ surplus[p] = {} => Cardinality(Archives) <= Keep
  <2> SUFFICES ASSUME NEW p \in Caller, At(p, "retain"), surplus[p] = {}
               PROVE  Cardinality(Archives) <= Keep
    OBVIOUS
  <2>1. Archives \ surplus[p] = Archives
    OBVIOUS
  <2> QED
    BY <2>1 DEF SurplusOld
<1> QED
  BY <1>2, <1>3 DEF KeepsGenerations

LEMMA GenerationsStep ==
  ASSUME TypeOK, Exclusive, SurplusOld, KeepsGenerations, [Next]_vars
  PROVE  SurplusOld' /\ KeepsGenerations'
<1> USE DEF Goto, At, Unlock
<1>0. /\ Scheduler \in Caller /\ now \in Time
      /\ pc \in [Caller -> Label] /\ name \in [Caller -> Time]
      /\ surplus \in [Caller -> SUBSET Time] /\ archive \in [Time -> Content]
  BY BackupsAssumption DEF TypeOK
<1>1. CASE UNCHANGED vars
  BY <1>1 DEF vars, disk, local, SurplusOld, KeepsGenerations, Archives, Newer
<1>2. ASSUME NEW p \in Caller, LocalBackup(p) PROVE SurplusOld' /\ KeepsGenerations'
  <2>1. CASE Acquire(p) \/ GiveUp(p) \/ WalkFails(p)
    <3>1. Archives' = Archives /\ surplus' = surplus
      BY <2>1 DEF Acquire, GiveUp, WalkFails, disk, Archives
    <3>2. \A q \in Caller : pc'[q] \in {"retain", "close"} => pc'[q] = pc[q]
      BY <1>0, <2>1 DEF Acquire, GiveUp, WalkFails
    <3> QED
      BY <3>1, <3>2, NamesKept
  <2>2. CASE Create(p)
    <3>1. pc[p] = "sleep" /\ pc' = [pc EXCEPT ![p] = "walk"]
      BY <2>2 DEF Create
    <3>2. \A q \in Caller : pc'[q] \notin {"retain", "close"}
      BY <1>0, <3>1, SectionAlone DEF Section
    <3> QED
      BY <3>2 DEF SurplusOld, KeepsGenerations
  <2>3. CASE Walk(p)
    <3>1. /\ pc[p] = "walk" /\ pc' = [pc EXCEPT ![p] = "retain"] /\ archive' = archive
          /\ surplus'[p] = {t \in Archives : Cardinality(Newer(t)) >= Keep}
      BY <1>0, <2>3 DEF Walk, disk
    <3>2. \A q \in Caller : pc'[q] \in {"retain", "close"} => q = p /\ pc'[q] = "retain"
      BY <1>0, <3>1, SectionAlone DEF Section
    <3>3. Archives' = Archives /\ \A t : Newer(t)' = Newer(t)
      BY <3>1 DEF Archives, Newer
    <3>4. Archives \ surplus'[p] = {t \in Archives : ~(Cardinality(Newer(t)) >= Keep)}
      BY <3>1
    <3>5. Cardinality(Archives \ surplus'[p]) <= Keep
      BY <3>4, NewestKept
    <3>6. \A t \in surplus'[p] : Cardinality(Newer(t)) >= Keep
      BY <3>1
    <3> QED
      BY <3>2, <3>3, <3>5, <3>6 DEF SurplusOld, KeepsGenerations
  <2>4. CASE Retain(p)
    <3>1. PICK t \in surplus[p] :
            /\ \A u \in surplus[p] : t <= u
            /\ archive' = [archive EXCEPT ![t] = "none"]
            /\ surplus' = [surplus EXCEPT ![p] = @ \ {t}]
      BY <2>4 DEF Retain
    <3>2. pc[p] = "retain" /\ pc' = pc
      BY <2>4 DEF Retain
    <3>3. \A q \in Caller : pc'[q] \in {"retain", "close"} => q = p
      BY <3>2, SectionAlone DEF Section
    <3>4. Archives' = Archives \ {t} /\ surplus'[p] = surplus[p] \ {t}
      BY <1>0, <3>1 DEF Archives
    <3>5. Archives' \ surplus'[p] = Archives \ surplus[p]
      BY <3>1, <3>4
    <3>6. ASSUME NEW u \in surplus'[p] PROVE Newer(u)' = Newer(u)
      <4>1. u \in surplus[p] /\ t \in Nat /\ u \in Nat /\ t <= u
        BY <1>0, <3>1, <3>4, TimeOrder
      <4> QED
        BY <3>4, <4>1 DEF Newer
    <3>7. \A u \in surplus'[p] : Cardinality(Newer(u)') >= Keep
      BY <3>2, <3>4, <3>6 DEF SurplusOld
    <3>8. SurplusOld'
      BY <3>2, <3>3, <3>5, <3>7 DEF SurplusOld
    <3> QED
      BY <3>2, <3>3, <3>8 DEF KeepsGenerations
  <2>5. CASE Retained(p)
    <3>1. /\ pc[p] = "retain" /\ Archives' = Archives
          /\ \A q \in Caller \ {p} : surplus'[q] = surplus[q] /\ pc'[q] = pc[q]
      BY <1>0, <2>5 DEF Retained, disk, Archives
    <3>2. pc'[p] = "close_failed" \/ (pc'[p] = "close" /\ surplus[p] = {})
      BY <1>0, <2>5 DEF Retained
    <3> QED
      BY <3>1, <3>2, NamesKept
  <2>6. CASE Close(p)
    <3>1. \A q \in Caller : pc'[q] \notin {"retain", "close"}
      BY <1>0, <2>6, SectionAlone DEF Close, Section
    <3> QED
      BY <3>1 DEF SurplusOld, KeepsGenerations
  <2> QED
    BY <1>2, <2>1, <2>2, <2>3, <2>4, <2>5, <2>6 DEF LocalBackup
<1>3. CASE Upload(Scheduler)
  <2>1. /\ Archives' = Archives /\ surplus' = surplus
        /\ \E l \in {"idle", "open", "put", "clean"} : Goto(Scheduler, l)
    BY <1>3 DEF Upload, UploadPick, UploadOpen, UploadPut, UploadClean, disk, local,
       Archives
  <2> QED
    BY <1>0, <2>1, NamesKept
<1>4. CASE Tick \/ Crash
  <2>1. Archives' = Archives
    BY <1>4 DEF Tick, Crash, disk, Archives
  <2>2. \A q \in Caller : pc'[q] \in {"retain", "close"}
                            => pc'[q] = pc[q] /\ surplus'[q] = surplus[q]
    BY <1>0, <1>4 DEF Tick, Crash, local
  <2> QED
    BY <2>1, <2>2, NamesKept
<1> QED
  BY <1>1, <1>2, <1>3, <1>4 DEF Next

\* The archive being written stays the newest, and retention leaves it alone.
LEMMA WritingStep ==
  ASSUME TypeOK, Exclusive, Past, SurplusOld, WritesNewest, [Next]_vars
  PROVE  WritesNewest'
<1> USE DEF Goto, At, Unlock
<1> DEFINE Writing == Section \ {"sleep"}
<1>0. /\ Scheduler \in Caller /\ now \in Time /\ now \in Nat
      /\ pc \in [Caller -> Label] /\ name \in [Caller -> Time]
      /\ archive \in [Time -> Content] /\ surplus \in [Caller -> SUBSET Time]
  BY BackupsAssumption, TimeOrder DEF TypeOK
<1>1. ASSUME archive' = archive,
             \A q \in Caller : pc'[q] \in Writing => pc[q] \in Writing /\ name'[q] = name[q]
      PROVE  WritesNewest'
  BY <1>1 DEF WritesNewest, Archives
<1>2. CASE UNCHANGED vars
  BY <1>1, <1>2 DEF vars, disk, local
<1>3. ASSUME NEW p \in Caller, LocalBackup(p) PROVE WritesNewest'
  <2>1. CASE Acquire(p)
    BY <1>0, <1>1, <2>1 DEF Acquire, disk, Section
  <2>2. CASE GiveUp(p) \/ WalkFails(p)
    BY <1>0, <1>1, <2>2 DEF GiveUp, WalkFails, disk, Section
  <2>3. CASE Create(p)
    <3>1. /\ pc[p] = "sleep" /\ pc' = [pc EXCEPT ![p] = "walk"]
          /\ name' = [name EXCEPT ![p] = now]
          /\ archive' = [archive EXCEPT ![now] = "partial"]
      BY <2>3 DEF Create
    <3>2. \A q \in Caller : pc'[q] \in Writing => q = p
      BY <1>0, <3>1, SectionAlone DEF Section
    <3>3. archive'[name'[p]] = "partial"
      BY <1>0, <3>1
    <3>4. \A t \in Archives' : t <= name'[p]
      BY <1>0, <3>1 DEF Archives, Past
    <3> QED
      BY <3>2, <3>3, <3>4 DEF WritesNewest
  <2>4. CASE Walk(p) \/ Retained(p)
    BY <1>0, <1>1, <2>4 DEF Walk, Retained, disk, Section
  <2>5. CASE Retain(p)
    <3>1. PICK t \in surplus[p] : archive' = [archive EXCEPT ![t] = "none"]
      BY <2>5 DEF Retain
    <3>2. pc[p] = "retain" /\ pc' = pc /\ name' = name
      BY <2>5 DEF Retain
    <3>3. \A q \in Caller : pc'[q] \in Writing => q = p
      BY <3>2, SectionAlone DEF Section
    <3>4. \E v \in Archives : v > t
      BY <1>0, <3>1, <3>2, SomeNewer DEF SurplusOld
    <3>5. archive[name[p]] = "partial" /\ \A u \in Archives : u <= name[p]
      BY <3>2 DEF WritesNewest, Section
    <3>6. name[p] # t
      <4>1. PICK v \in Archives : v > t
        BY <3>4
      <4>2. v \in Nat /\ name[p] \in Nat /\ v <= name[p]
        BY <1>0, <3>5, TimeOrder DEF Archives
      <4> QED
        BY <4>1, <4>2
    <3>7. archive'[name[p]] = "partial" /\ Archives' \subseteq Archives
      BY <1>0, <3>1, <3>5, <3>6 DEF Archives
    <3> QED
      BY <3>2, <3>3, <3>5, <3>7 DEF WritesNewest
  <2>6. CASE Close(p)
    <3>1. \A q \in Caller : pc'[q] \notin Writing
      BY <1>0, <2>6, SectionAlone DEF Close, Section
    <3> QED
      BY <3>1 DEF WritesNewest
  <2> QED
    BY <1>3, <2>1, <2>2, <2>3, <2>4, <2>5, <2>6 DEF LocalBackup
<1>4. CASE Upload(Scheduler)
  <2>1. /\ archive' = archive
        /\ \E l \in {"idle", "open", "put", "clean"} : Goto(Scheduler, l)
        /\ \A q \in Caller \ {Scheduler} : name'[q] = name[q]
    BY <1>0, <1>4 DEF Upload, UploadPick, UploadOpen, UploadPut, UploadClean, disk, local
  <2> QED
    BY <1>0, <1>1, <2>1 DEF Section
<1>5. CASE Tick \/ Crash
  BY <1>0, <1>1, <1>5 DEF Tick, Crash, disk, local, Section
<1> QED
  BY <1>2, <1>3, <1>4, <1>5 DEF Next

-----------------------------------------------------------------------------
(* The bucket *)

\* Whatever time the directory reaches it goes on reaching: only archives with
\* newer ones are deleted.
LEMMA DirectoryReaches ==
  ASSUME TypeOK, SurplusOld, [Next]_vars, NEW u \in Time, NEW t \in Archives, u <= t
  PROVE  \E v \in Archives' : u <= v
<1>0. /\ archive \in [Time -> Content] /\ now \in Time /\ t \in Time /\ u \in Nat /\ t \in Nat
      /\ \A p \in Caller : name[p] \in Time
  BY TimeOrder DEF TypeOK, Archives
<1>1. CASE t \in Archives'
  BY <1>1
<1>2. CASE t \notin Archives'
  <2>1. archive'[t] = "none" /\ archive[t] # "none"
    BY <1>0, <1>2 DEF Archives
  <2>2. PICK p \in Caller : Retain(p)
    <3>1. ASSUME NEW q \in Caller, Create(q) \/ Close(q) PROVE archive'[t] # "none"
      BY <1>0, <2>1, <3>1 DEF Create, Close
    <3>2. archive' # archive
      BY <2>1
    <3> QED
      BY <2>1, <3>1, <3>2 DEF Next, LocalBackup, Acquire, GiveUp, Walk, WalkFails,
         Retained, Upload, UploadPick, UploadOpen, UploadPut, UploadClean, Tick, Crash,
         disk, vars
  <2>3. PICK d \in surplus[p] : archive' = [archive EXCEPT ![d] = "none"]
    BY <2>2 DEF Retain
  <2>4. d = t
    BY <1>0, <2>1, <2>3
  <2>5. Cardinality(Newer(t)) >= Keep
    BY <2>2, <2>4 DEF Retain, SurplusOld
  <2>7. PICK v \in Archives : v > t
    BY <1>0, <2>5, SomeNewer
  <2>8. v \in Nat /\ v \in Time
    BY TimeOrder DEF Archives
  <2>9. v # t
    BY <1>0, <2>7, <2>8
  <2>10. v \in Archives' /\ u <= v
    BY <1>0, <2>3, <2>4, <2>7, <2>8, <2>9 DEF Archives
  <2> QED
    BY <2>10
<1> QED
  BY <1>1, <1>2

LEMMA BucketStep ==
  ASSUME TypeOK, SurplusOld, BucketBehind, [Next]_vars
  PROVE  BucketBehind'
<1> USE DEF Goto, At, Unlock
<1> DEFINE S == Scheduler
<1>0. /\ S \in Caller /\ now \in Time
      /\ pc \in [Caller -> Label] /\ name \in [Caller -> Time]
      /\ archive \in [Time -> Content] /\ cloud \in [Time -> Content]
      /\ modified \in [Time -> Time] /\ name[S] \in Time
      /\ Archives \subseteq Time /\ Objects \subseteq Time
  BY BackupsAssumption DEF TypeOK, Archives, Objects
<1>r. \A u \in Time : (\E t \in Archives : u <= t) => \E v \in Archives' : u <= v
  BY DirectoryReaches
<1>1. ASSUME UNCHANGED bucket,
             pc'[S] \in {"open", "put", "clean"}
               => pc'[S] = pc[S] /\ name'[S] = name[S] /\ held' = held,
             pc'[S] = "clean" => now' = now
      PROVE  BucketBehind'
  <2>1. Objects' = Objects /\ modified' = modified
    BY <1>1 DEF bucket, Objects
  <2>2. \A u \in Objects' : \E t \in Archives' : u <= t
    BY <1>0, <1>r, <2>1 DEF BucketBehind
  <2>3. ASSUME pc'[S] \in {"open", "put"}
        PROVE  /\ \E t \in Archives' : name'[S] <= t
               /\ \A u \in Objects' : u <= name'[S]
    BY <1>0, <1>1, <1>r, <2>1, <2>3 DEF BucketBehind
  <2>4. pc'[S] = "put" => held' # "none"
    BY <1>1 DEF BucketBehind
  <2>5. pc'[S] = "clean"
          => \E t \in Objects' : modified'[t] = now' /\ \A u \in Objects' : u <= t
    BY <1>1, <2>1 DEF BucketBehind
  <2> QED
    BY <2>2, <2>3, <2>4, <2>5 DEF BucketBehind
<1>2. CASE UNCHANGED vars
  BY <1>1, <1>2 DEF vars, bucket, local
<1>3. ASSUME NEW p \in Caller, LocalBackup(p) PROVE BucketBehind'
  <2>1. /\ UNCHANGED <<bucket, held, now>>
        /\ pc' = pc \/ \E l \in Section \cup {"idle"} : Goto(p, l)
        /\ \A q \in Caller : q # p => name'[q] = name[q]
        /\ pc' = pc => name' = name
    BY <1>0, <1>3 DEF LocalBackup, Acquire, GiveUp, Create, Walk, WalkFails, Retain,
       Retained, Close, Section
  <2>2. pc'[S] \in {"open", "put", "clean"} => pc'[S] = pc[S] /\ name'[S] = name[S]
    <3>1. CASE pc' = pc
      BY <2>1, <3>1
    <3>2. ASSUME NEW l \in Section \cup {"idle"}, Goto(p, l)
          PROVE  pc'[S] \in {"open", "put", "clean"}
                   => pc'[S] = pc[S] /\ name'[S] = name[S]
      BY <1>0, <2>1, <3>2 DEF Section
    <3> QED
      BY <2>1, <3>1, <3>2
  <2> QED
    BY <1>1, <2>1, <2>2 DEF bucket
<1>4. CASE UploadPick(S)
  <2>1. PICK t \in Archives : (\A u \in Archives : u <= t) /\ name' = [name EXCEPT ![S] = t]
    BY <1>4 DEF UploadPick
  <2>2. pc'[S] = "open" /\ name'[S] = t /\ Archives' = Archives /\ Objects' = Objects
    BY <1>0, <1>4, <2>1 DEF UploadPick, disk, bucket, Archives, Objects
  <2>3. t \in Nat /\ \A u \in Time : u \in Nat
    BY <1>0, TimeOrder
  <2>4. \A u \in Objects : u <= t
    BY <1>0, <2>1, <2>3 DEF BucketBehind
  <2>5. t <= t
    BY <2>3
  <2> QED
    BY <2>2, <2>4, <2>5 DEF BucketBehind
<1>5. CASE UploadOpen(S)
  <2>1. CASE pc'[S] = "idle"
    BY <1>1, <1>5, <2>1 DEF UploadOpen
  <2>2. CASE pc'[S] # "idle"
    <3>1. /\ pc[S] = "open" /\ pc'[S] = "put" /\ name' = name /\ held' # "none"
          /\ Archives' = Archives /\ Objects' = Objects
      BY <1>0, <1>5, <2>2 DEF UploadOpen, disk, bucket, Archives, Objects
    <3> QED
      BY <3>1 DEF BucketBehind
  <2> QED
    BY <2>1, <2>2
<1>6. CASE UploadPut(S)
  <2>1. CASE UNCHANGED bucket
    <3>1. pc'[S] \in {"idle", "clean"}
      BY <1>0, <1>6 DEF UploadPut
    <3>2. pc'[S] = "clean" => modified'[name[S]] = now /\ name[S] \in Objects'
      BY <1>0, <1>6 DEF UploadPut, BucketBehind, Objects
    <3>3. now' = now /\ Archives' = Archives /\ Objects' = Objects
      BY <1>6, <2>1 DEF UploadPut, disk, Archives, bucket, Objects
    <3>4. \A u \in Objects : u <= name[S]
      BY <1>6 DEF UploadPut, BucketBehind
    <3> QED
      BY <3>1, <3>2, <3>3, <3>4 DEF BucketBehind
  <2>2. CASE ~UNCHANGED bucket
    <3>1. /\ cloud' = [cloud EXCEPT ![name[S]] = held]
          /\ modified' = [modified EXCEPT ![name[S]] = now]
          /\ now' = now /\ Archives' = Archives /\ pc[S] = "put"
          /\ pc'[S] \in {"idle", "clean"}
      BY <1>0, <1>6, <2>2 DEF UploadPut, disk, Archives
    <3>2. held # "none" /\ \E t \in Archives : name[S] <= t
      BY <3>1 DEF BucketBehind
    <3>3. Objects' = Objects \cup {name[S]} /\ modified'[name[S]] = now
      BY <1>0, <3>1, <3>2 DEF Objects
    <3>4. \A u \in Objects' : u <= name[S]
      <4>1. name[S] <= name[S]
        BY <1>0, TimeOrder
      <4> QED
        BY <3>1, <3>3, <4>1 DEF BucketBehind
    <3> QED
      BY <3>1, <3>2, <3>3, <3>4 DEF BucketBehind
  <2> QED
    BY <2>1, <2>2
<1>7. CASE UploadClean(S)
  <2>1. pc'[S] = "idle" /\ Archives' = Archives /\ Objects' \subseteq Objects
    BY <1>0, <1>7 DEF UploadClean, disk, Archives, Objects
  <2> QED
    BY <2>1 DEF BucketBehind
<1>8. CASE Tick
  <2>1. pc[S] # "clean" /\ UNCHANGED <<bucket, pc, name, held>>
    BY <1>0, <1>8 DEF Tick, local
  <2> QED
    BY <1>1, <2>1
<1>9. CASE Crash
  <2>1. pc'[S] = "idle" /\ UNCHANGED bucket
    BY <1>0, <1>9 DEF Crash
  <2> QED
    BY <1>1, <2>1
<1> QED
  BY <1>2, <1>3, <1>4, <1>5, <1>6, <1>7, <1>8, <1>9 DEF Next, Upload

\* Nothing the bucket has, or is about to get, is begun again.
LEMMA NameUnused ==
  ASSUME TypeOK, Quiet, BucketBehind, NEW p \in Caller, Create(p)
  PROVE  /\ archive[now] = "none" /\ cloud[now] = "none"
         /\ pc[Scheduler] \in {"open", "put"} => name[Scheduler] # now
         /\ \A t \in Archives \cup Objects : t < now
<1>0. /\ now \in Time /\ now \in Nat /\ since[p] \in Nat
      /\ \A t \in Time : t \in Nat
      /\ name[Scheduler] \in Time /\ archive \in [Time -> Content]
  BY TimeOrder, BackupsAssumption DEF TypeOK
<1>1. now > since[p] /\ \A t \in Archives : t <= since[p]
  BY DEF Create, Quiet, Archives
<1>2. \A u \in Time : (\E t \in Archives : u <= t) => u < now
  BY <1>0, <1>1 DEF Archives
<1>3. \A t \in Archives \cup Objects : t < now
  BY <1>0, <1>1, <1>2 DEF BucketBehind, Archives, Objects
<1>4. pc[Scheduler] \in {"open", "put"} => name[Scheduler] < now
  BY <1>0, <1>2 DEF BucketBehind
<1> QED
  BY <1>0, <1>3, <1>4 DEF Archives, Objects

LEMMA WholeStep ==
  ASSUME TypeOK, Quiet, WritesNewest, BucketBehind, BucketWhole, [Next]_vars
  PROVE  BucketWhole'
<1> USE DEF Goto, At, Unlock
<1> DEFINE S == Scheduler
<1>0. /\ S \in Caller /\ now \in Time
      /\ pc \in [Caller -> Label] /\ name \in [Caller -> Time]
      /\ archive \in [Time -> Content] /\ cloud \in [Time -> Content]
      /\ name[S] \in Time
  BY BackupsAssumption DEF TypeOK
<1>1. ASSUME cloud' = cloud,
             \A t \in Time : archive'[t] = "partial" =>
               /\ archive[t] = "partial" \/ cloud[t] = "none"
               /\ archive[t] = "partial" \/ pc[S] # "put" \/ t # name[S],
             pc'[S] = "put" => pc[S] = "put" /\ name'[S] = name[S] /\ held' = held
      PROVE  BucketWhole'
  BY <1>0, <1>1 DEF BucketWhole
<1>2. CASE UNCHANGED vars
  BY <1>1, <1>2 DEF vars, bucket, disk, local
<1>3. ASSUME NEW p \in Caller, LocalBackup(p) PROVE BucketWhole'
  <2>1. cloud' = cloud /\ held' = held
    BY <1>3 DEF LocalBackup, Acquire, GiveUp, Create, Walk, WalkFails, Retain,
       Retained, Close, bucket
  <2>2. pc'[S] = "put" => pc[S] = "put" /\ name'[S] = name[S]
    BY <1>0, <1>3 DEF LocalBackup, Acquire, GiveUp, Create, Walk, WalkFails, Retain,
       Retained, Close
  <2>3. CASE Create(p)
    <3>1. \A t \in Time : archive'[t] = "partial" => archive[t] = "partial" \/ t = now
      BY <1>0, <2>3 DEF Create
    <3> QED
      BY <1>1, <2>1, <2>2, <2>3, <3>1, NameUnused
  <2>4. CASE ~Create(p)
    <3>1. \A t \in Time : archive'[t] = "partial" => archive[t] = "partial"
      BY <1>0, <1>3, <2>4 DEF LocalBackup, Acquire, GiveUp, Walk, WalkFails, Retain,
         Retained, Close, disk
    <3> QED
      BY <1>1, <2>1, <2>2, <3>1
  <2> QED
    BY <2>3, <2>4
<1>4. CASE UploadPick(S)
  <2>1. cloud' = cloud /\ archive' = archive /\ pc'[S] = "open"
    BY <1>0, <1>4 DEF UploadPick, disk, bucket
  <2> QED
    BY <1>1, <2>1
<1>5. CASE UploadOpen(S)
  <2>1. cloud' = cloud /\ archive' = archive
    BY <1>5 DEF UploadOpen, disk, bucket
  <2>2. pc'[S] = "put" =>
          /\ name'[S] = name[S] /\ held' = archive[name[S]]
          /\ archive[name[S]] \in Content \ {"none"}
    BY <1>0, <1>5 DEF UploadOpen
  <2> QED
    BY <1>0, <2>1, <2>2 DEF BucketWhole, Content
<1>6. CASE UploadPut(S)
  <2>1. /\ archive' = archive /\ pc[S] = "put" /\ pc'[S] # "put"
        /\ cloud' = cloud \/ cloud' = [cloud EXCEPT ![name[S]] = held]
    BY <1>0, <1>6 DEF UploadPut, disk, bucket
  <2> QED
    BY <1>0, <2>1 DEF BucketWhole
<1>7. CASE UploadClean(S)
  <2>1. /\ archive' = archive /\ pc'[S] = "idle"
        /\ \A t \in Time : cloud'[t] \in {"none", cloud[t]}
    BY <1>0, <1>7 DEF UploadClean, disk
  <2> QED
    BY <2>1 DEF BucketWhole
<1>8. CASE Tick
  BY <1>1, <1>8 DEF Tick, disk, bucket, local
<1>9. CASE Crash
  <2>1. cloud' = cloud /\ archive' = archive /\ pc'[S] = "idle"
    BY <1>0, <1>9 DEF Crash, disk, bucket
  <2> QED
    BY <1>1, <2>1
<1> QED
  BY <1>2, <1>3, <1>4, <1>5, <1>6, <1>7, <1>8, <1>9 DEF Next, Upload

-----------------------------------------------------------------------------

LEMMA Inductive == BInv /\ [Next]_vars => BInv'
  BY TypeStep, ExclusiveStep, TimesStep, WritingStep, GenerationsStep, BucketStep,
     WholeStep DEF BInv

\* The variables keep their types, for every Keep and any callers.
THEOREM BackupsTyped == Spec => []TypeOK
<1>1. Init => TypeOK
  BY InitHolds DEF BInv
<1>2. TypeOK /\ [Next]_vars => TypeOK'
  BY TypeStep
<1> QED
  BY <1>1, <1>2, PTL DEF Spec

\* What LocalBackup and keepLocalGenerations rely on from one step to the next,
\* for any callers and whatever fails.
THEOREM BackupsInvariance == Spec => []BInv
  BY InitHolds, Inductive, PTL DEF Spec

\* A backup that succeeds leaves no more than Keep archives behind.
THEOREM GenerationsBounded == Spec => []KeepsGenerations
<1>1. BInv => KeepsGenerations
  BY DEF BInv
<1> QED
  BY <1>1, BackupsInvariance, PTL

\* The mutex and the sleep give every archive a name of its own: one that is
\* whole is never truncated by a later backup.
THEOREM NeverTruncated == Spec => WholeStaysWhole
<1> DEFINE Kept == \A t \in Time :
                     archive[t] = "whole" => archive'[t] \in {"whole", "none"}
<1>1. BInv /\ [Next]_vars => [Kept]_vars
  <2> SUFFICES ASSUME BInv, Next PROVE Kept
    OBVIOUS
  <2>0. archive \in [Time -> Content] /\ now \in Time /\ now \in Nat
        /\ \A p \in Caller : since[p] \in Nat
    BY TimeOrder DEF BInv, TypeOK
  <2>1. ASSUME NEW p \in Caller, Create(p) PROVE Kept
    <3>1. now > since[p] /\ At(p, "sleep")
      BY <2>1 DEF Create
    <3>2. archive[now] # "none" => now <= since[p]
      BY <2>0, <3>1 DEF BInv, Quiet
    <3>3. archive[now] = "none"
      BY <2>0, <3>1, <3>2
    <3> QED
      BY <2>0, <2>1, <3>3 DEF Create
  <2>2. ASSUME NEW p \in Caller, Retain(p) \/ Close(p) PROVE Kept
    BY <2>0, <2>2 DEF Retain, Close
  <2>3. CASE archive' = archive
    BY <2>3
  <2> QED
    BY <2>1, <2>2, <2>3 DEF Next, LocalBackup, Acquire, GiveUp, Walk, WalkFails,
       Retained, Upload, UploadPick, UploadOpen, UploadPut, UploadClean, Tick, Crash,
       disk
<1> QED
  BY <1>1, InitHolds, Inductive, PTL DEF Spec, WholeStaysWhole

\* keepLocalGenerations deletes an archive only if Keep newer ones stay, for
\* every Keep and whatever backups failed or were cut off before.
THEOREM OnlyOldDeleted == Spec => DeletesOnlyOld
<1> DEFINE Old == \A t \in Time : archive[t] # "none" /\ archive'[t] = "none"
                                    => Cardinality(Newer(t)) >= Keep
<1>1. BInv /\ [Next]_vars => [Old]_vars
  <2> SUFFICES ASSUME BInv, Next PROVE Old
    OBVIOUS
  <2>0. /\ archive \in [Time -> Content] /\ now \in Time
        /\ \A p \in Caller : name[p] \in Time
    BY DEF BInv, TypeOK
  <2>1. ASSUME NEW p \in Caller, Retain(p) PROVE Old
    <3>1. /\ \E t \in surplus[p] : archive' = [archive EXCEPT ![t] = "none"]
          /\ \A t \in surplus[p] : Cardinality(Newer(t)) >= Keep
      BY <2>1 DEF Retain, BInv, SurplusOld
    <3> QED
      BY <2>0, <3>1
  <2>2. ASSUME NEW p \in Caller, Create(p) \/ Close(p) PROVE Old
    BY <2>0, <2>2 DEF Create, Close
  <2>3. CASE archive' = archive
    BY <2>3
  <2> QED
    BY <2>1, <2>2, <2>3 DEF Next, LocalBackup, Acquire, GiveUp, Walk, WalkFails,
       Retained, Upload, UploadPick, UploadOpen, UploadPut, UploadClean, Tick, Crash,
       disk
<1> QED
  BY <1>1, InitHolds, Inductive, PTL DEF Spec, DeletesOnlyOld

\* What appears in the bucket is at least as new as all it holds, although the
\* upload picks and opens its archive without the map's mutex while backups and
\* retention go on.
THEOREM BucketForward == Spec => CloudMovesForward
<1> DEFINE Forward == \A t \in Time : cloud[t] = "none" /\ cloud'[t] # "none"
                                        => \A u \in Objects : u <= t
<1>1. BInv /\ [Next]_vars => [Forward]_vars
  <2> SUFFICES ASSUME BInv, Next, NEW t \in Time, cloud[t] = "none", cloud'[t] # "none"
               PROVE  \A u \in Objects : u <= t
    OBVIOUS
  <2>0. cloud \in [Time -> Content] /\ name[Scheduler] \in Time
    BY BackupsAssumption DEF BInv, TypeOK
  <2>1. ~UploadClean(Scheduler)
    BY <2>0 DEF UploadClean
  <2>2. UploadPut(Scheduler) /\ cloud' # cloud
    BY <2>1 DEF Next, LocalBackup, Acquire, GiveUp, Create, Walk, WalkFails, Retain,
       Retained, Close, Upload, UploadPick, UploadOpen, Tick, Crash, bucket
  <2>3. At(Scheduler, "put") /\ cloud' = [cloud EXCEPT ![name[Scheduler]] = held]
    BY <2>2 DEF UploadPut, bucket
  <2>4. t = name[Scheduler]
    BY <2>0, <2>3
  <2> QED
    BY <2>3, <2>4 DEF BInv, BucketBehind, At
<1> QED
  BY <1>1, InitHolds, Inductive, PTL DEF Spec, CloudMovesForward

\* The cleanup never deletes the last object of a map, for any keep_days: it runs
\* only after an upload that made one object too young for it.
THEOREM BucketKept == Spec => CloudNeverEmptied
<1> DEFINE Kept == Objects # {} => Objects' # {}
<1>1. BInv /\ [Next]_vars => [Kept]_vars
  <2> SUFFICES ASSUME BInv, Next PROVE Kept
    OBVIOUS
  <2>0. /\ cloud \in [Time -> Content] /\ modified \in [Time -> Time]
        /\ name[Scheduler] \in Time /\ now \in Nat /\ KeepDays \in Nat
    BY TimeOrder, BackupsAssumption DEF BInv, TypeOK
  <2>1. CASE UploadClean(Scheduler)
    <3>1. PICK t \in Objects : modified[t] = now
      BY <2>1 DEF UploadClean, BInv, BucketBehind
    <3>2. PICK gone \in SUBSET (IF KeepDays = 0 THEN {} ELSE Expired) :
            cloud' = [u \in Time |-> IF u \in gone THEN "none" ELSE cloud[u]]
      BY <2>1 DEF UploadClean
    <3>3. t \notin gone
      BY <2>0, <3>1, <3>2 DEF Expired
    <3>4. t \in Objects'
      BY <3>1, <3>2, <3>3 DEF Objects
    <3> QED
      BY <3>4
  <2>2. CASE UploadPut(Scheduler)
    <3>1. held # "none"
      BY <2>2 DEF UploadPut, BInv, BucketBehind
    <3>2. cloud' = cloud \/ cloud' = [cloud EXCEPT ![name[Scheduler]] = held]
      BY <2>2 DEF UploadPut, bucket
    <3> QED
      BY <2>0, <3>1, <3>2 DEF Objects
  <2>3. CASE cloud' = cloud
    BY <2>3 DEF Objects
  <2> QED
    BY <2>1, <2>2, <2>3 DEF Next, LocalBackup, Acquire, GiveUp, Create, Walk, WalkFails,
       Retain, Retained, Close, Upload, UploadPick, UploadOpen, Tick, Crash, bucket
<1> QED
  BY <1>1, InitHolds, Inductive, PTL DEF Spec, CloudNeverEmptied

-----------------------------------------------------------------------------
(* Backups implements ArchiveStore *)

\* The instance counts as Backups does.
LEMMA SameCount == \A S : Store!Cardinality(S) = Cardinality(S)
BY DEF Store!Cardinality, Cardinality

\* LocalBackup begins an archive, retires an old one, completes the newest, or
\* does nothing a reader of the directory could see.
LEMMA BackupMapped ==
  ASSUME BInv, NEW p \in Caller, LocalBackup(p)
  PROVE  Store!Next \/ UNCHANGED Store!vars
<1> USE DEF At, Store!vars
<1>0. /\ now \in Time /\ name[p] \in Time /\ surplus[p] \subseteq Time
      /\ Store!Archives = Archives /\ Store!Objects = Objects
  BY DEF BInv, TypeOK, Archives, Objects, Store!Archives, Store!Objects
<1>1. CASE Create(p)
  <2>1. Store!Begin(now)
    BY <1>0, <1>1, NameUnused DEF Create, bucket, BInv, Store!Begin
  <2> QED
    BY <1>0, <2>1 DEF Store!Next
<1>2. CASE Retain(p)
  <2>1. PICK t \in surplus[p] : archive' = [archive EXCEPT ![t] = "none"]
    BY <1>2 DEF Retain
  <2>2. Cardinality({u \in Archives : u > t}) >= Keep
    BY <1>2 DEF Retain, BInv, SurplusOld, Newer
  <2>3. Store!Retire(t)
    BY <1>0, <1>2, <2>1, <2>2, SameCount DEF Retain, bucket, Store!Retire
  <2> QED
    BY <1>0, <2>3 DEF Store!Next
<1>3. CASE Close(p)
  <2>1. archive[name[p]] = "partial" /\ \A t \in Archives : t <= name[p]
    BY <1>3 DEF Close, BInv, WritesNewest, Section
  <2>2. /\ cloud' = cloud
        /\ archive' = archive \/ archive' = [archive EXCEPT ![name[p]] = "whole"]
    BY <1>3 DEF Close, bucket
  <2>3. archive' = archive \/ Store!Complete(name[p])
    BY <1>0, <2>1, <2>2 DEF Store!Complete
  <2> QED
    BY <1>0, <2>2, <2>3 DEF Store!Next
<1>4. CASE ~(Create(p) \/ Retain(p) \/ Close(p))
  BY <1>4 DEF LocalBackup, Acquire, GiveUp, Walk, WalkFails, Retained, disk, bucket
<1> QED
  BY <1>1, <1>2, <1>3, <1>4

\* What the upload and its cleanup do to the bucket.
LEMMA UploadMapped ==
  ASSUME BInv, Upload(Scheduler)
  PROVE  Store!Next \/ UNCHANGED Store!vars
<1> USE DEF At, Store!vars
<1> DEFINE S == Scheduler
<1>0. /\ now \in Nat /\ KeepDays \in Nat /\ name[S] \in Time /\ held \in Content
      /\ modified \in [Time -> Time] /\ \A t \in Time : t \in Nat
      /\ Store!Archives = Archives /\ Store!Objects = Objects /\ Objects \subseteq Time
  BY BackupsAssumption, TimeOrder
     DEF BInv, TypeOK, Archives, Objects, Store!Archives, Store!Objects
<1>1. CASE UploadPut(S)
  <2>1. /\ pc[S] = "put" /\ archive' = archive
        /\ cloud' = cloud \/ cloud' = [cloud EXCEPT ![name[S]] = held]
    BY <1>1 DEF UploadPut, bucket, disk
  <2>2. /\ held \in {"partial", "whole"}
        /\ \A u \in Objects : u <= name[S]
        /\ \E u \in Archives : name[S] <= u
        /\ cloud[name[S]] = "whole" => held = "whole"
    BY <1>0, <2>1 DEF BInv, BucketBehind, BucketWhole, Content
  <2>3. cloud' = cloud \/ Store!Upload(name[S], held)
    BY <1>0, <2>1, <2>2 DEF Store!Upload
  <2> QED
    BY <1>0, <2>1, <2>2, <2>3 DEF Store!Next
<1>2. CASE UploadClean(S)
  <2>1. PICK t \in Objects : modified[t] = now /\ \A u \in Objects : u <= t
    BY <1>2 DEF UploadClean, BInv, BucketBehind
  <2>2. PICK gone \in SUBSET (IF KeepDays = 0 THEN {} ELSE Expired) :
          cloud' = [u \in Time |-> IF u \in gone THEN "none" ELSE cloud[u]]
    BY <1>2 DEF UploadClean
  <2>3. t \notin gone
    BY <1>0, <2>1, <2>2 DEF Expired
  <2>4. gone \subseteq Objects
    BY <2>2 DEF Expired
  <2>5. \A u \in gone : t \in Objects \ gone /\ u < t
    BY <1>0, <2>1, <2>3, <2>4
  <2>6. Store!Expire(gone)
    BY <1>0, <1>2, <2>2, <2>5 DEF UploadClean, disk, Store!Expire
  <2> QED
    BY <1>0, <2>4, <2>6 DEF Store!Next
<1>3. CASE ~(UploadPut(S) \/ UploadClean(S))
  BY <1>3 DEF Upload, UploadPick, UploadOpen, disk, bucket
<1> QED
  BY <1>1, <1>2, <1>3

\* Whoever restores a backup may rely on ArchiveStore alone: for any callers, any
\* Keep and keep_days, and whatever crashes and failures came before.
THEOREM StoreImplemented == Spec => Stored
<1>1. Init => Store!Init
  BY DEF Init, Store!Init
<1>2. BInv /\ [Next]_vars => [Store!Next]_Store!vars
  <2> SUFFICES ASSUME BInv, [Next]_vars PROVE Store!Next \/ UNCHANGED Store!vars
    OBVIOUS
  <2>1. CASE UNCHANGED vars \/ Tick \/ Crash
    BY <2>1 DEF vars, Tick, Crash, disk, bucket, Store!vars
  <2> QED
    BY <2>1, BackupMapped, UploadMapped DEF Next
<1> QED
  BY <1>1, <1>2, BackupsInvariance, PTL DEF Spec, Stored, Store!Spec
=============================================================================
