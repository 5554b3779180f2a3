---------------------------- MODULE ArchiveStore ----------------------------
(***************************************************************************)
(* What the backups of one map promise to whoever restores one: the        *)
(* directory grows at its new end and shrinks at its old end, the bucket   *)
(* follows it and forgets nothing before it has something newer, and       *)
(* neither ever gets worse.  Who writes, when, and which lock is held is   *)
(* left to Backups.                                                        *)
(***************************************************************************)
EXTENDS Naturals, FiniteSets

CONSTANTS Time, Keep

VARIABLES
  archive,   \* the content of the archive begun at each time
  cloud      \* the content of its object in the bucket

vars == <<archive, cloud>>

Archives == {t \in Time : archive[t] # "none"}
Objects  == {t \in Time : cloud[t] # "none"}

Init ==
  /\ archive = [t \in Time |-> "none"]
  /\ cloud = [t \in Time |-> "none"]

\* A new archive is newer than everything there is.
Begin(t) ==
  /\ \A u \in Archives \cup Objects : u < t
  /\ archive' = [archive EXCEPT ![t] = "partial"]
  /\ UNCHANGED cloud

\* Only the newest archive is ever completed.
Complete(t) ==
  /\ archive[t] = "partial"
  /\ \A u \in Archives : u <= t
  /\ archive' = [archive EXCEPT ![t] = "whole"]
  /\ UNCHANGED cloud

Retire(t) ==
  /\ Cardinality({u \in Archives : u > t}) >= Keep
  /\ archive' = [archive EXCEPT ![t] = "none"]
  /\ UNCHANGED cloud

\* An upload may send what it finds of an archive that is still being written,
\* but replaces no object by less.
Upload(t, content) ==
  /\ \A u \in Objects : u <= t
  /\ \E u \in Archives : t <= u
  /\ cloud[t] = "whole" => content = "whole"
  /\ cloud' = [cloud EXCEPT ![t] = content]
  /\ UNCHANGED archive

\* The newest object stays.
Expire(gone) ==
  /\ \A t \in gone : \E u \in Objects \ gone : t < u
  /\ cloud' = [t \in Time |-> IF t \in gone THEN "none" ELSE cloud[t]]
  /\ UNCHANGED archive

Next ==
  \/ \E t \in Time : Begin(t) \/ Complete(t) \/ Retire(t)
  \/ \E t \in Time, content \in {"partial", "whole"} : Upload(t, content)
  \/ \E gone \in SUBSET Objects : Expire(gone)

Spec == Init /\ [][Next]_vars
=============================================================================
