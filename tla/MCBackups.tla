----------------------------- MODULE MCBackups -----------------------------
(* Instances of Backups for TLC. *)
EXTENDS Backups, TLC

CONSTANTS h1, sched

\* A goroutine that stops or backs up the map beside the schedulers'.
Callers == {h1, sched}
=============================================================================
