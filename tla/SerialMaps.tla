----------------------------- MODULE SerialMaps -----------------------------
(***************************************************************************)
(* What the per-map mutexes promise (docs/spec/01_bot_spec.md section 14): *)
(* the operations on one map follow one another.  A goroutine takes        *)
(* a map, changes its container by permitted transitions and gives the map *)
(* back; nobody else changes it meanwhile, except that a server may exit.  *)
(***************************************************************************)
EXTENDS Podman

CONSTANTS Map, Proc, Nobody, ClusterID

VARIABLES owner, container

vars == <<owner, container>>

\* A container is created for the configured cluster, removed only while
\* stopped, and started only for the configured cluster.
Permitted(before, after) ==
  \/ before = Absent /\ after = Stopped(ClusterID)
  \/ before.status = "stopped" /\ before.cluster # ClusterID /\ after = Absent
  \/ before = Stopped(ClusterID) /\ Running(after) /\ after.cluster = ClusterID
  \/ Running(before) /\ after = Stopped(before.cluster)

Init ==
  /\ container \in [Map -> Container]
  /\ owner = [m \in Map |-> Nobody]

Take(p, m) ==
  /\ owner[m] = Nobody
  /\ owner' = [owner EXCEPT ![m] = p]
  /\ UNCHANGED container

Operate(p, m) ==
  /\ owner[m] = p
  /\ \E after \in Container :
       /\ Permitted(container[m], after)
       /\ container' = [container EXCEPT ![m] = after]
  /\ owner' \in {owner, [owner EXCEPT ![m] = Nobody]}

GiveBack(p, m) ==
  /\ owner[m] = p
  /\ owner' = [owner EXCEPT ![m] = Nobody]
  /\ UNCHANGED container

ServerExits(m) ==
  /\ Running(container[m])
  /\ container' = [container EXCEPT ![m] = Stopped(container[m].cluster)]
  /\ UNCHANGED owner

\* The owners are gone with their process; the containers stay.
Restart ==
  /\ owner' = [m \in Map |-> Nobody]
  /\ UNCHANGED container

Next ==
  \/ \E p \in Proc, m \in Map : Take(p, m) \/ Operate(p, m) \/ GiveBack(p, m)
  \/ \E m \in Map : ServerExits(m)
  \/ Restart

Spec == Init /\ [][Next]_vars
=============================================================================
