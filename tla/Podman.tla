------------------------------- MODULE Podman -------------------------------
(***************************************************************************)
(* What one call of PodmanClient (bot/src/podman.go) can do to a map's     *)
(* container, and what it tells its caller.  Every operator returns the    *)
(* set of outcomes [after, ok]: the container afterwards and whether the   *)
(* Go method returned a nil error.  A call may fail before the daemon      *)
(* acted, or after (the context expired while the daemon was working); the *)
(* caller cannot tell the two apart.                                       *)
(***************************************************************************)

CONSTANTS Cluster   \* the values CLUSTER_ID takes in containers

NoCluster == ""     \* ClusterID of an InspectState that found no container

Absent  == [status |-> "absent",  cluster |-> NoCluster]
Stopped(cluster) == [status |-> "stopped", cluster |-> cluster]

Container == [status : {"stopped", "running"}, cluster : Cluster] \cup {Absent}

Running(c) == c.status = "running"
Exists(c)  == c.status # "absent"

\* No effect and an error: the socket refused, the context had expired, a 5xx.
Refused(c) == [after |-> c, ok |-> FALSE]

\* 409 Conflict (the name is taken) is reported as success.
CreateOutcomes(c, cluster) ==
  {Refused(c)} \cup
  IF Exists(c) THEN {[after |-> c, ok |-> TRUE]}
               ELSE [after : {Stopped(cluster)}, ok : BOOLEAN]

\* 304 Not Modified (already running) is success, 404 an error.
StartOutcomes(c) ==
  {Refused(c)} \cup
  IF Exists(c) THEN [after : {[c EXCEPT !.status = "running"]}, ok : BOOLEAN]
               ELSE {}

\* Unlike Start, Stop reports 304 Not Modified (already stopped) as an error.
StopOutcomes(c) ==
  {Refused(c)} \cup
  IF Running(c) THEN [after : {[c EXCEPT !.status = "stopped"]}, ok : BOOLEAN]
                ELSE {}

\* force=true removes a running container too; 404 is success.
RemoveOutcomes(c) ==
  {Refused(c)} \cup [after : {Absent}, ok : BOOLEAN]
=============================================================================
