------------------------------ MODULE MCMapOps ------------------------------
(* Instances of MapOps for TLC. *)
EXTENDS MapOps, TLC

CONSTANTS m1, m2, m3, h1, h2

OneMap       == {m1}
TwoMaps      == {m1, m2}
ThreeMaps    == {m1, m2, m3}
OneHandler   == {h1}
TwoHandlers  == {h1, h2}

\* The container the bot creates and one left by another cluster_id.
Clusters     == {"yokan-ark", "old"}
OneCluster   == {"yokan-ark"}

SlashCommands == {"start", "stop", "restart"}
AllCommands   == {"start", "stop", "save", "backup", "status", "scan", "interval",
                  "presence", "local", "signal", "restart"}
LiveCommands  == {"start", "stop", "scan", "interval", "signal"}
ReadCommands  == {"scan", "interval"}
StartOnly     == {"start"}

\* Maps and handlers are interchangeable where every map is backed up.
Symmetry == Permutations(Map) \cup Permutations(Handler)
=============================================================================
