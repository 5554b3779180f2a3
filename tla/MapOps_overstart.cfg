CONSTANTS
  m1 = m1
  m2 = m2
  m3 = m3
  h1 = h1
  h2 = h2
  Map <- TwoMaps
  NoMap = NoMap
  Handler <- TwoHandlers
  Scanner = Scanner
  Scheduler = Scheduler
  Main = Main
  Nobody = Nobody
  Cluster <- Clusters
  ClusterID = "yokan-ark"
  MaxRunningMaps = 1
  LocalEnabled = TRUE
  RunOnStop = TRUE
  BackupEnabled <- TwoMaps
  Command <- StartOnly
SPECIFICATION Spec
SYMMETRY Symmetry
INVARIANTS RunningLimit
