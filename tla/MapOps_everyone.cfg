CONSTANTS
  m1 = m1
  m2 = m2
  m3 = m3
  h1 = h1
  h2 = h2
  Map <- OneMap
  NoMap = NoMap
  Handler <- OneHandler
  Scanner = Scanner
  Scheduler = Scheduler
  Main = Main
  Nobody = Nobody
  Cluster <- OneCluster
  ClusterID = "yokan-ark"
  MaxRunningMaps = 1
  LocalEnabled = TRUE
  RunOnStop = TRUE
  BackupEnabled <- OneMap
  Command <- AllCommands
SPECIFICATION Spec
INVARIANTS OneScan NoCircularWait StartedIsScheduled ReportedDown
PROPERTIES Serialised
