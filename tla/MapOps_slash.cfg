CONSTANTS
  m1 = m1
  m2 = m2
  m3 = m3
  h1 = h1
  h2 = h2
  Map <- ThreeMaps
  NoMap = NoMap
  Handler <- TwoHandlers
  Scanner = Scanner
  Scheduler = Scheduler
  Main = Main
  Nobody = Nobody
  Cluster <- Clusters
  ClusterID = "yokan-ark"
  MaxRunningMaps = 1
  LocalEnabled = TRUE
  RunOnStop = TRUE
  BackupEnabled <- ThreeMaps
  Command <- SlashCommands
SPECIFICATION Spec
SYMMETRY Symmetry
INVARIANTS TypeOK OneOperationPerMap StopBackupCold NoticeTruthful OvershootBounded IInv
