CONSTANTS
  IdleMinutes = 3
  MaxScan = 2
SPECIFICATION FairSpec
INVARIANTS TimeInv
PROPERTIES StopsOnlyIdle EmptyMapStopped
