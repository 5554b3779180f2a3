CONSTANTS
  IdleMinutes = 3
  MaxScan = 2
SPECIFICATION Spec
PROPERTIES StopsNoFreshServer
