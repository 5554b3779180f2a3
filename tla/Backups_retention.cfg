CONSTANTS
  h1 = h1
  sched = sched
  Caller <- Callers
  Scheduler = sched
  Nobody = Nobody
  Keep = 2
  KeepDays = 2
  MaxTime = 4
SPECIFICATION Spec
INVARIANTS TypeOK KeepsGenerations BInv
PROPERTIES WholeStaysWhole DeletesOnlyOld CloudNeverEmptied CloudMovesForward Stored
