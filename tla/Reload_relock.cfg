CONSTANTS
  m1 = m1
  m2 = m2
  p1 = p1
  p2 = p2
  p3 = p3
  Map <- TwoMaps
  NoMap = NoMap
  Goroutine <- TwoGoroutines
  MaxEdit = 2
SYMMETRY Symmetry
SPECIFICATION Spec
INVARIANTS OneOperationPerMap
