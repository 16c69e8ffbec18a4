SPECIFICATION Spec
CONSTANTS
  g1 = g1
  g2 = g2
  Goroutines <- MCGoroutines
  StartFunc <- MCStartFunc
  Sites <- MCSites
  minSchedWait = 2
  maxReported = 1
  MaxTime = 4
  MaxEvents = 5
SYMMETRY Symmetry
INVARIANTS BucketsTrue SummaryTrue
CHECK_DEADLOCK FALSE
