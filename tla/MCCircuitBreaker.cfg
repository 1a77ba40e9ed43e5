SPECIFICATION BreakerSpec
CONSTANTS
  g1 = g1
  g2 = g2
  g3 = g3
  Goroutines = {g1, g2}
  Threshold = 2
  OpenFor = 2
  MaxFaults = 6
  MaxTime = 4
INVARIANTS
  BreakerTypeOK
  OpensInTime
PROPERTIES
  NoneSneakThrough
  RefusedOnlyInWindow
  TripsOnlyOnStreak
  AllowReturns
  Recovers
