SPECIFICATION Spec
CONSTANTS
  g1 = g1
  g2 = g2
  g3 = g3
  Goroutines = {g1, g2}
  Threshold = 1
  OpenFor = 1
  MaxFaults = 2
  MaxTime = 2
  MaxInFlight = 1
INVARIANTS
  TypeOK
  TokensMatchHandlers
  RefusedNeverSent
PROPERTY
  EveryCallReturns
