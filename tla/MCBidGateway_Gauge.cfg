SPECIFICATION Spec
CONSTANTS
  g1 = g1
  g2 = g2
  g3 = g3
  Goroutines = {g1}
  Threshold = 1
  OpenFor = 1
  MaxFaults = 1
  MaxTime = 1
  MaxInFlight = 1
PROPERTY
  GaugeShowsState
