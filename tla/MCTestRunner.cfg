SPECIFICATION Spec
CONSTANTS
  p1 = p1
  p2 = p2
  k1 = k1
  k2 = k2
  Pages = {p1, p2}
  Checks = {k1}
  MaxRequests = 2
  MaxCrashes = 1
INVARIANTS
  TypeOK
  OneRunAtATime
  NoLeftover
  VerdictShown
PROPERTIES
  FinishedStays
  RunsEnd
  DeskReleases
