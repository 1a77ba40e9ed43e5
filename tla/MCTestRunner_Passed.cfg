SPECIFICATION Spec
CONSTANTS
  p1 = p1
  p2 = p2
  k1 = k1
  k2 = k2
  Pages = {p1}
  Checks = {k1, k2}
  MaxRequests = 1
  MaxCrashes = 0
INVARIANT
  PassedIsPassed
