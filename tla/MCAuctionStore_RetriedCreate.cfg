SPECIFICATION Spec
CONSTANTS
  c1 = c1
  c2 = c2
  b1 = b1
  b2 = b2
  Callers = {c1, c2}
  Words <- MCWords
  BidRequests <- MCBidRequests
  CreateRequests <- MCCreateRequests
  NoRequest = NoRequest
  NoReply = NoReply
  SigLimit = 10
  DefaultDuration = 1
  IdemTTL = 1
  MaxRetries = 1
  MaxCalls = 2
  MaxInFlight = 2
  MaxTime = 2
SYMMETRY Symmetry
CHECK_DEADLOCK FALSE
INVARIANT
  MaxBidWins
