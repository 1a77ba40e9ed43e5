SPECIFICATION Spec
CONSTANTS
  c1 = c1
  c2 = c2
  a1 = a1
  a2 = a2
  Clients = {c1}
  Auctions = {a1}
  AuctionOf <- MCOwnAuction
  Hash <- MCHash
  QueueDepth = 1
  RegisterCap = 1
  UnregisterCap = 6
  BroadcastCap = 2
  StreamCount = 2
  ShardCount = 2
  MaxEvents = 4
  MaxOutages = 2
CHECK_DEADLOCK FALSE
PROPERTIES
  EveryEventArrives
  GoneIsForgotten
INVARIANT
  NoHoles
