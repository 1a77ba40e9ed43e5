SPECIFICATION Safe
CONSTANTS
  c1 = c1
  c2 = c2
  a1 = a1
  a2 = a2
  Clients = {c1, c2}
  Auctions = {a1, a2}
  AuctionOf <- MCOwnAuction
  Hash <- MCHash
  QueueDepth = 1
  RegisterCap = 1
  UnregisterCap = 6
  BroadcastCap = 1
  StreamCount = 2
  ShardCount = 2
  MaxEvents = 2
  MaxOutages = 1
CHECK_DEADLOCK FALSE
INVARIANTS
  TypeOK
  NoHoles
