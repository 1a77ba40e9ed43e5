SPECIFICATION Spec
CONSTANTS
  c1 = c1
  c2 = c2
  a1 = a1
  a2 = a2
  Clients = {c1, c2}
  Auctions = {a1}
  AuctionOf <- MCSameAuction
  Hash <- MCHash
  QueueDepth = 1
  RegisterCap = 2
  UnregisterCap = 1
  BroadcastCap = 2
  StreamCount = 2
  ShardCount = 1
  MaxEvents = 2
  MaxOutages = 0
CHECK_DEADLOCK FALSE
PROPERTY
  DropsEnd
