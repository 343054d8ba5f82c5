SPECIFICATION FairSpec
CONSTANTS
  t1 = t1
  t2 = t2
  p1 = p1
  base = base
  Pool <- OnePool
  Trade <- TwoTrades
  PoolOf <- SharedPool
  Loads <- OneLoaded
  Triggered <- TwoTrades
  Timed <- OneFresh
  Vault <- OneVault
  WatchCap = 1
  MarketCap = 1
  MaxAttempts = 2
  MaxUpdates <- Twice
INVARIANTS
  WatchTypeOK
  WatchedIsExplained
  OverlapOnly
PROPERTIES
  HeldIsWatched
  PricesComeBack
CHECK_DEADLOCK FALSE
