SPECIFICATION RecoveryFairSpec
CONSTANTS
  t1 = t1
  t2 = t2
  p1 = p1
  p2 = p2
  Trade = {t1}
  Pool = {p1}
  PoolOf <- OnePool
  Exits <- HoldOnly
  Slots = 2
  ChanCap = 1
  CancelCap = 1
  FailCap = 1
  JobId <- OneId
  HookId <- OneId
  Restored = {}
  Disabled <- NoneDisabled
  NoOrder = NoOrder
  MaxCrashes = 1
  MaxSaves = 1
  Empty = Empty
  Garbled = Garbled
INVARIANTS
  RecoveryTypeOK
  HistoryKept
  SellsAreBought
  FileHoldsOpenTrades
  SalesRecordedOnce
  BoughtAgainByRestart
PROPERTIES
  LoadedHoldSettles
CHECK_DEADLOCK FALSE
