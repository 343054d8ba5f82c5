SPECIFICATION RecoverySpec
CONSTANTS
  t1 = t1
  t2 = t2
  p1 = p1
  p2 = p2
  Trade = {t1, t2}
  Pool = {p1, p2}
  PoolOf <- TwoPools
  Exits <- HoldOnly
  Slots = 2
  ChanCap = 1
  CancelCap = 1
  FailCap = 1
  JobId <- OneId
  HookId <- OneId
  Restored = {t1, t2}
  Disabled <- NoneDisabled
  NoOrder = NoOrder
  MaxCrashes = 0
  MaxSaves = 0
  Empty = Empty
  Garbled = Garbled
INVARIANTS
  HistoryKept
CHECK_DEADLOCK FALSE
