SPECIFICATION Spec
CONSTANTS
  t1 = t1
  t2 = t2
  p1 = p1
  p2 = p2
  Trade = {t1, t2}
  Pool = {p1, p2}
  PoolOf <- TwoPools
  Exits <- Mixed
  Slots = 2
  ChanCap = 1
  CancelCap = 1
  FailCap = 1
  JobId <- OneId
  HookId <- OneId
  Restored = {t1}
  Disabled <- NoneDisabled
  NoOrder = NoOrder
INVARIANTS
  HoldOrderInFlight
CHECK_DEADLOCK FALSE
