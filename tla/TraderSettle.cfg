SPECIFICATION FairSpec
CONSTANTS
  t1 = t1
  t2 = t2
  p1 = p1
  p2 = p2
  Trade = {t1, t2}
  Pool = {p1, p2}
  PoolOf <- TwoPools
  Exits <- HoldAndEmergency
  Slots = 1
  ChanCap = 1
  CancelCap = 1
  FailCap = 1
  JobId <- OneId
  HookId <- OneId
  Restored = {t1}
  Disabled <- NoBuy
  NoOrder = NoOrder
INVARIANTS
  ArchivedOnce
  SettledRecords
  OnePosition
PROPERTIES
  Settles
  ImplementsLifecycle
CHECK_DEADLOCK FALSE
