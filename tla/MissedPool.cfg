SPECIFICATION Spec
CONSTANTS
  n1 = n1
  o1 = o1
  Absent = Absent
  NotReceived = NotReceived
  Pool <- NewAndOld
  Fresh <- OnlyNew
  Wanted <- NewAndOld
  Facts <- TokenFacts
  Scale = 10
  Wrong <- OneWrong
  Strategies <- SomeStrategies
  Ages <- SomeAges
  InternalCap = 1
  PoolCap = 1
  MaxAttempts = 2
  Modes <- PubSubOnly
INVARIANTS
  SkippedIsOld
CHECK_DEADLOCK FALSE
