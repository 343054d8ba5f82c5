SPECIFICATION FairSpec
CONSTANTS
  n1 = n1
  o1 = o1
  Absent = Absent
  NotReceived = NotReceived
  Pool <- NewAndOld
  Fresh <- OnlyNew
  Wanted <- NewAndOld
  Facts <- TokenFacts
  Scale = 10
  Wrong <- OneWrong
  Strategies <- SomeStrategies
  Ages <- SomeAges
  InternalCap = 1
  PoolCap = 1
  MaxAttempts = 2
  Modes <- BothModes
INVARIANTS
  TypeOK
  PassedOnce
  OnlyInitialized
  NeverBlind
  ChosenSuits
  RenouncedIsTradable
PROPERTIES
  ShutsDown
  FetchedIsDecided
CHECK_DEADLOCK FALSE
