SPECIFICATION FairSpec
CONSTANTS
  buy = buy
  hold = hold
  profit = profit
  Buy = buy
  Sells <- TwoSells
  MaxSendTxRetries = 2
  MaxRetries = 2
  Tipless <- Profit
PROPERTIES
  EveryExecutionEnds
CHECK_DEADLOCK FALSE
