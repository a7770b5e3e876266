SPECIFICATION FairSpec
CONSTANTS
  i1 = i1
  i2 = i2
  w1 = w1
  w2 = w2
  None = None
  Items <- MCItems
  Manual <- MCNone
  Redeem <- MCNone
  Admins <- MCNone
  Workers <- MCWorkers
  Quantity = 1
  MaxTries = 1
  MaxRetries = 0
  MaxVersion = 0
CHECK_DEADLOCK FALSE
INVARIANTS
  DeliveredMeansCompleted
