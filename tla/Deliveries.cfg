SPECIFICATION FairSpec
CONSTANTS
  i1 = i1
  i2 = i2
  w1 = w1
  w2 = w2
  None = None
  Items <- MCItems
  Manual <- MCManual
  Redeem <- MCRedeem
  Admins <- MCAdmins
  Workers <- MCWorkers
  Quantity = 2
  MaxTries = 2
  MaxRetries = 1
  MaxVersion = 2
CHECK_DEADLOCK FALSE
INVARIANTS
  TypeOK
  CompletedMeansDelivered
  GrantFollowsDelivery
  RedeemedOwnsCodes
PROPERTIES
  ClosedStaysClosed
  PendingIsHandled
