SPECIFICATION StormSpec
CONSTANTS
  o1 = o1
  o2 = o2
  a1 = a1
  a2 = a2
  Orders <- MCOrders
  Attempts <- MCAttempts
  OrderOf <- MCOrderOf
  Couponed = {}
  Purposes = {"standard"}
  Total = 2
  Balance = 3
  Limit = 1
  Stock = 2
  Quantity = 1
  Mapped = TRUE
  Queryable <- MCAttempts
  Recent = {}
SYMMETRY MCSymmetry
INVARIANTS
  TypeOK
  PaidInFull
  BalanceAddsUp
  HoldFollowsOrder
  AcknowledgedIsPaid
CHECK_DEADLOCK FALSE
