SPECIFICATION FairSpec
CONSTANTS
  o1 = o1
  o2 = o2
  a1 = a1
  a2 = a2
  Orders <- MCOrders
  Attempts <- MCOneAttempt
  OrderOf <- MCOneOrderOf
  Couponed <- MCOrders
  Purposes = {"standard", "referral", "recall"}
  Total = 2
  Balance = 3
  Limit = 1
  Stock = 1
  Quantity = 1
  Mapped = FALSE
  Queryable <- MCOneAttempt
  Recent <- MCOneAttempt
INVARIANTS
  CouponUsesCounted
  PendingDeliveryHasCodes
PROPERTIES
  ChargeIsAnswered
CHECK_DEADLOCK FALSE
