SPECIFICATION Spec
CONSTANTS
  a1 = a1
  a2 = a2
  None = None
  Accounts <- MCAccounts
  MaxAttempts = 2
  Manual = TRUE
SYMMETRY MCSymmetry
CHECK_DEADLOCK FALSE
INVARIANTS
  TypeOK
  PurchaseStaysSelected
  DeliveredFromPurchase
PROPERTIES
  LockedStays
  RefundEndsDelivery
  BuysOnce
