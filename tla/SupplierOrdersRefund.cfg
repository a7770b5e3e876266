SPECIFICATION Spec
CONSTANTS
  a1 = a1
  a2 = a2
  None = None
  Accounts <- MCAccounts
  MaxAttempts = 2
  Manual = FALSE
SYMMETRY MCSymmetry
CHECK_DEADLOCK FALSE
PROPERTIES
  NoPurchaseAfterRefund
