SPECIFICATION FairSpec
CONSTANTS
  r1 = r1
  r2 = r2
  w1 = w1
  w2 = w2
  None = None
  Refunds <- MCRefunds
  Workers <- MCWorkers
  Paid = 2
  Amounts <- MCAmounts
  Fundings = {"automatic", "manual"}
  MaxAttempts = 2
  MaxPending = 2
  MaxConfirms = 2
  MaxRetries = 0
  MaxRepeats = 0
INVARIANTS
  ReservedWithinPaid
  RefundingWhileInProgress
  RefundedIffReturned
PROPERTIES
  RefundingEnds
CHECK_DEADLOCK FALSE
