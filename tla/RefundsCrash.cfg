SPECIFICATION FairSpec
CONSTANTS
  r1 = r1
  r2 = r2
  w1 = w1
  w2 = w2
  None = None
  Refunds <- MCRefunds
  Workers <- MCWorkers
  Paid = 2
  Amounts <- MCHalves
  Fundings = {"automatic"}
  MaxAttempts = 2
  MaxPending = 2
  MaxConfirms = 1
  MaxRetries = 0
  MaxRepeats = 1
PROPERTIES
  RefundingEnds
CHECK_DEADLOCK FALSE
