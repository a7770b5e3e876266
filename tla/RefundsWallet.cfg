SPECIFICATION Spec
CONSTANTS
  r1 = r1
  r2 = r2
  w1 = w1
  w2 = w2
  None = None
  Refunds <- MCRefunds
  Workers <- MCWorkers
  Paid = 2
  Amounts <- MCHalves
  Fundings = {"wallet"}
  MaxAttempts = 2
  MaxPending = 1
  MaxConfirms = 0
  MaxRetries = 0
  MaxRepeats = 0
INVARIANTS
  SucceededMeansReturned
CHECK_DEADLOCK FALSE
