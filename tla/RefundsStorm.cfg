SPECIFICATION Spec
CONSTANTS
  r1 = r1
  r2 = r2
  w1 = w1
  w2 = w2
  None = None
  Refunds <- MCRefunds
  Workers <- MCWorkers
  Paid = 2
  Amounts <- MCPartAndWhole
  Fundings = {"automatic", "zpay", "manual", "wallet"}
  MaxAttempts = 2
  MaxPending = 1
  MaxConfirms = 1
  MaxRetries = 1
  MaxRepeats = 1
SYMMETRY MCSymmetry
INVARIANTS
  TypeOK
  RefundedMeansReturned
  OneCurrentWorker
  ManualIsExclusive
PROPERTIES
  SucceededIsFinal
CHECK_DEADLOCK FALSE
