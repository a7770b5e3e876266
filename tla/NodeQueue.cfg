SPECIFICATION FairSpec
CONSTANTS
  m1 = m1
  m2 = m2
  Messages <- MCMessages
  Concurrency = 2
  MaxAttempts = 2
  MaxOverruns = 2
  MaxCrashes = 1
  MaxStops = 1
INVARIANTS
  TypeOK
  DeadIsExhausted
  NeverAsleep
PROPERTIES
  LateSettleIsInert
  KeepsPromise
