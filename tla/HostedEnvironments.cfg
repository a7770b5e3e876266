SPECIFICATION MCSpec
CONSTANTS
  first = first
  renewal = renewal
  t1 = t1
  t2 = t2
  r1 = r1
  a1 = a1
  None = None
  First = first
  Renewals <- MCRenewals
  Units <- MCUnits
  Ticks <- MCTicks
  Reports <- MCReports
  Admins <- MCAdmins
  MaxRefunds = 1
  MaxUpsets = 1
CHECK_DEADLOCK FALSE
INVARIANTS
  TypeOK
  NoSecondPurchase
  ExtendedAsPaid
  RefundedIsStopped
PROPERTIES
  ClaimIsReported
  RenewalSettles
