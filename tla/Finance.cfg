SPECIFICATION DeskSpec
CONSTANTS
  q1 = q1
  d1 = d1
  d2 = d2
  p1 = p1
  n1 = n1
  Record = {q1, d1, d2, p1, n1}
  KindOf <- AllKinds
  AutoApproved = {d2}
  Clerk = {k1, k2}
  NoClerk = NoClerk
  NoRecord = NoRecord
  MaxAudit = 4
  MaxFaults = 1
INVARIANT TypeOK
INVARIANT ChequePaidOnce
INVARIANT AuditTellsStatus
INVARIANT TrailIsLegal
PROPERTY EventuallyReminded
CHECK_DEADLOCK FALSE
