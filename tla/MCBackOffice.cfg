SPECIFICATION OfficeSpec
CONSTANTS
  e1 = e1
  e2 = e2
  Employees = {e1, e2}
  Staying = {e1}
  MaxRuns = 3
  MaxPay <- MCMaxPay
  MaxOwed = 1
  Claims = {c1}
  NoRow = NoRow
  q1 = q1
  q2 = q2
  q3 = q3
  l1 = l1
  l2 = l2
  k1 = k1
  k2 = k2
  Free = Free
  Staff = {e1, e2}
  Punches = {q1, q2, q3}
  PunchOf <- MCPunchOf
  PunchAt <- MCPunchAt
  CheckIns = {q1, q2}
  Corrections = {t1}
  Leaves = {l1, l2}
  LeaveDays <- MCLeaveDays
  Quota = 1
  Clerks = {k1, k2}
  a1 = a1
  a2 = a2
  Items = {a1, a2}
  Cost <- MCCost
  Residual <- MCResidual
  Life <- MCLife
  Months = 2
  Holders = {h1}
  Handovers = {i1}
  WorkOrders = {w1}
  Callers = {n1, n2, n3}
  Autocommit = {n3}
  Resets = FALSE
  MaxPeriod = 1
  MaxNumber = 2
INVARIANTS PaidAsCalculated LiabilitiesSettle  AssetsReconcile NumbersAreSound
SYMMETRY Symmetry
CHECK_DEADLOCK FALSE
