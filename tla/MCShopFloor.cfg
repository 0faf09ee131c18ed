SPECIFICATION FloorSpec
CONSTANTS
  o1 = o1
  o2 = o2
  Orders = {o1, o2}
  Serials = {s1, s2, s3}
  Wanted <- MCWanted
  Prepaid = {o2}
  Operators = {p1, p2}
  RequireScan = TRUE
  Free = Free
  Idle = Idle
  r1 = r1
  r2 = r2
  LastSale = 2
  LastShift = 1
  Replays = {r1, r2}
  MaxAttempts = 2
  None = None
INVARIANTS ShopFloorTypeOK SerialsAreCounted SalesAreKept SoldInSequence ClosedShiftIsComplete
PROPERTIES SerialsAreNotStolen
SYMMETRY Symmetry
CHECK_DEADLOCK FALSE
