SPECIFICATION InspectionSpec
CONSTANTS
  o1 = o1
  o2 = o2
  Orders = {o1, o2}
  Serials = {s1, s2, s3}
  Wanted <- WantedDef
  Prepaid = {o2}
  Operators = {p1, p2}
  RequireScan = TRUE
  Free = Free
  Idle = Idle
INVARIANTS CancelledHoldsNoSerial
CHECK_DEADLOCK FALSE
