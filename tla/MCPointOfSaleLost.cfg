SPECIFICATION SalesSpec
CONSTANTS
  r1 = r1
  r2 = r2
  LastSale = 2
  LastShift = 1
  Replays = {r1, r2}
  MaxAttempts = 2
  None = None
SYMMETRY Symmetry
CHECK_DEADLOCK FALSE
INVARIANTS NothingIsThrownAway
