SPECIFICATION Spec
CONSTANTS
  Callers = {c1, c2, c3}
  Autocommit = {}
  Resets = TRUE
  MaxPeriod = 1
  MaxNumber = 3
PROPERTIES ConflictMeansRace
CHECK_DEADLOCK FALSE
