SPECIFICATION Spec
CONSTANTS
  Events = {e1}
  Endpoints = {p1}
  Workers = {w1, w2}
  MaxTries = 2
  MaxMishaps = 2
  Idle = Idle
INVARIANTS FanOutIsExact
PROPERTIES DeliveredIsFinal EventsSettle
CHECK_DEADLOCK FALSE
