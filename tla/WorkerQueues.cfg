SPECIFICATION QueuesSpec
CONSTANTS
  Jobs = {j1}
  Workers = {w1, w2, w3}
  MaxAttempts = 2
  MaxCrashes = 2
  MaxReplays = 1
  Notes = {n1, n2}
  InApp = {n2}
  Senders = {s1, s2}
  Operators = {u1, u2}
  MaxSends = 2
  MaxTroubles = 1
  MaxAgain = 2
  NoTask = NoTask
  Sweepers = {w1, w2}
  Day = 2
  Horizon = 4
  MaxUpsets = 1
INVARIANTS JobsAreTruthful SentOnce OccurrencesAreCovered
PROPERTIES QueuesSettle
CHECK_DEADLOCK FALSE
