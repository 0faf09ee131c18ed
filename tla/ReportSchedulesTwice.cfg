SPECIFICATION ReportSchedulesSpec
CONSTANTS
  Sweepers = {w1, w2}
  Day = 2
  Horizon = 5
  MaxUpsets = 0
INVARIANT ScheduledOnce
CHECK_DEADLOCK FALSE
