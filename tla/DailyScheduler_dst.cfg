SPECIFICATION Spec
CONSTANTS
  LastDay = 10
  DayLength = 5
  Shift = 1
  ShiftDay = 6
  ShiftHour = 1
  Instances = {i1}
  LastUser = 1
  RunAt = 3
  Mode = "current_day"
  Failures = FALSE
  NoteDays = {6}
  MaxStops = 0
INVARIANTS RunsAtLocalTime
CHECK_DEADLOCK FALSE
