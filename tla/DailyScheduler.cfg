SPECIFICATION FairSpec
CONSTANTS
  LastDay = 10
  DayLength = 5
  Shift <- ClockMovedBack
  ShiftDay = 6
  ShiftHour = 1
  Instances = {i1}
  LastUser = 2
  RunAt = 3
  Mode = "previous_workday"
  Failures = TRUE
  NoteDays = {4, 6}
  MaxStops = 2
PROPERTIES NeverResentOnceRecorded RecapsThePreviousWorkday WorkdaysAreRecapped
CHECK_DEADLOCK FALSE
