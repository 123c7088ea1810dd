CONSTANTS
  SecondsPerMinute = 2
  MinutesPerHour = 2
  HoursPerDay = 3
  DaysPerMonth = 2
  YearsPerCentury = 2
  Starts <- MCStarts
  MaxTicks = 1
SPECIFICATION Spec
CHECK_DEADLOCK FALSE
INVARIANT ReturnsATimeShown
