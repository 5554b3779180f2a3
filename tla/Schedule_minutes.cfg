CONSTANTS
  Interval = 3
  DayLen = 4
  WeekLen = 2
  JobCount = 3
  Name <- Names
  Minute <- Minutes
  Weekdays <- Days
  MaxTask = 1
  MaxWait = 1
  MaxClock = 9
SPECIFICATION Spec
INVARIANTS SInv OnGrid NeverPutOff BackedUpInTime
PROPERTIES OncePerDay SkippedOnlyIfShadowed
