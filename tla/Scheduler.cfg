CONSTANTS
  s1 = s1
  s2 = s2
  Slots <- MCOneSlot
  Intervals <- MCIntervals
  MaxInterval = 9
  DailyTimes <- MCDailyTimes
  Offsets <- MCOffsets
  Errors <- MCErrors
  MaxError = 1
  Day = 16
  Second = 2
  SleepCap = 6
  Works <- MCWorks
  MaxWork = 2
  Tails <- MCTails
  MaxTail = 1
  Outages <- MCOutages
  Start = 3
  MaxNow = 21
SPECIFICATION Spec
INVARIANTS NoSensorStarves OneDailyPerDay DayIsServed
CHECK_DEADLOCK FALSE
