\* Each of the formulas below is violated: one at a time, the others as comments.
\* DayIsNeverSkipped is also with DailyTimes <- MCLateTime, where no time is moved.
CONSTANTS
  s1 = s1
  s2 = s2
  Slots <- MCOneSlot
  Intervals <- MCIntervals
  MaxInterval = 9
  DailyTimes <- MCDailyTimes
  Offsets <- MCOffsets
  Errors <- MCErrors
  MaxError = 1
  Day = 16
  Second = 2
  SleepCap = 6
  Works <- MCWorks
  MaxWork = 2
  Tails <- MCTails
  MaxTail = 1
  Outages <- MCOutages
  Start = 3
  MaxNow = 24
SPECIFICATION Spec
CHECK_DEADLOCK FALSE
INVARIANT DayIsNeverSkipped
\* INVARIANT DailyOncePerLocalDay
\* PROPERTY CadenceSurvivesDeepSleep
\* PROPERTY NewSensorIsSampled
