\* Each of the formulas below is violated: one at a time, the others as comments.
CONSTANTS
  EpochMin = 100000
  EpochMax = 900000
  Slack = 5000
  RingMax = 2
  Second = 1000
  Residual = 3
  MaxSlept = 40000
  Jitter = 2000
  Delay = 0
  BootLag = 300
  Start = 150000
  MaxNow = 190000
  NoRecord = NoRecord
  Errors <- MCFreshErrors
  Garbage <- MCGarbage
  Steps <- MCSteps
  Naps <- MCTimerNaps
  Drifts <- MCTimerDrifts
SPECIFICATION Spec
CHECK_DEADLOCK FALSE
INVARIANT AonClockWithinItsAllowance
\* PROPERTY OutageIsPowerOff
