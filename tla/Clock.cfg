CONSTANTS
  EpochMin = 100000
  EpochMax = 900000
  Slack = 5000
  RingMax = 2
  Second = 1000
  Residual = 3
  MaxSlept = 400000
  Jitter = 2490
  Delay = 20000
  BootLag = 300
  Start = 150000
  MaxNow = 571000
  NoRecord = NoRecord
  Errors <- MCErrors
  Garbage <- MCGarbage
  Steps <- MCLongSteps
  Naps <- MCLongNaps
  Drifts <- MCLongDrifts
SPECIFICATION Spec
INVARIANTS ClockErrorBounded FreshSyncAccepted FlashHeadIsAuthoritative OutageNeverUnderreported
CHECK_DEADLOCK FALSE
