SPECIFICATION Spec
CONSTANTS
  Cap = 8
  Stations <- OneForecasting
  Hour = 3
  Lookback = 2
  RecsMax = 2
  UplinkAggs = 5
  WindowAggs = 7
  Past = 4
  MinReal = 2
  MaxGap = 1
INVARIANT FreshSampleIsSeen
