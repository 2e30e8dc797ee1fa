SPECIFICATION Spec
CONSTANTS
  Cap = 8
  Stations <- Both
  Hour = 3
  Lookback = 2
  RecsMax = 2
  UplinkAggs = 5
  WindowAggs = 12
  Past = 4
  MinReal = 2
  MaxGap = 1
INVARIANTS PassedHourIsWhole ForecastIsReal FreshSampleIsSeen
PROPERTIES RingIsALog
