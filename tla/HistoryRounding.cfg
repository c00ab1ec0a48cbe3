SPECIFICATION Spec
CONSTANTS
  Second = 2
  Minute = 4
  RetentionDuration = 24
  RawRangeLimit = 8
  MaxChartPoints = 2
  MaxRows = 6
  PresetDurations = {4, 8, 24}
  FloatBits = 3
  Readings = {4, 6}
  None = None
  Histories <- SteadyHistories
  Start = 24
  Horizon = 25
  MaxRuns = 6
  MaxPast = 0
INVARIANT
  SeriesAreValid
