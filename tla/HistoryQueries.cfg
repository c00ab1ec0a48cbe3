SPECIFICATION Spec
CONSTANTS
  Second = 2
  Minute = 4
  RetentionDuration = 12
  RawRangeLimit = 8
  MaxChartPoints = 2
  MaxRows = 3
  PresetDurations = {4, 8, 12}
  FloatBits = 3
  Readings = {6}
  None = None
  Histories <- AnyHistory
  Start = 16
  Horizon = 18
  MaxRuns = 4
  MaxPast = 1
INVARIANTS
  ChartFits
PROPERTIES
  EveryRowCounted
  GapsAreHonest
  OnlyRoundingRejects
