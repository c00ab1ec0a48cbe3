SPECIFICATION Spec
CONSTANTS
  c0 = c0
  c1 = c1
  None = None
  Cores <- MCCores
  MemInfos <- MCMemInfos
  MaxTime = 2
  MaxChanges = 1
SYMMETRY Symmetry
PROPERTIES UsageIsTrue OverallWaits EvidenceIndependent
