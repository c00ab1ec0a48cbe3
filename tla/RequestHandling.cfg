SPECIFICATION ApiFairSpec
CONSTANTS
  tail = tail
  other = other
  public = public
  r1 = r1
  None = None
  Addresses <- AllAddresses
  Suitable <- TailscaleAddresses
  Interfaces <- Found
  Requests <- OneRequest
  Outcomes <- SomeOutcomes
  MaxRuns = 1
  MaxTurns = 1
INVARIANTS
  NothingHeld
  RequestsDrained
  FailureReported
  SnapshotsAreValid
  ReadinessIsCurrent
  ShownEvidence
  LogTellsTheAnswer
PROPERTIES
  ReleaseOrder
  RunEnds
