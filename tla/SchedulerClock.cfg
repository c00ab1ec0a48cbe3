SPECIFICATION FairSpec
CONSTANTS
  l1 = l1
  l2 = l2
  t1 = t1
  t2 = t2
  NoRun = NoRun
  Loops <- OneLoop
  Triggers <- NoCallers
  HostResults <- OnlyPartial
  DockerResults <- OnlyMalformed
  Period = 2
  CollectorTimeout = 1
  StorageMayFail = TRUE
  MaxTime = 3
  MaxSteps = 1
INVARIANTS
  NoRunRejected
  NeverReplayed
  FailureHasCause
PROPERTIES
  LostOnlyWithError
  LoopStops
