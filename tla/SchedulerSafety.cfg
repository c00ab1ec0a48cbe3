SPECIFICATION Spec
CONSTANTS
  l1 = l1
  l2 = l2
  t1 = t1
  t2 = t2
  NoRun = NoRun
  Loops <- TwoLoops
  Triggers <- OneTrigger
  HostResults <- OnlySuccess
  DockerResults <- OnlySuccess
  Period = 2
  CollectorTimeout = 1
  StorageMayFail = TRUE
  MaxTime = 2
  MaxSteps = 0
INVARIANTS
  RunExclusion
  LoopExclusion
  CollectorConcurrency
  JoinsItsOwnRun
PROPERTIES
  ImplementsLedger
SYMMETRY LoopSymmetry
