SPECIFICATION FairSpec
CONSTANTS
  fs = fs
  ct = ct
  Never = Never
  Kind <- OneOfTwoKinds
  Retention = 1
  BatchSize = 1
  MaxBatches = 2
  Databases <- FoundDatabases
  MaxTime = 2
  MaxRuns = 1
  MaxFailures = 1
  MaxRestarts = 1
INVARIANTS
  NoOrphans
  RecordedWhole
PROPERTIES
  ImplementsTables
  CompletedMeansClean
  ExpiredGoes
  WorkerStops
