SPECIFICATION FairSpec
CONSTANTS
  d1 = d1
  d2 = d2
  half = half
  folder = folder
  Docs <- TwoDocs
  Defaults = defaults
  Broken <- HalfWritten
  Unreadable <- NotAFile
  Absent = absent
  Unset = unset
  PersistMayFail = TRUE
  EventsMayDrop = TRUE
INVARIANTS
  CopyFollowsSettings
  StatusDescribesSettings
PROPERTIES
  InvalidEditsChangeNothing
  WatchedEditsTakeEffect
