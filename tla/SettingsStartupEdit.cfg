SPECIFICATION FairSpec
CONSTANTS
  d1 = d1
  d2 = d2
  half = half
  folder = folder
  Docs <- TwoDocs
  Defaults = defaults
  Broken <- HalfWritten
  Unreadable <- NotAFile
  Absent = absent
  Unset = unset
  PersistMayFail = FALSE
  EventsMayDrop = FALSE
PROPERTIES
  EditsTakeEffect
