SPECIFICATION FairSpec
CONSTANTS
  a = a
  b = b
  direct = direct
  linked = linked
  None = None
  Openers <- TwoOpeners
  Names <- TwoNames
  Versions <- TwoVersions
  Target <- Embedded
  Found <- SomeFiles
INVARIANTS
  HandleIsCurrent
PROPERTIES
  FileMovesForward
  SchemaHeldStill
  OpensEnd
