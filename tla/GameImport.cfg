SPECIFICATION Spec
CONSTANTS
  g1 = g1
  g2 = g2
  x = x
  y = y
  Game = {g1}
  Slug = {x}
  NoSlug = NoSlug
  MaxImports = 2
  MaxCrashes = 2
  MaxFaults = 2
INVARIANTS
  TypeOK
  OneInterruptionIsResolved
PROPERTIES
  HonestImport
  CleanStart
  ServesAgain
