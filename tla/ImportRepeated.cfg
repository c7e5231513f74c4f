SPECIFICATION Spec
CONSTANTS
  g1 = g1
  g2 = g2
  x = x
  y = y
  Game = {g1}
  Slug = {x}
  NoSlug = NoSlug
  MaxImports = 3
  MaxCrashes = 2
  MaxFaults = 0
INVARIANT RecoveryIsRepeatable
