SPECIFICATION Spec
CONSTANTS
  g1 = g1
  g2 = g2
  x = x
  y = y
  Game = {g1, g2}
  Slug = {x, y}
  NoSlug = NoSlug
  MaxImports = 2
  MaxCrashes = 1
  MaxFaults = 1
INVARIANTS
  OneInterruptionIsResolved
SYMMETRY Symmetry
