SPECIFICATION Spec
CONSTANTS
  g1 = g1
  g2 = g2
  x = x
  y = y
  Game = {g1}
  Slug = {x}
  NoSlug = NoSlug
  MaxImports = 2
  MaxCrashes = 0
  MaxFaults = 1
PROPERTY UndoSparesLaterImports
