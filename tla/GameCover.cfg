SPECIFICATION Spec
CONSTANTS
  g1 = g1
  g2 = g2
  x = x
  y = y
  p = p
  q = q
  Game = {g1, g2}
  NoGame = NoGame
  Slug = {x, y}
  NoSlug = NoSlug
  Cover = {p, q}
  NoCover = NoCover
  NamespaceOf <- MCNamespaceOf
  MaxUploads = 2
  MaxCrashes = 2
  MaxFaults = 1
INVARIANTS
  TypeOK
  
PROPERTIES
  HonestUpload
  CleanStart
  ServesAgain
