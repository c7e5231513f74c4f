SPECIFICATION Spec
CONSTANTS
  g1 = g1
  g2 = g2
  cover = cover
  bundle = bundle
  x = x
  y = y
  s1 = s1
  s2 = s2
  Game = {g1, g2}
  Cover = {cover}
  Bundle = {bundle}
  Slug = {x, y}
  OwnerSlug <- MCOwnerSlug
  Stage = {s1, s2}
  NoGame = NoGame
  NoSlug = NoSlug
  NoStage = NoStage
  MaxCrashes = 1
  MaxFaults = 0
INVARIANT StartupNotRefused
