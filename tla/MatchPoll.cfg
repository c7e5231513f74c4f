SPECIFICATION Spec
CONSTANTS
  g = g
  p1 = p1
  p2 = p2
  p3 = p3
  q1 = q1
  q2 = q2
  r1 = r1
  r2 = r2
  Player = {p1, p2}
  Game = {g}
  Pool = {q1}
  GameOf <- MCGameOf
  NoPlayer = NoPlayer
  NoPool = NoPool
  Request = {r1, r2}
  TTL = 1
  Retention = 1
  MaxTickets = 2
  MaxTime = 1
INVARIANT MatchedNotToldExpired
