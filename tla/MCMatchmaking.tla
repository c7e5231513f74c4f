---------------------------- MODULE MCMatchmaking ----------------------------
(* Instances of Matchmaking for TLC: players, the pools of one game and    *)
(* handlers are interchangeable; no liveness property is checked.          *)
EXTENDS Matchmaking, TLC

CONSTANTS g, p1, p2, p3, q1, q2, r1, r2

MCGameOf == [q \in Pool |-> g]

Symmetry == Permutations(Player) \cup Permutations(Pool) \cup Permutations(Request)
=============================================================================
