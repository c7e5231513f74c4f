---------------------------- MODULE MCGameImport ----------------------------
(* Instances of GameImport for TLC.  Games and slugs are interchangeable,  *)
(* which the runs that check no liveness property exploit.                 *)
EXTENDS GameImport, TLC

CONSTANTS g1, g2, x, y

Symmetry == Permutations(Game) \cup Permutations(Slug)
=============================================================================
