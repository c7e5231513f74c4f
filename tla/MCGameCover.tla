---------------------------- MODULE MCGameCover ----------------------------
(* Instances of GameCover for TLC: two games, two slugs, and two covers in *)
(* the namespace of slug x.                                                *)
EXTENDS GameCover

CONSTANTS g1, g2, x, y, p, q

MCNamespaceOf == [c \in Cover |-> x]
=============================================================================
