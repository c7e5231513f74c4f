--------------------------- MODULE MCDeletionStage ---------------------------
(* Instances of DeletionStage for TLC: two games, two slugs, and a cover   *)
(* and a bundle, both in the namespace of slug x.                          *)
EXTENDS DeletionStage

CONSTANTS g1, g2, cover, bundle, x, y, s1, s2

MCOwnerSlug == [a \in Asset |-> x]
=============================================================================
