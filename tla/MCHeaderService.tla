--------------------------- MODULE MCHeaderService ---------------------------
(* The header service, with its invariant, over the trees of MCTrees.      *)
EXTENDS HeaderInvariant, MCTrees
=============================================================================
