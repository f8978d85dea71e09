---------------------------- MODULE MCBlockService ----------------------------
(* The block service over the trees of MCTrees.                            *)
EXTENDS BlockService, MCTrees
=============================================================================
