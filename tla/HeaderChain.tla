----------------------------- MODULE HeaderChain -----------------------------
(***************************************************************************)
(* What the header service promises of the header table: it always holds   *)
(* one whole branch of the block tree, from the genesis block up, or       *)
(* nothing while it is being rebuilt.  It grows along a branch of the      *)
(* tree and shrinks from its end; it never changes branch in one step.     *)
(***************************************************************************)
EXTENDS BlockTree

VARIABLE index

Init == index = {}

Create ==
  /\ index = {}
  /\ index' = RowsOf(Genesis)

Extend ==
  \E a, b \in Block :
    /\ index = RowsOf(a)
    /\ OnBranch(a, b)
    /\ index' = RowsOf(b)

Cut ==
  \E a, b \in Block :
    /\ index = RowsOf(b)
    /\ OnBranch(a, b)
    /\ index' = RowsOf(a)

Clear == index' = {}

Next == Create \/ Extend \/ Cut \/ Clear

Spec == Init /\ [][Next]_index
=============================================================================
