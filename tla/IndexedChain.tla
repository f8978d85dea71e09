----------------------------- MODULE IndexedChain -----------------------------
(***************************************************************************)
(* What the block service promises of the blocks it has committed, those   *)
(* at and below its stored tip: they are one branch of the block tree,     *)
(* which grows by one block at a time and is only ever cut at its end, in  *)
(* one step, whatever happens to the process.                              *)
(***************************************************************************)
EXTENDS BlockTree

VARIABLE committed  \* the last committed block, or NoBlock

Init == committed = NoBlock

First ==
  /\ committed = NoBlock
  /\ committed' = Genesis

Extend ==
  \E b \in Block :
    /\ committed \in Block
    /\ Parent[b] = committed
    /\ committed' = b

GoBack ==
  \E a \in Block :
    /\ committed \in Block
    /\ a # committed
    /\ OnBranch(a, committed)
    /\ committed' = a

Next == First \/ Extend \/ GoBack

Spec == Init /\ [][Next]_committed
=============================================================================
