------------------------------ MODULE BlockTree ------------------------------
(***************************************************************************)
(* The blocks that exist on the network, as the chains of the services see *)
(* them: a block is known by its hash and names its parent by prevHash     *)
(* (src/lib/block/header.js).  Branch[b] lists the chain that ends in b,   *)
(* by height, from the genesis block up.                                   *)
(*                                                                         *)
(* Every header a peer sends is a header of this tree.  The contents of a  *)
(* header other than the two hashes are not modelled.                      *)
(***************************************************************************)
EXTENDS Integers

CONSTANTS Block, NoBlock, Genesis, Parent, Depth, Branch

ASSUME TreeAssumption ==
  /\ Genesis \in Block
  /\ NoBlock \notin Block
  /\ Parent \in [Block -> Block \cup {NoBlock}]
  /\ Depth \in [Block -> Nat]
  /\ \A b \in Block : Parent[b] \in Block => Depth[b] = Depth[Parent[b]] + 1

ASSUME BranchAssumption ==
  /\ DOMAIN Branch = Block
  /\ \A b \in Block :
       /\ Branch[b] \in [0 .. Depth[b] -> Block]
       /\ Branch[b][0] = Genesis
       /\ Branch[b][Depth[b]] = b
       /\ \A d \in 0 .. Depth[b] : Depth[Branch[b][d]] = d
       /\ \A d \in 1 .. Depth[b] : Parent[Branch[b][d]] = Branch[b][d-1]
  \* A branch contains the branches of its blocks.
  /\ \A b \in Block : \A d \in 0 .. Depth[b] : \A e \in 0 .. d :
       Branch[Branch[b][d]][e] = Branch[b][e]

\* A block as the services record it: at a height they have computed.
Row == [height : Nat, hash : Block]

GenesisRow == [height |-> 0, hash |-> Genesis]

\* The header rows of a whole branch.
RowsOf(b) == {[height |-> d, hash |-> Branch[b][d]] : d \in 0 .. Depth[b]}

OnBranch(a, b) == Depth[a] <= Depth[b] /\ Branch[b][Depth[a]] = a
=============================================================================
