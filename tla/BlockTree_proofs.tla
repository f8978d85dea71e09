--------------------------- MODULE BlockTree_proofs ---------------------------
(***************************************************************************)
(* Lemmas about branches of the block tree and about tables that hold the  *)
(* rows of a branch, which the proofs about the services cite.             *)
(***************************************************************************)
EXTENDS BlockTree, WellFoundedInduction, TLAPS

-----------------------------------------------------------------------------
(* Branches.                                                               *)

LEMMA DepthNat ==
  ASSUME NEW b \in Block
  PROVE  Depth[b] \in Nat
  BY TreeAssumption

LEMMA GenesisDepth == Depth[Genesis] = 0
<1>1. Depth[Genesis] \in Nat /\ 0 \in 0 .. Depth[Genesis]
  BY TreeAssumption
<1> QED
  BY <1>1, TreeAssumption, BranchAssumption

\* The blocks of a branch are at their depths.
LEMMA BranchBlock ==
  ASSUME NEW b \in Block, NEW d \in 0 .. Depth[b]
  PROVE  Branch[b][d] \in Block /\ Depth[Branch[b][d]] = d
  BY BranchAssumption

\* Each names the one below it.
LEMMA BranchParent ==
  ASSUME NEW b \in Block, NEW d \in 1 .. Depth[b]
  PROVE  Parent[Branch[b][d]] = Branch[b][d-1]
  BY BranchAssumption

\* They share the branch up to them.
LEMMA BranchPrefix ==
  ASSUME NEW b \in Block, NEW h \in 0 .. Depth[b], NEW d \in 0 .. h
  PROVE  Branch[Branch[b][h]][d] = Branch[b][d]
  BY BranchAssumption

\* A block is on the branch of each block above it on its own branch.
LEMMA OnBranchSelf ==
  ASSUME NEW b \in Block
  PROVE  OnBranch(b, b) /\ OnBranch(Genesis, b)
<1>1. Depth[b] \in Nat /\ Branch[b][Depth[b]] = b /\ Branch[b][0] = Genesis
  BY TreeAssumption, BranchAssumption
<1> QED
  BY <1>1, GenesisDepth DEF OnBranch

LEMMA OnBranchTrans ==
  ASSUME NEW a \in Block, NEW b \in Block, NEW c \in Block,
         OnBranch(a, b), OnBranch(b, c)
  PROVE  OnBranch(a, c)
<1>1. Depth[a] \in 0 .. Depth[b] /\ Depth[b] \in 0 .. Depth[c]
  BY DepthNat DEF OnBranch
<1>2. Branch[c][Depth[b]] = b /\ Branch[b][Depth[a]] = a
  BY DEF OnBranch
<1>3. Branch[Branch[c][Depth[b]]][Depth[a]] = Branch[c][Depth[a]]
  BY <1>1, BranchPrefix
<1>4. Depth[a] <= Depth[c]
  BY <1>1, DepthNat
<1> QED
  BY <1>2, <1>3, <1>4 DEF OnBranch

\* Of two blocks of a branch the lower one is on the branch of the other.
LEMMA OnBranchBetween ==
  ASSUME NEW a \in Block, NEW b \in Block, NEW c \in Block,
         OnBranch(a, c), OnBranch(b, c), Depth[a] <= Depth[b]
  PROVE  OnBranch(a, b)
<1>1. Depth[a] \in 0 .. Depth[b] /\ Depth[b] \in 0 .. Depth[c]
  BY DepthNat DEF OnBranch
<1>2. Branch[c][Depth[b]] = b /\ Branch[c][Depth[a]] = a
  BY DEF OnBranch
<1>3. Branch[Branch[c][Depth[b]]][Depth[a]] = Branch[c][Depth[a]]
  BY <1>1, BranchPrefix
<1> QED
  BY <1>1, <1>2, <1>3 DEF OnBranch

\* A branch has one block at each height.
LEMMA OnBranchSame ==
  ASSUME NEW a \in Block, NEW b \in Block, NEW c \in Block,
         OnBranch(a, c), OnBranch(b, c), Depth[a] = Depth[b]
  PROVE  a = b
  BY DEF OnBranch

\* A block is on the branch of its child.
LEMMA OnBranchParent ==
  ASSUME NEW b \in Block, Parent[b] \in Block
  PROVE  OnBranch(Parent[b], b) /\ Depth[b] = Depth[Parent[b]] + 1
<1>1. /\ Depth[b] \in Nat /\ Depth[Parent[b]] \in Nat
      /\ Depth[b] = Depth[Parent[b]] + 1
  BY TreeAssumption
<1>2. Depth[b] \in 1 .. Depth[b] /\ Branch[b][Depth[b]] = b
  BY <1>1, BranchAssumption
<1>3. Parent[b] = Branch[b][Depth[b] - 1]
  BY <1>2, BranchParent
<1>4. Depth[b] - 1 = Depth[Parent[b]]
  BY <1>1
<1> QED
  BY <1>1, <1>3, <1>4 DEF OnBranch

\* The child of a block on a branch, at the next height of that branch.
LEMMA BranchNext ==
  ASSUME NEW a \in Block, NEW b \in Block, OnBranch(a, b), Depth[a] < Depth[b]
  PROVE  /\ Branch[b][Depth[a] + 1] \in Block
         /\ Depth[Branch[b][Depth[a] + 1]] = Depth[a] + 1
         /\ Parent[Branch[b][Depth[a] + 1]] = a
         /\ OnBranch(Branch[b][Depth[a] + 1], b)
<1>1. Depth[a] \in Nat /\ Depth[b] \in Nat
  BY DepthNat
<1>2. Depth[a] + 1 \in 0 .. Depth[b] /\ Depth[a] + 1 \in 1 .. Depth[b]
  BY <1>1
<1>3. /\ Branch[b][Depth[a] + 1] \in Block
      /\ Depth[Branch[b][Depth[a] + 1]] = Depth[a] + 1
  BY <1>2, BranchBlock
<1>4. Parent[Branch[b][Depth[a] + 1]] = Branch[b][(Depth[a] + 1) - 1]
  BY <1>2, BranchParent
<1>5. (Depth[a] + 1) - 1 = Depth[a]
  BY <1>1
<1> QED
  BY <1>1, <1>2, <1>3, <1>4, <1>5 DEF OnBranch

\* Of some blocks whose depths are bounded, one is the deepest.
LEMMA Deepest ==
  ASSUME NEW s \in SUBSET Block, s # {},
         NEW n \in Nat, \A b \in s : Depth[b] <= n
  PROVE  \E b \in s : \A a \in s : Depth[a] <= Depth[b]
<1> DEFINE above == {n - Depth[b] : b \in s}
<1>1. above \subseteq Nat /\ above # {}
  BY DepthNat
<1>2. \E x \in above : \A y \in above : ~(<<y, x>> \in OpToRel(<, Nat))
  BY <1>1, NatLessThanWellFounded, WFMin
<1>3. PICK x \in above : \A y \in above : ~(<<y, x>> \in OpToRel(<, Nat))
  BY <1>2
<1>4. PICK b \in s : x = n - Depth[b]
  OBVIOUS
<1>5. ASSUME NEW a \in s
      PROVE  Depth[a] <= Depth[b]
  <2>1. n - Depth[a] \in above
    OBVIOUS
  <2>2. ~(<<n - Depth[a], x>> \in OpToRel(<, Nat))
    BY <1>3, <2>1
  <2>3. n - Depth[a] \in Nat /\ x \in Nat
    BY <1>1, <2>1
  <2>4. ~(n - Depth[a] < x)
    BY <2>2, <2>3 DEF OpToRel
  <2> QED
    BY <1>4, <2>4, DepthNat
<1> QED
  BY <1>5

-----------------------------------------------------------------------------
(* The rows of a branch.                                                   *)

\* A branch up to one of its blocks is the branch of that block.
LEMMA RowsOfCut ==
  ASSUME NEW b \in Block, NEW h \in 0 .. Depth[b]
  PROVE  {r \in RowsOf(b) : r.height <= h} = RowsOf(Branch[b][h])
<1>1. Depth[b] \in Nat
  BY TreeAssumption
<1>2. Branch[b][h] \in Block /\ Depth[Branch[b][h]] = h
  BY BranchBlock
<1>3. \A d \in 0 .. h : Branch[Branch[b][h]][d] = Branch[b][d]
  BY BranchPrefix
<1> QED
  BY <1>1, <1>2, <1>3 DEF RowsOf

\* The rows of a branch have the heights of their blocks.
LEMMA RowsOfHeights ==
  ASSUME NEW b \in Block, NEW r \in RowsOf(b)
  PROVE  /\ r \in Row
         /\ r.height \in 0 .. Depth[b]
         /\ r.hash = Branch[b][r.height]
         /\ r.height = Depth[r.hash]
<1>1. Depth[b] \in Nat
  BY TreeAssumption
<1>2. PICK d \in 0 .. Depth[b] : r = [height |-> d, hash |-> Branch[b][d]]
  BY DEF RowsOf
<1> QED
  BY <1>1, <1>2, BranchBlock DEF Row

\* The last row of a branch is that of its block.
LEMMA RowsOfEnd ==
  ASSUME NEW b \in Block
  PROVE  /\ [height |-> Depth[b], hash |-> b] \in RowsOf(b)
         /\ \A r \in RowsOf(b) : r.height = Depth[b] => r.hash = b
<1>1. Depth[b] \in Nat /\ Branch[b][Depth[b]] = b
  BY TreeAssumption, BranchAssumption
<1> QED
  BY <1>1 DEF RowsOf

LEMMA RowsOfGenesis == RowsOf(Genesis) = {GenesisRow}
<1>1. Branch[Genesis][0] = Genesis
  BY TreeAssumption, BranchAssumption
<1> QED
  BY <1>1, GenesisDepth DEF RowsOf, GenesisRow

\* The rows at and below a block of the branch are those of its branch.
LEMMA RowsOfBelow ==
  ASSUME NEW a \in Block, NEW b \in Block, OnBranch(a, b)
  PROVE  {r \in RowsOf(b) : r.height <= Depth[a]} = RowsOf(a)
<1>1. Depth[a] \in 0 .. Depth[b] /\ Branch[b][Depth[a]] = a
  BY DepthNat DEF OnBranch
<1> QED
  BY <1>1, RowsOfCut

\* There is one at each height.
LEMMA RowsOfFull ==
  ASSUME NEW b \in Block, NEW h \in 0 .. Depth[b]
  PROVE  \E r \in RowsOf(b) : r.height = h
<1>1. [height |-> h, hash |-> Branch[b][h]] \in RowsOf(b)
  BY DEF RowsOf
<1> QED
  BY <1>1

\* A branch is known by its rows.
LEMMA RowsOfOne ==
  ASSUME NEW a \in Block, NEW b \in Block, RowsOf(a) = RowsOf(b)
  PROVE  a = b
<1>1. [height |-> Depth[a], hash |-> a] \in RowsOf(b)
  BY RowsOfEnd
<1>2. [height |-> Depth[b], hash |-> b] \in RowsOf(a)
  BY RowsOfEnd
<1>3. Depth[a] <= Depth[b]
  BY <1>1, RowsOfHeights, DepthNat
<1>4. Depth[b] <= Depth[a]
  BY <1>2, RowsOfHeights, DepthNat
<1>5. Depth[a] = Depth[b]
  BY <1>3, <1>4, DepthNat
<1> QED
  BY <1>1, <1>5, RowsOfEnd

\* Nor is it ever empty.
LEMMA RowsOfSome ==
  ASSUME NEW b \in Block
  PROVE  RowsOf(b) # {}
  BY RowsOfEnd

\* A child's branch has one row more than its parent's, which is new.
LEMMA RowsOfChild ==
  ASSUME NEW b \in Block, Parent[b] \in Block
  PROVE  /\ RowsOf(b) = RowsOf(Parent[b]) \cup {[height |-> Depth[b], hash |-> b]}
         /\ \A r \in RowsOf(Parent[b]) : r.height # Depth[b] /\ r.hash # b
<1> DEFINE end == [height |-> Depth[b], hash |-> b]
<1>1. /\ OnBranch(Parent[b], b) /\ Depth[b] = Depth[Parent[b]] + 1
      /\ Depth[b] \in Nat /\ Depth[Parent[b]] \in Nat
  BY OnBranchParent, DepthNat
<1>2. RowsOf(Parent[b]) = {r \in RowsOf(b) : r.height <= Depth[Parent[b]]}
  BY <1>1, RowsOfBelow
<1>3. end \in RowsOf(b)
  BY RowsOfEnd
<1>4. ASSUME NEW r \in RowsOf(b), r \notin RowsOf(Parent[b])
      PROVE  r = end
  <2>1. r \in Row /\ r.height \in 0 .. Depth[b] /\ r.height > Depth[Parent[b]]
    BY <1>1, <1>2, <1>4, RowsOfHeights
  <2>2. r.height = Depth[b]
    BY <1>1, <2>1
  <2>3. r.hash = b
    BY <2>2, RowsOfEnd
  <2> QED
    BY <2>1, <2>2, <2>3 DEF Row
<1>5. ASSUME NEW r \in RowsOf(Parent[b])
      PROVE  r.height # Depth[b] /\ r.hash # b
  <2>1. r.height \in 0 .. Depth[Parent[b]] /\ r.height = Depth[r.hash]
    BY RowsOfHeights
  <2> QED
    BY <1>1, <2>1
<1> QED
  BY <1>2, <1>3, <1>4, <1>5
=============================================================================
