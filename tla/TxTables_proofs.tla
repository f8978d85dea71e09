---------------------------- MODULE TxTables_proofs ----------------------------
(***************************************************************************)
(* The first part of the proof that the tables of TxIndex are the ledger   *)
(* of the committed chain: lemmas about chains, lists and the tables, and  *)
(* the steps that preserve the invariant of TxInvariant: the start, a      *)
(* stop, a reorganization, the statements of the handlers that write       *)
(* neither transactions nor outputs nor inputs, those of the mempool's     *)
(* handler, and those that it shares with the handler of the blocks.       *)
(***************************************************************************)
EXTENDS TxInvariant, BlockTree_proofs, FiniteSetTheorems

-----------------------------------------------------------------------------
(* Chains.                                                                 *)

\* The transactions of a block.
LEMMA ContentsType ==
  ASSUME NEW b \in Block
  PROVE  /\ Contents[b] \in Seq(Tx) /\ Depth[b] \in Nat /\ Depth[b] < Unconfirmed
         /\ ToSet(Contents[b]) \subseteq Tx
         /\ Len(Contents[b]) \in Nat /\ DOMAIN Contents[b] = 1 .. Len(Contents[b])
         /\ 1 \in DOMAIN Contents[b]
         /\ Generated(b) \in {1, 2} /\ 1 .. Generated(b) \subseteq DOMAIN Contents[b]
         /\ \A n \in DOMAIN Contents[b] : Contents[b][n] \in Tx
<1>1. Contents[b] \in Seq(Tx) /\ Depth[b] \in Nat /\ Depth[b] < Unconfirmed
  BY LedgerAssumption, TreeAssumption
<1>2. Len(Contents[b]) \in Nat /\ DOMAIN Contents[b] = 1 .. Len(Contents[b])
  BY <1>1
<1>3. \A n \in DOMAIN Contents[b] : Contents[b][n] \in Tx
  BY <1>1
<1>4. Len(Contents[b]) >= Generated(b)
  BY ChainAssumption
<1>5. Generated(b) \in {1, 2}
  BY DEF Generated
<1> QED
  BY <1>1, <1>2, <1>3, <1>4, <1>5 DEF ToSet

\* An element of a sequence is of the set.
LEMMA SeqElement ==
  ASSUME NEW S, NEW s \in Seq(S), NEW n \in DOMAIN s
  PROVE  s[n] \in S
  OBVIOUS

\* What a transaction spends is among its inputs.
LEMMA CoinsType ==
  ASSUME NEW t \in Tx
  PROVE  /\ \A n \in DOMAIN Inputs[t] : Inputs[t][n] \in [tx : Tx \cup {NoTx}, at : Nat]
         /\ \A n \in DOMAIN Inputs[t] : Inputs[t][n].tx # NoTx => Inputs[t][n] \in Coins(t)
         /\ \A o \in Coins(t) : \E n \in DOMAIN Inputs[t] : o = Inputs[t][n]
         /\ \A o \in Coins(t) : o \in Outpoints(t) /\ o.tx \in Tx /\ o = [tx |-> o.tx, at |-> o.at]
<1>1. Inputs[t] \in Seq([tx : Tx \cup {NoTx}, at : Nat])
  BY LedgerAssumption
<1>2. \A n \in DOMAIN Inputs[t] : Inputs[t][n] \in [tx : Tx \cup {NoTx}, at : Nat]
  BY <1>1, SeqElement
<1> QED
  BY <1>2 DEF Coins, Outpoints, ToSet

\* A transaction of a chain has a place in one of its blocks.
LEMMA ChainMember ==
  ASSUME NEW b \in Block, NEW t
  PROVE  t \in TxsUpTo(b, Depth[b]) <=>
           \E d \in 0 .. Depth[b] : \E n \in DOMAIN Contents[Branch[b][d]] :
             t = Contents[Branch[b][d]][n]
  BY DEF TxsUpTo, ToSet

\* The transactions of a chain by their place.
LEMMA ChainTxsMember ==
  ASSUME NEW b \in Block, NEW x
  PROVE  x \in ChainTxs(b) <=>
           \E d \in 0 .. Depth[b] : \E n \in DOMAIN Contents[Branch[b][d]] :
             x = [tx |-> Contents[Branch[b][d]][n], height |-> d, index |-> n - 1]
<1> DEFINE place(c, n) == [tx |-> Contents[c][n], height |-> Depth[c], index |-> n - 1]
           places(c) == {place(c, n) : n \in DOMAIN Contents[c]}
           cs == {Branch[b][d] : d \in 0 .. Depth[b]}
<1>1. ChainTxs(b) = UNION {places(c) : c \in cs}
  BY DEF ChainTxs
<1>2. x \in ChainTxs(b) <=> \E c \in cs : \E n \in DOMAIN Contents[c] : x = place(c, n)
  BY <1>1
<1>3. \A d \in 0 .. Depth[b] : Depth[Branch[b][d]] = d
  BY BranchBlock
<1> QED
  BY <1>2, <1>3

\* The heights of a chain; its transactions by place are its transactions.
LEMMA ChainTxsType ==
  ASSUME NEW b \in Block
  PROVE  /\ \A x \in ChainTxs(b) : /\ x.tx \in TxsUpTo(b, Depth[b]) /\ x.tx \in Tx
                                   /\ x.height \in 0 .. Depth[b] /\ x.index \in Nat
         /\ \A t \in TxsUpTo(b, Depth[b]) : \E x \in ChainTxs(b) : x.tx = t
         /\ TxsUpTo(b, Depth[b]) = {x.tx : x \in ChainTxs(b)}
         /\ TxsUpTo(b, Depth[b]) \subseteq Tx
<1>1. \A x \in ChainTxs(b) : /\ x.tx \in TxsUpTo(b, Depth[b]) /\ x.tx \in Tx
                             /\ x.height \in 0 .. Depth[b] /\ x.index \in Nat
  <2> TAKE x \in ChainTxs(b)
  <2>1. PICK d \in 0 .. Depth[b] : \E n \in DOMAIN Contents[Branch[b][d]] :
          x = [tx |-> Contents[Branch[b][d]][n], height |-> d, index |-> n - 1]
    BY ChainTxsMember
  <2>2. PICK n \in DOMAIN Contents[Branch[b][d]] :
          x = [tx |-> Contents[Branch[b][d]][n], height |-> d, index |-> n - 1]
    BY <2>1
  <2>3. Branch[b][d] \in Block
    BY BranchBlock
  <2>4. Contents[Branch[b][d]][n] \in Tx /\ n - 1 \in Nat
    BY <2>3, ContentsType
  <2> QED
    BY <2>2, <2>4, ChainMember
<1>2. \A t \in TxsUpTo(b, Depth[b]) : \E x \in ChainTxs(b) : x.tx = t
  <2> TAKE t \in TxsUpTo(b, Depth[b])
  <2>1. PICK d \in 0 .. Depth[b] : \E n \in DOMAIN Contents[Branch[b][d]] :
          t = Contents[Branch[b][d]][n]
    BY ChainMember
  <2>2. PICK n \in DOMAIN Contents[Branch[b][d]] : t = Contents[Branch[b][d]][n]
    BY <2>1
  <2> DEFINE x == [tx |-> Contents[Branch[b][d]][n], height |-> d, index |-> n - 1]
  <2>3. x \in ChainTxs(b) /\ x.tx = t
    BY <2>2, ChainTxsMember
  <2> QED
    BY <2>3
<1> QED
  BY <1>1, <1>2

\* No two places of a chain hold the same transaction, or spend the same output.
LEMMA ChainDistinct ==
  ASSUME NEW b \in Block, NEW d \in 0 .. Depth[b], NEW e \in 0 .. Depth[b],
         NEW m \in DOMAIN Contents[Branch[b][d]], NEW n \in DOMAIN Contents[Branch[b][e]],
         d # e \/ m # n
  PROVE  /\ Contents[Branch[b][d]][m] # Contents[Branch[b][e]][n]
         /\ Coins(Contents[Branch[b][d]][m]) \cap Coins(Contents[Branch[b][e]][n]) = {}
<1>1. \A i, j \in 0 .. Depth[b] :
        \A k \in DOMAIN Contents[Branch[b][i]], l \in DOMAIN Contents[Branch[b][j]] :
          <<i, k>> # <<j, l>> =>
            /\ Contents[Branch[b][i]][k] # Contents[Branch[b][j]][l]
            /\ Coins(Contents[Branch[b][i]][k]) \cap Coins(Contents[Branch[b][j]][l]) = {}
  BY ChainAssumption, Zenon
<1>2. <<d, m>> # <<e, n>>
  OBVIOUS
<1> QED
  BY <1>1, <1>2

\* A transaction has one place in a chain.
LEMMA ChainOnce ==
  ASSUME NEW b \in Block, NEW x \in ChainTxs(b), NEW y \in ChainTxs(b), x.tx = y.tx
  PROVE  x = y
<1>1. PICK d \in 0 .. Depth[b] : \E n \in DOMAIN Contents[Branch[b][d]] :
        x = [tx |-> Contents[Branch[b][d]][n], height |-> d, index |-> n - 1]
  BY ChainTxsMember
<1>2. PICK m \in DOMAIN Contents[Branch[b][d]] :
        x = [tx |-> Contents[Branch[b][d]][m], height |-> d, index |-> m - 1]
  BY <1>1
<1>3. PICK e \in 0 .. Depth[b] : \E n \in DOMAIN Contents[Branch[b][e]] :
        y = [tx |-> Contents[Branch[b][e]][n], height |-> e, index |-> n - 1]
  BY ChainTxsMember
<1>4. PICK n \in DOMAIN Contents[Branch[b][e]] :
        y = [tx |-> Contents[Branch[b][e]][n], height |-> e, index |-> n - 1]
  BY <1>3
<1>5. d = e /\ m = n
  BY <1>2, <1>4, ChainDistinct
<1> QED
  BY <1>2, <1>4, <1>5

\* A chain holds what its transactions spend.
LEMMA ChainClosed ==
  ASSUME NEW b \in Block, NEW s \in TxsUpTo(b, Depth[b]), NEW o \in Coins(s)
  PROVE  o.tx \in TxsUpTo(b, Depth[b]) /\ o.at \in DOMAIN Pays[o.tx]
<1>1. PICK d \in 0 .. Depth[b] : \E n \in DOMAIN Contents[Branch[b][d]] :
        s = Contents[Branch[b][d]][n]
  BY ChainMember
<1>2. PICK n \in DOMAIN Contents[Branch[b][d]] : s = Contents[Branch[b][d]][n]
  BY <1>1
<1> DEFINE c == Branch[b][d]
<1>3. c \in Block /\ Depth[c] = d
  BY BranchBlock
<1>4. o \in Outpoints(Contents[c][n]) /\ o.tx # NoTx
  BY <1>2 DEF Coins
<1>5. IF n = 1 THEN o.tx = NoTx
      ELSE /\ o.tx \in TxsUpTo(c, Depth[c] - 1) \cup {Contents[c][m] : m \in 1 .. n-1}
           /\ o.at \in DOMAIN Pays[o.tx]
  BY <1>3, <1>4, ChainAssumption
<1>6. o.at \in DOMAIN Pays[o.tx]
  BY <1>4, <1>5
<1>7. CASE o.tx \in TxsUpTo(c, Depth[c] - 1)
  <2>1. PICK e \in 0 .. d - 1 : o.tx \in ToSet(Contents[Branch[c][e]])
    BY <1>3, <1>7 DEF TxsUpTo
  <2>2. e \in 0 .. d /\ e \in 0 .. Depth[b]
    BY DepthNat
  <2>3. Branch[c][e] = Branch[b][e]
    BY <2>2, BranchPrefix
  <2> QED
    BY <1>6, <2>1, <2>2, <2>3 DEF TxsUpTo
<1>8. CASE o.tx \in {Contents[c][m] : m \in 1 .. n-1}
  <2>1. PICK m \in 1 .. n-1 : o.tx = Contents[c][m]
    BY <1>8
  <2>2. m \in DOMAIN Contents[c]
    BY <1>3, ContentsType
  <2> QED
    BY <1>6, <2>1, <2>2, ChainMember
<1> QED
  BY <1>4, <1>5, <1>7, <1>8

\* No two of its transactions spend the same output.
LEMMA ChainRivals ==
  ASSUME NEW b \in Block, NEW s \in TxsUpTo(b, Depth[b]), NEW t \in TxsUpTo(b, Depth[b]), s # t
  PROVE  Coins(s) \cap Coins(t) = {}
<1>1. PICK d \in 0 .. Depth[b] : \E n \in DOMAIN Contents[Branch[b][d]] :
        s = Contents[Branch[b][d]][n]
  BY ChainMember
<1>2. PICK m \in DOMAIN Contents[Branch[b][d]] : s = Contents[Branch[b][d]][m]
  BY <1>1
<1>3. PICK e \in 0 .. Depth[b] : \E n \in DOMAIN Contents[Branch[b][e]] :
        t = Contents[Branch[b][e]][n]
  BY ChainMember
<1>4. PICK n \in DOMAIN Contents[Branch[b][e]] : t = Contents[Branch[b][e]][n]
  BY <1>3
<1>5. d # e \/ m # n
  BY <1>2, <1>4
<1>6. Coins(Contents[Branch[b][d]][m]) \cap Coins(Contents[Branch[b][e]][n]) = {}
  BY <1>5, ChainDistinct
<1> QED
  BY <1>2, <1>4, <1>6

\* The transactions of the chain of a block further down are those up to its height.
LEMMA ChainDown ==
  ASSUME NEW a \in Block, NEW b \in Block, OnBranch(a, b)
  PROVE  /\ \A x : x \in ChainTxs(a) <=> x \in ChainTxs(b) /\ x.height <= Depth[a]
         /\ TxsUpTo(a, Depth[a]) \subseteq TxsUpTo(b, Depth[b])
<1>1. Depth[a] \in 0 .. Depth[b] /\ Branch[b][Depth[a]] = a
  BY DepthNat DEF OnBranch
<1>2. \A d \in 0 .. Depth[a] : Branch[a][d] = Branch[b][d] /\ d \in 0 .. Depth[b]
  <2> TAKE d \in 0 .. Depth[a]
  <2>1. Branch[Branch[b][Depth[a]]][d] = Branch[b][d]
    BY <1>1, BranchPrefix
  <2> QED
    BY <1>1, <2>1, DepthNat
<1>3. \A x : x \in ChainTxs(a) => x \in ChainTxs(b) /\ x.height <= Depth[a]
  <2> TAKE x
  <2> HAVE x \in ChainTxs(a)
  <2>1. PICK d \in 0 .. Depth[a] : \E n \in DOMAIN Contents[Branch[a][d]] :
          x = [tx |-> Contents[Branch[a][d]][n], height |-> d, index |-> n - 1]
    BY ChainTxsMember
  <2>2. d \in 0 .. Depth[b] /\ Branch[a][d] = Branch[b][d]
    BY <1>2
  <2>3. \E n \in DOMAIN Contents[Branch[b][d]] :
          x = [tx |-> Contents[Branch[b][d]][n], height |-> d, index |-> n - 1]
    BY <2>1, <2>2
  <2>4. x \in ChainTxs(b)
    BY <2>2, <2>3, ChainTxsMember
  <2> QED
    BY <2>1, <2>4
<1>4. \A x : x \in ChainTxs(b) /\ x.height <= Depth[a] => x \in ChainTxs(a)
  <2> TAKE x
  <2> HAVE x \in ChainTxs(b) /\ x.height <= Depth[a]
  <2>1. PICK d \in 0 .. Depth[b] : \E n \in DOMAIN Contents[Branch[b][d]] :
          x = [tx |-> Contents[Branch[b][d]][n], height |-> d, index |-> n - 1]
    BY ChainTxsMember
  <2>2. d \in 0 .. Depth[a]
    BY <1>1, <2>1
  <2>3. Branch[a][d] = Branch[b][d]
    BY <1>2, <2>2
  <2> QED
    BY <2>1, <2>2, <2>3, ChainTxsMember
<1>5. TxsUpTo(a, Depth[a]) \subseteq TxsUpTo(b, Depth[b])
  BY <1>2 DEF TxsUpTo
<1> QED
  BY <1>3, <1>4, <1>5

\* The transactions of a chain are those of the chain of a block further down and
\* of the blocks above it.
LEMMA ChainAbove ==
  ASSUME NEW a \in Block, NEW b \in Block, OnBranch(a, b), NEW t \in TxsUpTo(b, Depth[b])
  PROVE  \/ t \in TxsUpTo(a, Depth[a])
         \/ \E d \in Depth[a] + 1 .. Depth[b] : t \in ToSet(Contents[Branch[b][d]])
<1>1. Depth[a] \in 0 .. Depth[b] /\ Branch[b][Depth[a]] = a
  BY DepthNat DEF OnBranch
<1>2. PICK d \in 0 .. Depth[b] : t \in ToSet(Contents[Branch[b][d]])
  BY DEF TxsUpTo
<1>3. CASE d <= Depth[a]
  <2>1. d \in 0 .. Depth[a]
    BY <1>1, <1>3
  <2>2. Branch[a][d] = Branch[b][d]
    BY <1>1, <2>1, BranchPrefix
  <2> QED
    BY <1>2, <2>1, <2>2 DEF TxsUpTo
<1>4. CASE d > Depth[a]
  BY <1>1, <1>2, <1>4
<1> QED
  BY <1>1, <1>3, <1>4

\* A block adds its transactions, which are new, to the chain of its parent.
LEMMA ChainUp ==
  ASSUME NEW b \in Block, Parent[b] \in Block
  PROVE  LET p == Parent[b] IN
         /\ Depth[b] = Depth[p] + 1 /\ OnBranch(p, b)
         /\ ChainTxs(b) = ChainTxs(p) \cup
              {[tx |-> Contents[b][n], height |-> Depth[b], index |-> n - 1] : n \in DOMAIN Contents[b]}
         /\ TxsUpTo(b, Depth[b]) = TxsUpTo(p, Depth[p]) \cup ToSet(Contents[b])
         /\ TxsUpTo(p, Depth[p]) \cap ToSet(Contents[b]) = {}
         /\ \A m, n \in DOMAIN Contents[b] : Contents[b][m] = Contents[b][n] => m = n
<1> DEFINE p == Parent[b]
           place(n) == [tx |-> Contents[b][n], height |-> Depth[b], index |-> n - 1]
           top == {place(n) : n \in DOMAIN Contents[b]}
<1>1. Depth[b] = Depth[p] + 1 /\ OnBranch(p, b) /\ Depth[p] \in Nat /\ Depth[b] \in Nat
  BY OnBranchParent, DepthNat
<1>2. Branch[b][Depth[b]] = b /\ Depth[b] \in 0 .. Depth[b]
  BY <1>1, BranchAssumption
<1>3. top \subseteq ChainTxs(b)
  BY <1>2, ChainTxsMember
<1>4. \A x \in ChainTxs(b) : x \in top \/ x \in ChainTxs(p)
  <2> TAKE x \in ChainTxs(b)
  <2>1. PICK d \in 0 .. Depth[b] : \E n \in DOMAIN Contents[Branch[b][d]] :
          x = [tx |-> Contents[Branch[b][d]][n], height |-> d, index |-> n - 1]
    BY ChainTxsMember
  <2>2. CASE d = Depth[b]
    BY <1>2, <2>1, <2>2
  <2>3. CASE d # Depth[b]
    <3>1. x.height <= Depth[p]
      BY <1>1, <2>1, <2>3
    <3> QED
      BY <1>1, <3>1, ChainDown
  <2> QED
    BY <2>2, <2>3
<1>5. ChainTxs(p) \subseteq ChainTxs(b)
  BY <1>1, ChainDown
<1>6. ChainTxs(b) = ChainTxs(p) \cup top
  BY <1>3, <1>4, <1>5
<1>7. ToSet(Contents[b]) = {x.tx : x \in top}
  <2>1. \A n \in DOMAIN Contents[b] : place(n) \in top /\ place(n).tx = Contents[b][n]
    OBVIOUS
  <2>2. \A x \in top : \E n \in DOMAIN Contents[b] : x.tx = Contents[b][n]
    OBVIOUS
  <2> HIDE DEF top, place
  <2> QED
    BY <2>1, <2>2 DEF ToSet
<1>8. TxsUpTo(b, Depth[b]) = TxsUpTo(p, Depth[p]) \cup ToSet(Contents[b])
  <2>1. TxsUpTo(b, Depth[b]) = {x.tx : x \in ChainTxs(b)} /\ TxsUpTo(p, Depth[p]) = {x.tx : x \in ChainTxs(p)}
    BY ChainTxsType
  <2> HIDE DEF top
  <2> QED
    BY <1>6, <1>7, <2>1
<1>9. TxsUpTo(p, Depth[p]) \cap ToSet(Contents[b]) = {}
  <2> SUFFICES ASSUME NEW t \in TxsUpTo(p, Depth[p]), t \in ToSet(Contents[b]) PROVE FALSE
    OBVIOUS
  <2>1. PICK x \in ChainTxs(p) : x.tx = t
    BY ChainTxsType
  <2>2. PICK y \in top : y.tx = t
    BY <1>7
  <2>3. x = y
    BY <1>3, <1>5, <2>1, <2>2, ChainOnce
  <2>4. x.height \in 0 .. Depth[p] /\ y.height = Depth[b]
    BY <2>2, ChainTxsType
  <2> QED
    BY <1>1, <2>3, <2>4
<1>10. \A m, n \in DOMAIN Contents[b] : Contents[b][m] = Contents[b][n] => m = n
  <2> TAKE m, n \in DOMAIN Contents[b]
  <2>1. place(m) \in ChainTxs(b) /\ place(n) \in ChainTxs(b)
    BY <1>3
  <2>2. m - 1 = n - 1 => m = n
    BY ContentsType
  <2> QED
    BY <2>1, <2>2, ChainOnce
<1> QED
  BY <1>1, <1>6, <1>8, <1>9, <1>10

\* What a block generates comes first in it.
LEMMA GeneratedPlace ==
  ASSUME NEW b \in Block, NEW n \in DOMAIN Contents[b]
  PROVE  /\ Contents[b][n] \in AllGenerated <=> n \in 1 .. Generated(b)
         /\ Contents[b][n] \in AllGenerated => Contents[b][n] \in GeneratedBy(b)
         /\ n = 1 => Coins(Contents[b][n]) = {}
<1>1. n > Generated(b) => Contents[b][n] \notin AllGenerated
  BY ChainAssumption DEF AllGenerated
<1>2. n \in 1 .. Generated(b) => Contents[b][n] \in GeneratedBy(b)
  BY DEF GeneratedBy
<1>3. n \in 1 .. Generated(b) \/ n > Generated(b)
  BY ContentsType
<1>4. n = 1 => Coins(Contents[b][n]) = {}
  BY ChainAssumption DEF Coins
<1>5. Contents[b][n] \in GeneratedBy(b) => Contents[b][n] \in AllGenerated
  BY DEF AllGenerated
<1> QED
  BY <1>1, <1>2, <1>3, <1>4, <1>5

-----------------------------------------------------------------------------
(* Lists by number.                                                        *)

\* The rank of a number in a finite set of numbers.
LEMMA RankLemma ==
  ASSUME NEW S \in SUBSET Nat, IsFiniteSet(S)
  PROVE  LET rank(x) == Cardinality({y \in S : y <= x}) IN
         /\ Cardinality(S) \in Nat
         /\ \A x \in S : rank(x) \in 1 .. Cardinality(S)
         /\ \A x, y \in S : rank(x) = rank(y) => x = y
         /\ \A n \in 1 .. Cardinality(S) : \E x \in S : rank(x) = n
<1> DEFINE upTo(x) == {y \in S : y <= x}
           rank(x) == Cardinality(upTo(x))
           N == Cardinality(S)
<1>1. N \in Nat
  BY FS_CardinalityType
<1>2. \A x \in S : IsFiniteSet(upTo(x)) /\ rank(x) \in 1 .. N
  <2> TAKE x \in S
  <2>1. upTo(x) \in SUBSET S /\ x \in upTo(x)
    OBVIOUS
  <2>2. IsFiniteSet(upTo(x)) /\ rank(x) <= N
    BY <2>1, FS_Subset
  <2>3. rank(x) \in Nat /\ rank(x) # 0
    BY <2>1, <2>2, FS_CardinalityType, FS_EmptySet
  <2> HIDE DEF upTo
  <2> QED
    BY <1>1, <2>2, <2>3
<1>3. \A x, y \in S : rank(x) = rank(y) => x = y
  <2>1. ASSUME NEW x \in S, NEW y \in S, rank(x) = rank(y), x < y PROVE FALSE
    <3>4. \A z \in S : z \in Nat
      OBVIOUS
    <3>5. \A z \in S : z <= x => z <= y
      BY <2>1, <3>4
    <3>6. ~(y <= x) /\ y <= y
      BY <2>1, <3>4
    <3>1. upTo(x) \in SUBSET upTo(y) /\ y \in upTo(y) /\ y \notin upTo(x)
      BY <2>1, <3>5, <3>6
    <3>2. IsFiniteSet(upTo(y))
      BY <1>2
    <3> HIDE DEF upTo
    <3>3. upTo(y) = upTo(x)
      BY <2>1, <3>1, <3>2, FS_Subset
    <3> QED
      BY <3>1, <3>3
  <2> HIDE DEF rank
  <2>2. \A x, y \in S : x < y \/ y < x \/ x = y
    OBVIOUS
  <2> QED
    BY <2>1, <2>2
<1>4. \A n \in 1 .. N : \E x \in S : rank(x) = n
  <2> DEFINE f == [x \in S |-> rank(x)]
  <2>1. f \in Injection(S, 1 .. N)
    <3> HIDE DEF rank
    <3> QED
      BY <1>2, <1>3 DEF Injection, IsInjective
  <2>2. IsFiniteSet(1 .. N) /\ Cardinality(1 .. N) = N
    BY <1>1, FS_Interval
  <2> HIDE DEF rank
  <2>3. f \in Surjection(S, 1 .. N)
    <3> HIDE DEF f, N
    <3>1. Cardinality(S) = Cardinality(1 .. N)
      BY <2>2 DEF N
    <3> QED
      BY <2>1, <2>2, <3>1, FS_Injection
  <2> QED
    BY <2>3 DEF Surjection
<1> QED
  BY <1>1, <1>2, <1>3, <1>4

\* Ordered lists each member once.
LEMMA OrderedLemma ==
  ASSUME NEW S \in SUBSET Nat, IsFiniteSet(S)
  PROVE  /\ Cardinality(S) \in Nat
         /\ DOMAIN Ordered(S) = 1 .. Cardinality(S)
         /\ \A n \in 1 .. Cardinality(S) :
              /\ Ordered(S)[n] \in S
              /\ Cardinality({y \in S : y <= Ordered(S)[n]}) = n
         /\ \A x \in S : \E n \in 1 .. Cardinality(S) : Ordered(S)[n] = x
<1> DEFINE rank(x) == Cardinality({y \in S : y <= x})
<1>1. /\ Cardinality(S) \in Nat
      /\ \A x \in S : rank(x) \in 1 .. Cardinality(S)
      /\ \A x, y \in S : rank(x) = rank(y) => x = y
      /\ \A n \in 1 .. Cardinality(S) : \E x \in S : rank(x) = n
  BY RankLemma
<1>2. Ordered(S) = [n \in 1 .. Cardinality(S) |-> CHOOSE x \in S : rank(x) = n]
  BY DEF Ordered
<1> HIDE DEF rank
<1>3. \A n \in 1 .. Cardinality(S) : Ordered(S)[n] \in S /\ rank(Ordered(S)[n]) = n
  BY <1>1, <1>2
<1>4. \A x \in S : Ordered(S)[rank(x)] = x
  BY <1>1, <1>3
<1>5. DOMAIN Ordered(S) = 1 .. Cardinality(S)
  BY <1>2
<1>6. \A n \in 1 .. Cardinality(S) : Cardinality({y \in S : y <= Ordered(S)[n]}) = n
  BY <1>3 DEF rank
<1> QED
  BY <1>1, <1>3, <1>4, <1>5, <1>6

\* An interval is listed from its first number on.
LEMMA OrderedInterval ==
  ASSUME NEW k \in Nat, NEW m \in Nat
  PROVE  /\ DOMAIN Ordered(k+1 .. k+m) = 1 .. m
         /\ \A n \in 1 .. m : Ordered(k+1 .. k+m)[n] = k + n
<1> DEFINE S == k+1 .. k+m
<1>1. S \in SUBSET Nat /\ IsFiniteSet(S) /\ Cardinality(S) = m
  BY FS_Interval
<1>2. \A x \in S : Cardinality({y \in S : y <= x}) = x - k
  <2> TAKE x \in S
  <2>1. {y \in S : y <= x} = k+1 .. x
    OBVIOUS
  <2>2. Cardinality(k+1 .. x) = x - k
    BY FS_Interval
  <2> QED
    BY <2>1, <2>2
<1> DEFINE rank(x) == Cardinality({y \in S : y <= x})
<1> HIDE DEF S
<1>3. /\ DOMAIN Ordered(S) = 1 .. m
      /\ \A n \in 1 .. m : Ordered(S)[n] \in S /\ rank(Ordered(S)[n]) = n
  BY <1>1, OrderedLemma
<1>4. \A x \in S : rank(x) = x - k
  BY <1>2
<1>5. S \subseteq Nat
  BY <1>1
<1> HIDE DEF rank
<1>6. \A n \in 1 .. m : Ordered(S)[n] = k + n
  <2> TAKE n \in 1 .. m
  <2> DEFINE x == Ordered(S)[n]
  <2>1. x \in Nat /\ rank(x) = n /\ rank(x) = x - k
    BY <1>3, <1>4, <1>5
  <2> HIDE DEF x
  <2>2. x = k + n
    BY <2>1
  <2> QED
    BY <2>2 DEF x
<1> QED
  BY <1>3, <1>6 DEF S

\* What is picked from a sequence.
LEMMA PickedLemma ==
  ASSUME NEW X, NEW s \in Seq(X), NEW places \in SUBSET DOMAIN s
  PROVE  /\ Picked(s, places) \in Seq(X)
         /\ Len(Picked(s, places)) \in Nat
         /\ DOMAIN Picked(s, places) = 1 .. Len(Picked(s, places))
         /\ \A n \in DOMAIN Picked(s, places) : \E m \in places : Picked(s, places)[n] = s[m]
         /\ \A m \in places : \E n \in DOMAIN Picked(s, places) : Picked(s, places)[n] = s[m]
         /\ ToSet(Picked(s, places)) = {s[m] : m \in places}
         /\ (\A m, n \in places : s[m] = s[n] => m = n) =>
              \A m, n \in DOMAIN Picked(s, places) :
                Picked(s, places)[m] = Picked(s, places)[n] => m = n
<1>1. Len(s) \in Nat /\ DOMAIN s = 1 .. Len(s)
  OBVIOUS
<1>2. IsFiniteSet(places) /\ places \in SUBSET Nat
  <2>1. IsFiniteSet(1 .. Len(s)) /\ places \in SUBSET (1 .. Len(s))
    BY <1>1, FS_Interval
  <2> QED
    BY <2>1, FS_Subset
<1> DEFINE N == Cardinality(places)
           p == Picked(s, places)
           rank(x) == Cardinality({y \in places : y <= x})
<1>3. /\ N \in Nat
      /\ \A n \in 1 .. N : Ordered(places)[n] \in places /\ rank(Ordered(places)[n]) = n
      /\ \A x \in places : \E n \in 1 .. N : Ordered(places)[n] = x
  BY <1>2, OrderedLemma
<1>4. p = [n \in 1 .. N |-> s[Ordered(places)[n]]]
  BY DEF Picked
<1>5. \A m \in places : s[m] \in X
  BY SeqElement
<1> HIDE DEF N, p, rank
<1>11. \A n \in 1 .. N : s[Ordered(places)[n]] \in X
  BY <1>3, <1>5
<1>6. p \in Seq(X) /\ Len(p) = N /\ DOMAIN p = 1 .. N
  BY <1>3, <1>4, <1>11
<1>7. \A n \in DOMAIN p : \E m \in places : p[n] = s[m]
  BY <1>3, <1>4, <1>6
<1>8. \A m \in places : \E n \in DOMAIN p : p[n] = s[m]
  BY <1>3, <1>4, <1>6
<1>9. ToSet(p) = {s[m] : m \in places}
  BY <1>7, <1>8 DEF ToSet
<1>10. (\A m, n \in places : s[m] = s[n] => m = n) => \A m, n \in DOMAIN p : p[m] = p[n] => m = n
  <2> SUFFICES ASSUME \A m, n \in places : s[m] = s[n] => m = n,
                      NEW m \in DOMAIN p, NEW n \in DOMAIN p, p[m] = p[n]
               PROVE  m = n
    OBVIOUS
  <2>1. Ordered(places)[m] \in places /\ Ordered(places)[n] \in places
    BY <1>3, <1>6
  <2>2. s[Ordered(places)[m]] = s[Ordered(places)[n]]
    BY <1>4, <1>6
  <2>3. Ordered(places)[m] = Ordered(places)[n]
    BY <2>1, <2>2
  <2> QED
    BY <1>3, <1>6, <2>3
<1> QED
  BY <1>3, <1>6, <1>7, <1>8, <1>9, <1>10 DEF p

\* All the places pick the whole sequence.
LEMMA PickedAll ==
  ASSUME NEW X, NEW s \in Seq(X)
  PROVE  Picked(s, DOMAIN s) = s
<1> DEFINE N == Len(s)
<1>1. N \in Nat /\ DOMAIN s = 1 .. N /\ s = [n \in 1 .. N |-> s[n]]
  OBVIOUS
<1>2. Cardinality(1 .. N) = N
  BY <1>1, FS_Interval
<1>3. \A n \in 1 .. N : Ordered(0+1 .. 0+N)[n] = 0 + n
  BY <1>1, OrderedInterval
<1>4. 0+1 .. 0+N = 1 .. N
  BY <1>1
<1>5. \A n \in 1 .. N : Ordered(1 .. N)[n] = n
  BY <1>3, <1>4
<1>6. Picked(s, 1 .. N) = [n \in 1 .. N |-> s[Ordered(1 .. N)[n]]]
  BY <1>2 DEF Picked
<1> HIDE DEF N
<1> QED
  BY <1>1, <1>5, <1>6

-----------------------------------------------------------------------------
(* What the invariant of the tables says.                                  *)

\* The height of a row is a number.
LEMMA Heights ==
  ASSUME ShapeInv, storedTip \in Block
  PROVE  /\ H \in Nat /\ H < Unconfirmed /\ Unconfirmed \in Nat /\ Null \notin Nat
         /\ \A x \in db.tx \cup db.outs \cup db.ins : x.height \in Nat
         /\ \A r \in db.tx : r.id \in Nat /\ r.id # 0 /\ r.tx \in Tx
<1>1. H \in Nat /\ H < Unconfirmed /\ Unconfirmed \in Nat /\ Null \notin Nat
  BY ContentsType, LedgerAssumption DEF H
<1>2. \A r \in db.tx : r.id \in 1 .. db.next /\ r.tx \in Tx /\ db.next \in Nat
  BY DEF ShapeInv
<1>3. \A x \in db.tx \cup db.outs \cup db.ins : x.height \in 0 .. Unconfirmed
  BY DEF ShapeInv
<1> QED
  BY <1>1, <1>2, <1>3

\* The committed rows are those of the chain's transactions.
LEMMA CommittedRows ==
  ASSUME ShapeInv, KeyInv, ChainInv, storedTip \in Block, NEW r \in db.tx
  PROVE  /\ Committed(r) <=> r.tx \in ChainTx
         /\ Committed(r) => /\ [tx |-> r.tx, height |-> r.height, index |-> r.index] \in ChainTxs(storedTip)
                            /\ Complete(r)
<1> DEFINE place(q) == [tx |-> q.tx, height |-> q.height, index |-> q.index]
<1>1. {place(q) : q \in {p \in db.tx : Committed(p)}} = ChainTxs(storedTip)
  BY DEF ChainInv
<1>2. ASSUME Committed(r) PROVE place(r) \in ChainTxs(storedTip)
  BY <1>1, <1>2
<1>3. ASSUME place(r) \in ChainTxs(storedTip) PROVE r.tx \in ChainTx
  BY <1>3, ChainTxsType DEF ChainTx, H
<1>4. ASSUME r.tx \in ChainTx PROVE Committed(r)
  <2>1. PICK x \in ChainTxs(storedTip) : x.tx = r.tx
    BY <1>4, ChainTxsType DEF ChainTx, H
  <2>2. PICK q \in db.tx : Committed(q) /\ x = place(q)
    BY <1>1, <2>1
  <2>3. q.tx = r.tx
    BY <2>1, <2>2
  <2>4. q = r
    BY <2>3 DEF KeyInv
  <2> QED
    BY <2>2, <2>4
<1>5. Committed(r) => Complete(r)
  BY DEF ChainInv
<1> QED
  BY <1>2, <1>3, <1>4, <1>5

\* A transaction of the chain has its committed row.
LEMMA ChainRow ==
  ASSUME ChainInv, storedTip \in Block, NEW t \in ChainTx
  PROVE  \E r \in db.tx : r.tx = t /\ Committed(r)
<1> DEFINE place(q) == [tx |-> q.tx, height |-> q.height, index |-> q.index]
<1>1. {place(q) : q \in {p \in db.tx : Committed(p)}} = ChainTxs(storedTip)
  BY DEF ChainInv
<1>2. PICK x \in ChainTxs(storedTip) : x.tx = t
  BY ChainTxsType DEF ChainTx, H
<1>3. PICK q \in db.tx : Committed(q) /\ x = place(q)
  BY <1>1, <1>2
<1> QED
  BY <1>2, <1>3

\* What a committed transaction spends is committed.
LEMMA CommittedSources ==
  ASSUME ShapeInv, KeyInv, ChainInv, storedTip \in Block,
         NEW r \in db.tx, Committed(r), NEW o \in Coins(r.tx)
  PROVE  /\ o.tx \in ChainTx
         /\ \A s \in db.tx : s.tx = o.tx => Committed(s)
<1>1. r.tx \in ChainTx
  BY CommittedRows
<1>2. o.tx \in ChainTx
  BY <1>1, ChainClosed DEF ChainTx, H
<1> QED
  BY <1>2, CommittedRows

\* The rows of an output and of the input that it is linked to.
LEMMA LinkRows ==
  ASSUME ShapeInv, OwnInv, LinkInv, storedTip \in Block, NEW i \in db.ins, NEW o \in db.outs, Spends(i, o)
  PROVE  \E r, s \in db.tx :
           /\ With(i, r) /\ i.at \in DOMAIN Inputs[r.tx]
           /\ With(o, s) /\ o.at \in DOMAIN Pays[s.tx]
           /\ Inputs[r.tx][i.at] = [tx |-> s.tx, at |-> o.at]
           /\ [tx |-> s.tx, at |-> o.at] \in Coins(r.tx)
<1>1. PICK r \in db.tx : With(i, r) /\ i.at \in DOMAIN Inputs[r.tx]
  BY DEF OwnInv
<1>2. PICK s \in db.tx : With(o, s) /\ o.at \in DOMAIN Pays[s.tx]
  BY DEF OwnInv
<1>3. Inputs[r.tx][i.at].tx = s.tx /\ Inputs[r.tx][i.at].at = i.fromAt
  BY <1>1, <1>2 DEF LinkInv, Spends, With
<1>4. r.tx \in Tx /\ s.tx \in Tx
  BY DEF ShapeInv
<1>5. Inputs[r.tx][i.at] \in Coins(r.tx)
  BY <1>1, <1>3, <1>4, CoinsType, LedgerAssumption
<1>6. Inputs[r.tx][i.at] = [tx |-> s.tx, at |-> o.at]
  BY <1>3, <1>4, <1>5, CoinsType DEF Spends
<1> QED
  BY <1>1, <1>2, <1>5, <1>6

\* An output whose by is the id of a row is spent by its transaction.
LEMMA ByRows ==
  ASSUME ShapeInv, OwnInv, LinkInv, storedTip \in Block, NEW o \in db.outs, NEW r \in db.tx, o.by = r.id
  PROVE  \E s \in db.tx : /\ With(o, s) /\ o.at \in DOMAIN Pays[s.tx]
                          /\ [tx |-> s.tx, at |-> o.at] \in Coins(r.tx)
<1>1. PICK s \in db.tx : With(o, s) /\ o.at \in DOMAIN Pays[s.tx]
  BY DEF OwnInv
<1>2. PICK n \in DOMAIN Inputs[r.tx] : Inputs[r.tx][n].tx = s.tx /\ Inputs[r.tx][n].at = o.at
  BY <1>1 DEF LinkInv, With
<1>3. r.tx \in Tx /\ s.tx \in Tx
  BY DEF ShapeInv
<1>4. Inputs[r.tx][n] \in Coins(r.tx)
  BY <1>2, <1>3, CoinsType, LedgerAssumption
<1>5. Inputs[r.tx][n] = [tx |-> s.tx, at |-> o.at]
  BY <1>2, <1>3, <1>4, CoinsType
<1> QED
  BY <1>1, <1>4, <1>5

\* The inputs that spend an output are of one transaction, and what its by names
\* is that one.
LEMMA OneSpender ==
  ASSUME ShapeInv, KeyInv, OwnInv, LinkInv, RivalInv, storedTip \in Block,
         NEW i \in db.ins, NEW o \in db.outs, Spends(i, o)
  PROVE  /\ \A j \in db.ins : Spends(j, o) => j.id = i.id /\ (Committed(i) <=> Committed(j))
         /\ \A r \in db.tx : o.by = r.id => r.id = i.id
<1>1. PICK r, s \in db.tx : With(i, r) /\ With(o, s) /\ [tx |-> s.tx, at |-> o.at] \in Coins(r.tx)
  BY LinkRows
<1>2. ASSUME NEW q \in db.tx, NEW u \in db.tx, With(o, u), [tx |-> u.tx, at |-> o.at] \in Coins(q.tx)
      PROVE  q = r
  <2>1. u = s
    BY <1>1, <1>2 DEF With, KeyInv
  <2> QED
    BY <1>1, <1>2, <2>1 DEF RivalInv
<1>3. ASSUME NEW j \in db.ins, Spends(j, o) PROVE With(j, r)
  <2>1. PICK q, u \in db.tx : With(j, q) /\ With(o, u) /\ [tx |-> u.tx, at |-> o.at] \in Coins(q.tx)
    BY <1>3, LinkRows
  <2> QED
    BY <1>2, <2>1
<1>4. ASSUME NEW q \in db.tx, o.by = q.id PROVE q = r
  <2>1. PICK u \in db.tx : With(o, u) /\ [tx |-> u.tx, at |-> o.at] \in Coins(q.tx)
    BY <1>4, ByRows
  <2> QED
    BY <1>2, <2>1
<1>5. \A j \in db.ins : Spends(j, o) => j.id = i.id /\ (Committed(i) <=> Committed(j))
  BY <1>1, <1>3 DEF With, Committed
<1> QED
  BY <1>1, <1>4, <1>5 DEF With

\* The output of a complete transaction's input.
LEMMA CompleteLink ==
  ASSUME ShapeInv, KeyInv, OwnInv, LinkInv, storedTip \in Block,
         NEW r \in db.tx, Complete(r), NEW c \in Coins(r.tx)
  PROVE  \E i \in db.ins, o \in db.outs, s \in db.tx :
           /\ i.id = r.id /\ With(i, r) /\ Spends(i, o) /\ o.by = r.id
           /\ With(o, s) /\ s.tx = c.tx /\ o.at = c.at
<1>1. r.tx \in Tx
  BY DEF ShapeInv
<1>2. PICK n \in DOMAIN Inputs[r.tx] : c = Inputs[r.tx][n]
  BY <1>1, CoinsType
<1>3. PICK i \in db.ins : i.id = r.id /\ i.at = n
  BY DEF Complete, Filled
<1>4. Inputs[r.tx][i.at].tx # NoTx
  BY <1>2, <1>3 DEF Coins
<1>5. PICK o \in db.outs : Spends(i, o) /\ o.by = r.id
  BY <1>3, <1>4 DEF Complete, Linking
<1>6. PICK q, s \in db.tx : With(i, q) /\ With(o, s) /\ Inputs[q.tx][i.at] = [tx |-> s.tx, at |-> o.at]
  BY <1>5, LinkRows
<1>7. q = r
  BY <1>3, <1>6 DEF With, KeyInv
<1>8. c = [tx |-> s.tx, at |-> o.at]
  BY <1>2, <1>3, <1>6, <1>7
<1>9. s.tx = c.tx /\ o.at = c.at
  BY <1>8
<1> QED
  BY <1>3, <1>5, <1>6, <1>7, <1>9

\* The invariant of the tables implies that they are the ledger.
LEMMA LedgerImplied ==
  ASSUME TableInv, storedTip \in Block
  PROVE  LedgerExact
<1> USE DEF TableInv
<1> DEFINE place(r) == [tx |-> r.tx, height |-> r.height, index |-> r.index]
           coin(o) == [tx |-> TxOf(o.id), at |-> o.at]
           open == {o \in db.outs : UpTo(H, o.height) /\ ~UpTo(H, o.byHeight)}
           made == UNION {{[tx |-> t, at |-> n] : n \in DOMAIN Pays[t]} : t \in ChainTx}
           gone == UNION {Outpoints(t) : t \in ChainTx}
<1>1. \A x \in db.tx \cup db.outs \cup db.ins : UpTo(H, x.height) <=> Committed(x)
  BY Heights DEF UpTo, Committed
<1>2. {place(r) : r \in {q \in db.tx : UpTo(H, q.height)}} = ChainTxs(storedTip)
  <2>1. {q \in db.tx : UpTo(H, q.height)} = {q \in db.tx : Committed(q)}
    BY <1>1
  <2> QED
    BY <2>1 DEF ChainInv
<1>3. ChainTx = {x.tx : x \in ChainTxs(storedTip)}
  BY ChainTxsType DEF ChainTx, H
<1>4. ChainUnspent(storedTip) = made \ gone
  <2> DEFINE txs == {x.tx : x \in ChainTxs(storedTip)}
             Made(set) == UNION {{[tx |-> t, at |-> n] : n \in DOMAIN Pays[t]} : t \in set}
             Gone(set) == UNION {Outpoints(t) : t \in set}
  <2>1. txs = ChainTx
    BY <1>3
  <2>2. ChainUnspent(storedTip) = Made(txs) \ Gone(txs)
    BY DEF ChainUnspent
  <2>3. made = Made(ChainTx) /\ gone = Gone(ChainTx)
    OBVIOUS
  <2> HIDE DEF txs, Made, Gone, made, gone
  <2> QED
    BY <2>1, <2>2, <2>3
<1>5. \A r \in db.tx : TxOf(r.id) = r.tx
  <2> TAKE r \in db.tx
  <2>1. \A q \in db.tx : q.id = r.id => q = r
    BY DEF KeyInv
  <2> QED
    BY <2>1 DEF TxOf
<1>6. ASSUME NEW o \in open PROVE coin(o) \in made \ gone
  <2>1. Committed(o)
    BY <1>1
  <2>2. PICK s \in db.tx : With(o, s) /\ o.at \in DOMAIN Pays[s.tx]
    BY DEF OwnInv
  <2>3. Committed(s) /\ s.tx \in ChainTx /\ coin(o) = [tx |-> s.tx, at |-> o.at]
    <3>1. Committed(s)
      BY <2>1, <2>2 DEF With, Committed
    <3>2. TxOf(o.id) = s.tx
      BY <1>5, <2>2 DEF With
    <3> QED
      BY <3>1, <3>2, CommittedRows
  <2>4. coin(o) \in made
    BY <2>2, <2>3
  <2>5. ASSUME NEW t \in ChainTx, coin(o) \in Outpoints(t) PROVE FALSE
    <3>1. PICK r \in db.tx : r.tx = t /\ Committed(r)
      BY ChainRow
    <3>2. s.tx \in Tx /\ s.tx # NoTx
      BY LedgerAssumption DEF ShapeInv
    <3>3. coin(o) \in Coins(r.tx) /\ coin(o).tx = s.tx /\ coin(o).at = o.at
      BY <2>3, <2>5, <3>1, <3>2 DEF Coins
    <3>4. Complete(r)
      BY <3>1 DEF ChainInv
    <3>5. PICK i \in db.ins, p \in db.outs, q \in db.tx :
            /\ i.id = r.id /\ With(i, r) /\ Spends(i, p)
            /\ With(p, q) /\ q.tx = s.tx /\ p.at = o.at
      BY <3>3, <3>4, CompleteLink
    <3>6. p = o
      BY <2>2, <3>5 DEF With, KeyInv
    <3>7. Committed(i)
      BY <3>1, <3>5 DEF With, Committed
    <3>8. o.byHeight = i.height
      BY <3>5, <3>6, <3>7 DEF SpentInv
    <3> QED
      BY <1>1, <3>7, <3>8
  <2> QED
    BY <2>4, <2>5
<1>7. ASSUME NEW c \in made \ gone PROVE \E o \in open : c = coin(o)
  <2>1. PICK t \in ChainTx : \E n \in DOMAIN Pays[t] : c = [tx |-> t, at |-> n]
    BY <1>7
  <2>2. PICK n \in DOMAIN Pays[t] : c = [tx |-> t, at |-> n]
    BY <2>1
  <2>3. PICK s \in db.tx : s.tx = t /\ Committed(s)
    BY ChainRow
  <2>4. PICK o \in db.outs : o.id = s.id /\ o.at = n
    BY <2>2, <2>3 DEF ChainInv, Complete, Filled
  <2>5. coin(o) = c
    BY <1>5, <2>2, <2>3, <2>4
  <2>6. PICK q \in db.tx : With(o, q)
    BY DEF OwnInv
  <2>7. q = s /\ Committed(o)
    BY <2>3, <2>4, <2>6 DEF With, KeyInv, Committed
  <2>8. ASSUME UpTo(H, o.byHeight) PROVE FALSE
    <3>1. o.byHeight \notin {Null, Unconfirmed} /\ o.byHeight <= H
      BY <2>8, Heights DEF UpTo
    <3>2. PICK i \in db.ins : Spends(i, o) /\ i.height = o.byHeight
      BY <3>1 DEF SpentInv
    <3>3. PICK r, u \in db.tx : With(i, r) /\ With(o, u) /\ [tx |-> u.tx, at |-> o.at] \in Coins(r.tx)
      BY <3>2, LinkRows
    <3>4. u = s
      BY <2>6, <2>7, <3>3 DEF With, KeyInv
    <3>5. Committed(r)
      BY <3>1, <3>2, <3>3 DEF With, Committed
    <3>6. r.tx \in ChainTx /\ c \in Outpoints(r.tx)
      BY <2>2, <2>3, <2>4, <3>3, <3>4, <3>5, CommittedRows DEF Coins
    <3> QED
      BY <1>7, <3>6
  <2> QED
    BY <1>1, <2>5, <2>7, <2>8
<1>8. {coin(o) : o \in open} = made \ gone
  <2> HIDE DEF coin, open, made, gone
  <2> QED
    BY <1>6, <1>7
<1> QED
  BY <1>2, <1>4, <1>8 DEF LedgerExact, H

-----------------------------------------------------------------------------
(* Statements that take rows away, or change their heights.                *)

SameInput(i, j) == j.id = i.id /\ j.at = i.at /\ j.from = i.from /\ j.fromAt = i.fromAt

\* The outputs and inputs of r, and the outputs that it spends, are still there.
Kept(r) ==
  /\ \A o \in db.outs : o.id = r.id \/ o.by = r.id =>
       \E p \in db'.outs : p.id = o.id /\ p.at = o.at /\ (o.by = r.id => p.by = o.by)
  /\ \A i \in db.ins : i.id = r.id => \E j \in db'.ins : SameInput(i, j)
  /\ \A j \in db'.ins : j.id = r.id => \E i \in db.ins : SameInput(i, j)

\* Every row is one of before, and no committed one is touched.
Trims ==
  /\ storedTip' = storedTip
  /\ \A s \in db'.tx : \E r \in db.tx :
       s.id = r.id /\ s.tx = r.tx /\ (Committed(r) \/ Committed(s) => s = r)
  /\ \A r \in db.tx : Committed(r) => r \in db'.tx /\ Kept(r)
  /\ \A p \in db'.outs :
       /\ \E o \in db.outs : /\ p.id = o.id /\ p.at = o.at /\ p.by \in {o.by, 0}
                             /\ Committed(o) \/ Committed(p) => p.height = o.height
       /\ \E s \in db'.tx : s.id = p.id
  /\ \A j \in db'.ins :
       /\ \E i \in db.ins : /\ SameInput(i, j)
                            /\ Committed(i) \/ Committed(j) => j.height = i.height
       /\ \E s \in db'.tx : s.id = j.id

\* A complete transaction whose rows are kept stays complete.
LEMMA KeptComplete ==
  ASSUME NEW r \in db.tx, NEW s \in db'.tx, s.id = r.id, s.tx = r.tx, Complete(r), Kept(r)
  PROVE  Complete(s)'
<1>1. \A n \in DOMAIN Pays[s.tx] : \E p \in db'.outs : p.id = s.id /\ p.at = n
  <2> TAKE n \in DOMAIN Pays[s.tx]
  <2>1. PICK o \in db.outs : o.id = r.id /\ o.at = n
    BY DEF Complete, Filled
  <2> QED
    BY <2>1 DEF Kept
<1>2. \A n \in DOMAIN Inputs[s.tx] : \E j \in db'.ins : j.id = s.id /\ j.at = n
  <2> TAKE n \in DOMAIN Inputs[s.tx]
  <2>1. PICK i \in db.ins : i.id = r.id /\ i.at = n
    BY DEF Complete, Filled
  <2> QED
    BY <2>1 DEF Kept, SameInput
<1>3. \A j \in db'.ins : j.id = s.id /\ Inputs[s.tx][j.at].tx # NoTx =>
        \E p \in db'.outs : Spends(j, p) /\ p.by = s.id
  <2> SUFFICES ASSUME NEW j \in db'.ins, j.id = s.id, Inputs[s.tx][j.at].tx # NoTx
               PROVE  \E p \in db'.outs : Spends(j, p) /\ p.by = s.id
    OBVIOUS
  <2>1. PICK i \in db.ins : SameInput(i, j)
    BY DEF Kept
  <2>2. i.id = r.id /\ Inputs[r.tx][i.at].tx # NoTx
    BY <2>1 DEF SameInput
  <2>3. PICK o \in db.outs : Spends(i, o) /\ o.by = r.id
    BY <2>2 DEF Complete, Linking
  <2>4. PICK p \in db'.outs : p.id = o.id /\ p.at = o.at /\ p.by = o.by
    BY <2>3 DEF Kept
  <2> QED
    BY <2>1, <2>3, <2>4 DEF SameInput, Spends
<1> QED
  BY <1>1, <1>2, <1>3 DEF Complete, Filled, Linking

\* Such a statement preserves what the tables hold of the chain.
LEMMA TrimsTable ==
  ASSUME TableInv, storedTip \in Block, Trims, ShapeInv', KeyInv', SpentInv'
  PROVE  TableInv'
<1> USE DEF TableInv
<1>1. H' = H /\ \A x : Committed(x)' <=> Committed(x)
  BY DEF Trims, H, Committed
<1>2. OwnInv'
  <2>1. ASSUME NEW p \in db'.outs
        PROVE  \E s \in db'.tx : With(p, s)' /\ p.at \in DOMAIN Pays[s.tx]
    <3>1. PICK s \in db'.tx : s.id = p.id
      BY DEF Trims
    <3>2. PICK r \in db.tx : s.id = r.id /\ s.tx = r.tx /\ (Committed(r) \/ Committed(s) => s = r)
      BY DEF Trims
    <3>3. PICK o \in db.outs : /\ p.id = o.id /\ p.at = o.at
                               /\ Committed(o) \/ Committed(p) => p.height = o.height
      BY DEF Trims
    <3>4. PICK q \in db.tx : With(o, q) /\ o.at \in DOMAIN Pays[q.tx]
      BY DEF OwnInv
    <3>5. q = r
      BY <3>1, <3>2, <3>3, <3>4 DEF With, KeyInv
    <3>6. Committed(p) \/ Committed(s) => p.height = s.height
      BY <3>2, <3>3, <3>4, <3>5 DEF With, Committed
    <3> QED
      BY <1>1, <3>1, <3>2, <3>3, <3>4, <3>5, <3>6 DEF With
  <2>2. ASSUME NEW j \in db'.ins
        PROVE  \E s \in db'.tx : With(j, s)' /\ j.at \in DOMAIN Inputs[s.tx]
    <3>1. PICK s \in db'.tx : s.id = j.id
      BY DEF Trims
    <3>2. PICK r \in db.tx : s.id = r.id /\ s.tx = r.tx /\ (Committed(r) \/ Committed(s) => s = r)
      BY DEF Trims
    <3>3. PICK i \in db.ins : SameInput(i, j) /\ (Committed(i) \/ Committed(j) => j.height = i.height)
      BY DEF Trims
    <3>4. PICK q \in db.tx : With(i, q) /\ i.at \in DOMAIN Inputs[q.tx]
      BY DEF OwnInv
    <3>5. q = r
      BY <3>1, <3>2, <3>3, <3>4 DEF With, KeyInv, SameInput
    <3>6. Committed(j) \/ Committed(s) => j.height = s.height
      BY <3>2, <3>3, <3>4, <3>5 DEF With, Committed
    <3> QED
      BY <1>1, <3>1, <3>2, <3>3, <3>4, <3>5, <3>6 DEF With, SameInput
  <2> QED
    BY <2>1, <2>2 DEF OwnInv
<1>3. LinkInv'
  <2>1. ASSUME NEW j \in db'.ins, NEW r \in db'.tx, NEW s \in db'.tx, r.id = j.id, s.id = j.from
        PROVE  Inputs[r.tx][j.at].tx = s.tx /\ Inputs[r.tx][j.at].at = j.fromAt
    <3>1. PICK i \in db.ins : SameInput(i, j)
      BY DEF Trims
    <3>2. PICK q \in db.tx : q.id = r.id /\ q.tx = r.tx
      BY DEF Trims
    <3>3. PICK u \in db.tx : u.id = s.id /\ u.tx = s.tx
      BY DEF Trims
    <3>4. Inputs[q.tx][i.at].tx = u.tx /\ Inputs[q.tx][i.at].at = i.fromAt
      BY <2>1, <3>1, <3>2, <3>3 DEF LinkInv, SameInput
    <3> QED
      BY <3>1, <3>2, <3>3, <3>4 DEF SameInput
  <2>2. ASSUME NEW p \in db'.outs, NEW r \in db'.tx, NEW s \in db'.tx, r.id = p.by, s.id = p.id
        PROVE  \E n \in DOMAIN Inputs[r.tx] : Inputs[r.tx][n].tx = s.tx /\ Inputs[r.tx][n].at = p.at
    <3>1. PICK o \in db.outs : p.id = o.id /\ p.at = o.at /\ p.by \in {o.by, 0}
      BY DEF Trims
    <3>2. PICK q \in db.tx : q.id = r.id /\ q.tx = r.tx
      BY DEF Trims
    <3>3. PICK u \in db.tx : u.id = s.id /\ u.tx = s.tx
      BY DEF Trims
    <3>4. q.id = o.by
      BY <2>2, <3>1, <3>2, Heights
    <3> QED
      BY <2>2, <3>1, <3>2, <3>3, <3>4 DEF LinkInv
  <2> QED
    BY <2>1, <2>2 DEF LinkInv
<1>4. RivalInv'
  <2> SUFFICES ASSUME NEW r \in db'.tx, NEW s \in db'.tx, r # s
               PROVE  Coins(r.tx) \cap Coins(s.tx) = {}
    BY DEF RivalInv
  <2>1. PICK q \in db.tx : q.id = r.id /\ q.tx = r.tx
    BY DEF Trims
  <2>2. PICK u \in db.tx : u.id = s.id /\ u.tx = s.tx
    BY DEF Trims
  <2>3. q # u
    BY <2>1, <2>2 DEF KeyInv
  <2> QED
    BY <2>1, <2>2, <2>3 DEF RivalInv
<1>5. {q \in db'.tx : Committed(q)} = {q \in db.tx : Committed(q)}
  BY DEF Trims
<1>6. ChainTxs(storedTip)' = ChainTxs(storedTip)
  BY DEF Trims
<1>7. {q \in db.tx : Committed(q)}' = {q \in db.tx : Committed(q)}
  BY <1>1, <1>5
<1>8. ChainInv'
  <2> DEFINE place(r) == [tx |-> r.tx, height |-> r.height, index |-> r.index]
  <2>1. {place(r) : r \in {q \in db.tx : Committed(q)}} = ChainTxs(storedTip)
    BY DEF ChainInv
  <2>2. {place(r) : r \in {q \in db.tx : Committed(q)}'} = ChainTxs(storedTip)'
    BY <1>6, <1>7, <2>1
  <2>3. ASSUME NEW s \in db'.tx, Committed(s) PROVE Complete(s)'
    <3>1. s \in db.tx /\ Complete(s) /\ Kept(s)
      BY <1>5, <2>3 DEF ChainInv, Trims
    <3> QED
      BY <3>1, KeptComplete
  <2> QED
    BY <1>1, <2>2, <2>3 DEF ChainInv
<1> QED
  BY <1>2, <1>3, <1>4, <1>8

-----------------------------------------------------------------------------
(* The removal of replaced transactions.                                   *)

\* Descendants holds the roots, what spends an output of one that it holds, and
\* nothing that a set which does so leaves out.
LEMMA DescendantsClosed ==
  ASSUME NEW roots
  PROVE  /\ roots \subseteq Descendants(db, roots)
         /\ \A o \in db.outs : o.id \in Descendants(db, roots) => o.by \in Descendants(db, roots)
  BY DEF Descendants

\* They are in every closed set that holds the roots.
LEMMA DescendantsLeast ==
  ASSUME NEW roots, NEW S, roots \subseteq S, \A o \in db.outs : o.id \in S => o.by \in S
  PROVE  Descendants(db, roots) \subseteq S
<1> DEFINE all == roots \cup {o.by : o \in db.outs}
           closed == {C \in SUBSET all : roots \subseteq C /\ \A o \in db.outs : o.id \in C => o.by \in C}
<1>1. S \cap all \in closed
  OBVIOUS
<1>2. Descendants(db, roots) = {x \in all : \A C \in closed : x \in C}
  BY DEF Descendants
<1> HIDE DEF all, closed
<1> QED
  BY <1>1, <1>2

\* The rows of the transactions of a set that holds what they spend are not
\* among them, unless they are roots.
LEMMA DescendantsSpare ==
  ASSUME ShapeInv, KeyInv, OwnInv, LinkInv, storedTip \in Block, NEW roots, NEW Keep,
         \A r \in db.tx : r.tx \in Keep =>
           /\ r.id \notin roots
           /\ \A c \in Coins(r.tx) : \A s \in db.tx : s.tx = c.tx => s.tx \in Keep
  PROVE  \A r \in db.tx : r.tx \in Keep => r.id \notin Descendants(db, roots)
<1> DEFINE S == {x \in roots \cup {o.by : o \in db.outs} : \A r \in db.tx : r.id = x => r.tx \notin Keep}
           all == roots \cup {o.by : o \in db.outs}
<1>1. roots \subseteq S
  OBVIOUS
<1>2. \A o \in db.outs : o.id \in S => o.by \in S
  <2> SUFFICES ASSUME NEW o \in db.outs, o.id \in S, NEW r \in db.tx, r.id = o.by, r.tx \in Keep
               PROVE  FALSE
    OBVIOUS
  <2>1. PICK s \in db.tx : With(o, s) /\ [tx |-> s.tx, at |-> o.at] \in Coins(r.tx)
    BY ByRows
  <2>2. s.tx \in Keep
    BY <2>1
  <2>3. s.id = o.id
    BY <2>1 DEF With
  <2> QED
    BY <2>2, <2>3
<1>3. Descendants(db, roots) \subseteq S
  <2> HIDE DEF S
  <2> QED
    BY <1>1, <1>2, DescendantsLeast
<1> QED
  BY <1>3

\* The rows that are left.
LEMMA RemovedRows ==
  ASSUME ShapeInv, KeyInv, NEW roots, NEW D, D = Descendants(db, roots), db' = Removed(db, roots)
  PROVE  /\ DOMAIN db' = DOMAIN db /\ db'.next = db.next
         /\ db'.tx = {r \in db.tx : r.id \notin D}
         /\ db'.ins = {i \in db.ins : i.id \notin D}
         /\ \A p \in db'.outs : \E o \in db.outs :
              /\ o.id \notin D /\ DOMAIN p = DOMAIN o
              /\ p.id = o.id /\ p.at = o.at /\ p.height = o.height /\ p.byHeight = o.byHeight
              /\ p.by \in {o.by, 0}
         /\ \A o \in db.outs : o.id \notin D =>
              \E p \in db'.outs :
                /\ p.id = o.id /\ p.at = o.at
                /\ p.by # o.by => \E i \in db.ins : i.id \in D /\ Spends(i, o)
         /\ \A p, q \in db'.outs : p.id = q.id /\ p.at = q.at => p = q
<1> DEFINE gone == {r \in db.tx : r.id \in D}
           ins == {i \in db.ins : i.id \in D}
           freed(o) == \E i \in ins : Spends(i, o)
           left == {o \in db.outs : o.id \notin D}
           new(o) == IF freed(o) THEN [o EXCEPT !.by = 0, !.byAt = 0] ELSE o
<1>1. /\ DOMAIN db' = DOMAIN db /\ db'.next = db.next
      /\ db'.tx = db.tx \ gone
      /\ db'.ins = db.ins \ ins
      /\ db'.outs = {new(o) : o \in left}
  BY DEF Removed, Update, ShapeInv
<1>2. \A o \in left : /\ DOMAIN new(o) = DOMAIN o
                      /\ new(o).id = o.id /\ new(o).at = o.at /\ new(o).height = o.height
                      /\ new(o).byHeight = o.byHeight /\ new(o).by \in {o.by, 0}
                      /\ new(o).by # o.by => freed(o)
  BY DEF ShapeInv
<1>3. \A o \in left : o \in db.outs /\ o.id \notin D
  OBVIOUS
<1>4. \A o \in db.outs : o.id \notin D => o \in left
  OBVIOUS
<1>5. \A o \in left : freed(o) => \E i \in db.ins : i.id \in D /\ Spends(i, o)
  OBVIOUS
<1>6. db'.tx = {r \in db.tx : r.id \notin D} /\ db'.ins = {i \in db.ins : i.id \notin D}
  BY <1>1
<1> HIDE DEF new, freed, left
<1>7. \A p \in db'.outs : \E o \in db.outs :
        /\ o.id \notin D /\ DOMAIN p = DOMAIN o
        /\ p.id = o.id /\ p.at = o.at /\ p.height = o.height /\ p.byHeight = o.byHeight
        /\ p.by \in {o.by, 0}
  BY <1>1, <1>2, <1>3
<1>8. \A o \in db.outs : o.id \notin D =>
        \E p \in db'.outs : /\ p.id = o.id /\ p.at = o.at
                            /\ p.by # o.by => \E i \in db.ins : i.id \in D /\ Spends(i, o)
  <2> SUFFICES ASSUME NEW o \in db.outs, o.id \notin D
               PROVE  \E p \in db'.outs :
                        /\ p.id = o.id /\ p.at = o.at
                        /\ p.by # o.by => \E i \in db.ins : i.id \in D /\ Spends(i, o)
    OBVIOUS
  <2>1. o \in left /\ new(o) \in db'.outs
    BY <1>1, <1>4
  <2> QED
    BY <1>2, <1>5, <2>1
<1>9. \A p, q \in db'.outs : p.id = q.id /\ p.at = q.at => p = q
  <2> SUFFICES ASSUME NEW a \in left, NEW b \in left, new(a).id = new(b).id, new(a).at = new(b).at
               PROVE  new(a) = new(b)
    BY <1>1
  <2>1. a = b
    BY <1>2, <1>3 DEF KeyInv
  <2> QED
    BY <2>1
<1> QED
  BY <1>1, <1>6, <1>7, <1>8, <1>9

\* The tables stay right when no committed row is removed, and only inputs of the
\* mempool; what is kept stays complete.
LEMMA RemovedTable ==
  ASSUME TableInv, storedTip \in Block, storedTip' = storedTip,
         NEW roots, NEW D, D = Descendants(db, roots), db' = Removed(db, roots),
         \A r \in db.tx : Committed(r) => r.id \notin D,
         \A i \in db.ins : i.id \in D => i.height = Unconfirmed
  PROVE  /\ TableInv'
         /\ \A r \in db.tx : r.id \notin D => Kept(r)
<1> USE DEF TableInv
<1>1. /\ DOMAIN db' = DOMAIN db /\ db'.next = db.next
      /\ db'.tx = {r \in db.tx : r.id \notin D}
      /\ db'.ins = {i \in db.ins : i.id \notin D}
      /\ \A p, q \in db'.outs : p.id = q.id /\ p.at = q.at => p = q
  BY RemovedRows
<1>2. \A p \in db'.outs : \E o \in db.outs :
        /\ o.id \notin D /\ DOMAIN p = DOMAIN o
        /\ p.id = o.id /\ p.at = o.at /\ p.height = o.height /\ p.byHeight = o.byHeight
        /\ p.by \in {o.by, 0}
  BY RemovedRows
<1>3. \A o \in db.outs : o.id \notin D =>
        \E p \in db'.outs : /\ p.id = o.id /\ p.at = o.at
                            /\ p.by # o.by => \E i \in db.ins : i.id \in D /\ Spends(i, o)
  BY RemovedRows
<1>4. \A r \in db.tx : r.id \notin D => Kept(r)
  <2> SUFFICES ASSUME NEW r \in db.tx, r.id \notin D PROVE Kept(r)
    OBVIOUS
  <2>1. ASSUME NEW o \in db.outs, o.id = r.id \/ o.by = r.id
        PROVE  \E p \in db'.outs : p.id = o.id /\ p.at = o.at /\ (o.by = r.id => p.by = o.by)
    <3>1. o.id \notin D
      BY <2>1, DescendantsClosed
    <3>2. PICK p \in db'.outs : /\ p.id = o.id /\ p.at = o.at
                                /\ p.by # o.by => \E i \in db.ins : i.id \in D /\ Spends(i, o)
      BY <1>3, <3>1
    <3>3. ASSUME o.by = r.id PROVE p.by = o.by
      BY <3>2, <3>3, OneSpender
    <3> QED
      BY <3>2, <3>3
  <2>2. \A i \in db.ins : i.id = r.id => \E j \in db'.ins : SameInput(i, j)
    BY <1>1 DEF SameInput
  <2>3. \A j \in db'.ins : j.id = r.id => \E i \in db.ins : SameInput(i, j)
    BY <1>1 DEF SameInput
  <2> QED
    BY <2>1, <2>2, <2>3 DEF Kept
<1>5. ShapeInv'
  <2>1. H' = H /\ AllGenerated' = AllGenerated
    BY DEF H, AllGenerated
  <2>2. \A p \in db'.outs :
          /\ DOMAIN p = {"id", "at", "height", "address", "by", "byAt", "byHeight"}
          /\ p.height \in 0 .. Unconfirmed /\ p.by \in 0 .. db.next
          /\ p.byHeight \in 0 .. Unconfirmed \cup {Null}
    BY <1>2 DEF ShapeInv
  <2> QED
    BY <1>1, <2>1, <2>2 DEF ShapeInv
<1>6. KeyInv'
  BY <1>1 DEF KeyInv
<1>7. SpentInv'
  <2> SUFFICES ASSUME NEW p \in db'.outs
               PROVE  /\ p.byHeight \notin {Null, Unconfirmed} =>
                           \E j \in db'.ins : Spends(j, p) /\ j.height = p.byHeight
                      /\ \A j \in db'.ins : Spends(j, p) /\ Committed(j) => p.byHeight = j.height
    BY DEF SpentInv, Committed, H, Spends
  <2>1. PICK o \in db.outs : p.id = o.id /\ p.at = o.at /\ p.byHeight = o.byHeight
    BY <1>2
  <2>2. \A i : Spends(i, o) <=> Spends(i, p)
    BY <2>1 DEF Spends
  <2>3. ASSUME p.byHeight \notin {Null, Unconfirmed}
        PROVE  \E j \in db'.ins : Spends(j, p) /\ j.height = p.byHeight
    <3>1. PICK i \in db.ins : Spends(i, o) /\ i.height = o.byHeight
      BY <2>1, <2>3 DEF SpentInv
    <3> QED
      BY <1>1, <2>1, <2>2, <2>3, <3>1
  <2> QED
    BY <1>1, <2>1, <2>2, <2>3 DEF SpentInv
<1>8. Trims
  <2>1. \A s \in db'.tx : \E r \in db.tx :
          s.id = r.id /\ s.tx = r.tx /\ (Committed(r) \/ Committed(s) => s = r)
    BY <1>1
  <2>2. \A r \in db.tx : Committed(r) => r \in db'.tx /\ Kept(r)
    BY <1>1, <1>4
  <2>3. ASSUME NEW p \in db'.outs
        PROVE  /\ \E o \in db.outs : /\ p.id = o.id /\ p.at = o.at /\ p.by \in {o.by, 0}
                                     /\ Committed(o) \/ Committed(p) => p.height = o.height
               /\ \E s \in db'.tx : s.id = p.id
    <3>1. PICK o \in db.outs :
            /\ o.id \notin D /\ p.id = o.id /\ p.at = o.at /\ p.height = o.height /\ p.by \in {o.by, 0}
      BY <1>2
    <3>2. PICK s \in db.tx : With(o, s)
      BY DEF OwnInv
    <3> QED
      BY <1>1, <3>1, <3>2 DEF With
  <2>4. ASSUME NEW j \in db'.ins
        PROVE  /\ \E i \in db.ins : /\ SameInput(i, j)
                                    /\ Committed(i) \/ Committed(j) => j.height = i.height
               /\ \E s \in db'.tx : s.id = j.id
    <3>1. PICK s \in db.tx : With(j, s)
      BY <1>1 DEF OwnInv
    <3> QED
      BY <1>1, <3>1 DEF With, SameInput
  <2> QED
    BY <2>1, <2>2, <2>3, <2>4 DEF Trims
<1> QED
  BY <1>4, <1>5, <1>6, <1>7, <1>8, TrimsTable

\* Rows go; those that are left are as complete as they were.
Fewer ==
  /\ db'.next = db.next
  /\ \A s \in db'.tx : s \in db.tx /\ Kept(s)
  /\ \A p \in db'.outs : \E o \in db.outs :
       p.id = o.id /\ p.at = o.at /\ p.height = o.height /\ p.byHeight = o.byHeight
  /\ \A j \in db'.ins : j \in db.ins

\* An output that is found for t is one that t spends,
LEMMA SourceCoins ==
  ASSUME ShapeInv, KeyInv, OwnInv, storedTip \in Block, NEW t \in Tx,
         NEW o \in Sources(db, t), NEW s \in db.tx, With(o, s)
  PROVE  o \in db.outs /\ [tx |-> s.tx, at |-> o.at] \in Coins(t)
<1>1. PICK n \in DOMAIN Inputs[t] : /\ Inputs[t][n].at = o.at
                                    /\ o.id \in Ids(Named(db, {Inputs[t][n].tx}))
  BY DEF Sources
<1>2. PICK u \in db.tx : u.tx = Inputs[t][n].tx /\ u.id = o.id
  BY <1>1 DEF Ids, Named
<1>3. u = s
  BY <1>2 DEF With, KeyInv
<1>4. s.tx \in Tx /\ s.tx # NoTx
  BY LedgerAssumption DEF ShapeInv
<1>5. Inputs[t][n] \in Coins(t)
  BY <1>2, <1>3, <1>4, CoinsType
<1>6. Inputs[t][n] = [tx |-> s.tx, at |-> o.at]
  BY <1>1, <1>2, <1>3, <1>5, CoinsType
<1> QED
  BY <1>5, <1>6 DEF Sources

\* and an output in the table that t spends is found.
LEMMA CoinsSource ==
  ASSUME ShapeInv, KeyInv, OwnInv, storedTip \in Block, NEW t \in Tx, NEW c \in Coins(t),
         NEW s \in db.tx, s.tx = c.tx, NEW o \in db.outs, o.id = s.id, o.at = c.at
  PROVE  o \in Sources(db, t)
<1>1. PICK n \in DOMAIN Inputs[t] : c = Inputs[t][n]
  BY CoinsType
<1>2. s \in Named(db, {Inputs[t][n].tx}) /\ s.id \in Ids(Named(db, {Inputs[t][n].tx}))
  BY <1>1 DEF Named, Ids
<1> QED
  BY <1>1, <1>2 DEF Sources

\* Nothing of Keep is a rival of t, and it holds what it spends; what is committed
\* and what has an input that is not the mempool's are of it.
Spares(t, Keep) ==
  /\ \A r \in db.tx : r.tx \in Keep =>
       /\ Coins(r.tx) \cap Coins(t) = {}
       /\ \A c \in Coins(r.tx) : \A s \in db.tx : s.tx = c.tx => s.tx \in Keep
  /\ \A r \in db.tx : Committed(r) => r.tx \in Keep
  /\ \A i \in db.ins : \A r \in db.tx : r.id = i.id /\ i.height # Unconfirmed => r.tx \in Keep

\* The transactions that are removed for t.
Replaceable(t) == Descendants(db, {o.by : o \in Sources(db, t)} \ {0})

\* None of Keep is among them.
LEMMA ReplacedSpare ==
  ASSUME TableInv, storedTip \in Block, NEW t \in Tx, NEW Keep, Spares(t, Keep)
  PROVE  /\ \A r \in db.tx : r.tx \in Keep => r.id \notin Replaceable(t)
         /\ \A i \in db.ins : i.id \in Replaceable(t) => i.height = Unconfirmed
<1> USE DEF TableInv
<1> DEFINE roots == {o.by : o \in Sources(db, t)} \ {0}
<1>1. \A r \in db.tx : r.tx \in Keep => r.id \notin roots
  <2> SUFFICES ASSUME NEW r \in db.tx, r.tx \in Keep, NEW o \in Sources(db, t), o.by = r.id
               PROVE  FALSE
    OBVIOUS
  <2>1. o \in db.outs
    BY DEF Sources
  <2>2. PICK s \in db.tx : With(o, s) /\ [tx |-> s.tx, at |-> o.at] \in Coins(r.tx)
    BY <2>1, ByRows
  <2>3. [tx |-> s.tx, at |-> o.at] \in Coins(t)
    BY <2>2, SourceCoins
  <2> QED
    BY <2>2, <2>3 DEF Spares
<1>2. Replaceable(t) = Descendants(db, roots)
  BY DEF Replaceable
<1> HIDE DEF roots
<1>3. \A r \in db.tx : r.tx \in Keep => r.id \notin Replaceable(t)
  <2>1. \A r \in db.tx : r.tx \in Keep =>
          /\ r.id \notin roots
          /\ \A c \in Coins(r.tx) : \A s \in db.tx : s.tx = c.tx => s.tx \in Keep
    BY <1>1 DEF Spares
  <2> QED
    BY <1>2, <2>1, DescendantsSpare
<1>4. \A i \in db.ins : i.id \in Replaceable(t) => i.height = Unconfirmed
  <2> SUFFICES ASSUME NEW i \in db.ins, i.id \in Replaceable(t), i.height # Unconfirmed PROVE FALSE
    OBVIOUS
  <2>1. PICK r \in db.tx : With(i, r)
    BY DEF OwnInv
  <2> QED
    BY <1>3, <2>1 DEF With, Spares
<1> QED
  BY <1>3, <1>4

\* The transactions of Keep are kept; unless t is given up, its complete rivals
\* are not.
LEMMA ReplacedTable ==
  ASSUME TableInv, storedTip \in Block, storedTip' = storedTip, NEW t \in Tx,
         db' = Replaced(db, t), NEW Keep, Spares(t, Keep)
  PROVE  /\ TableInv' /\ Fewer
         /\ \A r \in db.tx : r.tx \in Keep => r \in db'.tx
         /\ (\A n \in DOMAIN Inputs[t] : \E s \in db.tx : s.tx = Inputs[t][n].tx) =>
              \A r \in db'.tx : Complete(r) => Coins(r.tx) \cap Coins(t) = {}
<1> USE DEF TableInv
<1> DEFINE roots == {o.by : o \in Sources(db, t)} \ {0}
           D == Descendants(db, roots)
           given == \E n \in DOMAIN Inputs[t] : Named(db, {Inputs[t][n].tx}) = {}
<1>1. given => db' = db
  BY DEF Replaced
<1>2. ~given => db' = Removed(db, roots)
  BY DEF Replaced
<1>3. (\A n \in DOMAIN Inputs[t] : \E s \in db.tx : s.tx = Inputs[t][n].tx) => ~given
  BY DEF Named
<1> HIDE DEF given
<1>4. CASE given
  <2>1. db' = db
    BY <1>1, <1>4
  <2>2. TableInv'
    BY <2>1 DEF ShapeInv, KeyInv, OwnInv, LinkInv, RivalInv, SpentInv, ChainInv, With, Committed, H,
                AllGenerated, Spends, Complete, Filled, Linking
  <2>3. \A r \in db.tx : Kept(r)
    BY <2>1 DEF Kept, SameInput
  <2>4. Fewer
    BY <2>1, <2>3 DEF Fewer
  <2> QED
    BY <1>3, <1>4, <2>1, <2>2, <2>4
<1>5. CASE ~given
  <2>1. D = Replaceable(t)
    BY DEF Replaceable
  <2> HIDE DEF roots
  <2>2. \A r \in db.tx : r.tx \in Keep => r.id \notin D
    BY <2>1, ReplacedSpare
  <2>3. \A i \in db.ins : i.id \in D => i.height = Unconfirmed
    BY <2>1, ReplacedSpare
  <2> DEFINE E == D
  <2>4. E = Descendants(db, roots) /\ db' = Removed(db, roots)
    BY <1>2, <1>5
  <2> HIDE DEF E
  <2>5. /\ \A r \in db.tx : Committed(r) => r.id \notin E
        /\ \A i \in db.ins : i.id \in E => i.height = Unconfirmed
    BY <2>2, <2>3 DEF E, Spares
  <2>6. TableInv' /\ \A r \in db.tx : r.id \notin E => Kept(r)
    BY <2>4, <2>5, RemovedTable
  <2>7. /\ db'.next = db.next
        /\ db'.tx = {r \in db.tx : r.id \notin E}
        /\ db'.ins = {i \in db.ins : i.id \notin E}
        /\ \A p \in db'.outs : \E o \in db.outs :
             p.id = o.id /\ p.at = o.at /\ p.height = o.height /\ p.byHeight = o.byHeight
    <3>1. \A p \in db'.outs : \E o \in db.outs :
            /\ o.id \notin E /\ DOMAIN p = DOMAIN o
            /\ p.id = o.id /\ p.at = o.at /\ p.height = o.height /\ p.byHeight = o.byHeight
            /\ p.by \in {o.by, 0}
      BY <2>4, RemovedRows
    <3>2. /\ db'.next = db.next
          /\ db'.tx = {r \in db.tx : r.id \notin E}
          /\ db'.ins = {i \in db.ins : i.id \notin E}
      BY <2>4, RemovedRows
    <3>3. \A p \in db'.outs : \E o \in db.outs :
             p.id = o.id /\ p.at = o.at /\ p.height = o.height /\ p.byHeight = o.byHeight
      BY <3>1
    <3> QED
      BY <3>2, <3>3
  <2>8. Fewer
    BY <2>6, <2>7 DEF Fewer
  <2>9. \A r \in db.tx : r.tx \in Keep => r \in db'.tx
    BY <2>2, <2>7 DEF E
  <2>10. ASSUME NEW r \in db'.tx, Complete(r), NEW c \in Coins(r.tx) \cap Coins(t)
         PROVE  FALSE
    <3>1. r \in db.tx /\ r.id \notin E
      BY <2>7
    <3>2. PICK i \in db.ins, o \in db.outs, s \in db.tx :
            /\ o.by = r.id /\ With(o, s) /\ s.tx = c.tx /\ o.at = c.at
      BY <2>10, <3>1, CompleteLink
    <3>3. o \in Sources(db, t)
      BY <2>10, <3>2, CoinsSource DEF With
    <3>4. r.id \in roots
      BY <3>1, <3>2, <3>3, Heights DEF roots
    <3>5. roots \subseteq E
      BY <2>4, DescendantsClosed
    <3> QED
      BY <3>1, <3>4, <3>5
  <2> QED
    BY <2>6, <2>8, <2>9, <2>10
<1> QED
  BY <1>4, <1>5

-----------------------------------------------------------------------------
(* start().                                                                *)

\* Without handlers there is nothing to say but how far the start is.
LEMMA IdleWork ==
  ASSUME ProcessInv', CleanInv', phase' \in {"down", "clean"}
  PROVE  WorkInv'
<1>1. /\ ~synced' /\ block' = NoBlock /\ running' = NoTx /\ waiting' = <<>>
      /\ \A w \in Handler : job'[w].pc = "none"
  BY DEF ProcessInv
<1>2. Queued' = {}
  BY <1>1 DEF Queued, ToSet
<1>3. \A w \in Handler : ~Filling(w)'
  BY <1>1 DEF Filling
<1>4. (\A w \in Handler : WriteInv(w))'
  BY <1>1, <1>3 DEF WriteInv
<1> QED
  BY <1>1, <1>2, <1>4 DEF WorkInv, UndoInv, CompleteInv, HeightInv, QueueInv, MempoolInv, BlockInv

\* Outputs that are freed keep all but their spender.
LEMMA FreedRows ==
  ASSUME ShapeInv, KeyInv, NEW ins, db'.outs = Freed(db.outs, ins)
  PROVE  /\ \A p \in db'.outs : \E o \in db.outs :
              /\ DOMAIN p = DOMAIN o
              /\ p.id = o.id /\ p.at = o.at /\ p.height = o.height
              /\ IF \E i \in ins : Spends(i, o) THEN p.by = 0 /\ p.byHeight = Null ELSE p = o
         /\ \A o \in db.outs : \E p \in db'.outs :
              /\ p.id = o.id /\ p.at = o.at
              /\ (\A i \in ins : ~Spends(i, o)) => p = o
         /\ \A p, q \in db'.outs : p.id = q.id /\ p.at = q.at => p = q
<1> DEFINE freed(o) == \E i \in ins : Spends(i, o)
           new(o) == IF freed(o) THEN [o EXCEPT !.by = 0, !.byAt = 0, !.byHeight = Null] ELSE o
<1>1. db'.outs = {new(o) : o \in db.outs}
  BY DEF Freed, Update
<1>2. \A o \in db.outs : /\ DOMAIN new(o) = DOMAIN o
                         /\ new(o).id = o.id /\ new(o).at = o.at /\ new(o).height = o.height
                         /\ IF freed(o) THEN new(o).by = 0 /\ new(o).byHeight = Null ELSE new(o) = o
  BY DEF ShapeInv
<1>3. \A o \in db.outs : freed(o) <=> \E i \in ins : Spends(i, o)
  OBVIOUS
<1> HIDE DEF new, freed
<1>4. \A p \in db'.outs : \E o \in db.outs :
         /\ DOMAIN p = DOMAIN o
         /\ p.id = o.id /\ p.at = o.at /\ p.height = o.height
         /\ IF \E i \in ins : Spends(i, o) THEN p.by = 0 /\ p.byHeight = Null ELSE p = o
  <2> SUFFICES ASSUME NEW o \in db.outs
               PROVE  /\ DOMAIN new(o) = DOMAIN o
                      /\ new(o).id = o.id /\ new(o).at = o.at /\ new(o).height = o.height
                      /\ IF \E i \in ins : Spends(i, o) THEN new(o).by = 0 /\ new(o).byHeight = Null
                         ELSE new(o) = o
    BY <1>1
  <2> QED
    BY <1>2, <1>3
<1>5. \A o \in db.outs : \E p \in db'.outs :
         p.id = o.id /\ p.at = o.at /\ ((\A i \in ins : ~Spends(i, o)) => p = o)
  <2> TAKE o \in db.outs
  <2>1. new(o) \in db'.outs
    BY <1>1
  <2>2. (\A i \in ins : ~Spends(i, o)) => new(o) = o
    BY <1>2, <1>3
  <2> QED
    BY <1>2, <2>1, <2>2
<1>6. \A p, q \in db'.outs : p.id = q.id /\ p.at = q.at => p = q
  <2> SUFFICES ASSUME NEW a \in db.outs, NEW b \in db.outs, new(a).id = new(b).id, new(a).at = new(b).at
               PROVE  new(a) = new(b)
    BY <1>1
  <2> QED
    BY <1>2 DEF KeyInv
<1> QED
  BY <1>4, <1>5, <1>6

\* Freeing the outputs of inputs that are not committed leaves the tables right.
LEMMA FreedTable ==
  ASSUME TableInv, storedTip \in Block, storedTip' = storedTip,
         NEW ins, ins \subseteq db.ins, \A i \in ins : ~Committed(i),
         DOMAIN db' = DOMAIN db, db'.next = db.next, db'.tx = db.tx, db'.ins = db.ins,
         db'.outs = Freed(db.outs, ins)
  PROVE  /\ TableInv'
         /\ \A r \in db.tx : (\A i \in ins : i.id # r.id) => Kept(r)
<1> USE DEF TableInv
<1>1. \A p \in db'.outs : \E o \in db.outs :
        /\ DOMAIN p = DOMAIN o
        /\ p.id = o.id /\ p.at = o.at /\ p.height = o.height
        /\ IF \E i \in ins : Spends(i, o) THEN p.by = 0 /\ p.byHeight = Null ELSE p = o
  BY FreedRows
<1>2. \A o \in db.outs : \E p \in db'.outs :
        p.id = o.id /\ p.at = o.at /\ ((\A i \in ins : ~Spends(i, o)) => p = o)
  BY FreedRows
<1>3. \A p, q \in db'.outs : p.id = q.id /\ p.at = q.at => p = q
  BY FreedRows
<1>4. H' = H /\ AllGenerated' = AllGenerated
  BY DEF H, AllGenerated
<1>5. ASSUME NEW r \in db.tx, \A i \in ins : i.id # r.id PROVE Kept(r)
  <2>1. ASSUME NEW o \in db.outs
        PROVE  \E p \in db'.outs : p.id = o.id /\ p.at = o.at /\ (o.by = r.id => p.by = o.by)
    <3>1. PICK p \in db'.outs : p.id = o.id /\ p.at = o.at /\ ((\A i \in ins : ~Spends(i, o)) => p = o)
      BY <1>2
    <3>2. ASSUME o.by = r.id, NEW i \in ins, Spends(i, o) PROVE FALSE
      <4>1. i.id = r.id
        BY <3>2, OneSpender
      <4> QED
        BY <1>5, <4>1
    <3> QED
      BY <3>1, <3>2
  <2> QED
    BY <2>1 DEF Kept, SameInput
<1>6. \A r \in db.tx : Committed(r) => Kept(r)
  <2> SUFFICES ASSUME NEW r \in db.tx, Committed(r), NEW i \in ins, i.id = r.id PROVE FALSE
    BY <1>5
  <2>1. PICK q \in db.tx : With(i, q)
    BY DEF OwnInv
  <2>2. q = r
    BY <2>1 DEF With, KeyInv
  <2> QED
    BY <2>1, <2>2 DEF With, Committed
<1>7. ShapeInv'
  <2>1. \A p \in db'.outs :
          /\ DOMAIN p = {"id", "at", "height", "address", "by", "byAt", "byHeight"}
          /\ p.height \in 0 .. Unconfirmed /\ p.by \in 0 .. db.next
          /\ p.byHeight \in 0 .. Unconfirmed \cup {Null}
    <3> TAKE p \in db'.outs
    <3>1. PICK o \in db.outs :
            /\ DOMAIN p = DOMAIN o /\ p.height = o.height
            /\ (p.by = 0 /\ p.byHeight = Null) \/ p = o
      BY <1>1
    <3> QED
      BY <3>1 DEF ShapeInv
  <2> QED
    BY <1>4, <2>1 DEF ShapeInv
<1>8. KeyInv'
  BY <1>3 DEF KeyInv
<1>9. SpentInv'
  <2> SUFFICES ASSUME NEW p \in db'.outs
               PROVE  /\ p.byHeight \notin {Null, Unconfirmed} =>
                           \E j \in db.ins : Spends(j, p) /\ j.height = p.byHeight
                      /\ \A j \in db.ins : Spends(j, p) /\ Committed(j) => p.byHeight = j.height
    BY <1>4 DEF SpentInv, Committed, Spends
  <2>1. PICK o \in db.outs :
          /\ p.id = o.id /\ p.at = o.at
          /\ IF \E i \in ins : Spends(i, o) THEN p.by = 0 /\ p.byHeight = Null ELSE p = o
    BY <1>1
  <2>2. \A i : Spends(i, o) <=> Spends(i, p)
    BY <2>1 DEF Spends
  <2>3. CASE \E i \in ins : Spends(i, o)
    <3>1. PICK i \in ins : Spends(i, o)
      BY <2>3
    <3>2. \A j \in db.ins : Spends(j, o) => ~Committed(j)
      BY <3>1, OneSpender
    <3> QED
      BY <2>1, <2>2, <2>3, <3>2
  <2>4. CASE ~\E i \in ins : Spends(i, o)
    BY <2>1, <2>4 DEF SpentInv
  <2> QED
    BY <2>3, <2>4
<1>10. Trims
  <2>1. \A p \in db'.outs :
          /\ \E o \in db.outs : /\ p.id = o.id /\ p.at = o.at /\ p.by \in {o.by, 0}
                                /\ Committed(o) \/ Committed(p) => p.height = o.height
          /\ \E s \in db'.tx : s.id = p.id
    <3> TAKE p \in db'.outs
    <3>1. PICK o \in db.outs :
            /\ p.id = o.id /\ p.at = o.at /\ p.height = o.height
            /\ IF \E i \in ins : Spends(i, o) THEN p.by = 0 /\ p.byHeight = Null ELSE p = o
      BY <1>1
    <3>2. PICK s \in db.tx : With(o, s)
      BY DEF OwnInv
    <3> QED
      BY <3>1, <3>2 DEF With
  <2>2. \A j \in db'.ins :
          /\ \E i \in db.ins : /\ SameInput(i, j)
                               /\ Committed(i) \/ Committed(j) => j.height = i.height
          /\ \E s \in db'.tx : s.id = j.id
    BY DEF SameInput, OwnInv, With
  <2> QED
    BY <1>6, <2>1, <2>2 DEF Trims
<1> QED
  BY <1>5, <1>7, <1>8, <1>9, <1>10, TrimsTable

\* The start goes back to the height of the stored tip.
LEMMA StartDepth ==
  ASSUME ProcessInv
  PROVE  Depth[StartTip] = H /\ StartTip \in Block
<1>1. Depth[txTip] \in Nat /\ Depth[storedTip] \in Nat /\ Depth[txTip] >= Depth[storedTip]
  BY DepthNat DEF ProcessInv, H
<1> QED
  BY <1>1 DEF StartTip, H, ProcessInv

\* Statements that only touch the other tables, or advance the ids.
LEMMA QuietTable ==
  ASSUME TableInv, storedTip' = storedTip, DOMAIN db' = DOMAIN db,
         db'.next \in Nat, db'.next >= db.next,
         db'.tx = db.tx, db'.outs = db.outs, db'.ins = db.ins
  PROVE  TableInv'
<1>1. H' = H /\ AllGenerated' = AllGenerated /\ \A x : Committed(x)' <=> Committed(x)
  BY DEF H, AllGenerated, Committed
<1>2. ShapeInv'
  BY <1>1 DEF TableInv, ShapeInv
<1>3. KeyInv' /\ LinkInv' /\ RivalInv'
  BY DEF TableInv, KeyInv, LinkInv, RivalInv
<1>4. OwnInv'
  BY <1>1 DEF TableInv, OwnInv, With
<1>5. SpentInv'
  BY <1>1 DEF TableInv, SpentInv, Spends
<1>6. \A r : Complete(r)' <=> Complete(r)
  BY DEF Complete, Filled, Linking, Spends
<1>7. ChainInv'
  <2>1. {q \in db.tx : Committed(q)}' = {q \in db.tx : Committed(q)}
    BY <1>1
  <2> DEFINE place(r) == [tx |-> r.tx, height |-> r.height, index |-> r.index]
  <2>2. {place(r) : r \in {q \in db.tx : Committed(q)}'} = ChainTxs(storedTip)'
    BY <2>1 DEF TableInv, ChainInv
  <2> QED
    BY <1>1, <1>6, <2>2 DEF TableInv, ChainInv
<1> QED
  BY <1>2, <1>3, <1>4, <1>5, <1>7 DEF TableInv

\* A statement of start() goes on to the next.
LEMMA CleanProcess ==
  ASSUME ProcessInv, Clean
  PROVE  /\ ProcessInv' /\ phase' = "clean" /\ step \in 1 .. 5 /\ step' = step + 1
         /\ storedTip' = storedTip /\ db' = Cleaned(step, db, H) /\ storedTip \in Block
<1>1. /\ UNCHANGED <<storedTip, txTip, phase, synced, tip, block, job, waiting, running>>
      /\ phase = "clean" /\ step <= 5 /\ step' = step + 1 /\ db' = Cleaned(step, db, Depth[StartTip])
  BY DEF Clean, tips, queue, CleanStatements
<1>2. step \in 1 .. 6
  BY <1>1 DEF ProcessInv, CleanStatements
<1>3. ProcessInv'
  BY <1>1, <1>2 DEF ProcessInv, H, CleanStatements
<1> QED
  BY <1>1, <1>2, <1>3, StartDepth DEF ProcessInv

\* The outputs above the stored tip go.
LEMMA CleanFirst ==
  ASSUME LedgerInv, Clean, step = 1
  PROVE  TableInv' /\ CleanInv'
<1> USE DEF LedgerInv, WorkInv, TableInv
<1>1. /\ phase' = "clean" /\ step' = 2 /\ storedTip' = storedTip /\ storedTip \in Block
      /\ db' = Cleaned(1, db, H)
  BY CleanProcess
<1>2. /\ DOMAIN db' = DOMAIN db /\ db'.next = db.next /\ db'.tx = db.tx /\ db'.ins = db.ins
      /\ db'.outs = {o \in db.outs : Committed(o)}
  BY <1>1 DEF Cleaned, ShapeInv, Committed
<1>3. H' = H /\ AllGenerated' = AllGenerated /\ \A x : Committed(x)' <=> Committed(x)
  BY <1>1 DEF H, AllGenerated, Committed
<1>4. ShapeInv' /\ KeyInv'
  BY <1>2, <1>3 DEF ShapeInv, KeyInv
<1>5. SpentInv'
  BY <1>2, <1>3 DEF SpentInv, Spends
<1>6. ASSUME NEW r \in db.tx, Committed(r) PROVE Kept(r)
  <2>1. ASSUME NEW o \in db.outs, o.id = r.id \/ o.by = r.id PROVE Committed(o)
    <3>1. CASE o.id = r.id
      <4>1. PICK q \in db.tx : With(o, q)
        BY DEF OwnInv
      <4>2. q = r
        BY <3>1, <4>1 DEF With, KeyInv
      <4> QED
        BY <1>6, <4>1, <4>2 DEF With, Committed
    <3>2. CASE o.by = r.id
      <4>1. PICK s \in db.tx : With(o, s) /\ [tx |-> s.tx, at |-> o.at] \in Coins(r.tx)
        BY <1>1, <3>2, ByRows
      <4> DEFINE c == [tx |-> s.tx, at |-> o.at]
      <4>2. c \in Coins(r.tx) /\ c.tx = s.tx
        BY <4>1
      <4>3. Committed(s)
        BY <1>1, <1>6, <4>2, CommittedSources
      <4> QED
        BY <4>1, <4>3 DEF With, Committed
    <3> QED
      BY <2>1, <3>1, <3>2
  <2> QED
    BY <1>2, <2>1 DEF Kept, SameInput
<1>7. Trims
  <2>1. \A p \in db'.outs : \E s \in db'.tx : s.id = p.id
    BY <1>2 DEF OwnInv, With
  <2>2. \A j \in db'.ins : SameInput(j, j) /\ \E s \in db'.tx : s.id = j.id
    BY <1>2 DEF OwnInv, With, SameInput
  <2> QED
    BY <1>1, <1>2, <1>6, <2>1, <2>2 DEF Trims
<1>8. TableInv'
  BY <1>1, <1>4, <1>5, <1>7, TrimsTable
<1>9. CleanInv'
  BY <1>1, <1>2, <1>3 DEF CleanInv
<1> QED
  BY <1>8, <1>9

\* The inputs above it let go of what they spend.
LEMMA CleanSecond ==
  ASSUME LedgerInv, Clean, step = 2
  PROVE  TableInv' /\ CleanInv'
<1> USE DEF LedgerInv, WorkInv
<1>1. /\ phase' = "clean" /\ step' = 3 /\ storedTip' = storedTip /\ storedTip \in Block
      /\ db' = Cleaned(2, db, H)
  BY CleanProcess
<1> DEFINE ins == {i \in db.ins : i.height > H}
<1>2. \A i \in db.ins : i.height > H <=> ~Committed(i)
  BY <1>1, Heights DEF Committed, TableInv
<1>3. /\ DOMAIN db' = DOMAIN db /\ db'.next = db.next /\ db'.tx = db.tx /\ db'.ins = db.ins
      /\ db'.outs = Freed(db.outs, ins)
  BY <1>1 DEF Cleaned, TableInv, ShapeInv
<1>4. ins \subseteq db.ins /\ \A i \in ins : ~Committed(i)
  BY <1>2
<1>5. \A i \in db.ins : ~Committed(i) => i \in ins
  BY <1>2
<1> HIDE DEF ins
<1>6. TableInv'
  BY <1>1, <1>3, <1>4, FreedTable
<1>7. \A p \in db'.outs : \E o \in db.outs :
        /\ p.id = o.id /\ p.at = o.at /\ p.height = o.height
        /\ IF \E i \in ins : Spends(i, o) THEN p.by = 0 /\ p.byHeight = Null ELSE p = o
  <2>1. \A p \in db'.outs : \E o \in db.outs :
         /\ DOMAIN p = DOMAIN o
         /\ p.id = o.id /\ p.at = o.at /\ p.height = o.height
         /\ IF \E i \in ins : Spends(i, o) THEN p.by = 0 /\ p.byHeight = Null ELSE p = o
    BY <1>3, FreedRows DEF TableInv
  <2> QED
    BY <2>1
<1>8. H' = H /\ \A x : Committed(x)' <=> Committed(x)
  BY <1>1 DEF H, Committed
<1>9. \A o \in db.outs : Committed(o)
  BY DEF Clean, CleanInv
<1>10. \A p \in db'.outs : Committed(p)'
  BY <1>7, <1>8, <1>9 DEF Committed
<1>11. ASSUME NEW i \in db'.ins, NEW p \in db'.outs, Spends(i, p), ~Committed(i)
       PROVE  p.byHeight = Null
  <2>1. PICK o \in db.outs :
          /\ p.id = o.id /\ p.at = o.at
          /\ IF \E j \in ins : Spends(j, o) THEN p.by = 0 /\ p.byHeight = Null ELSE p = o
    BY <1>7
  <2>2. i \in ins /\ Spends(i, o)
    BY <1>3, <1>5, <1>11, <2>1 DEF Spends
  <2> QED
    BY <2>1, <2>2
<1>12. CleanInv'
  BY <1>1, <1>8, <1>10, <1>11 DEF CleanInv, Spends
<1> QED
  BY <1>6, <1>12

\* Those inputs go.
LEMMA CleanThird ==
  ASSUME LedgerInv, Clean, step = 3
  PROVE  TableInv' /\ CleanInv'
<1> USE DEF LedgerInv, WorkInv, TableInv
<1>1. /\ phase' = "clean" /\ step' = 4 /\ storedTip' = storedTip /\ storedTip \in Block
      /\ db' = Cleaned(3, db, H)
  BY CleanProcess
<1>2. /\ DOMAIN db' = DOMAIN db /\ db'.next = db.next /\ db'.tx = db.tx /\ db'.outs = db.outs
      /\ db'.ins = {i \in db.ins : Committed(i)}
  BY <1>1 DEF Cleaned, ShapeInv, Committed
<1>3. H' = H /\ AllGenerated' = AllGenerated /\ \A x : Committed(x)' <=> Committed(x)
  BY <1>1 DEF H, AllGenerated, Committed
<1>4. ShapeInv' /\ KeyInv'
  BY <1>2, <1>3 DEF ShapeInv, KeyInv
<1>5. SpentInv'
  <2>1. ASSUME NEW o \in db.outs, o.byHeight \notin {Null, Unconfirmed}
        PROVE  \E i \in db'.ins : Spends(i, o) /\ i.height = o.byHeight
    <3>1. PICK i \in db.ins : Spends(i, o) /\ i.height = o.byHeight
      BY <2>1 DEF SpentInv
    <3>2. Committed(i)
      BY <2>1, <3>1 DEF CleanInv, Clean
    <3> QED
      BY <1>2, <3>1, <3>2
  <2> QED
    BY <1>2, <1>3, <2>1 DEF SpentInv, Spends
<1>6. ASSUME NEW r \in db.tx, Committed(r) PROVE Kept(r)
  <2>1. ASSUME NEW i \in db.ins, i.id = r.id PROVE Committed(i)
    <3>1. PICK q \in db.tx : With(i, q)
      BY DEF OwnInv
    <3>2. q = r
      BY <2>1, <3>1 DEF With, KeyInv
    <3> QED
      BY <1>6, <3>1, <3>2 DEF With, Committed
  <2> QED
    BY <1>2, <2>1 DEF Kept, SameInput
<1>7. Trims
  <2>1. \A p \in db'.outs : \E s \in db'.tx : s.id = p.id
    BY <1>2 DEF OwnInv, With
  <2>2. \A j \in db'.ins : SameInput(j, j) /\ \E s \in db'.tx : s.id = j.id
    BY <1>2 DEF OwnInv, With, SameInput
  <2> QED
    BY <1>1, <1>2, <1>6, <2>1, <2>2 DEF Trims
<1>8. TableInv'
  BY <1>1, <1>4, <1>5, <1>7, TrimsTable
<1>9. CleanInv'
  BY <1>1, <1>2, <1>3 DEF CleanInv, Clean
<1> QED
  BY <1>8, <1>9

\* Their transactions go.
LEMMA CleanFourth ==
  ASSUME LedgerInv, Clean, step = 4
  PROVE  TableInv' /\ CleanInv'
<1> USE DEF LedgerInv, WorkInv, TableInv
<1>1. /\ phase' = "clean" /\ step' = 5 /\ storedTip' = storedTip /\ storedTip \in Block
      /\ db' = Cleaned(4, db, H)
  BY CleanProcess
<1>2. /\ DOMAIN db' = DOMAIN db /\ db'.next = db.next /\ db'.outs = db.outs /\ db'.ins = db.ins
      /\ db'.tx = db.tx \ {r \in db.tx : r.height > H}
  <2> DEFINE dead == {r \in db.tx : r.height > H}
             witness == db.witness \ {r.tx : r \in dead}
             receipts == {r \in db.receipts : r.id \notin Ids(dead)}
             logs == {l \in db.logs : l.receipt \notin Ids(dead)}
             balances == {b \in db.balances : b.id \notin Ids(dead)}
  <2>1. db' = [db EXCEPT !.tx = db.tx \ dead, !.witness = witness, !.receipts = receipts,
                         !.logs = logs, !.balances = balances]
    BY <1>1 DEF Cleaned
  <2> HIDE DEF witness, receipts, logs, balances
  <2> QED
    BY <2>1 DEF ShapeInv
<1>3. db'.tx = {r \in db.tx : Committed(r)}
  BY <1>1, <1>2, Heights DEF Committed
<1>4. H' = H /\ AllGenerated' = AllGenerated /\ \A x : Committed(x)' <=> Committed(x)
  BY <1>1 DEF H, AllGenerated, Committed
<1>5. \A x \in db.outs \cup db.ins : Committed(x)
  BY DEF CleanInv, Clean
<1>6. ShapeInv' /\ KeyInv' /\ SpentInv'
  BY <1>2, <1>3, <1>4 DEF ShapeInv, KeyInv, SpentInv, Spends
<1>7. \A r \in db.tx : Kept(r)
  BY <1>2 DEF Kept, SameInput
<1>8. \A x \in db.outs \cup db.ins : \E s \in db'.tx : s.id = x.id
  <2> TAKE x \in db.outs \cup db.ins
  <2>1. PICK s \in db.tx : With(x, s)
    BY DEF OwnInv
  <2>2. Committed(s)
    BY <1>5, <2>1 DEF With, Committed
  <2> QED
    BY <1>3, <2>1, <2>2 DEF With
<1>9. Trims
  <2>1. \A j : SameInput(j, j)
    BY DEF SameInput
  <2>2. \A r \in db.tx : Committed(r) => r \in db'.tx /\ Kept(r)
    BY <1>3, <1>7
  <2>3. \A s \in db'.tx : \E r \in db.tx : s.id = r.id /\ s.tx = r.tx /\ (Committed(r) \/ Committed(s) => s = r)
    BY <1>3
  <2> QED
    BY <1>1, <1>2, <1>8, <2>1, <2>2, <2>3 DEF Trims
<1>10. TableInv'
  BY <1>1, <1>6, <1>9, TrimsTable
<1>11. CleanInv'
  BY <1>1, <1>2, <1>3, <1>4 DEF CleanInv, Clean, Spends
<1> QED
  BY <1>10, <1>11

\* Every statement of start() preserves the invariant.
LEMMA CleanStep ==
  ASSUME LedgerInv, Clean
  PROVE  LedgerInv'
<1> USE DEF LedgerInv, WorkInv
<1>1. /\ ProcessInv' /\ phase' = "clean" /\ step \in 1 .. 5 /\ step' = step + 1
      /\ storedTip' = storedTip /\ db' = Cleaned(step, db, H) /\ storedTip \in Block
  BY CleanProcess
<1>2. TableInv' /\ CleanInv'
  <2>1. CASE step = 1
    BY <2>1, CleanFirst
  <2>2. CASE step = 2
    BY <2>2, CleanSecond
  <2>3. CASE step = 3
    BY <2>3, CleanThird
  <2>4. CASE step = 4
    BY <2>4, CleanFourth
  <2>5. CASE step = 5
    <3>1. /\ DOMAIN db' = DOMAIN db /\ db'.next = db.next
          /\ db'.tx = db.tx /\ db'.outs = db.outs /\ db'.ins = db.ins
      BY <1>1, <2>5 DEF Cleaned, TableInv, ShapeInv
    <3>2. TableInv'
      BY <1>1, <3>1, QuietTable DEF TableInv, ShapeInv
    <3>3. CleanInv'
      BY <1>1, <2>5, <3>1 DEF CleanInv, Clean, Spends, Committed, H
    <3> QED
      BY <3>2, <3>3
  <2> QED
    BY <1>1, <2>1, <2>2, <2>3, <2>4, <2>5
<1>3. WorkInv'
  BY <1>1, <1>2, IdleWork
<1> QED
  BY <1>2, <1>3

-----------------------------------------------------------------------------
(* The beginning, a stop and the end of a start.                           *)

\* The invariant of the tables is about them and the stored tip alone.
LEMMA SameTable ==
  ASSUME TableInv, storedTip' = storedTip, db' = db
  PROVE  TableInv'
<1>1. db.next \in Nat
  BY DEF TableInv, ShapeInv
<1> QED
  BY <1>1, QuietTable

\* A stop leaves the tables as they are, whatever was under way.
LEMMA LedgerStop ==
  ASSUME LedgerInv, NEW reason, Stop(reason)
  PROVE  LedgerInv'
<1>1. /\ phase' = "down" /\ synced' = FALSE /\ block' = NoBlock
      /\ job' = [w \in Handler |-> NoJob] /\ waiting' = <<>> /\ running' = NoTx
      /\ UNCHANGED <<db, storedTip, txTip, tip>>
  BY DEF Stop, tips
<1>2. TableInv'
  BY <1>1, SameTable DEF LedgerInv
<1>3. \A w \in Handler : job'[w] = NoJob
  BY <1>1
<1>4. ProcessInv'
  <2>1. <<>> \in Seq(Relayed)
    OBVIOUS
  <2>2. \A w \in Handler : /\ DOMAIN job'[w] = {"pc", "txs", "todo", "ids", "found", "known"}
                           /\ job'[w].pc = "none"
    BY <1>3 DEF NoJob
  <2>3. "mempool" \in Handler
    BY DEF Handler
  <2> QED
    BY <1>1, <2>1, <2>2, <2>3 DEF ProcessInv, H, LedgerInv, WorkInv
<1>5. CleanInv'
  BY <1>1 DEF CleanInv
<1> QED
  BY <1>1, <1>2, <1>4, <1>5, IdleWork DEF LedgerInv

\* A start reads the stored tip.
LEMMA LedgerStart ==
  ASSUME LedgerInv, Start
  PROVE  LedgerInv'
<1> USE DEF LedgerInv, WorkInv
<1>1. /\ phase = "down" /\ phase' = "clean" /\ step' = 1 /\ tip' = storedTip
      /\ UNCHANGED <<db, storedTip, txTip, synced, block, job, waiting, running>>
  BY DEF Start, tips, queue
<1>2. TableInv'
  BY <1>1, SameTable
<1>3. ProcessInv'
  BY <1>1 DEF ProcessInv, H, CleanStatements
<1>4. CleanInv'
  BY <1>1 DEF CleanInv
<1> QED
  BY <1>1, <1>2, <1>3, <1>4, IdleWork

\* After the last statement the tables hold the chain and nothing else.
LEMMA LedgerStarted ==
  ASSUME LedgerInv, StoreStartTip
  PROVE  LedgerInv'
<1> USE DEF LedgerInv, WorkInv
<1>1. /\ phase = "clean" /\ step > 5 /\ phase' = "run" /\ txTip' = StartTip
      /\ UNCHANGED <<db, storedTip, synced, tip, block, job, waiting, running>>
  BY DEF StoreStartTip, queue, CleanStatements
<1>2. TableInv'
  BY <1>1, SameTable
<1>3. /\ ~synced /\ block = NoBlock /\ (\A w \in Handler : job[w].pc = "none")
      /\ running = NoTx /\ waiting = <<>>
  BY <1>1 DEF ProcessInv
<1>4. "block" \in Handler /\ "mempool" \in Handler
  BY DEF Handler
<1>5. ProcessInv'
  <2>1. StartTip \in Block /\ Depth[StartTip] = H /\ H \in Nat
    BY StartDepth, DepthNat DEF ProcessInv, H
  <2> QED
    BY <1>1, <1>3, <1>4, <2>1 DEF ProcessInv, H
<1>6. step \in Nat
  BY <1>1 DEF ProcessInv, CleanStatements
<1>7. \A x \in db.tx \cup db.outs \cup db.ins : Committed(x)
  BY <1>1, <1>6 DEF CleanInv
<1>8. CompleteInv'
  <2>1. \A r \in db'.tx : Complete(r)'
    BY <1>1, <1>2, <1>7 DEF TableInv, ChainInv, Committed, H
  <2> QED
    BY <2>1 DEF CompleteInv, Whole
<1>9. HeightInv'
  <2>1. ASSUME NEW x \in db.outs \cup db.ins, NEW r \in db.tx, r.id = x.id
        PROVE  x.height = r.height
    <3>1. PICK q \in db.tx : With(x, q)
      BY DEF TableInv, OwnInv
    <3>2. q = r
      BY <2>1, <3>1 DEF With, TableInv, KeyInv
    <3> QED
      BY <1>7, <3>1, <3>2 DEF With
  <2>2. job'["block"].pc = "none"
    BY <1>1, <1>3, <1>4
  <2>3. \A r \in db'.tx : Committed(r)'
    BY <1>1, <1>7 DEF Committed, H
  <2> QED
    BY <1>1, <2>1, <2>2, <2>3 DEF HeightInv
<1>10. Queued' = {}
  BY <1>1, <1>3 DEF Queued, ToSet
<1>11. (\A w \in Handler : WriteInv(w))'
  BY <1>1, <1>3 DEF WriteInv, Filling
<1>12. CleanInv' /\ UndoInv' /\ QueueInv' /\ MempoolInv' /\ BlockInv'
  BY <1>1, <1>3, <1>10 DEF CleanInv, UndoInv, QueueInv, MempoolInv, BlockInv
<1> QED
  BY <1>2, <1>5, <1>8, <1>9, <1>11, <1>12

\* onSynced() finds nothing under way.
LEMMA LedgerSynced ==
  ASSUME LedgerInv, OnSynced
  PROVE  LedgerInv'
<1> USE DEF LedgerInv, WorkInv
<1>1. /\ phase = "run" /\ block = NoBlock /\ ~synced /\ synced' = TRUE
      /\ UNCHANGED <<db, storedTip, txTip, phase, step, tip, block, job, waiting, running>>
  BY DEF OnSynced, tips, queue
<1>2. TableInv'
  BY <1>1, SameTable
<1>3. running = NoTx /\ waiting = <<>>
  BY <1>1 DEF ProcessInv
<1>4. ProcessInv'
  BY <1>1, <1>3 DEF ProcessInv, H
<1>5. CompleteInv'
  BY <1>1 DEF CompleteInv, Whole, Complete, Filled, Linking, Spends, InProgress, Filling, Committed, H, AllGenerated
<1>6. HeightInv'
  BY <1>1 DEF HeightInv, Looking, Committed, H, BlockTx
<1>7. Queued' = {}
  BY <1>1, <1>3 DEF Queued, ToSet
<1>8. (\A w \in Handler : WriteInv(w))'
  BY <1>1 DEF WriteInv, Filling, Filled, Unlinked, Empty, IdsRight
<1>9. CleanInv' /\ UndoInv' /\ QueueInv' /\ MempoolInv' /\ BlockInv'
  BY <1>1, <1>3, <1>7 DEF CleanInv, UndoInv, QueueInv, MempoolInv, BlockInv
<1> QED
  BY <1>2, <1>4, <1>5, <1>6, <1>8, <1>9

\* The tables of the genesis block are those of its chain.
LEMMA LedgerInit ==
  ASSUME Init
  PROVE  LedgerInv
<1>1. /\ db = GenesisTables /\ storedTip = Genesis /\ txTip = Genesis /\ tip = Genesis
      /\ phase = "down" /\ step = 0 /\ synced = FALSE /\ block = NoBlock
      /\ job = [w \in Handler |-> NoJob] /\ waiting = <<>> /\ running = NoTx
  BY DEF Init, Queue!Init
<1>2. PICK t \in Tx : Contents[Genesis] = <<t>> /\ Len(Inputs[t]) = 1 /\ Len(Pays[t]) = 1
  BY GenesisAssumption
<1>3. Genesis \in Block /\ H = 0
  BY <1>1, GenesisDepth, TreeAssumption DEF H
<1>4. Contents[Genesis][1] = t /\ DOMAIN Contents[Genesis] = {1}
  <2>1. DOMAIN <<t>> = {1} /\ <<t>>[1] = t
    OBVIOUS
  <2> QED
    BY <1>2, <2>1
<1>5. DOMAIN Inputs[t] = {1} /\ DOMAIN Pays[t] = {1}
  <2>1. Inputs[t] \in Seq([tx : Tx \cup {NoTx}, at : Nat]) /\ Pays[t] \in Seq(Address)
    BY LedgerAssumption
  <2>2. DOMAIN Inputs[t] = 1 .. 1 /\ DOMAIN Pays[t] = 1 .. 1
    BY <1>2, <2>1
  <2> QED
    BY <2>2
<1>6. Inputs[t][1].tx = NoTx
  <2>1. Inputs[t][1] \in Outpoints(t)
    BY <1>5 DEF Outpoints, ToSet
  <2> QED
    BY <1>3, <1>4, <2>1, ChainAssumption
<1> DEFINE r0 == [id |-> 1, tx |-> t, height |-> 0, index |-> 0]
           o0 == [id |-> 1, at |-> 1, height |-> 0, address |-> 2, by |-> 0, byAt |-> 0,
                  byHeight |-> Null]
           i0 == [id |-> 1, at |-> 1, height |-> 0, address |-> 0, from |-> 0, fromAt |-> 0]
<1>7. /\ db.tx = {r0} /\ db.outs = {o0} /\ db.ins = {i0} /\ db.next = 2
      /\ DOMAIN db = {"tx", "outs", "ins", "balances", "witness", "receipts", "logs", "spends",
                      "refunds", "addresses", "next"}
  BY <1>1, <1>4 DEF GenesisTables
<1>8. Unconfirmed \in Nat /\ Unconfirmed > 1 /\ Null \notin Nat
  BY LedgerAssumption
<1>9. ShapeInv /\ KeyInv /\ LinkInv /\ RivalInv /\ SpentInv
  <2>1. ShapeInv
    BY <1>7, <1>8 DEF ShapeInv
  <2>2. KeyInv /\ LinkInv /\ RivalInv
    BY <1>7 DEF KeyInv, LinkInv, RivalInv
  <2>3. SpentInv
    BY <1>7 DEF SpentInv, Spends
  <2> QED
    BY <2>1, <2>2, <2>3
<1>10. OwnInv
  BY <1>5, <1>7 DEF OwnInv, With
<1>11. ChainInv
  <2> DEFINE place(r) == [tx |-> r.tx, height |-> r.height, index |-> r.index]
             x0 == [tx |-> t, height |-> 0, index |-> 0]
  <2>1. \A x : x \in ChainTxs(Genesis) <=> x = x0
    <3>1. Branch[Genesis][0] = Genesis /\ Depth[Genesis] = 0
      BY <1>3, GenesisDepth, BranchAssumption
    <3>2. \A x : x \in ChainTxs(Genesis) <=>
            \E d \in 0 .. 0 : \E n \in {1} : x = [tx |-> Contents[Branch[Genesis][d]][n], height |-> d, index |-> n - 1]
      <4> TAKE x
      <4>1. x \in ChainTxs(Genesis) <=> \E d \in 0 .. Depth[Genesis] : \E n \in DOMAIN Contents[Branch[Genesis][d]] :
              x = [tx |-> Contents[Branch[Genesis][d]][n], height |-> d, index |-> n - 1]
        BY <1>3, ChainTxsMember
      <4>2. \A d \in 0 .. 0 : DOMAIN Contents[Branch[Genesis][d]] = {1}
        BY <1>4, <3>1
      <4> QED
        BY <3>1, <4>1, <4>2
    <3> QED
      BY <1>4, <3>1, <3>2
  <2>2. {q \in db.tx : Committed(q)} = {r0}
    BY <1>3, <1>7 DEF Committed
  <2>3. {place(r) : r \in {r0}} = {x0}
    OBVIOUS
  <2>4. ChainTxs(Genesis) = {x0}
    BY <2>1
  <2>5. Complete(r0)
    BY <1>5, <1>6, <1>7 DEF Complete, Filled, Linking
  <2> QED
    BY <1>1, <1>7, <2>2, <2>3, <2>4, <2>5 DEF ChainInv
<1>12. \A w \in Handler : job[w] = NoJob
  BY <1>1
<1>13. \A w \in Handler : /\ DOMAIN job[w] = {"pc", "txs", "todo", "ids", "found", "known"}
                          /\ job[w].pc = "none"
  BY <1>12 DEF NoJob
<1>14. ProcessInv
  <2>1. <<>> \in Seq(Relayed) /\ "mempool" \in Handler
    BY DEF Handler
  <2>2. Depth[txTip] >= H /\ storedTip \in Block /\ txTip \in Block
    BY <1>1, <1>3, GenesisDepth
  <2>3. DOMAIN job = Handler /\ waiting \in Seq(Relayed) /\ running \in Relayed \cup {NoTx}
    BY <1>1, <2>1
  <2> QED
    BY <1>1, <1>13, <2>1, <2>2, <2>3 DEF ProcessInv
<1>15. Queued = {}
  BY <1>1 DEF Queued, ToSet
<1>16. (\A w \in Handler : WriteInv(w))
  BY <1>13 DEF WriteInv, Filling
<1>17. CleanInv /\ UndoInv /\ CompleteInv /\ HeightInv /\ QueueInv /\ MempoolInv /\ BlockInv
  BY <1>1, <1>15 DEF CleanInv, UndoInv, CompleteInv, HeightInv, QueueInv, MempoolInv, BlockInv
<1> QED
  BY <1>9, <1>10, <1>11, <1>14, <1>16, <1>17 DEF LedgerInv, TableInv, WorkInv

-----------------------------------------------------------------------------
(* What the peers send.                                                    *)

\* A transaction is in its lineage,
LEMMA LineageSelf ==
  ASSUME NEW t
  PROVE  t \in Lineage(t)
  BY DEF Lineage

\* which is closed,
LEMMA LineageClosed ==
  ASSUME NEW t, NEW s \in Lineage(t), NEW o \in Outpoints(s),
         o.tx = t \/ \E r \in db.tx : r.tx = o.tx /\ r.height = Unconfirmed
  PROVE  o.tx \in Lineage(t)
<1> DEFINE all == {t} \cup {r.tx : r \in {q \in db.tx : q.height = Unconfirmed}}
           closed == {S \in SUBSET all : t \in S /\ \A x \in S : \A c \in Outpoints(x) : c.tx \in all => c.tx \in S}
<1>1. Lineage(t) = {x \in all : \A S \in closed : x \in S}
  BY DEF Lineage
<1>2. o.tx \in all
  OBVIOUS
<1>3. \A S \in closed : o.tx \in S
  <2> TAKE S \in closed
  <2>1. s \in S
    BY <1>1
  <2> QED
    BY <1>2, <2>1
<1> QED
  BY <1>1, <1>2, <1>3

\* and is in every closed set that holds the transaction.
LEMMA LineageLeast ==
  ASSUME NEW t, NEW S, t \in S,
         \A s \in S : \A o \in Outpoints(s) :
           o.tx = t \/ (\E r \in db.tx : r.tx = o.tx /\ r.height = Unconfirmed) => o.tx \in S
  PROVE  Lineage(t) \subseteq S
<1> DEFINE all == {t} \cup {r.tx : r \in {q \in db.tx : q.height = Unconfirmed}}
           closed == {C \in SUBSET all : t \in C /\ \A x \in C : \A c \in Outpoints(x) : c.tx \in all => c.tx \in C}
<1>1. Lineage(t) = {x \in all : \A C \in closed : x \in C}
  BY DEF Lineage
<1>2. \A x : x \in all => x = t \/ \E r \in db.tx : r.tx = x /\ r.height = Unconfirmed
  OBVIOUS
<1>3. t \in all
  OBVIOUS
<1> HIDE DEF all
<1>4. S \cap all \in closed
  BY <1>2, <1>3
<1> HIDE DEF closed
<1> QED
  BY <1>1, <1>4

\* What is queued was sent by a peer.
LEMMA QueuedType ==
  ASSUME ProcessInv
  PROVE  /\ \A t \in Queued : t \in Relayed /\ t \in Tx
         /\ running # NoTx => running \in Queued
<1>1. \A n \in DOMAIN waiting : waiting[n] \in Relayed
  BY SeqElement DEF ProcessInv
<1> QED
  BY <1>1, LedgerAssumption DEF ProcessInv, Queued, ToSet

\* What has nothing to do with a block, nor has anything it rests on, is a stranger to it.
LEMMA ApartStranger ==
  ASSUME NEW t \in Tx, NEW b \in Block, Apart(t, b)
  PROVE  Stranger(t, b)
<1>1. \A s \in ToSet(Contents[b]) :
        s # t /\ Outpoints(s) \cap Outpoints(t) = {} /\ \A o \in Outpoints(s) : o.tx # t
  BY LineageSelf DEF Apart
<1>2. \A o \in Outpoints(t) : o.tx \notin GeneratedBy(b)
  BY DEF Apart
<1> QED
  BY <1>1, <1>2 DEF Stranger, Coins

\* Nothing around the tip is one that the peers send, spends the same or rests on it.
LEMMA QueuedApart ==
  ASSUME ProcessInv, QueueInv, phase \in {"run", "undo"}, NEW t \in Queued
  PROVE  /\ t \notin AroundTx
         /\ \A s \in AroundTx : Coins(s) \cap Coins(t) = {}
         /\ \A s \in AroundTx : \A o \in Coins(s) : o.tx # t
         /\ t \notin ChainTx /\ ChainTx \subseteq AroundTx
<1>1. t \in Tx /\ t \notin ChainTx /\ \A s \in ChainTx : Coins(s) \cap Coins(t) = {}
  BY QueuedType DEF QueueInv
<1>2. \A s \in ChainTx : \A o \in Coins(s) : o.tx # t
  BY <1>1, ChainClosed DEF ProcessInv, ChainTx, H
<1>3. CASE block = NoBlock
  BY <1>1, <1>2, <1>3 DEF AroundTx, Around, ChainTx, H
<1>4. CASE block # NoBlock
  <2>1. block \in Block /\ OnBranch(storedTip, block) /\ storedTip \in Block /\ tip = storedTip
    <3>1. CASE phase = "undo"
      BY <3>1 DEF ProcessInv
    <3>2. CASE phase = "run"
      BY <1>4, <3>2, OnBranchParent DEF ProcessInv
    <3> QED
      BY <3>1, <3>2
  <2>2. \A d \in Depth[storedTip] + 1 .. Depth[block] : Stranger(t, Branch[block][d])
    <3>1. CASE phase = "undo"
      <4>1. \A b \in Touched : Stranger(t, b)
        BY <3>1 DEF QueueInv
      <4>2. Touched = {Branch[block][d] : d \in Depth[storedTip] + 1 .. Depth[block]}
        BY <1>4, <2>1 DEF Touched
      <4> QED
        BY <4>1, <4>2
    <3>2. CASE phase = "run"
      <4>1. Depth[block] = Depth[storedTip] + 1 /\ Branch[block][Depth[block]] = block
        BY <1>4, <2>1, <3>2, OnBranchParent, BranchAssumption DEF ProcessInv
      <4>2. Stranger(t, block)
        BY <1>1, <1>4, <2>1, <3>2, ApartStranger DEF QueueInv
      <4>3. \A d \in Depth[storedTip] + 1 .. Depth[block] : d = Depth[block]
        BY <2>1, <4>1, DepthNat
      <4> QED
        BY <4>1, <4>2, <4>3
    <3> QED
      BY <3>1, <3>2
  <2>3. AroundTx = TxsUpTo(block, Depth[block])
    BY <1>4 DEF AroundTx, Around
  <2>4. \A s \in AroundTx : s \in ChainTx \/ \E d \in Depth[storedTip] + 1 .. Depth[block] : s \in ToSet(Contents[Branch[block][d]])
    BY <2>1, <2>3, ChainAbove DEF ChainTx, H
  <2>5. ChainTx \subseteq AroundTx
    BY <2>1, <2>3, ChainDown DEF ChainTx, H
  <2> QED
    BY <1>1, <1>2, <2>2, <2>4, <2>5 DEF Stranger
<1> QED
  BY <1>3, <1>4

\* The chain around the tip holds what it spends, and no rivals.
LEMMA AroundChain ==
  ASSUME ProcessInv, phase \in {"run", "undo"}
  PROVE  /\ Around \in Block /\ ChainTx \subseteq AroundTx /\ AroundTx \subseteq Tx
         /\ OnBranch(storedTip, Around)
         /\ \A s \in AroundTx : \A o \in Coins(s) : o.tx \in AroundTx /\ o.at \in DOMAIN Pays[o.tx]
         /\ \A s, t \in AroundTx : s # t => Coins(s) \cap Coins(t) = {}
         /\ phase = "run" /\ block # NoBlock =>
              /\ AroundTx = ChainTx \cup BlockTx /\ ChainTx \cap BlockTx = {}
              /\ block \in Block /\ Depth[block] = H + 1
         /\ block = NoBlock => AroundTx = ChainTx
<1>1. Around \in Block /\ OnBranch(storedTip, Around) /\ storedTip \in Block
  <2>1. CASE block = NoBlock
    BY <2>1, OnBranchSelf DEF Around, ProcessInv
  <2>2. CASE block # NoBlock /\ phase = "undo"
    BY <2>2 DEF Around, ProcessInv
  <2>3. CASE block # NoBlock /\ phase = "run"
    BY <2>3, OnBranchParent DEF Around, ProcessInv
  <2> QED
    BY <2>1, <2>2, <2>3
<1>2. \A s \in AroundTx : \A o \in Coins(s) : o.tx \in AroundTx /\ o.at \in DOMAIN Pays[o.tx]
  BY <1>1, ChainClosed DEF AroundTx
<1>3. \A s, t \in AroundTx : s # t => Coins(s) \cap Coins(t) = {}
  BY <1>1, ChainRivals DEF AroundTx
<1>4. ChainTx \subseteq AroundTx /\ AroundTx \subseteq Tx
  BY <1>1, ChainDown, ChainTxsType DEF AroundTx, ChainTx, H
<1>5. phase = "run" /\ block # NoBlock =>
        /\ AroundTx = ChainTx \cup BlockTx /\ ChainTx \cap BlockTx = {}
        /\ block \in Block /\ Depth[block] = H + 1
  <2> SUFFICES ASSUME phase = "run", block # NoBlock
               PROVE  /\ AroundTx = ChainTx \cup BlockTx /\ ChainTx \cap BlockTx = {}
                      /\ block \in Block /\ Depth[block] = H + 1
    OBVIOUS
  <2>1. block \in Block /\ Parent[block] = storedTip
    BY DEF ProcessInv
  <2> QED
    BY <1>1, <2>1, ChainUp DEF AroundTx, Around, ChainTx, H, BlockTx
<1>6. block = NoBlock => AroundTx = ChainTx
  BY DEF AroundTx, Around, ChainTx, H
<1> QED
  BY <1>1, <1>2, <1>3, <1>4, <1>5, <1>6

-----------------------------------------------------------------------------
(* Reorganizations.                                                        *)

\* The tip that a reorganization stores is that of a part of the chain.
LEMMA GoBackTable ==
  ASSUME LedgerInv, NEW a \in Block, GoBack(a)
  PROVE  /\ TableInv'
         /\ H' < H /\ storedTip' = a /\ OnBranch(a, storedTip) /\ a # storedTip
         /\ \A x : Committed(x)' => Committed(x) \/ x.height \notin Nat
<1> USE DEF LedgerInv, WorkInv, TableInv
<1>1. /\ phase = "run" /\ block = NoBlock /\ storedTip' = a /\ db' = db /\ storedTip \in Block
      /\ a # storedTip /\ OnBranch(a, storedTip)
  BY DEF GoBack, ProcessInv
<1>2. H' = Depth[a] /\ Depth[a] \in Nat /\ H \in Nat /\ H' <= H
  BY <1>1, DepthNat DEF H, OnBranch
<1>3. H' # H
  BY <1>1, OnBranchSelf, OnBranchSame DEF H
<1>4. \A x : Committed(x)' <=> x.height <= Depth[a]
  BY <1>2 DEF Committed
<1>5. \A x \in db.tx \cup db.outs \cup db.ins : Committed(x)' => Committed(x)
  <2> TAKE x \in db.tx \cup db.outs \cup db.ins
  <2>1. x.height \in Nat
    BY <1>1, Heights
  <2> QED
    BY <1>2, <1>4, <2>1 DEF Committed
<1>6. \A x \in db.outs \cup db.ins : \A r \in db.tx : r.id = x.id => x.height = r.height
  <2>1. job["block"].pc = "none"
    BY <1>1 DEF ProcessInv
  <2> QED
    BY <1>1, <2>1 DEF HeightInv
<1>7. ShapeInv' /\ KeyInv' /\ LinkInv' /\ RivalInv'
  BY <1>1 DEF ShapeInv, KeyInv, LinkInv, RivalInv, AllGenerated
<1>8. OwnInv'
  <2>1. \A o \in db.outs : \E r \in db.tx : r.id = o.id /\ o.at \in DOMAIN Pays[r.tx]
    BY DEF OwnInv, With
  <2>2. \A i \in db.ins : \E r \in db.tx : r.id = i.id /\ i.at \in DOMAIN Inputs[r.tx]
    BY DEF OwnInv, With
  <2> QED
    BY <1>1, <1>6, <2>1, <2>2 DEF OwnInv, With
<1>9. SpentInv'
  BY <1>1, <1>5 DEF SpentInv, Spends
<1>10. ChainInv'
  <2> DEFINE place(r) == [tx |-> r.tx, height |-> r.height, index |-> r.index]
             low == {q \in db.tx : q.height <= Depth[a]}
  <2>1. {q \in db.tx : Committed(q)}' = low
    BY <1>1, <1>4
  <2>2. {place(r) : r \in {q \in db.tx : Committed(q)}} = ChainTxs(storedTip)
    BY DEF ChainInv
  <2>3. \A x : x \in ChainTxs(a) <=> x \in ChainTxs(storedTip) /\ x.height <= Depth[a]
    BY <1>1, ChainDown
  <2>4. ASSUME NEW r \in low PROVE place(r) \in ChainTxs(a)
    <3>1. Committed(r) /\ place(r).height <= Depth[a]
      BY <1>4, <1>5
    <3> QED
      BY <2>2, <2>3, <3>1
  <2>5. ASSUME NEW x \in ChainTxs(a) PROVE \E r \in low : x = place(r)
    <3>1. PICK r \in db.tx : Committed(r) /\ x = place(r)
      BY <2>2, <2>3
    <3> QED
      BY <2>3, <3>1
  <2>6. {place(r) : r \in low} = ChainTxs(a)
    <3> HIDE DEF place, low
    <3> QED
      BY <2>4, <2>5
  <2>7. ChainTxs(storedTip)' = ChainTxs(a)
    BY <1>1
  <2>8. \A r \in db.tx : Committed(r)' => Complete(r)'
    BY <1>1, <1>5 DEF ChainInv, Complete, Filled, Linking, Spends
  <2> QED
    BY <1>1, <2>1, <2>6, <2>7, <2>8 DEF ChainInv
<1>11. \A x : Committed(x)' => Committed(x) \/ x.height \notin Nat
  BY <1>2, <1>4 DEF Committed
<1> QED
  BY <1>1, <1>2, <1>3, <1>7, <1>8, <1>9, <1>10, <1>11

\* What is undone is then above the tip, and spent only by what goes with it.
LEMMA GoBackWork ==
  ASSUME Calm, LedgerInv, NEW a \in Block, GoBack(a)
  PROVE  WorkInv'
<1> USE DEF LedgerInv, WorkInv
<1>1. /\ phase = "run" /\ block = NoBlock /\ synced /\ storedTip \in Block /\ tip = storedTip
      /\ Mature(a) /\ \A d \in Depth[a] + 1 .. Depth[tip] : Undisturbed(Branch[tip][d])
      /\ storedTip' = a /\ tip' = a /\ block' = storedTip /\ phase' = "undo" /\ step' = 1
      /\ UNCHANGED <<db, txTip, synced, job, waiting, running>>
  BY DEF GoBack, ProcessInv, Calm, queue
<1>2. /\ H' < H /\ OnBranch(a, storedTip) /\ a # storedTip
      /\ H' = Depth[a] /\ Depth[a] \in Nat /\ H \in Nat
      /\ \A x : Committed(x)' => Committed(x) \/ x.height \notin Nat
  BY <1>1, GoBackTable, DepthNat DEF H
<1>3. job["block"].pc = "none"
  BY <1>1 DEF ProcessInv
<1>4. ProcessInv'
  <2>1. Depth[txTip] >= H /\ txTip \in Block
    BY DEF ProcessInv
  <2>2. Depth[txTip'] >= H'
    BY <1>1, <1>2, <2>1, DepthNat
  <2>3. storedTip \in Block /\ block' # NoBlock
    BY <1>1, TreeAssumption
  <2> QED
    BY <1>1, <1>2, <1>3, <2>2, <2>3 DEF ProcessInv, UndoStatements
<1>5. AroundTx' = ChainTx /\ ChainTxs(block)' = ChainTxs(storedTip)
  <2>1. storedTip # NoBlock
    BY <1>1, TreeAssumption
  <2> QED
    BY <1>1, <2>1 DEF AroundTx, Around, ChainTx, H
<1>6. \A r \in db.tx : \/ r.height = Unconfirmed
                       \/ [tx |-> r.tx, height |-> r.height, index |-> r.index] \in ChainTxs(storedTip)
  <2> TAKE r \in db.tx
  <2>1. Committed(r) \/ r.height = Unconfirmed
    BY <1>1, <1>3 DEF HeightInv, Looking
  <2> QED
    BY <1>1, <2>1, CommittedRows DEF TableInv
<1>7. \A x \in db.outs \cup db.ins : \A r \in db.tx : r.id = x.id => x.height = r.height
  BY <1>1, <1>3 DEF HeightInv
<1>8. \A i \in db.ins : \A r \in db.tx : r.id = i.id /\ i.height # Unconfirmed => r.tx \in ChainTx
  <2> SUFFICES ASSUME NEW i \in db.ins, NEW r \in db.tx, r.id = i.id, i.height # Unconfirmed
               PROVE  r.tx \in ChainTx
    OBVIOUS
  <2>1. Committed(r)
    BY <1>1, <1>3, <1>7 DEF HeightInv, Looking
  <2> QED
    BY <1>1, <2>1, CommittedRows DEF TableInv
<1>9. ASSUME NEW r \in db.tx, NEW s \in db.tx, NEW o \in Coins(r.tx), o.tx = s.tx,
             s.tx \in AllGenerated, ~Committed(s)'
      PROVE  r.tx \in AllGenerated
  <2> DEFINE removed == UNION {GeneratedBy(Branch[storedTip][d]) : d \in Depth[a] + 1 .. Depth[storedTip]}
  <2>1. s.height # Unconfirmed
    BY <1>9 DEF TableInv, ShapeInv
  <2>2. [tx |-> s.tx, height |-> s.height, index |-> s.index] \in ChainTxs(storedTip)
    BY <1>6, <2>1
  <2>3. PICK d \in 0 .. Depth[storedTip] : \E n \in DOMAIN Contents[Branch[storedTip][d]] :
          [tx |-> s.tx, height |-> s.height, index |-> s.index]
            = [tx |-> Contents[Branch[storedTip][d]][n], height |-> d, index |-> n - 1]
    BY <1>1, <2>2, ChainTxsMember
  <2>4. PICK n \in DOMAIN Contents[Branch[storedTip][d]] :
          s.tx = Contents[Branch[storedTip][d]][n] /\ s.height = d
    BY <2>3
  <2>5. Branch[storedTip][d] \in Block
    BY <1>1, BranchBlock
  <2>6. s.tx \in GeneratedBy(Branch[storedTip][d])
    BY <1>9, <2>4, <2>5, GeneratedPlace
  <2>7. d > Depth[a] /\ Depth[storedTip] \in Nat
    BY <1>1, <1>2, <1>9, <2>4, DepthNat DEF Committed
  <2>8. s.tx \in removed
    BY <1>2, <2>6, <2>7
  <2>9. o \in Outpoints(r.tx)
    BY DEF Coins
  <2>10. r.tx \in removed
    BY <1>1, <1>9, <2>8, <2>9 DEF Mature
  <2>11. PICK e \in Depth[a] + 1 .. Depth[storedTip] : r.tx \in GeneratedBy(Branch[storedTip][e])
    BY <2>10
  <2>12. e \in 0 .. Depth[storedTip]
    BY <1>2, <2>7
  <2> QED
    BY <1>1, <2>11, <2>12, BranchBlock DEF AllGenerated
<1>10. UndoInv'
  <2>1. step' # 2 /\ step' # 3 /\ ~(step' > 3)
    BY <1>1
  <2>2. ~(step' > 4) /\ ~(step' > 5) /\ ~(step' > 8)
    BY <1>1
  <2>3. AllGenerated' = AllGenerated
    BY DEF AllGenerated
  <2>4. \A r \in db'.tx : r.height # Unconfirmed =>
          [tx |-> r.tx, height |-> r.height, index |-> r.index] \in ChainTxs(block)'
    BY <1>1, <1>5, <1>6
  <2>5. \A i \in db'.ins, r \in db'.tx : r.id = i.id /\ i.height # Unconfirmed => r.tx \in AroundTx'
    BY <1>1, <1>5, <1>8
  <2>6. \A r, s \in db'.tx : (\E o \in Coins(r.tx) : o.tx = s.tx) =>
          r.tx \in AllGenerated \/ Committed(s)' \/ s.tx \notin AllGenerated
    BY <1>1, <1>9
  <2> QED
    BY <2>1, <2>2, <2>3, <2>4, <2>5, <2>6 DEF UndoInv
<1>11. CompleteInv'
  <2>1. \A r \in db.tx : Complete(r) \/ InProgress(r.tx)
    BY <1>1 DEF CompleteInv, Whole
  <2> QED
    BY <1>1, <2>1 DEF CompleteInv, Whole, Complete, Filled, Linking, Spends, InProgress, Filling
<1>12. QueueInv'
  <2>1. Queued' = Queued
    BY <1>1 DEF Queued
  <2> SUFFICES ASSUME NEW t \in Queued
               PROVE  /\ t \notin ChainTx' /\ \A s \in ChainTx' : Coins(s) \cap Coins(t) = {}
                      /\ \A b \in Touched' : Stranger(t, b)
    BY <1>1, <2>1 DEF QueueInv, Stranger
  <2>2. ChainTx' \subseteq ChainTx
    BY <1>1, <1>2, ChainDown DEF ChainTx, H
  <2>3. t \in Tx
    BY QueuedType
  <2>4. Touched' = {Branch[storedTip][d] : d \in Depth[a] + 1 .. Depth[storedTip]}
    BY <1>1, TreeAssumption DEF Touched
  <2>5. \A d \in Depth[a] + 1 .. Depth[storedTip] : Stranger(t, Branch[storedTip][d])
    <3> TAKE d \in Depth[a] + 1 .. Depth[storedTip]
    <3>1. Apart(t, Branch[storedTip][d])
      BY <1>1 DEF Undisturbed, Queued, Calm
    <3>2. Branch[storedTip][d] \in Block
      BY <1>1, <1>2, BranchBlock, DepthNat
    <3> QED
      BY <2>3, <3>1, <3>2, ApartStranger
  <2> QED
    BY <2>2, <2>4, <2>5 DEF QueueInv
<1>13. (\A w \in Handler : WriteInv(w))'
  BY <1>1 DEF WriteInv, Filling, Filled, Unlinked, Empty, IdsRight
<1>14. MempoolInv'
  BY <1>1 DEF MempoolInv, Filling
<1>15. CleanInv' /\ HeightInv' /\ BlockInv'
  BY <1>1 DEF CleanInv, HeightInv, BlockInv
<1> QED
  BY <1>4, <1>10, <1>11, <1>12, <1>13, <1>14, <1>15

\* The first step of a reorganization preserves the invariant.
LEMMA LedgerGoBack ==
  ASSUME Calm, LedgerInv, NEW a \in Block, GoBack(a)
  PROVE  LedgerInv'
  BY GoBackTable, GoBackWork DEF LedgerInv

-----------------------------------------------------------------------------
(* onReorg().                                                              *)

\* A statement of onReorg() goes on to the next.
LEMMA UndoProcess ==
  ASSUME ProcessInv, Undo
  PROVE  /\ ProcessInv' /\ phase = "undo" /\ step \in 1 .. 10 /\ synced
         /\ storedTip \in Block /\ block \in Block /\ OnBranch(storedTip, block)
         /\ job["block"].pc = "none" /\ "block" \in Handler /\ "mempool" \in Handler
         /\ db' = Undone(step, db, H)
         /\ IF step < 10 THEN phase' = "undo" /\ step' = step + 1 /\ block' = block
            ELSE phase' = "run" /\ block' = NoBlock
         /\ UNCHANGED <<storedTip, txTip, tip, synced, job, waiting, running>>
<1>1. /\ phase = "undo" /\ db' = Undone(step, db, Depth[tip])
      /\ step < 10 => step' = step + 1 /\ phase' = phase /\ block' = block
      /\ ~(step < 10) => step' = 0 /\ phase' = "run" /\ block' = NoBlock
      /\ UNCHANGED <<storedTip, txTip, tip, synced, job, waiting, running>>
  BY DEF Undo, tips, queue, UndoStatements
<1>2. /\ step \in 1 .. 10 /\ synced /\ block \in Block /\ OnBranch(storedTip, block)
      /\ block # storedTip /\ job["block"].pc = "none" /\ tip = storedTip /\ storedTip \in Block
  BY <1>1 DEF ProcessInv, UndoStatements
<1>3. ProcessInv'
  BY <1>1, <1>2 DEF ProcessInv, H, UndoStatements
<1> QED
  BY <1>1, <1>2, <1>3 DEF H, Handler

Above == {r \in db.tx : r.height > H}
Stakes == {r \in Above : r.index = 1 /\ r.height > LastPoW}
Coinbases == {r \in Above : r.index = 0}

\* The rows that go are those of the transactions the blocks have generated.
LEMMA UndoGenerated ==
  ASSUME LedgerInv, phase = "undo"
  PROVE  /\ Above = {r \in db.tx : ~Committed(r)}
         /\ Stakes \cup Coinbases = {r \in db.tx : ~Committed(r) /\ r.tx \in AllGenerated}
         /\ \A r \in Coinbases : Coins(r.tx) = {}
         /\ \A r \in Stakes \cup Coinbases : r.height # Unconfirmed
         /\ \A r \in Stakes \cup Coinbases :
              \E b \in Touched : r.tx \in GeneratedBy(b)
<1> USE DEF LedgerInv, WorkInv
<1>1. /\ block \in Block /\ storedTip \in Block /\ H \in Nat /\ H = Depth[storedTip]
      /\ OnBranch(storedTip, block) /\ tip = storedTip /\ block # NoBlock
      /\ Unconfirmed > 1 /\ Unconfirmed \in Nat /\ LastPoW \in Nat
  BY DepthNat, LedgerAssumption, TreeAssumption DEF ProcessInv, H
<1>2. \A r \in db.tx : r.height \in Nat /\ (r.height = Unconfirmed => r.index = Unconfirmed /\ r.tx \notin AllGenerated)
  BY <1>1, Heights DEF TableInv, ShapeInv
<1>3. Above = {r \in db.tx : ~Committed(r)}
  BY <1>1, <1>2 DEF Above, Committed
<1>4. ASSUME NEW r \in db.tx, ~Committed(r), r.height # Unconfirmed
      PROVE  /\ r \in Stakes \cup Coinbases <=> r.tx \in AllGenerated
             /\ r \in Coinbases => Coins(r.tx) = {}
             /\ r.tx \in AllGenerated => \E b \in Touched : r.tx \in GeneratedBy(b)
  <2>1. [tx |-> r.tx, height |-> r.height, index |-> r.index] \in ChainTxs(block)
    BY <1>4 DEF UndoInv
  <2>2. PICK d \in 0 .. Depth[block] : \E n \in DOMAIN Contents[Branch[block][d]] :
          [tx |-> r.tx, height |-> r.height, index |-> r.index]
            = [tx |-> Contents[Branch[block][d]][n], height |-> d, index |-> n - 1]
    BY <1>1, <2>1, ChainTxsMember
  <2>3. PICK n \in DOMAIN Contents[Branch[block][d]] :
          r.tx = Contents[Branch[block][d]][n] /\ r.height = d /\ r.index = n - 1
    BY <2>2
  <2> DEFINE b == Branch[block][d]
  <2>4. b \in Block /\ Depth[b] = d
    BY <1>1, BranchBlock
  <2>5. /\ r.tx \in AllGenerated <=> n \in 1 .. Generated(b)
        /\ r.tx \in AllGenerated => r.tx \in GeneratedBy(b)
        /\ n = 1 => Coins(r.tx) = {}
    BY <2>3, <2>4, GeneratedPlace
  <2>6. n \in Nat /\ n >= 1 /\ d \in Nat /\ Depth[block] \in Nat
    BY <1>1, <2>4, ContentsType
  <2>7. Generated(b) = IF d > LastPoW THEN 2 ELSE 1
    BY <2>4 DEF Generated
  <2>8. r \in Above /\ d > H
    BY <1>3, <1>4, <2>3, <2>6, <1>1 DEF Committed
  <2>9. r \in Stakes \cup Coinbases <=> n \in 1 .. Generated(b)
    BY <1>1, <2>3, <2>6, <2>7, <2>8 DEF Stakes, Coinbases
  <2>10. r \in Coinbases => n = 1
    BY <2>3, <2>6 DEF Coinbases
  <2>11. b \in Touched
    BY <1>1, <2>6, <2>8 DEF Touched
  <2> QED
    BY <2>5, <2>9, <2>10, <2>11
<1>5. \A r \in Stakes \cup Coinbases : r \in db.tx /\ ~Committed(r) /\ r.height # Unconfirmed
  BY <1>1, <1>2, <1>3 DEF Stakes, Coinbases, Above
<1>6. Stakes \cup Coinbases = {r \in db.tx : ~Committed(r) /\ r.tx \in AllGenerated}
  BY <1>2, <1>4, <1>5
<1> QED
  BY <1>3, <1>4, <1>5, <1>6

\* Rows go, or get the height of the mempool.
Shrinks ==
  /\ \A s \in db'.tx : \E r \in db.tx :
       s.id = r.id /\ s.tx = r.tx /\ (s = r \/ (~Committed(r) /\ s.height = Unconfirmed))
  /\ \A p \in db'.outs : \E o \in db.outs : p.id = o.id /\ p.at = o.at
  /\ \A j \in db'.ins : \E i \in db.ins : SameInput(i, j)

Spared(r) == Kept(r) /\ \E s \in db'.tx : s.id = r.id /\ s.tx = r.tx

\* A statement that spares what is not generated above the tip.
LEMMA UndoWork ==
  ASSUME LedgerInv, Undo, TableInv', Shrinks, UndoInv',
         \A r \in db.tx : Committed(r) \/ r.tx \notin AllGenerated => Spared(r),
         step = 10 => db'.tx = db.tx /\ db'.outs = db.outs /\ db'.ins = db.ins
  PROVE  LedgerInv'
<1> USE DEF LedgerInv, WorkInv
<1>1. /\ ProcessInv' /\ phase = "undo" /\ step \in 1 .. 10 /\ synced
      /\ storedTip \in Block /\ block \in Block /\ OnBranch(storedTip, block)
      /\ job["block"].pc = "none" /\ "block" \in Handler /\ "mempool" \in Handler
      /\ IF step < 10 THEN phase' = "undo" /\ step' = step + 1 /\ block' = block
         ELSE phase' = "run" /\ block' = NoBlock
      /\ UNCHANGED <<storedTip, txTip, tip, synced, job, waiting, running>>
  BY UndoProcess
<1>2. H' = H /\ AllGenerated' = AllGenerated /\ \A x : Committed(x)' <=> Committed(x)
  BY <1>1 DEF H, AllGenerated, Committed
<1>3. H \in Nat /\ H < Unconfirmed /\ Unconfirmed \in Nat
  BY <1>1, Heights DEF TableInv
<1>4. \A r \in db'.tx : phase' = "run" => Committed(r) \/ r.tx \notin AllGenerated
  <2>1. ASSUME NEW r \in db'.tx, phase' = "run" PROVE Committed(r) \/ r.tx \notin AllGenerated
    <3>1. step = 10
      BY <1>1, <2>1
    <3>2. r \in db.tx
      BY <2>1, <3>1
    <3> QED
      BY <1>1, <3>1, <3>2 DEF UndoInv
  <2> QED
    BY <2>1
<1>5. CompleteInv'
  <2> SUFFICES ASSUME NEW s \in db'.tx PROVE Whole(s)'
    BY DEF CompleteInv
  <2>1. PICK r \in db.tx : s.id = r.id /\ s.tx = r.tx /\ (s = r \/ (~Committed(r) /\ s.height = Unconfirmed))
    BY DEF Shrinks
  <2>2. Committed(s) <=> Committed(r)
    BY <1>3, <2>1 DEF Committed
  <2>3. CASE InProgress(r.tx)
    <3>1. InProgress(s.tx)'
      BY <1>1, <2>1, <2>3 DEF InProgress, Filling
    <3> QED
      BY <3>1 DEF Whole
  <2>4. CASE ~Committed(r) /\ r.tx \in AllGenerated
    <3>1. phase' = "undo"
      BY <1>1, <1>4, <2>1, <2>2, <2>4
    <3> QED
      BY <1>2, <2>1, <2>2, <2>4, <3>1 DEF Whole
  <2>5. CASE Complete(r) /\ (Committed(r) \/ r.tx \notin AllGenerated)
    <3>1. Kept(r)
      BY <2>5 DEF Spared
    <3>2. Complete(s)'
      BY <2>1, <2>5, <3>1, KeptComplete
    <3> QED
      BY <3>2 DEF Whole
  <2> QED
    BY <1>1, <2>3, <2>4, <2>5 DEF CompleteInv, Whole
<1>6. HeightInv'
  <2> SUFFICES ASSUME phase' = "run" PROVE HeightInv'
    BY DEF HeightInv
  <2>1. step = 10
    BY <1>1
  <2>2. /\ \A r \in db'.tx : Committed(r) \/ r.height = Unconfirmed
        /\ \A x \in db'.outs \cup db'.ins : Committed(x) \/ x.height = Unconfirmed
    BY <1>1, <2>1 DEF UndoInv
  <2>3. ASSUME NEW x \in db'.outs \cup db'.ins, NEW r \in db'.tx, r.id = x.id PROVE x.height = r.height
    <3>1. PICK q \in db'.tx : q.id = x.id /\ (Committed(x) \/ Committed(q) => x.height = q.height)
      BY <1>2, <2>1 DEF TableInv, OwnInv, With
    <3>2. q = r
      BY <2>1, <2>3, <3>1 DEF TableInv, KeyInv
    <3> QED
      BY <2>2, <3>1, <3>2
  <2>4. synced' /\ job'["block"].pc = "none"
    BY <1>1
  <2> QED
    BY <1>2, <2>2, <2>3, <2>4 DEF HeightInv
<1>7. QueueInv'
  <2>1. Queued' = Queued /\ ChainTx' = ChainTx
    BY <1>1, <1>2 DEF Queued, ChainTx
  <2>2. phase' = "undo" => Touched' = Touched
    BY <1>1 DEF Touched
  <2>3. ASSUME NEW t \in Queued
        PROVE  /\ t \notin ChainTx /\ \A s \in ChainTx : Coins(s) \cap Coins(t) = {}
               /\ \A b \in Touched : Stranger(t, b)
    BY <1>1 DEF QueueInv
  <2> QED
    BY <1>1, <2>1, <2>2, <2>3 DEF QueueInv, Stranger
<1>8. running # NoTx => running \in Tx /\ running \notin AllGenerated
  BY QueuedType, RelayAssumption DEF ProcessInv, AllGenerated
<1>9. \A w \in Handler : w = "block" \/ w = "mempool"
  BY DEF Handler
<1>10. job["mempool"].pc # "none" => running # NoTx /\ job["mempool"].txs = <<running>>
  BY DEF ProcessInv, MempoolInv
<1>11. \A w \in Handler : job[w].pc # "none" => ToSet(job[w].txs) = {running} /\ running # NoTx
  <2>1. ToSet(<<running>>) = {running}
    BY DEF ToSet
  <2> QED
    BY <1>1, <1>9, <1>10, <2>1
<1>12. (\A w \in Handler : WriteInv(w))'
  <2> SUFFICES ASSUME NEW w \in Handler, job[w].pc # "none" PROVE WriteInv(w)'
    BY <1>1 DEF WriteInv, Filling
  <2>1. WriteInv(w) /\ ToSet(job[w].txs) = {running} /\ running \notin AllGenerated
    BY <1>8, <1>11
  <2>2. ASSUME NEW s \in db'.tx, s.tx \in ToSet(job[w].txs), Filling(w)
        PROVE  IF job[w].pc = "link" THEN Filled(s)' /\ Unlinked(s)' ELSE Empty(s)'
    <3>1. PICK r \in db.tx : s.id = r.id /\ s.tx = r.tx
      BY DEF Shrinks
    <3>2. Kept(r)
      BY <2>1, <2>2, <3>1 DEF Spared
    <3>3. IF job[w].pc = "link" THEN Filled(r) /\ Unlinked(r) ELSE Empty(r)
      BY <2>1, <2>2, <3>1 DEF WriteInv
    <3>4. CASE job[w].pc = "link"
      <4>1. Filled(s)'
        <5>1. \A n \in DOMAIN Pays[s.tx] : \E p \in db'.outs : p.id = s.id /\ p.at = n
          <6> TAKE n \in DOMAIN Pays[s.tx]
          <6>1. PICK o \in db.outs : o.id = r.id /\ o.at = n
            BY <3>1, <3>3, <3>4 DEF Filled
          <6> QED
            BY <3>1, <3>2, <6>1 DEF Kept
        <5>2. \A n \in DOMAIN Inputs[s.tx] : \E j \in db'.ins : j.id = s.id /\ j.at = n
          <6> TAKE n \in DOMAIN Inputs[s.tx]
          <6>1. PICK i \in db.ins : i.id = r.id /\ i.at = n
            BY <3>1, <3>3, <3>4 DEF Filled
          <6> QED
            BY <3>1, <3>2, <6>1 DEF Kept, SameInput
        <5> QED
          BY <5>1, <5>2 DEF Filled
      <4>2. Unlinked(s)'
        <5> SUFFICES ASSUME NEW j \in db'.ins, j.id = s.id PROVE j.from = 0
          BY DEF Unlinked
        <5>1. PICK i \in db.ins : SameInput(i, j)
          BY DEF Shrinks
        <5> QED
          BY <3>1, <3>3, <3>4, <5>1 DEF Unlinked, SameInput
      <4> QED
        BY <3>4, <4>1, <4>2
    <3>5. CASE job[w].pc # "link"
      <4>1. ASSUME NEW x \in db'.outs \cup db'.ins PROVE x.id # s.id
        <5>1. \E y \in db.outs \cup db.ins : y.id = x.id
          <6>1. CASE x \in db'.outs
            BY <6>1 DEF Shrinks
          <6>2. CASE x \in db'.ins
            BY <6>2 DEF Shrinks, SameInput
          <6> QED
            BY <4>1, <6>1, <6>2
        <5> QED
          BY <3>1, <3>3, <3>5, <5>1 DEF Empty
      <4> QED
        BY <3>5, <4>1 DEF Empty
    <3> QED
      BY <3>4, <3>5
  <2>3. ASSUME IdsRight(job[w]) PROVE IdsRight(job[w])'
    <3>1. \A n \in DOMAIN job[w].txs : job[w].txs[n] = running
      BY <2>1 DEF ToSet
    <3>2. ASSUME NEW n \in DOMAIN job[w].txs
          PROVE  \E s \in db'.tx : s.id = job[w].ids[n] /\ s.tx = job[w].txs[n]
      <4>1. PICK r \in db.tx : r.id = job[w].ids[n] /\ r.tx = job[w].txs[n]
        BY <2>3 DEF IdsRight
      <4>2. Spared(r)
        BY <2>1, <3>1, <4>1
      <4> QED
        BY <4>1, <4>2 DEF Spared
    <3> QED
      BY <1>1, <2>3, <3>2 DEF IdsRight
  <2> QED
    BY <1>1, <2>1, <2>2, <2>3 DEF WriteInv, Filling
<1>13. MempoolInv'
  <2> SUFFICES ASSUME running # NoTx PROVE MempoolInv'
    BY <1>1 DEF MempoolInv
  <2> DEFINE j == job["mempool"]
  <2>1. running \in Queued /\ running \in Tx
    BY QueuedType
  <2>2. ASSUME NEW c \in Coins(running), NEW s \in db.tx, s.tx = c.tx
        PROVE  Spared(s)
    <3>1. Committed(s) \/ s.tx \notin AllGenerated
      <4> SUFFICES ASSUME ~Committed(s), s.tx \in AllGenerated PROVE FALSE
        OBVIOUS
      <4>1. s \in Stakes \cup Coinbases
        BY <1>1, UndoGenerated
      <4>2. PICK b \in Touched : s.tx \in GeneratedBy(b)
        BY <1>1, <4>1, UndoGenerated
      <4>3. Stranger(running, b)
        BY <1>1, <2>1 DEF QueueInv
      <4> QED
        BY <2>2, <4>2, <4>3 DEF Stranger
    <3> QED
      BY <3>1
  <2>3. j.pc = "replace" \/ Filling("mempool") =>
          \A c \in Coins(running) : \E s \in db'.tx, p \in db'.outs :
            s.tx = c.tx /\ p.id = s.id /\ p.at = c.at
    <3> SUFFICES ASSUME j.pc = "replace" \/ Filling("mempool"), NEW c \in Coins(running)
                 PROVE  \E s \in db'.tx, p \in db'.outs : s.tx = c.tx /\ p.id = s.id /\ p.at = c.at
      OBVIOUS
    <3>1. PICK s \in db.tx, o \in db.outs : s.tx = c.tx /\ o.id = s.id /\ o.at = c.at
      BY DEF MempoolInv
    <3>2. Spared(s)
      BY <2>2, <3>1
    <3>3. PICK u \in db'.tx : u.id = s.id /\ u.tx = s.tx
      BY <3>2 DEF Spared
    <3>4. PICK p \in db'.outs : p.id = o.id /\ p.at = o.at
      BY <3>1, <3>2 DEF Spared, Kept
    <3> QED
      BY <3>1, <3>3, <3>4
  <2>4. j.pc = "replace" /\ j.todo = <<>> =>
          \A s \in db'.tx : s.tx # running => Coins(s.tx) \cap Coins(running) = {}
    <3> SUFFICES ASSUME j.pc = "replace", j.todo = <<>>, NEW s \in db'.tx, s.tx # running
                 PROVE  Coins(s.tx) \cap Coins(running) = {}
      OBVIOUS
    <3>1. PICK r \in db.tx : s.tx = r.tx
      BY DEF Shrinks
    <3> QED
      BY <3>1 DEF MempoolInv
  <2>5. Filling("mempool") => \A s \in db'.tx : s.tx = running => s.height = Unconfirmed
    <3> SUFFICES ASSUME Filling("mempool"), NEW s \in db'.tx, s.tx = running
                 PROVE  s.height = Unconfirmed
      OBVIOUS
    <3>1. PICK r \in db.tx : s.tx = r.tx /\ (s = r \/ s.height = Unconfirmed)
      BY DEF Shrinks
    <3> QED
      BY <3>1 DEF MempoolInv
  <2> QED
    BY <1>1, <2>3, <2>4, <2>5 DEF MempoolInv, Filling
<1>14. CleanInv' /\ BlockInv'
  BY <1>1 DEF CleanInv, BlockInv
<1> QED
  BY <1>1, <1>5, <1>6, <1>7, <1>12, <1>13, <1>14

\* A transaction of a block other than the coinbase spends outputs.
LEMMA ChainInputs ==
  ASSUME NEW b \in Block, NEW t \in TxsUpTo(b, Depth[b]), t \notin AllGenerated
  PROVE  \A n \in DOMAIN Inputs[t] : Inputs[t][n].tx # NoTx
<1>1. PICK d \in 0 .. Depth[b] : \E n \in DOMAIN Contents[Branch[b][d]] : t = Contents[Branch[b][d]][n]
  BY ChainMember
<1>2. PICK n \in DOMAIN Contents[Branch[b][d]] : t = Contents[Branch[b][d]][n]
  BY <1>1
<1> DEFINE c == Branch[b][d]
<1>3. c \in Block
  BY BranchBlock
<1>4. n \notin 1 .. Generated(c) /\ 1 .. Generated(c) \subseteq DOMAIN Contents[c] /\ Generated(c) \in {1, 2}
  BY <1>2, <1>3, GeneratedPlace, ContentsType
<1>5. n # 1
  BY <1>4
<1>6. TxsUpTo(c, Depth[c] - 1) \subseteq Tx
  <2>1. Depth[c] \in Nat
    BY <1>3, DepthNat
  <2>2. \A e \in 0 .. Depth[c] - 1 : Branch[c][e] \in Block
    BY <1>3, <2>1, BranchBlock
  <2>3. \A e \in 0 .. Depth[c] - 1 : ToSet(Contents[Branch[c][e]]) \subseteq Tx
    BY <2>2, ContentsType
  <2> QED
    BY <2>3 DEF TxsUpTo
<1>7. \A m \in 1 .. n-1 : Contents[c][m] \in Tx
  BY <1>3, <1>2, ContentsType
<1>8. \A o \in Outpoints(t) : o.tx \in TxsUpTo(c, Depth[c] - 1) \cup {Contents[c][m] : m \in 1 .. n-1}
  BY <1>2, <1>3, <1>5, ChainAssumption
<1>9. \A o \in Outpoints(t) : o.tx \in Tx
  BY <1>6, <1>7, <1>8
<1> QED
  BY <1>9, LedgerAssumption DEF Outpoints, ToSet

\* The second, sixth, seventh, ninth and tenth statement.
LEMMA UndoQuiet ==
  ASSUME LedgerInv, Undo, DOMAIN db' = DOMAIN db, db'.next = db.next,
         db'.tx = db.tx, db'.outs = db.outs, db'.ins = db.ins,
         step \notin {1, 3, 4, 5, 8}
  PROVE  LedgerInv'
<1> USE DEF LedgerInv, WorkInv
<1>1. /\ step \in 1 .. 10 /\ phase = "undo"
      /\ IF step < 10 THEN phase' = "undo" /\ step' = step + 1 /\ block' = block
         ELSE phase' = "run" /\ block' = NoBlock
      /\ UNCHANGED <<storedTip, txTip, tip, synced, job, waiting, running>>
  BY UndoProcess
<1>2. AllGenerated' = AllGenerated /\ \A x : Committed(x)' <=> Committed(x)
  BY <1>1 DEF H, AllGenerated, Committed
<1>3. TableInv'
  <2>1. db.next \in Nat
    BY DEF TableInv, ShapeInv
  <2> QED
    BY <1>1, <2>1, QuietTable
<1>4. Shrinks
  BY DEF Shrinks, SameInput
<1>5. \A r \in db.tx : Spared(r)
  BY DEF Spared, Kept, SameInput
<1>6. UndoInv'
  <2> SUFFICES ASSUME phase' = "undo" PROVE UndoInv'
    BY DEF UndoInv
  <2>1. step' = step + 1 /\ block' = block
    BY <1>1
  <2>2. AroundTx' = AroundTx /\ ChainTxs(block)' = ChainTxs(block)
    BY <1>1, <2>1 DEF AroundTx, Around
  <2>3. /\ step' \in {2, 3} => step \in {2, 3}
        /\ step' > 3 => step > 3
        /\ step' > 4 => step > 4
        /\ step' > 5 => step > 5
        /\ step' > 8 => step > 8
    BY <1>1, <2>1
  <2> QED
    BY <1>1, <1>2, <2>2, <2>3 DEF UndoInv, Spends
<1> QED
  BY <1>3, <1>4, <1>5, <1>6, UndoWork

\* The first: what the stakes spend is free again.
LEMMA UndoFreed ==
  ASSUME LedgerInv, Undo, step = 1
  PROVE  LedgerInv'
<1> USE DEF LedgerInv, WorkInv
<1>1. /\ phase = "undo" /\ phase' = "undo" /\ step' = 2 /\ block' = block
      /\ UNCHANGED <<storedTip, txTip, tip, synced, job, waiting, running>>
      /\ db' = Undone(1, db, H) /\ storedTip \in Block
  BY UndoProcess
<1>2. AllGenerated' = AllGenerated /\ \A x : Committed(x)' <=> Committed(x)
  BY <1>1 DEF H, AllGenerated, Committed
<1> DEFINE ins == {i \in db.ins : i.id \in Ids(Stakes)}
<1>3. /\ DOMAIN db' = DOMAIN db /\ db'.next = db.next /\ db'.tx = db.tx /\ db'.ins = db.ins
      /\ db'.outs = Freed(db.outs, ins)
  BY <1>1 DEF Undone, Stakes, Above, TableInv, ShapeInv
<1>4. /\ \A r \in Stakes : r \in db.tx /\ ~Committed(r) /\ r.tx \in AllGenerated
      /\ \A r \in db.tx : ~Committed(r) /\ r.tx \in AllGenerated /\ r \notin Stakes => Coins(r.tx) = {}
  BY <1>1, UndoGenerated
<1>5. \A i \in ins : \E r \in Stakes : r.id = i.id
  BY DEF Ids
<1>6. \A i \in ins : ~Committed(i)
  <2> TAKE i \in ins
  <2>1. PICK r \in Stakes : r.id = i.id
    BY <1>5
  <2>2. PICK q \in db.tx : With(i, q)
    BY DEF TableInv, OwnInv
  <2>3. q = r
    BY <1>4, <2>1, <2>2 DEF With, TableInv, KeyInv
  <2> QED
    BY <1>4, <2>2, <2>3 DEF With, Committed
<1>7. \A r \in db.tx, i \in ins : r \notin Stakes => i.id # r.id
  BY <1>4, <1>5 DEF TableInv, KeyInv
<1> DEFINE jns == ins
<1>8. jns \subseteq db.ins /\ (\A i \in jns : ~Committed(i)) /\ db'.outs = Freed(db.outs, jns)
  BY <1>3, <1>6
<1> HIDE DEF jns
<1>9. TableInv' /\ \A r \in db.tx : (\A i \in jns : i.id # r.id) => Kept(r)
  BY <1>1, <1>3, <1>8, FreedTable
<1>10. \A r \in db.tx : Committed(r) \/ r.tx \notin AllGenerated => Kept(r)
  BY <1>4, <1>7, <1>9 DEF jns
<1>11. \A r \in db.tx : Committed(r) \/ r.tx \notin AllGenerated => Spared(r)
  BY <1>3, <1>10 DEF Spared
<1>12. \A p \in db'.outs : \E o \in db.outs :
         /\ p.id = o.id /\ p.at = o.at
         /\ IF \E i \in jns : Spends(i, o) THEN p.byHeight = Null ELSE p = o
  BY <1>8, FreedRows DEF TableInv
<1>13. Shrinks
  BY <1>3, <1>12 DEF Shrinks, SameInput
<1>14. UndoInv'
  <2>1. ASSUME NEW i \in db.ins, NEW p \in db'.outs, NEW r \in db.tx, Spends(i, p), r.id = i.id,
               ~Committed(r), r.tx \in AllGenerated
        PROVE  p.byHeight = Null
    <3>1. PICK o \in db.outs :
            /\ p.id = o.id /\ p.at = o.at
            /\ IF \E l \in jns : Spends(l, o) THEN p.byHeight = Null ELSE p = o
      BY <1>12
    <3>2. Spends(i, o)
      BY <2>1, <3>1 DEF Spends
    <3>3. CASE r \in Stakes
      <4>1. i \in jns
        BY <2>1, <3>3 DEF jns, Ids
      <4> QED
        BY <3>1, <3>2, <4>1
    <3>4. CASE r \notin Stakes
      <4>1. Coins(r.tx) = {}
        BY <1>4, <2>1, <3>4
      <4>2. PICK q, s \in db.tx : With(i, q) /\ [tx |-> s.tx, at |-> o.at] \in Coins(q.tx)
        BY <1>1, <3>2, LinkRows DEF TableInv
      <4>3. q = r
        BY <2>1, <4>2 DEF With, TableInv, KeyInv
      <4> QED
        BY <4>1, <4>2, <4>3
    <3> QED
      BY <3>3, <3>4
  <2>2. AroundTx' = AroundTx /\ ChainTxs(block)' = ChainTxs(block)
    BY <1>1 DEF AroundTx, Around
  <2>3. ~(step' > 3) /\ ~(step' > 4) /\ ~(step' > 5) /\ ~(step' > 8)
    BY <1>1
  <2> QED
    BY <1>1, <1>2, <1>3, <2>1, <2>2, <2>3 DEF UndoInv, Spends
<1> QED
  BY <1>1, <1>9, <1>11, <1>13, <1>14, UndoWork

\* The third: what the blocks generated goes.
LEMMA UndoRemoved ==
  ASSUME LedgerInv, Undo, step = 3
  PROVE  LedgerInv'
<1> USE DEF LedgerInv, WorkInv
<1>1. /\ phase = "undo" /\ phase' = "undo" /\ step' = 4 /\ block' = block
      /\ UNCHANGED <<storedTip, txTip, tip, synced, job, waiting, running>>
      /\ db' = Undone(3, db, H) /\ storedTip \in Block
  BY UndoProcess
<1>2. H' = H /\ AllGenerated' = AllGenerated /\ \A x : Committed(x)' <=> Committed(x)
  BY <1>1 DEF H, AllGenerated, Committed
<1> DEFINE gone == Stakes \cup Coinbases
<1>3. /\ DOMAIN db' = DOMAIN db /\ db'.next = db.next
      /\ db'.tx = db.tx \ gone
      /\ db'.outs = {o \in db.outs : o.id \notin Ids(gone)}
      /\ db'.ins = {i \in db.ins : i.id \notin Ids(gone)}
  <2> DEFINE outs == {o \in db.outs : o.id \notin Ids(gone)}
             ins == {i \in db.ins : i.id \notin Ids(gone)}
             txs == db.tx \ gone
             wit == db.witness \ {r.tx : r \in gone}
             bal == {b \in db.balances : b.id \notin Ids(gone)}
  <2>1. db' = [db EXCEPT !.tx = txs, !.witness = wit, !.outs = outs, !.ins = ins, !.balances = bal]
    BY <1>1 DEF Undone, Stakes, Coinbases, Above
  <2> HIDE DEF outs, ins, txs, wit, bal
  <2>2. /\ DOMAIN db' = DOMAIN db /\ db'.next = db.next
        /\ db'.tx = txs /\ db'.outs = outs /\ db'.ins = ins
    BY <2>1 DEF TableInv, ShapeInv
  <2> QED
    BY <2>2 DEF outs, ins, txs
<1>4. gone = {r \in db.tx : ~Committed(r) /\ r.tx \in AllGenerated}
  BY <1>1, UndoGenerated
<1> HIDE DEF gone
<1>5. \A r \in db.tx : r.id \in Ids(gone) <=> r \in gone
  BY <1>4 DEF Ids, TableInv, KeyInv
<1>6. ShapeInv' /\ KeyInv'
  BY <1>2, <1>3 DEF TableInv, ShapeInv, KeyInv
<1>7. ASSUME NEW r \in db.tx, r \notin gone PROVE Kept(r)
  <2>1. ASSUME NEW o \in db.outs, o.id = r.id \/ o.by = r.id PROVE o \in db'.outs
    <3>1. CASE o.id = r.id
      BY <1>3, <1>5, <1>7, <3>1
    <3>2. CASE o.by = r.id
      <4>1. PICK s \in db.tx : With(o, s) /\ [tx |-> s.tx, at |-> o.at] \in Coins(r.tx)
        BY <1>1, <3>2, ByRows DEF TableInv
      <4>2. \E c \in Coins(r.tx) : c.tx = s.tx
        BY <4>1
      <4>3. s \notin gone
        <5>1. CASE Committed(r)
          <6>1. Committed(s)
            BY <1>1, <4>2, <5>1, CommittedSources DEF TableInv
          <6> QED
            BY <1>4, <6>1
        <5>2. CASE r.tx \notin AllGenerated
          BY <1>1, <1>4, <4>2, <5>2 DEF UndoInv
        <5> QED
          BY <1>4, <1>7, <5>1, <5>2
      <4> QED
        BY <1>3, <1>5, <4>1, <4>3 DEF With
    <3> QED
      BY <2>1, <3>1, <3>2
  <2>2. \A i \in db.ins : i.id = r.id => i \in db'.ins
    BY <1>3, <1>5, <1>7
  <2>3. \A j \in db'.ins : j \in db.ins
    BY <1>3
  <2> QED
    BY <2>1, <2>2, <2>3 DEF Kept, SameInput
<1>8. \A o \in db'.outs \cup db'.ins : \E s \in db'.tx : s.id = o.id
  <2> TAKE o \in db'.outs \cup db'.ins
  <2>1. (o \in db.outs \/ o \in db.ins) /\ o.id \notin Ids(gone)
    BY <1>3
  <2>2. PICK r \in db.tx : r.id = o.id
    BY <2>1 DEF TableInv, OwnInv, With
  <2> QED
    BY <1>3, <1>5, <2>1, <2>2
<1>9. Trims
  <2>1. \A r \in db.tx : Committed(r) => r \in db'.tx /\ Kept(r)
    BY <1>3, <1>4, <1>7
  <2>2. \A p \in db'.outs : p \in db.outs
    BY <1>3
  <2>3. \A j \in db'.ins : j \in db.ins
    BY <1>3
  <2>4. \A s \in db'.tx : s \in db.tx
    BY <1>3
  <2> QED
    BY <1>1, <1>8, <2>1, <2>2, <2>3, <2>4 DEF Trims, SameInput
<1>10. SpentInv'
  <2> SUFFICES ASSUME NEW o \in db'.outs
               PROVE  /\ o.byHeight \notin {Null, Unconfirmed} =>
                           \E j \in db'.ins : Spends(j, o) /\ j.height = o.byHeight
                      /\ \A j \in db'.ins : Spends(j, o) /\ Committed(j) => o.byHeight = j.height
    BY <1>2 DEF SpentInv, Spends
  <2>1. o \in db.outs
    BY <1>3
  <2>2. ASSUME o.byHeight \notin {Null, Unconfirmed}
        PROVE  \E j \in db'.ins : Spends(j, o) /\ j.height = o.byHeight
    <3>1. PICK i \in db.ins : Spends(i, o) /\ i.height = o.byHeight
      BY <2>1, <2>2 DEF TableInv, SpentInv
    <3>2. ASSUME i.id \in Ids(gone) PROVE FALSE
      <4>1. PICK r \in gone : r.id = i.id
        BY <3>2 DEF Ids
      <4>2. r \in db.tx /\ ~Committed(r) /\ r.tx \in AllGenerated
        BY <1>4
      <4>3. o.byHeight = Null
        BY <1>1, <2>1, <3>1, <4>1, <4>2 DEF UndoInv
      <4> QED
        BY <2>2, <4>3
    <3> QED
      BY <1>3, <3>1, <3>2
  <2>3. \A j \in db'.ins : Spends(j, o) /\ Committed(j) => o.byHeight = j.height
    BY <1>3, <2>1 DEF TableInv, SpentInv
  <2> QED
    BY <2>2, <2>3
<1>11. TableInv'
  BY <1>1, <1>6, <1>9, <1>10, TrimsTable
<1>12. Shrinks
  BY <1>3 DEF Shrinks, SameInput
<1>13. \A r \in db.tx : Committed(r) \/ r.tx \notin AllGenerated => Spared(r)
  BY <1>3, <1>4, <1>7 DEF Spared
<1>14. UndoInv'
  <2>1. AroundTx' = AroundTx /\ ChainTxs(block)' = ChainTxs(block)
    BY <1>1 DEF AroundTx, Around
  <2>2. step' > 3 /\ ~(step' \in {2, 3}) /\ ~(step' > 4) /\ ~(step' > 5) /\ ~(step' > 8)
    BY <1>1
  <2>3. \A r \in db'.tx : r \in db.tx /\ (r.tx \in AllGenerated => Committed(r))
    BY <1>3, <1>4
  <2>4. \A i \in db'.ins : i \in db.ins
    BY <1>3
  <2> QED
    BY <1>1, <1>2, <2>1, <2>2, <2>3, <2>4 DEF UndoInv
<1> QED
  BY <1>1, <1>11, <1>12, <1>13, <1>14, UndoWork

\* The fourth: the other transactions are unconfirmed again.
LEMMA UndoRows ==
  ASSUME LedgerInv, Undo, step = 4
  PROVE  LedgerInv'
<1> USE DEF LedgerInv, WorkInv
<1>1. /\ phase = "undo" /\ phase' = "undo" /\ step' = 5 /\ block' = block
      /\ UNCHANGED <<storedTip, txTip, tip, synced, job, waiting, running>>
      /\ db' = Undone(4, db, H) /\ storedTip \in Block
  BY UndoProcess
<1>2. H' = H /\ AllGenerated' = AllGenerated /\ \A x : Committed(x)' <=> Committed(x)
  BY <1>1 DEF H, AllGenerated, Committed
<1>3. H \in Nat /\ H < Unconfirmed /\ Unconfirmed \in Nat
  BY <1>1, Heights DEF TableInv
<1>4. Above = {r \in db.tx : ~Committed(r)}
  BY <1>1, UndoGenerated
<1> DEFINE new(r) == IF r \in Above THEN [r EXCEPT !.height = Unconfirmed, !.index = Unconfirmed] ELSE r
<1>5. /\ DOMAIN db' = DOMAIN db /\ db'.next = db.next
      /\ db'.tx = {new(r) : r \in db.tx}
      /\ db'.outs = db.outs /\ db'.ins = db.ins
  <2> DEFINE txs == {new(r) : r \in db.tx}
  <2> DEFINE rows == Update(db.tx, LAMBDA r : r \in Above,
                            LAMBDA r : [r EXCEPT !.height = Unconfirmed, !.index = Unconfirmed])
  <2>0. txs = rows
    BY Zenon DEF Update
  <2>1. db' = [db EXCEPT !.tx = rows]
    BY <1>1 DEF Undone, Above
  <2> HIDE DEF rows
  <2> HIDE DEF txs
  <2>2. /\ DOMAIN db' = DOMAIN db /\ db'.next = db.next
        /\ db'.tx = txs /\ db'.outs = db.outs /\ db'.ins = db.ins
    BY <2>0, <2>1 DEF TableInv, ShapeInv
  <2> QED
    BY <2>2 DEF txs
<1>6. \A r \in db.tx : /\ DOMAIN new(r) = DOMAIN r /\ new(r).id = r.id /\ new(r).tx = r.tx
                       /\ IF Committed(r) THEN new(r) = r
                          ELSE new(r).height = Unconfirmed /\ new(r).index = Unconfirmed
  BY <1>4 DEF TableInv, ShapeInv
<1> HIDE DEF new
<1>7. \A s \in db'.tx : \E r \in db.tx :
        /\ DOMAIN s = DOMAIN r /\ s.id = r.id /\ s.tx = r.tx
        /\ IF Committed(r) THEN s = r ELSE s.height = Unconfirmed /\ s.index = Unconfirmed
  BY <1>5, <1>6
<1>8. \A r \in db.tx : \E s \in db'.tx : s.id = r.id /\ s.tx = r.tx /\ (Committed(r) => s = r)
  BY <1>5, <1>6
<1>9. \A r \in db.tx : r.tx \in AllGenerated => Committed(r)
  BY <1>1 DEF UndoInv
<1>10. \A r \in db.tx : Kept(r)
  BY <1>5 DEF Kept, SameInput
<1>11. ShapeInv'
  <2>1. ASSUME NEW s \in db'.tx
        PROVE  /\ DOMAIN s = {"id", "tx", "height", "index"}
               /\ s.id \in 1 .. db.next /\ s.tx \in Tx /\ s.height \in 0 .. Unconfirmed /\ s.index \in Nat
               /\ s.height = Unconfirmed => s.index = Unconfirmed /\ s.tx \notin AllGenerated
    <3>1. PICK r \in db.tx :
            /\ DOMAIN s = DOMAIN r /\ s.id = r.id /\ s.tx = r.tx
            /\ IF Committed(r) THEN s = r ELSE s.height = Unconfirmed /\ s.index = Unconfirmed
      BY <1>7
    <3> QED
      BY <1>3, <1>9, <3>1 DEF TableInv, ShapeInv
  <2>2. db'.outs = db.outs /\ db'.ins = db.ins /\ DOMAIN db' = DOMAIN db /\ db'.next = db.next
    BY <1>5
  <2> QED
    BY <1>2, <2>1, <2>2 DEF TableInv, ShapeInv
<1>12. KeyInv'
  <2>1. ASSUME NEW a \in db.tx, NEW b \in db.tx, new(a).id = new(b).id \/ new(a).tx = new(b).tx
        PROVE  new(a) = new(b)
    BY <1>6, <2>1 DEF TableInv, KeyInv
  <2>2. \A r, s \in db'.tx : r.id = s.id \/ r.tx = s.tx => r = s
    BY <1>5, <2>1
  <2> QED
    BY <1>5, <2>2 DEF TableInv, KeyInv
<1>13. SpentInv'
  BY <1>2, <1>5 DEF TableInv, SpentInv, Spends
<1>14. Trims
  <2>1. \A s \in db'.tx : \E r \in db.tx :
          s.id = r.id /\ s.tx = r.tx /\ (Committed(r) \/ Committed(s) => s = r)
    BY <1>3, <1>7 DEF Committed
  <2>2. \A r \in db.tx : Committed(r) => r \in db'.tx
    BY <1>8
  <2>3. \A x \in db.outs \cup db.ins : \E s \in db'.tx : s.id = x.id
    <3> TAKE x \in db.outs \cup db.ins
    <3>1. PICK r \in db.tx : r.id = x.id
      BY DEF TableInv, OwnInv, With
    <3> QED
      BY <1>8, <3>1
  <2> QED
    BY <1>1, <1>5, <1>10, <2>1, <2>2, <2>3 DEF Trims, SameInput
<1>15. TableInv'
  BY <1>1, <1>11, <1>12, <1>13, <1>14, TrimsTable
<1>16. Shrinks
  BY <1>5, <1>7 DEF Shrinks, SameInput
<1>17. \A r \in db.tx : Spared(r)
  BY <1>8, <1>10 DEF Spared
<1>18. UndoInv'
  <2>1. AroundTx' = AroundTx /\ ChainTxs(block)' = ChainTxs(block)
    BY <1>1 DEF AroundTx, Around
  <2>2. step' > 3 /\ ~(step' \in {2, 3}) /\ step' > 4 /\ ~(step' > 5) /\ ~(step' > 8)
    BY <1>1
  <2>3. ASSUME NEW s \in db'.tx
        PROVE  \E r \in db.tx : /\ s.id = r.id /\ s.tx = r.tx /\ (Committed(s) <=> Committed(r))
                                /\ s = r \/ s.height = Unconfirmed
                                /\ Committed(s) \/ s.height = Unconfirmed
    BY <1>3, <1>7 DEF Committed
  <2>4. \A s \in db'.tx : s.height # Unconfirmed =>
          [tx |-> s.tx, height |-> s.height, index |-> s.index] \in ChainTxs(block)
    BY <1>1, <2>3 DEF UndoInv
  <2>5. \A i \in db'.ins, s \in db'.tx : s.id = i.id /\ i.height # Unconfirmed => s.tx \in AroundTx
    BY <1>1, <1>5, <2>3 DEF UndoInv
  <2>6. \A s \in db'.tx : s.tx \in AllGenerated => Committed(s)
    BY <1>9, <2>3
  <2>7. ASSUME NEW a \in db'.tx, NEW s \in db'.tx, \E o \in Coins(a.tx) : o.tx = s.tx
        PROVE  a.tx \in AllGenerated \/ Committed(s) \/ s.tx \notin AllGenerated
    BY <2>6
  <2> QED
    BY <1>1, <1>2, <2>1, <2>2, <2>3, <2>4, <2>5, <2>6, <2>7 DEF UndoInv
<1> QED
  BY <1>1, <1>15, <1>16, <1>17, <1>18, UndoWork

\* The fifth: so are their outputs.
LEMMA UndoOuts ==
  ASSUME LedgerInv, Undo, step = 5
  PROVE  LedgerInv'
<1> USE DEF LedgerInv, WorkInv
<1>1. /\ phase = "undo" /\ phase' = "undo" /\ step' = 6 /\ block' = block
      /\ UNCHANGED <<storedTip, txTip, tip, synced, job, waiting, running>>
      /\ db' = Undone(5, db, H) /\ storedTip \in Block
  BY UndoProcess
<1>2. H' = H /\ AllGenerated' = AllGenerated /\ \A x : Committed(x)' <=> Committed(x)
  BY <1>1 DEF H, AllGenerated, Committed
<1>3. /\ H \in Nat /\ H < Unconfirmed /\ Unconfirmed \in Nat
      /\ \A o \in db.outs : o.height > H <=> ~Committed(o)
  BY <1>1, Heights DEF TableInv, Committed
<1> DEFINE new(o) == IF o.height > H THEN [o EXCEPT !.height = Unconfirmed] ELSE o
<1>4. /\ DOMAIN db' = DOMAIN db /\ db'.next = db.next
      /\ db'.outs = {new(o) : o \in db.outs}
      /\ db'.tx = db.tx /\ db'.ins = db.ins
  <2> DEFINE outs == RaisedAbove(db.outs, H)
  <2>1. outs = {new(o) : o \in db.outs}
    BY Zenon DEF RaisedAbove, Update
  <2>2. db' = [db EXCEPT !.outs = outs]
    BY <1>1 DEF Undone
  <2> HIDE DEF outs, new
  <2> QED
    BY <2>1, <2>2 DEF TableInv, ShapeInv
<1>5. \A o \in db.outs :
        /\ DOMAIN new(o) = DOMAIN o /\ new(o).id = o.id /\ new(o).at = o.at
        /\ new(o).by = o.by /\ new(o).byHeight = o.byHeight
        /\ IF Committed(o) THEN new(o) = o ELSE new(o).height = Unconfirmed
  BY <1>3 DEF TableInv, ShapeInv
<1> HIDE DEF new
<1>6. \A p \in db'.outs : \E o \in db.outs :
        /\ DOMAIN p = DOMAIN o /\ p.id = o.id /\ p.at = o.at
        /\ p.by = o.by /\ p.byHeight = o.byHeight
        /\ IF Committed(o) THEN p = o ELSE p.height = Unconfirmed
  BY <1>4, <1>5
<1>7. \A o \in db.outs : \E p \in db'.outs : p.id = o.id /\ p.at = o.at /\ p.by = o.by
  BY <1>4, <1>5
<1>8. \A r \in db.tx : Kept(r)
  BY <1>4, <1>7 DEF Kept, SameInput
<1>9. ShapeInv'
  <2>1. ASSUME NEW p \in db'.outs
        PROVE  /\ DOMAIN p = {"id", "at", "height", "address", "by", "byAt", "byHeight"}
               /\ p.height \in 0 .. Unconfirmed /\ p.by \in 0 .. db.next
               /\ p.byHeight \in 0 .. Unconfirmed \cup {Null}
    <3>1. PICK o \in db.outs :
            /\ DOMAIN p = DOMAIN o /\ p.by = o.by /\ p.byHeight = o.byHeight
            /\ IF Committed(o) THEN p = o ELSE p.height = Unconfirmed
      BY <1>6
    <3> QED
      BY <1>3, <3>1 DEF TableInv, ShapeInv
  <2> QED
    BY <1>2, <1>4, <2>1 DEF TableInv, ShapeInv
<1>10. KeyInv'
  <2>1. ASSUME NEW a \in db.outs, NEW b \in db.outs, new(a).id = new(b).id, new(a).at = new(b).at
        PROVE  new(a) = new(b)
    BY <1>5, <2>1 DEF TableInv, KeyInv
  <2>2. \A o, p \in db'.outs : o.id = p.id /\ o.at = p.at => o = p
    BY <1>4, <2>1
  <2> QED
    BY <1>4, <2>2 DEF TableInv, KeyInv
<1>11. SpentInv'
  <2> SUFFICES ASSUME NEW p \in db'.outs
               PROVE  /\ p.byHeight \notin {Null, Unconfirmed} =>
                           \E i \in db.ins : Spends(i, p) /\ i.height = p.byHeight
                      /\ \A i \in db.ins : Spends(i, p) /\ Committed(i) => p.byHeight = i.height
    BY <1>2, <1>4 DEF SpentInv, Spends
  <2>1. PICK o \in db.outs : p.id = o.id /\ p.at = o.at /\ p.byHeight = o.byHeight
    BY <1>6
  <2> QED
    BY <2>1 DEF TableInv, SpentInv, Spends
<1>12. Trims
  <2>1. \A x \in db.outs \cup db.ins : \E s \in db.tx : s.id = x.id
    BY DEF TableInv, OwnInv, With
  <2>2. \A p \in db'.outs : \E o \in db.outs :
          p.id = o.id /\ p.at = o.at /\ p.by = o.by /\ (Committed(o) \/ Committed(p) => p.height = o.height)
    BY <1>3, <1>6 DEF Committed
  <2> QED
    BY <1>1, <1>4, <1>8, <2>1, <2>2 DEF Trims, SameInput
<1>13. TableInv'
  BY <1>1, <1>9, <1>10, <1>11, <1>12, TrimsTable
<1>14. Shrinks
  BY <1>4, <1>6 DEF Shrinks, SameInput
<1>15. \A r \in db.tx : Spared(r)
  BY <1>4, <1>8 DEF Spared
<1>16. UndoInv'
  <2>1. AroundTx' = AroundTx /\ ChainTxs(block)' = ChainTxs(block)
    BY <1>1 DEF AroundTx, Around
  <2>2. /\ step > 3 /\ step > 4
        /\ step' > 3 /\ ~(step' \in {2, 3}) /\ step' > 4 /\ step' > 5 /\ ~(step' > 8)
    BY <1>1
  <2>3. \A p \in db'.outs : Committed(p) \/ p.height = Unconfirmed
    BY <1>3, <1>6 DEF Committed
  <2> QED
    BY <1>1, <1>2, <1>4, <2>1, <2>2, <2>3 DEF UndoInv
<1> QED
  BY <1>1, <1>13, <1>14, <1>15, <1>16, UndoWork

\* The eighth: and their inputs, with the outputs they spend.
LEMMA UndoLinks ==
  ASSUME LedgerInv, Undo, step = 8
  PROVE  LedgerInv'
<1> USE DEF LedgerInv, WorkInv
<1>1. /\ phase = "undo" /\ phase' = "undo" /\ step' = 9 /\ block' = block /\ block \in Block
      /\ UNCHANGED <<storedTip, txTip, tip, synced, job, waiting, running>>
      /\ db' = Undone(8, db, H) /\ storedTip \in Block /\ job["block"].pc = "none"
  BY UndoProcess
<1>2. H' = H /\ AllGenerated' = AllGenerated /\ \A x : Committed(x)' <=> Committed(x)
  BY <1>1 DEF H, AllGenerated, Committed
<1>3. /\ H \in Nat /\ H < Unconfirmed /\ Unconfirmed \in Nat /\ Null \notin Nat
      /\ \A i \in db.ins : i.height > H <=> ~Committed(i)
  BY <1>1, Heights DEF TableInv, Committed
<1> DEFINE linked == {i \in db.ins : i.height > H /\ \E o \in db.outs : Spends(i, o)}
           spent(o) == \E i \in linked : Spends(i, o)
           new(o) == IF spent(o) THEN [o EXCEPT !.byHeight = Unconfirmed] ELSE o
           put(i) == IF i \in linked THEN [i EXCEPT !.height = Unconfirmed] ELSE i
<1>4. /\ DOMAIN db' = DOMAIN db /\ db'.next = db.next /\ db'.tx = db.tx
      /\ db'.outs = {new(o) : o \in db.outs}
      /\ db'.ins = {put(i) : i \in db.ins}
  <2> DEFINE outs == Update(db.outs, LAMBDA o : \E i \in linked : Spends(i, o),
                            LAMBDA o : [o EXCEPT !.byHeight = Unconfirmed])
             ins == Update(db.ins, LAMBDA i : i \in linked,
                           LAMBDA i : [i EXCEPT !.height = Unconfirmed])
  <2>1. outs = {new(o) : o \in db.outs}
    BY Zenon DEF Update
  <2>2. ins = {put(i) : i \in db.ins}
    BY Zenon DEF Update
  <2>3. db' = [db EXCEPT !.outs = outs, !.ins = ins]
    BY <1>1 DEF Undone
  <2> HIDE DEF outs, ins, new, put
  <2> QED
    BY <2>1, <2>2, <2>3 DEF TableInv, ShapeInv
<1>5. \A o \in db.outs :
        /\ DOMAIN new(o) = DOMAIN o /\ new(o).id = o.id /\ new(o).at = o.at
        /\ new(o).by = o.by /\ new(o).height = o.height
        /\ IF spent(o) THEN new(o).byHeight = Unconfirmed ELSE new(o) = o
  BY DEF TableInv, ShapeInv
<1>6. \A i \in db.ins :
        /\ DOMAIN put(i) = DOMAIN i /\ SameInput(i, put(i))
        /\ IF i \in linked THEN put(i).height = Unconfirmed ELSE put(i) = i
  BY DEF TableInv, ShapeInv, SameInput
<1>7. /\ linked \subseteq db.ins
      /\ \A i \in linked : ~Committed(i) /\ \E o \in db.outs : Spends(i, o)
      /\ \A i \in db.ins, o \in db.outs : ~Committed(i) /\ Spends(i, o) => i \in linked
      /\ \A o : spent(o) <=> \E i \in linked : Spends(i, o)
  BY <1>3
<1> HIDE DEF new, put, linked, spent
<1>8. \A p \in db'.outs : \E o \in db.outs :
        /\ DOMAIN p = DOMAIN o /\ p.id = o.id /\ p.at = o.at
        /\ p.by = o.by /\ p.height = o.height
        /\ IF spent(o) THEN p.byHeight = Unconfirmed ELSE p = o
  BY <1>4, <1>5
<1>9. \A j \in db'.ins : \E i \in db.ins :
        /\ DOMAIN j = DOMAIN i /\ SameInput(i, j)
        /\ IF i \in linked THEN j.height = Unconfirmed ELSE j = i
  BY <1>4, <1>6
<1>10. \A o \in db.outs : \E p \in db'.outs : p.id = o.id /\ p.at = o.at /\ p.by = o.by
  BY <1>4, <1>5
<1>11. \A i \in db.ins : \E j \in db'.ins : SameInput(i, j) /\ (i \notin linked => j = i)
  BY <1>4, <1>6
<1>12. \A r \in db.tx : Kept(r)
  BY <1>9, <1>10, <1>11 DEF Kept, SameInput
<1>13. ShapeInv'
  <2>1. ASSUME NEW p \in db'.outs
        PROVE  /\ DOMAIN p = {"id", "at", "height", "address", "by", "byAt", "byHeight"}
               /\ p.height \in 0 .. Unconfirmed /\ p.by \in 0 .. db.next
               /\ p.byHeight \in 0 .. Unconfirmed \cup {Null}
    <3>1. PICK o \in db.outs :
            /\ DOMAIN p = DOMAIN o /\ p.by = o.by /\ p.height = o.height
            /\ IF spent(o) THEN p.byHeight = Unconfirmed ELSE p = o
      BY <1>8
    <3> QED
      BY <1>3, <3>1 DEF TableInv, ShapeInv
  <2>2. ASSUME NEW j \in db'.ins
        PROVE  /\ DOMAIN j = {"id", "at", "height", "address", "from", "fromAt"}
               /\ j.height \in 0 .. Unconfirmed /\ j.from \in 0 .. db.next
    <3>1. PICK i \in db.ins : /\ DOMAIN j = DOMAIN i /\ SameInput(i, j)
                              /\ IF i \in linked THEN j.height = Unconfirmed ELSE j = i
      BY <1>9
    <3> QED
      BY <1>3, <3>1 DEF TableInv, ShapeInv, SameInput
  <2> QED
    BY <1>2, <1>4, <2>1, <2>2 DEF TableInv, ShapeInv
<1>14. KeyInv'
  <2>1. ASSUME NEW a \in db.outs, NEW b \in db.outs, new(a).id = new(b).id, new(a).at = new(b).at
        PROVE  new(a) = new(b)
    BY <1>5, <2>1 DEF TableInv, KeyInv
  <2>2. \A o, p \in db'.outs : o.id = p.id /\ o.at = p.at => o = p
    BY <1>4, <2>1
  <2>3. ASSUME NEW a \in db.ins, NEW b \in db.ins, put(a).id = put(b).id, put(a).at = put(b).at
        PROVE  put(a) = put(b)
    BY <1>6, <2>3 DEF TableInv, KeyInv, SameInput
  <2>4. \A i, j \in db'.ins : i.id = j.id /\ i.at = j.at => i = j
    BY <1>4, <2>3
  <2> QED
    BY <1>4, <2>2, <2>4 DEF TableInv, KeyInv
<1>15. \A j \in db'.ins : \E i \in db.ins :
         SameInput(i, j) /\ (Committed(i) <=> Committed(j)) /\ (Committed(j) => j = i)
  <2> TAKE j \in db'.ins
  <2>1. PICK i \in db.ins : SameInput(i, j) /\ IF i \in linked THEN j.height = Unconfirmed ELSE j = i
    BY <1>9
  <2>2. i \in linked => ~Committed(i) /\ ~Committed(j)
    BY <1>3, <1>7, <2>1 DEF Committed
  <2> QED
    BY <2>1, <2>2
<1>16. SpentInv'
  <2> SUFFICES ASSUME NEW p \in db'.outs
               PROVE  /\ p.byHeight \notin {Null, Unconfirmed} =>
                           \E i \in db'.ins : Spends(i, p) /\ i.height = p.byHeight
                      /\ \A i \in db'.ins : Spends(i, p) /\ Committed(i) => p.byHeight = i.height
    BY <1>2 DEF SpentInv, Spends
  <2>1. PICK o \in db.outs : p.id = o.id /\ p.at = o.at /\ IF spent(o) THEN p.byHeight = Unconfirmed ELSE p = o
    BY <1>8
  <2>2. \A i : Spends(i, o) <=> Spends(i, p)
    BY <2>1 DEF Spends
  <2>3. CASE spent(o)
    <3>1. PICK i \in linked : Spends(i, o)
      BY <1>7, <2>3
    <3>2. \A j \in db.ins : Spends(j, o) => ~Committed(j)
      BY <1>1, <1>7, <3>1, OneSpender DEF TableInv
    <3>3. \A j \in db'.ins : Spends(j, p) => ~Committed(j)
      BY <1>15, <2>2, <3>2 DEF SameInput, Spends
    <3> QED
      BY <2>1, <2>3, <3>3
  <2>4. CASE ~spent(o)
    <3>1. ASSUME p.byHeight \notin {Null, Unconfirmed}
          PROVE  \E j \in db'.ins : Spends(j, p) /\ j.height = p.byHeight
      <4>1. PICK i \in db.ins : Spends(i, o) /\ i.height = o.byHeight
        BY <2>1, <2>4, <3>1 DEF TableInv, SpentInv
      <4>2. i \notin linked
        BY <1>7, <2>4, <4>1
      <4>3. i \in db'.ins
        BY <1>11, <4>2
      <4> QED
        BY <2>1, <2>4, <4>1, <4>3
    <3>2. \A j \in db'.ins : Spends(j, p) /\ Committed(j) => p.byHeight = j.height
      <4> SUFFICES ASSUME NEW j \in db'.ins, Spends(j, p), Committed(j) PROVE p.byHeight = j.height
        OBVIOUS
      <4>1. j \in db.ins
        BY <1>15
      <4> QED
        BY <2>1, <2>4, <4>1 DEF TableInv, SpentInv
    <3> QED
      BY <3>1, <3>2
  <2> QED
    BY <2>3, <2>4
<1>17. Trims
  <2>1. \A x \in db.outs \cup db.ins : \E s \in db.tx : s.id = x.id
    BY DEF TableInv, OwnInv, With
  <2>2. \A p \in db'.outs : /\ \E o \in db.outs : p.id = o.id /\ p.at = o.at /\ p.by = o.by /\ p.height = o.height
                            /\ \E s \in db.tx : s.id = p.id
    BY <1>8, <2>1
  <2>3. \A j \in db'.ins :
          /\ \E i \in db.ins : SameInput(i, j) /\ (Committed(i) \/ Committed(j) => j.height = i.height)
          /\ \E s \in db.tx : s.id = j.id
    BY <1>15, <2>1 DEF SameInput
  <2> QED
    BY <1>1, <1>4, <1>12, <2>2, <2>3 DEF Trims
<1>18. TableInv'
  BY <1>1, <1>13, <1>14, <1>16, <1>17, TrimsTable
<1>19. Shrinks
  BY <1>4, <1>8, <1>9 DEF Shrinks
<1>20. \A r \in db.tx : Spared(r)
  BY <1>4, <1>12 DEF Spared
<1>21. \A i \in db.ins : ~Committed(i) => i \in linked \/ i.height = Unconfirmed
  <2> SUFFICES ASSUME NEW i \in db.ins, ~Committed(i), i.height # Unconfirmed PROVE i \in linked
    OBVIOUS
  <2>1. PICK r \in db.tx : With(i, r) /\ i.at \in DOMAIN Inputs[r.tx]
    BY DEF TableInv, OwnInv
  <2>2. ~Committed(r) /\ r.tx \notin AllGenerated
    BY <1>1, <2>1 DEF With, UndoInv, Committed
  <2>3. r.tx \in AroundTx
    BY <1>1, <2>1 DEF UndoInv, With
  <2>4. block # NoBlock /\ AroundTx = TxsUpTo(block, Depth[block])
    BY <1>1, TreeAssumption DEF AroundTx, Around
  <2>5. Inputs[r.tx][i.at].tx # NoTx
    BY <1>1, <2>1, <2>2, <2>3, <2>4, ChainInputs
  <2>6. ~InProgress(r.tx)
    <3> SUFFICES ASSUME NEW w \in Handler, Filling(w), r.tx \in ToSet(job[w].txs) PROVE FALSE
      BY DEF InProgress
    <3>1. w = "mempool" /\ job["mempool"].pc # "none"
      BY <1>1 DEF Handler, Filling
    <3>2. running # NoTx /\ job["mempool"].txs = <<running>>
      BY <3>1 DEF ProcessInv, MempoolInv
    <3>3. r.tx = running
      BY <3>1, <3>2 DEF ToSet
    <3> QED
      BY <1>1, <2>3, <3>2, <3>3, QueuedApart, QueuedType
  <2>7. Complete(r)
    BY <1>1, <2>2, <2>6 DEF CompleteInv, Whole
  <2>8. \E o \in db.outs : Spends(i, o)
    BY <2>1, <2>5, <2>7 DEF Complete, Linking, With
  <2> QED
    BY <1>7, <2>8
<1>22. UndoInv'
  <2>1. AroundTx' = AroundTx /\ ChainTxs(block)' = ChainTxs(block)
    BY <1>1 DEF AroundTx, Around
  <2>2. /\ step > 3 /\ step > 4 /\ step > 5
        /\ step' > 3 /\ ~(step' \in {2, 3}) /\ step' > 4 /\ step' > 5 /\ step' > 8
    BY <1>1
  <2>3. \A p \in db'.outs : Committed(p) \/ p.height = Unconfirmed
    BY <1>1, <1>8, <2>2 DEF Committed, UndoInv
  <2>4. \A j \in db'.ins : Committed(j) \/ j.height = Unconfirmed
    BY <1>9, <1>21
  <2>5. \A j \in db'.ins, r \in db'.tx : r.id = j.id /\ j.height # Unconfirmed => r.tx \in AroundTx
    <3> SUFFICES ASSUME NEW j \in db'.ins, NEW r \in db.tx, r.id = j.id, j.height # Unconfirmed
                 PROVE  r.tx \in AroundTx
      BY <1>4
    <3>1. PICK i \in db.ins : SameInput(i, j) /\ j = i
      BY <1>9
    <3> QED
      BY <1>1, <3>1 DEF UndoInv
  <2> QED
    BY <1>1, <1>2, <1>4, <2>1, <2>2, <2>3, <2>4, <2>5 DEF UndoInv
<1> QED
  BY <1>1, <1>18, <1>19, <1>20, <1>22, UndoWork

\* The statements of onReorg() that are about other tables.
LEMMA UndoOther ==
  ASSUME ShapeInv, step \in 1 .. 10, step \notin {1, 3, 4, 5, 8}, db' = Undone(step, db, H)
  PROVE  /\ DOMAIN db' = DOMAIN db /\ db'.next = db.next
         /\ db'.tx = db.tx /\ db'.outs = db.outs /\ db'.ins = db.ins
<1>1. DOMAIN db = {"tx", "outs", "ins", "balances", "witness", "receipts", "logs", "spends",
                   "refunds", "addresses", "next"}
  BY DEF ShapeInv
<1>2. CASE step = 2
  <2> DEFINE above == Ids({r \in db.tx : r.height > H})
             refunds == {r \in db.refunds : r[1] \notin above}
             spends == {s \in db.spends : s[1] \notin above}
  <2>1. db' = [db EXCEPT !.refunds = refunds, !.spends = spends]
    BY <1>2 DEF Undone
  <2> HIDE DEF refunds, spends
  <2> QED
    BY <1>1, <2>1
<1>3. CASE step = 6
  <2> DEFINE receipts == Update(db.receipts, LAMBDA r : r.height > H,
               LAMBDA r : [r EXCEPT !.height = Unconfirmed, !.index = Unconfirmed])
  <2>1. db' = [db EXCEPT !.receipts = receipts]
    BY <1>3 DEF Undone
  <2> HIDE DEF receipts
  <2> QED
    BY <1>1, <2>1
<1>4. CASE step = 7
  <2> DEFINE logs == {l \in db.logs : l.height <= H}
  <2>1. db' = [db EXCEPT !.logs = logs]
    BY <1>4 DEF Undone
  <2> HIDE DEF logs
  <2> QED
    BY <1>1, <2>1
<1>5. CASE step = 9
  <2> DEFINE above == {r \in db.tx : r.height > H}
             balances == Update(db.balances, LAMBDA b : b.id \in Ids(above),
               LAMBDA b : [b EXCEPT !.height = Unconfirmed, !.index = Unconfirmed])
  <2>1. db' = [db EXCEPT !.balances = balances]
    BY <1>5 DEF Undone
  <2> HIDE DEF balances
  <2> QED
    BY <1>1, <2>1
<1>6. CASE step = 10
  <2> DEFINE addresses == Update(db.addresses, LAMBDA a : a.create > H,
                                 LAMBDA a : [a EXCEPT !.create = Unconfirmed])
  <2>1. db' = [db EXCEPT !.addresses = addresses]
    BY <1>6 DEF Undone
  <2> HIDE DEF addresses
  <2> QED
    BY <1>1, <2>1
<1> QED
  BY <1>2, <1>3, <1>4, <1>5, <1>6

\* Every statement of onReorg() preserves the invariant.
LEMMA LedgerUndo ==
  ASSUME LedgerInv, Undo
  PROVE  LedgerInv'
<1>1. step \in 1 .. 10 /\ db' = Undone(step, db, H)
  BY UndoProcess DEF LedgerInv, WorkInv
<1>2. ASSUME step \notin {1, 3, 4, 5, 8} PROVE LedgerInv'
  BY <1>1, <1>2, UndoOther, UndoQuiet DEF LedgerInv, TableInv
<1> QED
  BY <1>2, UndoFreed, UndoRemoved, UndoRows, UndoOuts, UndoLinks

-----------------------------------------------------------------------------
(* The handlers.                                                           *)

JobFields == {"pc", "txs", "todo", "ids", "found", "known"}

\* What every step of handler w leaves alone.
Handles(w) ==
  /\ phase \in {"run", "undo"} /\ job[w].pc # "none"
  /\ UNCHANGED <<storedTip, phase, step, synced, tip, block, waiting, running>>
  /\ txTip' = txTip \/ (w = "block" /\ txTip' = block)
  /\ DOMAIN job' = Handler
  /\ \A v \in Handler : v # w => job'[v] = job[v]
  /\ DOMAIN job'[w] = JobFields
  /\ job'[w].txs = job[w].txs /\ job'[w].found = job[w].found

\* What a handler that is writing knows of the process.
LEMMA HandlerPlace ==
  ASSUME ProcessInv, NEW w \in Handler, phase \in {"run", "undo"}, job[w].pc # "none"
  PROVE  /\ w \in {"block", "mempool"} /\ "block" \in Handler /\ "mempool" \in Handler
         /\ storedTip \in Block
         /\ w = "block" => /\ phase = "run" /\ block \in Block /\ block # NoBlock
                           /\ Parent[block] = storedTip /\ Depth[block] = H + 1
         /\ w = "mempool" => running # NoTx /\ synced
         /\ H \in Nat /\ H < Unconfirmed /\ Unconfirmed \in Nat
         /\ block \in Block => Depth[block] < Unconfirmed
<1>1. w \in {"block", "mempool"} /\ "block" \in Handler /\ "mempool" \in Handler
  BY DEF Handler
<1>2. storedTip \in Block /\ H \in Nat /\ H < Unconfirmed /\ Unconfirmed \in Nat
  BY ContentsType, LedgerAssumption DEF ProcessInv, H
<1>3. block \in Block => Depth[block] < Unconfirmed
  BY ContentsType
<1>4. w = "mempool" => running # NoTx /\ synced
  BY DEF ProcessInv
<1>5. CASE w = "block"
  <2>1. phase = "run" /\ block # NoBlock /\ block \in Block /\ Parent[block] = storedTip
    BY <1>5 DEF ProcessInv
  <2>2. Depth[block] = H + 1
    BY <1>2, <2>1, OnBranchParent DEF H
  <2> QED
    BY <1>1, <1>2, <1>3, <1>5, <2>1, <2>2
<1> QED
  BY <1>1, <1>2, <1>3, <1>4, <1>5

\* A statement of a handler changes no other part of the process.
LEMMA HandlesProcess ==
  ASSUME ProcessInv, NEW w \in Handler, Handles(w)
  PROVE  ProcessInv'
<1>1. /\ phase \in {"run", "undo"} /\ job[w].pc # "none"
      /\ UNCHANGED <<storedTip, phase, step, synced, tip, block, waiting, running>>
      /\ txTip' = txTip \/ (w = "block" /\ txTip' = block)
      /\ DOMAIN job' = Handler
      /\ \A v \in Handler : v # w => job'[v] = job[v]
      /\ DOMAIN job'[w] = JobFields
  BY DEF Handles
<1>2. /\ w \in {"block", "mempool"}
      /\ w = "block" => phase = "run" /\ block \in Block /\ block # NoBlock
      /\ w = "mempool" => running # NoTx
      /\ H \in Nat
  BY <1>1, HandlerPlace
<1>3. txTip' \in Block /\ Depth[txTip'] >= H
  <2>1. CASE txTip' = txTip
    BY <2>1 DEF ProcessInv
  <2>2. CASE w = "block" /\ txTip' = block
    <3>1. OnBranch(storedTip, block)
      BY <1>1, <1>2, <2>2, OnBranchParent, TreeAssumption DEF ProcessInv
    <3>2. Depth[block] \in Nat /\ H <= Depth[block]
      BY <1>2, <2>2, <3>1, DepthNat DEF OnBranch, H
    <3> QED
      BY <1>2, <2>2, <3>2
  <2> QED
    BY <1>1, <2>1, <2>2
<1>4. \A v \in Handler : DOMAIN job'[v] = JobFields
  BY <1>1 DEF ProcessInv, JobFields
<1>5. H' = H
  BY <1>1 DEF H
<1>6. /\ phase' \notin {"down", "clean"}
      /\ w = "block" => (running' = NoTx => job'["mempool"] = job["mempool"])
      /\ w = "mempool" => job'["block"] = job["block"]
  BY <1>1, <1>2 DEF Handler
<1>7. running' = NoTx => job'["mempool"].pc = "none" /\ waiting' = <<>>
  BY <1>1, <1>2, <1>6 DEF ProcessInv
<1>8. phase' = "undo" => /\ step' \in 1 .. UndoStatements /\ synced' /\ block' \in Block
                         /\ OnBranch(storedTip', block') /\ block' # storedTip'
                         /\ job'["block"].pc = "none"
  <2> SUFFICES ASSUME phase = "undo" PROVE w = "mempool" /\ step \in 1 .. UndoStatements /\ synced /\ block \in Block
                         /\ OnBranch(storedTip, block) /\ block # storedTip
                         /\ job["block"].pc = "none"
    BY <1>1, <1>6
  <2> QED
    BY <1>2 DEF ProcessInv
<1>9. phase' = "run" => IF block' = NoBlock THEN job'["block"].pc = "none"
                        ELSE block' \in Block /\ Parent[block'] = storedTip'
  BY <1>1, <1>2, <1>6 DEF ProcessInv
<1>10. phase' # "clean"
  BY <1>6
<1> HIDE DEF Handles
<1> QED
  BY <1>1, <1>3, <1>4, <1>5, <1>6, <1>7, <1>8, <1>9, <1>10 DEF ProcessInv, JobFields

\* From where to where a statement goes that leaves these tables alone.
QuietSteps ==
  {<<"lower", "replace">>, <<"witness", "number">>, <<"witness", "addresses">>,
   <<"number", "addresses">>, <<"addresses", "new">>, <<"new", "insert">>,
   <<"adjust", "balances">>, <<"balances", "receipts">>, <<"receipts", "contracts">>,
   <<"receipts", "done">>, <<"contracts", "tip">>, <<"tip", "commit">>}

\* A statement that changes none of these tables preserves the invariant.
LEMMA QuietWork ==
  ASSUME LedgerInv, NEW w \in Handler, Handles(w),
         DOMAIN db' = DOMAIN db, db'.next \in Nat, db'.next >= db.next,
         db'.tx = db.tx, db'.outs = db.outs, db'.ins = db.ins,
         job'[w].todo = job[w].todo,
         <<job[w].pc, job'[w].pc>> \in QuietSteps,
         job'[w].pc \in {"addresses", "new", "insert"} => IdsRight(job[w])',
         w = "block" => job'[w].pc # "done",
         w = "mempool" => job'[w].pc \in {"addresses", "new", "insert", "receipts", "done"},
         job'[w].pc = "commit" => txTip' = block
  PROVE  LedgerInv'
<1> USE DEF LedgerInv, WorkInv
<1> DEFINE p == job[w].pc
           q == job'[w].pc
<1>1. /\ phase \in {"run", "undo"} /\ p # "none"
      /\ UNCHANGED <<storedTip, phase, step, synced, tip, block, waiting, running>>
      /\ DOMAIN job' = Handler
      /\ \A v \in Handler : v # w => job'[v] = job[v]
      /\ job'[w].txs = job[w].txs /\ job'[w].found = job[w].found
  BY DEF Handles
<1>2. TableInv'
  BY <1>1, QuietTable
<1>3. ProcessInv'
  BY HandlesProcess
<1>4. /\ q \notin {"none", "find", "adopt", "spend", "link", "lower"}
      /\ p \notin {"none", "find", "adopt", "spend", "link"}
      /\ q \in {"witness", "number", "addresses", "new", "insert"}
           <=> p \in {"witness", "number", "addresses", "new", "insert"}
      /\ q \in {"none", "find", "adopt", "spend", "lower", "replace"}
           <=> p \in {"none", "find", "adopt", "spend", "lower", "replace"}
      /\ q \in {"spend", "lower", "replace"} <=> p \in {"spend", "lower", "replace"}
      /\ q \in {"adopt", "spend", "lower", "replace"} <=> p \in {"adopt", "spend", "lower", "replace"}
      /\ q \in {"witness", "number"} => p \in {"witness", "number"}
      /\ q = "witness" => FALSE
      /\ q = "replace" => p = "lower"
      /\ q \in {"replace", "number", "addresses", "new", "insert", "balances", "receipts",
                "contracts", "done", "tip", "commit"}
  BY DEF QuietSteps
<1> HIDE DEF p, q
<1>5. /\ w \in {"block", "mempool"} /\ "block" \in Handler /\ "mempool" \in Handler
      /\ w = "block" => phase = "run" /\ block \in Block /\ block # NoBlock
      /\ w = "mempool" => running # NoTx
  BY <1>1, HandlerPlace DEF p
<1>6. /\ \A v \in Handler : Filling(v)' <=> Filling(v)
      /\ Looking' <=> Looking
      /\ \A t : InProgress(t)' <=> InProgress(t)
  <2>1. \A v \in Handler : Filling(v)' <=> Filling(v)
    <3> TAKE v \in Handler
    <3>1. CASE v = w
      BY <1>4, <3>1 DEF Filling, p, q
    <3>2. CASE v # w
      BY <1>1, <3>2 DEF Filling
    <3> QED
      BY <3>1, <3>2
  <2>2. Looking' <=> Looking
    <3>1. CASE w = "block"
      BY <1>4, <3>1 DEF Looking, p, q
    <3>2. CASE w # "block"
      BY <1>1, <1>5, <3>2 DEF Looking
    <3> QED
      BY <3>1, <3>2
  <2>3. \A v \in Handler : job'[v].txs = job[v].txs
    BY <1>1
  <2> QED
    BY <2>1, <2>2, <2>3 DEF InProgress
<1>7. AllGenerated' = AllGenerated /\ (\A x : Committed(x)' <=> Committed(x)) /\ H' = H
  BY <1>1 DEF H, AllGenerated, Committed
<1>8. /\ \A r : Complete(r)' <=> Complete(r)
      /\ \A r : Filled(r)' <=> Filled(r)
      /\ \A r : Unlinked(r)' <=> Unlinked(r)
      /\ \A r : Empty(r)' <=> Empty(r)
  BY DEF Complete, Filled, Linking, Spends, Unlinked, Empty
<1>9. CleanInv' /\ UndoInv'
  <2>1. phase' # "clean"
    BY <1>1
  <2>2. AroundTx' = AroundTx
    BY <1>1 DEF AroundTx, Around
  <2> QED
    BY <1>1, <1>7, <2>1, <2>2 DEF CleanInv, UndoInv, Spends
<1>10. CompleteInv'
  BY <1>1, <1>6, <1>7, <1>8 DEF CompleteInv, Whole
<1>11. HeightInv'
  <2>1. job'["block"].found = job["block"].found
    BY <1>1, <1>5
  <2>2. job'["block"].pc \in {"spend", "lower", "replace"} <=> job["block"].pc \in {"spend", "lower", "replace"}
    BY <1>1, <1>4, <1>5 DEF p, q
  <2> QED
    BY <1>1, <1>6, <1>7, <2>1, <2>2 DEF HeightInv, BlockTx
<1>12. QueueInv'
  <2>1. Queued' = Queued /\ ChainTx' = ChainTx /\ Touched' = Touched
    BY <1>1, <1>7 DEF Queued, ChainTx, Touched
  <2>2. \A t : Lineage(t)' = Lineage(t)
    BY DEF Lineage
  <2>3. \A t, b : Apart(t, b)' <=> Apart(t, b)
    BY <2>2 DEF Apart
  <2> QED
    BY <1>1, <2>1, <2>3 DEF QueueInv, Stranger
<1>13. (\A v \in Handler : WriteInv(v))'
  <2> SUFFICES ASSUME NEW v \in Handler PROVE WriteInv(v)'
    OBVIOUS
  <2>1. CASE v # w
    <3>1. job'[v] = job[v]
      BY <1>1, <2>1
    <3> QED
      BY <1>6, <1>8, <3>1 DEF WriteInv, IdsRight
  <2>2. CASE v = w
    <3>1. q # "link" /\ p # "link"
      BY <1>4
    <3>2. ASSUME Filling(w) PROVE \A r \in db.tx : r.tx \in ToSet(job[w].txs) => Empty(r)
      BY <3>1, <3>2 DEF WriteInv, p
    <3>3. Filling(w)' => \A r \in db'.tx : r.tx \in ToSet(job'[w].txs) => Empty(r)'
      BY <1>1, <1>6, <1>8, <3>2
    <3>4. q \in {"addresses", "new", "insert", "link"} \/ (w = "mempool" /\ q = "witness") => IdsRight(job[w])'
      BY <1>4 DEF q
    <3> QED
      BY <2>2, <3>1, <3>3, <3>4 DEF WriteInv, q
  <2> QED
    BY <2>1, <2>2
<1>14. MempoolInv'
  <2> SUFFICES ASSUME running # NoTx PROVE MempoolInv'
    BY <1>1 DEF MempoolInv
  <2>1. CASE w = "block"
    BY <1>1, <1>5, <1>6, <2>1 DEF MempoolInv
  <2>2. CASE w = "mempool"
    <3>1. q \in {"addresses", "new", "insert", "receipts", "done"} /\ q # "replace"
      BY <2>2 DEF q
    <3>2. Filling("mempool")' => Filling("mempool")
      BY <1>5, <1>6
    <3> QED
      BY <1>1, <2>2, <3>1, <3>2 DEF MempoolInv, q
  <2> QED
    BY <1>5, <2>1, <2>2
<1>15. BlockInv'
  <2> SUFFICES ASSUME phase = "run", block # NoBlock PROVE BlockInv'
    BY <1>1 DEF BlockInv
  <2>1. NewPlaces' = NewPlaces
    BY <1>1, <1>5 DEF NewPlaces
  <2>2. AroundTx' = AroundTx /\ BlockTx' = BlockTx
    BY <1>1 DEF AroundTx, Around, BlockTx
  <2>3. BlockPlace /\ BlockFound /\ BlockNew /\ BlockRows /\ BlockIds /\ BlockLinks
    BY DEF BlockInv
  <2>4. /\ job'["block"].txs = job["block"].txs /\ job'["block"].found = job["block"].found
        /\ job'["block"].todo = job["block"].todo
        /\ w = "mempool" => job'["block"] = job["block"] /\ txTip' = txTip
        /\ w = "block" => p = job["block"].pc /\ q = job'["block"].pc
    BY <1>1, <1>5 DEF Handles, p, q
  <2>5. BlockPlace'
    BY <1>1, <1>4, <1>5, <2>3, <2>4 DEF BlockPlace, q
  <2>6. job'["block"].pc # "find" => job["block"].pc # "find"
    BY <1>4, <1>5, <2>4
  <2>7. BlockFound'
    BY <1>1, <1>8, <2>1, <2>2, <2>3, <2>4, <2>6 DEF BlockFound
  <2>8. job'["block"].pc \in {"adopt", "spend", "lower", "replace"} =>
          job["block"].pc \in {"adopt", "spend", "lower", "replace"}
    BY <1>4, <1>5, <2>4
  <2>9. BlockNew'
    BY <1>1, <2>1, <2>2, <2>3, <2>4, <2>8 DEF BlockNew
  <2>10. BlockRows'
    BY <1>1, <1>6, <1>7, <2>3 DEF BlockRows
  <2>11. BlockIds'
    <3>1. \A k \in 0 .. db.next : k \in 0 .. db'.next
      BY DEF TableInv, ShapeInv
    <3>2. job'["block"].pc \in {"witness", "number"} => job["block"].pc \in {"witness", "number"}
      BY <1>4, <1>5, <2>4
    <3> QED
      BY <2>3, <2>4, <3>1, <3>2 DEF BlockIds
  <2>12. BlockLinks'
    <3>1. job'["block"].pc \notin {"find", "adopt", "spend"} => job["block"].pc \notin {"find", "adopt", "spend"}
      BY <1>4, <1>5, <2>4
    <3> QED
      BY <1>7, <2>3, <3>1 DEF BlockLinks, Spends
  <2> QED
    BY <2>5, <2>7, <2>9, <2>10, <2>11, <2>12 DEF BlockInv
<1> QED
  BY <1>2, <1>3, <1>9, <1>10, <1>11, <1>12, <1>13, <1>14, <1>15

\* What the form of a statement says.
LEMMA StatementHandles ==
  ASSUME ProcessInv, NEW w \in Handler, NEW pc, NEW next, NEW d, pc # "none",
         Statement(w, pc, next, d)
  PROVE  /\ Handles(w) /\ job[w].pc = pc /\ job'[w].pc = next /\ db' = d /\ txTip' = txTip
         /\ job'[w].todo = job[w].todo /\ job'[w].ids = job[w].ids /\ job'[w].txs = job[w].txs
         /\ job'[w].found = job[w].found
         /\ \A v \in Handler : v # w => job'[v] = job[v]
<1>1. /\ phase \in {"run", "undo"} /\ job[w].pc = pc /\ job' = [job EXCEPT ![w].pc = next]
      /\ db' = d
      /\ UNCHANGED <<storedTip, txTip, phase, step, synced, tip, block, waiting, running>>
  BY DEF Statement, Writing, Goes, tips, process, queue
<1>2. DOMAIN job = Handler /\ DOMAIN job[w] = JobFields
  BY DEF ProcessInv, JobFields
<1>3. job'[w] = [job[w] EXCEPT !.pc = next] /\ DOMAIN job' = Handler
  BY <1>1, <1>2
<1>4. /\ DOMAIN job'[w] = JobFields /\ job'[w].pc = next
      /\ job'[w].todo = job[w].todo /\ job'[w].ids = job[w].ids /\ job'[w].txs = job[w].txs
      /\ job'[w].found = job[w].found
  BY <1>2, <1>3 DEF JobFields
<1>5. \A v \in Handler : v # w => job'[v] = job[v]
  BY <1>1, <1>2
<1> QED
  BY <1>1, <1>3, <1>4, <1>5 DEF Handles

\* A statement that leaves these tables alone.
LEMMA QuietStatement ==
  ASSUME LedgerInv, NEW w \in Handler, NEW pc, NEW next, NEW d, Statement(w, pc, next, d),
         DOMAIN d = DOMAIN db, d.next \in Nat, d.next >= db.next,
         d.tx = db.tx, d.outs = db.outs, d.ins = db.ins,
         <<pc, next>> \in QuietSteps, next # "commit", pc # "number",
         w = "block" => next # "done" /\ (pc = "witness" => next = "number"),
         w = "mempool" => next \in {"addresses", "new", "insert", "receipts", "done"}
  PROVE  LedgerInv'
<1> USE DEF LedgerInv, WorkInv
<1>1. pc # "none"
  BY DEF QuietSteps
<1>2. /\ Handles(w) /\ job[w].pc = pc /\ job'[w].pc = next /\ db' = d
      /\ job'[w].todo = job[w].todo /\ job'[w].ids = job[w].ids /\ job'[w].txs = job[w].txs
  BY <1>1, StatementHandles
<1>3. w \in {"block", "mempool"}
  BY DEF Handler
<1>4. next \in {"addresses", "new", "insert"} => IdsRight(job[w])'
  <2> SUFFICES ASSUME next \in {"addresses", "new", "insert"} PROVE IdsRight(job[w])'
    OBVIOUS
  <2>1. pc \in {"addresses", "new"} \/ (w = "mempool" /\ pc = "witness")
    BY <1>3 DEF QuietSteps
  <2>2. IdsRight(job[w])
    BY <1>2, <2>1 DEF WriteInv
  <2> QED
    BY <1>2, <2>2 DEF IdsRight
<1> QED
  BY <1>2, <1>4, QuietWork

\* The addresses of the transactions found.
LEMMA LedgerLower ==
  ASSUME LedgerInv, Lower
  PROVE  LedgerInv'
<1> DEFINE d == Lowered(db, job["block"].found, Depth[block])
           addresses == Update(db.addresses,
             LAMBDA a : a.create > Depth[block] /\ \E o \in db.outs : o.id \in job["block"].found /\ o.address = a.id,
             LAMBDA a : [a EXCEPT !.create = Depth[block]])
<1>1. Statement("block", "lower", "replace", d)
  BY DEF Lower
<1>2. d = [db EXCEPT !.addresses = addresses]
  BY DEF Lowered
<1> HIDE DEF addresses, d
<1>3. /\ DOMAIN d = DOMAIN db /\ d.next = db.next /\ db.next \in Nat
      /\ d.tx = db.tx /\ d.outs = db.outs /\ d.ins = db.ins
  BY <1>2 DEF LedgerInv, TableInv, ShapeInv
<1>4. <<"lower", "replace">> \in QuietSteps
  BY DEF QuietSteps
<1> QED
  BY <1>1, <1>3, <1>4, QuietStatement DEF Handler

\* Their witnesses.
LEMMA LedgerWitnesses ==
  ASSUME LedgerInv, NEW w \in Handler, CreateWitnesses(w)
  PROVE  LedgerInv'
<1> DEFINE d == WithWitness(db, job[w].txs)
           next == IF w = "block" THEN "number" ELSE "addresses"
           rows == db.witness \cup (ToSet(job[w].txs) \cap Segwit)
<1>1. CASE Refused(w, "witness", "duplicate")
  BY <1>1, LedgerStop DEF Refused
<1>2. CASE Statement(w, "witness", next, d)
  <2>1. d = [db EXCEPT !.witness = rows]
    BY DEF WithWitness
  <2>2. Statement(w, "witness", next, d)
    BY <1>2
  <2>3. /\ w = "block" => next = "number"
        /\ w = "mempool" => next = "addresses"
        /\ <<"witness", next>> \in QuietSteps /\ next # "commit" /\ next # "done"
    BY DEF QuietSteps
  <2> HIDE DEF rows, d, next
  <2>4. /\ DOMAIN d = DOMAIN db /\ d.next = db.next /\ db.next \in Nat
        /\ d.tx = db.tx /\ d.outs = db.outs /\ d.ins = db.ins
    BY <2>1 DEF LedgerInv, TableInv, ShapeInv
  <2> QED
    BY <2>2, <2>3, <2>4, QuietStatement
<1> QED
  BY <1>1, <1>2 DEF CreateWitnesses

\* The elements of a sequence are finitely many, and so are the addresses of some
\* transactions: a list of them has a length.
LEMMA SeqFinite ==
  ASSUME NEW X, NEW s \in Seq(X)
  PROVE  IsFiniteSet(ToSet(s))
<1>1. DOMAIN s = 1 .. Len(s) /\ Len(s) \in Nat
  OBVIOUS
<1>2. IsFiniteSet(DOMAIN s)
  BY <1>1, FS_Interval
<1>3. ToSet(s) = {s[n] : n \in DOMAIN s}
  BY DEF ToSet
<1> DEFINE f == [n \in DOMAIN s |-> s[n]]
<1>4. f \in Surjection(DOMAIN s, ToSet(s))
  BY <1>3 DEF Surjection
<1> QED
  BY <1>2, <1>4, FS_Surjection

\* A job pays finitely many addresses,
LEMMA PaidFinite ==
  ASSUME NEW s \in Seq(Tx)
  PROVE  IsFiniteSet(Paid(s))
<1> DEFINE lists == {ToSet(Pays[t]) : t \in ToSet(s)}
           f == [t \in ToSet(s) |-> ToSet(Pays[t])]
<1>1. IsFiniteSet(ToSet(s))
  BY SeqFinite
<1>2. f \in Surjection(ToSet(s), lists)
  BY DEF Surjection
<1>3. IsFiniteSet(lists)
  <2> HIDE DEF lists, f
  <2> QED
    BY <1>1, <1>2, FS_Surjection
<1>4. \A t \in ToSet(s) : t \in Tx
  BY SeqElement DEF ToSet
<1>5. \A t \in Tx : Pays[t] \in Seq(Address)
  BY LedgerAssumption
<1>6. \A t \in Tx : IsFiniteSet(ToSet(Pays[t]))
  BY <1>5, SeqFinite
<1>7. \A T \in lists : IsFiniteSet(T)
  BY <1>4, <1>6
<1>8. Paid(s) = UNION lists
  BY DEF Paid
<1> HIDE DEF lists
<1> QED
  BY <1>3, <1>7, <1>8, FS_UNION

\* so the list of them is finite.
LEMMA SetToSeqLen ==
  ASSUME NEW S, IsFiniteSet(S)
  PROVE  Len(SetToSeq(S)) \in Nat
<1>1. Cardinality(S) \in Nat /\ ExistsBijection(1 .. Cardinality(S), S)
  BY FS_CardinalityType
<1>2. \E f \in [1 .. Cardinality(S) -> S] : IsInjective(f)
  BY <1>1 DEF ExistsBijection, Bijection, Injection
<1>3. SetToSeq(S) \in [1 .. Cardinality(S) -> S]
  BY <1>2, Zenon DEF SetToSeq
<1> HIDE DEF SetToSeq
<1>4. SetToSeq(S) \in Seq(S)
  BY <1>1, <1>3 DEF Seq
<1> QED
  BY <1>4

\* The job of a handler is a list of transactions.
LEMMA JobTxs ==
  ASSUME LedgerInv, NEW w \in Handler, phase \in {"run", "undo"}, job[w].pc \notin {"none", "find"}
  PROVE  job[w].txs \in Seq(Tx)
<1> USE DEF LedgerInv, WorkInv
<1>1. CASE w = "mempool"
  <2>1. running # NoTx /\ running \in Tx
    BY <1>1, HandlerPlace, QueuedType
  <2>2. job[w].txs = <<running>>
    BY <1>1, <2>1 DEF MempoolInv
  <2> QED
    BY <2>1, <2>2
<1>2. CASE w = "block"
  <2>1. block \in Block /\ block # NoBlock /\ phase = "run"
    BY <1>2, HandlerPlace
  <2>2. job[w].txs = Picked(Contents[block], NewPlaces)
    BY <1>2, <2>1 DEF BlockInv, BlockFound
  <2>3. NewPlaces \in SUBSET DOMAIN Contents[block] /\ Contents[block] \in Seq(Tx)
    BY <2>1, ContentsType DEF NewPlaces
  <2> QED
    BY <2>2, <2>3, PickedLemma
<1> QED
  BY <1>1, <1>2 DEF Handler

\* New addresses raise the next id, and touch nothing else of the ledger.
LEMMA LedgerAddresses ==
  ASSUME LedgerInv, NEW w \in Handler, CreateAddresses(w)
  PROVE  LedgerInv'
<1> DEFINE new == Paid(job[w].txs) \ job[w].known
           list == SetToSeq(new)
           rows == db.addresses \cup {[id |-> db.next + n, address |-> list[n],
                                       create |-> Height(w)] : n \in DOMAIN list}
           d == WithAddresses(db, new, Height(w))
<1>1. CASE Refused(w, "new", "duplicate")
  BY <1>1, LedgerStop DEF Refused
<1>2. CASE Statement(w, "new", "insert", d)
  <2>1. d = [db EXCEPT !.addresses = rows, !.next = db.next + Len(list)]
    BY DEF WithAddresses
  <2>2. <<"new", "insert">> \in QuietSteps
    BY DEF QuietSteps
  <2>3. Len(list) \in Nat
    <3>1. job[w].txs \in Seq(Tx)
      BY <1>2, JobTxs DEF Statement, Writing
    <3>2. IsFiniteSet(new)
      BY <3>1, PaidFinite, FS_Subset
    <3> HIDE DEF new
    <3> QED
      BY <3>2, SetToSeqLen
  <2> DEFINE e == d
  <2>4. Statement(w, "new", "insert", e)
    BY <1>2
  <2>5. e = [db EXCEPT !.addresses = rows, !.next = db.next + Len(list)]
    BY <2>1
  <2> HIDE DEF rows, d, list, e
  <2>6. /\ DOMAIN e = DOMAIN db /\ e.next = db.next + Len(list) /\ db.next \in Nat
        /\ e.tx = db.tx /\ e.outs = db.outs /\ e.ins = db.ins
    BY <2>5 DEF LedgerInv, TableInv, ShapeInv
  <2> QED
    BY <2>2, <2>3, <2>4, <2>6, QuietStatement
<1> QED
  BY <1>1, <1>2 DEF CreateAddresses

\* The balances are not part of the ledger,
LEMMA LedgerAdjust ==
  ASSUME LedgerInv, Adjust
  PROVE  LedgerInv'
<1> DEFINE h == Depth[block]
           rows == {IF \E r \in db.tx : r.id = b.id /\ r.height = h
                    THEN [b EXCEPT !.height = h, !.index = (CHOOSE r \in db.tx : r.id = b.id).index]
                    ELSE b : b \in db.balances}
           d == Adjusted(db, Depth[block])
<1>1. Statement("block", "adjust", "balances", d)
  BY DEF Adjust
<1>2. d = [db EXCEPT !.balances = rows]
  BY DEF Adjusted
<1> HIDE DEF rows, d
<1>3. /\ DOMAIN d = DOMAIN db /\ d.next = db.next /\ db.next \in Nat
      /\ d.tx = db.tx /\ d.outs = db.outs /\ d.ins = db.ins
  BY <1>2 DEF LedgerInv, TableInv, ShapeInv
<1>4. <<"adjust", "balances">> \in QuietSteps
  BY DEF QuietSteps
<1> QED
  BY <1>1, <1>3, <1>4, QuietStatement DEF Handler

\* neither are new ones,
LEMMA LedgerBalances ==
  ASSUME LedgerInv, NEW w \in Handler, CreateBalances(w)
  PROVE  LedgerInv'
<1> DEFINE rows == db.balances \cup BalanceRows(db, Balanced(w))
           d == [db EXCEPT !.balances = rows]
<1>1. CASE Refused(w, "balances", "duplicate")
  BY <1>1, LedgerStop DEF Refused
<1>2. CASE Statement(w, "balances", "receipts", d)
  <2>1. Statement(w, "balances", "receipts", d)
    BY <1>2
  <2>2. <<"balances", "receipts">> \in QuietSteps
    BY DEF QuietSteps
  <2> HIDE DEF rows
  <2>3. /\ DOMAIN d = DOMAIN db /\ d.next = db.next /\ db.next \in Nat
        /\ d.tx = db.tx /\ d.outs = db.outs /\ d.ins = db.ins
    BY DEF LedgerInv, TableInv, ShapeInv
  <2> HIDE DEF d
  <2> QED
    BY <2>1, <2>2, <2>3, QuietStatement
<1> QED
  BY <1>1, <1>2, Zenon DEF CreateBalances

\* nor the receipts,
LEMMA LedgerReceipts ==
  ASSUME LedgerInv, NEW w \in Handler, CreateReceipts(w)
  PROVE  LedgerInv'
<1> DEFINE j == job[w]
           next == IF w = "block" THEN "contracts" ELSE "done"
           rows == db.receipts \cup {[id |-> j.ids[n], height |-> Height(w), index |-> IndexOf(j.txs[n], Height(w))]
                                 : n \in {m \in DOMAIN j.txs : j.txs[m] \in Contract}}
           d == WithReceipts(db, j, Height(w))
<1>1. CASE Refused(w, "receipts", "sender")
  BY <1>1, LedgerStop DEF Refused
<1>2. CASE Statement(w, "receipts", next, d)
  <2>1. Statement(w, "receipts", next, d)
    BY <1>2
  <2>2. d = [db EXCEPT !.receipts = rows]
    BY DEF WithReceipts
  <2>3. /\ w = "block" => next # "done"
        /\ w = "mempool" => next = "done"
        /\ <<"receipts", next>> \in QuietSteps /\ next # "commit"
    BY DEF QuietSteps
  <2> HIDE DEF rows, d, next
  <2>4. /\ DOMAIN d = DOMAIN db /\ d.next = db.next /\ db.next \in Nat
        /\ d.tx = db.tx /\ d.outs = db.outs /\ d.ins = db.ins
    BY <2>2 DEF LedgerInv, TableInv, ShapeInv
  <2> QED
    BY <2>1, <2>3, <2>4, QuietStatement
<1> QED
  BY <1>1, <1>2 DEF CreateReceipts

\* nor what the contract service writes.
LEMMA LedgerContracts ==
  ASSUME LedgerInv, ProcessContracts
  PROVE  LedgerInv'
<1> DEFINE d == WithContracts(db, block)
<1>1. Statement("block", "contracts", "tip", d)
  BY DEF ProcessContracts
<1>2. /\ DOMAIN d = DOMAIN db /\ d.next = db.next
      /\ d.tx = db.tx /\ d.outs = db.outs /\ d.ins = db.ins
  <2> DEFINE h == Depth[block]
             txs == Contents[block]
             ids == [n \in DOMAIN txs |-> (CHOOSE r \in db.tx : r.height = h /\ r.index = n-1).id]
             caller(n) == Max({1} \cup {m \in 2 .. n-1 : txs[m] \notin Spender})
             calls == Calls(block)
             spends == db.spends \cup {<<ids[n], ids[caller(n)]>> : n \in {m \in DOMAIN txs : txs[m] \in Spender}}
             refunds == db.refunds \cup {<<ids[n], ids[Generated(block)]>> : n \in calls}
             receipts == {IF \E n \in calls : r.id = ids[n]
                       THEN [r EXCEPT !.height = h,
                                      !.index = (CHOOSE n \in calls : r.id = ids[n]) - 1]
                       ELSE r : r \in db.receipts}
             logs == db.logs \cup {[receipt |-> ids[n], height |-> h] : n \in calls}
  <2>1. d = [db EXCEPT !.spends = spends, !.refunds = refunds, !.receipts = receipts, !.logs = logs]
    BY DEF WithContracts
  <2> HIDE DEF spends, refunds, receipts, logs, d
  <2> QED
    BY <2>1 DEF LedgerInv, TableInv, ShapeInv
<1>3. <<"contracts", "tip">> \in QuietSteps
  BY DEF QuietSteps
<1>4. db.next \in Nat
  BY DEF LedgerInv, TableInv, ShapeInv
<1> HIDE DEF d
<1> QED
  BY <1>1, <1>2, <1>3, <1>4, QuietStatement DEF Handler

\* Reading the addresses writes nothing.
LEMMA LedgerFindAddresses ==
  ASSUME LedgerInv, NEW w \in Handler, FindAddresses(w)
  PROVE  LedgerInv'
<1> USE DEF LedgerInv, WorkInv
<1> DEFINE known == Paid(job[w].txs) \cap {a.address : a \in db.addresses}
<1>1. /\ phase \in {"run", "undo"} /\ job[w].pc = "addresses"
      /\ job' = [job EXCEPT ![w].pc = "new", ![w].known = known]
      /\ db' = db
      /\ UNCHANGED <<storedTip, txTip, phase, step, synced, tip, block, waiting, running>>
  BY DEF FindAddresses, Writing, tips, process, queue
<1>2. DOMAIN job = Handler /\ DOMAIN job[w] = JobFields /\ db.next \in Nat
  BY DEF ProcessInv, JobFields, TableInv, ShapeInv
<1> HIDE DEF known
<1>3. job'[w] = [job[w] EXCEPT !.pc = "new", !.known = known] /\ DOMAIN job' = Handler
  BY <1>1, <1>2
<1>4. /\ DOMAIN job'[w] = JobFields /\ job'[w].pc = "new"
      /\ job'[w].todo = job[w].todo /\ job'[w].ids = job[w].ids /\ job'[w].txs = job[w].txs
      /\ job'[w].found = job[w].found
  BY <1>2, <1>3 DEF JobFields
<1>5. Handles(w)
  BY <1>1, <1>2, <1>3, <1>4 DEF Handles
<1>6. IdsRight(job[w])'
  <2>1. IdsRight(job[w])
    BY <1>1 DEF WriteInv
  <2> QED
    BY <1>1, <1>4, <2>1 DEF IdsRight
<1>7. <<job[w].pc, job'[w].pc>> \in QuietSteps
  BY <1>1, <1>4 DEF QuietSteps
<1>8. /\ w = "block" => job'[w].pc # "done"
      /\ w = "mempool" => job'[w].pc \in {"addresses", "new", "insert", "receipts", "done"}
      /\ job'[w].pc = "commit" => txTip' = block
  BY <1>4
<1> QED
  BY <1>1, <1>2, <1>4, <1>5, <1>6, <1>7, <1>8, QuietWork

\* The ids of the new transactions follow each other in the order of the block.
LEMMA LedgerNumber ==
  ASSUME LedgerInv, Number
  PROVE  LedgerInv'
<1> USE DEF LedgerInv, WorkInv
<1> DEFINE j == job["block"]
           ids == Numbered(db, j.txs)
<1>1. /\ phase \in {"run", "undo"} /\ job["block"].pc = "number"
      /\ job' = [job EXCEPT !["block"].pc = "addresses", !["block"].ids = ids]
      /\ db' = db
      /\ UNCHANGED <<storedTip, txTip, phase, step, synced, tip, block, waiting, running>>
  BY DEF Number, Writing, tips, process, queue
<1>2. /\ "block" \in Handler /\ DOMAIN job = Handler /\ DOMAIN j = JobFields /\ db.next \in Nat
  BY DEF ProcessInv, JobFields, TableInv, ShapeInv, Handler
<1>3. phase = "run" /\ block # NoBlock
  BY <1>1, <1>2, HandlerPlace
<1>4. j.txs \in Seq(Tx)
  BY <1>1, <1>2, JobTxs
<1>5. IdsRight([j EXCEPT !.ids = ids])
  <2>1. PICK k \in 0 .. db.next : \A n \in DOMAIN j.txs : \E r \in db.tx : r.id = k + n /\ r.tx = j.txs[n]
    BY <1>1, <1>3 DEF BlockInv, BlockIds
  <2> DEFINE m == Len(j.txs)
  <2>2. DOMAIN j.txs = 1 .. m /\ m \in Nat /\ k \in Nat
    BY <1>2, <1>4
  <2> HIDE DEF m
  <2>3. Ids(Named(db, ToSet(j.txs))) = k+1 .. k+m
    <3>1. ASSUME NEW r \in Named(db, ToSet(j.txs)) PROVE r.id \in k+1 .. k+m
      <4>1. PICK n \in DOMAIN j.txs : r.tx = j.txs[n] /\ r \in db.tx
        BY DEF Named, ToSet
      <4>2. PICK s \in db.tx : s.id = k + n /\ s.tx = j.txs[n]
        BY <2>1
      <4>3. s = r
        BY <4>1, <4>2 DEF TableInv, KeyInv
      <4> QED
        BY <2>2, <4>2, <4>3
    <3>2. ASSUME NEW x \in k+1 .. k+m PROVE \E r \in Named(db, ToSet(j.txs)) : r.id = x
      <4>1. x - k \in DOMAIN j.txs /\ k + (x - k) = x
        BY <2>2
      <4>2. PICK s \in db.tx : s.id = x /\ s.tx = j.txs[x - k]
        BY <2>1, <4>1
      <4>3. s.tx \in ToSet(j.txs)
        BY <4>1, <4>2 DEF ToSet
      <4> QED
        BY <4>2, <4>3 DEF Named
    <3> QED
      BY <3>1, <3>2 DEF Ids
  <2>4. /\ DOMAIN ids = 1 .. m
        /\ \A n \in 1 .. m : ids[n] = k + n
    BY <2>2, <2>3, OrderedInterval DEF Numbered
  <2> DEFINE l == [j EXCEPT !.ids = ids]
  <2> HIDE DEF ids
  <2>5. l.txs = j.txs /\ l.ids = ids
    BY <1>2 DEF JobFields
  <2> HIDE DEF l, j
  <2>6. IdsRight(l)
    BY <2>1, <2>2, <2>4, <2>5 DEF IdsRight
  <2> QED
    BY <2>6 DEF l
<1> HIDE DEF ids
<1>6. job'["block"] = [j EXCEPT !.pc = "addresses", !.ids = ids] /\ DOMAIN job' = Handler
  BY <1>1, <1>2
<1>7. /\ DOMAIN job'["block"] = JobFields /\ job'["block"].pc = "addresses"
      /\ job'["block"].todo = j.todo /\ job'["block"].ids = ids /\ job'["block"].txs = j.txs
      /\ job'["block"].found = j.found
      /\ [j EXCEPT !.ids = ids].txs = j.txs /\ [j EXCEPT !.ids = ids].ids = ids
  BY <1>2, <1>6 DEF JobFields
<1>8. Handles("block")
  BY <1>1, <1>2, <1>6, <1>7 DEF Handles
<1>9. IdsRight(job["block"])'
  BY <1>1, <1>5, <1>7 DEF IdsRight
<1>10. <<job["block"].pc, job'["block"].pc>> \in QuietSteps
  BY <1>1, <1>7 DEF QuietSteps
<1>11. /\ job'["block"].pc # "done"
       /\ job'["block"].pc = "commit" => txTip' = block
  BY <1>7
<1> QED
  BY <1>1, <1>2, <1>7, <1>8, <1>9, <1>10, <1>11, QuietWork

\* The service's own tip is not read while it runs.
LEMMA LedgerStored ==
  ASSUME LedgerInv, StoreTxTip
  PROVE  LedgerInv'
<1> USE DEF LedgerInv, WorkInv
<1>1. /\ phase \in {"run", "undo"} /\ job["block"].pc = "tip"
      /\ job' = [job EXCEPT !["block"].pc = "commit"]
      /\ db' = db /\ txTip' = block
      /\ UNCHANGED <<storedTip, phase, step, synced, tip, block, waiting, running>>
  BY DEF StoreTxTip, Writing, Goes, process, queue
<1>2. /\ "block" \in Handler /\ DOMAIN job = Handler /\ DOMAIN job["block"] = JobFields /\ db.next \in Nat
  BY DEF ProcessInv, JobFields, TableInv, ShapeInv, Handler
<1>3. job'["block"] = [job["block"] EXCEPT !.pc = "commit"] /\ DOMAIN job' = Handler
  BY <1>1, <1>2
<1>4. /\ DOMAIN job'["block"] = JobFields /\ job'["block"].pc = "commit"
      /\ job'["block"].todo = job["block"].todo /\ job'["block"].txs = job["block"].txs
      /\ job'["block"].found = job["block"].found
  BY <1>2, <1>3 DEF JobFields
<1>5. Handles("block")
  BY <1>1, <1>2, <1>3, <1>4 DEF Handles
<1>6. <<job["block"].pc, job'["block"].pc>> \in QuietSteps
  BY <1>1, <1>4 DEF QuietSteps
<1>7. /\ job'["block"].pc # "done" /\ job'["block"].pc \notin {"addresses", "new", "insert"}
      /\ job'["block"].pc = "commit" => txTip' = block
  BY <1>1, <1>4
<1> QED
  BY <1>1, <1>2, <1>4, <1>5, <1>6, <1>7, QuietWork

-----------------------------------------------------------------------------
(* What a statement that changes these tables leaves of the other handler's. *)

Settled(r) ==
  /\ Kept(r)
  /\ \A p \in db'.outs : p.id = r.id => \E o \in db.outs : o.id = r.id /\ o.at = p.at

\* The rows of handler v are as they were.
LEMMA WriteKept ==
  ASSUME NEW v \in Handler, WriteInv(v), job'[v] = job[v],
         Filling(v) =>
           /\ \A s \in db'.tx : s.tx \in ToSet(job[v].txs) =>
                \E r \in db.tx : Settled(r) /\ r.id = s.id /\ r.tx = s.tx
           /\ \A r \in db.tx : r.tx \in ToSet(job[v].txs) =>
                \E s \in db'.tx : r.id = s.id /\ r.tx = s.tx
  PROVE  WriteInv(v)'
<1>1. ASSUME NEW s \in db'.tx, s.tx \in ToSet(job[v].txs), Filling(v)
      PROVE  IF job[v].pc = "link" THEN Filled(s)' /\ Unlinked(s)' ELSE Empty(s)'
  <2>1. PICK r \in db.tx : Settled(r) /\ r.id = s.id /\ r.tx = s.tx
    BY <1>1
  <2>2. IF job[v].pc = "link" THEN Filled(r) /\ Unlinked(r) ELSE Empty(r)
    BY <1>1, <2>1 DEF WriteInv
  <2>3. CASE job[v].pc = "link"
    <3>1. \A n \in DOMAIN Pays[s.tx] : \E p \in db'.outs : p.id = s.id /\ p.at = n
      <4> TAKE n \in DOMAIN Pays[s.tx]
      <4>1. PICK o \in db.outs : o.id = r.id /\ o.at = n
        BY <2>1, <2>2, <2>3 DEF Filled
      <4> QED
        BY <2>1, <4>1 DEF Settled, Kept
    <3>2. \A n \in DOMAIN Inputs[s.tx] : \E j \in db'.ins : j.id = s.id /\ j.at = n
      <4> TAKE n \in DOMAIN Inputs[s.tx]
      <4>1. PICK i \in db.ins : i.id = r.id /\ i.at = n
        BY <2>1, <2>2, <2>3 DEF Filled
      <4> QED
        BY <2>1, <4>1 DEF Settled, Kept, SameInput
    <3>3. \A j \in db'.ins : j.id = s.id => j.from = 0
      <4> SUFFICES ASSUME NEW j \in db'.ins, j.id = s.id PROVE j.from = 0
        OBVIOUS
      <4>1. PICK i \in db.ins : SameInput(i, j)
        BY <2>1 DEF Settled, Kept
      <4> QED
        BY <2>1, <2>2, <2>3, <4>1 DEF Unlinked, SameInput
    <3> QED
      BY <2>3, <3>1, <3>2, <3>3 DEF Filled, Unlinked
  <2>4. CASE job[v].pc # "link"
    <3>1. ASSUME NEW x \in db'.outs, x.id = s.id PROVE FALSE
      BY <2>1, <2>2, <2>4, <3>1 DEF Settled, Empty
    <3>2. ASSUME NEW x \in db'.ins, x.id = s.id PROVE FALSE
      BY <2>1, <2>2, <2>4, <3>2 DEF Settled, Kept, Empty, SameInput
    <3> QED
      BY <2>4, <3>1, <3>2 DEF Empty
  <2> QED
    BY <2>3, <2>4
<1>2. ASSUME IdsRight(job[v]), Filling(v) PROVE IdsRight(job[v])'
  <2>1. ASSUME NEW n \in DOMAIN job[v].txs
        PROVE  \E s \in db'.tx : s.id = job[v].ids[n] /\ s.tx = job[v].txs[n]
    <3>1. PICK r \in db.tx : r.id = job[v].ids[n] /\ r.tx = job[v].txs[n]
      BY <1>2 DEF IdsRight
    <3>2. r.tx \in ToSet(job[v].txs)
      BY <3>1 DEF ToSet
    <3> QED
      BY <1>2, <3>1, <3>2
  <2> QED
    BY <1>2, <2>1 DEF IdsRight
<1>3. job[v].pc \in {"addresses", "new", "insert", "link"} \/ (v = "mempool" /\ job[v].pc = "witness") => Filling(v)
  BY DEF Filling
<1> QED
  BY <1>1, <1>2, <1>3 DEF WriteInv, Filling

\* The mempool's handler finds the table as it left it.
LEMMA MempoolKept ==
  ASSUME MempoolInv, running' = running, job'["mempool"] = job["mempool"],
         running # NoTx =>
           /\ \A c \in Coins(running), s \in db.tx, o \in db.outs :
                s.tx = c.tx /\ o.id = s.id /\ o.at = c.at =>
                  \E u \in db'.tx, p \in db'.outs : u.tx = c.tx /\ p.id = u.id /\ p.at = c.at
           /\ \A s \in db'.tx : s.tx # running =>
                (\E r \in db.tx : r.tx = s.tx) \/ Coins(s.tx) \cap Coins(running) = {}
           /\ \A s \in db'.tx : s.tx = running =>
                s.height = Unconfirmed \/ \E r \in db.tx : r.tx = s.tx /\ r.height = s.height
  PROVE  MempoolInv'
<1> SUFFICES ASSUME running # NoTx PROVE MempoolInv'
  BY DEF MempoolInv
<1> DEFINE j == job["mempool"]
<1>1. ASSUME j.pc = "replace" \/ Filling("mempool"), NEW c \in Coins(running)
      PROVE  \E s \in db'.tx, p \in db'.outs : s.tx = c.tx /\ p.id = s.id /\ p.at = c.at
  <2>1. PICK s \in db.tx, o \in db.outs : s.tx = c.tx /\ o.id = s.id /\ o.at = c.at
    BY <1>1 DEF MempoolInv
  <2> QED
    BY <2>1
<1>2. ASSUME j.pc = "replace", j.todo = <<>>, NEW s \in db'.tx, s.tx # running
      PROVE  Coins(s.tx) \cap Coins(running) = {}
  <2>1. CASE \E r \in db.tx : r.tx = s.tx
    BY <1>2, <2>1 DEF MempoolInv
  <2>2. CASE Coins(s.tx) \cap Coins(running) = {}
    BY <2>2
  <2> QED
    BY <1>2, <2>1, <2>2
<1>3. ASSUME Filling("mempool"), NEW s \in db'.tx, s.tx = running
      PROVE  s.height = Unconfirmed
  BY <1>3 DEF MempoolInv
<1> QED
  BY <1>1, <1>2, <1>3 DEF MempoolInv, Filling

\* The lineage of a queued transaction is the same in the next state.
LEMMA LineageNext ==
  ASSUME \A s \in db'.tx : s.height = Unconfirmed =>
           (s.tx = running /\ running # NoTx) \/ \E r \in db.tx : r.tx = s.tx /\ r.height = Unconfirmed,
         NEW t
  PROVE  \A x \in Lineage(t)' : x \in Lineage(t) \/ (running # NoTx /\ x \in Lineage(running))
<1> DEFINE all == {t} \cup {r.tx : r \in {q \in db'.tx : q.height = Unconfirmed}}
           closed == {C \in SUBSET all : t \in C /\ \A x \in C : \A c \in Outpoints(x) : c.tx \in all => c.tx \in C}
           S == Lineage(t) \cup (IF running # NoTx THEN Lineage(running) ELSE {})
<1>1. Lineage(t)' = {x \in all : \A C \in closed : x \in C}
  BY DEF Lineage
<1>2. \A x : x \in all => x = t \/ \E r \in db'.tx : r.tx = x /\ r.height = Unconfirmed
  OBVIOUS
<1>3. t \in all
  OBVIOUS
<1>4. \A x \in S : \A c \in Outpoints(x) :
        c.tx = t \/ (\E r \in db'.tx : r.tx = c.tx /\ r.height = Unconfirmed) => c.tx \in S
  <2> SUFFICES ASSUME NEW x \in S, NEW c \in Outpoints(x),
                      c.tx = t \/ \E r \in db'.tx : r.tx = c.tx /\ r.height = Unconfirmed
               PROVE  c.tx \in S
    OBVIOUS
  <2>1. CASE c.tx = t
    BY <2>1, LineageSelf
  <2>2. CASE c.tx = running /\ running # NoTx
    BY <2>2, LineageSelf
  <2>3. CASE \E r \in db.tx : r.tx = c.tx /\ r.height = Unconfirmed
    <3>1. CASE x \in Lineage(t)
      BY <2>3, <3>1, LineageClosed
    <3>2. CASE running # NoTx /\ x \in Lineage(running)
      BY <2>3, <3>2, LineageClosed
    <3> QED
      BY <3>1, <3>2
  <2> QED
    BY <2>1, <2>2, <2>3
<1>5. t \in S
  BY LineageSelf
<1> HIDE DEF all, S
<1>6. S \cap all \in closed
  BY <1>2, <1>3, <1>4, <1>5
<1> HIDE DEF closed
<1>7. \A x \in Lineage(t)' : x \in S
  BY <1>1, <1>6
<1> QED
  BY <1>7 DEF S

\* What is queued stays apart from the chain and the block.
LEMMA QueueKept ==
  ASSUME ProcessInv, QueueInv, UNCHANGED <<storedTip, phase, tip, block, waiting, running>>,
         \A s \in db'.tx : s.height = Unconfirmed =>
           (s.tx = running /\ running # NoTx) \/ \E r \in db.tx : r.tx = s.tx /\ r.height = Unconfirmed
  PROVE  QueueInv'
<1>1. Queued' = Queued /\ ChainTx' = ChainTx /\ Touched' = Touched
  BY DEF Queued, ChainTx, Touched, H
<1>2. running # NoTx => running \in Queued
  BY QueuedType
<1>3. ASSUME NEW t \in Queued, phase = "run", block # NoBlock PROVE Apart(t, block)'
  <2>1. Apart(t, block) /\ (running # NoTx => Apart(running, block))
    BY <1>2, <1>3 DEF QueueInv
  <2>2. \A x \in Lineage(t)' : x \in Lineage(t) \/ (running # NoTx /\ x \in Lineage(running))
    BY LineageNext
  <2>3. \A s \in ToSet(Contents[block]) :
          /\ s \notin Lineage(t)'
          /\ \A r \in Lineage(t)' : Outpoints(s) \cap Outpoints(r) = {}
          /\ \A o \in Outpoints(s) : o.tx # t
          /\ Paid(<<s>>) \cap Paid(<<t>>) = {}
    BY <2>1, <2>2 DEF Apart
  <2>4. \A o \in Outpoints(t) : o.tx \notin GeneratedBy(block)
    BY <2>1 DEF Apart
  <2> QED
    BY <2>3, <2>4 DEF Apart
<1> QED
  BY <1>1, <1>3 DEF QueueInv, Stranger

\* A transaction that a statement leaves alone stays complete, or under way.
LEMMA WholeKept ==
  ASSUME NEW r \in db.tx, NEW s \in db'.tx, Whole(r), s.id = r.id, s.tx = r.tx, Kept(r),
         UNCHANGED <<storedTip, phase>>, s = r \/ phase # "undo",
         InProgress(r.tx) => InProgress(r.tx)'
  PROVE  Whole(s)'
<1>1. CASE Complete(r)
  BY <1>1, KeptComplete DEF Whole
<1>2. CASE InProgress(r.tx)
  BY <1>2 DEF Whole
<1>3. CASE phase = "undo" /\ ~Committed(r) /\ r.tx \in AllGenerated
  BY <1>3 DEF Whole, Committed, H, AllGenerated
<1> QED
  BY <1>1, <1>2, <1>3 DEF Whole

-----------------------------------------------------------------------------
(* The statements of the mempool's handler.                                *)

\* A row of the transaction that is handled.
Mine(x) == \E s \in db'.tx : s.id = x.id /\ s.tx = running /\ s.height = Unconfirmed

\* They add rows of that transaction and link them, or remove rows, but none of
\* the transactions of the blocks.
MempoolStep ==
  /\ db'.next >= db.next /\ db'.next \in Nat
  /\ \A s \in db'.tx : s \in db.tx \/ (s.tx = running /\ s.height = Unconfirmed /\ s.id > db.next)
  /\ \A p \in db'.outs :
       \/ \E o \in db.outs : p.id = o.id /\ p.at = o.at /\ p.height = o.height
       \/ p.height = Unconfirmed /\ Mine(p)
  /\ \A j \in db'.ins :
       \/ \E i \in db.ins : SameInput(i, j) /\ j.height = i.height
       \/ j.height = Unconfirmed /\ Mine(j)
  /\ \A j \in db'.ins, p \in db'.outs : Spends(j, p)' =>
       \/ j.height = Unconfirmed /\ Mine(j)
       \/ \E i \in db.ins, o \in db.outs :
            Spends(i, o) /\ j.id = i.id /\ j.height = i.height /\ p.byHeight = o.byHeight
  /\ \A r \in db.tx : r.tx \in AroundTx => r \in db'.tx /\ Kept(r)

\* What the mempool writes is above the chain and the block.
LEMMA MempoolFacts ==
  ASSUME LedgerInv, Handles("mempool"), MempoolStep, TableInv'
  PROVE  /\ "mempool" \in Handler /\ "block" \in Handler /\ running # NoTx /\ synced
         /\ storedTip \in Block /\ phase \in {"run", "undo"}
         /\ UNCHANGED <<storedTip, phase, step, synced, tip, block, waiting, running, txTip>>
         /\ job'["block"] = job["block"]
         /\ running \in Tx /\ running \notin AllGenerated /\ running \notin AroundTx
         /\ running \notin ChainTx /\ ChainTx \subseteq AroundTx
         /\ H \in Nat /\ H < Unconfirmed /\ Unconfirmed \in Nat /\ H' = H
         /\ \A x : Committed(x)' <=> Committed(x)
         /\ AroundTx' = AroundTx /\ AllGenerated' = AllGenerated
         /\ \A s \in db'.tx : \A r \in db.tx : s.id = r.id => s = r
         /\ \A x : Mine(x) => \A s \in db'.tx : s.id = x.id => s.tx = running /\ s.height = Unconfirmed
<1> USE DEF LedgerInv, WorkInv
<1>1. /\ phase \in {"run", "undo"} /\ job["mempool"].pc # "none"
      /\ UNCHANGED <<storedTip, phase, step, synced, tip, block, waiting, running>>
      /\ txTip' = txTip
      /\ \A v \in Handler : v # "mempool" => job'[v] = job[v]
  BY DEF Handles
<1>2. /\ "mempool" \in Handler /\ "block" \in Handler /\ storedTip \in Block
      /\ running # NoTx /\ synced /\ H \in Nat /\ H < Unconfirmed /\ Unconfirmed \in Nat
  <2>1. "mempool" \in Handler
    BY DEF Handler
  <2> QED
    BY <1>1, <2>1, HandlerPlace
<1>3. running \in Queued /\ running \in Relayed /\ running \in Tx
  BY <1>2, QueuedType
<1>4. running \notin AroundTx /\ running \notin ChainTx /\ ChainTx \subseteq AroundTx
  BY <1>1, <1>3, QueuedApart
<1>5. running \notin AllGenerated
  BY <1>3, RelayAssumption DEF AllGenerated
<1>6. /\ H' = H /\ (\A x : Committed(x)' <=> Committed(x))
      /\ AroundTx' = AroundTx /\ AllGenerated' = AllGenerated
  BY <1>1 DEF H, Committed, AroundTx, Around, AllGenerated
<1>7. ASSUME NEW s \in db'.tx, NEW r \in db.tx, s.id = r.id PROVE s = r
  <2>1. r.id \in 1 .. db.next /\ db.next \in Nat
    BY DEF TableInv, ShapeInv
  <2>2. CASE s \in db.tx
    BY <1>7, <2>2 DEF TableInv, KeyInv
  <2>3. CASE s.id > db.next
    BY <1>7, <2>1, <2>3
  <2> QED
    BY <2>2, <2>3 DEF MempoolStep
<1>8. ASSUME NEW x, Mine(x), NEW s \in db'.tx, s.id = x.id
      PROVE  s.tx = running /\ s.height = Unconfirmed
  <2>1. PICK u \in db'.tx : u.id = x.id /\ u.tx = running /\ u.height = Unconfirmed
    BY <1>8 DEF Mine
  <2>2. u = s
    BY <1>8, <2>1 DEF TableInv, KeyInv
  <2> QED
    BY <2>1, <2>2
<1> QED
  BY <1>1, <1>2, <1>3, <1>4, <1>5, <1>6, <1>7, <1>8

\* A statement of the mempool is no obstacle to a reorganization,
LEMMA MempoolUndo ==
  ASSUME LedgerInv, Handles("mempool"), MempoolStep, TableInv'
  PROVE  UndoInv'
<1> USE DEF LedgerInv, WorkInv
<1> SUFFICES ASSUME phase = "undo" PROVE UndoInv'
  BY MempoolFacts DEF UndoInv
<1>1. /\ UNCHANGED <<storedTip, phase, step, synced, tip, block>>
      /\ running \in Tx /\ running \notin AllGenerated /\ running # NoTx
      /\ H \in Nat /\ H < Unconfirmed /\ Unconfirmed \in Nat
      /\ \A x : Committed(x)' <=> Committed(x)
      /\ AroundTx' = AroundTx /\ AllGenerated' = AllGenerated
      /\ \A s \in db'.tx : \A r \in db.tx : s.id = r.id => s = r
      /\ \A x : Mine(x) => \A s \in db'.tx : s.id = x.id => s.tx = running /\ s.height = Unconfirmed
  BY MempoolFacts
<1>2. \A s \in db'.tx : s \in db.tx \/ (s.tx = running /\ s.height = Unconfirmed)
  BY DEF MempoolStep
<1>3. \A s \in db'.tx : s.height # Unconfirmed =>
        [tx |-> s.tx, height |-> s.height, index |-> s.index] \in ChainTxs(block)
  BY <1>2 DEF UndoInv
<1>4. \A i \in db.ins : \E r \in db.tx : r.id = i.id
  BY DEF TableInv, OwnInv, With
<1>5. ASSUME NEW j \in db'.ins, NEW s \in db'.tx, s.id = j.id, j.height # Unconfirmed
      PROVE  s.tx \in AroundTx
  <2>1. PICK i \in db.ins : j.id = i.id /\ j.height = i.height
    BY <1>5 DEF MempoolStep, SameInput
  <2>2. PICK r \in db.tx : r.id = i.id
    BY <1>4
  <2>3. s = r
    BY <1>1, <1>5, <2>1, <2>2
  <2> QED
    BY <1>5, <2>1, <2>2, <2>3 DEF UndoInv
<1>6. ASSUME step \in {2, 3}, NEW j \in db'.ins, NEW p \in db'.outs, NEW s \in db'.tx,
             Spends(j, p)', s.id = j.id, ~Committed(s), s.tx \in AllGenerated
      PROVE  p.byHeight = Null
  <2>1. CASE Mine(j)
    BY <1>1, <1>6, <2>1
  <2>2. CASE \E i \in db.ins, o \in db.outs :
               Spends(i, o) /\ j.id = i.id /\ j.height = i.height /\ p.byHeight = o.byHeight
    <3>1. PICK i \in db.ins, o \in db.outs :
            Spends(i, o) /\ j.id = i.id /\ p.byHeight = o.byHeight
      BY <2>2
    <3>2. PICK r \in db.tx : r.id = i.id
      BY <1>4
    <3>3. s = r
      BY <1>1, <1>6, <3>1, <3>2
    <3> QED
      BY <1>6, <3>1, <3>2, <3>3 DEF UndoInv
  <2> QED
    BY <1>6, <2>1, <2>2 DEF MempoolStep
<1>7. step > 3 => \A s \in db'.tx : s.tx \in AllGenerated => Committed(s)
  BY <1>1, <1>2 DEF UndoInv
<1>8. step > 4 => \A s \in db'.tx : Committed(s) \/ s.height = Unconfirmed
  BY <1>2 DEF UndoInv
<1>9. step > 5 => \A p \in db'.outs : Committed(p) \/ p.height = Unconfirmed
  BY DEF UndoInv, MempoolStep, Committed
<1>10. step > 8 => \A j \in db'.ins : Committed(j) \/ j.height = Unconfirmed
  BY DEF UndoInv, MempoolStep, Committed
<1>11. ASSUME NEW s \in db'.tx, NEW u \in db'.tx, NEW o \in Coins(s.tx), o.tx = u.tx
       PROVE  s.tx \in AllGenerated \/ Committed(u) \/ u.tx \notin AllGenerated
  <2> SUFFICES ASSUME ~Committed(u), u.tx \in AllGenerated PROVE s.tx \in AllGenerated
    OBVIOUS
  <2>1. u \in db.tx
    BY <1>1, <1>2
  <2>2. CASE s \in db.tx
    BY <1>11, <2>1, <2>2 DEF UndoInv
  <2>3. CASE s.tx = running
    <3>1. u \in Stakes \cup Coinbases
      BY <2>1, UndoGenerated
    <3>2. PICK b \in Touched : u.tx \in GeneratedBy(b)
      BY <3>1, UndoGenerated
    <3>3. running \in Queued
      BY <1>1, QueuedType
    <3>4. Stranger(running, b)
      BY <3>3 DEF QueueInv
    <3> QED
      BY <1>11, <2>3, <3>2, <3>4 DEF Stranger
  <2> QED
    BY <1>2, <2>2, <2>3
<1> QED
  BY <1>1, <1>3, <1>5, <1>6, <1>7, <1>8, <1>9, <1>10, <1>11 DEF UndoInv

\* nor does it change the heights of a block that is being written,
LEMMA MempoolHeights ==
  ASSUME LedgerInv, Handles("mempool"), MempoolStep, TableInv'
  PROVE  HeightInv'
<1> USE DEF LedgerInv, WorkInv
<1> SUFFICES ASSUME phase = "run" PROVE HeightInv'
  BY MempoolFacts DEF HeightInv
<1>1. /\ UNCHANGED <<storedTip, phase, step, synced, tip, block>>
      /\ job'["block"] = job["block"] /\ synced
      /\ running \in Tx /\ running \notin AroundTx /\ running # NoTx /\ storedTip \in Block
      /\ H' = H
      /\ \A x : Committed(x)' <=> Committed(x)
      /\ \A s \in db'.tx : \A r \in db.tx : s.id = r.id => s = r
      /\ \A x : Mine(x) => \A s \in db'.tx : s.id = x.id => s.tx = running /\ s.height = Unconfirmed
  BY MempoolFacts
<1>2. \A s \in db'.tx : s \in db.tx \/ (s.tx = running /\ s.height = Unconfirmed)
  BY DEF MempoolStep
<1>3. Looking' <=> Looking
  BY <1>1 DEF Looking
<1>4. \A s \in db'.tx : \/ Committed(s)
                        \/ synced /\ s.height = Unconfirmed
                        \/ ~Looking /\ s.height = H + 1 /\ s.tx \in BlockTx
  BY <1>1, <1>2 DEF HeightInv
<1>5. ASSUME NEW x, NEW s \in db'.tx, s.id = x.id, x.height = Unconfirmed, Mine(x),
             job["block"].pc \in {"spend", "lower", "replace"}
      PROVE  s.height = Unconfirmed /\ s.id \notin job["block"].found
  <2>1. s.tx = running /\ s.height = Unconfirmed
    BY <1>1, <1>5
  <2>2. ASSUME s.id \in job["block"].found PROVE FALSE
    <3>1. block # NoBlock
      BY <1>5 DEF ProcessInv
    <3>2. PICK r \in db.tx : r.id = s.id /\ r.tx \in BlockTx
      BY <1>5, <2>2, <3>1 DEF BlockInv, BlockFound
    <3>3. r = s
      BY <1>1, <3>2
    <3>4. AroundTx = ChainTx \cup BlockTx
      BY <3>1, AroundChain
    <3> QED
      BY <1>1, <2>1, <3>2, <3>3, <3>4
  <2> QED
    BY <2>1, <2>2
<1>6. ASSUME NEW x, NEW s \in db'.tx, s.id = x.id,
             \/ \E y \in db.outs \cup db.ins : x.id = y.id /\ x.height = y.height
             \/ x.height = Unconfirmed /\ Mine(x)
      PROVE  x.height = IF job["block"].pc \in {"spend", "lower", "replace"} /\ s.id \in job["block"].found
                        THEN H + 1 ELSE s.height
  <2>1. CASE \E y \in db.outs \cup db.ins : x.id = y.id /\ x.height = y.height
    <3>1. PICK y \in db.outs \cup db.ins : x.id = y.id /\ x.height = y.height
      BY <2>1
    <3>2. PICK r \in db.tx : r.id = y.id
      BY DEF TableInv, OwnInv, With
    <3>3. s = r
      BY <1>1, <1>6, <3>1, <3>2
    <3> QED
      BY <3>1, <3>2, <3>3 DEF HeightInv
  <2>2. CASE x.height = Unconfirmed /\ Mine(x)
    BY <1>1, <1>5, <1>6, <2>2
  <2> QED
    BY <1>6, <2>1, <2>2
<1>7. ASSUME NEW x \in db'.outs \cup db'.ins, NEW s \in db'.tx, s.id = x.id
      PROVE  x.height = IF job["block"].pc \in {"spend", "lower", "replace"} /\ s.id \in job["block"].found
                        THEN H + 1 ELSE s.height
  <2>1. CASE x \in db'.outs
    BY <1>6, <1>7, <2>1 DEF MempoolStep
  <2>2. CASE x \in db'.ins
    BY <1>6, <1>7, <2>2 DEF MempoolStep, SameInput
  <2> QED
    BY <2>1, <2>2
<1>8. BlockTx' = BlockTx
  BY <1>1 DEF BlockTx
<1> QED
  BY <1>1, <1>3, <1>4, <1>7, <1>8 DEF HeightInv

\* The transactions that the handler of the blocks has at hand are the block's.
LEMMA JobBlock ==
  ASSUME LedgerInv, phase = "run", block # NoBlock, job["block"].pc # "find"
  PROVE  /\ NewPlaces \subseteq DOMAIN Contents[block]
         /\ Contents[block] \in Seq(Tx) /\ block \in Block
         /\ job["block"].txs = Picked(Contents[block], NewPlaces)
         /\ ToSet(job["block"].txs) = {Contents[block][n] : n \in NewPlaces}
         /\ \A n \in DOMAIN job["block"].txs : job["block"].txs[n] \in BlockTx
         /\ ToSet(job["block"].txs) \subseteq BlockTx
<1> USE DEF LedgerInv, WorkInv
<1>1. block \in Block /\ Contents[block] \in Seq(Tx)
  BY ContentsType DEF ProcessInv
<1>2. NewPlaces \subseteq DOMAIN Contents[block]
  BY DEF NewPlaces
<1>3. job["block"].txs = Picked(Contents[block], NewPlaces)
  BY DEF BlockInv, BlockFound
<1>4. ToSet(job["block"].txs) = {Contents[block][n] : n \in NewPlaces}
  BY <1>1, <1>2, <1>3, PickedLemma
<1>5. \A n \in DOMAIN Contents[block] : Contents[block][n] \in BlockTx
  BY DEF BlockTx, ToSet
<1>6. ToSet(job["block"].txs) \subseteq BlockTx
  BY <1>2, <1>4, <1>5
<1>7. \A n \in DOMAIN job["block"].txs : job["block"].txs[n] \in ToSet(job["block"].txs)
  BY DEF ToSet
<1> QED
  BY <1>1, <1>2, <1>3, <1>4, <1>6, <1>7

\* nor the rows of that block,
LEMMA MempoolBlock ==
  ASSUME LedgerInv, Handles("mempool"), MempoolStep, TableInv'
  PROVE  BlockInv'
<1> USE DEF LedgerInv, WorkInv
<1>0. /\ UNCHANGED <<storedTip, phase, step, synced, tip, block, txTip>>
      /\ job'["block"] = job["block"]
  BY MempoolFacts
<1> SUFFICES ASSUME phase = "run", block # NoBlock PROVE BlockInv'
  BY <1>0 DEF BlockInv
<1>1. /\ running \in Tx /\ running \notin AroundTx /\ running # NoTx /\ storedTip \in Block
      /\ H' = H /\ AroundTx' = AroundTx /\ running \in Queued
      /\ H \in Nat /\ H < Unconfirmed /\ Unconfirmed \in Nat
      /\ \A s \in db'.tx : \A r \in db.tx : s.id = r.id => s = r
      /\ \A x : Mine(x) => \A s \in db'.tx : s.id = x.id => s.tx = running /\ s.height = Unconfirmed
  BY MempoolFacts, QueuedType
<1>2. AroundTx = ChainTx \cup BlockTx /\ block \in Block /\ Depth[block] = H + 1 /\ Depth[block] < Unconfirmed
  BY <1>0, AroundChain, ContentsType DEF ProcessInv
<1>3. \A s \in db'.tx : s \in db.tx \/ (s.tx = running /\ s.height = Unconfirmed)
  BY DEF MempoolStep
<1>4. \A r \in db.tx : r.tx \in BlockTx => r \in db'.tx /\ Kept(r)
  BY <1>2 DEF MempoolStep
<1>5. BlockTx' = BlockTx
  BY <1>0 DEF BlockTx
<1>6. \A n \in DOMAIN Contents[block] : Contents[block][n] \in BlockTx
  BY DEF BlockTx, ToSet
<1> DEFINE j == job["block"]
<1>7. /\ \A x \in j.found : \E r \in db.tx : r.id = x /\ r.tx \in BlockTx /\ (j.pc # "find" => Complete(r))
      /\ BlockPlace
  <2>1. j.pc = "find" => j.found = {}
    BY DEF BlockInv, BlockPlace
  <2>2. j.pc # "find" => \A x \in j.found : \E r \in db.tx : r.id = x /\ r.tx \in BlockTx /\ Complete(r)
    BY DEF BlockInv, BlockFound
  <2> QED
    BY <2>1, <2>2 DEF BlockInv
<1>8. NewPlaces' = NewPlaces
  <2>1. ASSUME NEW s \in db'.tx, s.id \in j.found PROVE s \in db.tx
    <3>1. PICK r \in db.tx : r.id = s.id
      BY <1>7, <2>1
    <3> QED
      BY <1>1, <3>1
  <2>2. ASSUME NEW r \in db.tx, r.id \in j.found PROVE r \in db'.tx
    <3>1. PICK s \in db.tx : s.id = r.id /\ s.tx \in BlockTx
      BY <1>7, <2>2
    <3>2. s = r
      BY <3>1 DEF TableInv, KeyInv
    <3> QED
      BY <1>4, <3>1, <3>2
  <2> QED
    BY <1>0, <2>1, <2>2 DEF NewPlaces
<1>9. BlockPlace'
  BY <1>0, <1>7 DEF BlockPlace
<1>10. BlockFound'
  <2> SUFFICES ASSUME j.pc # "find" PROVE BlockFound'
    BY <1>0 DEF BlockFound
  <2>1. j.txs = Picked(Contents[block], NewPlaces)
    BY JobBlock
  <2>2. ASSUME NEW x \in j.found
        PROVE  \E s \in db'.tx : s.id = x /\ s.tx \in BlockTx /\ Complete(s)'
    <3>1. PICK r \in db.tx : r.id = x /\ r.tx \in BlockTx /\ Complete(r)
      BY <1>7
    <3>2. r \in db'.tx /\ Kept(r)
      BY <1>4, <3>1
    <3>3. Complete(r)'
      BY <3>1, <3>2, KeptComplete
    <3> QED
      BY <3>1, <3>2, <3>3
  <2> QED
    BY <1>0, <1>5, <1>8, <2>1, <2>2 DEF BlockFound
<1>11. BlockNew'
  <2> SUFFICES ASSUME j.pc \in {"adopt", "spend", "lower", "replace"} PROVE BlockNew'
    BY <1>0 DEF BlockNew
  <2>1. /\ synced => \A n \in NewPlaces, r \in db.tx : r.tx # Contents[block][n]
        /\ j.todo \in Seq(Tx) /\ ToSet(j.todo) \subseteq {Contents[block][n] : n \in NewPlaces \ {1}}
        /\ \A n \in NewPlaces \ {1}, r \in db.tx :
             r.tx \notin AroundTx /\ Coins(r.tx) \cap Coins(Contents[block][n]) # {} =>
               Contents[block][n] \in ToSet(j.todo)
    BY DEF BlockInv, BlockNew
  <2>2. \A n \in DOMAIN Contents[block] : /\ Contents[block][n] # running
                                          /\ Coins(Contents[block][n]) \cap Coins(running) = {}
    BY <1>0, <1>1, <1>2, <1>6, QueuedApart
  <2>3. NewPlaces \subseteq DOMAIN Contents[block]
    BY DEF NewPlaces
  <2>4. synced => \A n \in NewPlaces, s \in db'.tx : s.tx # Contents[block][n]
    BY <1>3, <2>1, <2>2, <2>3
  <2>5. ASSUME NEW n \in NewPlaces \ {1}, NEW s \in db'.tx,
               s.tx \notin AroundTx, Coins(s.tx) \cap Coins(Contents[block][n]) # {}
        PROVE  Contents[block][n] \in ToSet(j.todo)
    <3>1. CASE s \in db.tx
      BY <2>1, <2>5, <3>1
    <3>2. CASE s.tx = running
      BY <2>2, <2>3, <2>5, <3>2
    <3> QED
      BY <1>3, <3>1, <3>2
  <2> QED
    BY <1>0, <1>1, <1>8, <2>1, <2>4, <2>5 DEF BlockNew
<1>12. BlockRows'
  <2> SUFFICES ASSUME ~Looking, NEW n \in DOMAIN Contents[block]
               PROVE  \E s \in db'.tx : s.tx = Contents[block][n] /\ s.height = H + 1 /\ s.index = n - 1
    BY <1>0, <1>1 DEF BlockRows, Looking
  <2>1. PICK r \in db.tx : r.tx = Contents[block][n] /\ r.height = H + 1 /\ r.index = n - 1
    BY DEF BlockInv, BlockRows
  <2> QED
    BY <1>4, <1>6, <2>1
<1>13. BlockIds'
  <2> SUFFICES ASSUME j.pc \in {"witness", "number"}
               PROVE  \E k \in 0 .. db'.next : \A n \in DOMAIN j.txs : \E s \in db'.tx :
                        s.id = k + n /\ s.tx = j.txs[n]
    BY <1>0 DEF BlockIds
  <2>1. PICK k \in 0 .. db.next : \A n \in DOMAIN j.txs : \E r \in db.tx :
          r.id = k + n /\ r.tx = j.txs[n]
    BY DEF BlockInv, BlockIds
  <2>2. k \in 0 .. db'.next
    BY DEF MempoolStep, TableInv, ShapeInv
  <2>3. ASSUME NEW n \in DOMAIN j.txs PROVE \E s \in db'.tx : s.id = k + n /\ s.tx = j.txs[n]
    <3>1. PICK r \in db.tx : r.id = k + n /\ r.tx = j.txs[n]
      BY <2>1
    <3>2. r.tx \in BlockTx
      BY <3>1, JobBlock
    <3> QED
      BY <1>4, <3>1, <3>2
  <2> QED
    BY <2>2, <2>3
<1>14. BlockLinks'
  <2> SUFFICES ASSUME j.pc \notin {"find", "adopt", "spend"}, NEW i \in db'.ins, NEW p \in db'.outs,
                      Spends(i, p)', i.height = H + 1
               PROVE  p.byHeight = H + 1
    BY <1>0, <1>1 DEF BlockLinks
  <2>1. i.height # Unconfirmed
    BY <1>1, <1>2
  <2>2. PICK l \in db.ins, o \in db.outs : Spends(l, o) /\ i.height = l.height /\ p.byHeight = o.byHeight
    BY <2>1 DEF MempoolStep
  <2> QED
    BY <2>2 DEF BlockInv, BlockLinks
<1> QED
  BY <1>9, <1>10, <1>11, <1>12, <1>13, <1>14 DEF BlockInv

\* nor what is queued.
LEMMA MempoolQueue ==
  ASSUME LedgerInv, Handles("mempool"), MempoolStep, TableInv'
  PROVE  QueueInv' /\ WriteInv("block")'
<1> USE DEF LedgerInv, WorkInv
<1>1. /\ UNCHANGED <<storedTip, phase, step, synced, tip, block, waiting, running>>
      /\ job'["block"] = job["block"] /\ "block" \in Handler
      /\ running \in Tx /\ running \notin AroundTx /\ running # NoTx
      /\ \A s \in db'.tx : \A r \in db.tx : s.id = r.id => s = r
      /\ \A x : Mine(x) => \A s \in db'.tx : s.id = x.id => s.tx = running /\ s.height = Unconfirmed
  BY MempoolFacts
<1>2. \A s \in db'.tx : s \in db.tx \/ (s.tx = running /\ s.height = Unconfirmed)
  BY DEF MempoolStep
<1>3. QueueInv'
  BY <1>1, <1>2, QueueKept
<1>4. ASSUME Filling("block")
      PROVE  /\ \A s \in db'.tx : s.tx \in ToSet(job["block"].txs) =>
                  \E r \in db.tx : Settled(r) /\ r.id = s.id /\ r.tx = s.tx
             /\ \A r \in db.tx : r.tx \in ToSet(job["block"].txs) =>
                  \E s \in db'.tx : r.id = s.id /\ r.tx = s.tx
  <2>1. phase = "run" /\ block # NoBlock /\ job["block"].pc # "find"
    BY <1>1, <1>4 DEF ProcessInv, Filling
  <2>2. ToSet(job["block"].txs) \subseteq AroundTx
    BY <2>1, JobBlock, AroundChain
  <2>3. ASSUME NEW r \in db.tx, r.tx \in ToSet(job["block"].txs)
        PROVE  r \in db'.tx /\ Settled(r)
    <3>1. r \in db'.tx /\ Kept(r) /\ r.tx # running
      BY <1>1, <2>2, <2>3 DEF MempoolStep
    <3>2. ASSUME NEW p \in db'.outs, p.id = r.id PROVE \E o \in db.outs : o.id = r.id /\ o.at = p.at
      <4>1. ~Mine(p)
        BY <1>1, <3>1, <3>2
      <4> QED
        BY <3>2, <4>1 DEF MempoolStep
    <3> QED
      BY <3>1, <3>2 DEF Settled
  <2>4. \A s \in db'.tx : s.tx \in ToSet(job["block"].txs) => s \in db.tx
    BY <1>1, <1>2, <2>2
  <2> QED
    BY <2>3, <2>4
<1>5. WriteInv("block")'
  BY <1>1, <1>4, WriteKept
<1> QED
  BY <1>3, <1>5

\* What is left to show of a statement of the mempool's handler.
LEMMA MempoolWork ==
  ASSUME LedgerInv, Handles("mempool"), MempoolStep, TableInv',
         \A r \in db.tx : r \in db'.tx /\ r.tx # running => Kept(r),
         \A s \in db'.tx : s.tx = running => Whole(s)',
         WriteInv("mempool")', MempoolInv'
  PROVE  LedgerInv'
<1> USE DEF LedgerInv, WorkInv
<1>1. /\ UNCHANGED <<storedTip, phase, step, synced, tip, block, waiting, running>>
      /\ job'["block"] = job["block"] /\ "block" \in Handler /\ running # NoTx
      /\ phase \in {"run", "undo"}
  BY MempoolFacts
<1>2. ProcessInv'
  BY HandlesProcess, MempoolFacts
<1>3. CleanInv'
  BY <1>1 DEF CleanInv
<1>4. CompleteInv'
  <2> SUFFICES ASSUME NEW s \in db'.tx, s.tx # running PROVE Whole(s)'
    BY DEF CompleteInv
  <2>1. s \in db.tx
    BY DEF MempoolStep
  <2>2. Kept(s) /\ Whole(s)
    BY <1>1, <2>1 DEF CompleteInv
  <2>3. ASSUME InProgress(s.tx) PROVE InProgress(s.tx)'
    <3>1. PICK w \in Handler : Filling(w) /\ s.tx \in ToSet(job[w].txs)
      BY <2>3 DEF InProgress
    <3>2. CASE w = "block"
      BY <1>1, <3>1, <3>2 DEF InProgress, Filling
    <3>3. CASE w = "mempool"
      <4>1. job["mempool"].txs = <<running>>
        BY <1>1 DEF MempoolInv
      <4>2. ToSet(<<running>>) = {running}
        BY DEF ToSet
      <4> QED
        BY <3>1, <3>3, <4>1, <4>2
    <3> QED
      BY <3>1, <3>2, <3>3 DEF Handler
  <2> QED
    BY <1>1, <2>1, <2>2, <2>3, WholeKept
<1>5. (\A w \in Handler : WriteInv(w))'
  BY MempoolQueue DEF Handler
<1> QED
  BY <1>2, <1>3, <1>4, <1>5, MempoolUndo, MempoolHeights, MempoolBlock, MempoolQueue

-----------------------------------------------------------------------------
(* The statements that both handlers share.                                *)

\* The rows after the outputs and inputs are inserted.
LEMMA InsertedRows ==
  ASSUME NEW j, NEW h, ShapeInv, IdsRight(j), db' = Inserted(db, j, h)
  PROVE  /\ DOMAIN db' = DOMAIN db /\ db'.next = db.next /\ db'.tx = db.tx
         /\ db.outs \subseteq db'.outs /\ db.ins \subseteq db'.ins
         /\ \A p \in db'.outs : p \in db.outs \/ \E n \in DOMAIN j.txs : \E m \in DOMAIN Pays[j.txs[n]] :
              p = [id |-> j.ids[n], at |-> m, height |-> h,
                   address |-> (CHOOSE r \in db.addresses : r.address = Pays[j.txs[n]][m]).id,
                   by |-> 0, byAt |-> 0, byHeight |-> Null]
         /\ \A n \in DOMAIN j.txs : \A m \in DOMAIN Pays[j.txs[n]] :
              \E p \in db'.outs : p.id = j.ids[n] /\ p.at = m
         /\ \A i \in db'.ins : i \in db.ins \/ \E n \in DOMAIN j.txs : \E m \in DOMAIN Inputs[j.txs[n]] :
              i = [id |-> j.ids[n], at |-> m, height |-> h, address |-> 0, from |-> 0, fromAt |-> 0]
         /\ \A n \in DOMAIN j.txs : \A m \in DOMAIN Inputs[j.txs[n]] :
              \E i \in db'.ins : i.id = j.ids[n] /\ i.at = m
<1> DEFINE out(n, m) == [id |-> j.ids[n], at |-> m, height |-> h,
                         address |-> (CHOOSE r \in db.addresses : r.address = Pays[j.txs[n]][m]).id,
                         by |-> 0, byAt |-> 0, byHeight |-> Null]
           in(n, m) == [id |-> j.ids[n], at |-> m, height |-> h, address |-> 0, from |-> 0, fromAt |-> 0]
           outs == UNION {{out(n, m) : m \in DOMAIN Pays[j.txs[n]]} : n \in DOMAIN j.txs}
           ins == UNION {{in(n, m) : m \in DOMAIN Inputs[j.txs[n]]} : n \in DOMAIN j.txs}
<1>1. db' = [db EXCEPT !.outs = @ \cup outs, !.ins = @ \cup ins]
  BY DEF Inserted
<1>2. \A p : p \in outs <=> \E n \in DOMAIN j.txs : \E m \in DOMAIN Pays[j.txs[n]] : p = out(n, m)
  OBVIOUS
<1>3. \A i : i \in ins <=> \E n \in DOMAIN j.txs : \E m \in DOMAIN Inputs[j.txs[n]] : i = in(n, m)
  OBVIOUS
<1>4. \A n, m : out(n, m).id = j.ids[n] /\ out(n, m).at = m /\ in(n, m).id = j.ids[n] /\ in(n, m).at = m
  OBVIOUS
<1> HIDE DEF outs, ins
<1>5. /\ DOMAIN db' = DOMAIN db /\ db'.next = db.next /\ db'.tx = db.tx
      /\ db'.outs = db.outs \cup outs /\ db'.ins = db.ins \cup ins
  BY <1>1 DEF ShapeInv
<1> HIDE DEF out, in
<1>6. /\ \A n \in DOMAIN j.txs : \A m \in DOMAIN Pays[j.txs[n]] :
           \E p \in db'.outs : p.id = j.ids[n] /\ p.at = m
      /\ \A n \in DOMAIN j.txs : \A m \in DOMAIN Inputs[j.txs[n]] :
           \E i \in db'.ins : i.id = j.ids[n] /\ i.at = m
  <2>1. \A n \in DOMAIN j.txs : \A m \in DOMAIN Pays[j.txs[n]] : out(n, m) \in db'.outs
    BY <1>2, <1>5
  <2>2. \A n \in DOMAIN j.txs : \A m \in DOMAIN Inputs[j.txs[n]] : in(n, m) \in db'.ins
    BY <1>3, <1>5
  <2> QED
    BY <1>4, <2>1, <2>2
<1>7. \A p \in db'.outs : p \in db.outs \/ \E n \in DOMAIN j.txs : \E m \in DOMAIN Pays[j.txs[n]] : p = out(n, m)
  BY <1>2, <1>5
<1>8. \A i \in db'.ins : i \in db.ins \/ \E n \in DOMAIN j.txs : \E m \in DOMAIN Inputs[j.txs[n]] : i = in(n, m)
  BY <1>3, <1>5
<1> QED
  BY <1>5, <1>6, <1>7, <1>8 DEF out, in

\* The outputs and inputs of the rows that have none.
LEMMA InsertTable ==
  ASSUME TableInv, storedTip \in Block, storedTip' = storedTip, NEW j, NEW h \in 0 .. Unconfirmed,
         h > H, IdsRight(j), db' = Inserted(db, j, h),
         \A r \in db.tx : r.tx \in ToSet(j.txs) => Empty(r) /\ ~Committed(r)
  PROVE  /\ TableInv'
         /\ \A r \in db.tx : r.tx \notin ToSet(j.txs) => Settled(r)
         /\ \A r \in db.tx : r.tx \in ToSet(j.txs) => Filled(r)' /\ Unlinked(r)'
<1> USE DEF TableInv
<1>1. /\ DOMAIN db' = DOMAIN db /\ db'.next = db.next /\ db'.tx = db.tx
      /\ db.outs \subseteq db'.outs /\ db.ins \subseteq db'.ins
      /\ \A n \in DOMAIN j.txs : \A m \in DOMAIN Pays[j.txs[n]] :
              \E p \in db'.outs : p.id = j.ids[n] /\ p.at = m
      /\ \A n \in DOMAIN j.txs : \A m \in DOMAIN Inputs[j.txs[n]] :
              \E i \in db'.ins : i.id = j.ids[n] /\ i.at = m
  BY InsertedRows
<1>2. \A p \in db'.outs : p \in db.outs \/ \E n \in DOMAIN j.txs : \E m \in DOMAIN Pays[j.txs[n]] :
        p = [id |-> j.ids[n], at |-> m, height |-> h,
             address |-> (CHOOSE r \in db.addresses : r.address = Pays[j.txs[n]][m]).id,
             by |-> 0, byAt |-> 0, byHeight |-> Null]
  BY InsertedRows
<1>3. \A i \in db'.ins : i \in db.ins \/ \E n \in DOMAIN j.txs : \E m \in DOMAIN Inputs[j.txs[n]] :
        i = [id |-> j.ids[n], at |-> m, height |-> h, address |-> 0, from |-> 0, fromAt |-> 0]
  BY InsertedRows
<1>4. /\ \A n \in DOMAIN j.txs : \E r \in db.tx : r.id = j.ids[n] /\ r.tx = j.txs[n]
      /\ \A n \in DOMAIN j.txs : j.txs[n] \in ToSet(j.txs)
  BY DEF IdsRight, ToSet
<1>5. H \in Nat /\ Unconfirmed \in Nat /\ Null \notin Nat /\ H' = H /\ (\A x : Committed(x)' <=> Committed(x))
      /\ \A r \in db.tx : r.id \in Nat /\ r.id # 0
  BY Heights DEF H, Committed
<1>6. ASSUME NEW p \in db'.outs
      PROVE  \/ p \in db.outs
             \/ \E r \in db.tx : /\ p.id = r.id /\ p.at \in DOMAIN Pays[r.tx] /\ p.height = h
                                 /\ p.by = 0 /\ p.byHeight = Null /\ r.tx \in ToSet(j.txs)
                                 /\ DOMAIN p = {"id", "at", "height", "address", "by", "byAt", "byHeight"}
  <2> SUFFICES ASSUME p \notin db.outs
               PROVE  \E r \in db.tx : /\ p.id = r.id /\ p.at \in DOMAIN Pays[r.tx] /\ p.height = h
                                 /\ p.by = 0 /\ p.byHeight = Null /\ r.tx \in ToSet(j.txs)
                                 /\ DOMAIN p = {"id", "at", "height", "address", "by", "byAt", "byHeight"}
    OBVIOUS
  <2>1. PICK n \in DOMAIN j.txs : \E m \in DOMAIN Pays[j.txs[n]] :
          p = [id |-> j.ids[n], at |-> m, height |-> h,
             address |-> (CHOOSE r \in db.addresses : r.address = Pays[j.txs[n]][m]).id,
             by |-> 0, byAt |-> 0, byHeight |-> Null]
    BY <1>2
  <2>1a. PICK m \in DOMAIN Pays[j.txs[n]] :
          p = [id |-> j.ids[n], at |-> m, height |-> h,
             address |-> (CHOOSE r \in db.addresses : r.address = Pays[j.txs[n]][m]).id,
             by |-> 0, byAt |-> 0, byHeight |-> Null]
    BY <2>1
  <2>2. PICK r \in db.tx : r.id = j.ids[n] /\ r.tx = j.txs[n]
    BY <1>4
  <2> QED
    BY <1>4, <2>1a, <2>2
<1>7. ASSUME NEW i \in db'.ins
      PROVE  \/ i \in db.ins
             \/ \E r \in db.tx : /\ i.id = r.id /\ i.at \in DOMAIN Inputs[r.tx] /\ i.height = h
                                 /\ i.from = 0 /\ r.tx \in ToSet(j.txs)
                                 /\ DOMAIN i = {"id", "at", "height", "address", "from", "fromAt"}
  <2> SUFFICES ASSUME i \notin db.ins
               PROVE  \E r \in db.tx : /\ i.id = r.id /\ i.at \in DOMAIN Inputs[r.tx] /\ i.height = h
                                 /\ i.from = 0 /\ r.tx \in ToSet(j.txs)
                                 /\ DOMAIN i = {"id", "at", "height", "address", "from", "fromAt"}
    OBVIOUS
  <2>1. PICK n \in DOMAIN j.txs : \E m \in DOMAIN Inputs[j.txs[n]] :
          i = [id |-> j.ids[n], at |-> m, height |-> h, address |-> 0, from |-> 0, fromAt |-> 0]
    BY <1>3
  <2>1a. PICK m \in DOMAIN Inputs[j.txs[n]] :
          i = [id |-> j.ids[n], at |-> m, height |-> h, address |-> 0, from |-> 0, fromAt |-> 0]
    BY <2>1
  <2>2. PICK r \in db.tx : r.id = j.ids[n] /\ r.tx = j.txs[n]
    BY <1>4
  <2> QED
    BY <1>4, <2>1a, <2>2
<1>8. ShapeInv'
  <2>1. \A p \in db'.outs :
          /\ DOMAIN p = {"id", "at", "height", "address", "by", "byAt", "byHeight"}
          /\ p.height \in 0 .. Unconfirmed /\ p.by \in 0 .. db'.next
          /\ p.byHeight \in 0 .. Unconfirmed \cup {Null}
    <3> TAKE p \in db'.outs
    <3>1. CASE p \in db.outs
      BY <1>1, <3>1 DEF ShapeInv
    <3>2. CASE p \notin db.outs
      <4>1. 0 \in 0 .. db'.next
        BY <1>1 DEF ShapeInv
      <4> QED
        BY <1>6, <3>2, <4>1
    <3> QED
      BY <3>1, <3>2
  <2>2. \A i \in db'.ins :
          /\ DOMAIN i = {"id", "at", "height", "address", "from", "fromAt"}
          /\ i.height \in 0 .. Unconfirmed /\ i.from \in 0 .. db'.next
    <3> TAKE i \in db'.ins
    <3>1. CASE i \in db.ins
      BY <1>1, <3>1 DEF ShapeInv
    <3>2. CASE i \notin db.ins
      <4>1. 0 \in 0 .. db'.next
        BY <1>1 DEF ShapeInv
      <4> QED
        BY <1>7, <3>2, <4>1
    <3> QED
      BY <3>1, <3>2
  <2>3. AllGenerated' = AllGenerated
    BY DEF AllGenerated
  <2> QED
    BY <1>1, <2>1, <2>2, <2>3 DEF ShapeInv
<1>9. \A r \in db.tx : r.tx \in ToSet(j.txs) => /\ \A o \in db.outs : o.id # r.id
                                                /\ \A i \in db.ins : i.id # r.id
  BY DEF Empty
<1>10. KeyInv'
  <2>1. ASSUME NEW p \in db'.outs, NEW q \in db'.outs, p.id = q.id, p.at = q.at PROVE p = q
    <3>1. CASE p \in db.outs \/ q \in db.outs
      <4>1. p \in db.outs /\ q \in db.outs
        BY <1>6, <1>9, <2>1, <3>1
      <4> QED
        BY <2>1, <4>1 DEF KeyInv
    <3>2. CASE p \notin db.outs /\ q \notin db.outs
      <4>1. PICK n \in DOMAIN j.txs : \E m \in DOMAIN Pays[j.txs[n]] :
              p = [id |-> j.ids[n], at |-> m, height |-> h,
                 address |-> (CHOOSE r \in db.addresses : r.address = Pays[j.txs[n]][m]).id,
                 by |-> 0, byAt |-> 0, byHeight |-> Null]
        BY <1>2, <3>2
      <4>1a. PICK m \in DOMAIN Pays[j.txs[n]] :
              p = [id |-> j.ids[n], at |-> m, height |-> h,
                 address |-> (CHOOSE r \in db.addresses : r.address = Pays[j.txs[n]][m]).id,
                 by |-> 0, byAt |-> 0, byHeight |-> Null]
        BY <4>1
      <4>2. PICK k \in DOMAIN j.txs : \E l \in DOMAIN Pays[j.txs[k]] :
              q = [id |-> j.ids[k], at |-> l, height |-> h,
                 address |-> (CHOOSE r \in db.addresses : r.address = Pays[j.txs[k]][l]).id,
                 by |-> 0, byAt |-> 0, byHeight |-> Null]
        BY <1>2, <3>2
      <4>2a. PICK l \in DOMAIN Pays[j.txs[k]] :
              q = [id |-> j.ids[k], at |-> l, height |-> h,
                 address |-> (CHOOSE r \in db.addresses : r.address = Pays[j.txs[k]][l]).id,
                 by |-> 0, byAt |-> 0, byHeight |-> Null]
        BY <4>2
      <4>3. j.ids[n] = j.ids[k] /\ m = l
        BY <2>1, <4>1a, <4>2a
      <4>4. j.txs[n] = j.txs[k]
        BY <1>4, <4>3 DEF KeyInv
      <4> QED
        BY <4>1a, <4>2a, <4>3, <4>4
    <3> QED
      BY <3>1, <3>2
  <2>2. ASSUME NEW p \in db'.ins, NEW q \in db'.ins, p.id = q.id, p.at = q.at PROVE p = q
    <3>1. CASE p \in db.ins \/ q \in db.ins
      <4>1. p \in db.ins /\ q \in db.ins
        BY <1>7, <1>9, <2>2, <3>1
      <4> QED
        BY <2>2, <4>1 DEF KeyInv
    <3>2. CASE p \notin db.ins /\ q \notin db.ins
      <4>1. PICK n \in DOMAIN j.txs : \E m \in DOMAIN Inputs[j.txs[n]] :
              p = [id |-> j.ids[n], at |-> m, height |-> h, address |-> 0, from |-> 0, fromAt |-> 0]
        BY <1>3, <3>2
      <4>1a. PICK m \in DOMAIN Inputs[j.txs[n]] :
              p = [id |-> j.ids[n], at |-> m, height |-> h, address |-> 0, from |-> 0, fromAt |-> 0]
        BY <4>1
      <4>2. PICK k \in DOMAIN j.txs : \E l \in DOMAIN Inputs[j.txs[k]] :
              q = [id |-> j.ids[k], at |-> l, height |-> h, address |-> 0, from |-> 0, fromAt |-> 0]
        BY <1>3, <3>2
      <4>2a. PICK l \in DOMAIN Inputs[j.txs[k]] :
              q = [id |-> j.ids[k], at |-> l, height |-> h, address |-> 0, from |-> 0, fromAt |-> 0]
        BY <4>2
      <4> QED
        BY <2>2, <4>1a, <4>2a
    <3> QED
      BY <3>1, <3>2
  <2> QED
    BY <1>1, <2>1, <2>2 DEF KeyInv
<1>11. OwnInv'
  <2>1. ASSUME NEW p \in db'.outs PROVE \E r \in db'.tx : With(p, r)' /\ p.at \in DOMAIN Pays[r.tx]
    <3>1. CASE p \in db.outs
      BY <1>1, <1>5, <3>1 DEF OwnInv, With
    <3>2. CASE p \notin db.outs
      <4>1. PICK r \in db.tx : /\ p.id = r.id /\ p.at \in DOMAIN Pays[r.tx] /\ p.height = h
                               /\ r.tx \in ToSet(j.txs)
        BY <1>6, <3>2
      <4>2. ~Committed(p) /\ ~Committed(r)
        BY <1>5, <4>1 DEF Committed
      <4> QED
        BY <1>1, <1>5, <4>1, <4>2 DEF With
    <3> QED
      BY <3>1, <3>2
  <2>2. ASSUME NEW p \in db'.ins PROVE \E r \in db'.tx : With(p, r)' /\ p.at \in DOMAIN Inputs[r.tx]
    <3>1. CASE p \in db.ins
      BY <1>1, <1>5, <3>1 DEF OwnInv, With
    <3>2. CASE p \notin db.ins
      <4>1. PICK r \in db.tx : /\ p.id = r.id /\ p.at \in DOMAIN Inputs[r.tx] /\ p.height = h
                               /\ r.tx \in ToSet(j.txs)
        BY <1>7, <3>2
      <4>2. ~Committed(p) /\ ~Committed(r)
        BY <1>5, <4>1 DEF Committed
      <4> QED
        BY <1>1, <1>5, <4>1, <4>2 DEF With
    <3> QED
      BY <3>1, <3>2
  <2> QED
    BY <2>1, <2>2 DEF OwnInv
<1>12. LinkInv'
  <2>1. \A i \in db'.ins : i \in db.ins \/ i.from = 0
    BY <1>7
  <2>2. \A p \in db'.outs : p \in db.outs \/ p.by = 0
    BY <1>6
  <2> QED
    BY <1>1, <1>5, <2>1, <2>2 DEF LinkInv
<1>13. RivalInv'
  BY <1>1 DEF RivalInv
<1>14. \A p \in db'.outs : p.id \in Nat /\ p.id # 0
  <2>1. \A o \in db.outs : \E r \in db.tx : r.id = o.id
    BY DEF OwnInv, With
  <2> QED
    BY <1>5, <1>6, <2>1
<1>15. SpentInv'
  <2>1. ASSUME NEW p \in db'.outs, p.byHeight \notin {Null, Unconfirmed}
        PROVE  \E i \in db'.ins : Spends(i, p)' /\ i.height = p.byHeight
    <3>1. p \in db.outs
      BY <1>6, <2>1
    <3>2. PICK i \in db.ins : Spends(i, p) /\ i.height = p.byHeight
      BY <2>1, <3>1 DEF SpentInv
    <3> QED
      BY <1>1, <3>2 DEF Spends
  <2>2. ASSUME NEW p \in db'.outs, NEW i \in db'.ins, Spends(i, p), Committed(i)
        PROVE  p.byHeight = i.height
    <3>1. i \in db.ins
      BY <1>7, <1>14, <2>2 DEF Spends
    <3>2. CASE p \in db.outs
      BY <2>2, <3>1, <3>2 DEF SpentInv
    <3>3. CASE p \notin db.outs
      <4>1. PICK r \in db.tx : p.id = r.id /\ r.tx \in ToSet(j.txs)
        BY <1>6, <3>3
      <4>2. PICK q \in db.tx : With(i, q) /\ i.at \in DOMAIN Inputs[q.tx]
        BY <3>1 DEF OwnInv
      <4>3. Committed(q)
        BY <2>2, <4>2 DEF With, Committed
      <4>4. Inputs[q.tx][i.at].tx = r.tx
        BY <2>2, <3>1, <4>1, <4>2 DEF LinkInv, With, Spends
      <4>5. r.tx \in Tx /\ q.tx \in Tx /\ r.tx # NoTx
        BY LedgerAssumption DEF ShapeInv
      <4>6. Inputs[q.tx][i.at] \in Coins(q.tx)
        BY <4>2, <4>4, <4>5, CoinsType
      <4>7. Committed(r)
        BY <4>3, <4>4, <4>6, CommittedSources
      <4> QED
        BY <4>1, <4>7
    <3> QED
      BY <3>2, <3>3
  <2> QED
    BY <1>5, <2>1, <2>2 DEF SpentInv, Spends
<1>16. ASSUME NEW r \in db.tx, r.tx \notin ToSet(j.txs) PROVE Settled(r)
  <2>1. \A p \in db'.outs : p.id = r.id => p \in db.outs
    BY <1>6, <1>16 DEF KeyInv
  <2>2. \A i \in db'.ins : i.id = r.id => i \in db.ins
    BY <1>7, <1>16 DEF KeyInv
  <2> QED
    BY <1>1, <2>1, <2>2 DEF Settled, Kept, SameInput
<1>17. ASSUME NEW r \in db.tx, r.tx \in ToSet(j.txs) PROVE Filled(r)' /\ Unlinked(r)'
  <2>1. PICK n \in DOMAIN j.txs : r.tx = j.txs[n]
    BY <1>17 DEF ToSet
  <2>2. r.id = j.ids[n]
    BY <1>4, <2>1 DEF KeyInv
  <2>3. Filled(r)'
    BY <1>1, <2>1, <2>2 DEF Filled
  <2>4. Unlinked(r)'
    BY <1>7, <1>9, <1>17 DEF Unlinked
  <2> QED
    BY <2>3, <2>4
<1>18. ChainInv'
  <2>1. ASSUME NEW r \in db.tx, Committed(r) PROVE Complete(r)'
    <3>1. r.tx \notin ToSet(j.txs)
      BY <2>1
    <3>2. Kept(r) /\ Complete(r)
      BY <1>16, <2>1, <3>1 DEF Settled, ChainInv
    <3> QED
      BY <1>1, <3>2, KeptComplete
  <2>2. ChainTxs(storedTip)' = ChainTxs(storedTip)
    BY DEF ChainTxs
  <2> QED
    BY <1>1, <1>5, <2>1, <2>2 DEF ChainInv
<1> QED
  BY <1>8, <1>10, <1>11, <1>12, <1>13, <1>15, <1>16, <1>17, <1>18

\* An input names one output, and no two of them the same.
LEMMA JoinedOnce ==
  ASSUME ShapeInv, KeyInv, RivalInv, NEW ts
  PROVE  /\ \A i \in db.ins, o \in db.outs : Joined(db, ts, i, o) =>
              \E r, s \in db.tx :
                /\ r.tx \in ToSet(ts) /\ r.id = i.id /\ i.at \in DOMAIN Inputs[r.tx]
                /\ s.id = o.id /\ Inputs[r.tx][i.at].tx = s.tx /\ Inputs[r.tx][i.at].at = o.at
                /\ Inputs[r.tx][i.at] = [tx |-> s.tx, at |-> o.at]
                /\ [tx |-> s.tx, at |-> o.at] \in Coins(r.tx)
         /\ \A i \in db.ins, o \in db.outs, p \in db.outs :
              Joined(db, ts, i, o) /\ Joined(db, ts, i, p) => o = p
         /\ \A i \in db.ins, l \in db.ins, o \in db.outs :
              Joined(db, ts, i, o) /\ Joined(db, ts, l, o) => i = l
<1>1. \A x, t : x \in Ids(Named(db, {t})) <=> \E r \in db.tx : r.tx = t /\ r.id = x
  BY DEF Ids, Named
<1>2. ASSUME NEW i \in db.ins, NEW o \in db.outs, Joined(db, ts, i, o)
      PROVE  \E r, s \in db.tx :
                /\ r.tx \in ToSet(ts) /\ r.id = i.id /\ i.at \in DOMAIN Inputs[r.tx]
                /\ s.id = o.id /\ Inputs[r.tx][i.at].tx = s.tx /\ Inputs[r.tx][i.at].at = o.at
                /\ Inputs[r.tx][i.at] = [tx |-> s.tx, at |-> o.at]
                /\ [tx |-> s.tx, at |-> o.at] \in Coins(r.tx)
  <2>1. PICK t \in ToSet(ts) :
          /\ i.id \in Ids(Named(db, {t})) /\ i.at \in DOMAIN Inputs[t]
          /\ o.id \in Ids(Named(db, {Inputs[t][i.at].tx})) /\ o.at = Inputs[t][i.at].at
    BY <1>2 DEF Joined
  <2>2. PICK r \in db.tx : r.tx = t /\ r.id = i.id
    BY <1>1, <2>1
  <2>3. PICK s \in db.tx : s.tx = Inputs[t][i.at].tx /\ s.id = o.id
    BY <1>1, <2>1
  <2>4. t \in Tx /\ s.tx \in Tx /\ s.tx # NoTx
    BY <2>2, <2>3, LedgerAssumption DEF ShapeInv
  <2>5. Inputs[t][i.at] \in Coins(t) /\ Inputs[t][i.at] = [tx |-> s.tx, at |-> o.at]
    BY <2>1, <2>3, <2>4, CoinsType
  <2> QED
    BY <2>1, <2>2, <2>3, <2>5
<1>3. ASSUME NEW i \in db.ins, NEW o \in db.outs, NEW p \in db.outs,
             Joined(db, ts, i, o), Joined(db, ts, i, p)
      PROVE  o = p
  <2>1. PICK r \in db.tx, s \in db.tx : /\ r.id = i.id /\ s.id = o.id /\ Inputs[r.tx][i.at].tx = s.tx
                                        /\ Inputs[r.tx][i.at].at = o.at
    BY <1>2, <1>3
  <2>2. PICK q \in db.tx, u \in db.tx : /\ q.id = i.id /\ u.id = p.id /\ Inputs[q.tx][i.at].tx = u.tx
                                        /\ Inputs[q.tx][i.at].at = p.at
    BY <1>2, <1>3
  <2>3. r = q
    BY <2>1, <2>2 DEF KeyInv
  <2>4. s = u
    BY <2>1, <2>2, <2>3 DEF KeyInv
  <2> QED
    BY <2>1, <2>2, <2>3, <2>4 DEF KeyInv
<1>4. ASSUME NEW i \in db.ins, NEW l \in db.ins, NEW o \in db.outs,
             Joined(db, ts, i, o), Joined(db, ts, l, o)
      PROVE  i = l
  <2>1. PICK r \in db.tx, s \in db.tx :
          /\ r.id = i.id /\ s.id = o.id /\ i.at \in DOMAIN Inputs[r.tx]
          /\ Inputs[r.tx][i.at] = [tx |-> s.tx, at |-> o.at]
          /\ [tx |-> s.tx, at |-> o.at] \in Coins(r.tx)
    BY <1>2, <1>4
  <2>2. PICK q \in db.tx, u \in db.tx :
          /\ q.id = l.id /\ u.id = o.id /\ l.at \in DOMAIN Inputs[q.tx]
          /\ Inputs[q.tx][l.at] = [tx |-> u.tx, at |-> o.at]
          /\ [tx |-> u.tx, at |-> o.at] \in Coins(q.tx)
    BY <1>2, <1>4
  <2>3. s = u
    BY <2>1, <2>2 DEF KeyInv
  <2>4. r = q
    BY <2>1, <2>2, <2>3 DEF RivalInv
  <2>5. r.tx \in Tx
    BY DEF ShapeInv
  <2>6. IsInjective(Inputs[r.tx])
    BY <2>5, RelayAssumption
  <2>7. i.at = l.at
    BY <2>1, <2>2, <2>3, <2>4, <2>6 DEF IsInjective
  <2> QED
    BY <2>1, <2>2, <2>4, <2>7 DEF KeyInv
<1> QED
  BY <1>2, <1>3, <1>4

\* An input and an output that are linked to each other.
InputOf(i, o) == [i EXCEPT !.address = o.address, !.from = o.id, !.fromAt = o.at]
OutputBy(o, i) == [o EXCEPT !.by = i.id, !.byAt = i.at, !.byHeight = i.height]

\* The rows after the inputs and outputs are linked.
LEMMA LinkedRows ==
  ASSUME ShapeInv, KeyInv, RivalInv, NEW ts, db' = Linked(db, ts)
  PROVE  /\ DOMAIN db' = DOMAIN db /\ db'.next = db.next /\ db'.tx = db.tx
         /\ \A i \in db.ins : \A o \in db.outs : Joined(db, ts, i, o) =>
              /\ InputOf(i, o) \in db'.ins
              /\ OutputBy(o, i) \in db'.outs
         /\ \A i \in db.ins : (\A o \in db.outs : ~Joined(db, ts, i, o)) => i \in db'.ins
         /\ \A o \in db.outs : (\A i \in db.ins : ~Joined(db, ts, i, o)) => o \in db'.outs
         /\ \A j \in db'.ins : \E i \in db.ins :
              IF \E o \in db.outs : Joined(db, ts, i, o)
              THEN \E o \in db.outs : /\ Joined(db, ts, i, o)
                     /\ j = InputOf(i, o)
              ELSE j = i
         /\ \A p \in db'.outs : \E o \in db.outs :
              IF \E i \in db.ins : Joined(db, ts, i, o)
              THEN \E i \in db.ins : /\ Joined(db, ts, i, o)
                     /\ p = OutputBy(o, i)
              ELSE p = o
<1> DEFINE J(i, o) == Joined(db, ts, i, o)
           out(i) == CHOOSE o \in db.outs : J(i, o)
           in(o) == CHOOSE i \in db.ins : J(i, o)
           ins == {IF \E o \in db.outs : J(i, o) THEN InputOf(i, out(i)) ELSE i : i \in db.ins}
           outs == {IF \E i \in db.ins : J(i, o) THEN OutputBy(o, in(o)) ELSE o : o \in db.outs}
<1>1. db' = [db EXCEPT !.ins = ins, !.outs = outs]
  BY DEF Linked, InputOf, OutputBy
<1>2. /\ \A i \in db.ins, o \in db.outs, p \in db.outs : J(i, o) /\ J(i, p) => o = p
      /\ \A i \in db.ins, l \in db.ins, o \in db.outs : J(i, o) /\ J(l, o) => i = l
  BY JoinedOnce
<1> HIDE DEF J
<1>3. /\ \A i \in db.ins : \A o \in db.outs : J(i, o) => out(i) = o /\ in(o) = i
      /\ \A i \in db.ins : (\E o \in db.outs : J(i, o)) => out(i) \in db.outs /\ J(i, out(i))
      /\ \A o \in db.outs : (\E i \in db.ins : J(i, o)) => in(o) \in db.ins /\ J(in(o), o)
  BY <1>2
<1> HIDE DEF out, in
<1>4. /\ \A i \in db.ins : \A o \in db.outs : J(i, o) => InputOf(i, o) \in ins /\ OutputBy(o, i) \in outs
      /\ \A i \in db.ins : (\A o \in db.outs : ~J(i, o)) => i \in ins
      /\ \A o \in db.outs : (\A i \in db.ins : ~J(i, o)) => o \in outs
  BY <1>3
<1>5. \A j \in ins : \E i \in db.ins :
        IF \E o \in db.outs : J(i, o) THEN \E o \in db.outs : J(i, o) /\ j = InputOf(i, o) ELSE j = i
  BY <1>3
<1>6. \A p \in outs : \E o \in db.outs :
        IF \E i \in db.ins : J(i, o) THEN \E i \in db.ins : J(i, o) /\ p = OutputBy(o, i) ELSE p = o
  BY <1>3
<1> HIDE DEF ins, outs
<1>7. DOMAIN db' = DOMAIN db /\ db'.next = db.next /\ db'.tx = db.tx /\ db'.ins = ins /\ db'.outs = outs
  BY <1>1 DEF ShapeInv
<1> QED
  BY <1>4, <1>5, <1>6, <1>7 DEF J

\* The rows of the transactions ts, whose inputs have not been linked, and those they spend.
LEMMA LinkTable ==
  ASSUME TableInv, storedTip \in Block, storedTip' = storedTip, NEW ts, db' = Linked(db, ts),
         \A r \in db.tx : r.tx \in ToSet(ts) => Filled(r) /\ Unlinked(r) /\ ~Committed(r)
  PROVE  /\ TableInv' /\ db'.tx = db.tx /\ db'.next = db.next
         /\ \A r \in db.tx : r.tx \notin ToSet(ts) => Settled(r)
         /\ \A r \in db.tx : r.tx \in ToSet(ts) /\
              (\A c \in Coins(r.tx) : \E s \in db.tx, o \in db.outs :
                 s.tx = c.tx /\ o.id = s.id /\ o.at = c.at) => Complete(r)'
         /\ \A p \in db'.outs : \E o \in db.outs : p.id = o.id /\ p.at = o.at /\ p.height = o.height
         /\ \A j \in db'.ins : \E i \in db.ins : j.id = i.id /\ j.at = i.at /\ j.height = i.height
         /\ \A j \in db'.ins, p \in db'.outs : Spends(j, p) =>
              \/ j.height = p.byHeight /\ \E r \in db.tx : r.id = j.id /\ r.tx \in ToSet(ts)
              \/ j \in db.ins /\ p \in db.outs
<1> USE DEF TableInv
<1> DEFINE J(i, o) == Joined(db, ts, i, o)
<1>0. /\ DOMAIN db' = DOMAIN db /\ db'.next = db.next /\ db'.tx = db.tx
      /\ \A i \in db.ins : \A o \in db.outs : J(i, o) =>
              /\ InputOf(i, o) \in db'.ins
              /\ OutputBy(o, i) \in db'.outs
      /\ \A i \in db.ins : (\A o \in db.outs : ~J(i, o)) => i \in db'.ins
      /\ \A o \in db.outs : (\A i \in db.ins : ~J(i, o)) => o \in db'.outs
      /\ \A j \in db'.ins : \E i \in db.ins :
              IF \E o \in db.outs : J(i, o)
              THEN \E o \in db.outs : /\ J(i, o)
                     /\ j = InputOf(i, o)
              ELSE j = i
      /\ \A p \in db'.outs : \E o \in db.outs :
              IF \E i \in db.ins : J(i, o)
              THEN \E i \in db.ins : /\ J(i, o)
                     /\ p = OutputBy(o, i)
              ELSE p = o
  <2>1. DOMAIN db' = DOMAIN db /\ db'.next = db.next /\ db'.tx = db.tx
    BY LinkedRows DEF J
  <2>2. \A i \in db.ins : \A o \in db.outs : J(i, o) =>
              /\ InputOf(i, o) \in db'.ins
              /\ OutputBy(o, i) \in db'.outs
    BY LinkedRows DEF J
  <2>3. \A i \in db.ins : (\A o \in db.outs : ~J(i, o)) => i \in db'.ins
    BY LinkedRows DEF J
  <2>4. \A o \in db.outs : (\A i \in db.ins : ~J(i, o)) => o \in db'.outs
    BY LinkedRows DEF J
  <2>5. \A j \in db'.ins : \E i \in db.ins :
              IF \E o \in db.outs : J(i, o)
              THEN \E o \in db.outs : /\ J(i, o)
                     /\ j = InputOf(i, o)
              ELSE j = i
    BY LinkedRows DEF J
  <2>6. \A p \in db'.outs : \E o \in db.outs :
              IF \E i \in db.ins : J(i, o)
              THEN \E i \in db.ins : /\ J(i, o)
                     /\ p = OutputBy(o, i)
              ELSE p = o
    BY LinkedRows DEF J
  <2> QED
    BY <2>1, <2>2, <2>3, <2>4, <2>5, <2>6
<1>1. /\ \A i \in db.ins, o \in db.outs : J(i, o) =>
           \E r, s \in db.tx :
                /\ r.tx \in ToSet(ts) /\ r.id = i.id /\ i.at \in DOMAIN Inputs[r.tx]
                /\ s.id = o.id /\ Inputs[r.tx][i.at].tx = s.tx /\ Inputs[r.tx][i.at].at = o.at
                /\ Inputs[r.tx][i.at] = [tx |-> s.tx, at |-> o.at]
                /\ [tx |-> s.tx, at |-> o.at] \in Coins(r.tx)
      /\ \A i \in db.ins, o \in db.outs, p \in db.outs : J(i, o) /\ J(i, p) => o = p
      /\ \A i \in db.ins, l \in db.ins, o \in db.outs : J(i, o) /\ J(l, o) => i = l
  BY JoinedOnce DEF J
<1>22. \A i \in db.ins, o \in db.outs, r \in db.tx, s \in db.tx :
        /\ r.tx \in ToSet(ts) /\ r.id = i.id /\ i.at \in DOMAIN Inputs[r.tx]
        /\ s.id = o.id /\ Inputs[r.tx][i.at].tx = s.tx /\ Inputs[r.tx][i.at].at = o.at
        => J(i, o)
  BY DEF Joined, Ids, Named
<1> HIDE DEF J
<1>2. ASSUME NEW j \in db'.ins
      PROVE  \E i \in db.ins :
               /\ DOMAIN j = DOMAIN i /\ j.id = i.id /\ j.at = i.at /\ j.height = i.height
               /\ \/ \E o \in db.outs : J(i, o) /\ j.from = o.id /\ j.fromAt = o.at
                  \/ j = i /\ \A o \in db.outs : ~J(i, o)
  <2>1. PICK i \in db.ins :
              IF \E o \in db.outs : J(i, o)
              THEN \E o \in db.outs : /\ J(i, o)
                     /\ j = InputOf(i, o)
              ELSE j = i
    BY <1>0
  <2>2. DOMAIN i = {"id", "at", "height", "address", "from", "fromAt"}
    BY DEF ShapeInv
  <2> QED
    BY <2>1, <2>2 DEF InputOf, OutputBy
<1>3. ASSUME NEW p \in db'.outs
      PROVE  \E o \in db.outs :
               /\ DOMAIN p = DOMAIN o /\ p.id = o.id /\ p.at = o.at /\ p.height = o.height
               /\ \/ \E i \in db.ins : J(i, o) /\ p.by = i.id /\ p.byAt = i.at /\ p.byHeight = i.height
                  \/ p = o /\ \A i \in db.ins : ~J(i, o)
  <2>1. PICK o \in db.outs :
              IF \E i \in db.ins : J(i, o)
              THEN \E i \in db.ins : /\ J(i, o)
                     /\ p = OutputBy(o, i)
              ELSE p = o
    BY <1>0
  <2>2. DOMAIN o = {"id", "at", "height", "address", "by", "byAt", "byHeight"}
    BY DEF ShapeInv
  <2> QED
    BY <2>1, <2>2 DEF InputOf, OutputBy
<1>4. ASSUME NEW i \in db.ins
      PROVE  \E j \in db'.ins :
               /\ j.id = i.id /\ j.at = i.at /\ j.height = i.height
               /\ \A o \in db.outs : J(i, o) => j.from = o.id /\ j.fromAt = o.at
               /\ (\A o \in db.outs : ~J(i, o)) => j = i
  <2>1. DOMAIN i = {"id", "at", "height", "address", "from", "fromAt"}
    BY DEF ShapeInv
  <2>2. CASE \E o \in db.outs : J(i, o)
    <3>1. PICK o \in db.outs : J(i, o)
      BY <2>2
    <3>2. InputOf(i, o) \in db'.ins
      BY <1>0, <3>1
    <3> QED
      BY <1>1, <2>1, <3>1, <3>2 DEF InputOf, OutputBy
  <2>3. CASE \A o \in db.outs : ~J(i, o)
    BY <1>0, <2>3
  <2> QED
    BY <2>2, <2>3
<1>5. ASSUME NEW o \in db.outs
      PROVE  \E p \in db'.outs :
               /\ p.id = o.id /\ p.at = o.at /\ p.height = o.height
               /\ \A i \in db.ins : J(i, o) => p.by = i.id /\ p.byAt = i.at /\ p.byHeight = i.height
               /\ (\A i \in db.ins : ~J(i, o)) => p = o
  <2>1. DOMAIN o = {"id", "at", "height", "address", "by", "byAt", "byHeight"}
    BY DEF ShapeInv
  <2>2. CASE \E i \in db.ins : J(i, o)
    <3>1. PICK i \in db.ins : J(i, o)
      BY <2>2
    <3>2. OutputBy(o, i) \in db'.outs
      BY <1>0, <3>1
    <3> QED
      BY <1>1, <2>1, <3>1, <3>2 DEF InputOf, OutputBy
  <2>3. CASE \A i \in db.ins : ~J(i, o)
    BY <1>0, <2>3
  <2> QED
    BY <2>2, <2>3
<1>6. /\ H \in Nat /\ Unconfirmed \in Nat /\ Null \notin Nat /\ H' = H /\ (\A x : Committed(x)' <=> Committed(x))
      /\ \A r \in db.tx : r.id \in Nat /\ r.id # 0 /\ r.id \in 0 .. db.next
      /\ \A x \in db.ins \cup db.outs : \E r \in db.tx : With(x, r)
  BY Heights DEF H, Committed, ShapeInv, OwnInv
\* an input that is linked now was not before, and is of no committed transaction
<1>7. ASSUME NEW i \in db.ins, NEW o \in db.outs, J(i, o)
      PROVE  /\ i.from = 0 /\ ~Committed(i)
             /\ \A r \in db.tx : r.id = i.id => r.tx \in ToSet(ts)
             /\ \A q \in db.tx : q.tx \notin ToSet(ts) =>
                  \A s \in db.tx : s.id = o.id => [tx |-> s.tx, at |-> o.at] \notin Coins(q.tx)
  <2>1. PICK r \in db.tx, s \in db.tx :
          r.tx \in ToSet(ts) /\ r.id = i.id /\ s.id = o.id /\ [tx |-> s.tx, at |-> o.at] \in Coins(r.tx)
    BY <1>1, <1>7
  <2>2. i.from = 0
    BY <2>1 DEF Unlinked
  <2>3. ~Committed(i)
    <3>1. PICK q \in db.tx : With(i, q)
      BY <1>6
    <3>2. q = r
      BY <2>1, <3>1 DEF With, KeyInv
    <3> QED
      BY <2>1, <3>1, <3>2 DEF With, Committed
  <2>4. \A q \in db.tx : q.id = i.id => q.tx \in ToSet(ts)
    BY <2>1 DEF KeyInv
  <2>5. ASSUME NEW q \in db.tx, q.tx \notin ToSet(ts), NEW u \in db.tx, u.id = o.id,
               [tx |-> u.tx, at |-> o.at] \in Coins(q.tx)
        PROVE  FALSE
    <3>1. u = s
      BY <2>1, <2>5 DEF KeyInv
    <3>2. q = r
      BY <2>1, <2>5, <3>1 DEF RivalInv
    <3> QED
      BY <2>1, <2>5, <3>2
  <2> QED
    BY <2>2, <2>3, <2>4, <2>5
<1>8. ASSUME NEW i \in db.ins, \E r \in db.tx : r.id = i.id /\ r.tx \notin ToSet(ts), NEW o \in db.outs
      PROVE  ~J(i, o)
  BY <1>7, <1>8 DEF KeyInv
<1>9. ASSUME NEW i \in db.ins, NEW o \in db.outs, Spends(i, o)
      PROVE  /\ \A p \in db.outs : ~J(i, p)
             /\ \A l \in db.ins : ~J(l, o)
  <2>1. PICK r \in db.tx, s \in db.tx : /\ With(i, r) /\ With(o, s)
                                        /\ [tx |-> s.tx, at |-> o.at] \in Coins(r.tx)
    BY <1>9, LinkRows
  <2>2. i.from # 0
    BY <1>6, <1>9, <2>1 DEF Spends, With
  <2>3. r.tx \notin ToSet(ts)
    BY <2>1, <2>2 DEF Unlinked, With
  <2> QED
    BY <1>7, <2>1, <2>2, <2>3 DEF With
<1> HIDE <1>0
<1>10. ShapeInv'
  <2>1. \A p \in db'.outs :
          /\ DOMAIN p = {"id", "at", "height", "address", "by", "byAt", "byHeight"}
          /\ p.height \in 0 .. Unconfirmed /\ p.by \in 0 .. db.next
          /\ p.byHeight \in 0 .. Unconfirmed \cup {Null}
    <3> TAKE p \in db'.outs
    <3>1. PICK o \in db.outs :
               /\ DOMAIN p = DOMAIN o /\ p.id = o.id /\ p.at = o.at /\ p.height = o.height
               /\ \/ \E i \in db.ins : J(i, o) /\ p.by = i.id /\ p.byAt = i.at /\ p.byHeight = i.height
                  \/ p = o
      BY <1>3
    <3>2. /\ DOMAIN o = {"id", "at", "height", "address", "by", "byAt", "byHeight"}
          /\ o.height \in 0 .. Unconfirmed /\ o.by \in 0 .. db.next
          /\ o.byHeight \in 0 .. Unconfirmed \cup {Null}
      BY DEF ShapeInv
    <3>3. \A i \in db.ins : i.id \in 0 .. db.next /\ i.height \in 0 .. Unconfirmed
      BY <1>6 DEF ShapeInv, With
    <3> QED
      BY <3>1, <3>2, <3>3
  <2>2. \A j \in db'.ins :
          /\ DOMAIN j = {"id", "at", "height", "address", "from", "fromAt"}
          /\ j.height \in 0 .. Unconfirmed /\ j.from \in 0 .. db.next
    <3> TAKE j \in db'.ins
    <3>1. PICK i \in db.ins :
               /\ DOMAIN j = DOMAIN i /\ j.height = i.height
               /\ \/ \E o \in db.outs : j.from = o.id
                  \/ j = i
      BY <1>2
    <3>2. /\ DOMAIN i = {"id", "at", "height", "address", "from", "fromAt"}
          /\ i.height \in 0 .. Unconfirmed /\ i.from \in 0 .. db.next
      BY DEF ShapeInv
    <3>3. \A o \in db.outs : o.id \in 0 .. db.next
      BY <1>6 DEF With
    <3> QED
      BY <3>1, <3>2, <3>3
  <2>3. AllGenerated' = AllGenerated
    BY DEF AllGenerated
  <2>4. DOMAIN db' = DOMAIN db /\ db'.next = db.next /\ db'.tx = db.tx
    BY <1>0
  <2> QED
    BY <2>1, <2>2, <2>3, <2>4 DEF ShapeInv
<1>11. db'.tx = db.tx /\ db'.next = db.next
  BY <1>0
<1>12. KeyInv'
  <2>1. ASSUME NEW p \in db'.outs, NEW q \in db'.outs, p.id = q.id, p.at = q.at PROVE p = q
    <3>1. PICK o \in db.outs : /\ p.id = o.id /\ p.at = o.at
                   /\ IF \E i \in db.ins : J(i, o)
                      THEN \E i \in db.ins : /\ J(i, o)
                        /\ p = OutputBy(o, i)
                      ELSE p = o
      <4>1. PICK o \in db.outs : IF \E i \in db.ins : J(i, o)
                      THEN \E i \in db.ins : /\ J(i, o)
                        /\ p = OutputBy(o, i)
                      ELSE p = o
        BY <1>0
      <4>2. DOMAIN o = {"id", "at", "height", "address", "by", "byAt", "byHeight"}
        BY DEF ShapeInv
      <4> QED
        BY <4>1, <4>2 DEF InputOf, OutputBy
    <3>2. PICK u \in db.outs : /\ q.id = u.id /\ q.at = u.at
                   /\ IF \E i \in db.ins : J(i, u)
                      THEN \E i \in db.ins : /\ J(i, u)
                        /\ q = OutputBy(u, i)
                      ELSE q = u
      <4>1. PICK u \in db.outs : IF \E i \in db.ins : J(i, u)
                      THEN \E i \in db.ins : /\ J(i, u)
                        /\ q = OutputBy(u, i)
                      ELSE q = u
        BY <1>0
      <4>2. DOMAIN u = {"id", "at", "height", "address", "by", "byAt", "byHeight"}
        BY DEF ShapeInv
      <4> QED
        BY <4>1, <4>2 DEF InputOf, OutputBy
    <3>3. o = u
      BY <2>1, <3>1, <3>2 DEF KeyInv
    <3>4. CASE \A i \in db.ins : ~J(i, o)
      BY <3>1, <3>2, <3>3, <3>4
    <3>5. CASE \E i \in db.ins : J(i, o)
      <4>1. PICK i \in db.ins : J(i, o) /\ p = OutputBy(o, i)
        BY <3>1, <3>5
      <4>2. PICK l \in db.ins : J(l, o) /\ q = OutputBy(o, l)
        BY <3>2, <3>3, <3>5
      <4>3. i = l
        BY <1>1, <4>1, <4>2
      <4> QED
        BY <4>1, <4>2, <4>3
    <3> QED
      BY <3>4, <3>5
  <2>2. ASSUME NEW p \in db'.ins, NEW q \in db'.ins, p.id = q.id, p.at = q.at PROVE p = q
    <3>1. PICK i \in db.ins : /\ p.id = i.id /\ p.at = i.at
                   /\ IF \E o \in db.outs : J(i, o)
                      THEN \E o \in db.outs : /\ J(i, o)
                        /\ p = InputOf(i, o)
                      ELSE p = i
      <4>1. PICK i \in db.ins : IF \E o \in db.outs : J(i, o)
                      THEN \E o \in db.outs : /\ J(i, o)
                        /\ p = InputOf(i, o)
                      ELSE p = i
        BY <1>0
      <4>2. DOMAIN i = {"id", "at", "height", "address", "from", "fromAt"}
        BY DEF ShapeInv
      <4> QED
        BY <4>1, <4>2 DEF InputOf, OutputBy
    <3>2. PICK u \in db.ins : /\ q.id = u.id /\ q.at = u.at
                   /\ IF \E o \in db.outs : J(u, o)
                      THEN \E o \in db.outs : /\ J(u, o)
                        /\ q = InputOf(u, o)
                      ELSE q = u
      <4>1. PICK u \in db.ins : IF \E o \in db.outs : J(u, o)
                      THEN \E o \in db.outs : /\ J(u, o)
                        /\ q = InputOf(u, o)
                      ELSE q = u
        BY <1>0
      <4>2. DOMAIN u = {"id", "at", "height", "address", "from", "fromAt"}
        BY DEF ShapeInv
      <4> QED
        BY <4>1, <4>2 DEF InputOf, OutputBy
    <3>3. i = u
      BY <2>2, <3>1, <3>2 DEF KeyInv
    <3>4. CASE \A o \in db.outs : ~J(i, o)
      BY <3>1, <3>2, <3>3, <3>4
    <3>5. CASE \E o \in db.outs : J(i, o)
      <4>1. PICK o \in db.outs : J(i, o) /\ p = InputOf(i, o)
        BY <3>1, <3>5
      <4>2. PICK l \in db.outs : J(i, l) /\ q = InputOf(i, l)
        BY <3>2, <3>3, <3>5
      <4>3. o = l
        BY <1>1, <4>1, <4>2
      <4> QED
        BY <4>1, <4>2, <4>3
    <3> QED
      BY <3>4, <3>5
  <2> QED
    BY <1>11, <2>1, <2>2 DEF KeyInv
<1>13. OwnInv'
  <2>1. ASSUME NEW p \in db'.outs PROVE \E r \in db'.tx : With(p, r)' /\ p.at \in DOMAIN Pays[r.tx]
    <3>1. PICK o \in db.outs : p.id = o.id /\ p.at = o.at /\ p.height = o.height
      BY <1>3
    <3>2. PICK r \in db.tx : With(o, r) /\ o.at \in DOMAIN Pays[r.tx]
      BY DEF OwnInv
    <3> QED
      BY <1>6, <1>11, <3>1, <3>2 DEF With, Committed
  <2>2. ASSUME NEW p \in db'.ins PROVE \E r \in db'.tx : With(p, r)' /\ p.at \in DOMAIN Inputs[r.tx]
    <3>1. PICK o \in db.ins : p.id = o.id /\ p.at = o.at /\ p.height = o.height
      BY <1>2
    <3>2. PICK r \in db.tx : With(o, r) /\ o.at \in DOMAIN Inputs[r.tx]
      BY DEF OwnInv
    <3> QED
      BY <1>6, <1>11, <3>1, <3>2 DEF With, Committed
  <2> QED
    BY <2>1, <2>2 DEF OwnInv
<1>14. LinkInv'
  <2>1. ASSUME NEW j \in db'.ins, NEW r \in db.tx, NEW s \in db.tx, r.id = j.id, s.id = j.from
        PROVE  Inputs[r.tx][j.at].tx = s.tx /\ Inputs[r.tx][j.at].at = j.fromAt
    <3>1. PICK i \in db.ins :
               /\ j.id = i.id /\ j.at = i.at
               /\ \/ \E o \in db.outs : J(i, o) /\ j.from = o.id /\ j.fromAt = o.at
                  \/ j = i
      BY <1>2
    <3>2. CASE \E o \in db.outs : J(i, o) /\ j.from = o.id /\ j.fromAt = o.at
      <4>1. PICK o \in db.outs : J(i, o) /\ j.from = o.id /\ j.fromAt = o.at
        BY <3>2
      <4>2. PICK q \in db.tx, u \in db.tx :
              /\ q.id = i.id /\ u.id = o.id /\ Inputs[q.tx][i.at].tx = u.tx /\ Inputs[q.tx][i.at].at = o.at
        BY <1>1, <4>1
      <4>3. q = r /\ u = s
        BY <2>1, <3>1, <4>1, <4>2 DEF KeyInv
      <4> QED
        BY <3>1, <4>1, <4>2, <4>3
    <3>3. CASE j = i
      BY <2>1, <3>3 DEF LinkInv
    <3> QED
      BY <3>1, <3>2, <3>3
  <2>2. ASSUME NEW p \in db'.outs, NEW r \in db.tx, NEW s \in db.tx, r.id = p.by, s.id = p.id
        PROVE  \E n \in DOMAIN Inputs[r.tx] : Inputs[r.tx][n].tx = s.tx /\ Inputs[r.tx][n].at = p.at
    <3>1. PICK o \in db.outs :
               /\ p.id = o.id /\ p.at = o.at
               /\ \/ \E i \in db.ins : J(i, o) /\ p.by = i.id
                  \/ p = o
      BY <1>3
    <3>2. CASE \E i \in db.ins : J(i, o) /\ p.by = i.id
      <4>1. PICK i \in db.ins : J(i, o) /\ p.by = i.id
        BY <3>2
      <4>2. PICK q \in db.tx, u \in db.tx :
              /\ q.id = i.id /\ u.id = o.id /\ i.at \in DOMAIN Inputs[q.tx]
              /\ Inputs[q.tx][i.at].tx = u.tx /\ Inputs[q.tx][i.at].at = o.at
        BY <1>1, <4>1
      <4>3. q = r /\ u = s
        BY <2>2, <3>1, <4>1, <4>2 DEF KeyInv
      <4> QED
        BY <3>1, <4>1, <4>2, <4>3
    <3>3. CASE p = o
      BY <2>2, <3>3 DEF LinkInv
    <3> QED
      BY <3>1, <3>2, <3>3
  <2> QED
    BY <1>11, <2>1, <2>2 DEF LinkInv
<1>15. RivalInv'
  BY <1>11 DEF RivalInv
\* an input spends what it did, or what it has been linked to
<1>16. ASSUME NEW j \in db'.ins, NEW p \in db'.outs, Spends(j, p)
       PROVE  \/ j.height = p.byHeight /\ \E r \in db.tx : r.id = j.id /\ r.tx \in ToSet(ts)
              \/ j \in db.ins /\ p \in db.outs
  <2>1. PICK i \in db.ins :
               /\ j.id = i.id /\ j.at = i.at /\ j.height = i.height
               /\ \/ \E o \in db.outs : J(i, o) /\ j.from = o.id /\ j.fromAt = o.at
                  \/ j = i
    BY <1>2
  <2>2. PICK o \in db.outs :
               /\ p.id = o.id /\ p.at = o.at
               /\ \/ \E l \in db.ins : J(l, o) /\ p.byHeight = l.height
                  \/ p = o /\ \A l \in db.ins : ~J(l, o)
    BY <1>3
  <2>3. CASE \E u \in db.outs : J(i, u) /\ j.from = u.id /\ j.fromAt = u.at
    <3>1. PICK u \in db.outs : J(i, u) /\ j.from = u.id /\ j.fromAt = u.at
      BY <2>3
    <3>2. u = o
      BY <1>16, <2>2, <3>1 DEF Spends, KeyInv
    <3>3. p.byHeight = i.height
      BY <1>1, <2>2, <3>1, <3>2
    <3>4. \E r \in db.tx : r.id = i.id /\ r.tx \in ToSet(ts)
      BY <1>1, <3>1
    <3> QED
      BY <2>1, <3>3, <3>4
  <2>4. CASE j = i
    <3>1. Spends(i, o)
      BY <1>16, <2>2, <2>4 DEF Spends
    <3>2. p = o
      BY <1>9, <2>2, <3>1
    <3> QED
      BY <2>4, <3>2
  <2> QED
    BY <2>1, <2>3, <2>4
<1>17. SpentInv'
  <2>1. ASSUME NEW p \in db'.outs, p.byHeight \notin {Null, Unconfirmed}
        PROVE  \E j \in db'.ins : Spends(j, p) /\ j.height = p.byHeight
    <3>1. PICK o \in db.outs :
               /\ p.id = o.id /\ p.at = o.at
               /\ \/ \E i \in db.ins : J(i, o) /\ p.byHeight = i.height
                  \/ p = o
      BY <1>3
    <3>2. CASE \E i \in db.ins : J(i, o) /\ p.byHeight = i.height
      <4>1. PICK i \in db.ins : J(i, o) /\ p.byHeight = i.height
        BY <3>2
      <4>2. PICK j \in db'.ins : j.height = i.height /\ j.from = o.id /\ j.fromAt = o.at
        BY <1>4, <4>1
      <4> QED
        BY <3>1, <4>1, <4>2 DEF Spends
    <3>3. CASE p = o
      <4>1. PICK i \in db.ins : Spends(i, o) /\ i.height = o.byHeight
        BY <2>1, <3>3 DEF SpentInv
      <4>2. i \in db'.ins
        BY <1>4, <1>9, <4>1
      <4> QED
        BY <3>3, <4>1, <4>2
    <3> QED
      BY <3>1, <3>2, <3>3
  <2>2. ASSUME NEW p \in db'.outs, NEW j \in db'.ins, Spends(j, p), Committed(j)
        PROVE  p.byHeight = j.height
    BY <1>16, <2>2 DEF SpentInv
  <2> QED
    BY <1>6, <2>1, <2>2 DEF SpentInv, Spends
<1>18. ASSUME NEW r \in db.tx, r.tx \notin ToSet(ts) PROVE Settled(r)
  <2>1. ASSUME NEW o \in db.outs, o.id = r.id \/ o.by = r.id
        PROVE  \E p \in db'.outs : p.id = o.id /\ p.at = o.at /\ (o.by = r.id => p.by = o.by)
    <3>1. PICK p \in db'.outs :
               /\ p.id = o.id /\ p.at = o.at
               /\ (\A i \in db.ins : ~J(i, o)) => p = o
      BY <1>5
    <3>2. ASSUME o.by = r.id, NEW i \in db.ins, J(i, o) PROVE FALSE
      <4>1. PICK s \in db.tx : With(o, s) /\ [tx |-> s.tx, at |-> o.at] \in Coins(r.tx)
        BY <3>2, ByRows
      <4> QED
        BY <1>7, <1>18, <3>2, <4>1 DEF With
    <3> QED
      BY <3>1, <3>2
  <2>2. \A i \in db.ins : i.id = r.id => \A o \in db.outs : ~J(i, o)
    BY <1>8, <1>18
  <2>3. \A i \in db.ins : i.id = r.id => i \in db'.ins
    BY <1>4, <2>2
  <2>4. \A j \in db'.ins : j.id = r.id => j \in db.ins
    BY <1>2, <2>2
  <2>5. \A p \in db'.outs : \E o \in db.outs : p.id = o.id /\ p.at = o.at
    BY <1>3
  <2> QED
    BY <2>1, <2>3, <2>4, <2>5 DEF Settled, Kept, SameInput
<1>19. ASSUME NEW r \in db.tx, r.tx \in ToSet(ts),
              \A c \in Coins(r.tx) : \E s \in db.tx, o \in db.outs :
                 s.tx = c.tx /\ o.id = s.id /\ o.at = c.at
       PROVE  Complete(r)'
  <2>1. Filled(r)'
    <3>1. Filled(r)
      BY <1>19
    <3>2. \A n \in DOMAIN Pays[r.tx] : \E p \in db'.outs : p.id = r.id /\ p.at = n
      <4> TAKE n \in DOMAIN Pays[r.tx]
      <4>1. PICK o \in db.outs : o.id = r.id /\ o.at = n
        BY <3>1 DEF Filled
      <4> QED
        BY <1>5, <4>1
    <3>3. \A n \in DOMAIN Inputs[r.tx] : \E p \in db'.ins : p.id = r.id /\ p.at = n
      <4> TAKE n \in DOMAIN Inputs[r.tx]
      <4>1. PICK o \in db.ins : o.id = r.id /\ o.at = n
        BY <3>1 DEF Filled
      <4> QED
        BY <1>4, <4>1
    <3> QED
      BY <3>2, <3>3 DEF Filled
  <2>2. ASSUME NEW j \in db'.ins, j.id = r.id, Inputs[r.tx][j.at].tx # NoTx
        PROVE  \E p \in db'.outs : Spends(j, p) /\ p.by = r.id
    <3>1. PICK i \in db.ins :
               /\ j.id = i.id /\ j.at = i.at
               /\ \/ \E o \in db.outs : J(i, o) /\ j.from = o.id /\ j.fromAt = o.at
                  \/ j = i /\ \A o \in db.outs : ~J(i, o)
      BY <1>2
    <3>2. i.at \in DOMAIN Inputs[r.tx]
      <4>1. PICK q \in db.tx : With(i, q) /\ i.at \in DOMAIN Inputs[q.tx]
        BY DEF OwnInv
      <4>2. q = r
        BY <2>2, <3>1, <4>1 DEF With, KeyInv
      <4> QED
        BY <4>1, <4>2
    <3>3. r.tx \in Tx
      BY DEF ShapeInv
    <3>4. Inputs[r.tx][i.at] \in Coins(r.tx)
      BY <2>2, <3>1, <3>2, <3>3, CoinsType
    <3>5. PICK s \in db.tx, o \in db.outs :
            s.tx = Inputs[r.tx][i.at].tx /\ o.id = s.id /\ o.at = Inputs[r.tx][i.at].at
      BY <1>19, <3>4
    <3>6. J(i, o)
      <4>1. r.id = i.id /\ s.id = o.id
        BY <2>2, <3>1, <3>5
      <4>2. r.tx \in ToSet(ts)
        BY <1>19
      <4>3. Inputs[r.tx][i.at].tx = s.tx /\ Inputs[r.tx][i.at].at = o.at
        BY <3>5
      <4> QED
        BY <1>22, <3>2, <4>1, <4>2, <4>3
    <3>7. j.from = o.id /\ j.fromAt = o.at
      BY <1>1, <3>1, <3>6
    <3>8. PICK p \in db'.outs : p.id = o.id /\ p.at = o.at /\ p.by = i.id
      BY <1>5, <3>6
    <3> QED
      BY <2>2, <3>1, <3>7, <3>8 DEF Spends
  <2> QED
    BY <2>1, <2>2 DEF Complete, Linking, Spends
<1>20. ChainInv'
  <2>1. ASSUME NEW r \in db.tx, Committed(r) PROVE Complete(r)'
    <3>1. r.tx \notin ToSet(ts)
      BY <2>1
    <3>2. Kept(r) /\ Complete(r)
      BY <1>18, <2>1, <3>1 DEF Settled, ChainInv
    <3> QED
      BY <1>11, <3>2, KeptComplete
  <2>2. ChainTxs(storedTip)' = ChainTxs(storedTip)
    BY DEF ChainTxs
  <2> QED
    BY <1>6, <1>11, <2>1, <2>2 DEF ChainInv
<1>21. /\ \A p \in db'.outs : \E o \in db.outs : p.id = o.id /\ p.at = o.at /\ p.height = o.height
       /\ \A j \in db'.ins : \E i \in db.ins : j.id = i.id /\ j.at = i.at /\ j.height = i.height
  BY <1>2, <1>3
<1> QED
  BY <1>10, <1>11, <1>12, <1>13, <1>14, <1>15, <1>16, <1>17, <1>18, <1>19, <1>20, <1>21

\* Nothing is linked to a transaction that has no outputs yet.
LEMMA NoSpender ==
  ASSUME LedgerInv, phase \in {"run", "undo"}, NEW r \in db.tx, Empty(r),
         phase = "undo" => r.tx \in Queued, NEW i \in db.ins
  PROVE  i.from # r.id
<1> USE DEF LedgerInv, WorkInv, TableInv
<1> SUFFICES ASSUME i.from = r.id PROVE FALSE
  OBVIOUS
<1>1. storedTip \in Block
  BY DEF ProcessInv
<1>2. PICK q \in db.tx : With(i, q) /\ i.at \in DOMAIN Inputs[q.tx]
  BY DEF OwnInv
<1>3. /\ Inputs[q.tx][i.at].tx = r.tx /\ r.id # 0
      /\ q.tx \in Tx /\ r.tx \in Tx /\ r.tx # NoTx
  BY <1>1, <1>2, Heights, LedgerAssumption DEF LinkInv, With
<1>4. Inputs[q.tx][i.at] \in Coins(q.tx)
  BY <1>2, <1>3, CoinsType
<1>5. CASE Complete(q)
  <2>1. PICK o \in db.outs : Spends(i, o)
    BY <1>2, <1>3, <1>5 DEF Complete, Linking, With
  <2> QED
    BY <2>1 DEF Spends, Empty
<1>6. CASE InProgress(q.tx)
  <2>1. PICK w \in Handler : Filling(w) /\ q.tx \in ToSet(job[w].txs)
    BY <1>6 DEF InProgress
  <2>2. Empty(q) \/ Unlinked(q)
    BY <2>1 DEF WriteInv
  <2> QED
    BY <1>2, <1>3, <2>2 DEF Empty, Unlinked, With
<1>7. CASE phase = "undo" /\ ~Committed(q) /\ q.tx \in AllGenerated
  <2>1. q.height # Unconfirmed
    BY <1>7 DEF ShapeInv
  <2>2. [tx |-> q.tx, height |-> q.height, index |-> q.index] \in ChainTxs(block)
    BY <1>7, <2>1 DEF UndoInv
  <2>3. block \in Block /\ block # NoBlock /\ r.tx \in Queued
    BY <1>7, TreeAssumption DEF ProcessInv
  <2>4. q.tx \in AroundTx
    BY <2>2, <2>3, ChainTxsType DEF AroundTx, Around
  <2> QED
    BY <1>3, <1>4, <2>3, <2>4, QueuedApart
<1> QED
  BY <1>5, <1>6, <1>7 DEF CompleteInv, Whole

\* The handler of the mempool in the middle of its transaction.
LEMMA MempoolJob ==
  ASSUME LedgerInv, Filling("mempool"), phase \in {"run", "undo"}
  PROVE  /\ running # NoTx /\ job["mempool"].txs = <<running>> /\ ToSet(job["mempool"].txs) = {running}
         /\ "mempool" \in Handler /\ storedTip \in Block
         /\ H \in Nat /\ H < Unconfirmed /\ Unconfirmed \in Nat
         /\ running \in Tx /\ running \in Queued
         /\ \A r \in db.tx : r.tx = running =>
              /\ r.height = Unconfirmed /\ ~Committed(r)
              /\ \A i \in db.ins : i.id = r.id => i.height = Unconfirmed
<1> USE DEF LedgerInv, WorkInv
<1>1. "mempool" \in Handler /\ job["mempool"].pc # "none"
  BY DEF Handler, Filling
<1>2. /\ running # NoTx /\ storedTip \in Block /\ H \in Nat /\ H < Unconfirmed /\ Unconfirmed \in Nat
  BY <1>1, HandlerPlace
<1>3. running \in Queued /\ running \in Tx
  BY <1>2, QueuedType
<1>4. job["mempool"].txs = <<running>> /\ \A r \in db.tx : r.tx = running => r.height = Unconfirmed
  BY <1>2 DEF MempoolInv
<1>5. ToSet(<<running>>) = {running}
  BY DEF ToSet
<1>6. running \notin AroundTx
  BY <1>3, QueuedApart
<1>7. ASSUME NEW r \in db.tx, r.tx = running, NEW i \in db.ins, i.id = r.id PROVE i.height = Unconfirmed
  <2>1. CASE phase = "undo"
    BY <1>6, <1>7, <2>1 DEF UndoInv
  <2>2. CASE phase = "run"
    <3>1. i.height = IF job["block"].pc \in {"spend", "lower", "replace"} /\ r.id \in job["block"].found
                     THEN H + 1 ELSE r.height
      BY <1>7, <2>2 DEF HeightInv
    <3>2. ASSUME job["block"].pc \in {"spend", "lower", "replace"}, r.id \in job["block"].found
          PROVE  FALSE
      <4>1. block # NoBlock
        BY <2>2, <3>2 DEF ProcessInv
      <4>2. PICK q \in db.tx : q.id = r.id /\ q.tx \in BlockTx
        BY <2>2, <3>2, <4>1 DEF BlockInv, BlockFound
      <4>3. q = r
        BY <4>2 DEF TableInv, KeyInv
      <4> QED
        BY <1>6, <1>7, <2>2, <4>1, <4>2, <4>3, AroundChain
    <3> QED
      BY <1>4, <1>7, <3>1, <3>2
  <2> QED
    BY <2>1, <2>2
<1> QED
  BY <1>1, <1>2, <1>3, <1>4, <1>5, <1>7 DEF Committed

\* The outputs and inputs of a transaction of a peer.
LEMMA MempoolInsert ==
  ASSUME LedgerInv, Insert("mempool")
  PROVE  LedgerInv'
<1> USE DEF LedgerInv, WorkInv
<1> DEFINE j == job["mempool"]
<1>1. CASE Refused("mempool", "insert", "duplicate")
  BY <1>1, LedgerStop DEF Refused
<1>2. CASE Statement("mempool", "insert", "link", Inserted(db, j, Height("mempool")))
  <2>1. "mempool" \in Handler
    BY DEF Handler
  <2>2. /\ Handles("mempool") /\ j.pc = "insert" /\ job'["mempool"].pc = "link"
        /\ db' = Inserted(db, j, Height("mempool")) /\ txTip' = txTip
        /\ job'["mempool"].todo = j.todo /\ job'["mempool"].ids = j.ids
        /\ job'["mempool"].txs = j.txs
        /\ job'["mempool"].found = j.found
    BY <1>2, <2>1, StatementHandles
  <2>3. phase \in {"run", "undo"} /\ storedTip' = storedTip /\ running' = running
    BY <2>2 DEF Handles
  <2>4. Filling("mempool") /\ Filling("mempool")'
    BY <2>2 DEF Filling
  <2>5. /\ running # NoTx /\ j.txs = <<running>> /\ ToSet(j.txs) = {running} /\ storedTip \in Block
        /\ H \in Nat /\ H < Unconfirmed /\ Unconfirmed \in Nat /\ running \in Tx /\ running \in Queued
        /\ \A r \in db.tx : r.tx = running => r.height = Unconfirmed /\ ~Committed(r)
    BY <2>3, <2>4, MempoolJob
  <2>6. WriteInv("mempool")
    BY <2>1
  <2>7. IdsRight(j) /\ \A r \in db.tx : r.tx = running => Empty(r)
    BY <2>2, <2>4, <2>5, <2>6 DEF WriteInv
  <2>8. Height("mempool") = Unconfirmed
    BY DEF Height
  <2>9. db' = Inserted(db, j, Unconfirmed)
    BY <2>2, <2>8
  <2>10. Unconfirmed \in 0 .. Unconfirmed /\ Unconfirmed > H
    BY <2>5
  <2>11. /\ TableInv'
         /\ \A r \in db.tx : r.tx # running => Settled(r)
         /\ \A r \in db.tx : r.tx = running => Filled(r)' /\ Unlinked(r)'
    BY <2>3, <2>5, <2>7, <2>9, <2>10, InsertTable
  <2>12. /\ db'.next = db.next /\ db'.tx = db.tx
         /\ db.outs \subseteq db'.outs /\ db.ins \subseteq db'.ins
         /\ \A p \in db'.outs : p \in db.outs \/ \E n \in DOMAIN j.txs : \E m \in DOMAIN Pays[j.txs[n]] :
              p = [id |-> j.ids[n], at |-> m, height |-> Unconfirmed,
                   address |-> (CHOOSE r \in db.addresses : r.address = Pays[j.txs[n]][m]).id,
                   by |-> 0, byAt |-> 0, byHeight |-> Null]
         /\ \A i \in db'.ins : i \in db.ins \/ \E n \in DOMAIN j.txs : \E m \in DOMAIN Inputs[j.txs[n]] :
              i = [id |-> j.ids[n], at |-> m, height |-> Unconfirmed, address |-> 0, from |-> 0, fromAt |-> 0]
    BY <2>7, <2>9, InsertedRows DEF TableInv
  <2>13. \A n \in DOMAIN j.txs : \E r \in db.tx : r.id = j.ids[n] /\ r.tx = running /\ r.height = Unconfirmed
    <3>1. \A n \in DOMAIN j.txs : j.txs[n] = running
      BY <2>5 DEF ToSet
    <3> QED
      BY <2>5, <2>7, <3>1 DEF IdsRight
  <2>14. ASSUME NEW p \in db'.outs, p \notin db.outs
         PROVE  /\ p.height = Unconfirmed /\ Mine(p)
                /\ \E r \in db.tx : p.id = r.id /\ r.tx = running
    <3>1. PICK n \in DOMAIN j.txs : p.id = j.ids[n] /\ p.height = Unconfirmed
      BY <2>12, <2>14
    <3> QED
      BY <2>12, <2>13, <3>1 DEF Mine
  <2>15. ASSUME NEW i \in db'.ins, i \notin db.ins PROVE i.height = Unconfirmed /\ Mine(i)
    <3>1. PICK n \in DOMAIN j.txs : i.id = j.ids[n] /\ i.height = Unconfirmed
      BY <2>12, <2>15
    <3> QED
      BY <2>12, <2>13, <3>1 DEF Mine
  <2>16. ASSUME NEW i \in db'.ins, NEW p \in db'.outs, Spends(i, p), i \in db.ins PROVE p \in db.outs
    <3> SUFFICES ASSUME p \notin db.outs PROVE FALSE
      OBVIOUS
    <3>1. PICK r \in db.tx : p.id = r.id /\ r.tx = running
      BY <2>14
    <3>2. i.from # r.id
      BY <2>3, <2>5, <2>7, <2>16, <3>1, NoSpender
    <3> QED
      BY <2>16, <3>1, <3>2 DEF Spends
  <2>17. \A r \in db.tx : r.tx \in AroundTx => Kept(r)
    <3>1. running \notin AroundTx
      BY <2>3, <2>5, QueuedApart
    <3> QED
      BY <2>11, <3>1 DEF Settled
  <2>18. MempoolStep
    <3>1. db.next \in Nat
      BY DEF TableInv, ShapeInv
    <3>2. \A p \in db'.outs :
            \/ \E o \in db.outs : p.id = o.id /\ p.at = o.at /\ p.height = o.height
            \/ p.height = Unconfirmed /\ Mine(p)
      BY <2>14
    <3>3. \A l \in db'.ins :
            \/ \E i \in db.ins : SameInput(i, l) /\ l.height = i.height
            \/ l.height = Unconfirmed /\ Mine(l)
      BY <2>15 DEF SameInput
    <3>4. \A l \in db'.ins, p \in db'.outs : Spends(l, p)' =>
            \/ l.height = Unconfirmed /\ Mine(l)
            \/ \E i \in db.ins, o \in db.outs :
                 Spends(i, o) /\ l.id = i.id /\ l.height = i.height /\ p.byHeight = o.byHeight
      BY <2>15, <2>16 DEF Spends
    <3> QED
      BY <2>12, <2>17, <3>1, <3>2, <3>3, <3>4 DEF MempoolStep
  <2>19. \A r \in db.tx : r \in db'.tx /\ r.tx # running => Kept(r)
    BY <2>11 DEF Settled
  <2>20. \A s \in db'.tx : s.tx = running => Whole(s)'
    BY <2>1, <2>2, <2>4, <2>5 DEF Whole, InProgress
  <2>21. WriteInv("mempool")'
    <3>1. IdsRight(job["mempool"])'
      BY <2>2, <2>7, <2>12 DEF IdsRight
    <3> QED
      BY <2>2, <2>5, <2>11, <2>12, <3>1 DEF WriteInv
  <2>22. MempoolInv'
    <3>1. /\ j.todo \in {<<>>, <<running>>}
          /\ \A c \in Coins(running) : \E s \in db.tx, o \in db.outs :
                s.tx = c.tx /\ o.id = s.id /\ o.at = c.at
      BY <2>4, <2>5 DEF MempoolInv
    <3>2. \A c \in Coins(running) : \E s \in db'.tx, o \in db'.outs :
            s.tx = c.tx /\ o.id = s.id /\ o.at = c.at
      <4> TAKE c \in Coins(running)
      <4>1. PICK s \in db.tx, o \in db.outs : s.tx = c.tx /\ o.id = s.id /\ o.at = c.at
        BY <3>1
      <4> QED
        BY <2>12, <4>1
    <3> QED
      BY <2>2, <2>3, <2>5, <2>12, <3>1, <3>2 DEF MempoolInv
  <2> QED
    BY <2>2, <2>11, <2>18, <2>19, <2>20, <2>21, <2>22, MempoolWork
<1> QED
  BY <1>1, <1>2 DEF Insert

\* Its links.
LEMMA MempoolLink ==
  ASSUME LedgerInv, Link("mempool")
  PROVE  LedgerInv'
<1> USE DEF LedgerInv, WorkInv
<1> DEFINE j == job["mempool"]
<1>1. "mempool" \in Handler
  BY DEF Handler
<1>2. Statement("mempool", "link", "balances", Linked(db, j.txs))
  BY DEF Link
<1>3. /\ Handles("mempool") /\ j.pc = "link" /\ job'["mempool"].pc = "balances"
      /\ db' = Linked(db, j.txs) /\ txTip' = txTip
      /\ job'["mempool"].todo = j.todo /\ job'["mempool"].txs = j.txs
  BY <1>1, <1>2, StatementHandles
<1>4. phase \in {"run", "undo"} /\ storedTip' = storedTip /\ running' = running
  BY <1>3 DEF Handles
<1>5. Filling("mempool") /\ ~Filling("mempool")'
  BY <1>3 DEF Filling
<1>6. /\ running # NoTx /\ j.txs = <<running>> /\ ToSet(j.txs) = {running} /\ storedTip \in Block
      /\ running \in Tx /\ running \in Queued
      /\ \A r \in db.tx : r.tx = running =>
              /\ r.height = Unconfirmed /\ ~Committed(r)
              /\ \A i \in db.ins : i.id = r.id => i.height = Unconfirmed
  BY <1>4, <1>5, MempoolJob
<1>7. \A r \in db.tx : r.tx = running => Filled(r) /\ Unlinked(r)
  BY <1>1, <1>3, <1>5, <1>6 DEF WriteInv
<1>8. \A c \in Coins(running) : \E s \in db.tx, o \in db.outs : s.tx = c.tx /\ o.id = s.id /\ o.at = c.at
  BY <1>5, <1>6 DEF MempoolInv
<1>9. /\ TableInv' /\ db'.tx = db.tx /\ db'.next = db.next
      /\ \A r \in db.tx : r.tx # running => Settled(r)
      /\ \A r \in db.tx : r.tx = running => Complete(r)'
      /\ \A p \in db'.outs : \E o \in db.outs : p.id = o.id /\ p.at = o.at /\ p.height = o.height
      /\ \A l \in db'.ins : \E i \in db.ins : l.id = i.id /\ l.at = i.at /\ l.height = i.height
      /\ \A l \in db'.ins, p \in db'.outs : Spends(l, p) =>
           \/ l.height = p.byHeight /\ \E r \in db.tx : r.id = l.id /\ r.tx \in ToSet(j.txs)
           \/ l \in db.ins /\ p \in db.outs
  <2>1. \A r \in db.tx : r.tx \in ToSet(j.txs) => Filled(r) /\ Unlinked(r) /\ ~Committed(r)
    BY <1>6, <1>7
  <2> QED
    BY <1>3, <1>4, <1>6, <1>8, <2>1, LinkTable
<1>10. running \notin AroundTx
  BY <1>4, <1>6, QueuedApart
<1>11. ASSUME NEW l \in db'.ins
       PROVE  \/ \E i \in db.ins : SameInput(i, l) /\ l.height = i.height
              \/ l.height = Unconfirmed /\ Mine(l)
  <2>1. PICK i \in db.ins : l.id = i.id /\ l.at = i.at /\ l.height = i.height
    BY <1>9
  <2>2. PICK r \in db.tx : r.id = i.id
    BY DEF TableInv, OwnInv, With
  <2>3. CASE r.tx = running
    BY <1>6, <1>9, <2>1, <2>2, <2>3 DEF Mine
  <2>4. CASE r.tx # running
    <3>1. PICK k \in db.ins : SameInput(k, l)
      BY <1>9, <2>1, <2>2, <2>4 DEF Settled, Kept
    <3>2. k = i
      BY <2>1, <3>1 DEF SameInput, TableInv, KeyInv
    <3> QED
      BY <2>1, <3>1, <3>2
  <2> QED
    BY <2>3, <2>4
<1>12. ASSUME NEW l \in db'.ins, NEW p \in db'.outs, Spends(l, p)
       PROVE  \/ l.height = Unconfirmed /\ Mine(l)
              \/ \E i \in db.ins, o \in db.outs :
                   Spends(i, o) /\ l.id = i.id /\ l.height = i.height /\ p.byHeight = o.byHeight
  <2>1. CASE l \in db.ins /\ p \in db.outs
    BY <1>12, <2>1
  <2>2. CASE \E r \in db.tx : r.id = l.id /\ r.tx = running
    <3>1. PICK i \in db.ins : l.id = i.id /\ l.height = i.height
      BY <1>9
    <3> QED
      BY <1>6, <1>9, <2>2, <3>1 DEF Mine
  <2> QED
    BY <1>6, <1>9, <1>12, <2>1, <2>2
<1>13. MempoolStep
  <2>1. db.next \in Nat
    BY DEF TableInv, ShapeInv
  <2>2. \A p \in db'.outs :
          \/ \E o \in db.outs : p.id = o.id /\ p.at = o.at /\ p.height = o.height
          \/ p.height = Unconfirmed /\ Mine(p)
    BY <1>9
  <2>3. \A r \in db.tx : r.tx \in AroundTx => Kept(r)
    BY <1>9, <1>10 DEF Settled
  <2> QED
    BY <1>9, <1>11, <1>12, <2>1, <2>2, <2>3 DEF MempoolStep, Spends
<1>14. \A r \in db.tx : r \in db'.tx /\ r.tx # running => Kept(r)
  BY <1>9 DEF Settled
<1>15. \A s \in db'.tx : s.tx = running => Whole(s)'
  BY <1>9 DEF Whole
<1>16. WriteInv("mempool")'
  BY <1>3, <1>5 DEF WriteInv
<1>17. MempoolInv'
  <2>1. j.todo \in {<<>>, <<running>>}
    BY <1>6 DEF MempoolInv
  <2> QED
    BY <1>3, <1>4, <1>5, <1>6, <2>1 DEF MempoolInv
<1> QED
  BY <1>3, <1>9, <1>13, <1>14, <1>15, <1>16, <1>17, MempoolWork

\* Rows of transactions come, with new ids; those there are stay, or get another
\* height when they are not committed.
LEMMA AddedTable ==
  ASSUME TableInv, storedTip \in Block, storedTip' = storedTip,
         db'.outs = db.outs, db'.ins = db.ins, ShapeInv', KeyInv', RivalInv',
         \A s \in db'.tx :
           \/ \E r \in db.tx : s.id = r.id /\ s.tx = r.tx /\ (Committed(r) \/ Committed(s) => s = r)
           \/ s.id > db.next /\ ~Committed(s),
         \A r \in db.tx : \E s \in db'.tx : s.id = r.id /\ s.tx = r.tx
  PROVE  TableInv' /\ \A r \in db.tx : Settled(r)
<1> USE DEF TableInv
<1>1. /\ H' = H /\ (\A x : Committed(x)' <=> Committed(x))
      /\ \A r \in db.tx : r.id \in Nat /\ r.id <= db.next /\ db.next \in Nat
  BY DEF H, Committed, ShapeInv
<1>2. \A r \in db.tx : Settled(r)
  BY DEF Settled, Kept, SameInput
<1>3. ASSUME NEW s \in db'.tx, NEW r \in db.tx, s.id = r.id
      PROVE  s.tx = r.tx /\ (Committed(r) \/ Committed(s) => s = r)
  <2>1. PICK q \in db.tx : s.id = q.id /\ s.tx = q.tx /\ (Committed(q) \/ Committed(s) => s = q)
    BY <1>1, <1>3
  <2>2. q = r
    BY <1>3, <2>1 DEF KeyInv
  <2> QED
    BY <2>1, <2>2
<1>4. OwnInv'
  <2>1. ASSUME NEW p, NEW r \in db.tx, With(p, r)
        PROVE  \E s \in db'.tx : With(p, s)' /\ s.tx = r.tx
    <3>1. PICK s \in db'.tx : s.id = r.id /\ s.tx = r.tx
      OBVIOUS
    <3>2. Committed(p) => Committed(r)
      BY <2>1 DEF With, Committed
    <3> QED
      BY <1>1, <1>3, <2>1, <3>1, <3>2 DEF With
  <2>2. ASSUME NEW p \in db.outs PROVE \E s \in db'.tx : With(p, s)' /\ p.at \in DOMAIN Pays[s.tx]
    <3>1. PICK r \in db.tx : With(p, r) /\ p.at \in DOMAIN Pays[r.tx]
      BY DEF OwnInv
    <3> QED
      BY <2>1, <3>1
  <2>3. ASSUME NEW p \in db.ins PROVE \E s \in db'.tx : With(p, s)' /\ p.at \in DOMAIN Inputs[s.tx]
    <3>1. PICK r \in db.tx : With(p, r) /\ p.at \in DOMAIN Inputs[r.tx]
      BY DEF OwnInv
    <3> QED
      BY <2>1, <3>1
  <2> QED
    BY <2>2, <2>3 DEF OwnInv
<1>5. LinkInv'
  <2>1. /\ \A i \in db.ins : i.id \in 0 .. db.next /\ i.from \in 0 .. db.next
        /\ \A o \in db.outs : o.id \in 0 .. db.next /\ o.by \in 0 .. db.next
    <3>1. \A x \in db.ins \cup db.outs : \E r \in db.tx : r.id = x.id
      BY DEF OwnInv, With
    <3> QED
      BY <1>1, <3>1 DEF ShapeInv
  <2>2. ASSUME NEW s \in db'.tx, s.id \in 0 .. db.next PROVE \E r \in db.tx : r.id = s.id /\ r.tx = s.tx
    <3>1. db.next \in Nat
      BY DEF ShapeInv
    <3>2. ~(s.id > db.next)
      BY <2>2, <3>1
    <3> QED
      BY <3>2
  <2>3. ASSUME NEW i \in db.ins, NEW r \in db'.tx, NEW s \in db'.tx, r.id = i.id, s.id = i.from
        PROVE  Inputs[r.tx][i.at].tx = s.tx /\ Inputs[r.tx][i.at].at = i.fromAt
    <3>1. PICK q \in db.tx : q.id = r.id /\ q.tx = r.tx
      BY <2>1, <2>2, <2>3
    <3>2. PICK u \in db.tx : u.id = s.id /\ u.tx = s.tx
      BY <2>1, <2>2, <2>3
    <3> QED
      BY <2>3, <3>1, <3>2 DEF LinkInv
  <2>4. ASSUME NEW o \in db.outs, NEW r \in db'.tx, NEW s \in db'.tx, r.id = o.by, s.id = o.id
        PROVE  \E n \in DOMAIN Inputs[r.tx] : Inputs[r.tx][n].tx = s.tx /\ Inputs[r.tx][n].at = o.at
    <3>1. PICK q \in db.tx : q.id = r.id /\ q.tx = r.tx
      BY <2>1, <2>2, <2>4
    <3>2. PICK u \in db.tx : u.id = s.id /\ u.tx = s.tx
      BY <2>1, <2>2, <2>4
    <3> QED
      BY <2>4, <3>1, <3>2 DEF LinkInv
  <2> QED
    BY <2>3, <2>4 DEF LinkInv
<1>6. SpentInv'
  BY <1>1 DEF SpentInv, Spends
<1>7. ChainInv'
  <2>1. \A r : Committed(r) => (r \in db'.tx <=> r \in db.tx)
    <3>1. ASSUME NEW r \in db'.tx, Committed(r) PROVE r \in db.tx
      BY <3>1
    <3>2. ASSUME NEW r \in db.tx, Committed(r) PROVE r \in db'.tx
      <4>1. PICK s \in db'.tx : s.id = r.id
        OBVIOUS
      <4> QED
        BY <1>3, <3>2, <4>1
    <3> QED
      BY <3>1, <3>2
  <2>2. {q \in db'.tx : Committed(q)'} = {q \in db.tx : Committed(q)}
    BY <1>1, <2>1
  <2>3. ASSUME NEW r \in db'.tx, Committed(r) PROVE Complete(r)'
    <3>1. r \in db.tx /\ Complete(r)
      BY <2>1, <2>3 DEF ChainInv
    <3> QED
      BY <1>2, <3>1, KeptComplete DEF Settled
  <2>4. ChainTxs(storedTip)' = ChainTxs(storedTip)
    BY DEF ChainTxs
  <2> QED
    BY <1>1, <2>2, <2>3, <2>4 DEF ChainInv
<1> QED
  BY <1>2, <1>4, <1>5, <1>6, <1>7

\* The tables with its row.
LEMMA MempoolCreated ==
  ASSUME ShapeInv, NEW t \in Tx, Named(db, {t}) = {}, db' = Created(db, <<t>>, Unconfirmed)
  PROVE  /\ DOMAIN db' = DOMAIN db /\ db'.outs = db.outs /\ db'.ins = db.ins
         /\ db'.next = db.next + 1
         /\ db'.tx = db.tx \cup {[id |-> db.next + 1, tx |-> t, height |-> Unconfirmed, index |-> Unconfirmed]}
         /\ \A r \in db.tx : r.tx # t
<1> DEFINE ts == <<t>>
           new == Picked(ts, {n \in DOMAIN ts : Named(db, {ts[n]}) = {}})
           rows == Update(db.tx, LAMBDA r : r.tx \in ToSet(ts),
                          LAMBDA r : [r EXCEPT !.height = Unconfirmed, !.index = IndexOf(r.tx, Unconfirmed)])
           row(n) == [id |-> db.next + n, tx |-> new[n], height |-> Unconfirmed,
                      index |-> IndexOf(new[n], Unconfirmed)]
<1>1. ts \in Seq(Tx) /\ DOMAIN ts = {1} /\ ts[1] = t /\ ToSet(ts) = {t} /\ Len(ts) = 1
  BY DEF ToSet
<1>2. new = ts
  <2>1. {n \in DOMAIN ts : Named(db, {ts[n]}) = {}} = DOMAIN ts
    BY <1>1
  <2> QED
    BY <1>1, <2>1, PickedAll
<1>3. db' = [db EXCEPT !.tx = rows \cup {row(n) : n \in DOMAIN new}, !.next = @ + Len(new)]
  BY DEF Created
<1>4. \A r \in db.tx : r.tx # t
  BY DEF Named
<1>5. rows = db.tx
  <2>1. {IF r.tx \in ToSet(ts)
         THEN [r EXCEPT !.height = Unconfirmed, !.index = IndexOf(r.tx, Unconfirmed)] ELSE r : r \in db.tx} = rows
    BY Zenon DEF Update
  <2> HIDE DEF rows
  <2> QED
    BY <1>1, <1>4, <2>1
<1> HIDE DEF rows, new
<1>6. IndexOf(t, Unconfirmed) = Unconfirmed
  BY DEF IndexOf
<1> HIDE DEF ts
<1>7. {row(n) : n \in DOMAIN new}
        = {[id |-> db.next + 1, tx |-> t, height |-> Unconfirmed, index |-> Unconfirmed]}
  BY <1>1, <1>2, <1>6
<1> HIDE DEF row
<1>8. /\ db'.tx = rows \cup {row(n) : n \in DOMAIN new} /\ db'.next = db.next + Len(new)
      /\ DOMAIN db' = DOMAIN db /\ db'.outs = db.outs /\ db'.ins = db.ins
  BY <1>3 DEF ShapeInv
<1> QED
  BY <1>1, <1>2, <1>4, <1>5, <1>7, <1>8

\* Its row.
LEMMA MempoolCreate ==
  ASSUME LedgerInv, CreateTransactions("mempool")
  PROVE  LedgerInv'
<1> USE DEF LedgerInv, WorkInv
<1> DEFINE j == job["mempool"]
           refused == Named(db, ToSet(j.txs)) # {}
<1>0. "mempool" # "block" /\ "mempool" \in Handler
  BY DEF Handler
<1>1. /\ phase \in {"run", "undo"} /\ j.pc = "replace" /\ j.todo = <<>>
      /\ \/ /\ ~refused
            /\ db' = Created(db, j.txs, Unconfirmed)
            /\ job' = [job EXCEPT !["mempool"].pc = "witness", !["mempool"].ids = <<db.next + 1>>]
            /\ UNCHANGED <<tips, process, queue, overlooked, counters>>
         \/ Refused("mempool", "replace", "duplicate")
  BY <1>0 DEF CreateTransactions, Writing, Height
<1>2. CASE Refused("mempool", "replace", "duplicate")
  BY <1>2, LedgerStop DEF Refused
<1>3. CASE ~Refused("mempool", "replace", "duplicate")
  <2>1. DOMAIN job = Handler /\ DOMAIN job["mempool"] = JobFields
    BY <1>0 DEF ProcessInv, JobFields
  <2>2. /\ DOMAIN job' = Handler /\ (\A v \in Handler : v # "mempool" => job'[v] = job[v])
        /\ DOMAIN job'["mempool"] = JobFields
        /\ job'["mempool"].pc = "witness" /\ job'["mempool"].ids = <<db.next + 1>>
        /\ job'["mempool"].txs = j.txs /\ job'["mempool"].found = j.found
        /\ job'["mempool"].todo = j.todo
    BY <1>0, <1>1, <1>3, <2>1 DEF JobFields
  <2>3. UNCHANGED <<storedTip, txTip, phase, step, synced, tip, block, waiting, running>>
    BY <1>1, <1>3 DEF tips, process, queue
  <2>4. Handles("mempool")
    BY <1>1, <2>2, <2>3 DEF Handles
  <2>5. running # NoTx /\ storedTip \in Block /\ H \in Nat /\ H < Unconfirmed /\ Unconfirmed \in Nat
    BY <1>0, <1>1, HandlerPlace
  <2>6. running \in Relayed /\ running \in Tx /\ running \in Queued
    BY <2>5, QueuedType
  <2>7. j.txs = <<running>>
    BY <2>5 DEF MempoolInv
  <2>8. ToSet(<<running>>) = {running}
    BY DEF ToSet
  <2>9. Named(db, {running}) = {} /\ db' = Created(db, <<running>>, Unconfirmed)
    BY <1>1, <1>3, <2>7, <2>8
  <2> DEFINE row == [id |-> db.next + 1, tx |-> running, height |-> Unconfirmed, index |-> Unconfirmed]
  <2>10. /\ DOMAIN db' = DOMAIN db /\ db'.outs = db.outs /\ db'.ins = db.ins
         /\ db'.next = db.next + 1 /\ db'.tx = db.tx \cup {row}
         /\ \A r \in db.tx : r.tx # running
    BY <2>6, <2>9, MempoolCreated DEF TableInv
  <2>11. /\ row.id = db.next + 1 /\ row.tx = running /\ row.height = Unconfirmed /\ row.index = Unconfirmed
         /\ DOMAIN row = {"id", "tx", "height", "index"}
    OBVIOUS
  <2> HIDE DEF row
  <2>12. running \notin AllGenerated /\ AllGenerated' = AllGenerated
    BY <2>6, RelayAssumption DEF AllGenerated
  <2>13. ShapeInv'
    <3>1. ShapeInv
      BY DEF TableInv
    <3>2. db.next \in Nat /\ db'.next \in Nat /\ row.id \in 1 .. db'.next /\ 1 .. db.next \subseteq 1 .. db'.next
          /\ 0 .. db.next \subseteq 0 .. db'.next /\ Unconfirmed \in 0 .. Unconfirmed
      BY <2>5, <2>10, <2>11, <3>1 DEF ShapeInv
    <3>3. \A s \in db'.tx :
            /\ DOMAIN s = {"id", "tx", "height", "index"}
            /\ s.id \in 1 .. db'.next /\ s.tx \in Tx /\ s.height \in 0 .. Unconfirmed /\ s.index \in Nat
            /\ s.height = Unconfirmed => s.index = Unconfirmed /\ s.tx \notin AllGenerated
      <4> TAKE s \in db'.tx
      <4>1. CASE s = row
        BY <2>5, <2>6, <2>11, <2>12, <3>2, <4>1
      <4>2. CASE s \in db.tx
        BY <3>1, <3>2, <4>2 DEF ShapeInv
      <4> QED
        BY <2>10, <4>1, <4>2
    <3>4. /\ \A o \in db'.outs :
               /\ DOMAIN o = {"id", "at", "height", "address", "by", "byAt", "byHeight"}
               /\ o.height \in 0 .. Unconfirmed /\ o.by \in 0 .. db'.next
               /\ o.byHeight \in 0 .. Unconfirmed \cup {Null}
          /\ \A i \in db'.ins :
               /\ DOMAIN i = {"id", "at", "height", "address", "from", "fromAt"}
               /\ i.height \in 0 .. Unconfirmed /\ i.from \in 0 .. db'.next
      BY <2>10, <3>1, <3>2 DEF ShapeInv
    <3> QED
      BY <2>10, <2>12, <3>1, <3>2, <3>3, <3>4 DEF ShapeInv
  <2>14. \A r \in db.tx : r.id # row.id /\ r.tx # row.tx
    BY <2>10, <2>11 DEF TableInv, ShapeInv
  <2>15. KeyInv'
    BY <2>10, <2>14 DEF TableInv, KeyInv
  <2>16. RivalInv'
    <3>1. \A r \in db.tx : Coins(r.tx) \cap Coins(running) = {}
      BY <1>1, <2>5, <2>10 DEF MempoolInv
    <3> QED
      BY <2>10, <2>11, <3>1 DEF TableInv, RivalInv
  <2>17. TableInv' /\ \A r \in db.tx : Settled(r)
    <3>1. /\ row.id > db.next /\ ~Committed(row)
      BY <2>5, <2>11 DEF Committed, TableInv, ShapeInv
    <3>2. \A s \in db'.tx :
           \/ \E r \in db.tx : s.id = r.id /\ s.tx = r.tx /\ (Committed(r) \/ Committed(s) => s = r)
           \/ s.id > db.next /\ ~Committed(s)
      BY <2>10, <3>1
    <3>3. \A r \in db.tx : \E s \in db'.tx : s.id = r.id /\ s.tx = r.tx
      BY <2>10
    <3> QED
      BY <2>3, <2>5, <2>10, <2>13, <2>15, <2>16, <3>2, <3>3, AddedTable
  <2>18. MempoolStep
    <3>1. db.next \in Nat /\ db'.next >= db.next /\ db'.next \in Nat /\ row.id > db.next
      BY <2>10, <2>11 DEF TableInv, ShapeInv
    <3>2. \A s \in db'.tx : s \in db.tx \/ (s.tx = running /\ s.height = Unconfirmed /\ s.id > db.next)
      BY <2>10, <2>11, <3>1
    <3>3. \A i \in db.ins : SameInput(i, i)
      BY DEF SameInput
    <3>4. \A i \in db'.ins, o \in db'.outs : Spends(i, o)' => Spends(i, o)
      BY DEF Spends
    <3>5. \A r \in db.tx : r \in db'.tx /\ Kept(r)
      BY <2>10, <2>17 DEF Settled
    <3> QED
      BY <2>10, <3>1, <3>2, <3>3, <3>4, <3>5 DEF MempoolStep
  <2>19. \A s \in db'.tx : s.tx = running => Whole(s)'
    BY <1>0, <2>2, <2>7, <2>8 DEF Whole, InProgress, Filling
  <2>20. WriteInv("mempool")'
    <3>1. ASSUME NEW s \in db'.tx, s.tx = running PROVE Empty(s)'
      <4>1. s = row
        BY <2>10, <3>1
      <4>2. \A x \in db.outs \cup db.ins : \E r \in db.tx : r.id = x.id
        BY DEF TableInv, OwnInv, With
      <4> QED
        BY <2>10, <2>14, <4>1, <4>2 DEF Empty
    <3>2. IdsRight(job["mempool"])'
      <4>1. DOMAIN <<db.next + 1>> = DOMAIN <<running>> /\ DOMAIN <<running>> = {1}
        OBVIOUS
      <4>2. <<db.next + 1>>[1] = db.next + 1 /\ <<running>>[1] = running
        OBVIOUS
      <4>3. row \in db'.tx
        BY <2>10
      <4> QED
        BY <2>2, <2>7, <2>11, <4>1, <4>2, <4>3 DEF IdsRight
    <3> QED
      BY <2>2, <2>7, <2>8, <3>1, <3>2 DEF WriteInv
  <2>21. MempoolInv'
    <3>1. \A c \in Coins(running) : \E s \in db.tx, o \in db.outs : s.tx = c.tx /\ o.id = s.id /\ o.at = c.at
      BY <1>1, <2>5 DEF MempoolInv
    <3>2. \A c \in Coins(running) : \E s \in db'.tx, o \in db'.outs : s.tx = c.tx /\ o.id = s.id /\ o.at = c.at
      <4> TAKE c \in Coins(running)
      <4>1. PICK s \in db.tx, o \in db.outs : s.tx = c.tx /\ o.id = s.id /\ o.at = c.at
        BY <3>1
      <4> QED
        BY <2>10, <4>1
    <3>3. \A s \in db'.tx : s.tx = running => s.height = Unconfirmed
      BY <2>10, <2>11
    <3> QED
      BY <1>1, <2>2, <2>3, <2>7, <3>2, <3>3 DEF MempoolInv
  <2>22. \A r \in db.tx : r \in db'.tx /\ r.tx # running => Kept(r)
    BY <2>17 DEF Settled
  <2> QED
    BY <2>4, <2>17, <2>18, <2>19, <2>20, <2>21, <2>22, MempoolWork
<1> QED
  BY <1>2, <1>3

\* An input that is not the mempool's is of a transaction of the blocks.
LEMMA AroundInputs ==
  ASSUME LedgerInv, phase \in {"run", "undo"}, NEW i \in db.ins, NEW r \in db.tx, r.id = i.id,
         i.height # Unconfirmed
  PROVE  r.tx \in AroundTx
<1> USE DEF LedgerInv, WorkInv
<1>1. storedTip \in Block /\ ChainTx \subseteq AroundTx
  BY AroundChain DEF ProcessInv
<1>2. CASE phase = "undo"
  BY <1>2 DEF UndoInv
<1>3. CASE phase = "run"
  <2>1. CASE job["block"].pc \in {"spend", "lower", "replace"} /\ r.id \in job["block"].found
    <3>1. block # NoBlock
      BY <1>3, <2>1 DEF ProcessInv
    <3>2. PICK q \in db.tx : q.id = r.id /\ q.tx \in BlockTx
      BY <1>3, <2>1, <3>1 DEF BlockInv, BlockFound
    <3>3. q = r
      BY <3>2 DEF TableInv, KeyInv
    <3> QED
      BY <1>3, <3>1, <3>2, <3>3, AroundChain
  <2>2. CASE ~(job["block"].pc \in {"spend", "lower", "replace"} /\ r.id \in job["block"].found)
    <3>1. r.height # Unconfirmed
      BY <1>3, <2>2 DEF HeightInv
    <3>2. CASE Committed(r)
      BY <1>1, <3>2, CommittedRows DEF TableInv
    <3>3. CASE ~Looking /\ r.tx \in BlockTx
      <4>1. block # NoBlock
        BY <1>3, <3>3 DEF ProcessInv, Looking
      <4> QED
        BY <1>3, <3>3, <4>1, AroundChain
    <3> QED
      BY <1>3, <3>1, <3>2, <3>3 DEF HeightInv
  <2> QED
    BY <2>1, <2>2
<1> QED
  BY <1>2, <1>3

\* What is neither complete nor the mempool's is of the blocks.
LEMMA AroundWhole ==
  ASSUME LedgerInv, phase \in {"run", "undo"}, ~Filling("mempool"), NEW r \in db.tx
  PROVE  Complete(r) \/ r.tx \in AroundTx
<1> USE DEF LedgerInv, WorkInv
<1>1. Whole(r)
  BY DEF CompleteInv
<1>2. CASE InProgress(r.tx)
  <2>1. Filling("block") /\ r.tx \in ToSet(job["block"].txs)
    BY <1>2 DEF InProgress, Handler
  <2>2. "block" \in Handler /\ job["block"].pc # "none" /\ job["block"].pc # "find"
    BY <2>1 DEF Handler, Filling
  <2>3. phase = "run" /\ block # NoBlock
    BY <2>2, HandlerPlace
  <2>4. r.tx \in BlockTx
    BY <2>1, <2>2, <2>3, JobBlock
  <2> QED
    BY <2>3, <2>4, AroundChain
<1>3. CASE phase = "undo" /\ ~Committed(r) /\ r.tx \in AllGenerated
  <2>1. [tx |-> r.tx, height |-> r.height, index |-> r.index] \in ChainTxs(block)
    BY <1>3 DEF UndoInv, TableInv, ShapeInv
  <2>2. block \in Block /\ block # NoBlock
    BY <1>3, TreeAssumption DEF ProcessInv
  <2> QED
    BY <2>1, <2>2, ChainTxsType DEF AroundTx, Around
<1> QED
  BY <1>1, <1>2, <1>3 DEF Whole

\* What its rivals leave: the chain and the block, and what it rests on.
LEMMA MempoolSpares ==
  ASSUME LedgerInv, Replace("mempool")
  PROVE  /\ running \in Tx /\ db' = Replaced(db, running)
         /\ \E Keep : /\ Spares(running, Keep) /\ AroundTx \subseteq Keep
                      /\ \A c \in Coins(running) : c.tx \in Keep
<1> USE DEF LedgerInv, WorkInv
<1> DEFINE j == job["mempool"]
<1>1. /\ phase \in {"run", "undo"} /\ j.pc = "replace" /\ j.todo # <<>>
      /\ db' = Replaced(db, Head(j.todo))
  BY DEF Replace, Writing
<1>2. running # NoTx /\ storedTip \in Block
  BY <1>1, HandlerPlace DEF Handler
<1>3. running \in Relayed /\ running \in Tx /\ running \in Queued
  BY <1>2, QueuedType
<1>4. j.todo = <<running>>
  BY <1>1, <1>2 DEF MempoolInv
<1>5. db' = Replaced(db, running)
  BY <1>1, <1>4
<1>6. /\ AroundTx \subseteq Tx /\ ChainTx \subseteq AroundTx
      /\ \A s \in AroundTx : \A o \in Coins(s) : o.tx \in AroundTx
      /\ \A s \in AroundTx : Coins(s) \cap Coins(running) = {}
  BY <1>1, <1>3, AroundChain, QueuedApart
<1>7. PICK A \in SUBSET (Tx \ {running}) :
        /\ \A s \in A \cup {running} : \A o \in Coins(s) : o.tx \in A
        /\ \A s \in A : Coins(s) \cap Coins(running) = {}
  BY <1>3, RelayAssumption
<1> DEFINE Keep == AroundTx \cup A
<1>8. \A r \in db.tx : r.tx \in Keep =>
        /\ Coins(r.tx) \cap Coins(running) = {}
        /\ \A c \in Coins(r.tx) : \A s \in db.tx : s.tx = c.tx => s.tx \in Keep
  BY <1>6, <1>7
<1>9. \A r \in db.tx : Committed(r) => r.tx \in Keep
  BY <1>2, <1>6, CommittedRows DEF TableInv
<1>10. \A i \in db.ins : \A r \in db.tx : r.id = i.id /\ i.height # Unconfirmed => r.tx \in Keep
  BY <1>1, AroundInputs
<1>11. AroundTx \subseteq Keep /\ \A c \in Coins(running) : c.tx \in Keep
  BY <1>7
<1> HIDE DEF Keep
<1>12. Spares(running, Keep)
  BY <1>8, <1>9, <1>10 DEF Spares
<1> QED
  BY <1>3, <1>5, <1>11, <1>12

\* The removal of its rivals.
LEMMA MempoolReplace ==
  ASSUME LedgerInv, Replace("mempool")
  PROVE  LedgerInv'
<1> USE DEF LedgerInv, WorkInv
<1> DEFINE j == job["mempool"]
<1>0. "mempool" # "block" /\ "mempool" \in Handler
  BY DEF Handler
<1>1. /\ phase \in {"run", "undo"} /\ j.pc = "replace" /\ j.todo # <<>>
      /\ db' = Replaced(db, Head(j.todo))
      /\ job' = [job EXCEPT !["mempool"].todo = Tail(@)]
      /\ UNCHANGED <<tips, process, queue, overlooked, counters>>
  BY DEF Replace, Writing
<1>2. DOMAIN job = Handler /\ DOMAIN job["mempool"] = JobFields
  BY <1>0 DEF ProcessInv, JobFields
<1>3. running # NoTx /\ storedTip \in Block
  BY <1>0, <1>1, HandlerPlace
<1>4. running \in Relayed /\ running \in Tx /\ running \in Queued
  BY <1>3, QueuedType
<1>5. j.txs = <<running>> /\ j.todo = <<running>>
  BY <1>1, <1>3 DEF MempoolInv
<1>6. Head(j.todo) = running /\ Tail(j.todo) = <<>>
  BY <1>5
<1>7. /\ DOMAIN job' = Handler /\ (\A v \in Handler : v # "mempool" => job'[v] = job[v])
      /\ DOMAIN job'["mempool"] = JobFields
      /\ job'["mempool"].pc = "replace"
      /\ job'["mempool"].txs = j.txs /\ job'["mempool"].found = j.found
      /\ job'["mempool"].todo = <<>>
  BY <1>0, <1>1, <1>2, <1>6 DEF JobFields
<1>8. UNCHANGED <<storedTip, txTip, phase, step, synced, tip, block, waiting, running>>
  BY <1>1 DEF tips, process, queue
<1>9. Handles("mempool")
  BY <1>1, <1>7, <1>8 DEF Handles
<1>10. /\ AroundTx \subseteq Tx /\ ChainTx \subseteq AroundTx
       /\ \A s \in AroundTx : \A o \in Coins(s) : o.tx \in AroundTx
       /\ \A s \in AroundTx : Coins(s) \cap Coins(running) = {}
  BY <1>1, <1>4, AroundChain, QueuedApart
<1>11. PICK Keep : /\ Spares(running, Keep) /\ AroundTx \subseteq Keep
                   /\ \A c \in Coins(running) : c.tx \in Keep
  BY MempoolSpares
<1>12. Outpoints(running) = Coins(running)
  BY <1>4, RelayAssumption
<1>16. \A c \in Coins(running) : c.tx \in Keep
  BY <1>11
<1>17. AroundTx \subseteq Keep
  BY <1>11
<1>18. /\ TableInv' /\ Fewer
       /\ \A r \in db.tx : r.tx \in Keep => r \in db'.tx
       /\ (\A n \in DOMAIN Inputs[running] : \E s \in db.tx : s.tx = Inputs[running][n].tx) =>
            \A r \in db'.tx : Complete(r) => Coins(r.tx) \cap Coins(running) = {}
  BY <1>1, <1>3, <1>4, <1>6, <1>8, <1>11, ReplacedTable
<1>19. \A c \in Coins(running) : \E s \in db.tx, o \in db.outs :
         s.tx = c.tx /\ o.id = s.id /\ o.at = c.at
  BY <1>1, <1>3 DEF MempoolInv
<1>20. \A r \in db'.tx : Complete(r) => Coins(r.tx) \cap Coins(running) = {}
  <2>1. \A n \in DOMAIN Inputs[running] : Inputs[running][n] \in Coins(running)
    BY <1>12 DEF Outpoints, ToSet
  <2>2. \A n \in DOMAIN Inputs[running] : \E s \in db.tx : s.tx = Inputs[running][n].tx
    BY <1>19, <2>1
  <2> QED
    BY <1>18, <2>2
<1>21. \A s \in db'.tx : s \in db.tx /\ Kept(s)
  BY <1>18 DEF Fewer
<1>22. MempoolStep
  <2>1. db'.next = db.next /\ db.next \in Nat
    BY <1>18 DEF Fewer, TableInv, ShapeInv
  <2>2. \A i \in db.ins : SameInput(i, i)
    BY DEF SameInput
  <2>3. \A p \in db'.outs : \E o \in db.outs :
          p.id = o.id /\ p.at = o.at /\ p.height = o.height /\ p.byHeight = o.byHeight
    BY <1>18 DEF Fewer
  <2>4. db'.ins \subseteq db.ins
    BY <1>18 DEF Fewer
  <2>5. ASSUME NEW i \in db'.ins, NEW p \in db'.outs, Spends(i, p)'
        PROVE  \E l \in db.ins, o \in db.outs :
                 Spends(l, o) /\ i.id = l.id /\ i.height = l.height /\ p.byHeight = o.byHeight
    <3>1. PICK o \in db.outs : p.id = o.id /\ p.at = o.at /\ p.byHeight = o.byHeight
      BY <2>3
    <3> QED
      BY <2>4, <2>5, <3>1 DEF Spends
  <2>6. \A r \in db.tx : r.tx \in AroundTx => r \in db'.tx /\ Kept(r)
    BY <1>17, <1>18, <1>21
  <2> QED
    BY <1>21, <2>1, <2>2, <2>3, <2>4, <2>5, <2>6 DEF MempoolStep
<1>23. ~Filling("mempool") /\ ~Filling("mempool")'
  BY <1>1, <1>7 DEF Filling
<1>24. \A s \in db'.tx : s.tx = running => Whole(s)'
  <2> SUFFICES ASSUME NEW s \in db'.tx, s.tx = running PROVE Whole(s)'
    OBVIOUS
  <2>1. s \in db.tx /\ Kept(s)
    BY <1>21
  <2>2. Whole(s)
    BY <1>1, <2>1 DEF CompleteInv
  <2>3. ASSUME InProgress(s.tx) PROVE InProgress(s.tx)'
    BY <1>7, <1>23, <2>3 DEF InProgress, Filling, Handler
  <2> QED
    BY <1>8, <2>1, <2>2, <2>3, WholeKept
<1>25. WriteInv("mempool")'
  BY <1>7, <1>23 DEF WriteInv
<1>26. MempoolInv'
  <2>1. ASSUME NEW c \in Coins(running)
        PROVE  \E s \in db'.tx, p \in db'.outs : s.tx = c.tx /\ p.id = s.id /\ p.at = c.at
    <3>1. PICK s \in db.tx, o \in db.outs : s.tx = c.tx /\ o.id = s.id /\ o.at = c.at
      BY <1>19
    <3>2. s \in db'.tx /\ Kept(s)
      BY <1>16, <1>18, <1>21, <3>1
    <3>3. PICK p \in db'.outs : p.id = o.id /\ p.at = o.at
      BY <3>1, <3>2 DEF Kept
    <3> QED
      BY <3>1, <3>2, <3>3
  <2>2. ASSUME NEW s \in db'.tx, s.tx # running PROVE Coins(s.tx) \cap Coins(running) = {}
    <3>1. Complete(s) \/ s.tx \in AroundTx
      BY <1>1, <1>21, <1>23, AroundWhole
    <3> QED
      BY <1>10, <1>20, <3>1
  <2> QED
    BY <1>5, <1>7, <1>8, <1>23, <2>1, <2>2 DEF MempoolInv
<1>27. \A r \in db.tx : r \in db'.tx /\ r.tx # running => Kept(r)
  BY <1>21
<1> QED
  BY <1>9, <1>18, <1>22, <1>24, <1>25, <1>26, <1>27, MempoolWork

\* As many outputs in the table as it has inputs are all those it spends.
LEMMA AllSources ==
  ASSUME TableInv, storedTip \in Block, NEW t \in Tx, Cardinality(Sources(db, t)) = Len(Inputs[t])
  PROVE  \A c \in Coins(t) : \E s \in db.tx, o \in db.outs : s.tx = c.tx /\ o.id = s.id /\ o.at = c.at
<1> USE DEF TableInv
<1> DEFINE S == Sources(db, t)
           D == DOMAIN Inputs[t]
           P(o, n) == Inputs[t][n].at = o.at /\ \E s \in db.tx : s.tx = Inputs[t][n].tx /\ s.id = o.id
           f == [o \in S |-> CHOOSE n \in D : P(o, n)]
<1>1. Inputs[t] \in Seq([tx : Tx \cup {NoTx}, at : Nat])
  BY LedgerAssumption
<1>2. D = 1 .. Len(Inputs[t]) /\ Len(Inputs[t]) \in Nat
  BY <1>1
<1>3. IsFiniteSet(D) /\ Cardinality(D) = Len(Inputs[t])
  BY <1>2, FS_Interval
<1>4. \A o \in S : o \in db.outs /\ \E n \in D : P(o, n)
  BY DEF Sources, Ids, Named
<1>5. ASSUME NEW o \in S, NEW p \in S, NEW n \in D, P(o, n), P(p, n) PROVE o = p
  <2>1. PICK s \in db.tx : s.tx = Inputs[t][n].tx /\ s.id = o.id
    BY <1>5
  <2>2. PICK u \in db.tx : u.tx = Inputs[t][n].tx /\ u.id = p.id
    BY <1>5
  <2>3. s = u
    BY <2>1, <2>2 DEF KeyInv
  <2> QED
    BY <1>4, <1>5, <2>1, <2>2, <2>3 DEF KeyInv
<1> HIDE DEF S, P
<1>6. \A o \in S : f[o] \in D /\ P(o, f[o])
  BY <1>4
<1> HIDE DEF D
<1>7. f \in Injection(S, D)
  <2>1. f \in [S -> D]
    BY <1>6
  <2>2. \A o, p \in S : f[o] = f[p] => o = p
    BY <1>5, <1>6
  <2> HIDE DEF f
  <2> QED
    BY <2>1, <2>2 DEF Injection, IsInjective
<1>8. f \in Surjection(S, D)
  <2>1. Cardinality(S) = Cardinality(D)
    BY <1>3 DEF S
  <2> HIDE DEF f
  <2> QED
    BY <1>3, <1>7, <2>1, FS_Injection
<1>9. \A n \in D : \E o \in S : f[o] = n
  <2> HIDE DEF f
  <2> QED
    BY <1>8 DEF Surjection
<1> HIDE DEF f
<1>10. ASSUME NEW c \in Coins(t)
       PROVE  \E s \in db.tx, o \in db.outs : s.tx = c.tx /\ o.id = s.id /\ o.at = c.at
  <2>1. PICK n \in D : c = Inputs[t][n]
    BY CoinsType DEF D
  <2>2. PICK o \in S : f[o] = n
    BY <1>9
  <2>3. P(o, n) /\ o \in db.outs
    BY <1>4, <1>6, <2>2
  <2> QED
    BY <2>1, <2>3 DEF P
<1> QED
  BY <1>10

\* A transaction is valid when every output it spends is there.
LEMMA LedgerValidate ==
  ASSUME LedgerInv, Validate
  PROVE  LedgerInv'
<1> USE DEF LedgerInv, WorkInv
<1> DEFINE j == job["mempool"]
           t == j.txs[1]
           valid == Cardinality(Sources(db, t)) = Len(Inputs[t])
<1>0. "mempool" # "block" /\ "mempool" \in Handler
  BY DEF Handler
<1>1. /\ phase \in {"run", "undo"} /\ j.pc = "validate" /\ db' = db
      /\ job' = [job EXCEPT !["mempool"].pc = IF valid THEN "replace" ELSE "done"]
      /\ UNCHANGED <<tips, process, queue, overlooked, counters>>
  BY DEF Validate, Writing, Goes
<1>2. DOMAIN job = Handler /\ DOMAIN job["mempool"] = JobFields
  BY <1>0 DEF ProcessInv, JobFields
<1>3. running # NoTx /\ storedTip \in Block
  BY <1>0, <1>1, HandlerPlace
<1>4. running \in Tx
  BY <1>3, QueuedType
<1>5. j.txs = <<running>> /\ j.todo \in {<<>>, <<running>>} /\ t = running
  BY <1>3 DEF MempoolInv
<1> HIDE DEF t
<1>6. /\ DOMAIN job' = Handler /\ (\A v \in Handler : v # "mempool" => job'[v] = job[v])
      /\ DOMAIN job'["mempool"] = JobFields
      /\ job'["mempool"].pc = IF valid THEN "replace" ELSE "done"
      /\ job'["mempool"].txs = j.txs /\ job'["mempool"].found = j.found
      /\ job'["mempool"].todo = j.todo
  <2> HIDE DEF valid
  <2> QED
    BY <1>0, <1>1, <1>2 DEF JobFields
<1>7. UNCHANGED <<storedTip, txTip, phase, step, synced, tip, block, waiting, running>>
  BY <1>1 DEF tips, process, queue
<1>8. Handles("mempool")
  BY <1>1, <1>6, <1>7 DEF Handles
<1>9. TableInv'
  BY <1>1, <1>7, SameTable
<1>10. \A r : Kept(r)
  BY <1>1 DEF Kept, SameInput
<1>11. MempoolStep
  BY <1>1, <1>10 DEF MempoolStep, SameInput, Spends, TableInv, ShapeInv
<1>12. ~Filling("mempool") /\ ~Filling("mempool")'
  BY <1>1, <1>6 DEF Filling
<1>13. \A s \in db'.tx : s.tx = running => Whole(s)'
  <2> SUFFICES ASSUME NEW s \in db'.tx, s.tx = running PROVE Whole(s)'
    OBVIOUS
  <2>1. s \in db.tx /\ Whole(s)
    BY <1>1 DEF CompleteInv
  <2>2. ASSUME InProgress(s.tx) PROVE InProgress(s.tx)'
    BY <1>6, <1>12, <2>2 DEF InProgress, Filling, Handler
  <2> QED
    BY <1>7, <1>10, <2>1, <2>2, WholeKept
<1>14. WriteInv("mempool")'
  BY <1>6, <1>12 DEF WriteInv
<1>15. MempoolInv'
  <2>1. valid => \A c \in Coins(running) : \E s \in db.tx, o \in db.outs :
                   s.tx = c.tx /\ o.id = s.id /\ o.at = c.at
    BY <1>3, <1>4, <1>5, AllSources
  <2> HIDE DEF valid
  <2>2. j.todo = <<running>>
    BY <1>1, <1>3 DEF MempoolInv
  <2>3. job'["mempool"].todo # <<>>
    BY <1>6, <2>2
  <2>5. job'["mempool"].pc # "validate"
    BY <1>6
  <2>4. job'["mempool"].pc = "replace" => \A c \in Coins(running) : \E s \in db'.tx, o \in db'.outs :
                   s.tx = c.tx /\ o.id = s.id /\ o.at = c.at
    BY <1>1, <1>6, <2>1
  <2> QED
    BY <1>5, <1>6, <1>7, <1>12, <2>2, <2>3, <2>4, <2>5 DEF MempoolInv
<1>16. \A r \in db.tx : r \in db'.tx /\ r.tx # running => Kept(r)
  BY <1>10
<1> QED
  BY <1>8, <1>9, <1>11, <1>13, <1>14, <1>15, <1>16, MempoolWork
===============================================================================
