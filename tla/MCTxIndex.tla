------------------------------ MODULE MCTxIndex ------------------------------
(***************************************************************************)
(* A ledger over a fork one block deep.  a2 and b2 hold t and r, which     *)
(* spend the same output; u spends t, x is the spend that the contract     *)
(* call r makes.  Block a1 is of the time before stakes.                   *)
(***************************************************************************)
EXTENDS TxInvariant, MCTrees

From(t, n) == [tx |-> t, at |-> n]
Mint == <<From("none", 0)>>

MCContents == [g |-> <<"cg">>, a1 |-> <<"c1", "p">>, a2 |-> <<"ca", "sa", "t">>,
               b2 |-> <<"cb", "sb", "r", "x">>]
MCInputs == [cg |-> Mint, c1 |-> Mint, ca |-> Mint, cb |-> Mint,
             p |-> <<From("cg", 1)>>,
             sa |-> <<From("c1", 1)>>, sb |-> <<From("c1", 1)>>,
             t |-> <<From("p", 1), From("p", 2)>>, r |-> <<From("p", 1)>>,
             u |-> <<From("t", 1)>>, x |-> <<From("r", 1)>>]
MCPays == [cg |-> <<"M">>, c1 |-> <<"M">>, ca |-> <<"M">>, cb |-> <<"M">>,
           p |-> <<"P", "P">>, sa |-> <<"M">>, sb |-> <<"M">>,
           t |-> <<"T">>, r |-> <<"R">>, u |-> <<"U">>, x |-> <<"X">>]

\* The theorems are about this ledger too.
ASSUME CalmAssumption == Calm /\ Ordinary
==============================================================================
