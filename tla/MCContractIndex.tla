--------------------------- MODULE MCContractIndex ---------------------------
(***************************************************************************)
(* C is a QRC20 and N a QRC721 contract of a1's transactions; D is a QRC20  *)
(* that a contract creates, in a2 and again in b4.  Token v had no log     *)
(* before a2 moves it.                                                     *)
(***************************************************************************)
EXTENDS ContractInvariant, MCTrees

Move(c, x, y) == [contract |-> c, from |-> x, to |-> y, token |-> "none"]
Give(c, x, y, t) == [contract |-> c, from |-> x, to |-> y, token |-> t]

MCStandard == [S |-> "none", C |-> "qrc20", D |-> "qrc20", N |-> "qrc721"]
MCCreations ==
  [b \in Block |-> IF b = "a1" THEN <<[contract |-> "C", owner |-> "x"],
                                      [contract |-> "N", owner |-> "x"]>> ELSE <<>>]
MCInner == [b \in Block |-> IF b \in {"a2", "b4"} THEN {"D"} ELSE {}]
MCLogs ==
  [g |-> <<>>,
   a1 |-> <<Move("C", "zero", "y"), Give("N", "zero", "x", "u")>>,
   a2 |-> <<Move("C", "x", "y"), Move("C", "y", "zero"), Move("D", "zero", "y"),
            Give("N", "x", "y", "u"), Give("N", "x", "y", "v")>>,
   b2 |-> <<Move("C", "y", "x"), Give("N", "x", "y", "v"), Give("N", "y", "x", "v")>>,
   a3 |-> <<Move("D", "y", "x"), Move("C", "zero", "x")>>,
   b3 |-> <<Move("C", "x", "zero")>>,
   b4 |-> <<Move("D", "zero", "x")>>]
=============================================================================
