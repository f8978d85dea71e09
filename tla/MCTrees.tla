------------------------------- MODULE MCTrees -------------------------------
(***************************************************************************)
(* Trees of blocks for the runs.  In the first two a second, longer chain  *)
(* leaves the first one below its end: two blocks below it, or one block   *)
(* below it in the small tree.  The others have no fork.                   *)
(***************************************************************************)
EXTENDS Integers, Sequences

Chains == {<<"a1", "a2", "a3", "a4">>, <<"a1", "a2", "b3", "b4", "b5">>}
MidChains == {<<"a1", "a2", "a3">>, <<"a1", "b2", "b3", "b4">>}
SmallChains == {<<"a1", "a2">>, <<"a1", "b2", "b3">>}
LineChains == {<<"a1", "a2", "a3", "a4">>}
ShortChains == {<<"a1", "a2", "a3">>}
ForkChains == {<<"a1", "a2">>, <<"a1", "b2">>}

Blocks(chains) == {"g"} \cup UNION {{c[i] : i \in DOMAIN c} : c \in chains}

\* The beginnings of the chains that end in block x.
Upto(chains, x) ==
  {SubSeq(c, 1, i) : <<c, i>> \in {ci \in chains \X (1 .. 5) :
                                     ci[2] <= Len(ci[1]) /\ ci[1][ci[2]] = x}}

Branches(chains) ==
  [x \in Blocks(chains) |->
     LET s == IF x = "g" THEN <<>> ELSE CHOOSE u \in Upto(chains, x) : TRUE
     IN  [d \in 0 .. Len(s) |-> IF d = 0 THEN "g" ELSE s[d]]]

Depths(chains) ==
  [x \in Blocks(chains) |->
     CHOOSE d \in 0 .. 5 : DOMAIN Branches(chains)[x] = 0 .. d]

Parents(chains) ==
  [x \in Blocks(chains) |->
     IF x = "g" THEN "none" ELSE Branches(chains)[x][Depths(chains)[x] - 1]]

MCBlock == Blocks(Chains)
MCParent == Parents(Chains)
MCDepth == Depths(Chains)
MCBranch == Branches(Chains)

MidBlock == Blocks(MidChains)
MidParent == Parents(MidChains)
MidDepth == Depths(MidChains)
MidBranch == Branches(MidChains)

SmallBlock == Blocks(SmallChains)
SmallParent == Parents(SmallChains)
SmallDepth == Depths(SmallChains)
SmallBranch == Branches(SmallChains)

LineBlock == Blocks(LineChains)
LineParent == Parents(LineChains)
LineDepth == Depths(LineChains)
LineBranch == Branches(LineChains)

ShortBlock == Blocks(ShortChains)
ShortParent == Parents(ShortChains)
ShortDepth == Depths(ShortChains)
ShortBranch == Branches(ShortChains)

ForkBlock == Blocks(ForkChains)
ForkParent == Parents(ForkChains)
ForkDepth == Depths(ForkChains)
ForkBranch == Branches(ForkChains)
=============================================================================
