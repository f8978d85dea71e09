------------------------------ MODULE HeaderFeed ------------------------------
(***************************************************************************)
(* The header service as the block service sees it: the header table, the  *)
(* last header in memory, whether a sync is running, and how far back a    *)
(* reorganization is going.  HeaderService implements it; BlockService is  *)
(* composed with it in place of the whole header service.                  *)
(*                                                                         *)
(* The table is always one branch: top is the block it ends with, NoBlock  *)
(* when it is empty.                                                       *)
(***************************************************************************)
EXTENDS BlockTree

VARIABLES
  top,    \* the end of the header table
  last,   \* the header service's last header, ahead of the table or not
  stage,  \* "down", "start", "sync" or "follow"
  cut     \* the block a reorganization goes back to, or NoBlock

header == <<top, last, stage, cut>>

\* The headers in the table.
Held(b) == top \in Block /\ OnBranch(b, top)

\* The height of the header service's tip: that of the last header, except
\* while it goes back.
TipHeight == IF cut = NoBlock THEN Depth[last] ELSE Depth[cut]

Init ==
  /\ top = NoBlock
  /\ last = Genesis
  /\ stage = "down"
  /\ cut = NoBlock

\* The process starts: the table is cut, emptied or begun anew.
Begin ==
  /\ stage = "down"
  /\ stage' = "start"
  /\ UNCHANGED <<top, last, cut>>

Rebuild ==
  /\ stage = "start"
  /\ \/ top' = NoBlock
     \/ top = NoBlock /\ top' = Genesis
     \/ top \in Block /\ \E a \in Block : OnBranch(a, top) /\ top' = a
  /\ UNCHANGED <<last, stage, cut>>

Ready ==
  /\ stage = "start"
  /\ top \in Block
  /\ last' = top
  /\ stage' = "sync"
  /\ UNCHANGED <<top, cut>>

\* A message of headers up to b is linked, and then stored.
Download(b) ==
  /\ stage = "sync"
  /\ last = top
  /\ b # last
  /\ OnBranch(last, b)
  /\ last' = b
  /\ UNCHANGED <<top, stage, cut>>

Save ==
  /\ stage \in {"sync", "follow"}
  /\ cut = NoBlock
  /\ top # last
  /\ top' = last
  /\ UNCHANGED <<last, stage, cut>>

\* The end of a sync, which is only begun when there are headers to ask for.
Complete ==
  /\ stage = "sync"
  /\ top = last
  /\ last # Genesis
  /\ stage' = "follow"
  /\ UNCHANGED <<top, last, cut>>

\* An announced block extends the last header, or makes the service go back.
Extend(b) ==
  /\ stage = "follow"
  /\ cut = NoBlock
  /\ top = last
  /\ Parent[b] = last
  /\ last' = b
  /\ UNCHANGED <<top, stage, cut>>

GoBack(a) ==
  /\ stage = "follow"
  /\ cut = NoBlock
  /\ top = last
  /\ OnBranch(a, top)
  /\ cut' = a
  /\ UNCHANGED <<top, last, stage>>

Truncate ==
  /\ cut # NoBlock
  /\ top' = cut
  /\ UNCHANGED <<last, stage, cut>>

Again ==
  /\ cut # NoBlock
  /\ top = cut
  /\ last' = cut
  /\ cut' = NoBlock
  /\ stage' = "sync"
  /\ UNCHANGED top

\* A peer that becomes ready starts a sync.
Resume ==
  /\ stage = "follow"
  /\ cut = NoBlock
  /\ top = last
  /\ stage' = "sync"
  /\ UNCHANGED <<top, last, cut>>

Halt ==
  /\ last' = Genesis
  /\ stage' = "down"
  /\ cut' = NoBlock
  /\ UNCHANGED top

Next ==
  \/ Begin \/ Rebuild \/ Ready \/ Save \/ Complete \/ Truncate \/ Again
  \/ Resume \/ Halt
  \/ \E b \in Block : Download(b) \/ Extend(b) \/ GoBack(b)

Spec == Init /\ [][Next]_header
=============================================================================
