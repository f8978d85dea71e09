--------------------------- MODULE HeaderInvariant ---------------------------
(***************************************************************************)
(* Why the header table of HeaderService stays one branch and a restart    *)
(* finds its checkpoint, when blocks only arrive between the rounds of a   *)
(* sync (CalmPeer) and a single peer announces its height (MaxOthers = 0): *)
(* an invariant strong enough to be preserved by every step.               *)
(*                                                                         *)
(* The first half says who may run: an interval that has not fired, the    *)
(* rounds, the calls to the services and the handling of a block exclude   *)
(* each other.  The second says what the table holds meanwhile, and how    *)
(* far it may be behind the stored tip.                                    *)
(***************************************************************************)
EXTENDS HeaderService

Idle == \A r \in Round : round[r].pc = "idle"

\* A block is being handled, and not just given up or finished.
Handling == live.pc \notin {"none", "done"}

\* The variables of the process are those of its start.
Fresh ==
  /\ ~connected
  /\ Idle
  /\ polls = 0
  /\ notifying = 0
  /\ subs = {}
  /\ waiting = <<>>
  /\ running = NoBlock
  /\ inbox = <<>>

-----------------------------------------------------------------------------
(* Who may run.                                                            *)

\* Nothing runs before a peer is ready.
FreshBefore == (phase # "run" \/ ~connected) => Fresh

\* Blocks only wait behind a running one.
WaitBehind == waiting # <<>> => running # NoBlock

\* An interval of _startSync is set when nothing else runs, except for the
\* blocks queued behind a reorganization, which are all given up.
PollAlone ==
  polls > 0 =>
    /\ polls = 1
    /\ Idle
    /\ notifying = 0
    /\ ~Handling
    /\ "block" \notin subs
    /\ running # NoBlock => reorging

\* One round at a time, with no block waiting and no message ignored.
RoundAlone ==
  \A r \in Round : round[r].pc # "idle" =>
    /\ round[r].pc \in {"asked", "answered"} => "headers" \in subs
    /\ \A s \in Round \ {r} : round[s].pc = "idle"
    /\ polls = 0
    /\ ~Handling
    /\ waiting = <<>>

NotifyAlone ==
  notifying > 0 => polls = 0 /\ ~Handling /\ waiting = <<>>

\* The blocks behind the one that causes a reorganization are given up.
RewindGivesUp == live.pc \in {"destroy", "find"} => reorging

ControlInv ==
  /\ FreshBefore /\ WaitBehind /\ PollAlone /\ RoundAlone /\ NotifyAlone
  /\ RewindGivesUp

-----------------------------------------------------------------------------
(* What the table holds.                                                   *)

\* The table ends at block b, and the stored tip is at most n above it.
Ends(b, n) == rows = RowsOf(b) /\ storedTip.height <= Depth[b] + n

\* A round of headers to insert or a block to save goes on where the table
\* ends.
Continues(batch, from, b) ==
  /\ Depth[b] = from.height + Len(batch)
  /\ Branch[b][from.height] = from.hash
  /\ \A i \in 1 .. Len(batch) : batch[i] = Branch[b][from.height + i]

\* The stored tip and the tips about to be stored are those of blocks.
StoredTrue == storedTip.height = Depth[storedTip.hash]

\* The table is one branch that ends at most Rewind below the stored tip.
TableInv ==
  \/ rows = {} /\ storedTip.height < Rewind
  \/ \E b \in Block : Ends(b, Rewind)

\* The start: the table is only rebuilt when the stored tip is below Rewind,
\* and otherwise holds the row the tip went back to.
StartInv ==
  /\ phase \in {"truncate", "create"} => storedTip.height < Rewind
  /\ phase = "truncate" => tip.height = 0
  /\ phase = "create" => rows = {} /\ tip.height = 0
  /\ phase = "destroy" =>
       /\ storedTip.height <= tip.height + Rewind
       /\ \E b \in Block : rows = RowsOf(b) /\ tip.height <= Depth[b]
  /\ phase = "find" =>
       /\ storedTip.height <= tip.height + Rewind
       /\ \E b \in Block : rows = RowsOf(b) /\ tip.height = Depth[b]

\* A message holds a stretch of one branch.
Stretch(batch, b) ==
  \E base \in 0 .. Depth[b] :
    /\ Depth[b] = base + Len(batch)
    /\ \A i \in 1 .. Len(batch) : batch[i] = Branch[b][base + i]

MessageInv ==
  \A r \in Round :
    round[r].pc = "answered" /\ round[r].batch # <<>> =>
      \E b \in Block :
        Stretch(round[r].batch, b) /\ Depth[b] <= Depth[peerTip]

InsertInv ==
  \A r \in Round :
    round[r].pc = "insert" =>
      /\ Ends(round[r].from.hash, Rewind)
      /\ Continues(round[r].batch, round[r].from, lastHeader.hash)
      /\ tip = lastHeader

StoreInv ==
  /\ \A r \in Round : round[r].pc = "store" => round[r].tip = lastHeader
  /\ live.pc = "store" => live.row = lastHeader

SaveInv ==
  live.pc = "save" =>
    /\ Parent[lastHeader.hash] \in Block
    /\ Ends(Parent[lastHeader.hash], 0)
    /\ live.row = lastHeader
    /\ tip = lastHeader

RewindInv ==
  /\ live.pc = "destroy" =>
       /\ Ends(lastHeader.hash, 0)
       /\ live.row = tip
       /\ tip.height <= lastHeader.height
       /\ lastHeader.height <= tip.height + Rewind
  /\ live.pc = "find" =>
       \E b \in Block : Ends(b, Rewind) /\ Depth[b] = tip.height

\* Otherwise the last header and the tip are the end of the table.
RestInv ==
  /\ phase = "run"
  /\ \A r \in Round : round[r].pc # "insert"
  /\ live.pc \notin {"save", "destroy", "find"}
  => Ends(lastHeader.hash, Rewind) /\ tip = lastHeader

\* The stored tip is not above the table when a block can be handled, so
\* that the next reorganization does not take the table too far below it.
CaughtUp ==
  (\/ Handling
   \/ waiting # <<>> /\ polls = 0
   \/ "block" \in subs /\ Idle
   \/ \E r \in Round : round[r].pc = "stored")
  /\ live.pc # "find"
  => storedTip.height <= lastHeader.height

\* No block is above the peer's best one, so that headers are never found to
\* be needed in a negative number.
ReachInv ==
  /\ storedTip.height <= Depth[peerTip]
  /\ tip.height <= Depth[peerTip]
  /\ lastHeader.height <= Depth[peerTip]
  /\ originalHeight >= tip.height \/ live.pc \notin {"destroy", "find"}
  /\ running \in Block => Depth[running] <= Depth[peerTip]
  /\ \A i \in 1 .. Len(waiting) : Depth[waiting[i]] <= Depth[peerTip]
  /\ \A i \in 1 .. Len(inbox) : Depth[inbox[i]] <= Depth[peerTip]
  /\ polls > 0 => tip.height <= Larger(bestHeight, originalHeight)

\* The process has not stopped of itself, other than at its first assertion.
FaultInv == fault \in {"none", "genesis", "crash", "order"}

DataInv ==
  /\ StoredTrue /\ TableInv /\ StartInv
  /\ MessageInv /\ InsertInv /\ StoreInv
  /\ SaveInv /\ RewindInv /\ RestInv /\ CaughtUp

CalmInv == ControlInv /\ DataInv /\ ReachInv /\ FaultInv
-----------------------------------------------------------------------------
(* What the block service sees (HeaderFeed): a sync only ends above the    *)
(* genesis block, blocks only extend the headers when no sync runs, and a  *)
(* reorganization cuts the table on the branch of the last header.         *)

\* A peer that is asked has headers, so the answer to a request from the
\* genesis block is not empty.
AnswerInv ==
  \A r \in Round :
    /\ round[r].pc # "idle" => Depth[peerTip] > 0
    /\ round[r].pc = "asked" => round[r].from = lastHeader
    /\ round[r].pc \in {"asked", "answered", "insert", "inserted"} =>
         initialSync
    /\ round[r].pc \in {"store", "stored"} =>
         initialSync \/ lastCount < MaxHeaders
    /\ \/ round[r].pc = "answered" /\ round[r].batch = <<>>
       \/ round[r].pc \in {"insert", "inserted", "store", "stored"}
       => lastHeader.hash # Genesis

\* A block is only handled after the end of the sync before it.
StageInv ==
  /\ phase # "run" => initialSync /\ lastHeader.hash = Genesis
  /\ "block" \in subs \/ Handling => ~initialSync
  /\ polls > 0 => initialSync
  /\ initialSync /\ waiting # <<>> => reorging

KnownInv ==
  /\ bestHeight <= Depth[peerTip]
  /\ originalHeight <= Depth[peerTip]

BackInv ==
  live.pc = "find" =>
    /\ tip.height <= lastHeader.height
    /\ rows = RowsOf(Branch[lastHeader.hash][tip.height])

FeedInv == AnswerInv /\ StageInv /\ KnownInv /\ BackInv
=============================================================================
