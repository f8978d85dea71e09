---------------------------- MODULE BlockInvariant ----------------------------
(***************************************************************************)
(* Why the blocks of BlockService are saved one at a time, and the block   *)
(* table, the transactions and the tips go together at any crash, when the *)
(* network is calm (CalmPeer, no late answers): an invariant strong enough *)
(* to be preserved by every step.                                          *)
(*                                                                         *)
(* Its parts say where the header service is while onHeaders() runs, which *)
(* _sync calls are in progress and what becomes of them, how far the       *)
(* chains reach, and what the tables hold at each step of a save or of a   *)
(* reorganization.                                                         *)
(***************************************************************************)
EXTENDS BlockService

\* A calm network: see CalmPeer, no block comes later than 5 s after a call
\* begins to wait for it, no lookup of getEndHash is overtaken by a
\* reorganization of the header service, and no sync begins while a call of
\* the one before still waits for its timer (one call at a time).
Calm ==
  /\ CalmPeer
  /\ MaxTimeouts = 0
  /\ ~SlowReads
  /\ \A c, d \in Call : c = d

Active(c) == call[c].pc # "none"

\* Call c waits for a block that the peer has left: it only ends by its timer.
Vain(c) == \E b \in Block : Wanted(c, b) /\ ~OnBranch(b, peer)

\* The variables of the process are those of its start.
Fresh ==
  /\ lastSaved = NoBlock
  /\ ~processing
  /\ ~reorging
  /\ ~subscribed
  /\ ~listening
  /\ timer = NoBlock
  /\ check = NoCheck
  /\ call = [c \in Call |-> NoCall]
  /\ work = [w \in Worker |-> NoWork]
  /\ waiting = <<>>
  /\ running = NoBlock
  /\ live = "none"
  /\ inQueue = 0
  /\ ~headerReorging
  /\ announced = {}

-----------------------------------------------------------------------------
(* The process and the header service.                                     *)

StartInv ==
  /\ phase # "run" => Fresh
  /\ phase = "down" <=> stage = "down"
  /\ phase = "header" <=> stage = "start"
  /\ stage = "follow" \/ cut # NoBlock => phase = "run"

QueueInv ==
  /\ running = NoBlock => waiting = <<>>
  /\ live = "none" <=> running = NoBlock
  /\ inQueue = Len(waiting) + IF running = NoBlock THEN 0 ELSE 1
  /\ inQueue > 0 => subscribed

\* Each save belongs to a call that is saving.
WorkInv ==
  /\ work["live"].pc # "none" <=> live = "save"
  /\ \A c \in Call : work[c].pc # "none" <=> call[c].pc = "save"
  /\ work["genesis"].pc # "none" <=> check.pc = "genesis"

\* The header table and its last header, while the service goes back too.
HeaderInv ==
  /\ stage \in {"sync", "follow"} => top \in Block
  /\ stage \in {"sync", "follow"} /\ cut = NoBlock => OnBranch(top, last)
  /\ stage = "sync" => announced = {} /\ check.pc = "none"
  /\ cut # NoBlock =>
       /\ stage = "follow"
       /\ reorging
       /\ check.pc = "none"
       /\ top = cut \/ (top = last /\ OnBranch(cut, last))
  /\ headerReorging => announced = {}
  /\ reorging => headerReorging

\* While onHeaders() runs the header service stays where it is.
StillInv ==
  /\ check.pc # "none" =>
       /\ stage = "follow"
       /\ cut = NoBlock
       /\ top = last
       /\ last # Genesis
       /\ \A b \in announced : Held(b)
  /\ check.pc \in {"genesis", "first", "done"} => ~reorging

\* No header is above the peer's best block.
ReachInv ==
  /\ top \in Block => Depth[top] <= Depth[peer]
  /\ Depth[last] <= Depth[peer]
  /\ \A b \in announced : Depth[b] <= Depth[peer]
  /\ \A c \in Call : call[c].pc = "wait" => Depth[call[c].want] <= Depth[peer]

-----------------------------------------------------------------------------
(* The _sync calls.                                                        *)

\* A call keeps #processingBlock set and the queue out, unless it waits in vain.
BusyInv ==
  \A c \in Call : Active(c) =>
    \/ processing /\ ~subscribed
    \/ Vain(c) /\ ~call[c].first

\* When onHeaders() has waited, only such calls are left until its own one.
DrainedInv ==
  /\ check.pc \in {"drain", "common", "remove", "settip", "forget", "undo",
                   "destroy", "start", "genesis"} =>
       \A c \in Call : Active(c) => Vain(c) /\ ~call[c].first
  /\ check.pc \in {"common", "remove", "settip", "forget", "undo", "destroy",
                   "start", "genesis", "first"} => ~subscribed
  /\ check.pc \in {"common", "remove", "settip", "forget", "undo", "destroy",
                   "start"} => ~listening
  /\ check.pc \in {"remove", "settip", "forget", "undo", "destroy"} =>
       \A c \in Call : call[c].pc # "ask" /\ ~call[c].armed
  /\ \A c \in Call :
       /\ call[c].first => Active(c)
       /\ Active(c) => (call[c].first <=> check.pc = "first")

\* The queue of announced blocks is only open when no call can save a block.
OpenInv ==
  subscribed =>
    /\ tip.height >= 1
    /\ \A c \in Call : Active(c) => call[c].pc = "wait" /\ ~call[c].armed

\* What a call asks or waits for.
AskInv ==
  \A c \in Call :
    /\ call[c].pc = "ask" => call[c].from = tip /\ Held(tip.hash)
    /\ call[c].pc \in {"wait", "save"} =>
         /\ call[c].want \in Block
         /\ Depth[call[c].want] = call[c].from.height + 1
         /\ Parent[call[c].want] = call[c].from.hash
    /\ Active(c) /\ ~call[c].first => call[c].from.height >= 1

\* The timer is cleared before the tip or the header of the block changes.
TimerInv ==
  \A c \in Call :
    /\ call[c].armed =>
         /\ call[c].pc = "wait"
         /\ timer = c
         /\ call[c].from = tip
         /\ ~reorging \/ check.pc \in {"common", "start"} => Held(call[c].want)
    /\ call[c].pc = "wait" /\ ~Vain(c) => call[c].armed
    /\ call[c].pc = "save" /\ ~reorging => Held(call[c].want)

-----------------------------------------------------------------------------
(* What the tables hold.                                                   *)

\* Rows stand for blocks at their height.
TrueInv ==
  /\ tip.height = Depth[tip.hash]
  /\ storedTip.height = Depth[storedTip.hash]
  /\ check.back.height = Depth[check.back.hash]
  /\ \A w \in Worker : work[w].row.height = Depth[work[w].row.hash]

\* Nothing is stored yet, or only the transactions of the genesis block.
Bare == storedTip = GenesisRow /\ blocks = {} /\ txs \subseteq {GenesisRow}

\* At any moment, and so after any crash: both tables are branches through
\* the stored tip, and the transaction service's tip is not below it.
TablesInv ==
  /\ \/ Bare
     \/ \E x, y \in Block :
          /\ blocks = RowsOf(x)
          /\ txs = RowsOf(y)
          /\ OnBranch(storedTip.hash, x)
          /\ OnBranch(storedTip.hash, y)
  /\ txTip.height >= storedTip.height

\* The tables end at the tip.
AtTip ==
  /\ storedTip = tip
  /\ Bare \/ (blocks = RowsOf(tip.hash) /\ txs = RowsOf(tip.hash))

LoadInv ==
  /\ phase \in {"load", "transaction", "store"} =>
       /\ storedTip = tip
       /\ Bare \/ blocks = RowsOf(tip.hash)
  /\ phase = "store" => AtTip

\* They do when nothing is being written.
RestInv ==
  Quiet => AtTip

\* _saveBlock, of a block above the tip.
SaveInv ==
  \A w \in Worker \ {"genesis"} :
    LET row == work[w].row IN
    /\ work[w].pc \in {"index", "indexed", "header", "create", "created"} =>
         storedTip = tip /\ Parent[row.hash] = tip.hash
    /\ work[w].pc \in {"index", "indexed", "header", "create"} =>
         blocks = RowsOf(tip.hash)
    /\ work[w].pc = "index" => txs = RowsOf(tip.hash)
    /\ work[w].pc \in {"indexed", "header", "create", "created", "store", "saved"} =>
         txs = RowsOf(row.hash)
    /\ work[w].pc \in {"created", "store", "saved"} => blocks = RowsOf(row.hash)
    /\ work[w].pc \in {"header", "create", "created", "store"} => txTip = row
    /\ work[w].pc = "store" => Parent[row.hash] = storedTip.hash
    /\ work[w].pc \in {"store", "saved"} => tip = row
    /\ work[w].pc = "saved" => storedTip = row

\* _saveBlock, of the genesis block.
GenesisInv ==
  work["genesis"].pc # "none" =>
    /\ work["genesis"].row = GenesisRow
    /\ tip = GenesisRow
    /\ storedTip = GenesisRow
    /\ work["genesis"].pc = "index" => AtTip
    /\ work["genesis"].pc # "index" => txs = RowsOf(Genesis)
    /\ work["genesis"].pc \in {"indexed", "header", "create"} => blocks = {}
    /\ work["genesis"].pc \in {"created", "store", "saved"} =>
         blocks = RowsOf(Genesis)

\* A call saves the block it waited for.
CallWorkInv ==
  /\ \A c \in Call : call[c].pc = "save" => work[c].row.hash = call[c].want
  /\ check.pc = "first" => blocks # {}

\* onHeaders() at a common block below the tip.
UndoInv ==
  /\ check.pc \in {"remove", "settip", "forget", "undo", "destroy"} =>
       Held(check.back.hash)
  /\ check.pc = "remove" =>
       /\ check.back.hash # tip.hash
       /\ OnBranch(check.back.hash, tip.hash)
  /\ check.pc \in {"settip", "forget", "undo", "destroy"} => tip = check.back
  /\ check.pc = "settip" =>
       /\ blocks = RowsOf(storedTip.hash)
       /\ txs = RowsOf(storedTip.hash)
       /\ OnBranch(tip.hash, storedTip.hash)
  /\ check.pc \in {"forget", "undo", "destroy"} =>
       /\ storedTip = tip
       /\ \E x \in Block : blocks = RowsOf(x) /\ OnBranch(tip.hash, x)
  /\ check.pc \in {"forget", "undo"} => txs = blocks
  /\ check.pc = "destroy" => txs = RowsOf(tip.hash)
  /\ check.pc = "start" => Held(tip.hash)

\* The process has not stopped at one of its own assertions.
FaultInv == fault \notin {"reset", "remove", "target", "misaligned", "miner"}

ProcessInv == StartInv /\ QueueInv /\ WorkInv
FeedInv == HeaderInv /\ StillInv /\ ReachInv
CallInv == BusyInv /\ DrainedInv /\ OpenInv /\ AskInv /\ TimerInv
DataInv ==
  /\ TrueInv /\ TablesInv /\ LoadInv /\ RestInv
  /\ SaveInv /\ GenesisInv /\ CallWorkInv /\ UndoInv

CalmInv == ProcessInv /\ FeedInv /\ CallInv /\ DataInv /\ FaultInv

-----------------------------------------------------------------------------
(* Why onHeaders() always finds a common block.                            *)

\* No fork of the network goes back further than the hashes that are kept:
\* branches only differ in the last RecentHashes blocks of the longer one.
ShallowForks ==
  \A a, b \in Block : Depth[b] <= Depth[a] =>
    \A d \in 0 .. Depth[b] :
      d <= Depth[a] - RecentHashes => Branch[a][d] = Branch[b][d]

\* The best block the peer had when onHeaders() was called, or has.
Limit == IF check.pc = "none" THEN Depth[peer] ELSE Depth[top]

\* No block that is saved, or will be, is above it.
LimitInv ==
  /\ storedTip.height <= Limit
  /\ \A w \in Worker : work[w].row.height <= Limit
  /\ \A c \in Call : call[c].pc = "wait" => Depth[call[c].want] <= Limit
  /\ running # NoBlock => Depth[running] <= Limit
  /\ \A i \in 1 .. Len(waiting) : Depth[waiting[i]] <= Limit

\* The cache goes with the tip, or with the one before it while onHeaders()
\* goes back, and holds all hashes but those that are out of reach of a
\* shallow fork.
CacheInv ==
  /\ phase \in {"down", "header", "block", "destroy", "load"} => recent = {}
  /\ \E e \in Block :
       /\ OnBranch(tip.hash, e)
       /\ check.pc \notin {"settip", "forget"} => e = tip.hash
       /\ \A b \in recent : OnBranch(b, e)
  /\ phase \in {"transaction", "store", "run"} =>
       \E n \in tip.height .. Limit : \A d \in 1 .. tip.height :
         d > n - RecentHashes => Branch[tip.hash][d] \in recent

LocateInv == LimitInv /\ CacheInv /\ fault # "unlocated"
=============================================================================
