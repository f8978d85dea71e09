----------------------------- MODULE BlockService -----------------------------
(***************************************************************************)
(* src/node/services/block.js: the service that downloads the blocks of    *)
(* the header table and has every other service index them, together with  *)
(* the part of src/node/services/transaction.js that decides which blocks' *)
(* transactions are in the database (start, onBlock, onReorg).             *)
(*                                                                         *)
(* The header service is HeaderFeed, which HeaderService implements.  When *)
(* it has finished a sync it awaits onHeaders(): the block service looks   *)
(* for the last block it shares with the header table, undoes what is      *)
(* above it, and starts a loop of _sync calls that ask the peer for one    *)
(* block after the other.  When the loop has caught up, announced blocks   *)
(* are taken from an AsyncQueue.                                           *)
(*                                                                         *)
(* As in HeaderService, an action is what runs between two awaits, or one  *)
(* operation of the database.                                              *)
(***************************************************************************)
EXTENDS HeaderFeed, Sequences, SequencesExt, FiniteSetsExt

CONSTANTS
  Stalled,        \* the value of AsyncQueue's running after a rejection
  RecentHashes,   \* recentBlockHashesCount (144)
  Call,           \* identities of the _sync calls in progress at one time
  CalmPeer,       \* whether blocks are only announced while no sync of the
                  \* header service and no onHeaders() is unfinished, and the
                  \* peer comes back to no block it has left while a call
                  \* still asks or waits for that block
  Prompt,         \* whether the header service has looked at an announced
                  \* block by the time a block of the loop is saved
  SlowReads,      \* whether getEndHash's lookup may be answered after the
                  \* header service has gone back
  MaxWaiting,     \* bounds: blocks that wait behind the running one when
                  \* another is announced, crashes of the process,
  MaxCrashes,
  MaxResumes,     \* peers that become ready after the first,
  MaxTimeouts,    \* answers of the peer that come too late, and
  MaxForks        \* moves of the peer to another branch

ASSUME ParameterAssumption ==
  /\ RecentHashes \in Nat \ {0}
  /\ Call \cap {"live", "genesis"} = {}
  /\ CalmPeer \in BOOLEAN
  /\ Prompt \in BOOLEAN
  /\ SlowReads \in BOOLEAN
  /\ MaxWaiting \in Nat
  /\ MaxCrashes \in Nat
  /\ MaxResumes \in Nat
  /\ MaxTimeouts \in Nat
  /\ MaxForks \in Nat
  /\ Stalled \notin Block \cup {NoBlock}

\* Who saves blocks: the _sync calls, the block queue, and _startSync, which
\* saves the genesis block.
Worker == Call \cup {"live", "genesis"}

VARIABLES
  \* the database
  blocks,         \* the block table
  storedTip,      \* the row 'block' of the tip table
  txs,            \* the blocks whose transactions are in the database
  txTip,          \* the row 'transaction' of the tip table
  \* the process
  phase,          \* which service is starting, "run", or "down"
  fault,          \* why the process last stopped
  tip,            \* #tip
  recent,         \* #recentBlockHashes: the blocks whose parent it gives
  processing,     \* #processingBlock
  inQueue,        \* #blocksInQueue
  reorging,       \* #reorging
  lastSaved,      \* #lastBlockSaved
  subscribed,     \* #subscribedBlock
  listening,      \* whether 'next block' and 'synced' have a listener
  timer,          \* the call that set #getBlocksTimer last, or NoBlock
  check,          \* onHeaders(): where it is, and the block it goes back to
  call,           \* the _sync calls
  work,           \* the _saveBlock calls
  waiting,        \* #blockProcessor
  running,
  live,           \* the _onBlock call of the running block
  \* the header service and the network
  headerReorging, \* the header service's #reorging
  announced,      \* the blocks in the header service's queue
  peer,           \* the best block of the peer
  news,           \* the block the peer is about to announce, or NoBlock
  \* how much of each bound is used
  crashes, resumes, timeouts, forks

database == <<blocks, storedTip, txs, txTip>>
process == <<phase, fault>>
chain == <<tip, recent, lastSaved>>
flags == <<processing, reorging>>
listeners == <<subscribed, listening, timer>>
queue == <<waiting, running, live, inQueue>>
network == <<peer, news>>
others == <<headerReorging, announced>>
counters == <<crashes, resumes, timeouts, forks>>

vars == <<header, database, process, chain, flags, listeners, check, call,
          work, queue, others, network, counters>>

Queue == INSTANCE AsyncQueue WITH Item <- Block, NoItem <- NoBlock

-----------------------------------------------------------------------------
(* The helpers of the handlers.                                            *)

RowOf(b) == [height |-> Depth[b], hash |-> b]

NoCall == [pc |-> "none", from |-> GenesisRow, want |-> NoBlock,
           first |-> FALSE, armed |-> FALSE]

NoWork == [pc |-> "none", row |-> GenesisRow]

NoCheck == [pc |-> "none", back |-> GenesisRow]

HasRow(table, h) == \E r \in table : r.height = h

Below(table, h) == {r \in table : r.height <= h}

\* The database refuses a row whose height or hash it already holds.
Duplicate(table, row) ==
  \E r \in table : r.height = row.height \/ r.hash = row.hash

\* The cache of recent hashes keeps the newest ones.
Newest(s) ==
  {b \in s : Cardinality({a \in s : Depth[a] > Depth[b]}) < RecentHashes}

\* The blocks _findLatestValidBlockHeader tries, from the tip down: the cache
\* gives the parent of each.
Tried ==
  {b \in Block :
     /\ OnBranch(b, tip.hash)
     /\ \A d \in Depth[b] + 1 .. Depth[tip.hash] : Branch[tip.hash][d] \in recent}

\* The first of them the header table has.
Common == {b \in Tried : Held(b)}
CommonBlock == CHOOSE b \in Common : \A a \in Common : Depth[a] <= Depth[b]

\* The values of the process's variables when it starts.
Boot ==
  /\ tip' = GenesisRow
  /\ recent' = {}
  /\ lastSaved' = NoBlock
  /\ processing' = FALSE
  /\ reorging' = FALSE
  /\ subscribed' = FALSE
  /\ listening' = FALSE
  /\ timer' = NoBlock
  /\ check' = NoCheck
  /\ call' = [c \in Call |-> NoCall]
  /\ work' = [w \in Worker |-> NoWork]
  /\ waiting' = <<>>
  /\ running' = NoBlock
  /\ live' = "none"
  /\ inQueue' = 0
  /\ headerReorging' = FALSE
  /\ announced' = {}
  /\ news' = NoBlock

\* node.stop() and process.exit(): the services have nothing to wait for when
\* they stop, so no operation of the database is seen to end after it.
Stop(reason) ==
  /\ phase' = "down"
  /\ fault' = reason
  /\ Halt
  /\ Boot
  /\ UNCHANGED <<database, peer>>

-----------------------------------------------------------------------------
(* start(), of the block service and then of the transaction service, after *)
(* that of the header service.                                             *)

StartHeader ==
  /\ phase = "down"
  /\ Begin
  /\ phase' = "header"
  /\ fault' = "none"
  /\ UNCHANGED <<database, chain, flags, listeners, check, call, work, queue,
                 others, network, counters>>

RebuildHeaders ==
  /\ phase = "header"
  /\ Rebuild
  /\ UNCHANGED <<database, process, chain, flags, listeners, check, call, work,
                 queue, others, network, counters>>

HeaderReady ==
  /\ phase = "header"
  /\ Ready
  /\ phase' = "block"
  /\ UNCHANGED <<database, fault, chain, flags, listeners, check, call, work,
                 queue, others, network, counters>>

\* Without a block at the stored tip, #tip stays null, and the start of the
\* transaction service fails on blockTip.height.
StartBlock ==
  /\ phase = "block"
  /\ \/ /\ storedTip.height = 0 \/ HasRow(blocks, storedTip.height)
        /\ phase' = "destroy"
        /\ UNCHANGED <<header, database, fault, chain, flags, listeners, check,
                       call, work, queue, others, network, counters>>
     \/ /\ storedTip.height > 0 /\ ~HasRow(blocks, storedTip.height)
        /\ Stop("reset")
        /\ UNCHANGED counters

DestroyAboveTip ==
  /\ phase = "destroy"
  /\ blocks' = Below(blocks, storedTip.height)
  /\ tip' = storedTip
  /\ phase' = "load"
  /\ UNCHANGED <<header, storedTip, txs, txTip, fault, recent, lastSaved, flags,
                 listeners, check, call, work, queue, others, network, counters>>

\* _loadRecentBlockHashes: each hash gives the one before it.
LoadRecentHashes ==
  /\ phase = "load"
  /\ recent' = {r.hash : r \in {q \in blocks :
                   /\ q.height \in 1 .. tip.height
                   /\ q.height > tip.height - RecentHashes
                   /\ HasRow(blocks, q.height - 1)}}
  /\ phase' = "transaction"
  /\ UNCHANGED <<header, database, fault, tip, lastSaved, flags, listeners,
                 check, call, work, queue, others, network, counters>>

\* The transaction service takes the block service's tip when it is lower.
TransactionTip == IF txTip.height > tip.height THEN tip ELSE txTip

DestroyTransactions ==
  /\ phase = "transaction"
  /\ txs' = Below(txs, TransactionTip.height)
  /\ phase' = "store"
  /\ UNCHANGED <<header, blocks, storedTip, txTip, fault, chain, flags,
                 listeners, check, call, work, queue, others, network, counters>>

StoreTransactionTip ==
  /\ phase = "store"
  /\ txTip' = TransactionTip
  /\ phase' = "run"
  /\ UNCHANGED <<header, blocks, storedTip, txs, fault, chain, flags, listeners,
                 check, call, work, queue, others, network, counters>>

-----------------------------------------------------------------------------
(* The header service.                                                     *)

\* What the block service does not see of it.
HeaderSyncs ==
  /\ phase = "run"
  /\ \/ \E b \in Block : OnBranch(b, peer) /\ Download(b)
     \/ Save
     \/ Truncate /\ (SlowReads \/ \A c \in Call : call[c].pc # "ask")
     \/ Again
  /\ UNCHANGED <<database, process, chain, flags, listeners, check, call, work,
                 queue, others, network, counters>>

\* The end of its sync, at the peer's best block, calls onHeaders(); one call at
\* a time.
HeaderCompletes ==
  /\ phase = "run"
  /\ last = peer
  /\ check.pc = "none"
  /\ Complete
  /\ check' = [NoCheck EXCEPT !.pc = "idle"]
  /\ UNCHANGED <<database, process, chain, flags, listeners, call, work, queue,
                 others, network, counters>>

\* It looks at an announced block, which may make it go back, to a block the
\* peer has too; it then gives up the others.
HeaderLooks(b) ==
  /\ b \in announced
  /\ stage = "follow"
  /\ cut = NoBlock
  /\ top = last
  /\ \/ /\ Held(b)
        /\ announced' = announced \ {b}
        /\ UNCHANGED <<header, headerReorging, reorging>>
     \/ /\ ~Held(b)
        /\ Extend(b)
        /\ announced' = announced \ {b}
        /\ UNCHANGED <<headerReorging, reorging>>
     \/ /\ ~Held(b)
        /\ Parent[b] # last
        /\ \E a \in Block : OnBranch(a, peer) /\ GoBack(a)
        /\ announced' = {}
        /\ headerReorging' = TRUE
        /\ reorging' = TRUE
  /\ UNCHANGED <<database, process, chain, processing, listeners, check, call,
                 work, queue, network, counters>>

\* A further peer becomes ready.
PeerReady ==
  /\ phase = "run"
  /\ resumes < MaxResumes
  /\ CalmPeer => check.pc = "none" /\ ~headerReorging /\ announced = {}
  /\ Resume
  /\ resumes' = resumes + 1
  /\ UNCHANGED <<database, process, chain, flags, listeners, check, call, work,
                 queue, others, network, crashes, timeouts, forks>>

\* Every service's onHeaders() has been awaited: 'reorg complete'.
ReorgComplete ==
  /\ check.pc = "done"
  /\ check' = NoCheck
  /\ reorging' = FALSE
  /\ headerReorging' = FALSE
  /\ UNCHANGED <<header, database, process, chain, processing, listeners, call,
                 work, queue, announced, network, counters>>

-----------------------------------------------------------------------------
(* onHeaders(): the common block, the reorganization, the sync.            *)

\* The first interval waits until no block is being processed.
CheckIdle ==
  /\ check.pc = "idle"
  /\ ~processing
  /\ check' = [check EXCEPT !.pc = "drain"]
  /\ UNCHANGED <<header, database, process, chain, flags, listeners, call, work,
                 queue, others, network, counters>>

\* clearTimeout(#getBlocksTimer), among the calls.
Disarmed == [c \in Call |-> IF c = timer THEN [call[c] EXCEPT !.armed = FALSE]
                            ELSE call[c]]

\* Mutation: blocks may still wait in the queue.
CheckDrained_AtOnce ==
  /\ check.pc = "drain"
  /\ subscribed' = FALSE
  /\ listening' = FALSE
  /\ call' = Disarmed
  /\ check' = [check EXCEPT !.pc = "common"]
  /\ UNCHANGED <<header, database, process, chain, flags, timer, work, queue,
                 others, network, counters>>

\* The second one until no announced block waits; _removeAllSubscriptions.
CheckDrained ==
  /\ check.pc = "drain"
  /\ inQueue = 0
  /\ subscribed' = FALSE
  /\ listening' = FALSE
  /\ call' = Disarmed
  /\ check' = [check EXCEPT !.pc = "common"]
  /\ UNCHANGED <<header, database, process, chain, flags, timer, work, queue,
                 others, network, counters>>

\* _findLatestValidBlockHeader, whose lookups are taken as one.
FindCommon ==
  /\ check.pc = "common"
  /\ \/ /\ Common = {}
        /\ Stop("unlocated")
        /\ UNCHANGED counters
     \/ /\ Common # {}
        /\ check' = IF CommonBlock = tip.hash
                    THEN [check EXCEPT !.pc = "start"]
                    ELSE [pc |-> "remove", back |-> RowOf(CommonBlock)]
        /\ UNCHANGED <<header, database, process, chain, flags, listeners, call,
                       work, queue, others, network, counters>>

\* _findBlocksToRemove reads the rows down to the common block; #tip is set
\* before anything is removed.
FindBlocksToRemove ==
  /\ check.pc = "remove"
  /\ \/ /\ \A h \in check.back.height .. tip.height : HasRow(blocks, h)
        /\ tip' = check.back
        /\ check' = [check EXCEPT !.pc = "settip"]
        /\ UNCHANGED <<header, database, process, recent, lastSaved, flags,
                       listeners, call, work, queue, others, network, counters>>
     \/ /\ \E h \in check.back.height .. tip.height : ~HasRow(blocks, h)
        /\ Stop("remove")
        /\ UNCHANGED counters

\* Mutation: the tip is not stored before the blocks are removed.
StoreCommonTip_Not ==
  /\ check.pc = "settip"
  /\ check' = [check EXCEPT !.pc = "forget"]
  /\ UNCHANGED <<header, database, process, chain, flags, listeners, call, work,
                 queue, others, network, counters>>

StoreCommonTip ==
  /\ check.pc = "settip"
  /\ storedTip' = check.back
  /\ check' = [check EXCEPT !.pc = "forget"]
  /\ UNCHANGED <<header, blocks, txs, txTip, process, chain, flags, listeners,
                 call, work, queue, others, network, counters>>

\* _processReorg, and the header that _onReorg looks up.
ForgetHashes ==
  /\ check.pc = "forget"
  /\ \/ /\ Held(check.back.hash)
        /\ recent' = {b \in recent : Depth[b] <= check.back.height}
        /\ check' = [check EXCEPT !.pc = "undo"]
        /\ UNCHANGED <<header, database, process, tip, lastSaved, flags,
                       listeners, call, work, queue, others, network, counters>>
     \/ /\ ~Held(check.back.hash)
        /\ Stop("target")
        /\ UNCHANGED counters

\* Mutation: the transactions of the removed blocks stay.
UndoTransactions_Kept ==
  /\ check.pc = "undo"
  /\ check' = [check EXCEPT !.pc = "destroy"]
  /\ UNCHANGED <<header, database, process, chain, flags, listeners, call, work,
                 queue, others, network, counters>>

\* The services' onReorg(), in the reverse of their order.
UndoTransactions ==
  /\ check.pc = "undo"
  /\ txs' = Below(txs, check.back.height)
  /\ check' = [check EXCEPT !.pc = "destroy"]
  /\ UNCHANGED <<header, blocks, storedTip, txTip, process, chain, flags,
                 listeners, call, work, queue, others, network, counters>>

\* Mutation: the common block goes too.
UndoBlocks_Deeper ==
  /\ check.pc = "destroy"
  /\ blocks' = Below(blocks, check.back.height - 1)
  /\ check' = [check EXCEPT !.pc = "start"]
  /\ UNCHANGED <<header, storedTip, txs, txTip, process, chain, flags,
                 listeners, call, work, queue, others, network, counters>>

UndoBlocks ==
  /\ check.pc = "destroy"
  /\ blocks' = Below(blocks, check.back.height)
  /\ check' = [check EXCEPT !.pc = "start"]
  /\ UNCHANGED <<header, storedTip, txs, txTip, process, chain, flags,
                 listeners, call, work, queue, others, network, counters>>

\* getEndHash fails when the header service is not ahead of the block service.
Ahead == TipHeight > tip.height

\* The first _sync, which _startSync awaits.
FirstSync ==
  /\ Ahead
  /\ \E c \in Call :
       /\ call[c].pc = "none"
       /\ call' = [call EXCEPT ![c] = [NoCall EXCEPT !.pc = "ask", !.from = tip,
                                                     !.first = TRUE]]
  /\ processing' = TRUE
  /\ check' = [NoCheck EXCEPT !.pc = "first"]

\* _startSync.  The genesis block is not downloaded but saved at once.
StartSync ==
  LET needed == Depth[last] - tip.height IN
  /\ check.pc = "start"
  /\ \/ /\ needed > 0
        /\ tip.height > 0
        /\ FirstSync
        /\ listening' = TRUE
        /\ reorging' = FALSE
        /\ UNCHANGED <<header, database, process, chain, subscribed, timer, work,
                       queue, others, network, counters>>
     \/ /\ needed > 0
        /\ tip.height = 0
        /\ work' = [work EXCEPT !["genesis"] =
                      [pc |-> "index", row |-> GenesisRow]]
        /\ check' = [NoCheck EXCEPT !.pc = "genesis"]
        /\ listening' = TRUE
        /\ reorging' = FALSE
        /\ UNCHANGED <<header, database, process, chain, processing, subscribed,
                       timer, call, queue, others, network, counters>>
     \/ /\ needed <= 0
        /\ subscribed' = TRUE
        /\ check' = [NoCheck EXCEPT !.pc = "done"]
        /\ reorging' = FALSE
        /\ UNCHANGED <<header, database, process, chain, processing, listening,
                       timer, call, work, queue, others, network, counters>>
     \/ /\ needed > 0 /\ tip.height > 0 /\ ~Ahead
        /\ Stop("misaligned")
        /\ UNCHANGED counters

GenesisSaved ==
  /\ check.pc = "genesis"
  /\ work["genesis"].pc = "saved"
  /\ \/ /\ \/ ~reorging /\ FirstSync
           \/ /\ reorging
              /\ processing' = FALSE
              /\ check' = [NoCheck EXCEPT !.pc = "done"]
              /\ UNCHANGED call
        /\ work' = [work EXCEPT !["genesis"] = NoWork]
        /\ UNCHANGED <<header, database, process, chain, reorging, listeners,
                       queue, others, network, counters>>
     \/ /\ ~reorging /\ ~Ahead
        /\ Stop("misaligned")
        /\ UNCHANGED counters

-----------------------------------------------------------------------------
(* The loop of _sync calls.                                                *)

\* The end of call c, which _startSync may be waiting for.
Ended(c) ==
  check' = IF call[c].first THEN [check EXCEPT !.pc = "done"] ELSE check

\* Mutations: the loop goes on during a reorganization; it stops after a block.
NextSync_Always(c) ==
  IF listening /\ Ahead
  THEN [call EXCEPT ![c] = [NoCall EXCEPT !.pc = "ask", !.from = tip]]
  ELSE [call EXCEPT ![c] = NoCall]
NextSync_Never(c) == [call EXCEPT ![c] = NoCall]

\* emit('next block') at the end of call c: the next _sync, unless nobody
\* listens, a reorganization is on, or getEndHash fails, which is only logged.
NextSync(c) ==
  IF listening /\ ~reorging /\ Ahead
  THEN [call EXCEPT ![c] = [NoCall EXCEPT !.pc = "ask", !.from = tip]]
  ELSE [call EXCEPT ![c] = NoCall]

\* getEndHash's lookup: the header above the tip the call began with.  Without
\* one the loop is over ('synced').
AskHeaders(c) ==
  LET h == call[c].from.height + 1 IN
  /\ call[c].pc = "ask"
  /\ \/ /\ top \in Block
        /\ h <= Depth[top]
        /\ call' = [call EXCEPT ![c].pc = "wait", ![c].want = Branch[top][h],
                                ![c].armed = TRUE]
        /\ timer' = c
        /\ UNCHANGED <<check, processing, subscribed>>
     \/ /\ top \in Block => h > Depth[top]
        /\ processing' = FALSE
        /\ subscribed' = (subscribed \/ listening)
        /\ call' = [call EXCEPT ![c] = NoCall]
        /\ Ended(c)
        /\ UNCHANGED timer
  /\ UNCHANGED <<header, database, process, chain, reorging, listening, work,
                 queue, others, network, counters>>

\* Both timers of a call go off together: 'next block' from the first one, and
\* then the rejection of getP2PBlock, which resets #processingBlock and stops
\* the node when it is the call that _startSync awaits.
Timeout(c) ==
  /\ call[c].pc = "wait"
  /\ \/ ~OnBranch(call[c].want, peer) /\ UNCHANGED timeouts
     \/ /\ OnBranch(call[c].want, peer)
        /\ timeouts < MaxTimeouts
        /\ timeouts' = timeouts + 1
  /\ \/ /\ ~call[c].first
        /\ call' = IF call[c].armed THEN NextSync(c)
                   ELSE [call EXCEPT ![c] = NoCall]
        /\ processing' = FALSE
        /\ UNCHANGED <<header, database, process, chain, reorging, listeners,
                       check, work, queue, others, network>>
     \/ /\ call[c].first
        /\ Stop("timeout")
  /\ UNCHANGED <<crashes, resumes, forks>>

\* The end of _syncBlock.
BlockSynced(c) ==
  LET next == NextSync(c) IN
  /\ call[c].pc = "save"
  /\ work[c].pc = "saved"
  /\ Prompt => announced = {} /\ (stage = "follow" => top = last)
  /\ work' = [work EXCEPT ![c] = NoWork]
  /\ lastSaved' = work[c].row.hash
  /\ Ended(c)
  /\ \/ /\ tip.height < Depth[last]
        /\ call' = next
        /\ processing' = (next[c].pc = "ask")
        /\ UNCHANGED subscribed
     \/ /\ tip.height >= Depth[last]
        /\ call' = [call EXCEPT ![c] = NoCall]
        /\ processing' = FALSE
        /\ subscribed' = (subscribed \/ listening)
  /\ UNCHANGED <<header, database, process, tip, recent, reorging, listening,
                 timer, queue, others, network, counters>>

-----------------------------------------------------------------------------
(* _saveBlock: the other services' onBlock(), the header, the block row,   *)
(* the tip.                                                                *)

Saving(b) == [pc |-> "index", row |-> [height |-> tip.height + 1, hash |-> b]]

\* The transaction service writes the transactions of the block, and then its
\* tip.
IndexTransactions(w) ==
  /\ work[w].pc = "index"
  /\ \/ /\ ~Duplicate(txs, work[w].row)
        /\ txs' = txs \cup {work[w].row}
        /\ work' = [work EXCEPT ![w].pc = "indexed"]
        /\ UNCHANGED <<header, blocks, storedTip, txTip, process, chain, flags,
                       listeners, check, call, queue, others, network, counters>>
     \/ /\ Duplicate(txs, work[w].row)
        /\ Stop("duplicate")
        /\ UNCHANGED counters

UpdateTransactionTip(w) ==
  /\ work[w].pc = "indexed"
  /\ txTip' = work[w].row
  /\ work' = [work EXCEPT ![w].pc = "header"]
  /\ UNCHANGED <<header, blocks, storedTip, txs, process, chain, flags,
                 listeners, check, call, queue, others, network, counters>>

\* The header is looked up again and again until it is there.  Its height is
\* that of the row; the miner is looked up in the transactions at it.
FindHeader(w) ==
  LET b == work[w].row.hash IN
  /\ work[w].pc = "header"
  /\ Held(b)
  /\ \/ /\ HasRow(txs, Depth[b])
        /\ work' = [work EXCEPT ![w].pc = "create"]
        /\ UNCHANGED <<header, database, process, chain, flags, listeners, check,
                       call, queue, others, network, counters>>
     \/ /\ ~HasRow(txs, Depth[b])
        /\ Stop("miner")
        /\ UNCHANGED counters

CreateBlock(w) ==
  LET row == RowOf(work[w].row.hash) IN
  /\ work[w].pc = "create"
  /\ \/ /\ ~Duplicate(blocks, row)
        /\ blocks' = blocks \cup {row}
        /\ work' = [work EXCEPT ![w].pc = "created"]
        /\ UNCHANGED <<header, storedTip, txs, txTip, process, chain, flags,
                       listeners, check, call, queue, others, network, counters>>
     \/ /\ Duplicate(blocks, row)
        /\ Stop("duplicate")
        /\ UNCHANGED counters

SetTip(w) ==
  /\ work[w].pc = "created"
  /\ recent' = Newest(recent \cup {work[w].row.hash})
  /\ tip' = work[w].row
  /\ work' = [work EXCEPT ![w].pc = "store"]
  /\ UNCHANGED <<header, database, process, lastSaved, flags, listeners, check,
                 call, queue, others, network, counters>>

StoreTip(w) ==
  /\ work[w].pc = "store"
  /\ storedTip' = work[w].row
  /\ work' = [work EXCEPT ![w].pc = "saved"]
  /\ UNCHANGED <<header, blocks, txs, txTip, process, chain, flags, listeners,
                 check, call, queue, others, network, counters>>

-----------------------------------------------------------------------------
(* The announced blocks: _queueBlock, _onBlock, _processBlock.             *)

\* How _onBlock begins: it gives up during a reorganization.
Entry == IF reorging THEN "done" ELSE "lookup"

LookupBlock ==
  /\ live = "lookup"
  /\ live' = IF \E r \in blocks : r.hash = running THEN "skip" ELSE "absent"
  /\ UNCHANGED <<header, database, process, chain, flags, listeners, check, call,
                 work, waiting, running, inQueue, others, network, counters>>

\* Mutation: prevHash is not compared with the tip.
ProcessBlock_Any ==
  /\ \/ /\ live = "absent"
        /\ work' = [work EXCEPT !["live"] = Saving(running)]
        /\ live' = "save"
        /\ UNCHANGED processing
     \/ /\ live = "skip"
        /\ live' = "done"
        /\ processing' = FALSE
        /\ UNCHANGED work
  /\ UNCHANGED <<header, database, process, chain, reorging, listeners, check,
                 call, waiting, running, inQueue, others, network, counters>>

\* Mutation: #processingBlock stays set when a block is dropped.
ProcessBlock_Busy ==
  /\ \/ /\ live = "absent"
        /\ Parent[running] = tip.hash
        /\ work' = [work EXCEPT !["live"] = Saving(running)]
        /\ live' = "save"
     \/ /\ \/ live = "skip"
           \/ live = "absent" /\ Parent[running] # tip.hash
        /\ live' = "done"
        /\ UNCHANGED work
  /\ UNCHANGED <<header, database, process, chain, flags, listeners, check,
                 call, waiting, running, inQueue, others, network, counters>>

\* A block that does not follow the tip is dropped.
ProcessBlock ==
  /\ \/ /\ live = "absent"
        /\ Parent[running] = tip.hash
        /\ work' = [work EXCEPT !["live"] = Saving(running)]
        /\ live' = "save"
        /\ UNCHANGED processing
     \/ /\ \/ live = "skip"
           \/ live = "absent" /\ Parent[running] # tip.hash
        /\ live' = "done"
        /\ processing' = FALSE
        /\ UNCHANGED work
  /\ UNCHANGED <<header, database, process, chain, reorging, listeners, check,
                 call, waiting, running, inQueue, others, network, counters>>

BlockSaved ==
  /\ live = "save"
  /\ work["live"].pc = "saved"
  /\ work' = [work EXCEPT !["live"] = NoWork]
  /\ live' = "done"
  /\ processing' = FALSE
  /\ UNCHANGED <<header, database, process, chain, reorging, listeners, check,
                 call, waiting, running, inQueue, others, network, counters>>

\* Mutation: #blocksInQueue is decremented twice.
FinishBlock_Twice ==
  /\ live = "done"
  /\ inQueue' = inQueue - 2
  /\ Queue!Resolve
  /\ live' = IF waiting = <<>> THEN "none" ELSE Entry
  /\ processing' = IF waiting = <<>> THEN processing ELSE ~reorging
  /\ UNCHANGED <<header, database, process, chain, reorging, listeners, check,
                 call, work, others, network, counters>>

FinishBlock ==
  /\ live = "done"
  /\ inQueue' = inQueue - 1
  /\ Queue!Resolve
  /\ live' = IF waiting = <<>> THEN "none" ELSE Entry
  /\ processing' = IF waiting = <<>> THEN processing ELSE ~reorging
  /\ UNCHANGED <<header, database, process, chain, reorging, listeners, check,
                 call, work, others, network, counters>>

-----------------------------------------------------------------------------
(* The peer and the machine.                                               *)

\* Call c waits for block b, or would if it looked for a header now.
Wanted(c, b) ==
  \/ call[c].pc = "wait" /\ call[c].want = b
  \/ call[c].pc = "ask" /\ Held(b) /\ Depth[b] = call[c].from.height + 1

\* The peer moves to a longer chain, and announces its new best block or not.
PeerAdopts ==
  /\ \E b \in Block :
       /\ Depth[b] > Depth[peer]
       /\ \/ OnBranch(peer, b) /\ UNCHANGED forks
          \/ /\ ~OnBranch(peer, b)
             /\ forks < MaxForks
             /\ CalmPeer => \A c \in Call, a \in Block :
                             Wanted(c, a) /\ OnBranch(a, b) => OnBranch(a, peer)
             /\ forks' = forks + 1
       /\ peer' = b
       /\ news' \in IF phase = "run" THEN {b, NoBlock} ELSE {NoBlock}
  /\ UNCHANGED <<header, database, process, chain, flags, listeners, check, call,
                 work, queue, others, crashes, resumes, timeouts>>

\* A block arrives, because it has been announced or because a call waits for
\* it: the calls take it (_syncBlock), and the p2p service broadcasts it to
\* the header service and to this one.
Deliver(b) ==
  LET takers == {c \in Call : call[c].pc = "wait" /\ call[c].want = b}
      again  == takers # {} /\ b = lastSaved
  IN
  /\ OnBranch(b, peer)
  /\ \/ /\ b = news
        /\ subscribed => Len(waiting) < MaxWaiting
        /\ CalmPeer /\ stage = "follow" => check.pc = "none" /\ ~headerReorging
     \/ takers # {}
  /\ news' = IF b = news THEN NoBlock ELSE news
  /\ announced' = IF stage = "follow" /\ ~headerReorging
                  THEN announced \cup {b} ELSE announced
  /\ IF subscribed
     THEN /\ Queue!Push(b)
          /\ inQueue' = inQueue + 1
          /\ live' = IF running = NoBlock THEN Entry ELSE live
     ELSE UNCHANGED queue
  /\ call' = [c \in Call |->
       IF c \in takers
       THEN IF again THEN NoCall ELSE [call[c] EXCEPT !.pc = "save", !.armed = FALSE]
       ELSE IF takers # {} THEN Disarmed[c] ELSE call[c]]
  /\ work' = [w \in Worker |-> IF w \in takers /\ ~again THEN Saving(b) ELSE work[w]]
  /\ check' = IF again /\ \E c \in takers : call[c].first
              THEN [check EXCEPT !.pc = "done"] ELSE check
  /\ processing' = IF again THEN FALSE
                   ELSE IF subscribed /\ running = NoBlock THEN ~reorging
                   ELSE processing
  /\ UNCHANGED <<header, database, process, chain, reorging, listeners,
                 headerReorging, peer, counters>>

\* The process is killed, or another service stops the node.
Crash ==
  /\ phase # "down"
  /\ crashes < MaxCrashes
  /\ crashes' = crashes + 1
  /\ Stop("crash")
  /\ UNCHANGED <<resumes, timeouts, forks>>

-----------------------------------------------------------------------------
BlockInit ==
  /\ Init
  /\ blocks = {}
  /\ storedTip = GenesisRow
  /\ txs = {}
  /\ txTip = GenesisRow
  /\ phase = "down"
  /\ fault = "none"
  /\ tip = GenesisRow
  /\ recent = {}
  /\ processing = FALSE
  /\ inQueue = 0
  /\ reorging = FALSE
  /\ lastSaved = NoBlock
  /\ subscribed = FALSE
  /\ listening = FALSE
  /\ timer = NoBlock
  /\ check = NoCheck
  /\ call = [c \in Call |-> NoCall]
  /\ work = [w \in Worker |-> NoWork]
  /\ Queue!Init
  /\ live = "none"
  /\ headerReorging = FALSE
  /\ announced = {}
  /\ peer \in Block
  /\ news = NoBlock
  /\ crashes = 0 /\ resumes = 0 /\ timeouts = 0 /\ forks = 0

Starting ==
  \/ StartHeader \/ RebuildHeaders \/ HeaderReady \/ StartBlock \/ DestroyAboveTip
  \/ LoadRecentHashes \/ DestroyTransactions \/ StoreTransactionTip

HeaderService ==
  \/ HeaderSyncs \/ HeaderCompletes \/ ReorgComplete
  \/ \E b \in Block : HeaderLooks(b)

Checking ==
  \/ CheckIdle \/ CheckDrained \/ FindCommon \/ FindBlocksToRemove
  \/ StoreCommonTip \/ ForgetHashes \/ UndoTransactions \/ UndoBlocks
  \/ StartSync \/ GenesisSaved

Syncing(c) == AskHeaders(c) \/ BlockSynced(c)

Writing(w) ==
  \/ IndexTransactions(w) \/ UpdateTransactionTip(w) \/ FindHeader(w)
  \/ CreateBlock(w) \/ SetTip(w) \/ StoreTip(w)

Following == LookupBlock \/ ProcessBlock \/ BlockSaved \/ FinishBlock

BlockNext ==
  \/ Starting
  \/ HeaderService
  \/ Checking
  \/ \E c \in Call : Syncing(c) \/ Timeout(c)
  \/ \E w \in Worker : Writing(w)
  \/ Following
  \/ PeerAdopts
  \/ PeerReady
  \/ \E b \in Block : Deliver(b)
  \/ Crash

BlockSpec == BlockInit /\ [][BlockNext]_vars

Progress ==
  \/ HeaderService \/ Checking \/ Following
  \/ \E w \in Worker : Writing(w)
  \/ \E b \in Block : Deliver(b)

Loop == \E c \in Call : Syncing(c) \/ Timeout(c)

FairSpec == BlockSpec /\ WF_vars(Progress) /\ WF_vars(Loop)

-----------------------------------------------------------------------------
(* Properties.                                                             *)

CallState == [pc : {"none", "ask", "wait", "save"}, from : Row,
              want : Block \cup {NoBlock}, first : BOOLEAN, armed : BOOLEAN]

WorkState == [pc : {"none", "index", "indexed", "header", "create", "created",
                    "store", "saved"}, row : Row]

CheckState == [pc : {"none", "idle", "drain", "common", "remove", "settip",
                     "forget", "undo", "destroy", "start", "genesis", "first",
                     "done"}, back : Row]

TypeOK ==
  /\ top \in Block \cup {NoBlock}
  /\ last \in Block
  /\ stage \in {"down", "start", "sync", "follow"}
  /\ cut \in Block \cup {NoBlock}
  /\ blocks \subseteq Row
  /\ storedTip \in Row
  /\ txs \subseteq Row
  /\ txTip \in Row
  /\ phase \in {"down", "header", "block", "destroy", "load", "transaction",
                "store", "run"}
  /\ fault \in {"none", "crash", "reset", "unlocated", "remove", "target",
                "misaligned", "timeout", "duplicate", "miner"}
  /\ tip \in Row
  /\ recent \subseteq Block
  /\ processing \in BOOLEAN
  /\ inQueue \in Nat
  /\ reorging \in BOOLEAN
  /\ lastSaved \in Block \cup {NoBlock}
  /\ subscribed \in BOOLEAN
  /\ listening \in BOOLEAN
  /\ timer \in Call \cup {NoBlock}
  /\ check \in CheckState
  /\ call \in [Call -> CallState]
  /\ work \in [Worker -> WorkState]
  /\ waiting \in Seq(Block)
  /\ running \in Block \cup {NoBlock}
  /\ live \in {"none", "lookup", "skip", "absent", "save", "done"}
  /\ headerReorging \in BOOLEAN
  /\ announced \subseteq Block
  /\ peer \in Block
  /\ news \in Block \cup {NoBlock}
  /\ crashes \in Nat /\ resumes \in Nat /\ timeouts \in Nat /\ forks \in Nat


\* The calls that are saving a block.
Saver == {w \in Worker : work[w].pc # "none"}

\* A block is never saved by two calls at a time, nor two blocks: the queue of
\* announced blocks, the loop of a sync and a reorganization stay out of each
\* other's way, although only #processingBlock, #blocksInQueue and #reorging,
\* which they all set, keep them apart.
OneSaver ==
  /\ Cardinality(Saver) <= 1
  /\ check.pc \in {"common", "remove", "settip", "forget", "undo", "destroy",
                   "start"} => Saver = {}

\* The block table is one whole branch of the block tree, from the genesis
\* block up: a block is only saved above its parent, by _syncBlock too, which
\* does not look at prevHash, and a reorganization or a start cut anywhere by
\* a crash leave no gap.
BlocksWhole == blocks = {} \/ \E b \in Block : blocks = RowsOf(b)

\* The blocks at and below the stored tip, those that a restart keeps.
Committed == Below(blocks, storedTip.height)

\* The transactions of every committed block are in the database, at any
\* moment: they are written before the tip of the block, and it goes back
\* before they are removed.
CommittedIndexed == Committed \subseteq txs

\* No call of the block service is in the middle of its writes.
Quiet ==
  /\ phase = "run"
  /\ Saver = {}
  /\ check.pc \notin {"settip", "forget", "undo", "destroy"}

\* Between two saves or reorganizations, and after a restart, the tip in
\* memory, the stored tip, the block table and the transactions stand for the
\* same branch.
Agree ==
  Quiet => IF tip.height = 0 THEN blocks \cup txs \subseteq {GenesisRow}
           ELSE /\ storedTip = tip
                /\ blocks = RowsOf(tip.hash)
                /\ txs = blocks

\* A start finds the block of its tip, a reorganization the common block, the
\* blocks that it removes and the header it goes back to, a sync a header
\* service that is ahead of it, and a save the transactions of its block; and
\* no row is inserted twice but those of the genesis block, before block 1 is
\* committed (SavedAgain).  Not among these: the block that _startSync awaits does
\* not come.
NoSelfMadeStop ==
  /\ fault \notin {"reset", "unlocated", "remove", "target", "misaligned", "miner"}
  /\ fault = "duplicate" => storedTip = GenesisRow

\* The committed blocks are IndexedChain.
Index == INSTANCE IndexedChain WITH
  committed <- IF Committed = RowsOf(storedTip.hash) THEN storedTip.hash
               ELSE NoBlock
IndexSpec == Index!Spec

\* A save that waits for the header of a block which a reorganization of the
\* header service has removed meanwhile: __onBlock looks for it for ever.
Orphaned == \E w \in Worker : work[w].pc = "header" /\ ~Held(work[w].row.hash)

Behind == phase = "run" /\ tip.hash # last /\ OnBranch(last, peer)

\* The index reaches the header service's last header, when that is on the
\* peer's branch: whether blocks come through the loop or the queue, and
\* whatever reorganization falls in between, nothing is left waiting but an
\* orphaned save.
CatchesUp == Behind ~> (~Behind \/ Orphaned)

\* onHeaders() comes to its end, which the header service awaits before it
\* leaves a reorganization.
HeadersReturn == check.pc # "none" ~> (check.pc = "none" \/ Orphaned)

\* What doc/deploy.md relies on when it has the process restarted: a block
\* that was being saved at a crash can be saved after it (the primary and
\* unique keys of doc/structure.sql refuse no row).
SavedAgain == fault # "duplicate"

\* What _checkTip logs of a tip that the header table has too: 'saved tip is
\* good to go', the blocks need no reorganization.
SavedTipGood ==
  check.pc = "common" /\ Held(tip.hash) => BlocksWhole
=============================================================================
