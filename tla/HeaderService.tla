---------------------------- MODULE HeaderService ----------------------------
(***************************************************************************)
(* src/node/services/header.js: the service that keeps the header table.   *)
(*                                                                         *)
(* At a start it goes back Rewind headers from the tip it has stored,      *)
(* deletes the rows above and downloads headers from there, MaxHeaders at  *)
(* a time (a "round").  A round that comes back short ends the sync: the   *)
(* other services are told, and from then on the service follows the       *)
(* blocks the peer announces, one at a time through an AsyncQueue.  A      *)
(* block that does not extend the last header makes it go back Rewind      *)
(* headers and sync again.                                                 *)
(*                                                                         *)
(* The code is single-threaded and asynchronous: an action is what runs    *)
(* between two awaits, or one operation of the database, whose result the  *)
(* code only sees at a later action.  What the database holds survives a   *)
(* stop of the process, everything else is lost with it.                   *)
(***************************************************************************)
EXTENDS BlockTree, Sequences, SequencesExt

CONSTANTS
  Stalled,        \* the value of AsyncQueue's running after a rejection
  Rewind,         \* how far a start and a reorganization go back (2000)
  MaxHeaders,     \* headers in one message (2000)
  Round,          \* identities of the header rounds in flight at one time
  CalmPeer,       \* whether a block only reaches the service when no round
                  \* of headers, and no call to the services, is unfinished,
                  \* and a peer is only lost for longer than a write takes
  MaxCrashes,     \* bounds: crashes of the process,
  MaxReconnects,  \* times the connection is lost and made again,
  MaxOthers,      \* further peers that become ready,
  MaxServed,      \* blocks sent because the block service asked for them,
  MaxInbox        \* blocks on their way from the peer

ASSUME ParameterAssumption ==
  /\ Rewind \in Nat \ {0}
  /\ MaxHeaders \in Nat \ {0}
  /\ MaxHeaders <= Rewind
  /\ CalmPeer \in BOOLEAN
  /\ MaxCrashes \in Nat
  /\ MaxReconnects \in Nat
  /\ MaxOthers \in Nat
  /\ MaxServed \in Nat
  /\ MaxInbox \in Nat
  /\ Stalled \notin Block \cup {NoBlock}

VARIABLES
  \* the database
  rows,           \* the header table
  storedTip,      \* the row 'header' of the tip table
  \* the process
  phase,          \* where start() is, "run" once it is over, or "down"
  fault,          \* why the process last stopped
  tip,            \* #tip
  lastHeader,     \* #lastHeader
  originalHeight, \* #originalHeight
  bestHeight,     \* _bestHeight
  initialSync,    \* #initialSync
  reorging,       \* #reorging
  lastCount,      \* #lastHeaderCount
  subs,           \* what #bus is subscribed to
  polls,          \* intervals of _startSync that have not fired for good
  round,          \* the rounds: the request, the message, its _onHeaders
  notifying,      \* _onHeadersSave calls that await the services
  waiting,        \* #blockProcessor
  running,
  live,           \* the _processBlocks call of the running block
  \* the network
  peerTip,        \* the best block of the peer
  connected,      \* a peer is ready
  inbox,          \* blocks on their way from the peer
  \* how much of each bound is used
  crashes, reconnects, others, served

database == <<rows, storedTip>>
heights == <<tip, lastHeader, originalHeight>>
control == <<initialSync, reorging, lastCount, subs, polls, notifying>>
queue == <<waiting, running, live>>
network == <<peerTip, connected, inbox>>
counters == <<crashes, reconnects, others, served>>
process == <<phase, fault>>

vars == <<database, process, heights, bestHeight, control, round, queue,
          network, counters>>

Queue == INSTANCE AsyncQueue WITH Item <- Block, NoItem <- NoBlock

-----------------------------------------------------------------------------
(* The helpers of the handlers.                                            *)

NoRound == [pc |-> "idle", from |-> GenesisRow, batch |-> <<>>,
            tip |-> GenesisRow]

NoCall == [pc |-> "none", row |-> GenesisRow]

Larger(a, b) == IF a >= b THEN a ELSE b

\* Mutations: no floor at the genesis block; one header too far.
Checkpoint_NoFloor(t) == [height |-> t.height - Rewind, hash |-> t.hash]
Checkpoint_Deeper(t) ==
  IF t.height <= Rewind THEN GenesisRow
  ELSE [height |-> t.height - Rewind - 1, hash |-> t.hash]

\* _adjustTipBackToCheckpoint: the hash is left as it was, except that of
\* the genesis block.
Checkpoint(t) ==
  IF t.height < Rewind THEN GenesisRow
  ELSE [height |-> t.height - Rewind, hash |-> t.hash]

\* The rows _onHeaders makes of a message whose headers follow base.
NewRows(base, batch) ==
  {[height |-> base.height + i, hash |-> batch[i]] : i \in 1 .. Len(batch)}

\* The database refuses a row whose height (the primary key) or hash (a
\* unique column) it already holds.
Duplicate(new) ==
  \E n \in new : \E r \in rows : n.height = r.height \/ n.hash = r.hash

\* The headers a peer answers to getheaders: those that follow the locator
\* on its best chain, from the first one when the locator is not on it.
Answer(locator) ==
  LET base == IF OnBranch(locator, peerTip) THEN Depth[locator] ELSE 0
      left == Depth[peerTip] - base
      n    == IF left <= MaxHeaders THEN left ELSE MaxHeaders
  IN  [i \in 1 .. n |-> Branch[peerTip][base + i]]

\* Mutation: the order of the headers is not checked.
InOrder_Unchecked(batch) == TRUE

\* The assertion of _onHeaders: every header follows the one before it.
InOrder(batch) ==
  \A i \in 1 .. Len(batch) :
    Parent[batch[i]] = IF i = 1 THEN lastHeader.hash ELSE batch[i-1]

\* The values of the process's variables when it starts.
Boot ==
  /\ tip' = GenesisRow
  /\ lastHeader' = GenesisRow
  /\ originalHeight' = 0
  /\ bestHeight' = 0
  /\ initialSync' = TRUE
  /\ reorging' = FALSE
  /\ lastCount' = MaxHeaders
  /\ subs' = {}
  /\ polls' = 0
  /\ round' = [r \in Round |-> NoRound]
  /\ notifying' = 0
  /\ waiting' = <<>>
  /\ running' = NoBlock
  /\ live' = NoCall
  /\ connected' = FALSE
  /\ inbox' = <<>>

\* node.stop(), and process.exit() in the end: no handler runs after it.
Stop(reason) ==
  /\ phase' = "down"
  /\ fault' = reason
  /\ Boot

-----------------------------------------------------------------------------
(* start().                                                                *)

\* The stored tip is read and moved back.  Going back to height 0 by a
\* subtraction leaves the hash of the stored tip, which _setGenesisBlock
\* asserts to be that of the genesis block.
Start ==
  /\ phase = "down"
  /\ LET back == Checkpoint(storedTip) IN
     IF back.height = 0 /\ back.hash # Genesis
     THEN Stop("genesis") /\ UNCHANGED <<database, peerTip, counters>>
     ELSE /\ originalHeight' = storedTip.height
          /\ tip' = back
          /\ phase' = IF back.height = 0 THEN "truncate" ELSE "destroy"
          /\ fault' = "none"
          /\ UNCHANGED <<database, lastHeader, bestHeight, control, round,
                         queue, network, counters>>

TruncateHeaders ==
  /\ phase = "truncate"
  /\ rows' = {}
  /\ phase' = "create"
  /\ UNCHANGED <<storedTip, fault, heights, bestHeight, control, round,
                 queue, network, counters>>

CreateGenesis ==
  /\ phase = "create"
  /\ rows' = {GenesisRow}
  /\ lastHeader' = GenesisRow
  /\ phase' = "destroy"
  /\ UNCHANGED <<storedTip, fault, tip, originalHeight, bestHeight, control,
                 round, queue, network, counters>>

DestroyAboveTip ==
  /\ phase = "destroy"
  /\ rows' = {r \in rows : r.height <= tip.height}
  /\ phase' = "find"
  /\ UNCHANGED <<storedTip, fault, heights, bestHeight, control, round,
                 queue, network, counters>>

\* Without a row at the checkpoint, lastHeader.height is that of null.
FindCheckpoint ==
  /\ phase = "find"
  /\ \/ \E r \in rows :
          /\ r.height = tip.height
          /\ lastHeader' = r
          /\ tip' = r
          /\ phase' = "run"
          /\ UNCHANGED <<database, fault, originalHeight, bestHeight,
                         control, round, queue, network, counters>>
     \/ /\ \A r \in rows : r.height # tip.height
        /\ Stop("missing")
        /\ UNCHANGED <<database, peerTip, counters>>

-----------------------------------------------------------------------------
(* The sync: _onBestHeight, _startSync, _sync, _onHeaders, _onHeadersSave. *)

\* _startSync: every subscription is dropped and an interval set.
StartSync ==
  /\ initialSync' = TRUE
  /\ subs' = {}
  /\ polls' = polls + 1

\* A peer is ready: the first one after a start.
PeerReady ==
  /\ phase = "run"
  /\ ~connected
  /\ connected' = TRUE
  /\ bestHeight' = Depth[peerTip]
  /\ StartSync
  /\ UNCHANGED <<database, process, heights, reorging, lastCount, notifying,
                 round, queue, peerTip, inbox, counters>>

\* Nothing the service has begun with a message or a block is unfinished.
Settled ==
  /\ polls = 0
  /\ notifying = 0
  /\ \A r \in Round : round[r].pc \in {"idle", "asked", "answered"}
  /\ live.pc = "none"

\* The connection is lost, with what was on its way, and made again.
Reconnect ==
  /\ connected
  /\ reconnects < MaxReconnects
  /\ CalmPeer => Settled
  /\ reconnects' = reconnects + 1
  /\ round' = [r \in Round |->
                 IF round[r].pc \in {"asked", "answered"} THEN NoRound
                 ELSE round[r]]
  /\ inbox' = <<>>
  /\ bestHeight' = Depth[peerTip]
  /\ StartSync
  /\ UNCHANGED <<database, process, heights, reorging, lastCount, notifying,
                 queue, peerTip, connected, crashes, others, served>>

\* A further peer is ready.  The best height of the peers is the highest
\* they announced when they became ready.
OtherPeerReady ==
  /\ connected
  /\ others < MaxOthers
  /\ others' = others + 1
  /\ \E h \in 0 .. Depth[peerTip] : bestHeight' = Larger(bestHeight, h)
  /\ StartSync
  /\ UNCHANGED <<database, process, heights, reorging, lastCount, notifying,
                 round, queue, network, crashes, reconnects, served>>

\* getheaders for what follows the tip, as a round r.
Sync(r) ==
  /\ subs' = subs \cup {"headers"}
  /\ round' = [round EXCEPT ![r] = [NoRound EXCEPT !.pc = "asked",
                                                   !.from = tip]]

\* The interval of _startSync fires, with no block waiting (the running one
\* does not count).
Poll ==
  LET needed == Larger(bestHeight, originalHeight) - tip.height IN
  /\ polls > 0
  /\ waiting = <<>>
  /\ \/ /\ needed > 0
        /\ polls' = polls - 1
        /\ \E r \in Round : round[r].pc = "idle" /\ Sync(r)
        /\ UNCHANGED <<database, process, heights, bestHeight, initialSync,
                       reorging, lastCount, notifying, queue, network,
                       counters>>
     \/ /\ needed = 0
        /\ polls' = polls - 1
        /\ UNCHANGED <<database, process, heights, bestHeight, initialSync,
                       reorging, lastCount, subs, notifying, round, queue,
                       network, counters>>
     \/ /\ needed < 0
        /\ Stop("needed")
        /\ UNCHANGED <<database, peerTip, counters>>

PeerAnswers(r) ==
  /\ round[r].pc = "asked"
  /\ round' = [round EXCEPT ![r].pc = "answered",
                            ![r].batch = Answer(round[r].from.hash),
                            ![r].from = GenesisRow]
  /\ UNCHANGED <<database, process, heights, bestHeight, control, queue,
                 network, counters>>

\* Mutation: #initialSync is not reset.
SyncComplete_Still ==
  /\ subs' = {"block"}
  /\ initialSync' = initialSync
  /\ notifying' = IF initialSync THEN notifying + 1 ELSE notifying

\* The end of a sync, in _onHeadersSave: from here on the service follows
\* the announced blocks; the first call since _startSync tells the services.
SyncComplete ==
  /\ subs' = {"block"}
  /\ initialSync' = FALSE
  /\ notifying' = IF initialSync THEN notifying + 1 ELSE notifying

\* The bus hands the message to nobody when the service has unsubscribed.
HeadersIgnored(r) ==
  /\ round[r].pc = "answered"
  /\ "headers" \notin subs
  /\ round' = [round EXCEPT ![r] = NoRound]
  /\ UNCHANGED <<database, process, heights, bestHeight, control, queue,
                 network, counters>>

\* An empty message calls _onHeadersSave twice: at once, and after the tip
\* has been stored.
OnNoHeaders(r) ==
  /\ round[r].pc = "answered"
  /\ "headers" \in subs
  /\ round[r].batch = <<>>
  /\ lastCount' = 0
  /\ SyncComplete
  /\ round' = [round EXCEPT ![r] = [NoRound EXCEPT !.pc = "store",
                                                   !.tip = tip]]
  /\ UNCHANGED <<database, process, heights, bestHeight, reorging, polls,
                 queue, network, counters>>

\* The headers are linked and numbered in memory before they are stored.
OnHeaders(r) ==
  LET batch == round[r].batch
      n     == Len(batch)
      last  == [height |-> lastHeader.height + n, hash |-> batch[n]]
  IN
  /\ round[r].pc = "answered"
  /\ "headers" \in subs
  /\ batch # <<>>
  /\ \/ /\ InOrder(batch)
        /\ lastCount' = n
        /\ lastHeader' = last
        /\ tip' = last
        /\ round' = [round EXCEPT ![r].pc = "insert", ![r].from = lastHeader]
        /\ UNCHANGED <<database, process, originalHeight, bestHeight,
                       initialSync, reorging, subs, polls, notifying, queue,
                       network, counters>>
     \/ /\ ~InOrder(batch)
        /\ Stop("order")
        /\ UNCHANGED <<database, peerTip, counters>>

\* Mutation: the headers are never written.
InsertHeaders_Lost(r) ==
  /\ round[r].pc = "insert"
  /\ round' = [round EXCEPT ![r] = [NoRound EXCEPT !.pc = "inserted"]]
  /\ UNCHANGED <<database, process, heights, bestHeight, control, queue,
                 network, counters>>

InsertHeaders(r) ==
  LET new == NewRows(round[r].from, round[r].batch) IN
  /\ round[r].pc = "insert"
  /\ \/ /\ ~Duplicate(new)
        /\ rows' = rows \cup new
        /\ round' = [round EXCEPT ![r] = [NoRound EXCEPT !.pc = "inserted"]]
        /\ UNCHANGED <<storedTip, process, heights, bestHeight, control,
                       queue, network, counters>>
     \/ /\ Duplicate(new)
        /\ Stop("duplicate")
        /\ UNCHANGED <<database, peerTip, counters>>

\* updateServiceTip reads the tip when it is called.
UpdateTip(r) ==
  /\ round[r].pc = "inserted"
  /\ round' = [round EXCEPT ![r].pc = "store", ![r].tip = tip]
  /\ UNCHANGED <<database, process, heights, bestHeight, control, queue,
                 network, counters>>

StoreTip(r) ==
  /\ round[r].pc = "store"
  /\ storedTip' = round[r].tip
  /\ round' = [round EXCEPT ![r] = [NoRound EXCEPT !.pc = "stored"]]
  /\ UNCHANGED <<rows, process, heights, bestHeight, control, queue, network,
                 counters>>

\* A full message is followed by the next request.
OnHeadersSave(r) ==
  /\ round[r].pc = "stored"
  /\ \/ /\ lastCount >= MaxHeaders
        /\ Sync(r)
        /\ UNCHANGED <<initialSync, notifying>>
     \/ /\ lastCount < MaxHeaders
        /\ SyncComplete
        /\ round' = [round EXCEPT ![r] = NoRound]
  /\ UNCHANGED <<database, process, heights, bestHeight, reorging, lastCount,
                 polls, queue, network, counters>>

\* Every service's onHeaders() has been awaited: 'reorg complete'.
ServicesNotified ==
  /\ notifying > 0
  /\ notifying' = notifying - 1
  /\ reorging' = FALSE
  /\ UNCHANGED <<database, process, heights, bestHeight, initialSync,
                 lastCount, subs, polls, round, queue, network, counters>>

-----------------------------------------------------------------------------
(* The announced blocks: _queueBlock, _processBlocks, _persistHeader.      *)

\* Mutation: blocks are handled during a reorganization.
Entry_Always == [NoCall EXCEPT !.pc = "lookup"]

\* How _processBlocks begins: it gives up at once during a reorganization.
Entry == [NoCall EXCEPT !.pc = IF reorging THEN "done" ELSE "lookup"]

\* No round, and no call to the services, is unfinished.
Calm ==
  /\ notifying = 0
  /\ \A r \in Round : round[r].pc = "idle"

DeliverBlock ==
  /\ inbox # <<>>
  /\ inbox' = Tail(inbox)
  /\ \/ /\ "block" \in subs
        /\ CalmPeer => Calm
        /\ Queue!Push(Head(inbox))
        /\ live' = IF running = NoBlock THEN Entry ELSE live
     \/ /\ "block" \notin subs
        /\ UNCHANGED queue
  /\ UNCHANGED <<database, process, heights, bestHeight, control, round,
                 peerTip, connected, counters>>

\* Header.findByHash runs in the database.
LookupBlock ==
  /\ live.pc = "lookup"
  /\ live' = [live EXCEPT !.pc = IF \E r \in rows : r.hash = running
                                 THEN "done" ELSE "absent"]
  /\ UNCHANGED <<database, process, heights, bestHeight, control, round,
                 waiting, running, network, counters>>

\* Mutation: a reorganization can be missed.
ExtendHeader_Any ==
  LET last == [height |-> lastHeader.height + 1, hash |-> running] IN
  /\ live.pc = "absent"
  /\ lastHeader' = last
  /\ tip' = last
  /\ live' = [live EXCEPT !.pc = "save", !.row = last]
  /\ UNCHANGED <<database, process, originalHeight, bestHeight, control,
                 round, waiting, running, network, counters>>

\* _syncBlock: the block extends the last header.
ExtendHeader ==
  LET last == [height |-> lastHeader.height + 1, hash |-> running] IN
  /\ live.pc = "absent"
  /\ Parent[running] = lastHeader.hash
  /\ lastHeader' = last
  /\ tip' = last
  /\ live' = [live EXCEPT !.pc = "save", !.row = last]
  /\ UNCHANGED <<database, process, originalHeight, bestHeight, control,
                 round, waiting, running, network, counters>>

\* _detectReorg, _handleReorg: it does not.
DetectReorg ==
  LET back == Checkpoint(tip) IN
  /\ live.pc = "absent"
  /\ Parent[running] # lastHeader.hash
  /\ reorging' = TRUE
  /\ originalHeight' = tip.height
  /\ tip' = back
  /\ live' = [live EXCEPT !.pc = "destroy", !.row = back]
  /\ UNCHANGED <<database, process, lastHeader, bestHeight, initialSync,
                 lastCount, subs, polls, notifying, round, waiting, running,
                 network, counters>>

SaveHeader ==
  /\ live.pc = "save"
  /\ \/ /\ ~Duplicate({live.row})
        /\ rows' = rows \cup {live.row}
        /\ live' = [NoCall EXCEPT !.pc = "saved"]
        /\ UNCHANGED <<storedTip, process, heights, bestHeight, control,
                       round, waiting, running, network, counters>>
     \/ /\ Duplicate({live.row})
        /\ Stop("duplicate")
        /\ UNCHANGED <<database, peerTip, counters>>

UpdateLiveTip ==
  /\ live.pc = "saved"
  /\ live' = [live EXCEPT !.pc = "store", !.row = tip]
  /\ UNCHANGED <<database, process, heights, bestHeight, control, round,
                 waiting, running, network, counters>>

StoreLiveTip ==
  /\ live.pc = "store"
  /\ storedTip' = live.row
  /\ live' = [NoCall EXCEPT !.pc = "done"]
  /\ UNCHANGED <<rows, process, heights, bestHeight, control, round, waiting,
                 running, network, counters>>

\* Mutation: the rows above the checkpoint are kept.
DestroyHeaders_Kept ==
  /\ live.pc = "destroy"
  /\ live' = [NoCall EXCEPT !.pc = "find"]
  /\ UNCHANGED <<database, process, heights, bestHeight, control, round,
                 waiting, running, network, counters>>

DestroyHeaders ==
  /\ live.pc = "destroy"
  /\ rows' = {r \in rows : r.height <= live.row.height}
  /\ live' = [NoCall EXCEPT !.pc = "find"]
  /\ UNCHANGED <<storedTip, process, heights, bestHeight, control, round,
                 waiting, running, network, counters>>

\* Mutation: no sync follows the rewind.
FindHeader_NoSync ==
  /\ live.pc = "find"
  /\ \E r \in rows :
       /\ r.height = tip.height
       /\ lastHeader' = r
       /\ tip' = r
  /\ live' = [live EXCEPT !.pc = "done"]
  /\ UNCHANGED <<database, process, originalHeight, bestHeight, control,
                 round, waiting, running, network, counters>>

\* _persistHeader then starts the sync without awaiting it.
FindHeader ==
  /\ live.pc = "find"
  /\ \/ \E r \in rows :
          /\ r.height = tip.height
          /\ lastHeader' = r
          /\ tip' = r
          /\ StartSync
          /\ live' = [live EXCEPT !.pc = "done"]
          /\ UNCHANGED <<database, process, originalHeight, bestHeight,
                         reorging, lastCount, notifying, round, waiting,
                         running, network, counters>>
     \/ /\ \A r \in rows : r.height # tip.height
        /\ Stop("rewound")
        /\ UNCHANGED <<database, peerTip, counters>>

\* The queue goes on with the newest waiting block.
FinishBlock ==
  /\ live.pc = "done"
  /\ Queue!Resolve
  /\ live' = IF waiting = <<>> THEN NoCall ELSE Entry
  /\ UNCHANGED <<database, process, heights, bestHeight, control, round,
                 network, counters>>

-----------------------------------------------------------------------------
(* The peer and the machine.                                               *)

\* The peer moves to a longer chain.  It announces its new best block, or
\* not when it is about to move on.
PeerAdopts ==
  /\ \E b \in Block :
       /\ Depth[b] > Depth[peerTip]
       /\ peerTip' = b
       /\ \/ UNCHANGED inbox
          \/ /\ connected
             /\ Len(inbox) < MaxInbox
             /\ inbox' = Append(inbox, b)
  /\ UNCHANGED <<database, process, heights, bestHeight, control, round,
                 queue, connected, counters>>

\* A block of the peer's chain that the block service has asked for: the p2p
\* service broadcasts it to every subscriber.
PeerServes ==
  /\ connected
  /\ served < MaxServed
  /\ Len(inbox) < MaxInbox
  /\ served' = served + 1
  /\ \E d \in 0 .. Depth[peerTip] :
       inbox' = Append(inbox, Branch[peerTip][d])
  /\ UNCHANGED <<database, process, heights, bestHeight, control, round,
                 queue, peerTip, connected, crashes, reconnects, others>>

\* The process is killed, or another service stops the node.
Crash ==
  /\ phase # "down"
  /\ crashes < MaxCrashes
  /\ crashes' = crashes + 1
  /\ Stop("crash")
  /\ UNCHANGED <<database, peerTip, reconnects, others, served>>

-----------------------------------------------------------------------------
Init ==
  /\ rows = {}
  /\ storedTip = GenesisRow
  /\ phase = "down"
  /\ fault = "none"
  /\ tip = GenesisRow
  /\ lastHeader = GenesisRow
  /\ originalHeight = 0
  /\ bestHeight = 0
  /\ initialSync = TRUE
  /\ reorging = FALSE
  /\ lastCount = MaxHeaders
  /\ subs = {}
  /\ polls = 0
  /\ round = [r \in Round |-> NoRound]
  /\ notifying = 0
  /\ Queue!Init
  /\ live = NoCall
  /\ peerTip \in Block
  /\ connected = FALSE
  /\ inbox = <<>>
  /\ crashes = 0 /\ reconnects = 0 /\ others = 0 /\ served = 0

Starting ==
  \/ Start \/ TruncateHeaders \/ CreateGenesis \/ DestroyAboveTip
  \/ FindCheckpoint

Syncing(r) ==
  \/ HeadersIgnored(r) \/ OnNoHeaders(r) \/ OnHeaders(r)
  \/ InsertHeaders(r) \/ UpdateTip(r) \/ StoreTip(r) \/ OnHeadersSave(r)

Following ==
  \/ LookupBlock \/ ExtendHeader \/ DetectReorg \/ SaveHeader
  \/ UpdateLiveTip \/ StoreLiveTip \/ DestroyHeaders \/ FindHeader
  \/ FinishBlock

Environment ==
  \/ PeerReady \/ Reconnect \/ OtherPeerReady \/ PeerAdopts \/ PeerServes
  \/ Crash

Next ==
  \/ Starting
  \/ Poll
  \/ \E r \in Round : PeerAnswers(r) \/ Syncing(r)
  \/ ServicesNotified
  \/ DeliverBlock
  \/ Following
  \/ Environment

Spec == Init /\ [][Next]_vars

\* The process and the network make progress: handlers run, the database and
\* the peer answer, the services return, the process is started again.
Fairness ==
  /\ WF_vars(Starting)
  /\ WF_vars(PeerReady)
  /\ WF_vars(Poll)
  /\ \A r \in Round : WF_vars(PeerAnswers(r)) /\ WF_vars(Syncing(r))
  /\ WF_vars(ServicesNotified)
  /\ WF_vars(DeliverBlock)
  /\ WF_vars(Following)

FairSpec == Spec /\ Fairness

-----------------------------------------------------------------------------
(* Properties.                                                             *)

RoundState == [pc : {"idle", "asked", "answered", "insert", "inserted",
                     "store", "stored"},
               from : Row, batch : Seq(Block), tip : Row]

LiveState == [pc : {"none", "done", "lookup", "absent", "save", "saved",
                    "store", "destroy", "find"},
              row : Row]

TypeOK ==
  /\ rows \subseteq Row
  /\ storedTip \in Row
  /\ phase \in {"down", "truncate", "create", "destroy", "find", "run"}
  /\ fault \in {"none", "genesis", "missing", "rewound", "needed", "order",
                "duplicate", "crash"}
  /\ tip \in Row
  /\ lastHeader \in Row
  /\ originalHeight \in Nat
  /\ bestHeight \in Nat
  /\ initialSync \in BOOLEAN
  /\ reorging \in BOOLEAN
  /\ lastCount \in Nat
  /\ subs \subseteq {"headers", "block"}
  /\ polls \in Nat
  /\ round \in [Round -> RoundState]
  /\ notifying \in Nat
  /\ waiting \in Seq(Block)
  /\ running \in Block \cup {NoBlock}
  /\ live \in LiveState
  /\ peerTip \in Block
  /\ connected \in BOOLEAN
  /\ inbox \in Seq(Block)
  /\ crashes \in Nat /\ reconnects \in Nat /\ others \in Nat
  /\ served \in Nat

\* Every header row, and the last header, has the height of its block in the
\* chain, although heights are counted from a last header kept in memory
\* that a start, a round of headers, a block and a reorganization all set.
HeightsTrue ==
  /\ \A r \in rows : r.height = Depth[r.hash]
  /\ lastHeader.height = Depth[lastHeader.hash]

\* The header table is one whole branch: after a crash at any point, during
\* a download, a reorganization or a start, there is neither a gap nor a
\* row of another branch (HeaderChain).
WholeBranch == rows = {} \/ \E b \in Block : rows = RowsOf(b)

\* A start always finds the row it goes back to: the stored tip is never
\* more than Rewind above the end of the table, whatever was being written.
Recoverable ==
  storedTip.height >= Rewind =>
    \E r \in rows : r.height = storedTip.height - Rewind

\* The number of headers needed is never negative, no header is inserted twice, and
\* no row is missed that a start or a reorganization goes back to; the assertion of
\* a start fails at one height of the stored tip only (StartsFromGenesis).  Not
\* among these: a peer that changes its branch between two messages
\* (HeadersArriveInOrder).
NoSelfMadeStop ==
  /\ fault \notin {"needed", "duplicate", "missing", "rewound"}
  /\ fault = "genesis" => storedTip.height = Rewind

\* The rounds of a sync and the handling of a block never write the header
\* table at the same time.
OneWriter ==
  live.pc \in {"absent", "save", "saved", "store", "destroy", "find"} =>
    \A r \in Round : round[r].pc = "idle"

\* A tip is only stored when its header row is in the table.
TipAfterRow == [][storedTip' # storedTip => storedTip' \in rows]_vars

\* A sync that a ready peer or a reorganization starts comes to its end.
SyncEnds ==
  (initialSync /\ connected /\ bestHeight > 0) ~>
    (~initialSync \/ ~connected)

\* A block that reached the queue gets its header row, through the queue or
\* through the sync that follows a reorganization, whatever order the queue
\* takes its blocks in, unless the peer leaves its branch.
QueuedBlockIndexed ==
  \A b \in Block :
    (\/ b = running /\ live.pc # "done"
     \/ Contains(waiting, b)) ~>
      (\/ \E r \in rows : r.hash = b
       \/ ~OnBranch(b, peerTip)
       \/ phase # "run")

\* What _setGenesisBlock asserts at a start: going back to height 0 means
\* going back to the genesis block ('Expected tip hash to be genesis hash').
StartsFromGenesis == fault # "genesis"

\* What _onHeaders asserts: a message goes on where the last one ended
\* ('headers not in order').
HeadersArriveInOrder == fault # "order"

\* The header table as the chain it stands for.
Chain == INSTANCE HeaderChain WITH index <- rows
ChainSpec == Chain!Spec

\* What the other services see of the header service: BlockService is composed
\* with it.
GoingBack == live.pc \in {"destroy", "find"}

FeedTop ==
  IF rows = {} THEN NoBlock ELSE CHOOSE b \in Block : rows = RowsOf(b)

FeedStage ==
  CASE phase = "down" -> "down"
    [] phase \in {"truncate", "create", "destroy", "find"} -> "start"
    [] phase = "run" -> IF initialSync THEN "sync" ELSE "follow"

FeedCut ==
  IF GoingBack THEN Branch[lastHeader.hash][tip.height] ELSE NoBlock

Feed == INSTANCE HeaderFeed WITH
  top <- FeedTop, last <- lastHeader.hash, stage <- FeedStage, cut <- FeedCut
FeedSpec == Feed!Spec
=============================================================================
