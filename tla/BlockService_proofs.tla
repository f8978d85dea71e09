------------------------- MODULE BlockService_proofs -------------------------
(***************************************************************************)
(* Theorems about BlockService for every tree of blocks and every bound.   *)
(* Its types are right whatever the network does.  In a calm network       *)
(* (Calm) blocks are saved one at a time, the block table and the          *)
(* transactions are whole branches that go with the tips at any crash, the *)
(* process never stops at one of its own assertions, and the committed     *)
(* blocks are IndexedChain.  When the forks are shallow too                *)
(* (ShallowForks), onHeaders() always finds a block that the header table  *)
(* has: the cached hashes reach far enough below the tip for a fork of the *)
(* length of the cache, at every moment, also when blocks are taken back   *)
(* and saved again (LocateInv).                                            *)
(***************************************************************************)
EXTENDS BlockInvariant, BlockTree_proofs, SequenceTheorems, FiniteSetTheorems

\* The queue's counter and its handler go with its entries.
TypeInv == TypeOK /\ QueueInv

-----------------------------------------------------------------------------
(* Lemmas about the helpers.                                               *)

LEMMA RowType ==
  /\ GenesisRow \in Row
  /\ \A b \in Block : RowOf(b) \in Row
  /\ \A r \in Row : r.height \in Nat /\ r.hash \in Block
  BY TreeAssumption DEF Row, RowOf, GenesisRow

\* The records of no call, no save and no onHeaders() are of their types.
LEMMA NoneType ==
  /\ NoCall \in CallState
  /\ NoWork \in WorkState
  /\ NoCheck \in CheckState
  BY RowType DEF NoCall, NoWork, NoCheck, CallState, WorkState, CheckState

\* A process that starts, or has stopped, has variables of their types, and
\* an empty queue.
LEMMA BootType ==
  ASSUME Boot
  PROVE  /\ tip' \in Row /\ recent' \subseteq Block
         /\ lastSaved' \in Block \cup {NoBlock}
         /\ processing' \in BOOLEAN /\ reorging' \in BOOLEAN
         /\ subscribed' \in BOOLEAN /\ listening' \in BOOLEAN
         /\ timer' \in Call \cup {NoBlock}
         /\ check' \in CheckState /\ call' \in [Call -> CallState]
         /\ work' \in [Worker -> WorkState]
         /\ waiting' \in Seq(Block) /\ running' \in Block \cup {NoBlock}
         /\ live' = "none" /\ inQueue' \in Nat
         /\ headerReorging' \in BOOLEAN /\ announced' \subseteq Block
         /\ news' \in Block \cup {NoBlock}
         /\ QueueInv'
<1> USE DEF Boot
<1>1. check' \in CheckState /\ call' \in [Call -> CallState]
      /\ work' \in [Worker -> WorkState] /\ tip' \in Row
  BY NoneType, RowType
<1>2. waiting' = <<>> /\ waiting' \in Seq(Block) /\ Len(waiting') = 0
  OBVIOUS
<1>3. QueueInv'
  BY <1>2 DEF QueueInv
<1> QED
  BY <1>1, <1>2, <1>3

\* A stop keeps the types.
LEMMA StopType ==
  ASSUME TypeInv,
         NEW reason \in {"crash", "reset", "unlocated", "remove", "target",
                         "misaligned", "timeout", "duplicate", "miner"},
         Stop(reason),
         crashes' \in Nat, resumes' \in Nat, timeouts' \in Nat, forks' \in Nat
  PROVE  TypeInv'
<1>1. Boot /\ Halt /\ phase' = "down" /\ fault' = reason
      /\ UNCHANGED <<database, peer>>
  BY DEF Stop
<1> QED
  BY <1>1, BootType, TreeAssumption DEF TypeInv, TypeOK, database, Halt

LEMMA BelowType ==
  ASSUME NEW table \in SUBSET Row, NEW h
  PROVE  Below(table, h) \subseteq Row
  BY DEF Below

-----------------------------------------------------------------------------
(* The queue of announced blocks.                                          *)

\* An appended queue is longer by one, and not empty.
LEMMA AppendType ==
  ASSUME NEW s \in Seq(Block), NEW b \in Block
  PROVE  /\ Append(s, b) \in Seq(Block)
         /\ Len(Append(s, b)) = Len(s) + 1
         /\ Append(s, b) # <<>>
<1>1. Append(s, b) \in Seq(Block) /\ Len(Append(s, b)) = Len(s) + 1
  OBVIOUS
<1>2. Len(s) + 1 # 0
  OBVIOUS
<1> QED
  BY <1>1, <1>2

\* Taking its last entry leaves one entry less.
LEMMA ProcessType ==
  ASSUME NEW s \in Seq(Block), s # <<>>
  PROVE  /\ Queue!Last(s) \in Block
         /\ Queue!Front(s) \in Seq(Block)
         /\ Len(Queue!Front(s)) = Len(s) - 1
<1> DEFINE n == Len(s) - 1
<1>1. Len(s) \in Nat /\ Len(s) # 0
  OBVIOUS
<1>2. n \in Nat /\ n <= Len(s) /\ Len(s) \in 1 .. Len(s)
  BY <1>1
<1>3. SubSeq(s, 1, n) \in Seq(Block) /\ Len(SubSeq(s, 1, n)) = n
  <2> HIDE DEF n
  <2> QED
    BY <1>2
<1> QED
  BY <1>2, <1>3 DEF Queue!Last, Queue!Front

\* Taking the only entry leaves none.
LEMMA ProcessOne ==
  ASSUME NEW s \in Seq(Block), s # <<>>, NEW b \in Block, Len(s) = 1, s[1] = b
  PROVE  Queue!Last(s) = b /\ Queue!Front(s) = <<>>
<1>1. Queue!Last(s) = b
  BY DEF Queue!Last
<1>2. /\ Queue!Front(s) \in Seq(Block)
      /\ Len(Queue!Front(s)) = 0
  BY ProcessType
<1>3. \A t \in Seq(Block) : Len(t) = 0 => t = <<>>
  BY EmptySeq
<1> QED
  BY <1>1, <1>2, <1>3

LEMMA PushType ==
  ASSUME TypeInv, NEW b \in Block, Queue!Push(b), subscribed, subscribed',
         inQueue' = inQueue + 1,
         live' = IF running = NoBlock THEN Entry ELSE live
  PROVE  /\ waiting' \in Seq(Block)
         /\ running' \in Block
         /\ live' \in {"none", "lookup", "skip", "absent", "save", "done"}
         /\ inQueue' \in Nat
         /\ QueueInv'
<1> USE DEF TypeInv, TypeOK, QueueInv
<1>0. NoBlock \notin Block
  BY TreeAssumption
<1>1. /\ Append(waiting, b) \in Seq(Block)
      /\ Len(Append(waiting, b)) = Len(waiting) + 1
      /\ Append(waiting, b) # <<>>
  BY AppendType
<1>2. CASE running = NoBlock
  <2>1. waiting = <<>> /\ inQueue = 0 /\ Len(waiting) = 0
    BY <1>2
  <2>2. running' = b /\ waiting' = <<>>
    <3>1. Append(waiting, b)[1] = b /\ Len(Append(waiting, b)) = 1
      BY <1>1, <2>1
    <3> QED
      BY <1>1, <1>2, <3>1, ProcessOne DEF Queue!Push, Queue!Process
  <2>3. live' \in {"lookup", "done"}
    BY <1>2 DEF Entry
  <2>4. inQueue' = 1 /\ Len(waiting') = 0
    BY <2>1, <2>2
  <2> QED
    BY <1>0, <2>2, <2>3, <2>4
<1>3. CASE running # NoBlock
  <2>1. waiting' = Append(waiting, b) /\ running' = running /\ live' = live
    BY <1>3 DEF Queue!Push
  <2>2. inQueue' = Len(waiting') + 1
    BY <1>1, <1>3, <2>1
  <2> QED
    BY <1>1, <1>3, <2>1, <2>2
<1> QED
  BY <1>2, <1>3

LEMMA ResolveType ==
  ASSUME TypeInv, Queue!Resolve, subscribed' = subscribed,
         inQueue' = inQueue - 1,
         live' = IF waiting = <<>> THEN "none" ELSE Entry
  PROVE  /\ waiting' \in Seq(Block)
         /\ running' \in Block \cup {NoBlock}
         /\ live' \in {"none", "lookup", "skip", "absent", "save", "done"}
         /\ inQueue' \in Nat
         /\ QueueInv'
<1> USE DEF TypeInv, TypeOK, QueueInv
<1>0. NoBlock \notin Block /\ running \in Block
  BY TreeAssumption DEF Queue!Resolve
<1>1. CASE waiting = <<>>
  <2>1. /\ waiting' = waiting /\ running' = NoBlock /\ live' = "none"
        /\ inQueue = 1 /\ Len(waiting) = 0
    BY <1>0, <1>1 DEF Queue!Resolve
  <2>2. inQueue' = 0
    BY <2>1
  <2> QED
    BY <1>1, <2>1, <2>2
<1>2. CASE waiting # <<>>
  <2>1. /\ running' = Queue!Last(waiting) /\ waiting' = Queue!Front(waiting)
    BY <1>2 DEF Queue!Resolve, Queue!Process
  <2>2. /\ running' \in Block /\ waiting' \in Seq(Block)
        /\ Len(waiting') = Len(waiting) - 1
    BY <1>2, <2>1, ProcessType
  <2>3. live' \in {"lookup", "done"}
    BY <1>2 DEF Entry
  <2>4. inQueue' = Len(waiting') + 1 /\ inQueue' \in Nat
    BY <1>0, <2>2
  <2>5. inQueue > 0
    BY <1>0
  <2> QED
    BY <1>0, <2>2, <2>3, <2>4, <2>5
<1> QED
  BY <1>1, <1>2

-----------------------------------------------------------------------------
(* Type correctness.                                                       *)

\* Every action of the start keeps the types.
LEMMA StartingType ==
  ASSUME TypeInv, Starting
  PROVE  TypeInv'
<1> USE DEF TypeInv, TypeOK, QueueInv, header, database, process, chain, flags,
            listeners, queue, others, network, counters
<1>1. CASE StartHeader
  BY <1>1 DEF StartHeader, Begin
<1>2. CASE RebuildHeaders
  BY <1>2, TreeAssumption DEF RebuildHeaders, Rebuild
<1>3. CASE HeaderReady
  BY <1>3 DEF HeaderReady, Ready
<1>4. CASE StartBlock
  <2>1. CASE storedTip.height = 0 \/ HasRow(blocks, storedTip.height)
    BY <1>4, <2>1 DEF StartBlock
  <2>2. CASE ~(storedTip.height = 0 \/ HasRow(blocks, storedTip.height))
    BY <1>4, <2>2, StopType DEF StartBlock
  <2> QED
    BY <2>1, <2>2
<1>5. CASE DestroyAboveTip
  BY <1>5, BelowType DEF DestroyAboveTip
<1>6. CASE LoadRecentHashes
  <2>1. recent' \subseteq Block
    BY <1>6 DEF LoadRecentHashes, Row
  <2> QED
    BY <1>6, <2>1 DEF LoadRecentHashes
<1>7. CASE DestroyTransactions
  BY <1>7, BelowType DEF DestroyTransactions
<1>8. CASE StoreTransactionTip
  BY <1>8 DEF StoreTransactionTip, TransactionTip
<1> QED
  BY <1>1, <1>2, <1>3, <1>4, <1>5, <1>6, <1>7, <1>8 DEF Starting

\* So do the steps of the header service.
LEMMA HeaderType ==
  ASSUME TypeInv, HeaderService
  PROVE  TypeInv'
<1> USE DEF TypeInv, TypeOK, QueueInv, header, database, process, chain, flags,
            listeners, queue, others, network, counters
<1>1. CASE HeaderSyncs
  <2>1. /\ top' \in Block \cup {NoBlock} /\ last' \in Block
        /\ stage' \in {"down", "start", "sync", "follow"}
        /\ cut' \in Block \cup {NoBlock}
    BY <1>1 DEF HeaderSyncs, Download, Save, Truncate, Again
  <2> QED
    BY <1>1, <2>1 DEF HeaderSyncs
<1>2. CASE HeaderCompletes
  <2>1. check' \in CheckState
    BY <1>2, NoneType DEF HeaderCompletes, CheckState
  <2> QED
    BY <1>2, <2>1 DEF HeaderCompletes, Complete
<1>3. CASE ReorgComplete
  <2>1. check' \in CheckState
    BY <1>3, NoneType DEF ReorgComplete
  <2>2. reorging' \in BOOLEAN /\ headerReorging' \in BOOLEAN
    BY <1>3 DEF ReorgComplete
  <2> QED
    BY <1>3, <2>1, <2>2 DEF ReorgComplete
<1>4. ASSUME NEW b \in Block, HeaderLooks(b)
      PROVE  TypeInv'
  <2>1. /\ top' \in Block \cup {NoBlock} /\ last' \in Block
        /\ stage' \in {"down", "start", "sync", "follow"}
        /\ cut' \in Block \cup {NoBlock}
        /\ announced' \subseteq Block
        /\ headerReorging' \in BOOLEAN /\ reorging' \in BOOLEAN
    BY <1>4 DEF HeaderLooks, Extend, GoBack
  <2> QED
    BY <1>4, <2>1 DEF HeaderLooks
<1> QED
  BY <1>1, <1>2, <1>3, <1>4 DEF HeaderService

\* The common block is the highest on the tip's branch, if there is one.
LEMMA CommonBlockFound ==
  ASSUME TypeOK, Common # {}
  PROVE  /\ CommonBlock \in Common
         /\ CommonBlock \in Block
         /\ Held(CommonBlock)
         /\ OnBranch(CommonBlock, tip.hash)
         /\ \A a \in Common : Depth[a] <= Depth[CommonBlock]
<1>1. /\ Common \subseteq Block
      /\ \A b \in Common : Held(b) /\ OnBranch(b, tip.hash)
  BY DEF Common, Tried
<1>2. Depth[tip.hash] \in Nat
  BY RowType, DepthNat DEF TypeOK
<1>3. \A b \in Common : Depth[b] <= Depth[tip.hash]
  BY <1>1 DEF OnBranch
<1>4. \E b \in Common : \A a \in Common : Depth[a] <= Depth[b]
  BY <1>1, <1>2, <1>3, Deepest
<1>5. CommonBlock \in Common /\ \A a \in Common : Depth[a] <= Depth[CommonBlock]
  BY <1>4 DEF CommonBlock
<1> QED
  BY <1>1, <1>5

\* What _startSync and the end of a call set.
LEMMA FirstSyncType ==
  ASSUME TypeInv, FirstSync
  PROVE  /\ call' \in [Call -> CallState]
         /\ processing' \in BOOLEAN
         /\ check' \in CheckState
<1> USE DEF TypeInv, TypeOK
<1>1. [NoCall EXCEPT !.pc = "ask", !.from = tip, !.first = TRUE] \in CallState
  BY NoneType DEF CallState
<1>2. [NoCheck EXCEPT !.pc = "first"] \in CheckState
  BY NoneType DEF CheckState
<1> QED
  BY <1>1, <1>2 DEF FirstSync

LEMMA NextSyncType ==
  ASSUME TypeInv, NEW c \in Call
  PROVE  NextSync(c) \in [Call -> CallState]
<1> USE DEF TypeInv, TypeOK
<1>1. [NoCall EXCEPT !.pc = "ask", !.from = tip] \in CallState
  BY NoneType DEF CallState
<1> QED
  BY <1>1, NoneType DEF NextSync

LEMMA EndedType ==
  ASSUME TypeInv, NEW c \in Call, Ended(c)
  PROVE  check' \in CheckState
  BY DEF Ended, TypeInv, TypeOK, CheckState

LEMMA SavingType ==
  ASSUME TypeInv, NEW b \in Block
  PROVE  Saving(b) \in WorkState
  BY RowType DEF Saving, WorkState, TypeInv, TypeOK, Row

LEMMA WorkerType == Call \subseteq Worker /\ {"live", "genesis"} \subseteq Worker
  BY DEF Worker

\* The steps of onHeaders() keep the types.
LEMMA CheckingType ==
  ASSUME TypeInv, Checking
  PROVE  TypeInv'
<1> USE DEF TypeInv, TypeOK, QueueInv, header, database, process, chain, flags,
            listeners, queue, others, network, counters
<1>0. /\ check.back \in Row
      /\ \A p \in {"drain", "common", "settip", "forget", "undo", "destroy",
                   "start", "first", "genesis", "done"} :
           [check EXCEPT !.pc = p] \in CheckState
  BY DEF CheckState
<1>1. CASE CheckIdle
  <2>1. check' \in CheckState
    BY <1>0, <1>1 DEF CheckIdle
  <2> QED
    BY <1>1, <2>1 DEF CheckIdle
<1>2. CASE CheckDrained
  <2>1. check' \in CheckState
    BY <1>0, <1>2 DEF CheckDrained
  <2>2. call' \in [Call -> CallState]
    BY <1>2 DEF CheckDrained, Disarmed, CallState
  <2>3. QueueInv'
    BY <1>2 DEF CheckDrained
  <2>4. subscribed' \in BOOLEAN /\ listening' \in BOOLEAN
    BY <1>2 DEF CheckDrained
  <2> QED
    BY <1>2, <2>1, <2>2, <2>3, <2>4 DEF CheckDrained
<1>3. CASE FindCommon
  <2>1. CASE Common = {}
    BY <1>3, <2>1, StopType DEF FindCommon
  <2>2. CASE Common # {}
    <3>1. RowOf(CommonBlock) \in Row
      BY <2>2, CommonBlockFound, RowType
    <3>2. [pc |-> "remove", back |-> RowOf(CommonBlock)] \in CheckState
      BY <3>1 DEF CheckState
    <3>3. check' \in CheckState
      BY <1>0, <1>3, <2>2, <3>2 DEF FindCommon
    <3> QED
      BY <1>3, <2>2, <3>3 DEF FindCommon
  <2> QED
    BY <2>1, <2>2
<1>4. CASE FindBlocksToRemove
  <2>1. CASE \A h \in check.back.height .. tip.height : HasRow(blocks, h)
    <3>1. check' \in CheckState /\ tip' \in Row
      BY <1>0, <1>4, <2>1 DEF FindBlocksToRemove
    <3> QED
      BY <1>4, <2>1, <3>1 DEF FindBlocksToRemove
  <2>2. CASE ~ \A h \in check.back.height .. tip.height : HasRow(blocks, h)
    BY <1>4, <2>2, StopType DEF FindBlocksToRemove
  <2> QED
    BY <2>1, <2>2
<1>5. CASE StoreCommonTip
  <2>1. check' \in CheckState /\ storedTip' \in Row
    BY <1>0, <1>5 DEF StoreCommonTip
  <2> QED
    BY <1>5, <2>1 DEF StoreCommonTip
<1>6. CASE ForgetHashes
  <2>1. CASE Held(check.back.hash)
    <3>1. check' \in CheckState /\ recent' \subseteq Block
      BY <1>0, <1>6, <2>1 DEF ForgetHashes
    <3> QED
      BY <1>6, <2>1, <3>1 DEF ForgetHashes
  <2>2. CASE ~Held(check.back.hash)
    BY <1>6, <2>2, StopType DEF ForgetHashes
  <2> QED
    BY <2>1, <2>2
<1>7. CASE UndoTransactions
  <2>1. check' \in CheckState /\ txs' \subseteq Row
    BY <1>0, <1>7, BelowType DEF UndoTransactions
  <2> QED
    BY <1>7, <2>1 DEF UndoTransactions
<1>8. CASE UndoBlocks
  <2>1. check' \in CheckState /\ blocks' \subseteq Row
    BY <1>0, <1>8, BelowType DEF UndoBlocks
  <2> QED
    BY <1>8, <2>1 DEF UndoBlocks
<1>9. CASE StartSync
  <2>1. ASSUME NEW p \in {"first", "genesis", "done"}
        PROVE  [NoCheck EXCEPT !.pc = p] \in CheckState
    BY NoneType DEF CheckState
  <2>2. CASE FirstSync /\ listening' = TRUE /\ reorging' = FALSE
             /\ UNCHANGED <<header, database, process, chain, subscribed, timer,
                            work, queue, others, network, counters>>
    <3>1. /\ call' \in [Call -> CallState] /\ processing' \in BOOLEAN
          /\ check' \in CheckState
      BY <2>2, FirstSyncType
    <3>2. listening' \in BOOLEAN /\ reorging' \in BOOLEAN
      BY <2>2
    <3> QED
      BY <2>2, <3>1, <3>2
  <2>3. CASE check' = [NoCheck EXCEPT !.pc = "genesis"]
             /\ work' = [work EXCEPT !["genesis"] =
                           [pc |-> "index", row |-> GenesisRow]]
             /\ listening' = TRUE /\ reorging' = FALSE
             /\ UNCHANGED <<header, database, process, chain, processing,
                            subscribed, timer, call, queue, others, network,
                            counters>>
    <3>1. [pc |-> "index", row |-> GenesisRow] \in WorkState
      BY RowType DEF WorkState
    <3>2. work' \in [Worker -> WorkState] /\ check' \in CheckState
      BY <2>1, <2>3, <3>1
    <3>3. listening' \in BOOLEAN /\ reorging' \in BOOLEAN
      BY <2>3
    <3> QED
      BY <2>3, <3>2, <3>3
  <2>4. CASE subscribed' = TRUE /\ check' = [NoCheck EXCEPT !.pc = "done"]
             /\ reorging' = FALSE
             /\ UNCHANGED <<header, database, process, chain, processing,
                            listening, timer, call, work, queue, others,
                            network, counters>>
    <3>1. check' \in CheckState
      BY <2>1, <2>4
    <3>2. subscribed' /\ subscribed' \in BOOLEAN /\ reorging' \in BOOLEAN
      BY <2>4
    <3> QED
      BY <2>4, <3>1, <3>2
  <2>5. CASE Stop("misaligned") /\ UNCHANGED counters
    BY <2>5, StopType
  <2> QED
    BY <1>9, <2>2, <2>3, <2>4, <2>5 DEF StartSync
<1>10. CASE GenesisSaved
  <2>1. work' = [work EXCEPT !["genesis"] = NoWork] => work' \in [Worker -> WorkState]
    BY NoneType
  <2>2. [NoCheck EXCEPT !.pc = "done"] \in CheckState
    BY NoneType DEF CheckState
  <2>3. CASE Stop("misaligned") /\ UNCHANGED counters
    BY <2>3, StopType
  <2>4. CASE FirstSync /\ work' = [work EXCEPT !["genesis"] = NoWork]
             /\ UNCHANGED <<header, database, process, chain, reorging,
                            listeners, queue, others, network, counters>>
    <3>1. /\ call' \in [Call -> CallState] /\ processing' \in BOOLEAN
          /\ check' \in CheckState
      BY <2>4, FirstSyncType
    <3> QED
      BY <2>1, <2>4, <3>1
  <2>5. CASE processing' = FALSE /\ check' = [NoCheck EXCEPT !.pc = "done"]
             /\ work' = [work EXCEPT !["genesis"] = NoWork]
             /\ UNCHANGED <<header, database, process, chain, reorging, call,
                            listeners, queue, others, network, counters>>
    <3>1. processing' \in BOOLEAN /\ check' \in CheckState
      BY <2>2, <2>5
    <3> QED
      BY <2>1, <2>5, <3>1
  <2> QED
    BY <1>10, <2>3, <2>4, <2>5 DEF GenesisSaved
<1> QED
  BY <1>1, <1>2, <1>3, <1>4, <1>5, <1>6, <1>7, <1>8, <1>9, <1>10 DEF Checking

\* So do those of the calls.
LEMMA CallsType ==
  ASSUME TypeInv, NEW c \in Call, Syncing(c) \/ Timeout(c)
  PROVE  TypeInv'
<1> USE DEF TypeInv, TypeOK, QueueInv, header, database, process, chain, flags,
            listeners, queue, others, network, counters
<1>0. call[c] \in CallState /\ NoCall \in CallState /\ NoWork \in WorkState
  BY NoneType
<1>1. CASE AskHeaders(c)
  <2> DEFINE h == call[c].from.height + 1
  <2>1. CASE top \in Block /\ h <= Depth[top]
    <3>1. Branch[top][h] \in Block /\ h \in Nat /\ Depth[top] \in Nat
      <4>1. call[c].from.height \in Nat
        BY <1>0, RowType DEF CallState
      <4>2. h \in 0 .. Depth[top]
        BY <2>1, <4>1, DepthNat
      <4> QED
        BY <2>1, <4>1, <4>2, BranchBlock, DepthNat
    <3> HIDE DEF h
    <3>2. /\ call' = [call EXCEPT ![c].pc = "wait", ![c].want = Branch[top][h],
                                  ![c].armed = TRUE]
          /\ timer' = c
          /\ UNCHANGED <<check, processing, subscribed>>
      BY <1>1, <2>1, <3>1 DEF AskHeaders, h
    <3>3. call' \in [Call -> CallState]
      BY <1>0, <3>1, <3>2 DEF CallState
    <3> QED
      BY <1>1, <3>2, <3>3 DEF AskHeaders
  <2>2. CASE ~(top \in Block /\ h <= Depth[top])
    <3>0. /\ Ended(c) /\ UNCHANGED timer
          /\ call' = [call EXCEPT ![c] = NoCall]
          /\ processing' = FALSE
          /\ subscribed' = (subscribed \/ listening)
      BY <1>1, <2>2 DEF AskHeaders
    <3>1. check' \in CheckState
      BY <3>0, EndedType
    <3>2. call' \in [Call -> CallState]
      BY <1>0, <3>0
    <3>3. subscribed' \in BOOLEAN /\ (subscribed => subscribed')
      BY <3>0
    <3>4. processing' \in BOOLEAN
      BY <3>0
    <3>5. /\ timer' = timer
          /\ UNCHANGED <<header, database, process, chain, reorging, listening,
                         work, queue, others, network, counters>>
      BY <1>1, <3>0 DEF AskHeaders
    <3> QED
      BY <3>1, <3>2, <3>3, <3>4, <3>5
  <2> QED
    BY <2>1, <2>2
<1>2. CASE BlockSynced(c)
  <2>1. check' \in CheckState
    BY <1>2, EndedType DEF BlockSynced
  <2>2. NextSync(c) \in [Call -> CallState] /\ [call EXCEPT ![c] = NoCall] \in [Call -> CallState]
    BY <1>0, NextSyncType
  <2>3. /\ call' \in [Call -> CallState] /\ processing' \in BOOLEAN
        /\ subscribed' \in BOOLEAN /\ (subscribed => subscribed')
    <3>0. tip.height \in Nat /\ Depth[last] \in Nat
      BY RowType, DepthNat
    <3>1. CASE tip.height < Depth[last]
      <4>1. /\ call' = NextSync(c)
            /\ processing' = (NextSync(c)[c].pc = "ask")
            /\ subscribed' = subscribed
        BY <1>2, <3>0, <3>1 DEF BlockSynced
      <4>2. processing' \in BOOLEAN
        BY <4>1
      <4> QED
        BY <2>2, <4>1, <4>2
    <3>2. CASE ~(tip.height < Depth[last])
      <4>1. /\ call' = [call EXCEPT ![c] = NoCall]
            /\ processing' = FALSE
            /\ subscribed' = (subscribed \/ listening)
        BY <1>2, <3>2 DEF BlockSynced
      <4>2. subscribed' \in BOOLEAN /\ (subscribed => subscribed')
        BY <4>1
      <4>3. processing' \in BOOLEAN
        BY <4>1
      <4> QED
        BY <2>2, <4>1, <4>2, <4>3
    <3> QED
      BY <3>1, <3>2
  <2>4. work' \in [Worker -> WorkState] /\ lastSaved' \in Block
    <3>1. work[c] \in WorkState
      BY WorkerType
    <3>2. work[c].row.hash \in Block
      BY <3>1, RowType DEF WorkState
    <3> QED
      BY <1>0, <1>2, <3>2 DEF BlockSynced
  <2> QED
    BY <1>2, <2>1, <2>3, <2>4 DEF BlockSynced
<1>3. CASE Timeout(c)
  <2>0. /\ timeouts' \in Nat
        /\ UNCHANGED <<crashes, resumes, forks>>
    BY <1>3 DEF Timeout
  <2>1. CASE Stop("timeout")
    BY <2>0, <2>1, StopType
  <2>2. CASE ~Stop("timeout")
    <3>1. NextSync(c) \in [Call -> CallState] /\ [call EXCEPT ![c] = NoCall] \in [Call -> CallState]
      BY <1>0, NextSyncType
    <3>2. call' \in [Call -> CallState]
      BY <1>3, <2>2, <3>1 DEF Timeout
    <3>3. processing' \in BOOLEAN
      BY <1>3, <2>2 DEF Timeout
    <3> QED
      BY <1>3, <2>0, <2>2, <3>2, <3>3 DEF Timeout
  <2> QED
    BY <2>1, <2>2
<1> QED
  BY <1>1, <1>2, <1>3 DEF Syncing

\* A save keeps the types.
LEMMA WritingType ==
  ASSUME TypeInv, NEW w \in Worker, Writing(w)
  PROVE  TypeInv'
<1> USE DEF TypeInv, TypeOK, QueueInv, header, database, process, chain, flags,
            listeners, queue, others, network, counters
<1>0. /\ work[w] \in WorkState /\ work[w].row \in Row
      /\ work[w].row.hash \in Block
      /\ \A p \in {"indexed", "header", "create", "created", "store", "saved"} :
           [work EXCEPT ![w].pc = p] \in [Worker -> WorkState]
  BY RowType DEF WorkState
<1>1. CASE IndexTransactions(w)
  <2>1. CASE Duplicate(txs, work[w].row)
    BY <1>1, <2>1, StopType DEF IndexTransactions
  <2>2. CASE ~Duplicate(txs, work[w].row)
    BY <1>0, <1>1, <2>2 DEF IndexTransactions
  <2> QED
    BY <2>1, <2>2
<1>2. CASE UpdateTransactionTip(w)
  BY <1>0, <1>2 DEF UpdateTransactionTip
<1>3. CASE FindHeader(w)
  <2>1. CASE HasRow(txs, Depth[work[w].row.hash])
    <3>1. /\ work' = [work EXCEPT ![w].pc = "create"]
          /\ UNCHANGED <<header, database, process, chain, flags, listeners,
                         check, call, queue, others, network, counters>>
      BY <1>3, <2>1 DEF FindHeader
    <3> QED
      BY <1>0, <3>1
  <2>2. CASE ~HasRow(txs, Depth[work[w].row.hash])
    BY <1>3, <2>2, StopType DEF FindHeader
  <2> QED
    BY <2>1, <2>2
<1>4. CASE CreateBlock(w)
  <2> DEFINE row == RowOf(work[w].row.hash)
  <2>1. row \in Row
    BY <1>0, RowType
  <2>2. CASE Duplicate(blocks, row)
    BY <1>4, <2>2, StopType DEF CreateBlock
  <2>3. CASE ~Duplicate(blocks, row)
    BY <1>0, <1>4, <2>1, <2>3 DEF CreateBlock
  <2> QED
    BY <2>2, <2>3
<1>5. CASE SetTip(w)
  <2>1. recent' \subseteq Block
    BY <1>0, <1>5 DEF SetTip, Newest
  <2>2. work' \in [Worker -> WorkState] /\ tip' \in Row
    BY <1>0, <1>5 DEF SetTip
  <2>3. UNCHANGED <<header, database, process, lastSaved, flags, listeners,
                    check, call, queue, others, network, counters>>
    BY <1>5 DEF SetTip
  <2> QED
    BY <2>1, <2>2, <2>3
<1>6. CASE StoreTip(w)
  BY <1>0, <1>6 DEF StoreTip
<1> QED
  BY <1>1, <1>2, <1>3, <1>4, <1>5, <1>6 DEF Writing

\* So does the handling of announced blocks.
LEMMA FollowingType ==
  ASSUME TypeInv, Following
  PROVE  TypeInv'
<1> USE DEF TypeInv, TypeOK, QueueInv, header, database, process, chain, flags,
            listeners, queue, others, network, counters
<1>0. "live" \in Worker
  BY WorkerType
<1>1. CASE LookupBlock
  BY <1>1 DEF LookupBlock
<1>2. CASE ProcessBlock
  <2>1. CASE live = "absent" /\ Parent[running] = tip.hash
    <3>1. running \in Block
      BY <2>1
    <3>2. work' = [work EXCEPT !["live"] = Saving(running)] /\ live' = "save"
          /\ UNCHANGED processing
      BY <1>2, <2>1 DEF ProcessBlock
    <3>3. work' \in [Worker -> WorkState]
      BY <3>1, <3>2, SavingType
    <3> QED
      BY <1>2, <2>1, <3>2, <3>3 DEF ProcessBlock
  <2>2. CASE ~(live = "absent" /\ Parent[running] = tip.hash)
    <3>1. /\ live \in {"skip", "absent"} /\ live' = "done"
          /\ processing' = FALSE /\ UNCHANGED work
      BY <1>2, <2>2 DEF ProcessBlock
    <3>2. processing' \in BOOLEAN
      BY <3>1
    <3> QED
      BY <1>2, <3>1, <3>2 DEF ProcessBlock
  <2> QED
    BY <2>1, <2>2
<1>3. CASE BlockSaved
  <2>1. work' \in [Worker -> WorkState] /\ processing' \in BOOLEAN
    BY <1>3, NoneType DEF BlockSaved
  <2> QED
    BY <1>3, <2>1 DEF BlockSaved
<1>4. CASE FinishBlock
  <2>1. /\ waiting' \in Seq(Block)
        /\ running' \in Block \cup {NoBlock}
        /\ live' \in {"none", "lookup", "skip", "absent", "save", "done"}
        /\ inQueue' \in Nat
        /\ QueueInv'
    BY <1>4, ResolveType DEF FinishBlock
  <2>2. processing' \in BOOLEAN
    BY <1>4 DEF FinishBlock
  <2> QED
    BY <1>4, <2>1, <2>2 DEF FinishBlock
<1> QED
  BY <1>1, <1>2, <1>3, <1>4 DEF Following

\* A block that arrives keeps the types.
LEMMA DeliverType ==
  ASSUME TypeInv, NEW b \in Block, Deliver(b)
  PROVE  TypeInv'
<1> USE DEF TypeInv, TypeOK
<1> DEFINE takers == {c \in Call : call[c].pc = "wait" /\ call[c].want = b}
           again == takers # {} /\ b = lastSaved
<1>0. /\ NoCall \in CallState
      /\ \A c \in Call : Disarmed[c] \in CallState
      /\ \A c \in Call : [call[c] EXCEPT !.pc = "save", !.armed = FALSE] \in CallState
  BY NoneType DEF Disarmed, CallState
<1>1. call' = [c \in Call |->
         IF c \in takers
         THEN IF again THEN NoCall ELSE [call[c] EXCEPT !.pc = "save", !.armed = FALSE]
         ELSE IF takers # {} THEN Disarmed[c] ELSE call[c]]
  BY DEF Deliver
<1>2. call' \in [Call -> CallState]
  BY <1>0, <1>1
<1>3. work' = [w \in Worker |-> IF w \in takers /\ ~again THEN Saving(b) ELSE work[w]]
  BY DEF Deliver
<1>4. work' \in [Worker -> WorkState]
  BY <1>3, SavingType
<1>5. check' \in CheckState
  BY DEF Deliver, CheckState
<1>6. processing' \in BOOLEAN
  BY DEF Deliver
<1>7. announced' \subseteq Block /\ news' \in Block \cup {NoBlock}
  BY DEF Deliver
<1>8. /\ waiting' \in Seq(Block)
      /\ running' \in Block \cup {NoBlock}
      /\ live' \in {"none", "lookup", "skip", "absent", "save", "done"}
      /\ inQueue' \in Nat
      /\ QueueInv'
  <2>1. UNCHANGED subscribed
    BY DEF Deliver, listeners
  <2>2. CASE subscribed
    <3>1. /\ Queue!Push(b) /\ inQueue' = inQueue + 1
          /\ live' = IF running = NoBlock THEN Entry ELSE live
      BY <2>2 DEF Deliver
    <3> QED
      BY <2>1, <2>2, <3>1, PushType
  <2>3. CASE ~subscribed
    <3>1. UNCHANGED queue
      BY <2>3 DEF Deliver
    <3> QED
      BY <2>1, <3>1 DEF queue, QueueInv
  <2> QED
    BY <2>2, <2>3
<1>9. UNCHANGED <<header, database, process, chain, reorging, listeners,
                  headerReorging, peer, counters>>
  BY DEF Deliver
<1> QED
  BY <1>2, <1>4, <1>5, <1>6, <1>7, <1>8, <1>9
  DEF header, database, process, chain, listeners, counters

\* So do the rest of the network and the crashes.
LEMMA EnvironmentType ==
  ASSUME TypeInv, PeerAdopts \/ PeerReady \/ Crash
  PROVE  TypeInv'
<1> USE DEF TypeInv, TypeOK, QueueInv, header, database, process, chain, flags,
            listeners, queue, others, network, counters
<1>1. CASE PeerAdopts
  <2>1. peer' \in Block /\ news' \in Block \cup {NoBlock} /\ forks' \in Nat
    BY <1>1 DEF PeerAdopts
  <2> QED
    BY <1>1, <2>1 DEF PeerAdopts
<1>2. CASE PeerReady
  BY <1>2 DEF PeerReady, Resume
<1>3. CASE Crash
  BY <1>3, StopType DEF Crash
<1> QED
  BY <1>1, <1>2, <1>3

LEMMA TypeInit == BlockInit => TypeInv
<1> SUFFICES ASSUME BlockInit PROVE TypeInv
  OBVIOUS
<1> USE DEF BlockInit, Init, Queue!Init
<1>1. waiting = <<>> /\ waiting \in Seq(Block) /\ Len(waiting) = 0
  OBVIOUS
<1>2. QueueInv
  BY <1>1 DEF QueueInv
<1> QED
  BY <1>1, <1>2, RowType, NoneType, TreeAssumption DEF TypeInv, TypeOK

LEMMA TypeStep == TypeInv /\ [BlockNext]_vars => TypeInv'
<1> SUFFICES ASSUME TypeInv, [BlockNext]_vars PROVE TypeInv'
  OBVIOUS
<1>1. CASE BlockNext
  BY <1>1, StartingType, HeaderType, CheckingType, CallsType, WritingType,
     FollowingType, EnvironmentType, DeliverType DEF BlockNext
<1>2. CASE UNCHANGED vars
  BY <1>2 DEF vars, header, database, process, chain, flags, listeners, queue,
              others, network, counters, TypeInv, TypeOK, QueueInv
<1> QED
  BY <1>1, <1>2

\* The variables of the service keep their types, and #blocksInQueue counts
\* the blocks of the queue, whatever the network does.
THEOREM BlockTypeCorrect == BlockSpec => [](TypeOK /\ QueueInv)
<1>1. TypeInv => TypeOK /\ QueueInv
  BY DEF TypeInv
<1> QED
  BY <1>1, TypeInit, TypeStep, PTL DEF BlockSpec

-----------------------------------------------------------------------------
(* A process that has stopped, or starts.                                  *)

LEMMA BootFresh ==
  ASSUME Boot
  PROVE  Fresh'
  BY DEF Boot, Fresh

\* What does not concern a process in which nothing runs.
LEMMA FreshRest ==
  ASSUME Fresh', tip'.height = Depth[tip'.hash],
         storedTip'.height = Depth[storedTip'.hash]
  PROVE  /\ WorkInv' /\ StillInv' /\ CallInv' /\ TrueInv'
         /\ SaveInv' /\ GenesisInv' /\ CallWorkInv' /\ UndoInv'
<1>1. /\ check'.pc = "none" /\ check'.back = GenesisRow
      /\ \A c \in Call : /\ call'[c].pc = "none" /\ ~call'[c].first
                         /\ ~call'[c].armed
      /\ \A w \in Worker : work'[w].pc = "none" /\ work'[w].row = GenesisRow
      /\ live' = "none" /\ ~reorging' /\ ~subscribed'
  BY DEF Fresh, NoCheck, NoCall, NoWork
<1>2. "live" \in Worker /\ "genesis" \in Worker /\ Call \subseteq Worker
  BY WorkerType
<1>3. WorkInv' /\ StillInv'
  BY <1>1, <1>2 DEF WorkInv, StillInv
<1>4. CallInv'
  BY <1>1 DEF CallInv, BusyInv, DrainedInv, OpenInv, AskInv, TimerInv, Active
<1>5. TrueInv'
  BY <1>1, GenesisDepth DEF TrueInv, GenesisRow
<1>6. SaveInv' /\ GenesisInv' /\ CallWorkInv' /\ UndoInv'
  BY <1>1, <1>2 DEF SaveInv, GenesisInv, CallWorkInv, UndoInv
<1> QED
  BY <1>3, <1>4, <1>5, <1>6

\* A stop leaves the tables as any crash does.
LEMMA CalmStop ==
  ASSUME TypeInv, CalmInv, TypeInv',
         NEW reason \in {"crash", "unlocated", "timeout", "duplicate"},
         Stop(reason)
  PROVE  CalmInv'
<1>1. Boot /\ Halt /\ phase' = "down" /\ fault' = reason
      /\ UNCHANGED <<database, peer>>
  BY DEF Stop
<1>2. Fresh' /\ tip' = GenesisRow
  BY <1>1, BootFresh DEF Boot
<1>3. storedTip' = storedTip /\ storedTip.height = Depth[storedTip.hash]
  BY <1>1 DEF database, CalmInv, DataInv, TrueInv
<1>4. /\ WorkInv' /\ StillInv' /\ CallInv' /\ TrueInv'
      /\ SaveInv' /\ GenesisInv' /\ CallWorkInv' /\ UndoInv'
  BY <1>2, <1>3, FreshRest, GenesisDepth DEF GenesisRow
<1>5. StartInv' /\ HeaderInv'
  BY <1>1, <1>2 DEF StartInv, HeaderInv, Halt, Fresh
<1>6. ReachInv'
  <2>1. top' = top /\ last' = Genesis /\ peer' = peer /\ announced' = {}
        /\ \A c \in Call : call'[c].pc = "none"
    BY <1>1, <1>2 DEF Halt, Fresh, NoCall
  <2>2. Depth[Genesis] <= Depth[peer]
    BY GenesisDepth, DepthNat DEF TypeInv, TypeOK
  <2> QED
    BY <2>1, <2>2 DEF ReachInv, CalmInv, FeedInv
<1>7. TablesInv'
  BY <1>1 DEF CalmInv, DataInv, TablesInv, Bare, database
<1>8. LoadInv' /\ RestInv' /\ FaultInv'
  BY <1>1 DEF LoadInv, RestInv, Quiet, FaultInv
<1> QED
  BY <1>4, <1>5, <1>6, <1>7, <1>8
  DEF TypeInv, CalmInv, ProcessInv, FeedInv, DataInv

-----------------------------------------------------------------------------
(* The start.                                                              *)

\* The stored tip has its row.
LEMMA StoredTipFound ==
  ASSUME TypeInv, CalmInv, storedTip.height > 0
  PROVE  HasRow(blocks, storedTip.height)
<1>1. storedTip \in Row /\ storedTip.height = Depth[storedTip.hash]
  BY DEF TypeInv, TypeOK, CalmInv, DataInv, TrueInv
<1>2. PICK x \in Block : blocks = RowsOf(x) /\ OnBranch(storedTip.hash, x)
  BY DEF CalmInv, DataInv, TablesInv, Bare, GenesisRow
<1>3. storedTip.height \in 0 .. Depth[x]
  BY <1>1, <1>2, RowType, DepthNat DEF OnBranch
<1> QED
  BY <1>2, <1>3, RowsOfFull DEF HasRow

\* The tables, cut to the stored tip.
LEMMA CutTables ==
  ASSUME TypeInv, CalmInv
  PROVE  /\ \/ Bare /\ Below(blocks, storedTip.height) = {}
            \/ /\ ~Bare
               /\ Below(blocks, storedTip.height) = RowsOf(storedTip.hash)
               /\ Below(txs, storedTip.height) = RowsOf(storedTip.hash)
         /\ Bare => Below(txs, storedTip.height) \subseteq {GenesisRow}
<1>1. storedTip \in Row /\ storedTip.height = Depth[storedTip.hash]
  BY DEF TypeInv, TypeOK, CalmInv, DataInv, TrueInv
<1>2. CASE Bare
  BY <1>2 DEF Bare, Below
<1>3. CASE ~Bare
  <2>1. PICK x, y \in Block :
          /\ blocks = RowsOf(x) /\ txs = RowsOf(y)
          /\ OnBranch(storedTip.hash, x) /\ OnBranch(storedTip.hash, y)
    BY <1>3 DEF CalmInv, DataInv, TablesInv
  <2>2. Below(blocks, storedTip.height) = RowsOf(storedTip.hash)
    BY <1>1, <2>1, RowType, RowsOfBelow DEF Below
  <2>3. Below(txs, storedTip.height) = RowsOf(storedTip.hash)
    BY <1>1, <2>1, RowType, RowsOfBelow DEF Below
  <2> QED
    BY <1>3, <2>2, <2>3
<1> QED
  BY <1>2, <1>3

\* Every action of the start preserves the invariant.
LEMMA CalmStarting ==
  ASSUME TypeInv, CalmInv, TypeInv', Starting
  PROVE  CalmInv'
<1> USE DEF header, database, process, chain, flags, listeners, queue, others,
            network, counters
<1>0. /\ StartInv /\ HeaderInv /\ ReachInv /\ TrueInv /\ TablesInv /\ LoadInv
      /\ FaultInv /\ QueueInv'
      /\ storedTip \in Row /\ storedTip.height = Depth[storedTip.hash]
      /\ storedTip.hash \in Block
  BY RowType DEF CalmInv, ProcessInv, FeedInv, DataInv, TypeInv, TypeOK, TrueInv
<1>1. phase # "run" /\ Fresh
  BY <1>0, TreeAssumption
  DEF Starting, StartHeader, RebuildHeaders, HeaderReady, StartBlock,
      DestroyAboveTip, LoadRecentHashes, DestroyTransactions,
      StoreTransactionTip, StartInv
<1>2. ASSUME Fresh', tip' = tip \/ tip' = storedTip, storedTip' = storedTip,
             StartInv', HeaderInv', ReachInv', TablesInv', LoadInv', RestInv',
             FaultInv'
      PROVE  CalmInv'
  <2>1. tip'.height = Depth[tip'.hash] /\ storedTip'.height = Depth[storedTip'.hash]
    BY <1>0, <1>2 DEF TrueInv
  <2> QED
    BY <1>0, <1>2, <2>1, FreshRest DEF CalmInv, ProcessInv, FeedInv, DataInv
<1>3. ASSUME Fresh', UNCHANGED <<header, database, peer>>,
             phase' \in {"destroy", "load", "transaction", "store", "run"},
             phase \notin {"down", "header"}, fault' = fault
      PROVE  StartInv' /\ HeaderInv' /\ ReachInv' /\ TablesInv' /\ FaultInv'
  <2>1. StartInv' /\ HeaderInv'
    BY <1>0, <1>1, <1>3 DEF StartInv, HeaderInv, Fresh, NoCheck
  <2>2. ReachInv'
    BY <1>0, <1>1, <1>3 DEF ReachInv, Fresh, NoCall
  <2>3. TablesInv' /\ FaultInv'
    BY <1>0, <1>3 DEF TablesInv, Bare, FaultInv
  <2> QED
    BY <2>1, <2>2, <2>3
<1>4. CASE StartHeader
  <2>1. Fresh'
    BY <1>1, <1>4 DEF StartHeader, Begin, Fresh
  <2>2. StartInv' /\ HeaderInv'
    BY <1>0, <1>4, <2>1 DEF StartInv, StartHeader, Begin, HeaderInv, Fresh
  <2>3. ReachInv'
    BY <1>0, <1>4, <2>1 DEF ReachInv, StartHeader, Begin
  <2>4. TablesInv' /\ LoadInv' /\ RestInv' /\ FaultInv'
    BY <1>0, <1>4
    DEF StartHeader, TablesInv, Bare, LoadInv, RestInv, Quiet, FaultInv
  <2> QED
    BY <1>2, <1>4, <2>1, <2>2, <2>3, <2>4 DEF StartHeader
<1>5. CASE RebuildHeaders
  <2>1. Fresh'
    BY <1>1, <1>5 DEF RebuildHeaders, Fresh
  <2>2. StartInv' /\ HeaderInv'
    BY <1>0, <1>5, <2>1 DEF StartInv, RebuildHeaders, Rebuild, HeaderInv, Fresh
  <2>3. ReachInv'
    <3>1. top' \in Block => Depth[top'] <= Depth[peer]
      <4>1. CASE top' = Genesis
        BY <4>1, GenesisDepth, DepthNat DEF TypeInv, TypeOK
      <4>2. CASE top \in Block /\ OnBranch(top', top) /\ top' \in Block
        BY <1>0, <4>2, DepthNat DEF ReachInv, OnBranch, TypeInv, TypeOK
      <4> QED
        BY <1>5, <4>1, <4>2, TreeAssumption DEF RebuildHeaders, Rebuild
    <3> QED
      BY <1>0, <1>1, <1>5, <2>1, <3>1 DEF ReachInv, RebuildHeaders, Rebuild
  <2>4. TablesInv' /\ LoadInv' /\ RestInv' /\ FaultInv'
    BY <1>0, <1>5
    DEF RebuildHeaders, TablesInv, Bare, LoadInv, RestInv, Quiet, FaultInv
  <2> QED
    BY <1>2, <1>5, <2>1, <2>2, <2>3, <2>4 DEF RebuildHeaders
<1>6. CASE HeaderReady
  <2>1. Fresh'
    BY <1>1, <1>6 DEF HeaderReady, Fresh
  <2>2. StartInv'
    BY <1>0, <1>6, <2>1 DEF StartInv, HeaderReady, Ready, Fresh
  <2>3. HeaderInv'
    BY <1>0, <1>1, <1>6, <2>1, OnBranchSelf
    DEF HeaderReady, Ready, HeaderInv, Fresh, NoCheck
  <2>4. ReachInv'
    BY <1>0, <1>6, <2>1 DEF ReachInv, HeaderReady, Ready
  <2>5. TablesInv' /\ LoadInv' /\ RestInv' /\ FaultInv'
    BY <1>0, <1>6
    DEF HeaderReady, TablesInv, Bare, LoadInv, RestInv, Quiet, FaultInv
  <2> QED
    BY <1>2, <1>6, <2>1, <2>2, <2>3, <2>4, <2>5 DEF HeaderReady
<1>7. CASE StartBlock
  <2>1. storedTip.height = 0 \/ HasRow(blocks, storedTip.height)
    BY <1>0, StoredTipFound DEF Row
  <2>2. /\ phase = "block" /\ phase' = "destroy"
        /\ UNCHANGED <<header, database, fault, chain, flags, listeners, check,
                       call, work, queue, others, network, counters>>
    BY <1>7, <2>1, <1>0 DEF StartBlock, Row
  <2>3. Fresh'
    BY <1>1, <2>2 DEF Fresh
  <2>4. LoadInv' /\ RestInv'
    BY <2>2 DEF LoadInv, RestInv, Quiet
  <2> QED
    BY <1>2, <1>3, <2>2, <2>3, <2>4
<1>8. CASE DestroyAboveTip
  <2>1. /\ phase = "destroy" /\ phase' = "load" /\ tip' = storedTip
        /\ blocks' = Below(blocks, storedTip.height)
        /\ UNCHANGED <<header, storedTip, txs, txTip, fault, recent, lastSaved,
                       flags, listeners, check, call, work, queue, others,
                       network, counters>>
    BY <1>8 DEF DestroyAboveTip
  <2>2. Fresh'
    BY <1>1, <2>1 DEF Fresh
  <2>3. StartInv' /\ HeaderInv'
    BY <1>0, <1>1, <2>1, <2>2 DEF StartInv, HeaderInv, Fresh, NoCheck
  <2>4. ReachInv'
    BY <1>0, <1>1, <2>1, <2>2 DEF ReachInv, Fresh, NoCall
  <2>5. TablesInv' /\ LoadInv'
    <3>1. CASE Bare
      BY <1>0, <2>1, <3>1, CutTables DEF TablesInv, LoadInv, Bare
    <3>2. CASE ~Bare
      <4>1. blocks' = RowsOf(storedTip.hash)
        BY <2>1, <3>2, CutTables
      <4>2. PICK y \in Block : txs = RowsOf(y) /\ OnBranch(storedTip.hash, y)
        BY <1>0, <3>2 DEF TablesInv
      <4>3. OnBranch(storedTip.hash, storedTip.hash)
        BY <1>0, OnBranchSelf
      <4> QED
        BY <1>0, <2>1, <4>1, <4>2, <4>3 DEF TablesInv, LoadInv
    <3> QED
      BY <3>1, <3>2
  <2>6. RestInv' /\ FaultInv'
    BY <1>0, <2>1 DEF RestInv, Quiet, FaultInv
  <2> QED
    BY <1>2, <2>1, <2>2, <2>3, <2>4, <2>5, <2>6
<1>9. CASE LoadRecentHashes
  <2>1. /\ phase = "load" /\ phase' = "transaction"
        /\ UNCHANGED <<header, database, fault, tip, lastSaved, flags, listeners,
                       check, call, work, queue, others, network, counters>>
    BY <1>9 DEF LoadRecentHashes
  <2>2. Fresh'
    BY <1>1, <2>1 DEF Fresh
  <2>3. LoadInv' /\ RestInv'
    BY <1>0, <2>1 DEF LoadInv, RestInv, Quiet, Bare
  <2> QED
    BY <1>2, <1>3, <2>1, <2>2, <2>3
<1>10. CASE DestroyTransactions
  <2>1. /\ phase = "transaction" /\ phase' = "store"
        /\ txs' = Below(txs, TransactionTip.height)
        /\ UNCHANGED <<header, blocks, storedTip, txTip, fault, chain, flags,
                       listeners, check, call, work, queue, others, network,
                       counters>>
    BY <1>10 DEF DestroyTransactions
  <2>2. Fresh'
    BY <1>1, <2>1 DEF Fresh
  <2>3. StartInv' /\ HeaderInv'
    BY <1>0, <1>1, <2>1, <2>2 DEF StartInv, HeaderInv, Fresh, NoCheck
  <2>4. ReachInv'
    BY <1>0, <1>1, <2>1, <2>2 DEF ReachInv, Fresh, NoCall
  <2>5. storedTip = tip /\ TransactionTip.height = storedTip.height
    <3>1. storedTip = tip /\ txTip.height >= storedTip.height
      BY <1>0, <2>1 DEF LoadInv, TablesInv
    <3>2. txTip.height \in Nat /\ storedTip.height \in Nat
      BY RowType DEF TypeInv, TypeOK
    <3> QED
      BY <3>1, <3>2 DEF TransactionTip
  <2>6. TablesInv' /\ LoadInv'
    <3>1. CASE Bare
      BY <1>0, <2>1, <2>5, <3>1, CutTables DEF TablesInv, LoadInv, AtTip, Bare
    <3>2. CASE ~Bare
      <4>1. blocks' = RowsOf(tip.hash) /\ txs' = RowsOf(tip.hash)
        BY <1>0, <2>1, <2>5, <3>2, CutTables DEF LoadInv
      <4>2. OnBranch(storedTip.hash, storedTip.hash)
        BY <1>0, OnBranchSelf
      <4> QED
        BY <1>0, <2>1, <2>5, <4>1, <4>2 DEF TablesInv, LoadInv, AtTip
    <3> QED
      BY <3>1, <3>2
  <2>7. RestInv' /\ FaultInv'
    BY <1>0, <2>1 DEF RestInv, Quiet, FaultInv
  <2> QED
    BY <1>2, <2>1, <2>2, <2>3, <2>4, <2>6, <2>7
<1>11. CASE StoreTransactionTip
  <2>1. /\ phase = "store" /\ phase' = "run"
        /\ txTip' = TransactionTip
        /\ UNCHANGED <<header, blocks, storedTip, txs, fault, chain, flags,
                       listeners, check, call, work, queue, others, network,
                       counters>>
    BY <1>11 DEF StoreTransactionTip
  <2>2. Fresh'
    BY <1>1, <2>1 DEF Fresh
  <2>3. StartInv' /\ HeaderInv'
    BY <1>0, <1>1, <2>1, <2>2 DEF StartInv, HeaderInv, Fresh, NoCheck
  <2>4. ReachInv'
    BY <1>0, <1>1, <2>1, <2>2 DEF ReachInv, Fresh, NoCall
  <2>5. storedTip = tip /\ AtTip
    BY <1>0, <2>1 DEF LoadInv
  <2>6. TablesInv'
    <3>1. TransactionTip.height >= storedTip.height
      BY <1>0, <2>5, RowType DEF TransactionTip, TablesInv, TypeInv, TypeOK
    <3> QED
      BY <1>0, <2>1, <3>1 DEF TablesInv, Bare
  <2>7. LoadInv' /\ RestInv' /\ FaultInv'
    BY <1>0, <2>1, <2>5 DEF LoadInv, RestInv, AtTip, Bare, FaultInv
  <2> QED
    BY <1>2, <2>1, <2>2, <2>3, <2>4, <2>6, <2>7
<1> QED
  BY <1>4, <1>5, <1>6, <1>7, <1>8, <1>9, <1>10, <1>11 DEF Starting

-----------------------------------------------------------------------------
(* The header service.                                                     *)

\* What runs beside the header service: nothing but onHeaders() may stop or
\* start.
Beside ==
  /\ UNCHANGED <<phase, fault, database, tip, work, call, live, timer,
                 processing, subscribed, listening, peer>>
  /\ \/ check' = check
     \/ /\ check.pc \in {"none", "done"}
        /\ check'.pc \in {"none", "idle"}
        /\ check'.back = GenesisRow

\* It does not disturb the tables, if the common block stays.
LEMMA DataBeside ==
  ASSUME TypeInv, CalmInv, Beside,
         check.pc # "none" /\ check' = check => UNCHANGED top
  PROVE  DataInv' /\ WorkInv' /\ FaultInv'
<1> USE DEF Beside, database
<1>0. DataInv /\ WorkInv /\ FaultInv
  BY DEF CalmInv, ProcessInv
<1>1. \/ check'.pc = check.pc
      \/ check.pc \in {"none", "done"} /\ check'.pc \in {"none", "idle"}
  OBVIOUS
<1>2. TrueInv'
  BY <1>0, GenesisDepth DEF DataInv, TrueInv, GenesisRow
<1>3. TablesInv' /\ LoadInv'
  BY <1>0 DEF DataInv, TablesInv, LoadInv, AtTip, Bare
<1>4. RestInv'
  <2>1. Quiet' => Quiet
    BY <1>1 DEF Quiet, Saver
  <2> QED
    BY <1>0, <2>1 DEF DataInv, RestInv, AtTip, Bare
<1>5. SaveInv' /\ GenesisInv'
  BY <1>0 DEF DataInv, SaveInv, GenesisInv, AtTip, Bare
<1>6. CallWorkInv' /\ WorkInv' /\ FaultInv'
  BY <1>0, <1>1 DEF DataInv, CallWorkInv, WorkInv, FaultInv
<1>7. UndoInv'
  BY <1>0, <1>1 DEF DataInv, UndoInv, Held
<1> QED
  BY <1>2, <1>3, <1>4, <1>5, <1>6, <1>7 DEF DataInv

\* Nor the calls, if the table keeps the headers they ask for.
LEMMA CallBeside ==
  ASSUME TypeInv, CalmInv, Beside,
         \/ /\ \A b \in Block : Held(b) => Held(b)'
            /\ reorging => reorging' \/ check.pc = "done"
         \/ /\ \A c \in Call : call[c].pc # "ask"
            /\ reorging /\ reorging'
            /\ check.pc = "none" /\ check' = check
  PROVE  CallInv'
<1> USE DEF Beside
<1>0. CallInv /\ StillInv /\ tip.hash \in Block
  BY RowType DEF CalmInv, FeedInv, TypeInv, TypeOK
<1>1. \/ check'.pc = check.pc
      \/ check.pc \in {"none", "done"} /\ check'.pc \in {"none", "idle"}
  OBVIOUS
<1>2. \A c \in Call : Active(c)' = Active(c)
  BY DEF Active
<1>3. ASSUME NEW c \in Call, Vain(c)
      PROVE  Vain(c)'
  BY <1>3 DEF Vain, Wanted, OnBranch
<1>4. reorging => reorging' \/ check.pc = "done"
  OBVIOUS
<1>5. BusyInv' /\ OpenInv'
  BY <1>0, <1>2, <1>3 DEF CallInv, BusyInv, OpenInv
<1>6. DrainedInv'
  BY <1>0, <1>1, <1>2, <1>3 DEF CallInv, DrainedInv
<1>7. AskInv'
  BY <1>0, <1>2 DEF CallInv, AskInv
<1>8. TimerInv'
  <2>1. ASSUME NEW c \in Call, Held(call[c].want), call[c].want \in Block,
               ~reorging' \/ check'.pc \in {"common", "start"}
        PROVE  Held(call[c].want)'
    BY <1>1, <2>1
  <2>2. ASSUME NEW c \in Call, call[c].armed \/ call[c].pc = "save"
        PROVE  call[c].want \in Block
    BY <1>0, <2>2 DEF CallInv, AskInv, TimerInv
  <2>3. check.pc = "done" => ~reorging
    BY <1>0 DEF StillInv
  <2>4. /\ check'.pc \in {"common", "start"} => check.pc \in {"common", "start"}
        /\ ~reorging' => ~reorging
    BY <1>1, <1>4, <2>3
  <2> QED
    BY <1>0, <1>3, <2>1, <2>2, <2>4 DEF CallInv, TimerInv
<1> QED
  BY <1>5, <1>6, <1>7, <1>8 DEF CallInv

\* The invariant after such a step, from what it says of the header service.
LEMMA CalmBeside ==
  ASSUME TypeInv, CalmInv, TypeInv', Beside, phase = "run", stage' # "down",
         stage' # "start",
         check.pc # "none" /\ check' = check => UNCHANGED top,
         \/ /\ \A b \in Block : Held(b) => Held(b)'
            /\ reorging => reorging' \/ check.pc = "done"
         \/ /\ \A c \in Call : call[c].pc # "ask"
            /\ reorging /\ reorging'
            /\ check.pc = "none" /\ check' = check,
         HeaderInv', StillInv', ReachInv'
  PROVE  CalmInv'
<1>1. DataInv' /\ WorkInv' /\ FaultInv'
  BY DataBeside
<1>2. CallInv'
  BY CallBeside
<1>3. StartInv'
  BY DEF Beside, StartInv
<1> QED
  BY <1>1, <1>2, <1>3 DEF TypeInv, CalmInv, ProcessInv, FeedInv

\* The steps of the header service preserve the invariant.
LEMMA CalmHeader ==
  ASSUME TypeInv, CalmInv, Calm, TypeInv', HeaderService
  PROVE  CalmInv'
<1> USE DEF header, database, process, chain, flags, listeners, queue, others,
            network, counters
<1>0. /\ StartInv /\ HeaderInv /\ StillInv /\ ReachInv
      /\ top \in Block \cup {NoBlock} /\ last \in Block /\ peer \in Block
      /\ announced \subseteq Block /\ check \in CheckState
      /\ cut \in Block \cup {NoBlock}
  BY DEF CalmInv, ProcessInv, FeedInv, TypeInv, TypeOK
<1>1. check.pc # "none" \/ stage = "follow" \/ cut # NoBlock => phase = "run"
  BY <1>0 DEF StartInv, Fresh, NoCheck
<1>2. CASE HeaderSyncs
  <2>0. /\ UNCHANGED <<database, process, chain, flags, listeners, check, call,
                       work, queue, others, network, counters>>
        /\ phase = "run" /\ Beside
    BY <1>2 DEF HeaderSyncs, Beside
  <2>1. ASSUME NEW b \in Block, OnBranch(b, peer), Download(b)
        PROVE  CalmInv'
    <3>1. /\ stage = "sync" /\ top = last /\ last' = b /\ cut = NoBlock
          /\ check.pc = "none" /\ announced = {} /\ OnBranch(last, b)
          /\ UNCHANGED <<top, stage, cut>>
      BY <1>0, <2>1 DEF Download, HeaderInv
    <3>2. HeaderInv' /\ StillInv'
      BY <1>0, <2>0, <3>1 DEF HeaderInv, StillInv
    <3>3. ReachInv'
      BY <1>0, <2>0, <2>1, <3>1 DEF ReachInv, OnBranch
    <3>4. \A a \in Block : Held(a) => Held(a)'
      BY <3>1 DEF Held
    <3> QED
      BY <2>0, <3>1, <3>2, <3>3, <3>4, CalmBeside
  <2>2. CASE Save
    <3>1. /\ stage \in {"sync", "follow"} /\ cut = NoBlock /\ top # last
          /\ top' = last /\ top \in Block /\ OnBranch(top, last)
          /\ UNCHANGED <<last, stage, cut>>
      BY <1>0, <2>2 DEF Save, HeaderInv
    <3>2. check.pc = "none" /\ OnBranch(last, last)
      BY <1>0, <3>1, OnBranchSelf DEF StillInv
    <3>3. HeaderInv' /\ StillInv'
      BY <1>0, <2>0, <3>1, <3>2 DEF HeaderInv, StillInv
    <3>4. ReachInv'
      BY <1>0, <2>0, <3>1 DEF ReachInv
    <3>5. \A a \in Block : Held(a) => Held(a)'
      BY <1>0, <3>1, OnBranchTrans DEF Held
    <3> QED
      BY <2>0, <3>1, <3>2, <3>3, <3>4, <3>5, CalmBeside
  <2>3. CASE Truncate /\ (SlowReads \/ \A c \in Call : call[c].pc # "ask")
    <3>1. /\ cut # NoBlock /\ cut \in Block /\ top' = cut /\ stage = "follow"
          /\ reorging /\ check.pc = "none"
          /\ top = cut \/ (top = last /\ OnBranch(cut, last))
          /\ UNCHANGED <<last, stage, cut>>
      BY <1>0, <2>3 DEF Truncate, HeaderInv
    <3>2. HeaderInv' /\ StillInv'
      BY <1>0, <2>0, <3>1 DEF HeaderInv, StillInv
    <3>3. Depth[cut] <= Depth[peer]
      BY <1>0, <3>1, DepthNat DEF ReachInv, OnBranch
    <3>4. ReachInv'
      BY <1>0, <2>0, <3>1, <3>3 DEF ReachInv
    <3>5. \A c \in Call : call[c].pc # "ask"
      BY <2>3 DEF Calm
    <3> QED
      BY <2>0, <3>1, <3>2, <3>4, <3>5, CalmBeside
  <2>4. CASE Again
    <3>1. /\ cut # NoBlock /\ cut \in Block /\ top = cut /\ last' = cut
          /\ cut' = NoBlock /\ stage' = "sync" /\ UNCHANGED top
          /\ reorging /\ check.pc = "none" /\ announced = {}
      BY <1>0, <2>4 DEF Again, HeaderInv
    <3>2. HeaderInv' /\ StillInv'
      BY <1>0, <2>0, <3>1, OnBranchSelf DEF HeaderInv, StillInv
    <3>3. ReachInv'
      BY <1>0, <2>0, <3>1 DEF ReachInv
    <3>4. \A a \in Block : Held(a) => Held(a)'
      BY <3>1 DEF Held
    <3> QED
      BY <2>0, <3>1, <3>2, <3>3, <3>4, CalmBeside
  <2> QED
    BY <1>2, <2>1, <2>2, <2>3, <2>4 DEF HeaderSyncs
<1>3. CASE HeaderCompletes
  <2>1. /\ phase = "run" /\ check.pc = "none" /\ stage = "sync" /\ top = last
        /\ last # Genesis /\ stage' = "follow" /\ UNCHANGED <<top, last, cut>>
        /\ check'.pc = "idle" /\ check'.back = GenesisRow
        /\ UNCHANGED <<database, process, chain, flags, listeners, call, work,
                       queue, others, network, counters>>
    BY <1>3 DEF HeaderCompletes, Complete, NoCheck
  <2>2. Beside /\ cut = NoBlock /\ announced = {}
    BY <1>0, <2>1 DEF Beside, HeaderInv
  <2>3. HeaderInv' /\ StillInv'
    BY <1>0, <2>1, <2>2 DEF HeaderInv, StillInv
  <2>4. ReachInv'
    BY <1>0, <2>1 DEF ReachInv
  <2>5. \A a \in Block : Held(a) => Held(a)'
    BY <2>1 DEF Held
  <2> QED
    BY <2>1, <2>2, <2>3, <2>4, <2>5, CalmBeside
<1>4. CASE ReorgComplete
  <2>1. /\ check.pc = "done" /\ check'.pc = "none" /\ check'.back = GenesisRow
        /\ ~reorging' /\ ~headerReorging'
        /\ UNCHANGED <<header, database, process, chain, processing, listeners,
                       call, work, queue, announced, network, counters>>
    BY <1>4 DEF ReorgComplete, NoCheck
  <2>2. Beside /\ phase = "run" /\ stage = "follow" /\ cut = NoBlock
    BY <1>0, <1>1, <2>1 DEF Beside, StillInv
  <2>3. HeaderInv' /\ StillInv'
    BY <1>0, <2>1, <2>2 DEF HeaderInv, StillInv
  <2>4. ReachInv'
    BY <1>0, <2>1 DEF ReachInv
  <2>5. \A a \in Block : Held(a) => Held(a)'
    BY <2>1 DEF Held
  <2> QED
    BY <2>1, <2>2, <2>3, <2>4, <2>5, CalmBeside
<1>5. ASSUME NEW b \in Block, HeaderLooks(b)
      PROVE  CalmInv'
  <2>0. /\ b \in announced /\ stage = "follow" /\ cut = NoBlock /\ top = last
        /\ UNCHANGED <<database, process, chain, processing, listeners, check,
                       call, work, queue, network, counters>>
        /\ announced' \subseteq announced
    BY <1>5 DEF HeaderLooks
  <2>1. Beside /\ phase = "run"
    BY <1>1, <2>0 DEF Beside
  <2>2. CASE Held(b) /\ UNCHANGED <<header, headerReorging, reorging>>
    <3>1. HeaderInv' /\ StillInv'
      BY <1>0, <2>0, <2>2 DEF HeaderInv, StillInv, Held
    <3>2. ReachInv'
      BY <1>0, <2>0, <2>2 DEF ReachInv
    <3>3. \A a \in Block : Held(a) => Held(a)'
      BY <2>2 DEF Held
    <3> QED
      BY <2>0, <2>1, <2>2, <3>1, <3>2, <3>3, CalmBeside
  <2>3. CASE /\ ~Held(b) /\ Extend(b)
             /\ UNCHANGED <<headerReorging, reorging>>
    <3>1. /\ check.pc = "none" /\ last' = b /\ Parent[b] = last
          /\ UNCHANGED <<top, stage, cut, headerReorging, reorging>>
      BY <1>0, <2>0, <2>3 DEF StillInv, Extend
    <3>2. OnBranch(last, b) /\ top = last
      BY <1>0, <2>0, <3>1, OnBranchParent
    <3>3. HeaderInv' /\ StillInv'
      BY <1>0, <2>0, <3>1, <3>2 DEF HeaderInv, StillInv
    <3>4. ReachInv'
      BY <1>0, <2>0, <3>1 DEF ReachInv
    <3>5. \A a \in Block : Held(a) => Held(a)'
      BY <3>1 DEF Held
    <3> QED
      BY <2>0, <2>1, <3>1, <3>3, <3>4, <3>5, CalmBeside
  <2>4. ASSUME ~Held(b), NEW a \in Block, OnBranch(a, peer), GoBack(a),
               announced' = {}, headerReorging' = TRUE, reorging' = TRUE
        PROVE  CalmInv'
    <3>1. /\ check.pc = "none" /\ cut' = a /\ OnBranch(a, top) /\ top \in Block
          /\ UNCHANGED <<top, last, stage>>
      BY <1>0, <2>0, <2>4 DEF StillInv, GoBack
    <3>2. HeaderInv' /\ StillInv'
      BY <1>0, <2>0, <2>4, <3>1 DEF HeaderInv, StillInv
    <3>3. ReachInv'
      BY <1>0, <2>0, <2>4, <3>1 DEF ReachInv
    <3>4. \A e \in Block : Held(e) => Held(e)'
      BY <3>1 DEF Held
    <3> QED
      BY <2>0, <2>1, <2>4, <3>1, <3>2, <3>3, <3>4, CalmBeside
  <2> QED
    BY <1>5, <2>2, <2>3, <2>4 DEF HeaderLooks
<1> QED
  BY <1>2, <1>3, <1>4, <1>5 DEF HeaderService

\* So does a further peer.
LEMMA CalmResume ==
  ASSUME TypeInv, CalmInv, Calm, TypeInv', PeerReady
  PROVE  CalmInv'
<1> USE DEF header, database, process, chain, flags, listeners, queue, others,
            network
<1>0. HeaderInv /\ StillInv /\ ReachInv
  BY DEF CalmInv, FeedInv
<1>1. /\ phase = "run" /\ check.pc = "none" /\ announced = {}
      /\ stage' = "sync" /\ UNCHANGED <<top, last, cut>> /\ cut = NoBlock
      /\ stage = "follow"
      /\ UNCHANGED <<database, process, chain, flags, listeners, check, call,
                     work, queue, others, network>>
  BY DEF PeerReady, Resume, Calm
<1>2. Beside
  BY <1>1 DEF Beside
<1>3. HeaderInv' /\ StillInv'
  BY <1>0, <1>1 DEF HeaderInv, StillInv
<1>4. ReachInv'
  BY <1>0, <1>1 DEF ReachInv
<1>5. \A a \in Block : Held(a) => Held(a)'
  BY <1>1 DEF Held
<1> QED
  BY <1>1, <1>2, <1>3, <1>4, <1>5, CalmBeside

-----------------------------------------------------------------------------
(* Steps of the block service alone.                                       *)

\* Only the genesis block is at the bottom.
LEMMA GenesisOnly ==
  ASSUME NEW b \in Block, Depth[b] = 0
  PROVE  b = Genesis
  BY BranchAssumption

\* What the header service keeps, when a step leaves it alone.
LEMMA FeedSame ==
  ASSUME CalmInv, UNCHANGED <<header, headerReorging, announced, peer>>,
         check'.pc # "none" => check.pc # "none",
         \/ reorging' = reorging
         \/ ~reorging' /\ check.pc # "none",
         check'.pc \in {"genesis", "first", "done"} => ~reorging',
         \A c \in Call : call'[c].pc = "wait" =>
            Depth[call'[c].want] <= Depth[peer]
  PROVE  FeedInv'
<1> USE DEF header
<1>1. HeaderInv /\ StillInv /\ ReachInv
  BY DEF CalmInv, FeedInv
<1>2. HeaderInv'
  BY <1>1 DEF HeaderInv, StillInv
<1>3. StillInv'
  BY <1>1 DEF StillInv, Held
<1>4. ReachInv'
  BY <1>1 DEF ReachInv
<1> QED
  BY <1>2, <1>3, <1>4 DEF FeedInv

\* The whole invariant, after a step that does not stop the process.
LEMMA Running ==
  ASSUME CalmInv, TypeInv', phase = "run",
         UNCHANGED <<phase, fault, header>>,
         FeedInv', WorkInv', CallInv', DataInv'
  PROVE  CalmInv'
<1>1. StartInv /\ FaultInv
  BY DEF CalmInv, ProcessInv
<1>2. StartInv' /\ FaultInv'
  BY <1>1 DEF StartInv, FaultInv, header
<1> QED
  BY <1>2 DEF TypeInv, CalmInv, ProcessInv

\* While onHeaders() looks for the common block and goes back to it, nothing
\* is saved.
LEMMA Drained ==
  ASSUME TypeInv, CalmInv,
         check.pc \in {"common", "remove", "settip", "forget", "undo", "destroy",
                       "start"}
  PROVE  /\ phase = "run"
         /\ \A w \in Worker : work[w].pc = "none"
         /\ \A c \in Call : call[c].pc # "save" /\ ~call[c].first
<1>1. phase = "run"
  BY DEF CalmInv, ProcessInv, StartInv, Fresh, NoCheck
<1>2. \A c \in Call : call[c].pc # "save" /\ ~call[c].first
  BY DEF CalmInv, CallInv, DrainedInv, Active, Vain, Wanted
<1>3. live = "none"
  <2>1. ~subscribed
    BY DEF CalmInv, CallInv, DrainedInv
  <2>2. inQueue = 0 /\ inQueue = Len(waiting) + IF running = NoBlock THEN 0 ELSE 1
    BY <2>1 DEF TypeInv, TypeOK, QueueInv
  <2>3. Len(waiting) \in Nat
    BY DEF TypeInv, TypeOK
  <2>4. running = NoBlock
    BY <2>2, <2>3
  <2> QED
    BY <2>4 DEF TypeInv, QueueInv
<1>4. ASSUME NEW w \in Worker
      PROVE  work[w].pc = "none"
  BY <1>2, <1>3 DEF CalmInv, ProcessInv, WorkInv, Worker
<1> QED
  BY <1>1, <1>2, <1>4

\* The second conjunct of OneSaver.
LEMMA DrainedSaver ==
  ASSUME TypeInv, CalmInv
  PROVE  check.pc \in {"common", "remove", "settip", "forget", "undo", "destroy",
                       "start"} => Saver = {}
  BY Drained DEF Saver

\* Without a save, what a step keeps of the data.
LEMMA IdleData ==
  ASSUME CalmInv, \A w \in Worker : work[w].pc = "none",
         work' = work,
         check'.pc # "first",
         phase' = "run",
         tip'.height = Depth[tip'.hash],
         storedTip'.height = Depth[storedTip'.hash],
         check'.back.height = Depth[check'.back.hash],
         \A c \in Call : call'[c].pc # "save",
         TablesInv', RestInv', UndoInv'
  PROVE  DataInv'
<1>0. /\ \A w \in Worker : work[w].row.height = Depth[work[w].row.hash]
      /\ "genesis" \in Worker /\ "live" \in Worker
  BY WorkerType DEF CalmInv, DataInv, TrueInv
<1>1. TrueInv' /\ LoadInv'
  BY <1>0 DEF TrueInv, LoadInv
<1>2. SaveInv' /\ GenesisInv' /\ CallWorkInv'
  BY <1>0 DEF SaveInv, GenesisInv, CallWorkInv
<1> QED
  BY <1>1, <1>2 DEF DataInv

\* The tables, while nothing is being written.
LEMMA RestTables ==
  ASSUME TypeInv, CalmInv, AtTip
  PROVE  /\ tip \in Row /\ tip.hash \in Block /\ tip.height = Depth[tip.hash]
         /\ storedTip = tip
         /\ tip.height >= 1 => blocks = RowsOf(tip.hash) /\ txs = RowsOf(tip.hash)
<1>1. tip \in Row /\ tip.hash \in Block /\ tip.height = Depth[tip.hash]
  BY RowType DEF TypeInv, TypeOK, CalmInv, DataInv, TrueInv
<1> QED
  BY <1>1 DEF AtTip, Bare, GenesisRow

-----------------------------------------------------------------------------
(* onHeaders().                                                            *)

\* It waits until no block is being processed.
LEMMA CalmIdle ==
  ASSUME TypeInv, CalmInv, TypeInv', CheckIdle \/ CheckDrained
  PROVE  CalmInv'
<1> USE DEF header, database, process, chain, flags, listeners, queue, others,
            network, counters
<1>0. /\ StartInv /\ WorkInv /\ CallInv /\ DataInv
      /\ call \in [Call -> CallState] /\ check \in CheckState
  BY DEF CalmInv, ProcessInv, TypeInv, TypeOK
<1>1. phase = "run"
  BY <1>0 DEF StartInv, Fresh, NoCheck, CheckIdle, CheckDrained
<1>2. /\ check.pc \in {"idle", "drain"} /\ check'.pc \in {"drain", "common"}
      /\ check'.back = check.back
      /\ UNCHANGED <<header, database, process, chain, flags, timer, work, queue,
                     others, network, counters>>
      /\ subscribed' => subscribed
      /\ listening' => listening
  BY <1>0 DEF CheckIdle, CheckDrained, CheckState
<1>3. /\ \A c \in Call : /\ call'[c].pc = call[c].pc
                         /\ call'[c].from = call[c].from
                         /\ call'[c].want = call[c].want
                         /\ call'[c].first = call[c].first
                         /\ call'[c].armed => call[c].armed
      /\ check'.pc = "drain" => call' = call /\ subscribed' = subscribed
  <2>1. CASE CheckIdle
    BY <2>1 DEF CheckIdle
  <2>2. CASE CheckDrained
    <3>1. check'.pc = "common"
      BY <1>0, <2>2 DEF CheckDrained, CheckState
    <3> QED
      BY <1>0, <2>2, <3>1 DEF CheckDrained, Disarmed, CallState
  <2> QED
    BY <2>1, <2>2
<1>4. \A c \in Call : Active(c)' = Active(c) /\ (Vain(c) => Vain(c)')
  BY <1>2, <1>3 DEF Active, Vain, Wanted, OnBranch, Held
<1>5. FeedInv'
  BY <1>2, <1>3, FeedSame DEF CalmInv, FeedInv, ReachInv
<1>6. WorkInv'
  BY <1>0, <1>2, <1>3 DEF WorkInv
<1>7. DataInv'
  <2>1. Quiet' => Quiet
    BY <1>2 DEF Quiet, Saver
  <2>2. RestInv' /\ TablesInv' /\ LoadInv'
    BY <1>0, <1>2, <2>1 DEF DataInv, RestInv, AtTip, Bare, TablesInv, LoadInv
  <2>3. TrueInv'
    BY <1>0, <1>2 DEF DataInv, TrueInv
  <2>4. SaveInv' /\ GenesisInv'
    BY <1>0, <1>2 DEF DataInv, SaveInv, GenesisInv, AtTip, Bare
  <2>5. CallWorkInv' /\ UndoInv'
    BY <1>0, <1>2, <1>3 DEF DataInv, CallWorkInv, UndoInv
  <2> QED
    BY <2>2, <2>3, <2>4, <2>5 DEF DataInv
<1>8. \A c \in Call : Active(c) => Vain(c) /\ ~call[c].first
  <2>1. CASE CheckIdle
    BY <1>0, <2>1 DEF CheckIdle, CallInv, BusyInv
  <2>2. CASE CheckDrained
    BY <1>0, <2>2 DEF CheckDrained, CallInv, DrainedInv
  <2> QED
    BY <2>1, <2>2
<1>9. CallInv'
  <2>1. BusyInv'
    BY <1>0, <1>3, <1>4, <1>8 DEF BusyInv
  <2>2. DrainedInv'
    <3>1. check'.pc = "common" => ~subscribed' /\ ~listening'
      BY <1>0, <1>2 DEF CheckIdle, CheckDrained, CheckState
    <3>2. \A c \in Call : /\ call'[c].first => Active(c)'
                          /\ Active(c)' => ~call'[c].first
      BY <1>0, <1>3, <1>4, <1>8 DEF CallInv, DrainedInv
    <3> QED
      BY <1>2, <1>3, <1>4, <1>8, <3>1, <3>2 DEF DrainedInv
  <2>3. OpenInv'
    BY <1>0, <1>2, <1>3, <1>4 DEF CallInv, OpenInv
  <2>4. AskInv'
    BY <1>0, <1>2, <1>3, <1>4 DEF CallInv, AskInv, Held
  <2>5. TimerInv'
    <3>1. ASSUME NEW c \in Call, call'[c].armed
          PROVE  check'.pc = "drain" /\ call'[c] = call[c]
      <4>1. CASE CheckIdle
        BY <1>0, <4>1 DEF CheckIdle, CheckState
      <4>2. CASE CheckDrained
        <5>1. timer = c
          BY <1>0, <1>3, <3>1 DEF CallInv, TimerInv
        <5> QED
          BY <1>0, <3>1, <4>2, <5>1 DEF CheckDrained, Disarmed, CallState
      <4> QED
        BY <4>1, <4>2
    <3>2. \A c \in Call : ~(call'[c].pc = "wait" /\ ~Vain(c)')
      BY <1>3, <1>4, <1>8 DEF Active
    <3>3. ASSUME NEW c \in Call, call'[c].armed
          PROVE  /\ call'[c].pc = "wait" /\ timer' = c /\ call'[c].from = tip'
                 /\ \/ ~reorging' \/ check'.pc \in {"common", "start"}
                    => Held(call[c].want)'
      BY <1>0, <1>2, <3>1, <3>3 DEF CallInv, TimerInv, Held
    <3>4. \A c \in Call : call'[c].pc = "save" /\ ~reorging' => Held(call[c].want)'
      BY <1>0, <1>2, <1>3 DEF CallInv, TimerInv, Held
    <3> QED
      BY <3>2, <3>3, <3>4 DEF TimerInv
  <2> QED
    BY <2>1, <2>2, <2>3, <2>4, <2>5 DEF CallInv
<1> QED
  BY <1>1, <1>2, <1>5, <1>6, <1>7, <1>9, Running

\* The common block of a tip that the header table does not have.
LEMMA CommonBelow ==
  ASSUME TypeInv, CalmInv, Common # {}, CommonBlock # tip.hash
  PROVE  /\ CommonBlock \in Block /\ Held(CommonBlock)
         /\ OnBranch(CommonBlock, tip.hash)
         /\ ~Held(tip.hash)
<1>1. TypeOK /\ tip.hash \in Block
  BY RowType DEF TypeInv, TypeOK
<1>2. /\ CommonBlock \in Block /\ Held(CommonBlock)
      /\ OnBranch(CommonBlock, tip.hash)
      /\ \A a \in Common : Depth[a] <= Depth[CommonBlock]
  BY <1>1, CommonBlockFound
<1>3. ASSUME Held(tip.hash)
      PROVE  FALSE
  <2>1. Depth[tip.hash] \in Nat /\ Depth[CommonBlock] \in Nat
    BY <1>1, <1>2, DepthNat
  <2>2. tip.hash \in Tried
    BY <1>1, <2>1, OnBranchSelf DEF Tried
  <2>3. Depth[tip.hash] <= Depth[CommonBlock]
    BY <1>2, <1>3, <2>2 DEF Common
  <2>4. Depth[CommonBlock] = Depth[tip.hash]
    BY <1>2, <2>1, <2>3 DEF OnBranch
  <2> QED
    BY <1>1, <1>2, <2>4, OnBranchSelf, OnBranchSame
<1> QED
  BY <1>2, <1>3

\* The calls, while onHeaders() goes from one step to the next: what it did so
\* far holds on, and no call has its timer set once it goes back.
LEMMA DrainedCalls ==
  ASSUME TypeInv, CalmInv,
         check.pc \in {"common", "remove", "settip", "forget", "undo", "destroy"},
         check'.pc \in {"remove", "settip", "forget", "undo", "destroy", "start"},
         UNCHANGED <<header, call, processing, reorging, subscribed, listening,
                     timer, peer>>,
         \/ \A c \in Call : call[c].pc # "ask" /\ ~call[c].armed
         \/ check.pc = "common" /\ check'.pc = "start" /\ tip' = tip
  PROVE  CallInv'
<1> USE DEF header
<1>0. /\ CallInv /\ ~subscribed /\ ~listening
      /\ \A c \in Call : Active(c) => Vain(c) /\ ~call[c].first
      /\ \A c \in Call : call[c].pc # "save"
  BY DEF CalmInv, CallInv, DrainedInv, Active, Vain, Wanted
<1>1. \A c \in Call : Active(c)' = Active(c) /\ (Vain(c) => Vain(c)')
  BY DEF Active, Vain, Wanted, OnBranch, Held
<1>2. BusyInv' /\ OpenInv'
  BY <1>0, <1>1 DEF BusyInv, OpenInv
<1>3. DrainedInv'
  BY <1>0, <1>1 DEF CallInv, DrainedInv
<1>4. AskInv'
  BY <1>0, <1>1 DEF CallInv, AskInv, Held
<1>5. TimerInv'
  <2>1. \A c \in Call : ~(call'[c].pc = "wait" /\ ~Vain(c)')
    BY <1>0, <1>1 DEF Active
  <2>2. \A c \in Call : call[c].armed =>
          /\ check.pc = "common" /\ tip' = tip
          /\ call[c].pc = "wait" /\ timer = c /\ call[c].from = tip
          /\ Held(call[c].want)
    BY <1>0 DEF CallInv, TimerInv
  <2> QED
    BY <1>0, <2>1, <2>2 DEF TimerInv, Held
<1> QED
  BY <1>2, <1>3, <1>4, <1>5 DEF CallInv

\* Going back to the common block, step by step.
LEMMA CalmUndo ==
  ASSUME TypeInv, CalmInv, TypeInv',
         \/ FindCommon \/ FindBlocksToRemove \/ StoreCommonTip \/ ForgetHashes
         \/ UndoTransactions \/ UndoBlocks
  PROVE  CalmInv'
<1> USE DEF header, database, process, chain, flags, listeners, queue, others,
            network, counters
<1>0. /\ WorkInv /\ CallInv /\ FeedInv /\ TrueInv /\ TablesInv /\ RestInv /\ UndoInv
      /\ check \in CheckState /\ check.back \in Row /\ tip \in Row
      /\ check.back.hash \in Block /\ tip.hash \in Block /\ storedTip \in Row
      /\ storedTip.hash \in Block
      /\ tip.height = Depth[tip.hash] /\ storedTip.height = Depth[storedTip.hash]
      /\ check.back.height = Depth[check.back.hash]
  BY RowType DEF CalmInv, ProcessInv, DataInv, TypeInv, TypeOK, CheckState, TrueInv
<1>1. check.pc \in {"common", "remove", "settip", "forget", "undo", "destroy"}
  BY DEF FindCommon, FindBlocksToRemove, StoreCommonTip, ForgetHashes,
         UndoTransactions, UndoBlocks
<1>2. /\ phase = "run"
      /\ \A w \in Worker : work[w].pc = "none"
      /\ \A c \in Call : call[c].pc # "save" /\ ~call[c].first
  BY <1>1, Drained
<1>3. check.pc \in {"common", "remove"} => AtTip
  BY <1>0, <1>2 DEF RestInv, Quiet, Saver
<1>4. check.pc \in {"remove", "settip", "forget", "undo", "destroy"} =>
        \A c \in Call : call[c].pc # "ask" /\ ~call[c].armed
  BY <1>0 DEF CallInv, DrainedInv
\* What is left to show of a step that goes on.
<1>5. ASSUME check'.pc \in {"remove", "settip", "forget", "undo", "destroy", "start"},
             UNCHANGED <<header, txTip, process, flags, listeners, call, work,
                         queue, others, network, counters>>,
             \/ check.pc # "common"
             \/ \A c \in Call : call[c].pc # "ask" /\ ~call[c].armed
             \/ check'.pc = "start" /\ tip' = tip,
             tip'.height = Depth[tip'.hash],
             storedTip'.height = Depth[storedTip'.hash],
             check'.back.height = Depth[check'.back.hash],
             TablesInv', RestInv', UndoInv'
      PROVE  CalmInv'
  <2>1. FeedInv'
    BY <1>0, <1>1, <1>5, FeedSame DEF FeedInv, ReachInv
  <2>2. WorkInv'
    BY <1>0, <1>1, <1>5 DEF WorkInv
  <2>3. CallInv'
    BY <1>1, <1>4, <1>5, DrainedCalls
  <2>4. DataInv'
    BY <1>2, <1>5, IdleData
  <2> QED
    BY <1>2, <1>5, <2>1, <2>2, <2>3, <2>4, Running
<1>6. CASE FindCommon
  <2>1. CASE Common = {} /\ Stop("unlocated")
    BY <2>1, CalmStop
  <2>2. CASE ~(Common = {} /\ Stop("unlocated"))
    <3>1. /\ check.pc = "common" /\ Common # {}
          /\ check' = IF CommonBlock = tip.hash
                      THEN [check EXCEPT !.pc = "start"]
                      ELSE [pc |-> "remove", back |-> RowOf(CommonBlock)]
          /\ UNCHANGED <<header, database, process, chain, flags, listeners,
                         call, work, queue, others, network, counters>>
      BY <1>6, <2>2 DEF FindCommon
    <3>2. TablesInv'
      BY <1>0, <3>1 DEF TablesInv, Bare
    <3>3. AtTip'
      BY <1>3, <3>1 DEF AtTip, Bare
    <3>4. CASE CommonBlock = tip.hash
      <4>1. check'.pc = "start" /\ check'.back = check.back
        BY <1>0, <3>1, <3>4 DEF CheckState
      <4>2. Held(tip.hash)
        BY <3>1, <3>4, CommonBlockFound DEF TypeInv
      <4>3. UndoInv'
        BY <3>1, <4>1, <4>2 DEF UndoInv, Held
      <4> QED
        BY <1>0, <1>5, <3>1, <3>2, <3>3, <4>1, <4>3 DEF RestInv
    <3>5. CASE CommonBlock # tip.hash
      <4>1. /\ CommonBlock \in Block /\ Held(CommonBlock)
            /\ OnBranch(CommonBlock, tip.hash)
            /\ ~Held(tip.hash)
        BY <3>1, <3>5, CommonBelow
      <4>2. check'.pc = "remove" /\ check'.back = RowOf(CommonBlock)
        BY <3>1, <3>5
      <4>3. UndoInv'
        BY <3>1, <3>5, <4>1, <4>2 DEF UndoInv, RowOf, Held, OnBranch
      <4>4. ASSUME NEW c \in Call
            PROVE  call[c].pc # "ask" /\ ~call[c].armed
        <5>1. call[c].pc # "ask"
          BY <1>0, <4>1 DEF CallInv, AskInv
        <5>2. ASSUME call[c].armed
              PROVE  FALSE
          <6>1. /\ call[c].pc = "wait" /\ call[c].from = tip
                /\ Held(call[c].want)
            BY <1>0, <3>1, <5>2 DEF CallInv, TimerInv
          <6>2. call[c].want \in Block /\ Parent[call[c].want] = tip.hash
            BY <1>0, <6>1 DEF CallInv, AskInv
          <6>3. OnBranch(tip.hash, call[c].want)
            BY <1>0, <6>2, OnBranchParent
          <6>4. OnBranch(tip.hash, top) /\ top \in Block
            BY <1>0, <6>1, <6>2, <6>3, OnBranchTrans DEF Held
          <6> QED
            BY <4>1, <6>4 DEF Held
        <5> QED
          BY <5>1, <5>2
      <4>5. check'.back.height = Depth[check'.back.hash]
        BY <4>2 DEF RowOf
      <4> QED
        BY <1>0, <1>5, <3>1, <3>2, <3>3, <4>2, <4>3, <4>4, <4>5 DEF RestInv
    <3> QED
      BY <3>4, <3>5
  <2> QED
    BY <2>1, <2>2
<1>7. CASE FindBlocksToRemove
  <2>1. /\ check.pc = "remove" /\ Held(check.back.hash)
        /\ check.back.hash # tip.hash
        /\ OnBranch(check.back.hash, tip.hash)
    BY <1>0, <1>7 DEF FindBlocksToRemove, UndoInv
  <2>2. AtTip
    BY <1>3, <2>1
  <2>3. tip.height >= 1
    <3>1. tip.hash # Genesis
      <4>1. Depth[check.back.hash] = 0 \/ tip.hash # Genesis
        BY <1>0, <2>1, GenesisDepth, DepthNat DEF OnBranch
      <4> QED
        BY <1>0, <2>1, <4>1, GenesisOnly
    <3> QED
      BY <1>0, <3>1, GenesisOnly, DepthNat
  <2>4. storedTip = tip /\ blocks = RowsOf(tip.hash) /\ txs = RowsOf(tip.hash)
    BY <2>2, <2>3, RestTables
  <2>5. ASSUME NEW h \in check.back.height .. tip.height
        PROVE  HasRow(blocks, h)
    <3>1. h \in 0 .. Depth[tip.hash]
      BY <1>0, DepthNat
    <3> QED
      BY <1>0, <2>4, <3>1, RowsOfFull DEF HasRow
  <2>6. /\ tip' = check.back
        /\ check' = [check EXCEPT !.pc = "settip"]
        /\ UNCHANGED <<header, database, process, recent, lastSaved, flags,
                       listeners, call, work, queue, others, network, counters>>
    BY <1>7, <2>5 DEF FindBlocksToRemove
  <2>7. check'.pc = "settip" /\ check'.back = check.back
    BY <1>0, <2>6 DEF CheckState
  <2>8. UndoInv'
    BY <2>1, <2>4, <2>6, <2>7 DEF UndoInv, Held
  <2>9. TablesInv' /\ RestInv'
    BY <1>0, <2>6, <2>7 DEF TablesInv, Bare, RestInv, Quiet
  <2> QED
    BY <1>0, <1>5, <2>1, <2>6, <2>7, <2>8, <2>9
<1>8. CASE StoreCommonTip
  <2>1. /\ check.pc = "settip" /\ storedTip' = check.back
        /\ check'.pc = "forget" /\ check'.back = check.back
        /\ UNCHANGED <<header, blocks, txs, txTip, process, chain, flags,
                       listeners, call, work, queue, others, network, counters>>
    BY <1>0, <1>8 DEF StoreCommonTip, CheckState
  <2>2. /\ Held(check.back.hash) /\ tip = check.back
        /\ blocks = RowsOf(storedTip.hash) /\ txs = RowsOf(storedTip.hash)
        /\ OnBranch(tip.hash, storedTip.hash)
    BY <1>0, <2>1 DEF UndoInv
  <2>3. UndoInv'
    BY <1>0, <2>1, <2>2 DEF UndoInv, Held
  <2>4. TablesInv'
    <3>1. txTip.height >= storedTip.height /\ txTip.height \in Nat
      BY <1>0, RowType DEF TablesInv, TypeInv, TypeOK
    <3>2. txTip.height >= storedTip'.height
      BY <1>0, <2>1, <2>2, <3>1, DepthNat DEF OnBranch
    <3> QED
      BY <1>0, <2>1, <2>2, <3>2 DEF TablesInv
  <2>5. RestInv'
    BY <2>1 DEF RestInv, Quiet
  <2> QED
    BY <1>0, <1>5, <2>1, <2>3, <2>4, <2>5
<1>9. CASE ForgetHashes
  <2>1. check.pc = "forget" /\ Held(check.back.hash)
    BY <1>0, <1>9 DEF ForgetHashes, UndoInv
  <2>2. /\ check'.pc = "undo" /\ check'.back = check.back
        /\ UNCHANGED <<header, database, process, tip, lastSaved, flags,
                       listeners, call, work, queue, others, network, counters>>
    BY <1>0, <1>9, <2>1 DEF ForgetHashes, CheckState
  <2>3. UndoInv'
    BY <1>0, <2>1, <2>2 DEF UndoInv, Held
  <2>4. TablesInv' /\ RestInv'
    BY <1>0, <2>2 DEF TablesInv, Bare, RestInv, Quiet
  <2> QED
    BY <1>0, <1>5, <2>1, <2>2, <2>3, <2>4
<1>10. CASE UndoTransactions
  <2>1. /\ check.pc = "undo" /\ txs' = Below(txs, check.back.height)
        /\ check'.pc = "destroy" /\ check'.back = check.back
        /\ UNCHANGED <<header, blocks, storedTip, txTip, process, chain, flags,
                       listeners, call, work, queue, others, network, counters>>
    BY <1>0, <1>10 DEF UndoTransactions, CheckState
  <2>2. /\ Held(check.back.hash) /\ tip = check.back /\ storedTip = tip
        /\ txs = blocks
    BY <1>0, <2>1 DEF UndoInv
  <2>3. PICK x \in Block : blocks = RowsOf(x) /\ OnBranch(tip.hash, x)
    BY <1>0, <2>1 DEF UndoInv
  <2>4. txs' = RowsOf(tip.hash)
    BY <1>0, <2>1, <2>2, <2>3, RowsOfBelow DEF Below
  <2>5. UndoInv'
    BY <1>0, <2>1, <2>2, <2>3, <2>4 DEF UndoInv, Held
  <2>6. TablesInv'
    BY <1>0, <2>1, <2>2, <2>3, <2>4, OnBranchSelf DEF TablesInv
  <2>7. RestInv'
    BY <2>1 DEF RestInv, Quiet
  <2> QED
    BY <1>0, <1>5, <2>1, <2>5, <2>6, <2>7
<1>11. CASE UndoBlocks
  <2>1. /\ check.pc = "destroy" /\ blocks' = Below(blocks, check.back.height)
        /\ check'.pc = "start" /\ check'.back = check.back
        /\ UNCHANGED <<header, storedTip, txs, txTip, process, chain, flags,
                       listeners, call, work, queue, others, network, counters>>
    BY <1>0, <1>11 DEF UndoBlocks, CheckState
  <2>2. /\ Held(check.back.hash) /\ tip = check.back /\ storedTip = tip
        /\ txs = RowsOf(tip.hash)
    BY <1>0, <2>1 DEF UndoInv
  <2>3. PICK x \in Block : blocks = RowsOf(x) /\ OnBranch(tip.hash, x)
    BY <1>0, <2>1 DEF UndoInv
  <2>4. blocks' = RowsOf(tip.hash)
    BY <1>0, <2>1, <2>2, <2>3, RowsOfBelow DEF Below
  <2>5. UndoInv'
    BY <2>1, <2>2 DEF UndoInv, Held
  <2>6. TablesInv'
    BY <1>0, <2>1, <2>2, <2>4, OnBranchSelf DEF TablesInv
  <2>7. RestInv'
    BY <2>1, <2>2, <2>4 DEF RestInv, AtTip
  <2> QED
    BY <1>0, <1>5, <2>1, <2>5, <2>6, <2>7
<1> QED
  BY <1>6, <1>7, <1>8, <1>9, <1>10, <1>11

\* The first call of a sync is the only one, and finds its tip's header.
LEMMA FirstCall ==
  ASSUME TypeInv, CalmInv, Calm, TypeInv', FirstSync,
         check.pc \in {"start", "genesis"},
         UNCHANGED <<header, tip, timer, subscribed, peer>>,
         ~reorging', Held(tip.hash)
  PROVE  /\ CallInv'
         /\ \A c \in Call : call[c].pc = "none" /\ call'[c].pc = "ask"
         /\ check'.pc = "first" /\ check'.back = GenesisRow
<1> USE DEF header
<1>1. PICK c \in Call :
        /\ call[c].pc = "none"
        /\ call' = [call EXCEPT ![c] = [NoCall EXCEPT !.pc = "ask", !.from = tip,
                                                      !.first = TRUE]]
  BY DEF FirstSync
<1>2. \A d \in Call : d = c
  BY <1>1 DEF Calm
<1>3. \A d \in Call : /\ call'[d].pc = "ask" /\ call'[d].from = tip
                      /\ call'[d].first /\ ~call'[d].armed
  BY <1>1, <1>2 DEF NoCall, TypeInv, TypeOK
<1>4. processing' /\ check'.pc = "first" /\ check'.back = GenesisRow
  BY DEF FirstSync, NoCheck
<1>5. ~subscribed'
  BY DEF CalmInv, CallInv, DrainedInv
<1>6. BusyInv' /\ OpenInv'
  BY <1>4, <1>5 DEF BusyInv, OpenInv
<1>7. DrainedInv'
  BY <1>3, <1>4, <1>5 DEF DrainedInv, Active
<1>8. AskInv' /\ TimerInv'
  BY <1>3 DEF AskInv, TimerInv, Held
<1> QED
  BY <1>1, <1>2, <1>3, <1>4, <1>6, <1>7, <1>8 DEF CallInv

\* The sync that follows.
LEMMA CalmStartSync ==
  ASSUME TypeInv, CalmInv, Calm, TypeInv', StartSync
  PROVE  CalmInv'
<1> USE DEF header, database, process, chain, flags, listeners, queue, others,
            network, counters
<1>0. /\ WorkInv /\ CallInv /\ FeedInv /\ TrueInv /\ TablesInv /\ RestInv /\ UndoInv
      /\ check.pc = "start" /\ tip \in Row /\ tip.hash \in Block
      /\ tip.height \in Nat /\ last \in Block /\ Depth[last] \in Nat
      /\ tip.height = Depth[tip.hash] /\ storedTip.height = Depth[storedTip.hash]
      /\ work \in [Worker -> WorkState] /\ "genesis" \in Worker
      /\ "live" \in Worker /\ Call \subseteq Worker
      /\ "genesis" \notin Call /\ "live" \notin Call
  BY RowType, DepthNat, WorkerType, ParameterAssumption
  DEF StartSync, CalmInv, ProcessInv, DataInv, TypeInv, TypeOK, TrueInv
<1>1. /\ phase = "run"
      /\ \A w \in Worker : work[w].pc = "none"
      /\ \A c \in Call : call[c].pc # "save" /\ ~call[c].first
  BY <1>0, Drained
<1>2. /\ stage = "follow" /\ cut = NoBlock /\ top = last /\ last # Genesis
      /\ ~subscribed
      /\ \A c \in Call : Active(c) => Vain(c) /\ ~call[c].first
  BY <1>0 DEF FeedInv, StillInv, CallInv, DrainedInv
<1>3. AtTip /\ storedTip = tip
  BY <1>0, <1>1 DEF RestInv, Quiet, Saver, AtTip
<1>4. Held(tip.hash)
  BY <1>0 DEF UndoInv
<1>5. \A c \in Call :
        /\ call[c].pc = "ask" => call[c].from = tip
        /\ call[c].armed =>
             /\ call[c].pc = "wait" /\ timer = c /\ call[c].from = tip
             /\ Held(call[c].want) /\ call[c].want \in Block
             /\ Depth[call[c].want] = tip.height + 1
  BY <1>0 DEF CallInv, AskInv, TimerInv
<1>6. GenesisRow.height = Depth[GenesisRow.hash]
  BY GenesisDepth DEF GenesisRow
<1>7. Depth[last] - tip.height > 0 => Ahead
  BY <1>0, <1>2 DEF Ahead, TipHeight
<1>8. CASE /\ Depth[last] - tip.height > 0
           /\ tip.height > 0
           /\ FirstSync
           /\ listening' = TRUE
           /\ reorging' = FALSE
           /\ UNCHANGED <<header, database, process, chain, subscribed, timer,
                          work, queue, others, network, counters>>
  <2>1. CallInv' /\ check'.pc = "first" /\ check'.back = GenesisRow
        /\ \A c \in Call : call[c].pc = "none" /\ call'[c].pc = "ask"
    BY <1>0, <1>4, <1>8, FirstCall
  <2>2. FeedInv'
    BY <1>0, <1>8, <2>1, FeedSame
  <2>3. WorkInv'
    BY <1>0, <1>1, <1>8, <2>1 DEF WorkInv
  <2>4. blocks = RowsOf(tip.hash) /\ blocks # {}
    BY <1>0, <1>3, <1>8, RestTables, RowsOfSome
  <2>5. DataInv'
    <3>1. TrueInv' /\ TablesInv' /\ LoadInv'
      BY <1>0, <1>1, <1>6, <1>8, <2>1
      DEF CalmInv, DataInv, TrueInv, TablesInv, Bare, LoadInv
    <3>2. RestInv'
      BY <1>3, <1>8 DEF RestInv, AtTip, Bare
    <3>3. SaveInv' /\ GenesisInv' /\ CallWorkInv' /\ UndoInv'
      BY <1>0, <1>1, <1>8, <2>1, <2>4 DEF SaveInv, GenesisInv, CallWorkInv, UndoInv
    <3> QED
      BY <3>1, <3>2, <3>3 DEF DataInv
  <2> QED
    BY <1>1, <1>8, <2>1, <2>2, <2>3, <2>5, Running
<1>9. CASE /\ Depth[last] - tip.height > 0
           /\ tip.height = 0
           /\ work' = [work EXCEPT !["genesis"] =
                         [pc |-> "index", row |-> GenesisRow]]
           /\ check' = [NoCheck EXCEPT !.pc = "genesis"]
           /\ listening' = TRUE
           /\ reorging' = FALSE
           /\ UNCHANGED <<header, database, process, chain, processing,
                          subscribed, timer, call, queue, others, network,
                          counters>>
  <2>1. check'.pc = "genesis" /\ check'.back = GenesisRow
    BY <1>9 DEF NoCheck
  <2>2. /\ work'["genesis"].pc = "index" /\ work'["genesis"].row = GenesisRow
        /\ \A w \in Worker \ {"genesis"} : work'[w] = work[w]
    BY <1>0, <1>9
  <2>3. tip = GenesisRow
    BY <1>0, <1>9, GenesisOnly DEF GenesisRow, Row
  <2>4. FeedInv'
    BY <1>0, <1>9, <2>1, FeedSame DEF FeedInv, ReachInv
  <2>5. WorkInv'
    BY <1>0, <1>1, <1>9, <2>1, <2>2 DEF WorkInv
  <2>6. \A c \in Call : Active(c)' = Active(c) /\ (Vain(c) => Vain(c)')
    BY <1>9 DEF Active, Vain, Wanted, OnBranch, Held
  <2>7. CallInv'
    <3>1. BusyInv' /\ OpenInv'
      BY <1>2, <1>9, <2>6 DEF BusyInv, OpenInv
    <3>2. DrainedInv'
      BY <1>0, <1>1, <1>2, <1>9, <2>1, <2>6 DEF CallInv, DrainedInv
    <3>3. AskInv'
      BY <1>0, <1>9, <2>6 DEF CallInv, AskInv, Held
    <3>4. TimerInv'
      <4>1. \A c \in Call : ~(call'[c].pc = "wait" /\ ~Vain(c)')
        BY <1>2, <1>9, <2>6 DEF Active
      <4> QED
        BY <1>1, <1>5, <1>9, <4>1 DEF TimerInv, Held
    <3> QED
      BY <3>1, <3>2, <3>3, <3>4 DEF CallInv
  <2>8. DataInv'
    <3>1. TrueInv'
      BY <1>0, <1>6, <1>9, <2>1, <2>2 DEF TrueInv
    <3>2. TablesInv' /\ LoadInv'
      BY <1>0, <1>1, <1>9 DEF TablesInv, Bare, LoadInv
    <3>3. RestInv'
      BY <1>0, <2>2 DEF RestInv, Quiet, Saver
    <3>4. GenesisInv'
      BY <1>3, <1>9, <2>2, <2>3 DEF GenesisInv, AtTip, Bare
    <3>5. SaveInv' /\ CallWorkInv' /\ UndoInv'
      BY <1>0, <1>1, <1>9, <2>1, <2>2 DEF SaveInv, CallWorkInv, UndoInv
    <3> QED
      BY <3>1, <3>2, <3>3, <3>4, <3>5 DEF DataInv
  <2> QED
    BY <1>1, <1>9, <2>4, <2>5, <2>7, <2>8, Running
<1>10. CASE /\ Depth[last] - tip.height <= 0
            /\ subscribed' = TRUE
            /\ check' = [NoCheck EXCEPT !.pc = "done"]
            /\ reorging' = FALSE
            /\ UNCHANGED <<header, database, process, chain, processing,
                           listening, timer, call, work, queue, others, network,
                           counters>>
  <2>1. check'.pc = "done" /\ check'.back = GenesisRow
    BY <1>10 DEF NoCheck
  <2>2. tip.height >= 1
    <3>1. Depth[last] # 0
      BY <1>0, <1>2, GenesisOnly
    <3> QED
      BY <1>0, <1>10, <3>1
  <2>3. FeedInv'
    BY <1>0, <1>10, <2>1, FeedSame DEF FeedInv, ReachInv
  <2>4. WorkInv'
    BY <1>0, <1>10, <2>1 DEF WorkInv
  <2>5. \A c \in Call : Active(c)' = Active(c) /\ (Vain(c) => Vain(c)')
    BY <1>10 DEF Active, Vain, Wanted, OnBranch, Held
  <2>6. \A b \in Block : Held(b) => Depth[b] <= tip.height
    BY <1>0, <1>2, <1>10, DepthNat DEF Held, OnBranch
  <2>7. \A c \in Call : ~call[c].armed
    BY <1>0, <1>5, <2>6, DepthNat
  <2>8. ASSUME NEW c \in Call, Active(c)
        PROVE  call[c].pc = "wait"
    <3>1. PICK b \in Block : Wanted(c, b)
      BY <1>2, <2>8 DEF Vain
    <3>2. ~(call[c].pc = "ask" /\ Held(b) /\ Depth[b] = call[c].from.height + 1)
      BY <1>0, <1>5, <2>6, DepthNat
    <3> QED
      BY <3>1, <3>2 DEF Wanted
  <2>9. CallInv'
    <3>1. BusyInv'
      BY <1>2, <1>10, <2>5 DEF BusyInv
    <3>2. OpenInv'
      BY <1>10, <2>2, <2>5, <2>7, <2>8 DEF OpenInv
    <3>3. DrainedInv'
      BY <1>0, <1>1, <1>10, <2>1, <2>5 DEF CallInv, DrainedInv
    <3>4. AskInv'
      BY <1>0, <1>10, <2>5 DEF CallInv, AskInv, Held
    <3>5. TimerInv'
      <4>1. \A c \in Call : ~(call'[c].pc = "wait" /\ ~Vain(c)')
        BY <1>2, <1>10, <2>5 DEF Active
      <4> QED
        BY <1>1, <1>10, <2>7, <4>1 DEF TimerInv
    <3> QED
      BY <3>1, <3>2, <3>3, <3>4, <3>5 DEF CallInv
  <2>10. DataInv'
    <3>1. TablesInv' /\ RestInv' /\ UndoInv'
      BY <1>0, <1>3, <1>10, <2>1 DEF TablesInv, Bare, RestInv, AtTip, UndoInv
    <3> QED
      BY <1>0, <1>1, <1>6, <1>10, <2>1, <3>1, IdleData
  <2> QED
    BY <1>1, <1>10, <2>3, <2>4, <2>9, <2>10, Running
<1> QED
  BY <1>7, <1>8, <1>9, <1>10 DEF StartSync

LEMMA CalmGenesisSaved ==
  ASSUME TypeInv, CalmInv, Calm, TypeInv', GenesisSaved
  PROVE  CalmInv'
<1> USE DEF header, database, process, chain, flags, listeners, queue, others,
            network, counters
<1>0. /\ StartInv /\ WorkInv /\ CallInv /\ FeedInv /\ TrueInv /\ TablesInv
      /\ GenesisInv /\ SaveInv /\ LoadInv /\ CallWorkInv
      /\ check.pc = "genesis" /\ work["genesis"].pc = "saved"
      /\ last \in Block /\ top \in Block \cup {NoBlock}
      /\ work \in [Worker -> WorkState] /\ "genesis" \in Worker
      /\ "live" \in Worker /\ Call \subseteq Worker
      /\ "genesis" \notin Call /\ "live" \notin Call
  BY WorkerType, ParameterAssumption
  DEF GenesisSaved, CalmInv, ProcessInv, DataInv, TypeInv, TypeOK
<1>1. phase = "run"
  BY <1>0 DEF StartInv, Fresh, NoCheck
<1>2. /\ cut = NoBlock /\ top = last /\ last # Genesis /\ ~reorging
      /\ ~subscribed
  BY <1>0 DEF FeedInv, StillInv, CallInv, DrainedInv
<1>3. /\ tip = GenesisRow /\ storedTip = GenesisRow
      /\ txs = RowsOf(Genesis) /\ blocks = RowsOf(Genesis)
  BY <1>0 DEF GenesisInv
<1>4. Ahead
  BY <1>0, <1>2, <1>3, GenesisOnly, DepthNat DEF Ahead, TipHeight, GenesisRow
<1>5. /\ FirstSync /\ work' = [work EXCEPT !["genesis"] = NoWork]
      /\ UNCHANGED <<header, database, process, chain, reorging, listeners,
                     queue, others, network, counters>>
  BY <1>2, <1>4 DEF GenesisSaved
<1>6. Held(tip.hash)
  BY <1>0, <1>2, <1>3, OnBranchSelf DEF Held, GenesisRow
<1>7. CallInv' /\ check'.pc = "first" /\ check'.back = GenesisRow
      /\ \A c \in Call : call[c].pc = "none" /\ call'[c].pc = "ask"
  BY <1>0, <1>2, <1>5, <1>6, FirstCall
<1>8. /\ work'["genesis"].pc = "none" /\ work'["genesis"].row = GenesisRow
      /\ \A w \in Worker \ {"genesis"} : work'[w] = work[w]
  BY <1>0, <1>5 DEF NoWork
<1>9. FeedInv'
  BY <1>0, <1>2, <1>5, <1>7, FeedSame
<1>10. WorkInv'
  BY <1>0, <1>5, <1>7, <1>8 DEF WorkInv
<1>11. DataInv'
  <2>1. TrueInv'
    BY <1>0, <1>5, <1>7, <1>8, GenesisDepth DEF TrueInv, GenesisRow
  <2>2. TablesInv' /\ LoadInv'
    BY <1>0, <1>1, <1>5 DEF TablesInv, Bare, LoadInv
  <2>3. RestInv'
    BY <1>3, <1>5 DEF RestInv, AtTip, GenesisRow
  <2>4. SaveInv'
    BY <1>0, <1>5, <1>8 DEF SaveInv
  <2>5. GenesisInv' /\ CallWorkInv' /\ UndoInv'
    BY <1>0, <1>3, <1>5, <1>7, <1>8, RowsOfSome, TreeAssumption
    DEF GenesisInv, CallWorkInv, UndoInv
  <2> QED
    BY <2>1, <2>2, <2>3, <2>4, <2>5 DEF DataInv
<1> QED
  BY <1>1, <1>5, <1>7, <1>9, <1>10, <1>11, Running

-----------------------------------------------------------------------------
(* The _sync calls.                                                        *)

\* With the queue closed none of its blocks is being saved.
LEMMA ClosedQueue ==
  ASSUME TypeInv, CalmInv, ~subscribed
  PROVE  live = "none" /\ work["live"].pc = "none"
<1>1. inQueue = 0 /\ inQueue = Len(waiting) + IF running = NoBlock THEN 0 ELSE 1
  BY DEF TypeInv, TypeOK, QueueInv
<1>2. Len(waiting) \in Nat
  BY DEF TypeInv, TypeOK
<1>3. running = NoBlock
  BY <1>1, <1>2
<1> QED
  BY <1>3 DEF TypeInv, QueueInv, CalmInv, ProcessInv, WorkInv

\* A step of a call that writes nothing leaves the data as they are.
LEMMA CallData ==
  ASSUME CalmInv, UNCHANGED <<database, process, tip, work, header>>,
         \A c \in Call : call'[c].pc = "save" =>
            call[c].pc = "save" /\ call'[c].want = call[c].want,
         \/ check' = check
         \/ check.pc = "first" /\ check'.pc = "done" /\ check'.back = check.back
  PROVE  DataInv'
<1> USE DEF header, database, process
<1>0. DataInv
  BY DEF CalmInv
<1>1. TrueInv' /\ TablesInv' /\ LoadInv'
  BY <1>0 DEF DataInv, TrueInv, TablesInv, LoadInv, AtTip, Bare
<1>2. RestInv'
  <2>1. Quiet' => Quiet
    BY DEF Quiet, Saver
  <2> QED
    BY <1>0, <2>1 DEF DataInv, RestInv, AtTip, Bare
<1>3. SaveInv' /\ GenesisInv'
  BY <1>0 DEF DataInv, SaveInv, GenesisInv, AtTip, Bare
<1>4. CallWorkInv' /\ UndoInv'
  BY <1>0 DEF DataInv, CallWorkInv, UndoInv, Held
<1> QED
  BY <1>1, <1>2, <1>3, <1>4 DEF DataInv

\* getEndHash's lookup finds the next header of the tip, or ends the loop.
LEMMA CalmAsk ==
  ASSUME TypeInv, CalmInv, Calm, TypeInv', NEW c \in Call, AskHeaders(c)
  PROVE  CalmInv'
<1> USE DEF header, database, process, chain, flags, listeners, queue, others,
            network, counters
<1> DEFINE h == tip.height + 1
<1>0. /\ StartInv /\ WorkInv /\ CallInv /\ FeedInv
      /\ call \in [Call -> CallState] /\ check \in CheckState
      /\ call[c].pc = "ask" /\ call[c].from = tip /\ Held(tip.hash)
      /\ tip.hash \in Block /\ tip.height = Depth[tip.hash] /\ tip.height \in Nat
      /\ top \in Block /\ OnBranch(tip.hash, top) /\ Depth[top] \in Nat
      /\ Active(c)
      /\ last \in Block /\ Depth[last] \in Nat
      /\ peer \in Block /\ Depth[peer] \in Nat
  BY RowType, DepthNat
  DEF AskHeaders, CalmInv, ProcessInv, CallInv, AskInv, Held, DataInv, TrueInv,
      TypeInv, TypeOK, Active
<1>1. /\ phase = "run"
      /\ \A d \in Call : d = c
      /\ ~subscribed
      /\ check.pc \notin {"remove", "settip", "forget", "undo", "destroy"}
      /\ call[c].first <=> check.pc = "first"
  BY <1>0 DEF StartInv, Fresh, NoCall, Calm, CallInv, OpenInv, DrainedInv, Active
<1>2. CASE /\ h <= Depth[top]
           /\ call' = [call EXCEPT ![c].pc = "wait", ![c].want = Branch[top][h],
                                   ![c].armed = TRUE]
           /\ timer' = c
           /\ UNCHANGED <<check, processing, subscribed>>
           /\ UNCHANGED <<header, database, process, chain, reorging, listening,
                          work, queue, others, network, counters>>
  <2> DEFINE b == Branch[top][h]
  <2>1. b \in Block /\ Depth[b] = h /\ Parent[b] = tip.hash /\ OnBranch(b, top)
    BY <1>0, <1>2, BranchNext
  <2>2. /\ call'[c].pc = "wait" /\ call'[c].want = b /\ call'[c].armed
        /\ call'[c].from = tip /\ call'[c].first = call[c].first
    BY <1>0, <1>2 DEF CallState
  <2> HIDE DEF b
  <2>3. Active(c)' /\ Held(b) /\ Depth[b] <= Depth[peer]
    <3>1. Depth[top] <= Depth[peer]
      BY <1>0 DEF FeedInv, ReachInv
    <3>2. Depth[b] <= Depth[peer]
      BY <1>0, <1>2, <2>1, <3>1
    <3> QED
      BY <1>0, <2>1, <2>2, <3>2 DEF Active, Held
  <2>4. Vain(c) => Vain(c)'
    <3>1. ASSUME NEW a \in Block, Wanted(c, a), ~OnBranch(a, peer)
          PROVE  a = b
      BY <1>0, <2>1, <3>1, OnBranchSame DEF Wanted, Held
    <3> QED
      BY <1>2, <2>1, <2>2, <3>1 DEF Vain, Wanted, OnBranch
  <2>5. FeedInv'
    BY <1>1, <1>2, <2>2, <2>3, FeedSame DEF CalmInv, FeedInv, StillInv
  <2>6. WorkInv'
    BY <1>0, <1>1, <1>2, <2>2 DEF WorkInv
  <2>7. DataInv'
    BY <1>1, <1>2, <2>2, CallData
  <2>8. CallInv'
    <3>1. BusyInv' /\ DrainedInv' /\ OpenInv'
      BY <1>0, <1>1, <1>2, <2>2, <2>3, <2>4 DEF CallInv, BusyInv, DrainedInv, OpenInv
    <3>2. AskInv'
      BY <1>0, <1>1, <1>2, <2>1, <2>2 DEF CallInv, AskInv
    <3>3. TimerInv'
      <4>1. ASSUME NEW d \in Call
            PROVE  /\ call'[d].armed /\ call'[d].pc = "wait"
                   /\ timer' = d /\ call'[d].from = tip' /\ call'[d].want = b
        BY <1>1, <1>2, <2>2
      <4> QED
        BY <2>3, <4>1, <1>2 DEF TimerInv, Held
    <3> QED
      BY <3>1, <3>2, <3>3 DEF CallInv
  <2> QED
    BY <1>1, <1>2, <2>5, <2>6, <2>7, <2>8, Running
<1>3. CASE /\ h > Depth[top]
           /\ processing' = FALSE
           /\ subscribed' = (subscribed \/ listening)
           /\ call' = [call EXCEPT ![c] = NoCall]
           /\ Ended(c)
           /\ UNCHANGED timer
           /\ UNCHANGED <<header, database, process, chain, reorging, listening,
                          work, queue, others, network, counters>>
  <2>1. \A d \in Call : /\ call'[d].pc = "none" /\ ~call'[d].first
                        /\ ~call'[d].armed
    BY <1>0, <1>1, <1>3 DEF NoCall
  <2>2. ~Vain(c)
    BY <1>0, <1>3, DepthNat DEF Vain, Wanted, Held, OnBranch
  <2>3. check.pc \in {"none", "idle", "first", "done"}
    BY <1>0, <1>1, <2>2 DEF CallInv, DrainedInv, CheckState
  <2>4. \/ check' = check /\ check.pc # "first"
        \/ check.pc = "first" /\ check'.pc = "done" /\ check'.back = check.back
    BY <1>0, <1>1, <1>3 DEF Ended, CheckState
  <2>5. tip.height >= 1
    <3>1. CASE call[c].first
      <4>1. top = last /\ last # Genesis
        BY <1>0, <1>1, <3>1 DEF FeedInv, StillInv
      <4>2. Depth[last] # 0
        BY <1>0, <4>1, GenesisOnly
      <4> QED
        BY <1>0, <1>3, <4>1, <4>2
    <3>2. CASE ~call[c].first
      BY <1>0, <3>2 DEF CallInv, AskInv
    <3> QED
      BY <3>1, <3>2
  <2>6. FeedInv'
    <3>1. check.pc = "first" => ~reorging
      BY <1>0 DEF FeedInv, StillInv
    <3>2. check'.pc \in {"genesis", "first", "done"} => ~reorging'
      BY <1>0, <1>3, <2>4, <3>1 DEF FeedInv, StillInv
    <3>3. check'.pc # "none" => check.pc # "none"
      BY <2>4
    <3> QED
      BY <1>3, <2>1, <3>2, <3>3, FeedSame
  <2>7. WorkInv'
    <3>1. check.pc # "genesis" /\ check'.pc # "genesis"
      BY <2>3, <2>4
    <3> QED
      BY <1>0, <1>1, <1>3, <2>1, <3>1 DEF WorkInv
  <2>8. DataInv'
    BY <1>3, <2>1, <2>4, CallData
  <2>9. CallInv'
    <3>1. check'.pc \in {"none", "idle", "done"}
      BY <2>3, <2>4
    <3>2. BusyInv' /\ AskInv' /\ TimerInv'
      BY <2>1 DEF BusyInv, AskInv, TimerInv, Active
    <3>3. DrainedInv' /\ OpenInv'
      BY <1>3, <2>1, <2>5, <3>1 DEF DrainedInv, OpenInv, Active
    <3> QED
      BY <3>2, <3>3 DEF CallInv
  <2> QED
    BY <1>1, <1>3, <2>6, <2>7, <2>8, <2>9, Running
<1> QED
  BY <1>0, <1>2, <1>3 DEF AskHeaders

\* What a call that was saving leaves: the tables end at the tip.
LEMMA SavedTables ==
  ASSUME TypeInv, CalmInv, NEW w \in Worker, work[w].pc = "saved",
         w # "genesis"
  PROVE  /\ AtTip /\ blocks = RowsOf(tip.hash) /\ txs = RowsOf(tip.hash)
         /\ tip = work[w].row
  BY DEF CalmInv, DataInv, SaveInv, AtTip

\* The data, when a save is over and no other is going on.
LEMMA AfterSave ==
  ASSUME TypeInv, CalmInv, AtTip, blocks # {},
         UNCHANGED <<database, tip, phase, header>>, phase = "run",
         \A v \in Worker : work'[v].pc = "none"
                           /\ work'[v].row.height = Depth[work'[v].row.hash],
         \A c \in Call : call'[c].pc # "save",
         check'.back = check.back,
         check'.pc \in {"none", "idle", "drain", "first", "done"}
  PROVE  DataInv'
<1> USE DEF header, database
<1>0. DataInv /\ "genesis" \in Worker
  BY WorkerType DEF CalmInv
<1>1. TrueInv' /\ TablesInv' /\ LoadInv'
  BY <1>0 DEF DataInv, TrueInv, TablesInv, LoadInv, Bare
<1>2. RestInv'
  BY DEF RestInv, AtTip, Bare
<1>3. SaveInv' /\ GenesisInv' /\ CallWorkInv' /\ UndoInv'
  BY <1>0 DEF SaveInv, GenesisInv, CallWorkInv, UndoInv
<1> QED
  BY <1>1, <1>2, <1>3 DEF DataInv

\* A call that has waited in vain goes on, if a header of its tip is left.
LEMMA CalmTimeout ==
  ASSUME TypeInv, CalmInv, Calm, TypeInv', NEW c \in Call, Timeout(c)
  PROVE  CalmInv'
<1> USE DEF header, database, process, chain, flags, listeners, queue, others,
            network
<1>1. CASE call[c].first
  BY <1>1, CalmStop DEF Timeout
<1>2. CASE ~call[c].first
  <2>0. /\ StartInv /\ WorkInv /\ CallInv /\ FeedInv
        /\ call \in [Call -> CallState] /\ check \in CheckState
        /\ call[c].pc = "wait" /\ Active(c)
        /\ tip.hash \in Block /\ tip.height = Depth[tip.hash]
    BY <1>2, RowType
    DEF Timeout, Active, CalmInv, ProcessInv, DataInv, TrueInv, TypeInv, TypeOK
  <2>1. /\ phase = "run"
        /\ \A d \in Call : d = c
        /\ call[c].want \in Block
        /\ Depth[call[c].want] = call[c].from.height + 1
        /\ Parent[call[c].want] = call[c].from.hash
        /\ call[c].from.height >= 1
        /\ check.pc # "first"
    BY <1>2, <2>0
    DEF StartInv, Fresh, NoCall, Calm, CallInv, AskInv, DrainedInv, Active
  <2>2. ~OnBranch(call[c].want, peer)
    BY DEF Timeout, Calm, TypeInv, TypeOK
  <2>3. /\ call' = IF call[c].armed THEN NextSync(c)
                   ELSE [call EXCEPT ![c] = NoCall]
        /\ processing' = FALSE
        /\ UNCHANGED <<header, database, process, chain, reorging, listeners,
                       check, work, queue, others, network>>
    BY <1>2 DEF Timeout
  <2>4. FeedInv'
    <3>1. \A d \in Call : call'[d].pc # "wait"
      BY <2>0, <2>1, <2>3 DEF NextSync, NoCall
    <3> QED
      BY <2>3, <3>1, FeedSame DEF CalmInv, FeedInv, StillInv
  <2>5. WorkInv'
    <3>1. \A d \in Call : call'[d].pc # "save"
      BY <2>0, <2>1, <2>3 DEF NextSync, NoCall
    <3> QED
      BY <2>0, <2>1, <2>3, <3>1 DEF WorkInv
  <2>6. DataInv'
    <3>1. \A d \in Call : call'[d].pc # "save"
      BY <2>0, <2>1, <2>3 DEF NextSync, NoCall
    <3> QED
      BY <2>3, <3>1, CallData
  <2>7. CASE \A d \in Call : call'[d] = NoCall
    <3>1. CallInv'
      BY <2>0, <2>3, <2>7
      DEF CallInv, BusyInv, DrainedInv, OpenInv, AskInv, TimerInv, Active, NoCall
    <3> QED
      BY <2>1, <2>3, <2>4, <2>5, <2>6, <3>1, Running
  <2>8. CASE ~\A d \in Call : call'[d] = NoCall
    <3>1. /\ call[c].armed /\ listening /\ ~reorging
          /\ call' = [call EXCEPT ![c] = [NoCall EXCEPT !.pc = "ask", !.from = tip]]
      BY <2>0, <2>1, <2>3, <2>8 DEF NextSync
    <3>2. /\ call'[c].pc = "ask" /\ call'[c].from = tip
          /\ ~call'[c].first /\ ~call'[c].armed
      BY <2>0, <3>1 DEF NoCall
    <3>3. call[c].from = tip /\ Held(call[c].want) /\ ~subscribed
      BY <2>0, <3>1 DEF CallInv, TimerInv, OpenInv
    <3>4. Held(tip.hash) /\ Held(tip.hash)'
      <4>1. OnBranch(tip.hash, call[c].want)
        BY <2>0, <2>1, <3>3, OnBranchParent
      <4>2. Held(tip.hash)
        BY <2>0, <2>1, <3>3, <4>1, OnBranchTrans DEF Held
      <4> QED
        BY <2>3, <4>2 DEF Held
    <3>5. Vain(c)'
      <4>1. Wanted(c, call[c].want) /\ ~OnBranch(call[c].want, peer)
        BY <2>0, <2>2 DEF Wanted
      <4>2. \E b \in Block : /\ call'[c].pc = "ask" /\ top' \in Block
                             /\ OnBranch(b, top')
                             /\ Depth[b] = call'[c].from.height + 1
                             /\ ~OnBranch(b, peer')
        BY <2>1, <2>2, <2>3, <3>2, <3>3 DEF Held
      <4> QED
        BY <4>2 DEF Vain, Wanted, Held, OnBranch
    <3>6. check.pc \notin {"common", "remove", "settip", "forget", "undo",
                           "destroy", "start"}
      BY <2>0, <3>1 DEF CallInv, DrainedInv
    <3>7. CallInv'
      <4>1. BusyInv' /\ OpenInv'
        BY <2>1, <2>3, <3>2, <3>3, <3>5 DEF BusyInv, OpenInv
      <4>2. DrainedInv'
        BY <2>0, <2>1, <2>3, <3>2, <3>3, <3>5, <3>6 DEF CallInv, DrainedInv, Active
      <4>3. AskInv' /\ TimerInv'
        BY <2>1, <2>3, <3>2, <3>3, <3>4 DEF AskInv, TimerInv
      <4> QED
        BY <4>1, <4>2, <4>3 DEF CallInv
    <3> QED
      BY <2>1, <2>3, <2>4, <2>5, <2>6, <3>7, Running
  <2> QED
    BY <2>7, <2>8
<1> QED
  BY <1>1, <1>2

\* A call has saved its block.
LEMMA CalmSynced ==
  ASSUME TypeInv, CalmInv, Calm, TypeInv', NEW c \in Call, BlockSynced(c)
  PROVE  CalmInv'
<1> USE DEF header, database, process, chain, flags, listeners, queue, others,
            network, counters
<1>0. /\ StartInv /\ WorkInv /\ CallInv /\ FeedInv /\ TrueInv
      /\ call \in [Call -> CallState] /\ check \in CheckState
      /\ work \in [Worker -> WorkState]
      /\ call[c].pc = "save" /\ work[c].pc = "saved" /\ Active(c)
      /\ tip.hash \in Block /\ tip.height = Depth[tip.hash]
      /\ "genesis" \in Worker /\ "live" \in Worker /\ Call \subseteq Worker
      /\ "genesis" \notin Call /\ "live" \notin Call
      /\ call[c].want \in Block
      /\ Depth[call[c].want] = call[c].from.height + 1
      /\ call[c].from.height \in Nat
  <2>1. /\ StartInv /\ WorkInv /\ CallInv /\ FeedInv /\ TrueInv
        /\ call \in [Call -> CallState] /\ check \in CheckState
        /\ work \in [Worker -> WorkState]
        /\ call[c].pc = "save" /\ work[c].pc = "saved" /\ Active(c)
        /\ tip \in Row /\ tip.height = Depth[tip.hash]
    BY DEF BlockSynced, Active, CalmInv, ProcessInv, DataInv, TrueInv, TypeInv,
           TypeOK
  <2>2. /\ call[c].want \in Block
        /\ Depth[call[c].want] = call[c].from.height + 1
        /\ call[c].from \in Row
    BY <2>1 DEF CallInv, AskInv, CallState
  <2> QED
    BY <2>1, <2>2, RowType, WorkerType, ParameterAssumption
<1>1. /\ phase = "run"
      /\ \A d \in Call : d = c
      /\ processing /\ ~subscribed
      /\ check.pc \in {"none", "idle", "first", "done"}
      /\ call[c].first <=> check.pc = "first"
  <2>1. ~Vain(c)
    BY <1>0 DEF Vain, Wanted
  <2> QED
    BY <1>0, <2>1
    DEF StartInv, Fresh, NoCall, Calm, CallInv, BusyInv, DrainedInv, CheckState
<1>2. /\ AtTip /\ blocks = RowsOf(tip.hash) /\ tip = work[c].row /\ blocks # {}
      /\ tip.hash = call[c].want
  BY <1>0, SavedTables, RowsOfSome DEF CalmInv, DataInv, CallWorkInv
<1>3. tip.height >= 1
  BY <1>0, <1>2
<1>4. ~reorging => Held(tip.hash)
  BY <1>0, <1>2 DEF CallInv, TimerInv
<1>5. /\ work' = [work EXCEPT ![c] = NoWork]
      /\ Ended(c)
      /\ \/ /\ call' = NextSync(c)
            /\ processing' = (NextSync(c)[c].pc = "ask")
            /\ UNCHANGED subscribed
         \/ /\ call' = [call EXCEPT ![c] = NoCall]
            /\ processing' = FALSE
            /\ subscribed' = (subscribed \/ listening)
      /\ UNCHANGED <<header, database, process, tip, recent, reorging, listening,
                     timer, queue, others, network, counters>>
  BY DEF BlockSynced
<1>6. \A w \in Worker : /\ work'[w].pc = "none"
                        /\ work'[w].row.height = Depth[work'[w].row.hash]
  <2>1. work["live"].pc = "none" /\ work["genesis"].pc = "none"
    BY <1>0, <1>1, ClosedQueue DEF WorkInv
  <2>2. work'[c].pc = "none" /\ work'[c].row = GenesisRow
    BY <1>0, <1>5 DEF NoWork
  <2>3. \A w \in Worker \ {c} : work'[w] = work[w] /\ w \in {"live", "genesis"}
    BY <1>0, <1>1, <1>5 DEF Worker
  <2> QED
    BY <1>0, <2>1, <2>2, <2>3, GenesisDepth DEF TrueInv, GenesisRow
<1>7. /\ check'.pc \in {"none", "idle", "done"}
      /\ check'.back = check.back
      /\ (check' = check \/ check.pc = "first")
  BY <1>0, <1>1, <1>5 DEF Ended, CheckState
<1>8. \A d \in Call :
        /\ call'[d].pc \in {"none", "ask"}
        /\ ~call'[d].first /\ ~call'[d].armed
        /\ call'[d].pc = "ask" =>
             /\ ~reorging /\ call'[d].from = tip /\ processing' /\ ~subscribed'
  <2>1. CASE call' = [call EXCEPT ![c] = NoCall]
    BY <1>0, <1>1, <2>1 DEF NoCall
  <2>2. CASE call' # [call EXCEPT ![c] = NoCall]
    <3>1. /\ call' = NextSync(c) /\ processing' = (call'[c].pc = "ask")
          /\ subscribed' = subscribed
      BY <1>5, <2>2
    <3>2. /\ ~reorging
          /\ call' = [call EXCEPT ![c] = [NoCall EXCEPT !.pc = "ask", !.from = tip]]
      BY <2>2, <3>1 DEF NextSync
    <3> QED
      BY <1>0, <1>1, <3>1, <3>2 DEF NoCall
  <2> QED
    BY <2>1, <2>2
<1>9. FeedInv'
  <2>1. check'.pc # "none" => check.pc # "none"
    BY <1>7
  <2>2. check'.pc \in {"genesis", "first", "done"} => ~reorging'
    BY <1>0, <1>1, <1>5, <1>7 DEF FeedInv, StillInv
  <2> QED
    BY <1>5, <1>8, <2>1, <2>2, FeedSame
<1>10. WorkInv'
  <2>1. live' = "none"
    BY <1>1, <1>5, ClosedQueue
  <2> QED
    BY <1>0, <1>6, <1>7, <1>8, <2>1 DEF WorkInv
<1>11. DataInv'
  <2>1. UNCHANGED <<database, tip, phase, header>>
    BY <1>5
  <2>2. \A d \in Call : call'[d].pc # "save"
    BY <1>8
  <2>3. check'.pc \in {"none", "idle", "drain", "first", "done"}
    BY <1>7
  <2> QED
    BY <1>1, <1>2, <1>6, <1>7, <2>1, <2>2, <2>3, AfterSave
<1>12. CallInv'
  <2>1. BusyInv' /\ OpenInv'
    BY <1>3, <1>5, <1>8 DEF BusyInv, OpenInv, Active
  <2>2. DrainedInv'
    BY <1>7, <1>8 DEF DrainedInv, Active
  <2>3. AskInv' /\ TimerInv'
    BY <1>3, <1>4, <1>5, <1>8 DEF AskInv, TimerInv, Held, Active
  <2> QED
    BY <2>1, <2>2, <2>3 DEF CallInv
<1> QED
  BY <1>1, <1>5, <1>9, <1>10, <1>11, <1>12, Running

-----------------------------------------------------------------------------
(* _saveBlock.                                                             *)

\* A block is saved by one call at a time, and not while onHeaders() goes back.
LEMMA OneWriter ==
  ASSUME TypeInv, CalmInv, Calm, NEW w \in Worker, work[w].pc # "none"
  PROVE  /\ phase = "run"
         /\ check.pc \notin {"common", "remove", "settip", "forget", "undo",
                             "destroy", "start"}
         /\ \A v \in Worker : v # w => work[v].pc = "none"
         /\ w # "genesis" => \A c \in Call : call[c].pc # "ask" /\ ~call[c].armed
<1>0. StartInv /\ WorkInv /\ CallInv
  BY DEF CalmInv, ProcessInv
<1>1. phase = "run"
  BY <1>0, WorkerType DEF StartInv, Fresh, NoWork
<1>2. check.pc \notin {"common", "remove", "settip", "forget", "undo",
                       "destroy", "start"}
  BY Drained
<1>3. CASE w \in Call
  <2>1. call[w].pc = "save" /\ \A c \in Call : c = w
    BY <1>0, <1>3 DEF WorkInv, Calm
  <2>2. ~Vain(w) /\ Active(w)
    BY <2>1 DEF Vain, Wanted, Active
  <2>3. ~subscribed /\ check.pc # "genesis"
    BY <1>0, <1>3, <2>2 DEF CallInv, BusyInv, DrainedInv
  <2>4. work["live"].pc = "none" /\ work["genesis"].pc = "none"
    BY <1>0, <2>3, ClosedQueue DEF WorkInv
  <2>5. \A v \in Worker : v # w => work[v].pc = "none"
    BY <2>1, <2>4 DEF Worker
  <2>6. call[w].pc # "ask" /\ ~call[w].armed
    BY <1>0, <1>3, <2>1 DEF CallInv, TimerInv
  <2> QED
    BY <1>1, <1>2, <2>1, <2>5, <2>6
<1>4. CASE w = "live"
  <2>1. subscribed
    BY <1>4, ClosedQueue DEF TypeInv, TypeOK
  <2>2. check.pc # "genesis"
    BY <1>0, <2>1 DEF CallInv, DrainedInv
  <2>3. \A c \in Call : Active(c) => call[c].pc = "wait" /\ ~call[c].armed
    BY <1>0, <2>1 DEF CallInv, OpenInv
  <2>4. \A c \in Call : call[c].pc \notin {"ask", "save"} /\ ~call[c].armed
    BY <1>0, <2>3 DEF Active, CallInv, TimerInv
  <2>5. \A v \in Worker : v # w => work[v].pc = "none"
    BY <1>0, <1>4, <2>2, <2>4 DEF Worker, WorkInv
  <2> QED
    BY <1>1, <1>2, <2>4, <2>5
<1>5. CASE w = "genesis"
  <2>1. check.pc = "genesis" /\ ~subscribed
    BY <1>0, <1>5 DEF WorkInv, CallInv, DrainedInv
  <2>2. \A c \in Call : call[c].pc # "save"
    BY <1>0, <2>1 DEF CallInv, DrainedInv, Active, Vain, Wanted
  <2>3. work["live"].pc = "none"
    BY <2>1, ClosedQueue
  <2>4. \A v \in Worker : v # w => work[v].pc = "none"
    BY <1>0, <1>5, <2>2, <2>3 DEF Worker, WorkInv
  <2> QED
    BY <1>1, <1>2, <1>5, <2>4
<1> QED
  BY <1>3, <1>4, <1>5 DEF Worker

\* The save of w goes on to p.
GoesOn(w, p) ==
  /\ work[w].pc # "none"
  /\ p \in {"indexed", "header", "create", "created", "store", "saved"}
  /\ work' = [work EXCEPT ![w].pc = p]
  /\ UNCHANGED <<header, process, lastSaved, flags, listeners, check, call,
                 queue, others, network, counters>>
  /\ tip' = tip \/ w # "genesis"

\* The invariant after a step of a save, from what it says of the tables.
LEMMA WriterRest ==
  ASSUME TypeInv, CalmInv, Calm, TypeInv', NEW w \in Worker, NEW p, GoesOn(w, p),
         tip'.height = Depth[tip'.hash], tip'.height >= tip.height,
         storedTip'.height = Depth[storedTip'.hash],
         blocks \subseteq blocks',
         TablesInv', SaveInv', GenesisInv'
  PROVE  CalmInv'
<1> USE DEF GoesOn, header, process, flags, listeners, queue, others, network,
            counters
<1>0. /\ WorkInv /\ CallInv /\ FeedInv /\ TrueInv /\ UndoInv /\ CallWorkInv
      /\ work \in [Worker -> WorkState] /\ tip \in Row /\ tip' \in Row
      /\ tip.height \in Nat /\ tip'.height \in Nat
      /\ Call \subseteq Worker /\ "live" \in Worker /\ "genesis" \in Worker
  BY RowType, WorkerType DEF CalmInv, ProcessInv, DataInv, TypeInv, TypeOK
<1>1. /\ phase = "run"
      /\ check.pc \notin {"common", "remove", "settip", "forget", "undo",
                          "destroy", "start"}
      /\ w # "genesis" => \A c \in Call : call[c].pc # "ask" /\ ~call[c].armed
  BY OneWriter
<1>2. /\ work'[w].pc = p
      /\ \A v \in Worker : work'[v].row = work[v].row
      /\ \A v \in Worker : v # w => work'[v].pc = work[v].pc
  BY <1>0 DEF WorkState
<1>3. FeedInv'
  BY <1>0, FeedSame DEF FeedInv, ReachInv, StillInv
<1>4. \A v \in Worker : work'[v].pc # "none" <=> work[v].pc # "none"
  BY <1>2
<1>5. WorkInv'
  BY <1>0, <1>4 DEF WorkInv
<1>6. CallInv'
  <2>1. \A c \in Call : Active(c)' = Active(c) /\ (Vain(c) => Vain(c)')
    BY DEF Active, Vain, Wanted, OnBranch, Held
  <2>2. BusyInv' /\ DrainedInv'
    BY <1>0, <2>1 DEF CallInv, BusyInv, DrainedInv
  <2>3. OpenInv'
    BY <1>0, <2>1 DEF CallInv, OpenInv
  <2>4. tip' # tip => \A c \in Call : call[c].pc # "ask" /\ ~call[c].armed
    BY <1>1
  <2>5. AskInv'
    BY <1>0, <2>1, <2>4 DEF CallInv, AskInv, Held
  <2>6. TimerInv'
    BY <1>0, <2>1, <2>4 DEF CallInv, TimerInv, Held
  <2> QED
    BY <2>2, <2>3, <2>5, <2>6 DEF CallInv
<1>7. DataInv'
  <2>1. TrueInv'
    BY <1>0, <1>2 DEF TrueInv
  <2>2. LoadInv' /\ RestInv'
    BY <1>1, <1>2 DEF LoadInv, RestInv, Quiet, Saver
  <2>3. CallWorkInv' /\ UndoInv'
    BY <1>0, <1>1, <1>2 DEF CallWorkInv, UndoInv
  <2> QED
    BY <2>1, <2>2, <2>3 DEF DataInv
<1> QED
  BY <1>1, <1>3, <1>5, <1>6, <1>7, Running

\* The steps of a save of a block above the tip.
LEMMA CalmWriting ==
  ASSUME TypeInv, CalmInv, Calm, TypeInv', NEW w \in Worker, w # "genesis",
         Writing(w)
  PROVE  CalmInv'
<1> USE DEF header, database, process, chain, flags, listeners, queue, others,
            network, counters
<1> DEFINE row == work[w].row
           b == row.hash
<1>0. /\ TrueInv /\ TablesInv /\ SaveInv
      /\ work \in [Worker -> WorkState] /\ work[w].pc # "none"
      /\ work[w].pc \in {"index", "indexed", "header", "create", "created", "store"}
      /\ row \in Row /\ b \in Block /\ row.height = Depth[b]
      /\ row = [height |-> Depth[b], hash |-> b] /\ Depth[b] \in Nat
      /\ tip \in Row /\ tip.hash \in Block /\ tip.height = Depth[tip.hash]
      /\ storedTip \in Row /\ storedTip.hash \in Block
      /\ storedTip.height = Depth[storedTip.hash]
      /\ Depth[tip.hash] \in Nat /\ Depth[storedTip.hash] \in Nat
  <2>1. /\ TrueInv /\ TablesInv /\ SaveInv
        /\ work \in [Worker -> WorkState]
        /\ tip \in Row /\ storedTip \in Row
    BY DEF CalmInv, DataInv, TypeInv, TypeOK
  <2>2. work[w].pc \in {"index", "indexed", "header", "create", "created", "store"}
    BY DEF Writing, IndexTransactions, UpdateTransactionTip, FindHeader,
           CreateBlock, SetTip, StoreTip
  <2>3. row \in Row /\ row.height = Depth[b]
    BY <2>1 DEF WorkState, TrueInv
  <2>4. row = [height |-> row.height, hash |-> b]
    BY <2>3 DEF Row
  <2> QED
    BY <2>1, <2>2, <2>3, <2>4, RowType, DepthNat DEF TrueInv
<1>1. \A v \in Worker : v # w => work[v].pc = "none"
  BY <1>0, OneWriter
<1> HIDE DEF row, b
\* What is left to show of a step that goes on.
<1>2. ASSUME NEW p \in {"indexed", "header", "create", "created", "store", "saved"},
             work' = [work EXCEPT ![w].pc = p]
      PROVE  /\ work'[w].pc = p /\ work'[w].row = row
             /\ \A v \in Worker : v # w => work'[v].pc = "none"
             /\ GenesisInv'
  <2>1. work'[w].pc = p /\ work'[w].row = row
    BY <1>0, <1>2 DEF WorkState, row
  <2>2. \A v \in Worker : v # w => work'[v].pc = "none"
    BY <1>0, <1>1, <1>2
  <2>3. work'["genesis"].pc = "none"
    BY <2>2, WorkerType
  <2> QED
    BY <2>1, <2>2, <2>3 DEF GenesisInv
\* The block is above its parent, which is the tip until #tip is set.
<1>3. ASSUME NEW a \in Block, Parent[b] = a
      PROVE  /\ OnBranch(a, b) /\ Depth[b] = Depth[a] + 1
             /\ RowsOf(b) = RowsOf(a) \cup {row}
             /\ \A r \in RowsOf(a) : r.height # Depth[b] /\ r.hash # b
  BY <1>0, <1>3, OnBranchParent, RowsOfChild
<1>4. CASE IndexTransactions(w)
  <2>1. CASE Stop("duplicate")
    BY <2>1, CalmStop
  <2>2. CASE ~Stop("duplicate")
    <3>1. /\ work[w].pc = "index" /\ txs' = txs \cup {row}
          /\ work' = [work EXCEPT ![w].pc = "indexed"]
          /\ UNCHANGED <<header, blocks, storedTip, txTip, process, chain,
                         flags, listeners, check, call, queue, others, network,
                         counters>>
      BY <1>4, <2>2 DEF IndexTransactions, row
    <3>2. /\ storedTip = tip /\ Parent[b] = tip.hash /\ blocks = RowsOf(tip.hash)
          /\ txs = RowsOf(tip.hash)
      BY <1>0, <3>1 DEF SaveInv, b, row
    <3>3. txs' = RowsOf(b) /\ OnBranch(tip.hash, b)
      BY <1>0, <1>3, <3>1, <3>2
    <3>4. TablesInv'
      BY <1>0, <3>1, <3>2, <3>3, OnBranchSelf DEF TablesInv
    <3>5. SaveInv'
      BY <1>2, <3>1, <3>2, <3>3 DEF SaveInv, b
    <3>9. GoesOn(w, "indexed")
      BY <1>0, <3>1 DEF GoesOn
    <3> QED
      BY <1>0, <1>2, <3>1, <3>4, <3>5, <3>9, WriterRest
  <2> QED
    BY <2>1, <2>2
<1>5. CASE UpdateTransactionTip(w)
  <2>1. /\ work[w].pc = "indexed" /\ txTip' = row
        /\ work' = [work EXCEPT ![w].pc = "header"]
        /\ UNCHANGED <<header, blocks, storedTip, txs, process, chain, flags,
                       listeners, check, call, queue, others, network, counters>>
    BY <1>5 DEF UpdateTransactionTip, row
  <2>2. /\ storedTip = tip /\ Parent[b] = tip.hash /\ blocks = RowsOf(tip.hash)
        /\ txs = RowsOf(b)
    BY <1>0, <2>1 DEF SaveInv, b, row
  <2>3. TablesInv'
    <3>1. row.height >= storedTip.height
      BY <1>0, <1>3, <2>2
    <3> QED
      BY <1>0, <2>1, <3>1 DEF TablesInv, Bare
  <2>4. SaveInv'
    BY <1>2, <2>1, <2>2 DEF SaveInv, b
  <2>9. GoesOn(w, "header")
    BY <1>0, <2>1 DEF GoesOn
  <2> QED
    BY <1>0, <1>2, <2>1, <2>3, <2>4, <2>9, WriterRest
<1>6. CASE FindHeader(w)
  <2>1. work[w].pc = "header" /\ txs = RowsOf(b)
    BY <1>0, <1>6 DEF FindHeader, SaveInv, b, row
  <2>2. HasRow(txs, Depth[b])
    BY <1>0, <2>1, RowsOfFull DEF HasRow
  <2>3. /\ work' = [work EXCEPT ![w].pc = "create"]
        /\ UNCHANGED <<header, database, process, chain, flags, listeners, check,
                       call, queue, others, network, counters>>
    BY <1>6, <2>2 DEF FindHeader, b, row
  <2>4. TablesInv'
    BY <1>0, <2>3 DEF TablesInv, Bare
  <2>5. SaveInv'
    BY <1>0, <1>2, <2>1, <2>3 DEF SaveInv, row
  <2>9. GoesOn(w, "create")
    BY <1>0, <2>3 DEF GoesOn
  <2> QED
    BY <1>0, <1>2, <2>1, <2>3, <2>4, <2>5, <2>9, WriterRest
<1>7. CASE CreateBlock(w)
  <2>1. CASE Stop("duplicate")
    BY <2>1, CalmStop
  <2>2. CASE ~Stop("duplicate")
    <3>1. /\ work[w].pc = "create" /\ blocks' = blocks \cup {RowOf(b)}
          /\ work' = [work EXCEPT ![w].pc = "created"]
          /\ UNCHANGED <<header, storedTip, txs, txTip, process, chain, flags,
                         listeners, check, call, queue, others, network, counters>>
      BY <1>7, <2>2 DEF CreateBlock, b, row
    <3>2. /\ storedTip = tip /\ Parent[b] = tip.hash /\ blocks = RowsOf(tip.hash)
          /\ txs = RowsOf(b) /\ txTip = row
      BY <1>0, <3>1 DEF SaveInv, b, row
    <3>3. blocks' = RowsOf(b) /\ OnBranch(tip.hash, b)
      BY <1>0, <1>3, <3>1, <3>2 DEF RowOf
    <3>4. TablesInv'
      BY <1>0, <3>1, <3>2, <3>3 DEF TablesInv
    <3>5. SaveInv'
      BY <1>2, <3>1, <3>2, <3>3 DEF SaveInv, b
    <3>9. GoesOn(w, "created")
      BY <1>0, <3>1 DEF GoesOn
    <3> QED
      BY <1>0, <1>2, <3>1, <3>4, <3>5, <3>9, WriterRest
  <2> QED
    BY <2>1, <2>2
<1>8. CASE SetTip(w)
  <2>1. /\ work[w].pc = "created" /\ tip' = row
        /\ work' = [work EXCEPT ![w].pc = "store"]
        /\ UNCHANGED <<header, database, process, lastSaved, flags, listeners,
                       check, call, queue, others, network, counters>>
    BY <1>8 DEF SetTip, row
  <2>2. /\ storedTip = tip /\ Parent[b] = tip.hash /\ blocks = RowsOf(b)
        /\ txs = RowsOf(b) /\ txTip = row
    BY <1>0, <2>1 DEF SaveInv, b, row
  <2>3. TablesInv'
    BY <1>0, <2>1 DEF TablesInv, Bare
  <2>4. SaveInv'
    BY <1>2, <2>1, <2>2 DEF SaveInv, b
  <2>5. tip'.height = Depth[tip'.hash] /\ tip'.height >= tip.height
    BY <1>0, <1>3, <2>1, <2>2 DEF b
  <2>9. GoesOn(w, "store")
    BY <1>0, <2>1 DEF GoesOn
  <2> QED
    BY <1>0, <1>2, <2>1, <2>3, <2>4, <2>5, <2>9, WriterRest
<1>9. CASE StoreTip(w)
  <2>1. /\ work[w].pc = "store" /\ storedTip' = row
        /\ work' = [work EXCEPT ![w].pc = "saved"]
        /\ UNCHANGED <<header, blocks, txs, txTip, process, chain, flags,
                       listeners, check, call, queue, others, network, counters>>
    BY <1>9 DEF StoreTip, row
  <2>2. /\ blocks = RowsOf(b) /\ txs = RowsOf(b) /\ txTip = row /\ tip = row
    BY <1>0, <2>1 DEF SaveInv, b, row
  <2>3. TablesInv'
    BY <1>0, <2>1, <2>2, OnBranchSelf DEF TablesInv, b
  <2>4. SaveInv'
    BY <1>2, <2>1, <2>2 DEF SaveInv, b
  <2>5. storedTip'.height = Depth[storedTip'.hash]
    BY <1>0, <2>1 DEF b
  <2>9. GoesOn(w, "saved")
    BY <1>0, <2>1 DEF GoesOn
  <2> QED
    BY <1>0, <1>2, <2>1, <2>3, <2>4, <2>5, <2>9, WriterRest
<1> QED
  BY <1>4, <1>5, <1>6, <1>7, <1>8, <1>9 DEF Writing

\* Those of the save of the genesis block.
LEMMA CalmGenesis ==
  ASSUME TypeInv, CalmInv, Calm, TypeInv', Writing("genesis")
  PROVE  CalmInv'
<1> USE DEF header, database, process, chain, flags, listeners, queue, others,
            network, counters
<1>0. /\ TrueInv /\ TablesInv /\ GenesisInv /\ "genesis" \in Worker
      /\ work \in [Worker -> WorkState] /\ work["genesis"].pc # "none"
      /\ GenesisRow.height = 0 /\ GenesisRow.hash = Genesis /\ Genesis \in Block
      /\ Depth[Genesis] = 0
      /\ tip = GenesisRow /\ storedTip = GenesisRow
      /\ work["genesis"].row = GenesisRow /\ RowOf(Genesis) = GenesisRow
  <2>1. /\ TrueInv /\ TablesInv /\ GenesisInv
        /\ work \in [Worker -> WorkState]
    BY DEF CalmInv, DataInv, TypeInv, TypeOK
  <2>2. work["genesis"].pc # "none"
    BY DEF Writing, IndexTransactions, UpdateTransactionTip, FindHeader,
           CreateBlock, SetTip, StoreTip
  <2> QED
    BY <2>1, <2>2, WorkerType, GenesisDepth, TreeAssumption
    DEF GenesisInv, GenesisRow, RowOf
<1>1. \A v \in Worker : v # "genesis" => work[v].pc = "none"
  BY <1>0, OneWriter
<1>2. ASSUME NEW p \in {"indexed", "header", "create", "created", "store", "saved"},
             work' = [work EXCEPT !["genesis"].pc = p]
      PROVE  /\ work'["genesis"].pc = p /\ work'["genesis"].row = GenesisRow
             /\ SaveInv'
  <2>1. work'["genesis"].pc = p /\ work'["genesis"].row = GenesisRow
    BY <1>0, <1>2 DEF WorkState
  <2>2. \A v \in Worker : v # "genesis" => work'[v].pc = "none"
    BY <1>0, <1>1, <1>2
  <2> QED
    BY <2>1, <2>2 DEF SaveInv
<1>3. RowsOf(Genesis) = {GenesisRow}
  BY RowsOfGenesis
<1>4. CASE IndexTransactions("genesis")
  <2>1. CASE Stop("duplicate")
    BY <2>1, CalmStop
  <2>2. CASE ~Stop("duplicate")
    <3>1. /\ work["genesis"].pc = "index" /\ ~Duplicate(txs, GenesisRow)
          /\ txs' = txs \cup {GenesisRow}
          /\ work' = [work EXCEPT !["genesis"].pc = "indexed"]
          /\ UNCHANGED <<header, blocks, storedTip, txTip, process, chain,
                         flags, listeners, check, call, queue, others, network,
                         counters>>
      BY <1>0, <1>4, <2>2 DEF IndexTransactions
    <3>2. AtTip /\ GenesisRow \notin txs
      BY <1>0, <3>1 DEF GenesisInv, Duplicate
    <3>3. blocks = {} /\ txs' = RowsOf(Genesis)
      BY <1>0, <1>3, <3>1, <3>2 DEF AtTip, Bare
    <3>4. TablesInv' /\ GenesisInv'
      BY <1>0, <1>2, <1>3, <3>1, <3>3 DEF TablesInv, Bare, GenesisInv
    <3>9. GoesOn("genesis", "indexed")
      BY <1>0, <3>1 DEF GoesOn
    <3> QED
      BY <1>0, <1>2, <3>1, <3>4, <3>9, WriterRest
  <2> QED
    BY <2>1, <2>2
<1>5. CASE UpdateTransactionTip("genesis")
  <2>1. /\ work["genesis"].pc = "indexed" /\ txTip' = GenesisRow
        /\ work' = [work EXCEPT !["genesis"].pc = "header"]
        /\ UNCHANGED <<header, blocks, storedTip, txs, process, chain, flags,
                       listeners, check, call, queue, others, network, counters>>
    BY <1>0, <1>5 DEF UpdateTransactionTip
  <2>2. TablesInv' /\ GenesisInv'
    BY <1>0, <1>2, <2>1 DEF TablesInv, Bare, GenesisInv
  <2>9. GoesOn("genesis", "header")
    BY <1>0, <2>1 DEF GoesOn
  <2> QED
    BY <1>0, <1>2, <2>1, <2>2, <2>9, WriterRest
<1>6. CASE FindHeader("genesis")
  <2>1. work["genesis"].pc = "header" /\ HasRow(txs, Depth[Genesis])
    BY <1>0, <1>3, <1>6 DEF FindHeader, GenesisInv, HasRow
  <2>2. /\ work' = [work EXCEPT !["genesis"].pc = "create"]
        /\ UNCHANGED <<header, database, process, chain, flags, listeners, check,
                       call, queue, others, network, counters>>
    BY <1>0, <1>6, <2>1 DEF FindHeader
  <2>3. TablesInv' /\ GenesisInv'
    BY <1>0, <1>2, <2>1, <2>2 DEF TablesInv, Bare, GenesisInv
  <2>9. GoesOn("genesis", "create")
    BY <1>0, <2>2 DEF GoesOn
  <2> QED
    BY <1>0, <1>2, <2>2, <2>3, <2>9, WriterRest
<1>7. CASE CreateBlock("genesis")
  <2>1. CASE Stop("duplicate")
    BY <2>1, CalmStop
  <2>2. CASE ~Stop("duplicate")
    <3>1. /\ work["genesis"].pc = "create" /\ blocks' = blocks \cup {GenesisRow}
          /\ work' = [work EXCEPT !["genesis"].pc = "created"]
          /\ UNCHANGED <<header, storedTip, txs, txTip, process, chain, flags,
                         listeners, check, call, queue, others, network, counters>>
      BY <1>0, <1>7, <2>2 DEF CreateBlock
    <3>2. blocks' = RowsOf(Genesis) /\ txs = RowsOf(Genesis)
      BY <1>0, <1>3, <3>1 DEF GenesisInv
    <3>3. TablesInv' /\ GenesisInv'
      BY <1>0, <1>2, <3>1, <3>2, OnBranchSelf DEF TablesInv, GenesisInv
    <3>9. GoesOn("genesis", "created")
      BY <1>0, <3>1 DEF GoesOn
    <3> QED
      BY <1>0, <1>2, <3>1, <3>3, <3>9, WriterRest
  <2> QED
    BY <2>1, <2>2
<1>8. CASE SetTip("genesis")
  <2>1. /\ work["genesis"].pc = "created" /\ tip' = GenesisRow
        /\ work' = [work EXCEPT !["genesis"].pc = "store"]
        /\ UNCHANGED <<header, database, process, lastSaved, flags, listeners,
                       check, call, queue, others, network, counters>>
    BY <1>0, <1>8 DEF SetTip
  <2>2. TablesInv' /\ GenesisInv'
    BY <1>0, <1>2, <2>1 DEF TablesInv, Bare, GenesisInv
  <2>9. GoesOn("genesis", "store")
    BY <1>0, <2>1 DEF GoesOn
  <2> QED
    BY <1>0, <1>2, <2>1, <2>2, <2>9, WriterRest
<1>9. CASE StoreTip("genesis")
  <2>1. /\ work["genesis"].pc = "store" /\ storedTip' = GenesisRow
        /\ work' = [work EXCEPT !["genesis"].pc = "saved"]
        /\ UNCHANGED <<header, blocks, txs, txTip, process, chain, flags,
                       listeners, check, call, queue, others, network, counters>>
    BY <1>0, <1>9 DEF StoreTip
  <2>2. TablesInv' /\ GenesisInv'
    BY <1>0, <1>2, <2>1 DEF TablesInv, Bare, GenesisInv
  <2>9. GoesOn("genesis", "saved")
    BY <1>0, <2>1 DEF GoesOn
  <2> QED
    BY <1>0, <1>2, <2>1, <2>2, <2>9, WriterRest
<1> QED
  BY <1>4, <1>5, <1>6, <1>7, <1>8, <1>9 DEF Writing

-----------------------------------------------------------------------------
(* The queue of announced blocks.                                          *)

\* While it is open, calls only wait in vain.
LEMMA OpenQueue ==
  ASSUME TypeInv, CalmInv, subscribed
  PROVE  /\ phase = "run"
         /\ tip.height >= 1
         /\ check.pc \in {"none", "idle", "drain", "done"}
         /\ \A c \in Call : /\ Active(c) => Vain(c) /\ ~call[c].first
                            /\ call[c].pc \in {"none", "wait"} /\ ~call[c].armed
<1>0. StartInv /\ CallInv /\ check \in CheckState
  BY DEF CalmInv, ProcessInv, TypeInv, TypeOK
<1>1. phase = "run" /\ tip.height >= 1
  BY <1>0 DEF StartInv, Fresh, CallInv, OpenInv
<1>2. check.pc \in {"none", "idle", "drain", "done"}
  BY <1>0 DEF CallInv, DrainedInv, CheckState
<1>3. ASSUME NEW c \in Call
      PROVE  /\ Active(c) => Vain(c) /\ ~call[c].first
             /\ call[c].pc \in {"none", "wait"} /\ ~call[c].armed
  BY <1>0 DEF CallInv, BusyInv, OpenInv, TimerInv, Active
<1> QED
  BY <1>1, <1>2, <1>3

\* A step of the queue does not concern the header service and the calls.
LEMMA QueueRest ==
  ASSUME TypeInv, CalmInv, TypeInv', subscribed,
         UNCHANGED <<header, process, tip, reorging, listeners, check, call,
                     others, network>>,
         WorkInv', DataInv'
  PROVE  CalmInv'
<1> USE DEF header, process, listeners, others, network
<1>0. CallInv /\ FeedInv
  BY DEF CalmInv
<1>1. /\ phase = "run"
      /\ \A c \in Call : Active(c) => Vain(c) /\ ~call[c].first
  BY OpenQueue
<1>2. FeedInv'
  BY <1>0, FeedSame DEF FeedInv, ReachInv, StillInv
<1>3. \A c \in Call : Active(c)' = Active(c) /\ (Vain(c) => Vain(c)')
  BY DEF Active, Vain, Wanted, OnBranch, Held
<1>4. CallInv'
  <2>1. BusyInv'
    BY <1>1, <1>3 DEF BusyInv
  <2>2. DrainedInv' /\ OpenInv'
    BY <1>0, <1>3 DEF CallInv, DrainedInv, OpenInv
  <2>3. AskInv' /\ TimerInv'
    BY <1>0, <1>3 DEF CallInv, AskInv, TimerInv, Held
  <2> QED
    BY <2>1, <2>2, <2>3 DEF CallInv
<1> QED
  BY <1>1, <1>2, <1>4, Running

\* Its data, when it writes nothing.
LEMMA QueueData ==
  ASSUME CalmInv,
         UNCHANGED <<header, database, process, tip, check, call, work>>
  PROVE  DataInv'
  BY CallData DEF CalmInv, DataInv, CallWorkInv

\* The steps of the queue preserve the invariant.
LEMMA CalmFollowing ==
  ASSUME TypeInv, CalmInv, Calm, TypeInv', Following
  PROVE  CalmInv'
<1> USE DEF header, database, process, chain, flags, listeners, queue, others,
            network, counters
<1>0. /\ WorkInv /\ live \in {"lookup", "skip", "absent", "save", "done"}
      /\ work \in [Worker -> WorkState] /\ tip \in Row /\ reorging \in BOOLEAN
      /\ "live" \in Worker /\ Call \subseteq Worker /\ "genesis" \in Worker
      /\ "live" \notin Call
  BY WorkerType, ParameterAssumption
  DEF Following, LookupBlock, ProcessBlock, BlockSaved, FinishBlock, CalmInv,
      ProcessInv, TypeInv, TypeOK
<1>1. subscribed
  BY <1>0, ClosedQueue DEF TypeInv, TypeOK
<1>2. /\ phase = "run" /\ tip.height >= 1
      /\ check.pc \in {"none", "idle", "drain", "done"}
      /\ \A c \in Call : call[c].pc \in {"none", "wait"}
  BY <1>1, OpenQueue
\* A step that writes nothing.
<1>3. ASSUME live # "save", live' # "save",
             UNCHANGED <<header, database, process, chain, reorging, listeners,
                         check, call, work, others, network, counters>>
      PROVE  CalmInv'
  <2>1. WorkInv'
    BY <1>0, <1>3 DEF WorkInv
  <2>2. DataInv'
    BY <1>3, QueueData
  <2> QED
    BY <1>1, <1>3, <2>1, <2>2, QueueRest
<1>4. CASE LookupBlock
  BY <1>3, <1>4 DEF LookupBlock
<1>5. CASE FinishBlock
  <2>1. live # "save" /\ live' # "save"
    BY <1>5 DEF FinishBlock, Entry
  <2> QED
    BY <1>3, <1>5, <2>1 DEF FinishBlock
<1>6. CASE ProcessBlock
  <2>1. CASE work' = work
    <3>1. live # "save" /\ live' # "save"
      <4>1. CASE live = "absent" /\ work' = [work EXCEPT !["live"] = Saving(running)]
        BY <1>0, <2>1, <4>1 DEF Saving, WorkInv
      <4>2. CASE live' = "done"
        BY <1>6, <4>2 DEF ProcessBlock
      <4> QED
        BY <1>6, <4>1, <4>2 DEF ProcessBlock
    <3> QED
      BY <1>3, <1>6, <2>1, <3>1 DEF ProcessBlock
  <2>2. CASE work' # work
    <3>1. /\ live = "absent" /\ Parent[running] = tip.hash
          /\ work' = [work EXCEPT !["live"] = Saving(running)]
          /\ live' = "save"
          /\ UNCHANGED <<header, database, process, chain, flags, listeners,
                         check, call, waiting, running, inQueue, others,
                         network, counters>>
      BY <1>6, <2>2 DEF ProcessBlock
    <3>2. running \in Block /\ tip.hash \in Block /\ tip.height = Depth[tip.hash]
      BY <3>1, RowType
      DEF TypeInv, TypeOK, QueueInv, CalmInv, DataInv, TrueInv
    <3>3. Depth[running] = tip.height + 1
      BY <3>1, <3>2, OnBranchParent
    <3>4. /\ work'["live"].pc = "index" /\ work'["live"].row.hash = running
          /\ work'["live"].row.height = Depth[running]
          /\ \A w \in Worker \ {"live"} : work'[w] = work[w]
      BY <1>0, <3>1, <3>3 DEF Saving
    <3>5. WorkInv'
      BY <1>0, <3>1, <3>4 DEF WorkInv
    <3>6. \A w \in Worker : work[w].pc = "none"
      BY <1>0, <1>2, <3>1 DEF WorkInv, Worker
    <3>7. AtTip
      BY <1>2, <3>6 DEF CalmInv, DataInv, RestInv, Quiet, Saver
    <3>8. storedTip = tip /\ blocks = RowsOf(tip.hash) /\ txs = RowsOf(tip.hash)
      BY <1>2, <3>7, RestTables
    <3>9. DataInv'
      <4>1. TrueInv' /\ TablesInv' /\ LoadInv'
        BY <1>2, <3>1, <3>4
        DEF CalmInv, DataInv, TrueInv, TablesInv, Bare, LoadInv
      <4>2. RestInv'
        BY <1>0, <3>4 DEF RestInv, Quiet, Saver
      <4>3. SaveInv' /\ GenesisInv'
        BY <1>0, <3>1, <3>4, <3>6, <3>8 DEF SaveInv, GenesisInv
      <4>4. CallWorkInv' /\ UndoInv'
        BY <1>2, <3>1 DEF CallWorkInv, UndoInv
      <4> QED
        BY <4>1, <4>2, <4>3, <4>4 DEF DataInv
    <3> QED
      BY <1>1, <3>1, <3>5, <3>9, QueueRest
  <2> QED
    BY <2>1, <2>2
<1>7. CASE BlockSaved
  <2>1. /\ work["live"].pc = "saved"
        /\ work' = [work EXCEPT !["live"] = NoWork]
        /\ live' = "done"
        /\ UNCHANGED <<header, database, process, chain, reorging, listeners,
                       check, call, waiting, running, inQueue, others, network,
                       counters>>
    BY <1>7 DEF BlockSaved
  <2>2. \A w \in Worker : w # "live" => work[w].pc = "none"
    BY <1>0, <2>1, OneWriter
  <2>3. \A w \in Worker : /\ work'[w].pc = "none"
                          /\ work'[w].row.height = Depth[work'[w].row.hash]
    BY <1>0, <2>1, <2>2, GenesisDepth DEF NoWork, GenesisRow, CalmInv, DataInv, TrueInv
  <2>4. AtTip /\ blocks # {}
    BY <1>0, <2>1, SavedTables, RowsOfSome, RowType DEF TypeInv, TypeOK
  <2>5. WorkInv'
    BY <1>0, <1>2, <2>1, <2>3 DEF WorkInv
  <2>6. DataInv'
    BY <1>2, <2>1, <2>3, <2>4, AfterSave
  <2> QED
    BY <1>1, <2>1, <2>5, <2>6, QueueRest
<1> QED
  BY <1>4, <1>5, <1>6, <1>7 DEF Following

-----------------------------------------------------------------------------
(* The peer.                                                               *)

\* Its moves to another branch spare no call that waits in vain.
LEMMA CalmPeerAdopts ==
  ASSUME TypeInv, CalmInv, Calm, TypeInv', PeerAdopts
  PROVE  CalmInv'
<1> USE DEF header, database, process, chain, flags, listeners, queue, others
<1>0. /\ ProcessInv /\ FeedInv /\ CallInv /\ DataInv /\ FaultInv
      /\ top \in Block \cup {NoBlock} /\ peer \in Block /\ announced \subseteq Block
      /\ last \in Block
  BY DEF CalmInv, TypeInv, TypeOK
<1>1. PICK b \in Block :
        /\ Depth[b] > Depth[peer]
        /\ \/ OnBranch(peer, b)
           \/ CalmPeer => \A c \in Call, a \in Block :
                Wanted(c, a) /\ OnBranch(a, b) => OnBranch(a, peer)
        /\ peer' = b
        /\ UNCHANGED <<header, database, process, chain, flags, listeners, check,
                       call, work, queue, others>>
  BY DEF PeerAdopts
<1>2. Depth[peer] \in Nat /\ Depth[b] \in Nat
  BY <1>0, DepthNat
<1>3. ASSUME NEW c \in Call, NEW a \in Block, Wanted(c, a)
      PROVE  Depth[a] <= Depth[peer] /\ Depth[a] \in Nat
  BY <1>0, <1>3, DepthNat DEF Wanted, Held, OnBranch, FeedInv, ReachInv
<1>4. ASSUME NEW c \in Call, Vain(c)
      PROVE  Vain(c)'
  <2>1. PICK a \in Block : Wanted(c, a) /\ ~OnBranch(a, peer)
    BY <1>4 DEF Vain
  <2>2. ~OnBranch(a, b)
    <3>1. CASE OnBranch(peer, b)
      BY <1>0, <1>3, <2>1, <3>1, OnBranchBetween
    <3>2. CASE ~OnBranch(peer, b)
      BY <1>1, <2>1, <3>2 DEF Calm
    <3> QED
      BY <3>1, <3>2
  <2>3. Wanted(c, a)' /\ ~OnBranch(a, peer')
    BY <1>1, <2>1, <2>2 DEF Wanted, Held
  <2> QED
    BY <2>3 DEF Vain, OnBranch
<1>5. \A c \in Call : Active(c)' = Active(c)
  BY <1>1 DEF Active
<1>6. ProcessInv'
  BY <1>0, <1>1 DEF ProcessInv, StartInv, Fresh, QueueInv, WorkInv
<1>7. FeedInv'
  <2>1. HeaderInv' /\ StillInv'
    BY <1>0, <1>1 DEF FeedInv, HeaderInv, StillInv, Held
  <2>2. \A d \in Nat : d <= Depth[peer] => d <= Depth[b]
    BY <1>1, <1>2
  <2>3. ReachInv'
    <3>1. /\ top \in Block => Depth[top] \in Nat /\ Depth[top] <= Depth[peer]
          /\ Depth[last] \in Nat /\ Depth[last] <= Depth[peer]
          /\ \A a \in announced : Depth[a] \in Nat /\ Depth[a] <= Depth[peer]
          /\ \A c \in Call : call[c].pc = "wait" =>
               Depth[call[c].want] \in Nat /\ Depth[call[c].want] <= Depth[peer]
      BY <1>0, DepthNat DEF FeedInv, ReachInv, CallInv, AskInv
    <3> QED
      BY <1>1, <2>2, <3>1 DEF ReachInv
  <2> QED
    BY <2>1, <2>3 DEF FeedInv
<1>8. CallInv'
  <2>1. BusyInv' /\ DrainedInv' /\ OpenInv'
    BY <1>0, <1>1, <1>4, <1>5 DEF CallInv, BusyInv, DrainedInv, OpenInv
  <2>2. AskInv' /\ TimerInv'
    BY <1>0, <1>1, <1>4, <1>5 DEF CallInv, AskInv, TimerInv, Held
  <2> QED
    BY <2>1, <2>2 DEF CallInv
<1>9. DataInv' /\ FaultInv'
  <2>1. DataInv'
    BY <1>1, QueueData
  <2> QED
    BY <1>0, <1>1, <2>1 DEF FaultInv
<1> QED
  BY <1>6, <1>7, <1>8, <1>9 DEF CalmInv

\* The header service hears of a block when nothing is going on, or holds its
\* header.
LEMMA DeliverFeed ==
  ASSUME TypeInv, CalmInv, NEW b \in Block, OnBranch(b, peer),
         UNCHANGED <<header, headerReorging, reorging, peer>>,
         announced' = IF stage = "follow" /\ ~headerReorging
                      THEN announced \cup {b} ELSE announced,
         check.pc # "none" /\ stage = "follow" /\ ~headerReorging => Held(b),
         check' = check \/ (check.pc = "first" /\ check'.pc = "done"),
         \A c \in Call : call'[c].pc = "wait" => call'[c] = call[c]
  PROVE  FeedInv'
<1> USE DEF header
<1>0. HeaderInv /\ StillInv /\ ReachInv
  BY DEF CalmInv, FeedInv
<1>1. HeaderInv'
  BY <1>0 DEF HeaderInv, StillInv
<1>2. StillInv'
  <2>1. check'.pc # "none" => check.pc # "none"
    OBVIOUS
  <2>2. check.pc # "none" => \A a \in announced' : Held(a)
    BY <1>0 DEF StillInv
  <2>3. check'.pc \in {"genesis", "first", "done"} => ~reorging
    BY <1>0 DEF StillInv
  <2> QED
    BY <1>0, <2>1, <2>2, <2>3 DEF StillInv, Held
<1>3. ReachInv'
  BY <1>0 DEF ReachInv, OnBranch
<1> QED
  BY <1>1, <1>2, <1>3 DEF FeedInv

\* A block that no call waits for.
LEMMA CalmBroadcast ==
  ASSUME TypeInv, CalmInv, Calm, TypeInv', NEW b \in Block, Deliver(b),
         \A c \in Call : ~(call[c].pc = "wait" /\ call[c].want = b)
  PROVE  CalmInv'
<1> USE DEF header, database, process, chain, listeners, queue
<1>0. /\ ProcessInv /\ FeedInv /\ CallInv /\ DataInv /\ FaultInv
      /\ call \in [Call -> CallState] /\ work \in [Worker -> WorkState]
      /\ reorging \in BOOLEAN
  BY DEF CalmInv, TypeInv, TypeOK
<1>1. /\ OnBranch(b, peer) /\ call' = call /\ work' = work /\ check' = check
      /\ stage = "follow" => check.pc = "none" /\ ~headerReorging
      /\ announced' = IF stage = "follow" /\ ~headerReorging
                      THEN announced \cup {b} ELSE announced
      /\ IF subscribed THEN live' = IF running = NoBlock THEN Entry ELSE live
         ELSE UNCHANGED queue
      /\ processing' = IF subscribed /\ running = NoBlock THEN ~reorging
                       ELSE processing
      /\ UNCHANGED <<header, database, process, chain, reorging, listeners,
                     headerReorging, peer>>
  BY <1>0 DEF Deliver, Calm
<1>2. FeedInv'
  BY <1>1, DeliverFeed
<1>3. DataInv'
  BY <1>1, QueueData
<1>4. WorkInv'
  <2>1. subscribed /\ running = NoBlock => live # "save" /\ live' # "save"
    BY <1>1 DEF TypeInv, QueueInv, Entry
  <2>2. live' = "save" <=> live = "save"
    BY <1>1, <2>1
  <2> QED
    BY <1>0, <1>1, <2>2 DEF ProcessInv, WorkInv
<1>5. StartInv'
  <2>1. Fresh => Fresh' \/ phase = "run"
    BY <1>0, <1>1 DEF Fresh, ProcessInv, StartInv
  <2> QED
    BY <1>0, <1>1, <2>1 DEF ProcessInv, StartInv
<1>6. CallInv'
  <2>1. \A c \in Call : Active(c)' = Active(c) /\ (Vain(c) => Vain(c)')
    BY <1>1 DEF Active, Vain, Wanted, OnBranch, Held
  <2>2. BusyInv'
    BY <1>0, <1>1, <2>1 DEF CallInv, BusyInv
  <2>3. DrainedInv' /\ OpenInv'
    BY <1>0, <1>1, <2>1 DEF CallInv, DrainedInv, OpenInv
  <2>4. AskInv' /\ TimerInv'
    BY <1>0, <1>1, <2>1 DEF CallInv, AskInv, TimerInv, Held
  <2> QED
    BY <2>2, <2>3, <2>4 DEF CallInv
<1>7. FaultInv'
  BY <1>0, <1>1 DEF FaultInv
<1> QED
  BY <1>2, <1>3, <1>4, <1>5, <1>6, <1>7 DEF TypeInv, CalmInv, ProcessInv

\* The block that the call waits for.
LEMMA CalmTaken ==
  ASSUME TypeInv, CalmInv, Calm, TypeInv', NEW b \in Block, Deliver(b),
         NEW c \in Call, call[c].pc = "wait", call[c].want = b
  PROVE  CalmInv'
<1> USE DEF header, database, process, chain, listeners, queue
<1>0. /\ StartInv /\ WorkInv /\ CallInv /\ TrueInv /\ TablesInv /\ RestInv
      /\ FeedInv /\ CallWorkInv
      /\ call \in [Call -> CallState] /\ work \in [Worker -> WorkState]
      /\ check \in CheckState /\ Active(c)
      /\ "genesis" \in Worker /\ "live" \in Worker /\ c \in Worker
      /\ c # "genesis" /\ c # "live"
      /\ tip.hash \in Block /\ tip.height = Depth[tip.hash]
  BY WorkerType, ParameterAssumption, RowType
  DEF CalmInv, ProcessInv, DataInv, TypeInv, TypeOK, TrueInv, Active
<1>1. \A d \in Call : d = c
  BY DEF Calm
<1>2. OnBranch(b, peer) /\ ~Vain(c)
  BY DEF Deliver, Vain, Wanted
<1>3. /\ phase = "run" /\ processing /\ ~subscribed
      /\ check.pc \in {"none", "idle", "first", "done"}
      /\ call[c].first <=> check.pc = "first"
      /\ call[c].armed /\ call[c].from = tip
      /\ ~reorging => Held(b)
      /\ Depth[b] = tip.height + 1 /\ Parent[b] = tip.hash
      /\ ~call[c].first => tip.height >= 1
  BY <1>0, <1>2
  DEF StartInv, Fresh, NoCall, CallInv, BusyInv, DrainedInv, TimerInv, AskInv,
      CheckState
<1>4. \A w \in Worker : work[w].pc = "none"
  <2>1. work["live"].pc = "none" /\ work["genesis"].pc = "none" /\ work[c].pc = "none"
    BY <1>0, <1>3, ClosedQueue DEF WorkInv
  <2> QED
    BY <1>1, <2>1 DEF Worker
<1>5. AtTip
  BY <1>3, <1>4, <1>0 DEF RestInv, Quiet, Saver
<1>6. storedTip = tip /\ blocks = RowsOf(tip.hash) /\ txs = RowsOf(tip.hash)
  <2>1. blocks # {} \/ tip.height >= 1
    BY <1>0, <1>3 DEF CallWorkInv
  <2> QED
    BY <1>5, <2>1, RestTables DEF AtTip, Bare
<1> DEFINE again == b = lastSaved
<1>7. /\ announced' = IF stage = "follow" /\ ~headerReorging
                      THEN announced \cup {b} ELSE announced
      /\ UNCHANGED <<queue, header, database, process, chain, reorging, listeners,
                     headerReorging, peer>>
      /\ call' = [d \in Call |-> IF again THEN NoCall
                                 ELSE [call[c] EXCEPT !.pc = "save", !.armed = FALSE]]
      /\ work' = [w \in Worker |-> IF w = c /\ ~again THEN Saving(b) ELSE work[w]]
      /\ check' = IF again /\ call[c].first THEN [check EXCEPT !.pc = "done"]
                  ELSE check
      /\ processing' = IF again THEN FALSE ELSE processing
  <2> DEFINE takers == {d \in Call : call[d].pc = "wait" /\ call[d].want = b}
  <2>1. takers = {c} /\ takers = Call
    BY <1>1
  <2>2. \A w \in Worker : w \in takers <=> w = c
    BY <2>1
  <2> QED
    BY <1>1, <1>3, <2>1, <2>2 DEF Deliver
<1>8. /\ check'.back = check.back
      /\ check'.pc \in {"none", "idle", "first", "done"}
      /\ check' = check \/ (check.pc = "first" /\ check'.pc = "done")
      /\ again => check'.pc # "first"
      /\ ~again => check' = check
  BY <1>0, <1>3, <1>7 DEF CheckState
<1>9. FeedInv'
  <2>1. stage = "follow" /\ ~headerReorging => Held(b)
    BY <1>0, <1>3 DEF FeedInv, HeaderInv
  <2>2. \A d \in Call : call'[d].pc = "wait" => call'[d] = call[d]
    BY <1>0, <1>7 DEF NoCall, CallState
  <2> QED
    BY <1>2, <1>7, <1>8, <2>1, <2>2, DeliverFeed
<1>10. CASE again
  <2>1. /\ \A d \in Call : /\ call'[d].pc = "none" /\ ~call'[d].first
                           /\ ~call'[d].armed
        /\ work' = work
    BY <1>0, <1>7, <1>10 DEF NoCall
  <2>2. WorkInv'
    <3>1. live' = live /\ live # "save" /\ check'.pc # "genesis"
      BY <1>0, <1>4, <1>7, <1>8 DEF WorkInv
    <3>2. \A w \in Worker : work'[w].pc = "none"
      BY <1>4, <2>1
    <3> QED
      BY <1>0, <2>1, <3>1, <3>2, WorkerType DEF WorkInv
  <2>3. CallInv'
    BY <1>3, <1>7, <1>8, <2>1
    DEF CallInv, BusyInv, DrainedInv, OpenInv, AskInv, TimerInv, Active
  <2>4. DataInv'
    <3>1. TablesInv' /\ RestInv' /\ UndoInv'
      BY <1>0, <1>5, <1>7, <1>8 DEF TablesInv, Bare, RestInv, AtTip, UndoInv
    <3>2. /\ tip'.height = Depth[tip'.hash]
          /\ storedTip'.height = Depth[storedTip'.hash]
          /\ check'.back.height = Depth[check'.back.hash]
      BY <1>0, <1>7, <1>8 DEF TrueInv
    <3>3. check'.pc # "first" /\ phase' = "run"
          /\ \A d \in Call : call'[d].pc # "save"
      BY <1>3, <1>7, <1>8, <1>10, <2>1
    <3> QED
      BY <1>4, <2>1, <3>1, <3>2, <3>3, IdleData
  <2> QED
    BY <1>3, <1>7, <1>9, <2>2, <2>3, <2>4, Running
<1>11. CASE ~again
  <2>1. \A d \in Call : /\ call'[d].pc = "save" /\ ~call'[d].armed
                        /\ call'[d].first = call[c].first
                        /\ call'[d].from = call[c].from
                        /\ call'[d].want = b
    BY <1>0, <1>7, <1>11 DEF CallState
  <2>2. /\ work'[c].pc = "index" /\ work'[c].row.hash = b
        /\ work'[c].row.height = Depth[b]
        /\ \A w \in Worker \ {c} : work'[w] = work[w]
    BY <1>0, <1>3, <1>7, <1>11 DEF Saving
  <2>3. WorkInv'
    BY <1>0, <1>1, <1>4, <1>7, <1>8, <1>11, <2>1, <2>2 DEF WorkInv
  <2>4. CallInv'
    <3>1. BusyInv' /\ OpenInv'
      BY <1>3, <1>7, <1>11 DEF BusyInv, OpenInv
    <3>2. DrainedInv'
      BY <1>3, <1>7, <1>8, <1>11, <2>1 DEF DrainedInv, Active
    <3>3. AskInv'
      BY <1>3, <1>7, <2>1 DEF AskInv, Active
    <3>4. TimerInv'
      BY <1>3, <1>7, <2>1 DEF TimerInv, Held
    <3> QED
      BY <3>1, <3>2, <3>3, <3>4 DEF CallInv
  <2>5. DataInv'
    <3>1. TrueInv' /\ TablesInv' /\ LoadInv'
      BY <1>0, <1>3, <1>7, <1>8, <2>2 DEF TrueInv, TablesInv, Bare, LoadInv
    <3>2. RestInv'
      BY <1>0, <2>2 DEF RestInv, Quiet, Saver
    <3>3. SaveInv' /\ GenesisInv'
      BY <1>0, <1>3, <1>4, <1>6, <1>7, <2>2 DEF SaveInv, GenesisInv
    <3>4. CallWorkInv' /\ UndoInv'
      BY <1>0, <1>1, <1>3, <1>7, <1>8, <1>11, <2>1, <2>2 DEF CallWorkInv, UndoInv
    <3> QED
      BY <3>1, <3>2, <3>3, <3>4 DEF DataInv
  <2> QED
    BY <1>3, <1>7, <1>9, <2>3, <2>4, <2>5, Running
<1> QED
  BY <1>10, <1>11

-----------------------------------------------------------------------------
(* The invariant.                                                          *)

LEMMA CalmInit == BlockInit => CalmInv
<1> SUFFICES ASSUME BlockInit PROVE CalmInv
  OBVIOUS
<1> USE DEF BlockInit, Init, Queue!Init
<1>0. /\ peer \in Block /\ Genesis \in Block /\ NoBlock \notin Block
      /\ Depth[Genesis] = 0 /\ Depth[peer] \in Nat
      /\ "live" \in Worker /\ "genesis" \in Worker /\ Call \subseteq Worker
  BY TreeAssumption, GenesisDepth, DepthNat, WorkerType
<1>1. Fresh /\ TypeInv
  BY TypeInit DEF Fresh
<1>2. ProcessInv
  BY <1>0, <1>1 DEF ProcessInv, TypeInv, StartInv, WorkInv, NoWork, NoCall, NoCheck
<1>3. FeedInv
  BY <1>0 DEF FeedInv, HeaderInv, StillInv, ReachInv, NoCheck, NoCall
<1>4. CallInv
  BY DEF CallInv, BusyInv, DrainedInv, OpenInv, AskInv, TimerInv, Active,
         NoCall, NoCheck
<1>5. DataInv
  <2>1. TrueInv
    BY <1>0 DEF TrueInv, GenesisRow, NoCheck, NoWork
  <2>2. TablesInv /\ LoadInv /\ RestInv
    BY <1>0 DEF TablesInv, Bare, LoadInv, RestInv, Quiet, GenesisRow
  <2>3. SaveInv /\ GenesisInv /\ CallWorkInv /\ UndoInv
    BY <1>0 DEF SaveInv, GenesisInv, CallWorkInv, UndoInv, NoWork, NoCall, NoCheck
  <2> QED
    BY <2>1, <2>2, <2>3 DEF DataInv
<1> QED
  BY <1>2, <1>3, <1>4, <1>5 DEF CalmInv, FaultInv

LEMMA CalmStutter ==
  ASSUME CalmInv, UNCHANGED vars
  PROVE  CalmInv'
<1> USE DEF vars, header, database, process, chain, flags, listeners, queue,
            others, network, counters
<1>0. CalmInv /\ UNCHANGED vars
  OBVIOUS
<1>1. ProcessInv' /\ FaultInv'
  BY <1>0 DEF CalmInv, ProcessInv, StartInv, Fresh, QueueInv, WorkInv, FaultInv
<1>2. FeedInv'
  BY <1>0 DEF CalmInv, FeedInv, HeaderInv, StillInv, ReachInv, Held
<1>3. CallInv'
  <2>1. \A c \in Call : Active(c)' = Active(c) /\ Vain(c)' = Vain(c)
    BY <1>0 DEF Active, Vain, Wanted, OnBranch, Held
  <2> QED
    BY <1>0, <2>1
    DEF CalmInv, CallInv, BusyInv, DrainedInv, OpenInv, AskInv, TimerInv, Held
<1>4. DataInv'
  BY <1>0, QueueData
<1> QED
  BY <1>1, <1>2, <1>3, <1>4 DEF CalmInv

LEMMA CalmStep ==
  ASSUME Calm
  PROVE  TypeInv /\ CalmInv /\ [BlockNext]_vars => CalmInv'
<1> SUFFICES ASSUME TypeInv, CalmInv, [BlockNext]_vars
             PROVE  CalmInv'
  OBVIOUS
<1>0. TypeInv'
  BY TypeStep
<1>1. CASE Starting
  BY <1>0, <1>1, CalmStarting
<1>2. CASE HeaderService
  BY <1>0, <1>2, CalmHeader
<1>3. CASE Checking
  BY <1>0, <1>3, CalmIdle, CalmUndo, CalmStartSync, CalmGenesisSaved DEF Checking
<1>4. ASSUME NEW c \in Call, Syncing(c) \/ Timeout(c)
      PROVE  CalmInv'
  BY <1>0, <1>4, CalmAsk, CalmSynced, CalmTimeout DEF Syncing
<1>5. ASSUME NEW w \in Worker, Writing(w)
      PROVE  CalmInv'
  BY <1>0, <1>5, CalmWriting, CalmGenesis
<1>6. CASE Following
  BY <1>0, <1>6, CalmFollowing
<1>7. CASE PeerAdopts
  BY <1>0, <1>7, CalmPeerAdopts
<1>8. CASE PeerReady
  BY <1>0, <1>8, CalmResume
<1>9. ASSUME NEW b \in Block, Deliver(b)
      PROVE  CalmInv'
  BY <1>0, <1>9, CalmBroadcast, CalmTaken
<1>10. CASE Crash
  BY <1>0, <1>10, CalmStop DEF Crash
<1>11. CASE UNCHANGED vars
  BY <1>11, CalmStutter
<1> QED
  BY <1>1, <1>2, <1>3, <1>4, <1>5, <1>6, <1>7, <1>8, <1>9, <1>10, <1>11
  DEF BlockNext

\* In a calm network the invariant holds.
THEOREM BlockCalm ==
  ASSUME Calm
  PROVE  BlockSpec => [](TypeInv /\ CalmInv)
<1>1. BlockInit => TypeInv /\ CalmInv
  BY TypeInit, CalmInit
<1>2. (TypeInv /\ CalmInv) /\ [BlockNext]_vars => (TypeInv /\ CalmInv)'
  BY TypeStep, CalmStep
<1> QED
  BY <1>1, <1>2, PTL DEF BlockSpec

-----------------------------------------------------------------------------
(* What it gives.                                                          *)

\* A block is never saved by two calls at a time, nor two blocks
\* (_processBlock, _syncBlock, _startSync and onHeaders).
THEOREM OneSaverTheorem ==
  ASSUME Calm
  PROVE  BlockSpec => []OneSaver
<1>1. ASSUME TypeInv, CalmInv
      PROVE  OneSaver
  <2>1. CASE Saver = {}
    BY <2>1, FS_EmptySet DEF OneSaver
  <2>2. ASSUME NEW w \in Saver
        PROVE  OneSaver
    <3>1. w \in Worker /\ work[w].pc # "none"
      BY DEF Saver
    <3>2. \A v \in Worker : v # w => work[v].pc = "none"
      BY <1>1, <3>1, OneWriter
    <3>3. Saver = {w}
      BY <3>1, <3>2 DEF Saver
    <3>4. Cardinality(Saver) = 1
      BY <3>3, FS_Singleton
    <3> QED
      BY <1>1, <3>4, DrainedSaver DEF OneSaver
  <2> QED
    BY <2>1, <2>2
<1> QED
  BY <1>1, BlockCalm, PTL

\* The block table is one whole branch at any moment, of a save, of a
\* reorganization, of a start or after a crash.
THEOREM BlocksWholeTheorem ==
  ASSUME Calm
  PROVE  BlockSpec => []BlocksWhole
<1>1. CalmInv => BlocksWhole
  BY DEF CalmInv, DataInv, TablesInv, Bare, BlocksWhole
<1> QED
  BY <1>1, BlockCalm, PTL

\* The transactions of the blocks at and below the stored tip are there.
THEOREM CommittedIndexedTheorem ==
  ASSUME Calm
  PROVE  BlockSpec => []CommittedIndexed
<1>1. TypeInv /\ CalmInv => CommittedIndexed
  BY CutTables DEF CommittedIndexed, Committed, Bare, Below
<1> QED
  BY <1>1, BlockCalm, PTL

\* Between two saves or reorganizations the tips and the tables agree.
THEOREM AgreeTheorem ==
  ASSUME Calm
  PROVE  BlockSpec => []Agree
<1>1. ASSUME TypeInv, CalmInv, Quiet
      PROVE  IF tip.height = 0 THEN blocks \cup txs \subseteq {GenesisRow}
             ELSE /\ storedTip = tip
                  /\ blocks = RowsOf(tip.hash)
                  /\ txs = blocks
  <2>1. AtTip
    BY <1>1 DEF CalmInv, DataInv, RestInv
  <2>2. /\ tip.hash \in Block /\ tip.height = Depth[tip.hash] /\ storedTip = tip
        /\ tip.height \in Nat
    BY <1>1, <2>1, RestTables DEF Row
  <2>3. CASE tip.height = 0
    <3>1. tip.hash = Genesis
      BY <2>2, <2>3, GenesisOnly
    <3> QED
      BY <2>1, <2>3, <3>1, RowsOfGenesis DEF AtTip, Bare
  <2>4. CASE tip.height # 0
    <3>1. blocks = RowsOf(tip.hash) /\ txs = RowsOf(tip.hash)
      BY <1>1, <2>1, <2>2, <2>4, RestTables
    <3> QED
      BY <2>2, <2>4, <3>1
  <2> QED
    BY <2>3, <2>4
<1>2. TypeInv /\ CalmInv => Agree
  BY <1>1 DEF Agree
<1> QED
  BY <1>2, BlockCalm, PTL

\* The last committed block.
LEMMA CommittedBlock ==
  ASSUME TypeInv, CalmInv
  PROVE  (IF Committed = RowsOf(storedTip.hash) THEN storedTip.hash ELSE NoBlock)
           = (IF blocks = {} THEN NoBlock ELSE storedTip.hash)
<1>1. storedTip.hash \in Block
  BY RowType DEF TypeInv, TypeOK
<1>2. CASE Bare
  BY <1>1, <1>2, CutTables, RowsOfSome DEF Bare, Committed
<1>3. CASE ~Bare
  <2>1. Committed = RowsOf(storedTip.hash) /\ Committed # {}
    BY <1>1, <1>3, CutTables, RowsOfSome DEF Committed
  <2> QED
    BY <2>1 DEF Committed, Below
<1> QED
  BY <1>2, <1>3

\* The only steps that change it: the genesis row, a stored tip.
LEMMA CommittedStep ==
  ASSUME TypeInv, CalmInv, Calm, TypeInv', CalmInv', [BlockNext]_vars
  PROVE  \/ UNCHANGED storedTip /\ (blocks' = {} <=> blocks = {})
         \/ /\ storedTip = GenesisRow /\ storedTip' = GenesisRow
            /\ blocks = {} /\ blocks' # {}
         \/ /\ blocks # {} /\ UNCHANGED blocks
            /\ \/ Parent[storedTip'.hash] = storedTip.hash
               \/ OnBranch(storedTip'.hash, storedTip.hash)
<1> USE DEF vars, database, Stop
<1>1. CASE Starting
  <2>1. CASE DestroyAboveTip
    <3>1. blocks' = Below(blocks, storedTip.height) /\ UNCHANGED storedTip
      BY <2>1 DEF DestroyAboveTip
    <3>2. storedTip.hash \in Block
      BY RowType DEF TypeInv, TypeOK
    <3> QED
      BY <3>1, <3>2, CutTables, RowsOfSome DEF Bare, Below
  <2>2. CASE ~DestroyAboveTip
    BY <1>1, <2>2
    DEF Starting, StartHeader, RebuildHeaders, HeaderReady, StartBlock,
        LoadRecentHashes, DestroyTransactions, StoreTransactionTip
  <2> QED
    BY <2>1, <2>2
<1>2. CASE HeaderService
  BY <1>2 DEF HeaderService, HeaderSyncs, HeaderCompletes, HeaderLooks, ReorgComplete
<1>3. CASE Checking
  <2>1. CASE UndoBlocks
    <3>1. /\ check.pc = "destroy" /\ blocks' = Below(blocks, check.back.height)
          /\ UNCHANGED storedTip
      BY <2>1 DEF UndoBlocks
    <3>2. blocks # {} /\ tip = check.back /\ tip = storedTip
      BY <3>1, RowsOfSome DEF CalmInv, DataInv, UndoInv
    <3>3. storedTip.hash \in Block /\ ~Bare
      BY <3>2, RowType DEF TypeInv, TypeOK, Bare
    <3> QED
      BY <3>1, <3>2, <3>3, CutTables, RowsOfSome
  <2>2. CASE StoreCommonTip
    <3>1. check.pc = "settip" /\ storedTip' = check.back /\ UNCHANGED blocks
      BY <2>2 DEF StoreCommonTip
    <3>2. /\ blocks = RowsOf(storedTip.hash) /\ tip = check.back
          /\ OnBranch(tip.hash, storedTip.hash)
      BY <3>1 DEF CalmInv, DataInv, UndoInv
    <3>3. storedTip.hash \in Block
      BY RowType DEF TypeInv, TypeOK
    <3> QED
      BY <3>1, <3>2, <3>3, RowsOfSome
  <2>3. CASE ~UndoBlocks /\ ~StoreCommonTip
    BY <1>3, <2>3
    DEF Checking, CheckIdle, CheckDrained, FindCommon, FindBlocksToRemove,
        ForgetHashes, UndoTransactions, StartSync, GenesisSaved
  <2> QED
    BY <2>1, <2>2, <2>3
<1>4. ASSUME NEW c \in Call, Syncing(c) \/ Timeout(c)
      PROVE  UNCHANGED <<blocks, storedTip>>
  BY <1>4 DEF Syncing, AskHeaders, Timeout, BlockSynced
<1>5. ASSUME NEW w \in Worker, Writing(w)
      PROVE  \/ UNCHANGED storedTip /\ (blocks' = {} <=> blocks = {})
             \/ /\ storedTip = GenesisRow /\ storedTip' = GenesisRow
                /\ blocks = {} /\ blocks' # {}
             \/ /\ blocks # {} /\ UNCHANGED blocks
                /\ Parent[storedTip'.hash] = storedTip.hash
  <2>1. CASE CreateBlock(w)
    <3>1. /\ work[w].pc = "create" /\ UNCHANGED storedTip
          /\ blocks' = blocks \/ blocks' # {}
          /\ blocks \subseteq blocks'
      BY <2>1 DEF CreateBlock
    <3>2. w # "genesis" => blocks # {}
      BY <3>1, RowsOfSome, RowType DEF CalmInv, DataInv, SaveInv, TypeInv, TypeOK
    <3>3. w = "genesis" => storedTip = GenesisRow
      BY <3>1 DEF CalmInv, DataInv, GenesisInv
    <3> QED
      BY <3>1, <3>2, <3>3
  <2>2. CASE StoreTip(w)
    <3>1. work[w].pc = "store" /\ storedTip' = work[w].row /\ UNCHANGED blocks
      BY <2>2 DEF StoreTip
    <3>2. w # "genesis" =>
            /\ blocks = RowsOf(work[w].row.hash) /\ work[w].row \in Row
            /\ Parent[work[w].row.hash] = storedTip.hash
      BY <3>1 DEF CalmInv, DataInv, SaveInv, TypeInv, TypeOK, WorkState
    <3>3. w = "genesis" => storedTip = GenesisRow /\ work[w].row = GenesisRow
      BY <3>1 DEF CalmInv, DataInv, GenesisInv
    <3> QED
      BY <3>1, <3>2, <3>3, RowsOfSome, RowType
  <2>3. CASE ~CreateBlock(w) /\ ~StoreTip(w)
    BY <1>5, <2>3
    DEF Writing, IndexTransactions, UpdateTransactionTip, FindHeader, SetTip
  <2> QED
    BY <2>1, <2>2, <2>3
<1>6. CASE Following
  BY <1>6 DEF Following, LookupBlock, ProcessBlock, BlockSaved, FinishBlock
<1>7. CASE PeerAdopts \/ PeerReady \/ Crash \/ \E b \in Block : Deliver(b)
  BY <1>7 DEF PeerAdopts, PeerReady, Crash, Deliver
<1> QED
  BY <1>1, <1>2, <1>3, <1>4, <1>5, <1>6, <1>7 DEF BlockNext

\* The committed blocks grow by one at the end of the branch, or are cut at the
\* end in one step: the blocks that the service has committed are IndexedChain.
THEOREM ImplementsIndexedChain ==
  ASSUME Calm
  PROVE  BlockSpec => IndexSpec
<1> DEFINE committed == IF Committed = RowsOf(storedTip.hash) THEN storedTip.hash
                        ELSE NoBlock
           Known == TypeInv /\ CalmInv =>
                      committed = IF blocks = {} THEN NoBlock ELSE storedTip.hash
<1>0. Known /\ Known'
  <2>1. Known
    BY CommittedBlock
  <2> QED
    BY <2>1, PTL
<1>1. BlockInit => Index!Init
  <2> SUFFICES ASSUME BlockInit PROVE committed = NoBlock
    BY DEF Index!Init
  <2>1. blocks = {} /\ storedTip.hash = Genesis
    BY DEF BlockInit, GenesisRow
  <2> QED
    BY <2>1, RowsOfGenesis DEF Committed, Below
<1>2. /\ TypeInv /\ CalmInv /\ TypeInv' /\ CalmInv' /\ [BlockNext]_vars
      => [Index!Next]_committed
  <2> SUFFICES ASSUME TypeInv, CalmInv, TypeInv', CalmInv', [BlockNext]_vars,
                      committed' # committed
               PROVE  Index!Next
    OBVIOUS
  <2>1. /\ committed = IF blocks = {} THEN NoBlock ELSE storedTip.hash
        /\ committed' = IF blocks' = {} THEN NoBlock ELSE storedTip'.hash
    BY <1>0
  <2>2. /\ storedTip.hash \in Block /\ storedTip'.hash \in Block
        /\ Genesis \in Block /\ NoBlock \notin Block
    BY RowType, TreeAssumption DEF TypeInv, TypeOK
  <2>3. CASE storedTip' = GenesisRow /\ blocks = {} /\ blocks' # {}
    <3>1. committed = NoBlock /\ committed' = Genesis
      BY <2>1, <2>3 DEF GenesisRow
    <3> QED
      BY <3>1 DEF Index!Next, Index!First
  <2>4. CASE /\ blocks # {} /\ UNCHANGED blocks
             /\ Parent[storedTip'.hash] = storedTip.hash
    <3>1. committed = storedTip.hash /\ committed' = storedTip'.hash
      BY <2>1, <2>4
    <3> QED
      BY <2>2, <2>4, <3>1 DEF Index!Next, Index!Extend
  <2>5. CASE /\ blocks # {} /\ UNCHANGED blocks
             /\ OnBranch(storedTip'.hash, storedTip.hash)
    <3>1. committed = storedTip.hash /\ committed' = storedTip'.hash
      BY <2>1, <2>5
    <3> QED
      BY <2>2, <2>5, <3>1 DEF Index!Next, Index!GoBack, Index!OnBranch, OnBranch
  <2>6. ~(UNCHANGED storedTip /\ (blocks' = {} <=> blocks = {}))
    BY <2>1
  <2> QED
    BY <2>3, <2>4, <2>5, <2>6, CommittedStep
<1> QED
  BY <1>1, <1>2, BlockCalm, PTL DEF BlockSpec, IndexSpec, Index!Spec

-----------------------------------------------------------------------------
(* The cache of hashes.                                                    *)

\* Of blocks on one branch, those above height d are at most h - d, when h is
\* the height of its end.
LEMMA FewAbove ==
  ASSUME NEW e \in Block, NEW s \in SUBSET Block, \A b \in s : OnBranch(b, e),
         NEW d \in 0 .. Depth[e]
  PROVE  Cardinality({a \in s : Depth[a] > d}) <= Depth[e] - d
<1> DEFINE above == {a \in s : Depth[a] > d}
           heights == d + 1 .. Depth[e]
           f == [a \in above |-> Depth[a]]
<1>1. Depth[e] \in Nat /\ d \in Nat
  BY DepthNat
<1>2. f \in [above -> heights]
  BY <1>1, DepthNat DEF OnBranch
<1>3. \A a, b \in above : f[a] = f[b] => a = b
  BY OnBranchSame
<1>4. f \in Injection(above, heights)
  BY <1>2, <1>3 DEF Injection, IsInjective
<1>5. IsFiniteSet(heights) /\ Cardinality(heights) <= Depth[e] - d
  <2>1. d + 1 \in Int /\ Depth[e] \in Int
    BY <1>1
  <2>2. /\ IsFiniteSet(heights)
        /\ Cardinality(heights) = IF d + 1 > Depth[e] THEN 0
                                   ELSE Depth[e] - (d + 1) + 1
    BY <2>1, FS_Interval
  <2>3. d <= Depth[e]
    BY <1>1
  <2> QED
    BY <1>1, <2>2, <2>3
<1>6. IsFiniteSet(above) /\ Cardinality(above) <= Cardinality(heights)
  BY <1>4, <1>5, FS_Injection
<1>7. Cardinality(above) \in Nat /\ Cardinality(heights) \in Nat
  BY <1>5, <1>6, FS_CardinalityType
<1> QED
  BY <1>1, <1>5, <1>6, <1>7

\* The newest hashes of a branch that ends at e are those of its last blocks.
LEMMA NewestKept ==
  ASSUME NEW e \in Block, NEW s \in SUBSET Block, \A b \in s : OnBranch(b, e),
         NEW b \in s, Depth[b] > Depth[e] - RecentHashes
  PROVE  b \in Newest(s)
<1>1. Depth[b] \in 0 .. Depth[e] /\ Depth[e] \in Nat
  BY DepthNat DEF OnBranch
<1>2. Cardinality({a \in s : Depth[a] > Depth[b]}) <= Depth[e] - Depth[b]
  BY <1>1, FewAbove
<1>3. IsFiniteSet({a \in s : Depth[a] > Depth[b]})
  <2> DEFINE above == {a \in s : Depth[a] > Depth[b]}
             f == [a \in above |-> Depth[a]]
  <2>1. f \in [above -> 0 .. Depth[e]]
    BY <1>1, DepthNat DEF OnBranch
  <2>2. f \in Injection(above, 0 .. Depth[e])
    BY <2>1, OnBranchSame DEF Injection, IsInjective
  <2> QED
    BY <1>1, <2>2, FS_Injection, FS_Interval
<1>4. Cardinality({a \in s : Depth[a] > Depth[b]}) \in Nat
  BY <1>3, FS_CardinalityType
<1>5. RecentHashes \in Nat
  BY ParameterAssumption
<1> QED
  BY <1>1, <1>2, <1>4, <1>5 DEF Newest

-----------------------------------------------------------------------------
(* How far the chains reach.                                               *)

\* While onHeaders() runs nothing of the header service changes: it only begins
\* when a sync has reached the peer's best block.
LEMMA TopStays ==
  ASSUME TypeInv, CalmInv, Calm, BlockNext, check'.pc # "none"
  PROVE  \/ check.pc # "none" /\ top' = top
         \/ check.pc = "none" /\ top' = peer /\ peer' = peer
<1> USE DEF header, database, process, chain, flags, listeners, queue, others,
            network, counters
<1>1. /\ StartInv /\ HeaderInv /\ StillInv /\ DrainedInv
      /\ (check.pc # "none" => phase = "run")
      /\ (phase # "run" => check.pc = "none")
  BY DEF CalmInv, ProcessInv, FeedInv, CallInv, StartInv, Fresh, NoCheck, StillInv
<1>2. ASSUME NEW reason, Stop(reason)
      PROVE  FALSE
  BY <1>2 DEF Stop, Boot, NoCheck
<1>3. \A c \in Call : call[c].first => check.pc # "none"
  BY <1>1 DEF DrainedInv
<1>4. CASE Starting
  BY <1>1, <1>2, <1>4
  DEF Starting, StartHeader, RebuildHeaders, HeaderReady, StartBlock,
      DestroyAboveTip, LoadRecentHashes, DestroyTransactions, StoreTransactionTip
<1>5. CASE HeaderService
  <2>1. CASE HeaderCompletes
    BY <2>1 DEF HeaderCompletes, Complete
  <2>2. CASE HeaderSyncs
    BY <1>1, <2>2
    DEF HeaderSyncs, Download, Save, Truncate, Again, StillInv
  <2>3. CASE \E b \in Block : HeaderLooks(b)
    BY <1>1, <2>3 DEF HeaderLooks, Extend, GoBack, HeaderInv
  <2>4. CASE ReorgComplete
    BY <2>4 DEF ReorgComplete, NoCheck
  <2> QED
    BY <1>5, <2>1, <2>2, <2>3, <2>4 DEF HeaderService
<1>6. CASE Checking
  BY <1>2, <1>6
  DEF Checking, CheckIdle, CheckDrained, FindCommon, FindBlocksToRemove,
      StoreCommonTip, ForgetHashes, UndoTransactions, UndoBlocks, StartSync,
      GenesisSaved
<1>7. ASSUME NEW c \in Call, Syncing(c) \/ Timeout(c)
      PROVE  check.pc # "none" /\ top' = top
  BY <1>2, <1>3, <1>7 DEF Syncing, AskHeaders, Timeout, BlockSynced, Ended
<1>8. ASSUME NEW w \in Worker, Writing(w)
      PROVE  check.pc # "none" /\ top' = top
  BY <1>2, <1>8
  DEF Writing, IndexTransactions, UpdateTransactionTip, FindHeader, CreateBlock,
      SetTip, StoreTip
<1>9. CASE Following
  BY <1>9 DEF Following, LookupBlock, ProcessBlock, BlockSaved, FinishBlock
<1>10. CASE PeerAdopts \/ PeerReady \/ Crash
  BY <1>1, <1>2, <1>10 DEF PeerAdopts, PeerReady, Resume, Crash
<1>11. ASSUME NEW b \in Block, Deliver(b)
       PROVE  check.pc # "none" /\ top' = top
  BY <1>3, <1>11 DEF Deliver
<1> QED
  BY <1>4, <1>5, <1>6, <1>7, <1>8, <1>9, <1>10, <1>11 DEF BlockNext

\* The limit never goes down.
LEMMA LimitGrows ==
  ASSUME TypeInv, CalmInv, Calm, TypeInv', CalmInv', BlockNext
  PROVE  Limit \in Nat /\ Limit' \in Nat /\ Limit <= Limit'
<1>1. /\ peer \in Block /\ peer' \in Block /\ Depth[peer] \in Nat
      /\ Depth[peer'] \in Nat
  BY DepthNat DEF TypeInv, TypeOK
<1>2. check.pc # "none" => top \in Block /\ Depth[top] \in Nat
                            /\ Depth[top] <= Depth[peer]
  BY DepthNat DEF TypeInv, TypeOK, CalmInv, FeedInv, StillInv, HeaderInv, ReachInv
<1>3. (check.pc # "none" => top \in Block /\ Depth[top] \in Nat)'
  BY DepthNat DEF TypeInv, TypeOK, CalmInv, FeedInv, StillInv, HeaderInv
<1>4. Limit \in Nat /\ Limit' \in Nat /\ Limit <= Depth[peer]
  BY <1>1, <1>2, <1>3 DEF Limit
<1>5. Depth[peer] <= Depth[peer']
  <2>1. peer' = peer \/ PeerAdopts
    BY DEF BlockNext, Starting, StartHeader, RebuildHeaders, HeaderReady, StartBlock,
       DestroyAboveTip, LoadRecentHashes, DestroyTransactions, StoreTransactionTip,
       HeaderService, HeaderSyncs, HeaderCompletes, HeaderLooks, ReorgComplete,
       Checking, CheckIdle, CheckDrained, FindCommon, FindBlocksToRemove,
       StoreCommonTip, ForgetHashes, UndoTransactions, UndoBlocks, StartSync,
       GenesisSaved, Syncing, AskHeaders, Timeout, BlockSynced, Writing,
       IndexTransactions, UpdateTransactionTip, FindHeader, CreateBlock, SetTip,
       StoreTip, Following, LookupBlock, ProcessBlock, BlockSaved, FinishBlock,
       PeerReady, Crash, Deliver, Stop, network
  <2> QED
    BY <1>1, <2>1 DEF PeerAdopts
<1>6. CASE check'.pc = "none"
  BY <1>1, <1>4, <1>5, <1>6 DEF Limit
<1>7. CASE check'.pc # "none"
  BY <1>1, <1>2, <1>7, TopStays DEF Limit
<1> QED
  BY <1>6, <1>7

-----------------------------------------------------------------------------
(* Nothing above the limit is saved.                                       *)

\* The hypothesis of the lemmas: a step from the invariant to the invariant.
Onward ==
  /\ TypeInv /\ CalmInv /\ LimitInv
  /\ Limit \in Nat

LEMMA LimitKept ==
  ASSUME Onward, TypeInv', CalmInv', Limit' \in Nat, Limit <= Limit',
         storedTip' = storedTip \/ storedTip'.height <= Limit,
         \A w \in Worker : work'[w].row = work[w].row
                           \/ work'[w].row.height <= Limit,
         \A c \in Call : call'[c].pc = "wait" =>
           \/ call[c].pc = "wait" /\ call'[c].want = call[c].want
           \/ Depth[call'[c].want] <= Limit,
         \/ UNCHANGED <<running, waiting>>
         \/ /\ running' # NoBlock => Depth[running'] <= Limit
            /\ \A i \in 1 .. Len(waiting') : Depth[waiting'[i]] <= Limit
  PROVE  LimitInv'
<1>1. /\ storedTip'.height \in Nat
      /\ \A w \in Worker : work'[w].row.height \in Nat
      /\ \A c \in Call : call'[c].pc = "wait" => Depth[call'[c].want] \in Nat
      /\ running' # NoBlock => Depth[running'] \in Nat
      /\ \A i \in 1 .. Len(waiting') : Depth[waiting'[i]] \in Nat
  <2>1. /\ storedTip' \in Row /\ work' \in [Worker -> WorkState]
        /\ running' \in Block \cup {NoBlock} /\ waiting' \in Seq(Block)
        /\ \A c \in Call : call'[c].pc = "wait" => call'[c].want \in Block
    BY DEF TypeInv, TypeOK, CalmInv, CallInv, AskInv
  <2> QED
    BY <2>1, RowType, DepthNat DEF WorkState
<1>2. storedTip'.height <= Limit
  BY DEF Onward, LimitInv
<1>3. \A w \in Worker : work'[w].row.height <= Limit
  BY DEF Onward, LimitInv
<1>4. \A c \in Call : call'[c].pc = "wait" => Depth[call'[c].want] <= Limit
  BY DEF Onward, LimitInv
<1>5. /\ running' # NoBlock => Depth[running'] <= Limit
      /\ \A i \in 1 .. Len(waiting') : Depth[waiting'[i]] <= Limit
  BY DEF Onward, LimitInv
<1>6. Limit \in Nat
  BY DEF Onward
<1> HIDE DEF Limit
<1> QED
  BY <1>1, <1>2, <1>3, <1>4, <1>5, <1>6 DEF LimitInv

\* A process that stops keeps the stored tip only.
LEMMA LimitStop ==
  ASSUME Onward, TypeInv', CalmInv', Limit' \in Nat, Limit <= Limit',
         NEW reason, Stop(reason)
  PROVE  LimitInv'
<1>1. /\ storedTip' = storedTip /\ waiting' = <<>> /\ running' = NoBlock
      /\ work' = [w \in Worker |-> NoWork] /\ call' = [c \in Call |-> NoCall]
  BY DEF Stop, Boot, database
<1>2. NoWork.row.height = 0 /\ NoCall.pc = "none" /\ Len(waiting') = 0
  BY <1>1 DEF NoWork, NoCall, GenesisRow
<1>3. \A w \in Worker : work'[w].row.height <= Limit
  BY <1>1, <1>2 DEF Onward
<1>4. \A c \in Call : call'[c].pc # "wait"
  BY <1>1, <1>2
<1>5. /\ running' # NoBlock => Depth[running'] <= Limit
      /\ \A i \in 1 .. Len(waiting') : Depth[waiting'[i]] <= Limit
  BY <1>1, <1>2
<1> QED
  BY <1>1, <1>3, <1>4, <1>5, LimitKept

\* The queue passes on what it holds.
LEMMA LimitQueue ==
  ASSUME Onward, TypeInv, waiting # <<>>
  PROVE  /\ Depth[Queue!Last(waiting)] <= Limit
         /\ \A i \in 1 .. Len(Queue!Front(waiting)) :
              Depth[Queue!Front(waiting)[i]] <= Limit
<1>1. waiting \in Seq(Block) /\ \A i \in 1 .. Len(waiting) : Depth[waiting[i]] <= Limit
  BY DEF Onward, LimitInv, TypeInv, TypeOK
<1> DEFINE n == Len(waiting) - 1
<1>2. Len(waiting) \in Nat /\ Len(waiting) # 0
  BY <1>1, EmptySeq
<1>3. Len(waiting) \in 1 .. Len(waiting) /\ n \in Nat /\ n <= Len(waiting)
  BY <1>2
<1>4. Queue!Front(waiting) = SubSeq(waiting, 1, n)
  BY DEF Queue!Front
<1>5. /\ Len(SubSeq(waiting, 1, n)) = n
      /\ \A i \in 1 .. n : SubSeq(waiting, 1, n)[i] = waiting[i]
  <2> HIDE DEF n
  <2> QED
    BY <1>1, <1>3
<1>6. \A i \in 1 .. n : i \in 1 .. Len(waiting)
  BY <1>2
<1> QED
  BY <1>1, <1>3, <1>4, <1>5, <1>6 DEF Queue!Last

\* And what is appended to it.
LEMMA LimitPush ==
  ASSUME Onward, NEW b \in Block, Depth[b] <= Limit, Queue!Push(b)
  PROVE  /\ running' # NoBlock => Depth[running'] <= Limit
         /\ \A i \in 1 .. Len(waiting') : Depth[waiting'[i]] <= Limit
<1>1. /\ waiting \in Seq(Block) /\ \A i \in 1 .. Len(waiting) : Depth[waiting[i]] <= Limit
      /\ running # NoBlock => Depth[running] <= Limit
      /\ running = NoBlock => waiting = <<>>
  BY DEF Onward, LimitInv, TypeInv, TypeOK, QueueInv
<1>2. /\ Append(waiting, b) \in Seq(Block)
      /\ Len(Append(waiting, b)) = Len(waiting) + 1
      /\ \A i \in 1 .. Len(waiting) + 1 : Append(waiting, b)[i] =
           IF i = Len(waiting) + 1 THEN b ELSE waiting[i]
  BY <1>1
<1>3. \A i \in 1 .. Len(waiting) + 1 : Depth[Append(waiting, b)[i]] <= Limit
  <2>1. \A i \in 1 .. Len(waiting) + 1 :
          i = Len(waiting) + 1 \/ i \in 1 .. Len(waiting)
    BY <1>1
  <2> QED
    BY <1>1, <1>2, <2>1
<1>4. CASE running = NoBlock
  <2>1. Append(waiting, b) # <<>> /\ Len(Append(waiting, b)) = 1
        /\ Append(waiting, b)[1] = b
    <3>1. Len(waiting) = 0
      BY <1>1, <1>4
    <3>2. Append(waiting, b)[1] = b /\ Len(Append(waiting, b)) = 1
      BY <1>2, <3>1
    <3> QED
      BY <1>1, <3>2, AppendType
  <2>2. running' = b /\ waiting' = <<>>
    BY <1>2, <1>4, <2>1, ProcessOne DEF Queue!Push, Queue!Process
  <2> QED
    BY <2>2
<1>5. CASE running # NoBlock
  <2>1. waiting' = Append(waiting, b) /\ running' = running
    BY <1>5 DEF Queue!Push
  <2> QED
    BY <1>1, <1>2, <1>3, <1>5, <2>1
<1> QED
  BY <1>4, <1>5

\* Every step keeps below the limit.
LEMMA LimitStep ==
  ASSUME Onward, Calm, TypeInv', CalmInv', BlockNext
  PROVE  LimitInv'
<1> USE DEF database, queue
<1>1. /\ TypeInv /\ CalmInv /\ LimitInv /\ Limit \in Nat /\ Limit' \in Nat
      /\ Limit <= Limit'
      /\ call \in [Call -> CallState] /\ work \in [Worker -> WorkState]
  BY LimitGrows DEF Onward, TypeInv, TypeOK
<1>2. ASSUME NEW reason, Stop(reason)
      PROVE  LimitInv'
  BY <1>1, <1>2, LimitStop
<1>3. ASSUME UNCHANGED <<storedTip, work, call, running, waiting>>
      PROVE  LimitInv'
  BY <1>1, <1>3, LimitKept
<1>4. CASE Starting
  BY <1>2, <1>3, <1>4
  DEF Starting, StartHeader, RebuildHeaders, HeaderReady, StartBlock,
      DestroyAboveTip, LoadRecentHashes, DestroyTransactions, StoreTransactionTip
<1>5. CASE HeaderService \/ PeerAdopts \/ PeerReady \/ Crash
  BY <1>2, <1>3, <1>5
  DEF HeaderService, HeaderSyncs, HeaderCompletes, HeaderLooks, ReorgComplete,
      PeerAdopts, PeerReady, Crash
<1>6. CASE Checking
  <2>1. CASE CheckDrained
    <3>1. /\ UNCHANGED <<storedTip, work, running, waiting>> /\ call' = Disarmed
      BY <2>1 DEF CheckDrained
    <3>2. \A c \in Call : call'[c].pc = call[c].pc /\ call'[c].want = call[c].want
      BY <1>1, <3>1 DEF Disarmed, CallState
    <3> QED
      BY <1>1, <3>1, <3>2, LimitKept
  <2>2. CASE StoreCommonTip
    <3>1. /\ storedTip' = check.back /\ UNCHANGED <<work, call, running, waiting>>
          /\ check.pc = "settip"
      BY <2>2 DEF StoreCommonTip
    <3>2. /\ check.back = tip /\ OnBranch(tip.hash, storedTip.hash)
          /\ storedTip.height = Depth[storedTip.hash] /\ tip.height = Depth[tip.hash]
      BY <1>1, <3>1 DEF CalmInv, DataInv, UndoInv, TrueInv
    <3>3. storedTip'.height <= storedTip.height
      BY <3>1, <3>2 DEF OnBranch
    <3>4. storedTip.height <= Limit /\ storedTip.height \in Nat /\ storedTip'.height \in Nat
      BY <1>1, RowType DEF LimitInv, TypeInv, TypeOK
    <3> QED
      BY <1>1, <3>1, <3>3, <3>4, LimitKept
  <2>3. CASE StartSync \/ GenesisSaved
    <3>1. CASE \E reason : Stop(reason)
      BY <1>2, <3>1
    <3>2. CASE /\ UNCHANGED <<storedTip, running, waiting>>
               /\ \A w \in Worker : work'[w].row = work[w].row
                                    \/ work'[w].row = GenesisRow
               /\ \A c \in Call : call'[c] = call[c] \/ call'[c].pc = "ask"
      <4>1. GenesisRow.height = 0
        BY DEF GenesisRow
      <4>2. \A c \in Call : call'[c].pc = "wait" => call'[c] = call[c]
        BY <3>2
      <4>3. \A w \in Worker : work'[w].row = work[w].row
                              \/ work'[w].row.height <= Limit
        BY <1>1, <3>2, <4>1
      <4> QED
        BY <1>1, <3>2, <4>2, <4>3, LimitKept
    <3>3. ASSUME FirstSync
          PROVE  \A c \in Call : call'[c] = call[c] \/ call'[c].pc = "ask"
      BY <1>1, <3>3 DEF FirstSync, CallState, NoCall
    <3>4. "genesis" \in Worker
      BY WorkerType
    <3>5. CASE StartSync
      <4>1. \/ \E reason : Stop(reason)
            \/ /\ UNCHANGED <<storedTip, running, waiting>>
               /\ FirstSync /\ work' = work
            \/ /\ UNCHANGED <<storedTip, running, waiting>>
               /\ call' = call
               /\ work' = work \/ work' = [work EXCEPT !["genesis"] =
                                   [pc |-> "index", row |-> GenesisRow]]
        BY <3>5 DEF StartSync
      <4>2. \A w \in Worker : [work EXCEPT !["genesis"] =
               [pc |-> "index", row |-> GenesisRow]][w].row \in {work[w].row, GenesisRow}
        BY <1>1
      <4> QED
        BY <3>1, <3>2, <3>3, <4>1, <4>2
    <3>6. CASE GenesisSaved
      <4>1. \/ \E reason : Stop(reason)
            \/ /\ UNCHANGED <<storedTip, running, waiting>>
               /\ FirstSync \/ call' = call
               /\ work' = [work EXCEPT !["genesis"] = NoWork]
        BY <3>6 DEF GenesisSaved
      <4>2. \A w \in Worker :
              [work EXCEPT !["genesis"] = NoWork][w].row \in {work[w].row, GenesisRow}
        BY <1>1 DEF NoWork
      <4> QED
        BY <3>1, <3>2, <3>3, <4>1, <4>2
    <3> QED
      BY <2>3, <3>5, <3>6
  <2>4. CASE \/ CheckIdle \/ FindCommon \/ FindBlocksToRemove \/ ForgetHashes
             \/ UndoTransactions \/ UndoBlocks
    BY <1>2, <1>3, <2>4
    DEF CheckIdle, FindCommon, FindBlocksToRemove, ForgetHashes, UndoTransactions,
        UndoBlocks
  <2> QED
    BY <1>6, <2>1, <2>2, <2>3, <2>4 DEF Checking
<1>7. ASSUME NEW c \in Call, Syncing(c) \/ Timeout(c)
      PROVE  LimitInv'
  <2>1. ASSUME UNCHANGED <<storedTip, running, waiting>>,
               \A w \in Worker : work'[w].row = work[w].row \/ work'[w] = NoWork,
               \A d \in Call : call'[d].pc = "wait" => call'[d] = call[d]
        PROVE  LimitInv'
    <3>1. NoWork.row.height = 0
      BY DEF NoWork, GenesisRow
    <3>2. \A w \in Worker : work'[w].row = work[w].row
                            \/ work'[w].row.height <= Limit
      BY <1>1, <2>1, <3>1
    <3> QED
      BY <1>1, <2>1, <3>2, LimitKept
  <2>2. \A d \in Call : NextSync(c)[d].pc = "wait" => NextSync(c)[d] = call[d]
    BY <1>1, <1>7 DEF NextSync, NoCall, CallState
  <2>3. \A d \in Call : [call EXCEPT ![c] = NoCall][d].pc = "wait" =>
                          [call EXCEPT ![c] = NoCall][d] = call[d]
    BY <1>1, <1>7 DEF NoCall, CallState
  <2>4. CASE BlockSynced(c)
    <3>1. /\ UNCHANGED <<storedTip, running, waiting>>
          /\ work' = [work EXCEPT ![c] = NoWork]
          /\ call' = NextSync(c) \/ call' = [call EXCEPT ![c] = NoCall]
      BY <2>4 DEF BlockSynced
    <3>2. c \in Worker
      BY WorkerType
    <3>3. \A w \in Worker : work'[w] = work[w] \/ work'[w] = NoWork
      BY <1>1, <3>1, <3>2
    <3> QED
      BY <2>1, <2>2, <2>3, <3>1, <3>3
  <2>5. CASE Timeout(c)
    BY <1>2, <2>1, <2>2, <2>3, <2>5 DEF Timeout
  <2>6. CASE AskHeaders(c)
    <3> DEFINE h == call[c].from.height + 1
    <3>1. CASE /\ top \in Block
               /\ h <= Depth[top]
               /\ call' = [call EXCEPT ![c].pc = "wait", ![c].want = Branch[top][h],
                                       ![c].armed = TRUE]
      <4>1. h \in 0 .. Depth[top]
        <5>1. call[c].from \in Row
          BY <1>1 DEF CallState
        <5> QED
          BY <3>1, <5>1, RowType, DepthNat
      <4>2. Depth[Branch[top][h]] = h
        BY <3>1, <4>1, BranchBlock
      <4>3. Depth[top] <= Limit
        BY <1>1, <3>1, DepthNat DEF Limit, CalmInv, FeedInv, ReachInv
      <4>4. Depth[Branch[top][h]] <= Limit
        <5>1. Depth[top] \in Nat
          BY <3>1, DepthNat
        <5> QED
          BY <1>1, <4>1, <4>2, <4>3, <5>1
      <4>5. call'[c].want = Branch[top][h]
        BY <1>1, <3>1 DEF CallState
      <4>6. \A d \in Call : d # c => call'[d] = call[d]
        BY <1>1, <3>1
      <4>7. UNCHANGED <<storedTip, work, running, waiting>>
        BY <2>6 DEF AskHeaders
      <4>8. \A d \in Call : call'[d].pc = "wait" =>
              \/ call[d].pc = "wait" /\ call'[d].want = call[d].want
              \/ Depth[call'[d].want] <= Limit
        BY <4>4, <4>5, <4>6
      <4> QED
        BY <1>1, <4>7, <4>8, LimitKept
    <3>2. CASE call' = [call EXCEPT ![c] = NoCall]
      BY <2>1, <2>3, <2>6, <3>2 DEF AskHeaders
    <3> QED
      BY <2>6, <3>1, <3>2 DEF AskHeaders
  <2> QED
    BY <1>7, <2>4, <2>5, <2>6 DEF Syncing
<1>8. ASSUME NEW w \in Worker, Writing(w)
      PROVE  LimitInv'
  <2>1. CASE \E reason : Stop(reason)
    BY <1>2, <2>1
  <2>2. CASE ~\E reason : Stop(reason)
    <3>1. /\ UNCHANGED <<call, running, waiting>>
          /\ storedTip' = storedTip \/ storedTip' = work[w].row
          /\ \E p : work' = [work EXCEPT ![w].pc = p]
      BY <1>8, <2>2
      DEF Writing, IndexTransactions, UpdateTransactionTip, FindHeader, CreateBlock,
          SetTip, StoreTip
    <3>2. \A v \in Worker : work'[v].row = work[v].row
      BY <1>1, <3>1 DEF WorkState
    <3>3. work[w].row.height <= Limit
      BY <1>1 DEF LimitInv
    <3> QED
      BY <1>1, <3>1, <3>2, <3>3, LimitKept
  <2> QED
    BY <2>1, <2>2
<1>9. CASE Following
  <2>0. "live" \in Worker
    BY WorkerType
  <2>1. CASE LookupBlock
    BY <1>3, <2>1 DEF LookupBlock
  <2>2. CASE ProcessBlock
    <3>1. CASE work' = [work EXCEPT !["live"] = Saving(running)] /\ live = "absent"
      <4>1. running # NoBlock /\ Depth[running] <= Limit
        BY <1>1, <3>1 DEF LimitInv, CalmInv, ProcessInv, QueueInv
      <4>2. work'["live"].row = Saving(running).row /\ Saving(running).row.hash = running
        BY <1>1, <2>0, <3>1 DEF Saving
      <4>3. work'["live"].row.height = Depth[running]
        BY <2>0, <4>2 DEF CalmInv, DataInv, TrueInv
      <4>4. \A w \in Worker : work'[w].row = work[w].row
                              \/ work'[w].row.height <= Limit
        BY <1>1, <2>0, <3>1, <4>1, <4>3
      <4> QED
        BY <1>1, <2>2, <4>4, LimitKept DEF ProcessBlock
    <3>2. CASE work' = work
      BY <1>3, <2>2, <3>2 DEF ProcessBlock
    <3> QED
      BY <2>2, <3>1, <3>2 DEF ProcessBlock
  <2>3. CASE BlockSaved
    <3>1. NoWork.row.height = 0
      BY DEF NoWork, GenesisRow
    <3>2. /\ UNCHANGED <<storedTip, call, running, waiting>>
          /\ work' = [work EXCEPT !["live"] = NoWork]
      BY <2>3 DEF BlockSaved
    <3>3. \A w \in Worker : work'[w] = work[w] \/ work'[w] = NoWork
      BY <1>1, <2>0, <3>2
    <3>4. \A w \in Worker : work'[w].row = work[w].row
                            \/ work'[w].row.height <= Limit
      BY <1>1, <3>1, <3>3
    <3> QED
      BY <1>1, <3>2, <3>4, LimitKept
  <2>4. CASE FinishBlock
    <3>1. UNCHANGED <<storedTip, call, work>> /\ Queue!Resolve
      BY <2>4 DEF FinishBlock
    <3>2. CASE waiting # <<>>
      <4>1. running' = Queue!Last(waiting) /\ waiting' = Queue!Front(waiting)
        BY <3>1, <3>2 DEF Queue!Resolve, Queue!Process
      <4> QED
        BY <1>1, <3>1, <3>2, <4>1, LimitQueue, LimitKept
    <3>3. CASE waiting = <<>>
      <4>1. running' = NoBlock /\ waiting' = waiting
        BY <3>1, <3>3 DEF Queue!Resolve
      <4>2. \A i \in 1 .. Len(waiting') : Depth[waiting'[i]] <= Limit
        BY <1>1, <4>1 DEF LimitInv
      <4> QED
        BY <1>1, <3>1, <4>1, <4>2, LimitKept
    <3> QED
      BY <3>2, <3>3
  <2> QED
    BY <1>9, <2>1, <2>2, <2>3, <2>4 DEF Following
<1>10. ASSUME NEW b \in Block, Deliver(b)
       PROVE  LimitInv'
  <2> DEFINE takers == {c \in Call : call[c].pc = "wait" /\ call[c].want = b}
  <2>1. Depth[b] <= Limit
    <3>1. CASE takers # {}
      BY <1>1, <3>1 DEF LimitInv
    <3>2. CASE takers = {}
      <4>1. OnBranch(b, peer) /\ (stage = "follow" => check.pc = "none")
        BY <1>10, <3>2 DEF Deliver, Calm
      <4>2. check.pc = "none"
        BY <1>1, <4>1 DEF CalmInv, FeedInv, StillInv
      <4> QED
        BY <4>1, <4>2 DEF Limit, OnBranch
    <3> QED
      BY <3>1, <3>2
  <2>2. storedTip' = storedTip
    BY <1>10 DEF Deliver
  <2>3. \/ UNCHANGED <<running, waiting>>
        \/ /\ running' # NoBlock => Depth[running'] <= Limit
           /\ \A i \in 1 .. Len(waiting') : Depth[waiting'[i]] <= Limit
    BY <1>10, <2>1, LimitPush DEF Deliver
  <2>4. \A w \in Worker : work'[w] = work[w] \/ work'[w] = Saving(b)
    BY <1>10 DEF Deliver
  <2>5. \A w \in Worker : work'[w].row = work[w].row \/ work'[w].row.height <= Limit
    <3>1. \A w \in Worker : work'[w].row.height = Depth[work'[w].row.hash]
      BY DEF CalmInv, DataInv, TrueInv
    <3>2. Saving(b).row.hash = b
      BY DEF Saving
    <3> QED
      BY <2>1, <2>4, <3>1, <3>2
  <2>6. \A c \in Call : call'[c].pc = "wait" =>
          call[c].pc = "wait" /\ call'[c].want = call[c].want
    <3>1. \A c \in Call : Disarmed[c].pc = call[c].pc /\ Disarmed[c].want = call[c].want
      BY <1>1 DEF Disarmed, CallState
    <3>2. \A c \in Call : [call[c] EXCEPT !.pc = "save", !.armed = FALSE].pc = "save"
      BY <1>1 DEF CallState
    <3>3. NoCall.pc = "none"
      BY DEF NoCall
    <3>4. \A c \in Call : call'[c] \in {NoCall, [call[c] EXCEPT !.pc = "save", !.armed = FALSE],
                                        Disarmed[c], call[c]}
      BY <1>10 DEF Deliver
    <3> QED
      BY <3>1, <3>2, <3>3, <3>4
  <2> QED
    BY <1>1, <2>2, <2>3, <2>5, <2>6, LimitKept
<1> QED
  BY <1>4, <1>5, <1>6, <1>7, <1>8, <1>9, <1>10 DEF BlockNext

-----------------------------------------------------------------------------
(* The cache.                                                              *)

\* A step that leaves the tip and the cache alone keeps them together.
LEMMA CacheKept ==
  ASSUME CacheInv, Limit \in Nat, Limit' \in Nat, Limit <= Limit', tip \in Row,
         UNCHANGED <<tip, recent>>,
         \/ phase' = phase
         \/ /\ phase' \in {"down", "header", "block", "destroy", "load"}
            /\ recent = {}
         \/ phase \in {"transaction", "store"} /\ phase' \in {"store", "run"},
         check.pc \in {"settip", "forget"} => check'.pc \in {"settip", "forget"}
  PROVE  CacheInv'
<1>1. phase' \in {"down", "header", "block", "destroy", "load"} => recent' = {}
  BY DEF CacheInv
<1>2. \E e \in Block :
        /\ OnBranch(tip'.hash, e)
        /\ check'.pc \notin {"settip", "forget"} => e = tip'.hash
        /\ \A b \in recent' : OnBranch(b, e)
  BY DEF CacheInv
<1>3. ASSUME phase' \in {"transaction", "store", "run"}
      PROVE  \E n \in tip'.height .. Limit' : \A d \in 1 .. tip'.height :
               d > n - RecentHashes => Branch[tip'.hash][d] \in recent'
  <2>1. phase \in {"transaction", "store", "run"}
    BY <1>3
  <2>2. PICK n \in tip.height .. Limit : \A d \in 1 .. tip.height :
               d > n - RecentHashes => Branch[tip.hash][d] \in recent
    BY <2>1 DEF CacheInv
  <2>3. tip.height \in Nat
    BY RowType
  <2>4. n \in tip.height .. Limit'
    <3> HIDE DEF Limit
    <3> QED
      BY <2>2, <2>3
  <2> QED
    BY <2>2, <2>4
<1> QED
  BY <1>1, <1>2, <1>3 DEF CacheInv

\* A process that stops has no cache, and its tip is the genesis block.
LEMMA CacheEmpty ==
  ASSUME tip' = GenesisRow, recent' = {}, phase' = "down"
  PROVE  CacheInv'
<1>1. tip'.hash \in Block /\ OnBranch(tip'.hash, tip'.hash)
  BY TreeAssumption, OnBranchSelf DEF GenesisRow
<1> QED
  BY <1>1 DEF CacheInv

\* _loadRecentBlockHashes reads the rows of the tip's branch.
LEMMA CacheLoad ==
  ASSUME Onward, TypeInv', CacheInv, Limit' \in Nat, Limit <= Limit', LoadRecentHashes
  PROVE  CacheInv'
<1>1. /\ phase = "load" /\ phase' = "transaction" /\ UNCHANGED <<tip, check>>
      /\ recent' = {r.hash : r \in {q \in blocks :
                   /\ q.height \in 1 .. tip.height
                   /\ q.height > tip.height - RecentHashes
                   /\ HasRow(blocks, q.height - 1)}}
  BY DEF LoadRecentHashes
<1>2. /\ storedTip = tip /\ (Bare \/ blocks = RowsOf(tip.hash))
      /\ tip \in Row /\ tip.hash \in Block /\ tip.height \in Nat
      /\ tip.height = Depth[tip.hash] /\ tip.height <= Limit
      /\ check.pc = "none" /\ RecentHashes \in Nat
  <2>1. storedTip = tip /\ (Bare \/ blocks = RowsOf(tip.hash)) /\ check.pc = "none"
    BY <1>1 DEF Onward, CalmInv, DataInv, LoadInv, ProcessInv, StartInv, Fresh, NoCheck
  <2>2. tip \in Row /\ tip.height = Depth[tip.hash] /\ storedTip.height <= Limit
    BY DEF Onward, TypeInv, TypeOK, CalmInv, DataInv, TrueInv, LimitInv
  <2> QED
    BY <2>1, <2>2, RowType, ParameterAssumption
<1>3. \A b \in recent' : OnBranch(b, tip.hash)
  <2> SUFFICES ASSUME NEW b \in recent'
               PROVE  OnBranch(b, tip.hash)
    OBVIOUS
  <2>1. PICK r \in blocks : b = r.hash
    BY <1>1
  <2>2. blocks = RowsOf(tip.hash)
    BY <1>2, <2>1 DEF Bare
  <2>3. r.height \in 0 .. Depth[tip.hash] /\ r.hash = Branch[tip.hash][r.height]
        /\ r.height = Depth[r.hash]
    BY <1>2, <2>1, <2>2, RowsOfHeights
  <2>4. Depth[b] \in 0 .. Depth[tip.hash] /\ Branch[tip.hash][Depth[b]] = b
    BY <2>1, <2>3
  <2> QED
    BY <1>2, <2>4, DepthNat DEF OnBranch
<1>4. \A d \in 1 .. tip.height :
        d > tip.height - RecentHashes => Branch[tip.hash][d] \in recent'
  <2> SUFFICES ASSUME NEW d \in 1 .. tip.height, d > tip.height - RecentHashes
               PROVE  Branch[tip.hash][d] \in recent'
    OBVIOUS
  <2>1. blocks = RowsOf(tip.hash)
    BY <1>2 DEF Bare, GenesisRow
  <2> DEFINE r == [height |-> d, hash |-> Branch[tip.hash][d]]
  <2>2. d \in 0 .. Depth[tip.hash] /\ d - 1 \in 0 .. Depth[tip.hash]
    BY <1>2
  <2>3. r \in blocks
    BY <2>1, <2>2 DEF RowsOf
  <2>4. HasRow(blocks, d - 1)
    BY <1>2, <2>1, <2>2, RowsOfFull DEF HasRow
  <2>5. r.height = d /\ r.hash = Branch[tip.hash][d]
    OBVIOUS
  <2> HIDE DEF r
  <2> QED
    BY <1>1, <2>3, <2>4, <2>5
<1>5. tip.height \in tip.height .. Limit'
  <2>1. Limit \in Nat
    BY DEF Onward
  <2> HIDE DEF Limit
  <2> QED
    BY <1>2, <2>1
<1>6. OnBranch(tip.hash, tip.hash)
  BY <1>2, OnBranchSelf
<1> QED
  BY <1>1, <1>2, <1>3, <1>4, <1>5, <1>6 DEF CacheInv

\* _saveBlock adds the hash of the new tip, and drops the oldest.
LEMMA CacheTip ==
  ASSUME Onward, Calm, TypeInv', CacheInv, Limit' \in Nat, Limit <= Limit',
         NEW w \in Worker, SetTip(w)
  PROVE  CacheInv'
<1> DEFINE b == work[w].row.hash
           s == recent \cup {b}
<1>1. /\ work[w].pc = "created" /\ recent' = Newest(s) /\ tip' = work[w].row
      /\ UNCHANGED <<phase, check>>
  BY DEF SetTip, process
<1>2. /\ work[w].row \in Row /\ b \in Block /\ work[w].row.height = Depth[b]
      /\ tip \in Row /\ tip.hash \in Block /\ tip.height = Depth[tip.hash]
      /\ tip.height \in Nat /\ Depth[b] \in Nat /\ Depth[b] <= Limit
      /\ Limit \in Nat /\ RecentHashes \in Nat \ {0} /\ recent \subseteq Block
      /\ work \in [Worker -> WorkState]
  <2>1. work[w].row \in Row /\ tip \in Row /\ recent \subseteq Block
        /\ work \in [Worker -> WorkState] /\ Limit \in Nat
    BY DEF Onward, TypeInv, TypeOK, WorkState
  <2>2. /\ work[w].row.height = Depth[b] /\ tip.height = Depth[tip.hash]
        /\ work[w].row.height <= Limit
    BY DEF Onward, CalmInv, DataInv, TrueInv, LimitInv
  <2> QED
    BY <2>1, <2>2, RowType, ParameterAssumption
<1>3. phase = "run" /\ check.pc \notin {"settip", "forget"}
  BY <1>1, OneWriter DEF Onward
<1>4. /\ \A a \in recent : OnBranch(a, tip.hash)
      /\ \E n \in tip.height .. Limit : \A d \in 1 .. tip.height :
           d > n - RecentHashes => Branch[tip.hash][d] \in recent
  BY <1>3 DEF CacheInv
<1>5. Newest(s) \subseteq s /\ s \subseteq Block
  BY <1>2 DEF Newest
<1>6. OnBranch(b, b) /\ OnBranch(tip.hash, b)
      /\ (Depth[b] = tip.height + 1 \/ Depth[b] = 0)
  <2>1. CASE w = "genesis"
    <3>1. work[w].row = GenesisRow /\ tip = GenesisRow
      BY <1>1, <2>1 DEF Onward, CalmInv, DataInv, GenesisInv
    <3> QED
      BY <1>2, <3>1, OnBranchSelf, GenesisDepth DEF GenesisRow
  <2>2. CASE w # "genesis"
    <3>1. Parent[b] = tip.hash
      BY <1>1, <2>2 DEF Onward, CalmInv, DataInv, SaveInv
    <3> QED
      BY <1>2, <3>1, OnBranchSelf, OnBranchParent
  <2> QED
    BY <2>1, <2>2
<1>7. \A a \in s : OnBranch(a, b)
  BY <1>2, <1>4, <1>6, OnBranchTrans
<1>8. PICK n \in tip.height .. Limit : \A d \in 1 .. tip.height :
           d > n - RecentHashes => Branch[tip.hash][d] \in recent
  BY <1>4
<1> DEFINE m == IF n < Depth[b] THEN Depth[b] ELSE n
<1>9. n \in Nat /\ m \in Depth[b] .. Limit /\ m >= n /\ m >= Depth[b] /\ m \in Nat
  <2> HIDE DEF Limit
  <2> QED
    BY <1>2
<1>10. ASSUME NEW d \in 1 .. Depth[b], d > m - RecentHashes
       PROVE  Branch[b][d] \in recent'
  <2>1. d \in 0 .. Depth[b] /\ d > n - RecentHashes /\ d > Depth[b] - RecentHashes
        /\ d \in Nat
    BY <1>2, <1>9, <1>10
  <2>2. Branch[b][d] \in s
    <3>1. CASE d = Depth[b]
      BY <1>2, <3>1, <1>6 DEF OnBranch
    <3>2. CASE d # Depth[b]
      <4>1. d \in 1 .. tip.height /\ d \in 0 .. Depth[tip.hash]
            /\ Depth[tip.hash] \in 0 .. Depth[b]
        BY <1>2, <1>6, <1>10, <3>2
      <4>2. Branch[b][Depth[tip.hash]] = tip.hash
        BY <1>6 DEF OnBranch
      <4>3. Branch[tip.hash][d] = Branch[b][d]
        BY <1>2, <4>1, <4>2, BranchPrefix
      <4> QED
        BY <1>8, <2>1, <4>1, <4>3
    <3> QED
      BY <3>1, <3>2
  <2>3. Depth[Branch[b][d]] = d
    BY <1>2, <2>1, BranchBlock
  <2> QED
    BY <1>1, <1>2, <1>5, <1>7, <2>1, <2>2, <2>3, NewestKept
<1>11. m \in tip'.height .. Limit'
  <2> HIDE DEF Limit, m
  <2> QED
    BY <1>1, <1>2, <1>9
<1>12. \A d \in 1 .. tip'.height : d > m - RecentHashes => Branch[tip'.hash][d] \in recent'
  BY <1>1, <1>2, <1>10
<1>13. tip'.hash = b /\ b \in Block /\ \A a \in recent' : OnBranch(a, b)
  BY <1>1, <1>2, <1>5, <1>7
<1>14. phase' = "run"
  BY <1>1, <1>3
<1> QED
  BY <1>6, <1>11, <1>12, <1>13, <1>14 DEF CacheInv

\* _setTip, back to a block of the branch; _processReorg, which forgets the
\* hashes above it.
LEMMA CacheBack ==
  ASSUME Onward, TypeInv', CacheInv, Limit' \in Nat, Limit <= Limit',
         FindBlocksToRemove \/ ForgetHashes, phase' = phase
  PROVE  CacheInv'
<1>1. /\ tip \in Row /\ tip.hash \in Block /\ tip.height = Depth[tip.hash]
      /\ check.back \in Row /\ check.back.hash \in Block
      /\ check.back.height = Depth[check.back.hash]
      /\ tip.height \in Nat /\ check.back.height \in Nat /\ Limit \in Nat
      /\ recent \subseteq Block /\ phase = "run" /\ check \in CheckState
  <2>1. /\ tip \in Row /\ check.back \in Row /\ recent \subseteq Block /\ Limit \in Nat
        /\ check \in CheckState
    BY DEF Onward, TypeInv, TypeOK, CheckState
  <2>2. /\ tip.height = Depth[tip.hash]
        /\ check.back.height = Depth[check.back.hash]
    BY DEF Onward, CalmInv, DataInv, TrueInv
  <2>3. phase = "run"
    BY Drained DEF FindBlocksToRemove, ForgetHashes, Onward
  <2> QED
    BY <2>1, <2>2, <2>3, RowType
<1>2. PICK n \in tip.height .. Limit : \A d \in 1 .. tip.height :
           d > n - RecentHashes => Branch[tip.hash][d] \in recent
  BY <1>1 DEF CacheInv
<1>3. PICK e \in Block :
        /\ OnBranch(tip.hash, e)
        /\ check.pc \notin {"settip", "forget"} => e = tip.hash
        /\ \A b \in recent : OnBranch(b, e)
  BY DEF CacheInv
<1>4. CASE FindBlocksToRemove
  <2>1. /\ check.pc = "remove" /\ tip' = check.back /\ recent' = recent
        /\ check'.pc = "settip" /\ OnBranch(check.back.hash, tip.hash)
    <3>1. check.pc = "remove" /\ OnBranch(check.back.hash, tip.hash)
      BY <1>4 DEF FindBlocksToRemove, Onward, CalmInv, DataInv, UndoInv
    <3>2. phase' # "down"
      BY <1>1
    <3> QED
      BY <1>1, <1>4, <3>1, <3>2 DEF FindBlocksToRemove, Stop, CheckState
  <2>2. e = tip.hash
    BY <1>3, <2>1
  <2>3. n \in tip'.height .. Limit'
    <3>1. check.back.height <= tip.height
      BY <1>1, <2>1 DEF OnBranch
    <3> HIDE DEF Limit
    <3> QED
      BY <1>1, <1>2, <2>1, <3>1
  <2>4. ASSUME NEW d \in 1 .. tip'.height, d > n - RecentHashes
        PROVE  Branch[tip'.hash][d] \in recent'
    <3>1. Depth[check.back.hash] \in 0 .. Depth[tip.hash]
          /\ Branch[tip.hash][Depth[check.back.hash]] = check.back.hash
          /\ d \in 0 .. Depth[check.back.hash] /\ d \in 1 .. tip.height
      BY <1>1, <2>1, <2>4 DEF OnBranch
    <3>2. Branch[check.back.hash][d] = Branch[tip.hash][d]
      BY <1>1, <3>1, BranchPrefix
    <3> QED
      BY <1>2, <2>1, <2>4, <3>1, <3>2
  <2>5. tip.hash \in Block /\ OnBranch(tip'.hash, tip.hash)
        /\ check'.pc \in {"settip", "forget"}
        /\ \A b \in recent' : OnBranch(b, tip.hash)
    BY <1>1, <1>3, <2>1, <2>2
  <2> QED
    BY <1>1, <2>3, <2>4, <2>5 DEF CacheInv
<1>5. CASE ForgetHashes
  <2>1. /\ tip' = tip /\ recent' = {b \in recent : Depth[b] <= check.back.height}
        /\ check.pc = "forget" /\ tip = check.back
    <3>1. check.pc = "forget" /\ tip = check.back
      BY <1>5 DEF ForgetHashes, Onward, CalmInv, DataInv, UndoInv
    <3>2. phase' # "down"
      BY <1>1
    <3> QED
      BY <1>5, <3>1, <3>2 DEF ForgetHashes, Stop
  <2>2. \A b \in recent' : OnBranch(b, tip.hash)
    BY <1>1, <1>3, <2>1, OnBranchBetween
  <2>3. n \in tip'.height .. Limit'
    <3> HIDE DEF Limit
    <3> QED
      BY <1>1, <1>2, <2>1
  <2>4. ASSUME NEW d \in 1 .. tip'.height, d > n - RecentHashes
        PROVE  Branch[tip'.hash][d] \in recent'
    <3>1. d \in 0 .. Depth[tip.hash] /\ d \in 1 .. tip.height /\ d <= check.back.height
      BY <1>1, <2>1, <2>4
    <3>2. Depth[Branch[tip.hash][d]] = d
      BY <1>1, <3>1, BranchBlock
    <3> QED
      BY <1>2, <2>1, <2>4, <3>1, <3>2
  <2>5. OnBranch(tip'.hash, tip.hash)
    BY <1>1, <2>1, OnBranchSelf
  <2> QED
    BY <1>1, <2>1, <2>2, <2>3, <2>4, <2>5 DEF CacheInv
<1> QED
  BY <1>4, <1>5

\* Every step keeps the cache with the tip.
LEMMA CacheStep ==
  ASSUME Onward, CacheInv, Calm, TypeInv', CalmInv', BlockNext
  PROVE  CacheInv'
<1> USE DEF database, process, chain
<1>1. /\ Limit \in Nat /\ Limit' \in Nat /\ Limit <= Limit' /\ tip \in Row
      /\ TypeInv /\ CalmInv
  BY LimitGrows DEF Onward, TypeInv, TypeOK
<1>2. ASSUME NEW reason, Stop(reason)
      PROVE  CacheInv'
  BY <1>2, CacheEmpty DEF Stop, Boot
<1>3. ASSUME UNCHANGED <<tip, recent, phase>>,
             check.pc \in {"settip", "forget"} => check'.pc \in {"settip", "forget"}
      PROVE  CacheInv'
  BY <1>1, <1>3, CacheKept
<1>4. /\ check.pc \in {"settip", "forget"} =>
           \A c \in Call : call[c].pc # "save" /\ ~call[c].first
      /\ phase # "run" => check.pc = "none"
      /\ phase \in {"down", "header", "block", "destroy", "load"} => recent = {}
  BY <1>1, Drained DEF CacheInv, CalmInv, ProcessInv, StartInv, Fresh, NoCheck
<1>5. CASE Starting
  <2>1. CASE LoadRecentHashes
    BY <1>1, <2>1, CacheLoad
  <2>2. CASE DestroyAboveTip
    <3>1. /\ phase = "destroy" /\ phase' = "load" /\ tip' = storedTip
          /\ recent' = recent /\ recent = {}
      BY <1>4, <2>2 DEF DestroyAboveTip
    <3>2. storedTip.hash \in Block /\ OnBranch(storedTip.hash, storedTip.hash)
      BY <1>1, RowType, OnBranchSelf DEF TypeInv, TypeOK
    <3> QED
      BY <3>1, <3>2 DEF CacheInv
  <2>3. CASE StartHeader \/ HeaderReady \/ StartBlock
    <3>1. CASE \E reason : Stop(reason)
      BY <1>2, <3>1
    <3>2. CASE ~\E reason : Stop(reason)
      <4>1. /\ UNCHANGED <<tip, recent, check>> /\ check.pc = "none"
            /\ phase' \in {"down", "header", "block", "destroy", "load"}
            /\ phase \in {"down", "header", "block", "destroy", "load"}
        BY <1>4, <2>3, <3>2 DEF StartHeader, HeaderReady, StartBlock
      <4> QED
        BY <1>1, <1>4, <4>1, CacheKept
    <3> QED
      BY <3>1, <3>2
  <2>4. CASE RebuildHeaders
    BY <1>3, <2>4 DEF RebuildHeaders
  <2>5. CASE DestroyTransactions \/ StoreTransactionTip
    <3>1. /\ UNCHANGED <<tip, recent, check>> /\ check.pc = "none"
          /\ phase \in {"transaction", "store"} /\ phase' \in {"store", "run"}
      BY <1>4, <2>5 DEF DestroyTransactions, StoreTransactionTip
    <3> QED
      BY <1>1, <3>1, CacheKept
  <2> QED
    BY <1>5, <2>1, <2>2, <2>3, <2>4, <2>5 DEF Starting
<1>6. CASE HeaderService
  <2>1. UNCHANGED <<tip, recent, phase>>
    BY <1>6 DEF HeaderService, HeaderSyncs, HeaderCompletes, HeaderLooks, ReorgComplete
  <2>2. check.pc \in {"settip", "forget"} => check' = check
    BY <1>6 DEF HeaderService, HeaderSyncs, HeaderCompletes, HeaderLooks, ReorgComplete
  <2> QED
    BY <1>3, <2>1, <2>2
<1>7. CASE PeerAdopts \/ PeerReady \/ Crash
  BY <1>2, <1>3, <1>7 DEF PeerAdopts, PeerReady, Crash
<1>8. CASE Checking
  <2>1. CASE FindBlocksToRemove \/ ForgetHashes
    <3>1. CASE \E reason : Stop(reason)
      BY <1>2, <3>1
    <3>2. CASE ~\E reason : Stop(reason)
      <4>1. phase' = phase
        BY <2>1, <3>2 DEF FindBlocksToRemove, ForgetHashes
      <4> QED
        BY <1>1, <2>1, <4>1, CacheBack
    <3> QED
      BY <3>1, <3>2
  <2>2. CASE StoreCommonTip
    <3>1. UNCHANGED <<tip, recent, phase>> /\ check' = [check EXCEPT !.pc = "forget"]
      BY <2>2 DEF StoreCommonTip
    <3>2. check'.pc = "forget"
      BY <1>1, <3>1 DEF TypeInv, TypeOK, CheckState
    <3> QED
      BY <1>3, <3>1, <3>2
  <2>3. CASE \/ CheckIdle \/ CheckDrained \/ FindCommon \/ UndoTransactions
             \/ UndoBlocks \/ StartSync \/ GenesisSaved
    <3>1. CASE \E reason : Stop(reason)
      BY <1>2, <3>1
    <3>2. CASE ~\E reason : Stop(reason)
      <4>1. UNCHANGED <<tip, recent, phase>> /\ check.pc \notin {"settip", "forget"}
        BY <2>3, <3>2
        DEF CheckIdle, CheckDrained, FindCommon, UndoTransactions, UndoBlocks,
            StartSync, GenesisSaved
      <4> QED
        BY <1>3, <4>1
    <3> QED
      BY <3>1, <3>2
  <2> QED
    BY <1>8, <2>1, <2>2, <2>3 DEF Checking
<1>9. ASSUME NEW c \in Call, Syncing(c) \/ Timeout(c)
      PROVE  CacheInv'
  <2>1. CASE \E reason : Stop(reason)
    BY <1>2, <2>1
  <2>2. CASE ~\E reason : Stop(reason)
    <3>1. UNCHANGED <<tip, recent, phase>>
      BY <1>9, <2>2 DEF Syncing, AskHeaders, Timeout, BlockSynced
    <3>2. check.pc \in {"settip", "forget"} => check' = check
      BY <1>4, <1>9, <2>2 DEF Syncing, AskHeaders, Timeout, BlockSynced, Ended
    <3> QED
      BY <1>3, <3>1, <3>2
  <2> QED
    BY <2>1, <2>2
<1>10. ASSUME NEW w \in Worker, Writing(w)
       PROVE  CacheInv'
  <2>1. CASE SetTip(w)
    BY <1>1, <2>1, CacheTip
  <2>2. CASE ~SetTip(w)
    BY <1>2, <1>3, <1>10, <2>2
    DEF Writing, IndexTransactions, UpdateTransactionTip, FindHeader, CreateBlock,
        StoreTip
  <2> QED
    BY <2>1, <2>2
<1>11. CASE Following
  BY <1>3, <1>11 DEF Following, LookupBlock, ProcessBlock, BlockSaved, FinishBlock
<1>12. ASSUME NEW b \in Block, Deliver(b)
       PROVE  CacheInv'
  <2>1. UNCHANGED <<tip, recent, phase>>
    BY <1>12 DEF Deliver
  <2>2. check.pc \in {"settip", "forget"} => check' = check
    BY <1>4, <1>12 DEF Deliver
  <2> QED
    BY <1>3, <2>1, <2>2
<1> QED
  BY <1>5, <1>6, <1>7, <1>8, <1>9, <1>10, <1>11, <1>12 DEF BlockNext

-----------------------------------------------------------------------------
(* The common block.                                                       *)

\* A block deep enough to be out of the reach of a fork, or the genesis block,
\* is on the branch of the tip and in the header table, and every hash from
\* the tip down to it is cached.
LEMMA CommonFound ==
  ASSUME Onward, CacheInv, ShallowForks, check.pc = "common"
  PROVE  Common # {}
<1>1. /\ tip \in Row /\ tip.hash \in Block /\ tip.height = Depth[tip.hash]
      /\ tip.height \in Nat /\ RecentHashes \in Nat /\ phase = "run"
  <2>1. tip \in Row /\ tip.height = Depth[tip.hash] /\ phase = "run"
    BY Drained DEF Onward, TypeInv, TypeOK, CalmInv, DataInv, TrueInv
  <2> QED
    BY <2>1, RowType, ParameterAssumption
<1>2. top \in Block /\ Limit = Depth[top] /\ Depth[top] \in Nat
  BY DepthNat DEF Onward, CalmInv, FeedInv, StillInv, HeaderInv, Limit
<1>3. PICK n \in tip.height .. Depth[top] : \A d \in 1 .. tip.height :
           d > n - RecentHashes => Branch[tip.hash][d] \in recent
  BY <1>1, <1>2 DEF CacheInv
<1>4. SUFFICES ASSUME NEW h \in 0 .. tip.height,
                      h = tip.height \/ h >= Depth[top] - RecentHashes,
                      h = 0 \/ h <= Depth[top] - RecentHashes
               PROVE  Common # {}
  <2>1. CASE Depth[top] - RecentHashes < 0
    <3>1. 0 \in 0 .. tip.height /\ 0 >= Depth[top] - RecentHashes
      BY <1>1, <1>2, <2>1
    <3> QED
      BY <1>4, <3>1
  <2>2. CASE /\ Depth[top] - RecentHashes >= 0
             /\ Depth[top] - RecentHashes <= tip.height
    <3>1. Depth[top] - RecentHashes \in 0 .. tip.height
          /\ Depth[top] - RecentHashes >= Depth[top] - RecentHashes
          /\ Depth[top] - RecentHashes <= Depth[top] - RecentHashes
      BY <1>1, <1>2, <2>2
    <3> QED
      BY <1>4, <3>1
  <2>3. CASE Depth[top] - RecentHashes > tip.height
    <3>1. tip.height \in 0 .. tip.height /\ tip.height <= Depth[top] - RecentHashes
      BY <1>1, <1>2, <2>3
    <3> QED
      BY <1>4, <3>1
  <2> QED
    BY <1>1, <1>2, <2>1, <2>2, <2>3
<1> DEFINE b == Branch[tip.hash][h]
<1>5. /\ b \in Block /\ Depth[b] = h /\ OnBranch(b, tip.hash)
      /\ h \in 0 .. Depth[tip.hash] /\ h \in Nat
  <2>1. h \in 0 .. Depth[tip.hash] /\ h <= Depth[tip.hash] /\ h \in Nat
    BY <1>1
  <2>2. b \in Block /\ Depth[b] = h
    BY <1>1, <2>1, BranchBlock
  <2> QED
    BY <2>1, <2>2 DEF OnBranch
<1>6. b \in Tried
  <2> SUFFICES ASSUME NEW d \in Depth[b] + 1 .. Depth[tip.hash]
               PROVE  Branch[tip.hash][d] \in recent
    BY <1>5 DEF Tried
  <2>1. d \in 1 .. tip.height /\ d > h
    BY <1>1, <1>5
  <2>2. h >= Depth[top] - RecentHashes /\ n <= Depth[top]
    BY <1>1, <1>2, <1>4, <2>1
  <2>3. d > n - RecentHashes
    BY <1>1, <1>2, <1>3, <1>5, <2>1, <2>2
  <2> QED
    BY <1>3, <2>1, <2>3
<1>7. Held(b)
  <2>1. CASE h = 0
    <3>1. b = Genesis
      BY <1>5, <2>1, GenesisOnly
    <3> QED
      BY <1>2, <3>1, OnBranchSelf DEF Held
  <2>2. CASE h <= Depth[top] - RecentHashes
    <3>1. Depth[tip.hash] <= Depth[top]
      BY <1>1, <1>2, <1>3
    <3>2. Branch[top][h] = Branch[tip.hash][h]
      BY <1>1, <1>2, <1>5, <2>2, <3>1 DEF ShallowForks
    <3>3. h <= Depth[top]
      BY <1>1, <1>2, <1>5, <3>1
    <3> QED
      BY <1>2, <1>5, <3>2, <3>3 DEF Held, OnBranch
  <2> QED
    BY <1>4, <2>1, <2>2
<1> QED
  BY <1>6, <1>7 DEF Common

\* So the search never ends the process.
LEMMA FaultStep ==
  ASSUME fault # "unlocated", check.pc = "common" => Common # {}, BlockNext
  PROVE  fault' # "unlocated"
<1> USE DEF Stop, process
<1>1. CASE Starting
  BY <1>1
  DEF Starting, StartHeader, RebuildHeaders, HeaderReady, StartBlock,
      DestroyAboveTip, LoadRecentHashes, DestroyTransactions, StoreTransactionTip
<1>2. CASE HeaderService \/ PeerAdopts \/ PeerReady \/ Crash
  BY <1>2
  DEF HeaderService, HeaderSyncs, HeaderCompletes, HeaderLooks, ReorgComplete,
      PeerAdopts, PeerReady, Crash
<1>3. CASE Checking
  BY <1>3
  DEF Checking, CheckIdle, CheckDrained, FindCommon, FindBlocksToRemove,
      StoreCommonTip, ForgetHashes, UndoTransactions, UndoBlocks, StartSync,
      GenesisSaved
<1>4. ASSUME NEW c \in Call, Syncing(c) \/ Timeout(c)
      PROVE  fault' # "unlocated"
  BY <1>4 DEF Syncing, AskHeaders, Timeout, BlockSynced
<1>5. ASSUME NEW w \in Worker, Writing(w)
      PROVE  fault' # "unlocated"
  BY <1>5
  DEF Writing, IndexTransactions, UpdateTransactionTip, FindHeader, CreateBlock,
      SetTip, StoreTip
<1>6. CASE Following \/ \E b \in Block : Deliver(b)
  BY <1>6 DEF Following, LookupBlock, ProcessBlock, BlockSaved, FinishBlock, Deliver
<1> QED
  BY <1>1, <1>2, <1>3, <1>4, <1>5, <1>6 DEF BlockNext

-----------------------------------------------------------------------------
(* The invariant, and what it means.                                       *)

LEMMA LocateInit == BlockInit /\ TypeInv => LocateInv
<1> SUFFICES ASSUME BlockInit, TypeInv PROVE LocateInv
  OBVIOUS
<1>1. /\ storedTip = GenesisRow /\ tip = GenesisRow /\ recent = {} /\ fault = "none"
      /\ check.pc = "none" /\ phase = "down" /\ running = NoBlock /\ waiting = <<>>
      /\ \A w \in Worker : work[w].row = GenesisRow
      /\ \A c \in Call : call[c].pc = "none"
  BY DEF BlockInit, NoCheck, NoWork, NoCall, Queue!Init
<1>2. GenesisRow.height = 0 /\ GenesisRow.hash = Genesis /\ Limit \in Nat
      /\ Len(waiting) = 0
  BY <1>1, DepthNat DEF GenesisRow, Limit, TypeInv, TypeOK
<1>3. \A i \in 1 .. Len(waiting) : Depth[waiting[i]] <= Limit
  BY <1>2
<1>4. LimitInv
  BY <1>1, <1>2, <1>3 DEF LimitInv
<1>5. CacheInv
  BY <1>1, <1>2, OnBranchSelf, TreeAssumption DEF CacheInv
<1> QED
  BY <1>1, <1>4, <1>5 DEF LocateInv

LEMMA LocateStep ==
  ASSUME Calm, ShallowForks
  PROVE  TypeInv /\ CalmInv /\ LocateInv /\ TypeInv' /\ CalmInv' /\ [BlockNext]_vars
         => LocateInv'
<1> SUFFICES ASSUME TypeInv, CalmInv, LocateInv, TypeInv', CalmInv', [BlockNext]_vars
             PROVE  LocateInv'
  OBVIOUS
<1>1. CASE BlockNext
  <2>1. Onward
    BY <1>1, LimitGrows DEF Onward, LocateInv
  <2>2. LimitInv'
    BY <1>1, <2>1, LimitStep
  <2>3. CacheInv'
    BY <1>1, <2>1, CacheStep DEF LocateInv
  <2>4. fault' # "unlocated"
    BY <1>1, <2>1, CommonFound, FaultStep DEF LocateInv
  <2> QED
    BY <2>2, <2>3, <2>4 DEF LocateInv
<1>2. CASE UNCHANGED vars
  BY <1>2
  DEF LocateInv, LimitInv, CacheInv, Limit, vars, header, database, process, chain,
      flags, listeners, queue, others, network, counters
<1> QED
  BY <1>1, <1>2

\* A row above the tip is in no table: what is refused is of the genesis block.
LEMMA RefusedGenesis ==
  ASSUME TypeInv, CalmInv, NEW w \in Worker,
         \/ work[w].pc = "index" /\ Duplicate(txs, work[w].row)
         \/ work[w].pc = "create" /\ Duplicate(blocks, RowOf(work[w].row.hash))
  PROVE  storedTip = GenesisRow
<1>1. CASE w = "genesis"
  BY <1>1 DEF CalmInv, DataInv, GenesisInv
<1>2. CASE w # "genesis"
  <2> DEFINE b == work[w].row.hash
  <2>1. /\ work \in [Worker -> WorkState] /\ TrueInv /\ tip \in Row
        /\ Parent[b] = tip.hash
        /\ work[w].pc = "index" => txs = RowsOf(tip.hash)
        /\ work[w].pc = "create" => blocks = RowsOf(tip.hash)
    BY <1>2 DEF TypeInv, TypeOK, CalmInv, DataInv, SaveInv
  <2>2. work[w].row \in Row /\ work[w].row.height = Depth[b]
    BY <2>1 DEF WorkState, TrueInv
  <2>3. b \in Block /\ tip.hash \in Block
    BY <2>1, <2>2, RowType
  <2>4. \A r \in RowsOf(tip.hash) : r.height # Depth[b] /\ r.hash # b
    BY <2>1, <2>3, RowsOfChild
  <2>5. RowOf(b).height = Depth[b] /\ RowOf(b).hash = b
    BY DEF RowOf
  <2> QED
    BY <2>1, <2>2, <2>4, <2>5 DEF Duplicate
<1> QED
  BY <1>1, <1>2

\* Where an insertion has been refused, the stored tip stays until the next start.
RefusedInv == fault = "duplicate" => phase = "down" /\ storedTip = GenesisRow

LEMMA RefusedStep ==
  ASSUME TypeInv, CalmInv, Calm, RefusedInv, BlockNext
  PROVE  RefusedInv'
<1> USE DEF Stop, process, database, RefusedInv
<1>1. CASE Starting
  BY <1>1
  DEF Starting, StartHeader, RebuildHeaders, HeaderReady, StartBlock,
      DestroyAboveTip, LoadRecentHashes, DestroyTransactions, StoreTransactionTip
<1>2. CASE HeaderService \/ PeerAdopts \/ PeerReady \/ Crash
  BY <1>2
  DEF HeaderService, HeaderSyncs, HeaderCompletes, HeaderLooks, ReorgComplete,
      PeerAdopts, PeerReady, Crash
<1>3. CASE Checking
  <2>1. CASE StoreCommonTip
    <3>1. phase = "run"
      BY <2>1, Drained DEF StoreCommonTip
    <3> QED
      BY <2>1, <3>1 DEF StoreCommonTip
  <2>2. CASE ~StoreCommonTip
    BY <1>3, <2>2
    DEF Checking, CheckIdle, CheckDrained, FindCommon, FindBlocksToRemove,
        ForgetHashes, UndoTransactions, UndoBlocks, StartSync, GenesisSaved
  <2> QED
    BY <2>1, <2>2
<1>4. ASSUME NEW c \in Call, Syncing(c) \/ Timeout(c)
      PROVE  RefusedInv'
  BY <1>4 DEF Syncing, AskHeaders, Timeout, BlockSynced
<1>5. ASSUME NEW w \in Worker, Writing(w)
      PROVE  RefusedInv'
  <2>1. phase = "run"
    BY <1>5, OneWriter
    DEF Writing, IndexTransactions, UpdateTransactionTip, FindHeader, CreateBlock,
        SetTip, StoreTip
  <2>2. CASE IndexTransactions(w)
    BY <2>1, <2>2, RefusedGenesis DEF IndexTransactions
  <2>3. CASE CreateBlock(w)
    BY <2>1, <2>3, RefusedGenesis DEF CreateBlock
  <2>4. CASE ~IndexTransactions(w) /\ ~CreateBlock(w)
    BY <1>5, <2>1, <2>4 DEF Writing, UpdateTransactionTip, FindHeader, SetTip, StoreTip
  <2> QED
    BY <2>2, <2>3, <2>4
<1>6. CASE Following \/ \E b \in Block : Deliver(b)
  BY <1>6 DEF Following, LookupBlock, ProcessBlock, BlockSaved, FinishBlock, Deliver
<1> QED
  BY <1>1, <1>2, <1>3, <1>4, <1>5, <1>6 DEF BlockNext

\* onHeaders() always finds a common block; a start finds the block of its tip, a
\* reorganization the blocks it removes and the header it goes back to, a sync a
\* header service that is ahead of it, and a save the transactions of its block;
\* and only the genesis block is ever inserted twice, before block 1 is committed
\* (onHeaders, getEndHash, start, _saveBlock and _startSync).  A block that
\* _startSync awaits and that does not come is not excluded.
THEOREM NoSelfMadeStopTheorem ==
  ASSUME Calm, ShallowForks
  PROVE  BlockSpec => []NoSelfMadeStop
<1>1. BlockInit => TypeInv /\ RefusedInv
  BY TypeInit DEF BlockInit, RefusedInv
<1>2. CalmInv /\ LocateInv /\ RefusedInv => NoSelfMadeStop
  BY DEF CalmInv, FaultInv, LocateInv, RefusedInv, NoSelfMadeStop
<1>3. TypeInv /\ CalmInv /\ RefusedInv /\ [BlockNext]_vars => RefusedInv'
  BY RefusedStep DEF vars, process, database, RefusedInv
<1> QED
  BY <1>1, <1>2, <1>3, BlockCalm, LocateInit, LocateStep, PTL DEF BlockSpec
=============================================================================
