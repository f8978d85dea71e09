------------------------ MODULE HeaderService_proofs ------------------------
(***************************************************************************)
(* Theorems about HeaderService for every tree of blocks and every Rewind  *)
(* and MaxHeaders.  Whatever the peers do, the heights are true.  If       *)
(* blocks only arrive between the rounds of a sync and a single peer       *)
(* announces its height, the header table is always one whole branch, a    *)
(* restart always finds its checkpoint, and the service implements         *)
(* HeaderChain; and HeaderFeed, the header service as the block service    *)
(* sees it.                                                                *)
(***************************************************************************)
EXTENDS HeaderInvariant, BlockTree_proofs

\* The queue and the handler it runs agree on whether a block is running.
LiveBlock == live.pc # "none" <=> running \in Block

TypeInv == TypeOK /\ LiveBlock

-----------------------------------------------------------------------------
(* Lemmas about the helpers.                                               *)

\* Taking an entry from the end of a queue that is not empty leaves a queue.
LEMMA ProcessType ==
  ASSUME NEW s \in Seq(Block), s # <<>>
  PROVE  Queue!Last(s) \in Block /\ Queue!Front(s) \in Seq(Block)
  BY DEF Queue!Last, Queue!Front

\* An appended queue is not empty.
LEMMA AppendType ==
  ASSUME NEW s \in Seq(Block), NEW b \in Block
  PROVE  Append(s, b) \in Seq(Block) /\ Append(s, b) # <<>>
<1>1. Append(s, b) \in Seq(Block) /\ Len(Append(s, b)) = Len(s) + 1
  OBVIOUS
<1>2. Len(s) + 1 # 0
  OBVIOUS
<1> QED
  BY <1>1, <1>2

\* A peer answers with blocks of consecutive heights, the last of which has
\* the others on its branch.
LEMMA AnswerType ==
  ASSUME NEW p \in Block, peerTip = p, NEW locator \in Block
  PROVE  /\ Answer(locator) \in Seq(Block)
         /\ Len(Answer(locator)) <= MaxHeaders
         /\ \E base \in Nat :
              /\ base + Len(Answer(locator)) <= Depth[p]
              /\ \A i \in 1 .. Len(Answer(locator)) :
                   Answer(locator)[i] = Branch[p][base + i]
<1> DEFINE base == IF OnBranch(locator, peerTip) THEN Depth[locator] ELSE 0
           left == Depth[peerTip] - base
           n    == IF left <= MaxHeaders THEN left ELSE MaxHeaders
<1>1. base \in Nat /\ base <= Depth[p]
  BY TreeAssumption DEF OnBranch
<1>2. n \in Nat /\ n <= MaxHeaders /\ base + n <= Depth[p]
  BY <1>1, TreeAssumption, ParameterAssumption
<1>3. Answer(locator) = [i \in 1 .. n |-> Branch[peerTip][base + i]]
  BY DEF Answer
<1>4. \A i \in 1 .. n : Branch[peerTip][base + i] \in Block
  <2> HIDE DEF base, n
  <2> TAKE i \in 1 .. n
  <2>1. base + i \in 0 .. Depth[p]
    BY <1>1, <1>2, TreeAssumption
  <2> QED
    BY <2>1, BranchAssumption
<1> HIDE DEF base, n
<1>5. Answer(locator) \in Seq(Block) /\ Len(Answer(locator)) = n
  BY <1>2, <1>3, <1>4
<1> QED
  BY <1>1, <1>2, <1>3, <1>5

LEMMA CheckpointType ==
  ASSUME NEW t \in Row
  PROVE  Checkpoint(t) \in Row
  BY TreeAssumption, ParameterAssumption DEF Checkpoint, Row, GenesisRow

\* The records of no round and no call are of their types.
LEMMA IdleType == NoRound \in RoundState /\ NoCall \in LiveState
<1>1. GenesisRow \in Row
  BY TreeAssumption DEF GenesisRow, Row
<1> QED
  BY <1>1 DEF NoRound, NoCall, RoundState, LiveState

\* A stopped process has the variables of one that starts.
LEMMA BootType ==
  ASSUME Boot
  PROVE  /\ tip' \in Row /\ lastHeader' \in Row
         /\ originalHeight' \in Nat /\ bestHeight' \in Nat
         /\ initialSync' \in BOOLEAN /\ reorging' \in BOOLEAN
         /\ lastCount' \in Nat /\ subs' \subseteq {"headers", "block"}
         /\ polls' \in Nat /\ round' \in [Round -> RoundState]
         /\ notifying' \in Nat /\ waiting' \in Seq(Block)
         /\ running' \in Block \cup {NoBlock} /\ live' \in LiveState
         /\ connected' \in BOOLEAN /\ inbox' \in Seq(Block)
         /\ LiveBlock'
<1> USE DEF Boot
<1>1. GenesisRow \in Row
  BY TreeAssumption DEF GenesisRow, Row
<1>2. round' \in [Round -> RoundState] /\ live' \in LiveState
  BY IdleType
<1>3. LiveBlock'
  BY TreeAssumption DEF LiveBlock, NoCall
<1>4. waiting' \in Seq(Block) /\ inbox' \in Seq(Block)
  OBVIOUS
<1>5. lastCount' \in Nat
  BY ParameterAssumption
<1> QED
  BY <1>1, <1>2, <1>3, <1>4, <1>5

-----------------------------------------------------------------------------
(* Type correctness.                                                       *)

\* A stop keeps the types when it leaves the database and the peer alone.
LEMMA StopType ==
  ASSUME TypeInv,
         NEW reason \in {"genesis", "missing", "rewound", "needed", "order",
                         "duplicate", "crash"},
         Stop(reason),
         UNCHANGED <<database, peerTip>>,
         crashes' \in Nat,
         UNCHANGED <<reconnects, others, served>>
  PROVE  TypeInv'
<1>1. Boot
  BY DEF Stop
<1>2. phase' = "down" /\ fault' = reason
  BY DEF Stop
<1> QED
  BY <1>1, <1>2, BootType DEF TypeInv, TypeOK, database

\* Every action of the start keeps the types.
LEMMA StartingType ==
  ASSUME TypeInv, Starting
  PROVE  TypeInv'
<1> USE DEF TypeInv, TypeOK, LiveBlock, database, heights, control, queue,
            network, counters
<1>1. CASE Start
  <2> DEFINE back == Checkpoint(storedTip)
  <2>1. back \in Row
    BY CheckpointType
  <2>2. CASE back.height = 0 /\ back.hash # Genesis
    BY <1>1, <2>2, StopType DEF Start
  <2>3. CASE ~(back.height = 0 /\ back.hash # Genesis)
    BY <1>1, <2>1, <2>3 DEF Start, Row
  <2> QED
    BY <2>2, <2>3
<1>2. CASE TruncateHeaders
  BY <1>2 DEF TruncateHeaders
<1>3. CASE CreateGenesis
  BY <1>3, TreeAssumption DEF CreateGenesis, GenesisRow, Row
<1>4. CASE DestroyAboveTip
  BY <1>4 DEF DestroyAboveTip
<1>5. CASE FindCheckpoint
  <2>1. CASE \E r \in rows : r.height = tip.height
    BY <1>5, <2>1 DEF FindCheckpoint
  <2>2. CASE ~ \E r \in rows : r.height = tip.height
    BY <1>5, <2>2, StopType DEF FindCheckpoint
  <2> QED
    BY <2>1, <2>2
<1> QED
  BY <1>1, <1>2, <1>3, <1>4, <1>5 DEF Starting

\* The end of a sync keeps the types of what it sets.
LEMMA SyncCompleteType ==
  ASSUME notifying \in Nat, SyncComplete
  PROVE  /\ subs' \subseteq {"headers", "block"}
         /\ initialSync' \in BOOLEAN
         /\ notifying' \in Nat
<1>1. notifying' \in Nat
  <2>1. CASE initialSync
    <3>1. notifying' = notifying + 1
      BY <2>1 DEF SyncComplete
    <3> QED
      BY <3>1
  <2>2. CASE ~initialSync
    BY <2>2 DEF SyncComplete
  <2> QED
    BY <2>1, <2>2
<1>2. subs' \subseteq {"headers", "block"} /\ initialSync' \in BOOLEAN
  BY DEF SyncComplete
<1> QED
  BY <1>1, <1>2

\* So does every step of a round of headers.
LEMMA RoundType ==
  ASSUME TypeInv, NEW r \in Round, PeerAnswers(r) \/ Syncing(r)
  PROVE  TypeInv'
<1> USE DEF TypeInv, TypeOK, LiveBlock, database, process, heights, control,
            queue, network, counters
<1>0. round[r] \in RoundState /\ NoRound \in RoundState
  BY IdleType
<1>1. CASE PeerAnswers(r)
  <2>1. round[r].from.hash \in Block /\ GenesisRow \in Row
    BY <1>0, TreeAssumption DEF RoundState, Row, GenesisRow
  <2>2. Answer(round[r].from.hash) \in Seq(Block)
    BY <2>1, AnswerType
  <2>3. round' \in [Round -> RoundState]
    BY <1>1, <2>1, <2>2 DEF PeerAnswers, RoundState
  <2> QED
    BY <1>1, <2>3 DEF PeerAnswers
<1>2. CASE HeadersIgnored(r)
  BY <1>0, <1>2 DEF HeadersIgnored
<1>3. CASE OnNoHeaders(r)
  <2>1. [NoRound EXCEPT !.pc = "store", !.tip = tip] \in RoundState
    BY <1>0 DEF RoundState
  <2>2. round' \in [Round -> RoundState] /\ lastCount' \in Nat
    BY <1>3, <2>1 DEF OnNoHeaders
  <2>3. SyncComplete
    BY <1>3 DEF OnNoHeaders
  <2> QED
    BY <1>3, <2>2, <2>3, SyncCompleteType DEF OnNoHeaders
<1>4. CASE OnHeaders(r)
  <2> DEFINE batch == round[r].batch
             last == [height |-> lastHeader.height + Len(batch),
                      hash |-> batch[Len(batch)]]
  <2>1. CASE InOrder(batch)
    <3>1. batch \in Seq(Block) /\ batch # <<>>
      BY <1>0, <1>4 DEF OnHeaders, RoundState
    <3>2. last \in Row /\ Len(batch) \in Nat
      BY <3>1 DEF Row
    <3>3. round' \in [Round -> RoundState]
      <4>1. round' = [round EXCEPT ![r].pc = "insert", ![r].from = lastHeader]
        BY <1>4, <2>1 DEF OnHeaders
      <4> QED
        BY <1>0, <4>1 DEF RoundState
    <3> QED
      BY <1>4, <2>1, <3>2, <3>3 DEF OnHeaders
  <2>2. CASE ~InOrder(batch)
    BY <1>4, <2>2, StopType DEF OnHeaders
  <2> QED
    BY <2>1, <2>2
<1>5. CASE InsertHeaders(r)
  <2> DEFINE new == NewRows(round[r].from, round[r].batch)
  <2>1. CASE ~Duplicate(new)
    <3>1. new \subseteq Row
      BY <1>0 DEF NewRows, Row, RoundState
    <3>2. [NoRound EXCEPT !.pc = "inserted"] \in RoundState
      BY <1>0 DEF RoundState
    <3> QED
      BY <1>5, <2>1, <3>1, <3>2 DEF InsertHeaders
  <2>2. CASE Duplicate(new)
    BY <1>5, <2>2, StopType DEF InsertHeaders
  <2> QED
    BY <2>1, <2>2
<1>6. CASE UpdateTip(r)
  <2>1. round' \in [Round -> RoundState]
    BY <1>0, <1>6 DEF UpdateTip, RoundState
  <2> QED
    BY <1>6, <2>1 DEF UpdateTip
<1>7. CASE StoreTip(r)
  <2>1. [NoRound EXCEPT !.pc = "stored"] \in RoundState
    BY <1>0 DEF RoundState
  <2> QED
    BY <1>0, <1>7, <2>1 DEF StoreTip, RoundState
<1>8. CASE OnHeadersSave(r)
  <2>1. [NoRound EXCEPT !.pc = "asked", !.from = tip] \in RoundState
    BY <1>0 DEF RoundState
  <2>2. round' \in [Round -> RoundState]
    BY <1>0, <1>8, <2>1 DEF OnHeadersSave, Sync
  <2>3. CASE Sync(r) /\ UNCHANGED <<initialSync, notifying>>
    <3>1. subs' \subseteq {"headers", "block"}
      BY <2>3 DEF Sync
    <3> QED
      BY <1>8, <2>2, <2>3, <3>1 DEF OnHeadersSave
  <2>4. CASE SyncComplete
    BY <1>8, <2>2, <2>4, SyncCompleteType DEF OnHeadersSave
  <2> QED
    BY <1>8, <2>3, <2>4 DEF OnHeadersSave
<1> QED
  BY <1>1, <1>2, <1>3, <1>4, <1>5, <1>6, <1>7, <1>8 DEF Syncing

\* So does the beginning of a sync, and its end.
LEMMA SyncType ==
  ASSUME TypeInv, Poll \/ ServicesNotified
  PROVE  TypeInv'
<1> USE DEF TypeInv, TypeOK, LiveBlock, database, process, heights, control,
            queue, network, counters
<1> DEFINE needed == Larger(bestHeight, originalHeight) - tip.height
<1>4. needed \in Int
  BY DEF Row, Larger
<1>1. CASE Poll /\ needed >= 0
  <2>1. [NoRound EXCEPT !.pc = "asked", !.from = tip] \in RoundState
    BY IdleType DEF RoundState
  <2>2. round' \in [Round -> RoundState]
    <3>1. CASE \E r \in Round : Sync(r)
      BY <2>1, <3>1 DEF Sync
    <3>2. CASE UNCHANGED round
      BY <3>2
    <3> QED
      BY <1>1, <1>4, <3>1, <3>2 DEF Poll
  <2>3. polls' \in Nat
    BY <1>1, <1>4 DEF Poll
  <2>4. subs' \subseteq {"headers", "block"}
    BY <1>1, <1>4 DEF Poll, Sync
  <2>5. UNCHANGED <<database, process, heights, bestHeight, initialSync,
                    reorging, lastCount, notifying, queue, network, counters>>
    <3> HIDE DEF needed
    <3> QED
      BY <1>1, <1>4 DEF Poll, needed
  <2> QED
    BY <2>2, <2>3, <2>4, <2>5
<1>2. CASE Poll /\ needed < 0
  <2> HIDE DEF needed
  <2>1. needed \in Int
    BY DEF Row, Larger, needed
  <2>2. Stop("needed") /\ UNCHANGED <<database, peerTip, counters>>
    BY <1>2, <2>1 DEF Poll, needed
  <2> QED
    BY <2>2, StopType
<1>3. CASE ServicesNotified
  <2>1. notifying' \in Nat
    BY <1>3 DEF ServicesNotified
  <2>2. reorging' \in BOOLEAN
    BY <1>3 DEF ServicesNotified
  <2> QED
    BY <1>3, <2>1, <2>2 DEF ServicesNotified
<1> QED
  BY <1>1, <1>2, <1>3, <1>4

\* So does every step of the handling of a block.
LEMMA QueueType ==
  ASSUME TypeInv, NEW b \in Block, Queue!Push(b),
         live' = IF running = NoBlock THEN Entry ELSE live
  PROVE  /\ waiting' \in Seq(Block)
         /\ running' \in Block
         /\ live' \in LiveState
         /\ LiveBlock'
<1> USE DEF TypeInv, TypeOK, LiveBlock
<1>1. Append(waiting, b) \in Seq(Block) /\ Append(waiting, b) # <<>>
  BY AppendType
<1>2. Entry \in LiveState /\ Entry.pc # "none"
  BY IdleType DEF Entry, LiveState
<1>3. CASE running = NoBlock
  BY <1>1, <1>2, <1>3, ProcessType DEF Queue!Push, Queue!Process
<1>4. CASE running # NoBlock
  BY <1>1, <1>4 DEF Queue!Push
<1> QED
  BY <1>3, <1>4

LEMMA ResolveType ==
  ASSUME TypeInv, Queue!Resolve,
         live' = IF waiting = <<>> THEN NoCall ELSE Entry
  PROVE  /\ waiting' \in Seq(Block)
         /\ running' \in Block \cup {NoBlock}
         /\ live' \in LiveState
         /\ LiveBlock'
<1> USE DEF TypeInv, TypeOK, LiveBlock
<1>2. Entry \in LiveState /\ Entry.pc # "none"
  BY IdleType DEF Entry, LiveState
<1>3. CASE waiting = <<>>
  BY <1>3, IdleType, TreeAssumption DEF Queue!Resolve, NoCall
<1>4. CASE waiting # <<>>
  BY <1>2, <1>4, ProcessType DEF Queue!Resolve, Queue!Process
<1> QED
  BY <1>3, <1>4

LEMMA FollowingType ==
  ASSUME TypeInv, DeliverBlock \/ Following
  PROVE  TypeInv'
<1> USE DEF TypeInv, TypeOK, LiveBlock, database, process, heights, control,
            queue, network, counters
<1>0. live \in LiveState /\ NoCall \in LiveState
  BY IdleType
<1>1. CASE DeliverBlock
  <2>1. Head(inbox) \in Block /\ Tail(inbox) \in Seq(Block)
    BY <1>1 DEF DeliverBlock
  <2>2. CASE UNCHANGED queue
    BY <1>1, <2>1, <2>2 DEF DeliverBlock
  <2>3. CASE /\ Queue!Push(Head(inbox))
             /\ live' = IF running = NoBlock THEN Entry ELSE live
    BY <1>1, <2>1, <2>3, QueueType DEF DeliverBlock
  <2> QED
    BY <1>1, <2>2, <2>3 DEF DeliverBlock
<1>2. CASE LookupBlock
  BY <1>0, <1>2 DEF LookupBlock, LiveState
<1>3. CASE ExtendHeader
  <2>1. [height |-> lastHeader.height + 1, hash |-> running] \in Row
    BY <1>3 DEF ExtendHeader, Row
  <2> QED
    BY <1>0, <1>3, <2>1 DEF ExtendHeader, LiveState
<1>4. CASE DetectReorg
  <2>1. Checkpoint(tip) \in Row /\ tip.height \in Nat
    BY CheckpointType DEF Row
  <2> QED
    BY <1>0, <1>4, <2>1 DEF DetectReorg, LiveState
<1>5. CASE SaveHeader
  <2>1. CASE ~Duplicate({live.row})
    BY <1>0, <1>5, <2>1 DEF SaveHeader, LiveState
  <2>2. CASE Duplicate({live.row})
    BY <1>5, <2>2, StopType DEF SaveHeader
  <2> QED
    BY <2>1, <2>2
<1>6. CASE UpdateLiveTip
  BY <1>0, <1>6 DEF UpdateLiveTip, LiveState
<1>7. CASE StoreLiveTip
  BY <1>0, <1>7 DEF StoreLiveTip, LiveState
<1>8. CASE DestroyHeaders
  BY <1>0, <1>8 DEF DestroyHeaders, LiveState
<1>9. CASE FindHeader
  <2>1. CASE \E r \in rows : r.height = tip.height
    <3>1. StartSync /\ live' \in LiveState /\ LiveBlock'
      BY <1>0, <1>9, <2>1 DEF FindHeader, LiveState
    <3>2. polls' \in Nat /\ subs' \subseteq {"headers", "block"}
      BY <3>1 DEF StartSync
    <3>3. initialSync' \in BOOLEAN
      BY <3>1 DEF StartSync
    <3>4. tip' \in Row /\ lastHeader' \in Row
      BY <1>9, <2>1 DEF FindHeader
    <3> QED
      BY <1>9, <2>1, <3>1, <3>2, <3>3, <3>4 DEF FindHeader
  <2>2. CASE ~ \E r \in rows : r.height = tip.height
    BY <1>9, <2>2, StopType DEF FindHeader
  <2> QED
    BY <2>1, <2>2
<1>10. CASE FinishBlock
  BY <1>10, ResolveType DEF FinishBlock
<1> QED
  BY <1>1, <1>2, <1>3, <1>4, <1>5, <1>6, <1>7, <1>8, <1>9, <1>10 DEF Following

\* So does what the peer and the machine do.
LEMMA EnvironmentType ==
  ASSUME TypeInv, Environment
  PROVE  TypeInv'
<1> USE DEF TypeInv, TypeOK, LiveBlock, database, process, heights, control,
            queue, network, counters
<1>1. CASE PeerReady
  BY <1>1, TreeAssumption DEF PeerReady, StartSync
<1>2. CASE Reconnect
  <2>1. round' \in [Round -> RoundState]
    BY <1>2, IdleType DEF Reconnect
  <2> QED
    BY <1>2, <2>1, TreeAssumption DEF Reconnect, StartSync
<1>3. CASE OtherPeerReady
  BY <1>3, TreeAssumption DEF OtherPeerReady, StartSync, Larger
<1>4. CASE PeerAdopts
  BY <1>4, AppendType DEF PeerAdopts
<1>5. CASE PeerServes
  <2>1. \A d \in 0 .. Depth[peerTip] : Branch[peerTip][d] \in Block
    BY BranchAssumption
  <2> QED
    BY <1>5, <2>1, AppendType DEF PeerServes
<1>6. CASE Crash
  BY <1>6, StopType DEF Crash
<1> QED
  BY <1>1, <1>2, <1>3, <1>4, <1>5, <1>6 DEF Environment

LEMMA TypeInit == Init => TypeInv
<1> SUFFICES ASSUME Init PROVE TypeInv
  OBVIOUS
<1> USE DEF Init
<1>1. GenesisRow \in Row
  BY TreeAssumption DEF GenesisRow, Row
<1>2. round \in [Round -> RoundState] /\ live \in LiveState
  BY IdleType
<1>3. /\ waiting \in Seq(Block) /\ inbox \in Seq(Block)
      /\ running \in Block \cup {NoBlock}
  BY DEF Queue!Init
<1>4. LiveBlock
  BY TreeAssumption DEF LiveBlock, NoCall, Queue!Init
<1>5. lastCount \in Nat
  BY ParameterAssumption
<1> QED
  BY <1>1, <1>2, <1>3, <1>4, <1>5 DEF TypeInv, TypeOK

LEMMA TypeStep == TypeInv /\ [Next]_vars => TypeInv'
<1> SUFFICES ASSUME TypeInv, [Next]_vars PROVE TypeInv'
  OBVIOUS
<1>1. CASE Next
  BY <1>1, StartingType, SyncType, RoundType, FollowingType, EnvironmentType
  DEF Next
<1>2. CASE UNCHANGED vars
  BY <1>2 DEF vars, database, process, heights, control, queue, network,
              counters, TypeInv, TypeOK, LiveBlock
<1> QED
  BY <1>1, <1>2

\* The variables of the service keep their types, whatever the network does.
THEOREM TypeCorrect == Spec => []TypeOK
<1>1. TypeInv => TypeOK
  BY DEF TypeInv
<1> QED
  BY <1>1, TypeInit, TypeStep, PTL DEF Spec

-----------------------------------------------------------------------------
(* Heights.                                                                *)

\* Block i of s is at height base + i.
Numbered(s, base) == \A i \in 1 .. Len(s) : Depth[s[i]] = base + i

\* The part of each handler's state on which the heights of the rows depend:
\* a message holds blocks of consecutive heights, and what waits to be
\* inserted is numbered as it will be.
RoundNumbered(r) ==
  /\ round[r].pc = "answered" =>
       \E base \in Nat : Numbered(round[r].batch, base)
  /\ round[r].pc = "insert" =>
       Numbered(round[r].batch, round[r].from.height)

HeightsInv ==
  /\ HeightsTrue
  /\ \A r \in Round : RoundNumbered(r)
  /\ live.pc = "save" => live.row.height = Depth[live.row.hash]

\* A stop, and a step that changes neither table nor handlers, keep them.
LEMMA HeightsStop ==
  ASSUME HeightsInv, Boot, UNCHANGED rows
  PROVE  HeightsInv'
<1>1. lastHeader'.height = Depth[lastHeader'.hash]
  BY BranchAssumption, TreeAssumption DEF Boot, GenesisRow
<1>2. \A r \in Round : RoundNumbered(r)'
  BY DEF Boot, RoundNumbered, NoRound
<1>3. live'.pc # "save"
  BY DEF Boot, NoCall
<1> QED
  BY <1>1, <1>2, <1>3 DEF HeightsInv, HeightsTrue

LEMMA HeightsSame ==
  ASSUME HeightsInv, UNCHANGED <<lastHeader, round>>, rows' \subseteq rows,
         live' = live \/ live'.pc # "save"
  PROVE  HeightsInv'
  BY DEF HeightsInv, HeightsTrue, RoundNumbered

\* A round that does not change keeps its numbers.
LEMMA NumberedSame ==
  ASSUME NEW s \in Round, RoundNumbered(s), round'[s] = round[s]
  PROVE  RoundNumbered(s)'
  BY DEF RoundNumbered, Numbered

LEMMA HeightsFound ==
  ASSUME HeightsInv, UNCHANGED <<rows, round>>, lastHeader' \in rows,
         live' = live \/ live'.pc # "save"
  PROVE  HeightsInv'
  BY DEF HeightsInv, HeightsTrue, RoundNumbered

LEMMA HeightsRound ==
  ASSUME HeightsInv, UNCHANGED <<lastHeader, live>>, rows' \subseteq rows,
         NEW r \in Round,
         \A s \in Round \ {r} : round'[s] = round[s],
         round'[r].pc \notin {"answered", "insert"}
  PROVE  HeightsInv'
  BY DEF HeightsInv, HeightsTrue, RoundNumbered

LEMMA HeightsStarting ==
  ASSUME TypeInv, HeightsInv, Starting
  PROVE  HeightsInv'
<1> USE DEF database, heights, control, queue, network
<1>1. CASE Start
  <2> DEFINE back == Checkpoint(storedTip)
  <2>1. CASE back.height = 0 /\ back.hash # Genesis
    BY <1>1, <2>1, HeightsStop DEF Start, Stop
  <2>2. CASE ~(back.height = 0 /\ back.hash # Genesis)
    BY <1>1, <2>2, HeightsSame DEF Start
  <2> QED
    BY <2>1, <2>2
<1>2. CASE TruncateHeaders
  BY <1>2, HeightsSame DEF TruncateHeaders
<1>3. CASE CreateGenesis
  BY <1>3, GenesisDepth
  DEF CreateGenesis, GenesisRow, HeightsInv, HeightsTrue, RoundNumbered
<1>4. CASE DestroyAboveTip
  BY <1>4, HeightsSame DEF DestroyAboveTip
<1>5. CASE FindCheckpoint
  <2>1. CASE \E r \in rows : r.height = tip.height
    BY <1>5, <2>1, HeightsFound DEF FindCheckpoint
  <2>2. CASE ~ \E r \in rows : r.height = tip.height
    BY <1>5, <2>2, HeightsStop DEF FindCheckpoint, Stop
  <2> QED
    BY <2>1, <2>2
<1> QED
  BY <1>1, <1>2, <1>3, <1>4, <1>5 DEF Starting

\* A message in order, whose blocks have consecutive heights, is numbered
\* from the last header.
LEMMA InOrderNumbered ==
  ASSUME lastHeader \in Row, lastHeader.height = Depth[lastHeader.hash],
         NEW batch \in Seq(Block), batch # <<>>, InOrder(batch),
         NEW base \in Nat, Numbered(batch, base)
  PROVE  base = lastHeader.height
<1>1. 1 \in 1 .. Len(batch) /\ batch[1] \in Block
  OBVIOUS
<1>2. Parent[batch[1]] = lastHeader.hash /\ lastHeader.hash \in Block
  BY <1>1 DEF InOrder, Row
<1>3. Depth[batch[1]] = Depth[lastHeader.hash] + 1
  BY <1>1, <1>2, TreeAssumption
<1>4. Depth[batch[1]] = base + 1
  BY <1>1 DEF Numbered
<1>5. Depth[lastHeader.hash] \in Nat
  BY <1>2, TreeAssumption
<1> QED
  BY <1>3, <1>4, <1>5

LEMMA HeightsRounds ==
  ASSUME TypeInv, HeightsInv, NEW r \in Round, PeerAnswers(r) \/ Syncing(r)
  PROVE  HeightsInv'
<1> USE DEF database, heights, control, queue, network
<1>0. /\ round[r] \in RoundState /\ DOMAIN round = Round
      /\ round \in [Round -> RoundState]
  BY DEF TypeInv, TypeOK
<1>1. CASE PeerAnswers(r)
  <2>1. round[r].from.hash \in Block
    BY <1>0 DEF RoundState, Row
  <2>2. \E base \in Nat : Numbered(Answer(round[r].from.hash), base)
    <3> DEFINE a == Answer(round[r].from.hash)
    <3>1. peerTip \in Block
      BY DEF TypeInv, TypeOK
    <3>2. PICK base \in Nat :
            /\ base + Len(a) <= Depth[peerTip]
            /\ \A i \in 1 .. Len(a) : a[i] = Branch[peerTip][base + i]
      BY <2>1, <3>1, AnswerType
    <3>3. a \in Seq(Block)
      BY <2>1, <3>1, AnswerType
    <3> HIDE DEF a
    <3>4. ASSUME NEW i \in 1 .. Len(a)
          PROVE  Depth[a[i]] = base + i
      <4>1. base + i \in 0 .. Depth[peerTip]
        BY <3>1, <3>2, <3>3, TreeAssumption
      <4> QED
        BY <3>1, <3>2, <4>1, BranchAssumption
    <3> QED
      BY <3>4 DEF Numbered, a
  <2>3. /\ round'[r].pc = "answered"
        /\ round'[r].batch = Answer(round[r].from.hash)
        /\ \A s \in Round \ {r} : round'[s] = round[s]
    BY <1>0, <1>1 DEF PeerAnswers, RoundState
  <2>4. \A s \in Round : RoundNumbered(s)'
    <3>1. RoundNumbered(r)'
      BY <2>2, <2>3 DEF RoundNumbered, Numbered
    <3>2. \A s \in Round \ {r} : RoundNumbered(s)'
      BY <2>3, NumberedSame DEF HeightsInv
    <3> QED
      BY <3>1, <3>2
  <2> QED
    BY <1>1, <2>4 DEF PeerAnswers, HeightsInv, HeightsTrue
<1>2. CASE HeadersIgnored(r)
  BY <1>0, <1>2, HeightsRound DEF HeadersIgnored, NoRound
<1>3. CASE OnNoHeaders(r)
  BY <1>0, <1>3, HeightsRound DEF OnNoHeaders, NoRound
<1>4. CASE OnHeaders(r)
  <2> DEFINE batch == round[r].batch
  <2>1. CASE InOrder(batch)
    <3>1. batch \in Seq(Block) /\ batch # <<>> /\ lastHeader \in Row
      BY <1>0, <1>4 DEF OnHeaders, RoundState, TypeInv, TypeOK
    <3>2. Numbered(batch, lastHeader.height)
      BY <1>4, <2>1, <3>1, InOrderNumbered
      DEF OnHeaders, HeightsInv, HeightsTrue, RoundNumbered
    <3>3. /\ round'[r].pc = "insert" /\ round'[r].batch = batch
          /\ round'[r].from = lastHeader
          /\ \A s \in Round \ {r} : round'[s] = round[s]
      <4>1. round' = [round EXCEPT ![r].pc = "insert", ![r].from = lastHeader]
        BY <1>4, <2>1 DEF OnHeaders
      <4> QED
        BY <1>0, <4>1 DEF RoundState
    <3>4. \A s \in Round : RoundNumbered(s)'
      <4> HIDE DEF batch
      <4>1. RoundNumbered(r)'
        BY <3>2, <3>3 DEF RoundNumbered, Numbered
      <4>2. \A s \in Round \ {r} : RoundNumbered(s)'
        BY <3>3, NumberedSame DEF HeightsInv
      <4> QED
        BY <4>1, <4>2
    <3>5. lastHeader'.height = Depth[lastHeader'.hash]
      <4>1. lastHeader' = [height |-> lastHeader.height + Len(batch),
                           hash |-> batch[Len(batch)]]
        BY <1>4, <2>1 DEF OnHeaders
      <4>2. Len(batch) \in 1 .. Len(batch)
        BY <3>1
      <4> QED
        BY <3>2, <4>1, <4>2 DEF Numbered
    <3> QED
      BY <1>4, <2>1, <3>4, <3>5 DEF OnHeaders, HeightsInv, HeightsTrue
  <2>2. CASE ~InOrder(batch)
    BY <1>4, <2>2, HeightsStop DEF OnHeaders, Stop
  <2> QED
    BY <2>1, <2>2
<1>5. CASE InsertHeaders(r)
  <2> DEFINE new == NewRows(round[r].from, round[r].batch)
  <2>1. CASE ~Duplicate(new)
    <3>1. \A n \in new : n.height = Depth[n.hash]
      BY <1>0, <1>5 DEF InsertHeaders, HeightsInv, RoundNumbered, Numbered,
                        NewRows
    <3>2. \A s \in Round : RoundNumbered(s)'
      BY <1>0, <1>5, <2>1
      DEF InsertHeaders, HeightsInv, RoundNumbered, Numbered, NoRound
    <3> QED
      BY <1>5, <2>1, <3>1, <3>2 DEF InsertHeaders, HeightsInv, HeightsTrue
  <2>2. CASE Duplicate(new)
    BY <1>5, <2>2, HeightsStop DEF InsertHeaders, Stop
  <2> QED
    BY <2>1, <2>2
<1>6. CASE UpdateTip(r)
  BY <1>0, <1>6, HeightsRound DEF UpdateTip, RoundState
<1>7. CASE StoreTip(r)
  BY <1>0, <1>7, HeightsRound DEF StoreTip, NoRound
<1>8. CASE OnHeadersSave(r)
  <2>1. /\ round'[r].pc \in {"asked", "idle"}
        /\ \A s \in Round \ {r} : round'[s] = round[s]
    <3>1. CASE Sync(r)
      BY <1>0, <3>1 DEF Sync, NoRound
    <3>2. CASE round' = [round EXCEPT ![r] = NoRound]
      BY <1>0, <3>2 DEF NoRound
    <3> QED
      BY <1>8, <3>1, <3>2 DEF OnHeadersSave
  <2> QED
    BY <1>8, <2>1, HeightsRound DEF OnHeadersSave
<1> QED
  BY <1>1, <1>2, <1>3, <1>4, <1>5, <1>6, <1>7, <1>8 DEF Syncing

LEMMA HeightsSyncing ==
  ASSUME TypeInv, HeightsInv, Poll \/ ServicesNotified
  PROVE  HeightsInv'
<1> USE DEF database, heights, control, queue, network
<1>0. Poll => \/ /\ Boot
                  /\ UNCHANGED rows
               \/ /\ UNCHANGED <<rows, lastHeader, live>>
                  /\ \/ UNCHANGED round
                     \/ \E r \in Round : Sync(r)
  <2>1. ASSUME Poll PROVE UNCHANGED rows
    BY <2>1 DEF Poll
  <2> QED
    BY <2>1 DEF Poll, Stop
<1>1. CASE Boot /\ UNCHANGED rows
  BY <1>1, HeightsStop
<1>2. CASE UNCHANGED <<rows, lastHeader, live, round>>
  BY <1>2, HeightsSame
<1>3. CASE /\ UNCHANGED <<rows, lastHeader, live>>
           /\ \E r \in Round : Sync(r)
  <2>1. PICK r \in Round : Sync(r)
    BY <1>3
  <2>2. /\ round'[r].pc = "asked"
        /\ \A s \in Round \ {r} : round'[s] = round[s]
    BY <2>1 DEF Sync, NoRound, TypeInv, TypeOK
  <2> QED
    BY <1>3, <2>2, HeightsRound
<1>4. CASE ServicesNotified
  BY <1>4, HeightsSame DEF ServicesNotified
<1> QED
  BY <1>0, <1>1, <1>2, <1>3, <1>4

LEMMA HeightsFollowing ==
  ASSUME TypeInv, HeightsInv, DeliverBlock \/ Following
  PROVE  HeightsInv'
<1> USE DEF database, heights, control, queue, network
<1>0. live \in LiveState
  BY DEF TypeInv, TypeOK
<1>1. CASE DeliverBlock
  BY <1>1, HeightsSame DEF DeliverBlock, Entry, NoCall
<1>2. CASE LookupBlock
  BY <1>0, <1>2, HeightsSame DEF LookupBlock, LiveState
<1>3. CASE ExtendHeader
  <2> DEFINE last == [height |-> lastHeader.height + 1, hash |-> running]
  <2>1. running \in Block /\ lastHeader \in Row
    BY <1>0, <1>3 DEF ExtendHeader, TypeInv, TypeOK, LiveBlock
  <2>2. last.height = Depth[last.hash]
    BY <1>3, <2>1, TreeAssumption
    DEF ExtendHeader, HeightsInv, HeightsTrue, Row
  <2>3. lastHeader' = last /\ live'.row = last
    BY <1>0, <1>3 DEF ExtendHeader, LiveState
  <2> HIDE DEF last
  <2> QED
    BY <1>3, <2>2, <2>3
    DEF ExtendHeader, HeightsInv, HeightsTrue, RoundNumbered
<1>4. CASE DetectReorg
  BY <1>0, <1>4, HeightsSame DEF DetectReorg, LiveState
<1>5. CASE SaveHeader
  <2>1. CASE ~Duplicate({live.row})
    BY <1>0, <1>5, <2>1
    DEF SaveHeader, HeightsInv, HeightsTrue, RoundNumbered, NoCall
  <2>2. CASE Duplicate({live.row})
    BY <1>5, <2>2, HeightsStop DEF SaveHeader, Stop
  <2> QED
    BY <2>1, <2>2
<1>6. CASE UpdateLiveTip
  BY <1>0, <1>6, HeightsSame DEF UpdateLiveTip, LiveState
<1>7. CASE StoreLiveTip
  BY <1>7, HeightsSame DEF StoreLiveTip, NoCall
<1>8. CASE DestroyHeaders
  BY <1>8, HeightsSame DEF DestroyHeaders, NoCall
<1>9. CASE FindHeader
  <2>1. CASE \E r \in rows : r.height = tip.height
    BY <1>0, <1>9, <2>1, HeightsFound DEF FindHeader, LiveState
  <2>2. CASE ~ \E r \in rows : r.height = tip.height
    BY <1>9, <2>2, HeightsStop DEF FindHeader, Stop
  <2> QED
    BY <2>1, <2>2
<1>10. CASE FinishBlock
  BY <1>10, HeightsSame DEF FinishBlock, Entry, NoCall
<1> QED
  BY <1>1, <1>2, <1>3, <1>4, <1>5, <1>6, <1>7, <1>8, <1>9, <1>10 DEF Following

LEMMA HeightsEnvironment ==
  ASSUME TypeInv, HeightsInv, Environment
  PROVE  HeightsInv'
<1> USE DEF database, heights, control, queue, network
<1>1. CASE Reconnect
  <2>1. \A r \in Round : RoundNumbered(r)'
    <3> TAKE r \in Round
    <3>1. round'[r] = round[r] \/ round'[r].pc = "idle"
      BY <1>1 DEF Reconnect, NoRound, TypeInv, TypeOK
    <3> QED
      BY <3>1, NumberedSame DEF HeightsInv, RoundNumbered
  <2> QED
    BY <1>1, <2>1 DEF Reconnect, HeightsInv, HeightsTrue
<1>2. CASE Crash
  BY <1>2, HeightsStop DEF Crash, Stop
<1>3. CASE PeerReady \/ OtherPeerReady \/ PeerAdopts \/ PeerServes
  BY <1>3, HeightsSame DEF PeerReady, OtherPeerReady, PeerAdopts, PeerServes
<1> QED
  BY <1>1, <1>2, <1>3 DEF Environment

LEMMA HeightsStep == TypeInv /\ HeightsInv /\ [Next]_vars => HeightsInv'
<1> SUFFICES ASSUME TypeInv, HeightsInv, [Next]_vars PROVE HeightsInv'
  OBVIOUS
<1>1. CASE Next
  BY <1>1, HeightsStarting, HeightsSyncing, HeightsRounds, HeightsFollowing,
     HeightsEnvironment
  DEF Next
<1>2. CASE UNCHANGED vars
  BY <1>2, HeightsSame DEF vars, database, heights, queue
<1> QED
  BY <1>1, <1>2

LEMMA HeightsInit == Init => HeightsInv
  BY GenesisDepth
  DEF Init, HeightsInv, HeightsTrue, RoundNumbered, GenesisRow, NoRound,
      NoCall

\* Every header row, and the last header in memory, has the height of its
\* block: whatever rounds of headers, blocks, reorganizations, reconnections
\* and crashes come together, no height is ever counted from the wrong header.
THEOREM HeightsAreTrue == Spec => []HeightsTrue
<1>1. HeightsInv => HeightsTrue
  BY DEF HeightsInv
<1> QED
  BY <1>1, HeightsInit, TypeInit, TypeStep, HeightsStep, PTL DEF Spec

-----------------------------------------------------------------------------
(* Branches and the rows of a branch.                                      *)

\* What goes on where a branch ends makes a longer branch, with no row the
\* table holds already.
LEMMA RowsOfContinued ==
  ASSUME NEW b \in Block, NEW from \in Row, NEW batch \in Seq(Block),
         from.height = Depth[from.hash], Continues(batch, from, b)
  PROVE  /\ RowsOf(b) = RowsOf(from.hash) \cup NewRows(from, batch)
         /\ OnBranch(from.hash, b)
         /\ \A n \in NewRows(from, batch) : \A r \in RowsOf(from.hash) :
              n.height # r.height /\ n.hash # r.hash
<1> DEFINE h == from.height
<1>1. /\ Depth[b] \in Nat /\ h \in Nat /\ Len(batch) \in Nat
      /\ Depth[b] = h + Len(batch) /\ h \in 0 .. Depth[b]
  BY TreeAssumption DEF Row, Continues
<1>2. from.hash = Branch[b][h] /\ from.hash \in Block
  BY DEF Continues, Row
<1>3. \A d \in 0 .. h : Branch[from.hash][d] = Branch[b][d]
  BY <1>1, <1>2, BranchPrefix
<1>4. \A i \in 1 .. Len(batch) : batch[i] = Branch[b][h + i]
  BY DEF Continues
<1>5. RowsOf(from.hash) =
        {[height |-> d, hash |-> Branch[b][d]] : d \in 0 .. h}
  BY <1>3 DEF RowsOf
<1>6. NewRows(from, batch) =
        {[height |-> h + i, hash |-> Branch[b][h + i]] :
           i \in 1 .. Len(batch)}
  BY <1>4 DEF NewRows
<1> HIDE DEF h
<1>7. RowsOf(b) = RowsOf(from.hash) \cup NewRows(from, batch)
  <2>1. ASSUME NEW d \in 0 .. Depth[b], d > h
        PROVE  \E i \in 1 .. Len(batch) : d = h + i
    <3>1. d - h \in 1 .. Len(batch) /\ d = h + (d - h)
      BY <1>1, <2>1
    <3> QED
      BY <3>1
  <2>2. RowsOf(b) \subseteq RowsOf(from.hash) \cup NewRows(from, batch)
    BY <1>1, <1>5, <1>6, <2>1 DEF RowsOf
  <2>3. RowsOf(from.hash) \cup NewRows(from, batch) \subseteq RowsOf(b)
    BY <1>1, <1>5, <1>6 DEF RowsOf
  <2> QED
    BY <2>2, <2>3
<1>8. ASSUME NEW n \in NewRows(from, batch), NEW r \in RowsOf(from.hash)
      PROVE  n.height # r.height /\ n.hash # r.hash
  <2>1. PICK i \in 1 .. Len(batch) :
          n = [height |-> h + i, hash |-> Branch[b][h + i]]
    BY <1>6
  <2>2. r.height \in 0 .. h /\ Depth[r.hash] = r.height
    BY <1>1, <1>2, RowsOfHeights DEF h
  <2>3. Depth[Branch[b][h + i]] = h + i
    <3>1. h + i \in 0 .. Depth[b]
      BY <1>1, <2>1
    <3> QED
      BY <3>1, BranchBlock
  <2> QED
    BY <1>1, <2>1, <2>2, <2>3
<1>9. OnBranch(from.hash, b)
  BY <1>1, <1>2 DEF OnBranch, h
<1> QED
  BY <1>7, <1>8, <1>9

\* A block goes on where the branch of its parent ends.
LEMMA ParentContinued ==
  ASSUME NEW b \in Block, Parent[b] \in Block
  PROVE  /\ Continues(<<b>>, [height |-> Depth[Parent[b]],
                              hash |-> Parent[b]], b)
         /\ NewRows([height |-> Depth[Parent[b]], hash |-> Parent[b]], <<b>>)
              = {[height |-> Depth[b], hash |-> b]}
<1>1. /\ Depth[b] \in Nat /\ Depth[Parent[b]] \in Nat
      /\ Depth[b] = Depth[Parent[b]] + 1
  BY TreeAssumption
<1>2. Branch[b][Depth[b]] = b /\ Parent[b] = Branch[b][Depth[b] - 1]
  <2>1. Branch[b][Depth[b]] = b /\ Depth[b] \in 1 .. Depth[b]
    BY <1>1, BranchAssumption
  <2> QED
    BY <2>1, BranchParent
<1>3. Len(<<b>>) = 1 /\ <<b>>[1] = b
  OBVIOUS
<1> QED
  BY <1>1, <1>2, <1>3 DEF Continues, NewRows

-----------------------------------------------------------------------------
(* Who may run.                                                            *)

\* Nothing runs in a process as it starts.
LEMMA FreshControl ==
  ASSUME TypeInv', Fresh'
  PROVE  ControlInv'
<1>1. ~Handling'
  BY TreeAssumption DEF Fresh, Handling, TypeInv, LiveBlock
<1> QED
  BY <1>1 DEF Fresh, Idle, ControlInv, FreshBefore, WaitBehind, PollAlone,
              RoundAlone, NotifyAlone, RewindGivesUp, Handling

LEMMA BootFresh ==
  ASSUME Boot
  PROVE  Fresh'
  BY DEF Boot, Fresh, Idle, NoRound

LEMMA ControlStarting ==
  ASSUME TypeInv, TypeInv', ControlInv, Starting
  PROVE  ControlInv'
<1>1. Fresh
  BY DEF Starting, Start, TruncateHeaders, CreateGenesis, DestroyAboveTip,
         FindCheckpoint, ControlInv, FreshBefore
<1>2. \/ Boot
      \/ UNCHANGED <<connected, round, polls, notifying, subs, waiting,
                     running, inbox>>
  BY DEF Starting, Start, TruncateHeaders, CreateGenesis, DestroyAboveTip,
         FindCheckpoint, Stop, control, queue, network
<1>3. Fresh'
  BY <1>1, <1>2, BootFresh DEF Fresh, Idle
<1> QED
  BY <1>3, FreshControl

\* While a round is active, the process runs and nothing else is under way.
LEMMA ActiveRound ==
  ASSUME ControlInv, NEW r \in Round, round[r].pc # "idle"
  PROVE  /\ phase = "run" /\ connected
         /\ polls = 0 /\ ~Handling /\ waiting = <<>>
         /\ \A s \in Round \ {r} : round[s].pc = "idle"
         /\ round[r].pc \in {"asked", "answered"} => "headers" \in subs
  BY DEF ControlInv, FreshBefore, Fresh, Idle, RoundAlone

\* A step of the active round keeps everything else from running.
LEMMA ControlActive ==
  ASSUME TypeInv, TypeInv', ControlInv,
         NEW r \in Round, round[r].pc # "idle",
         \A s \in Round \ {r} : round'[s] = round[s],
         round'[r].pc \in {"asked", "answered"} => "headers" \in subs',
         UNCHANGED <<polls, queue, phase, connected>>
  PROVE  ControlInv'
<1>1. /\ phase' = "run" /\ connected' /\ polls' = 0 /\ ~Handling'
      /\ waiting' = <<>>
      /\ \A s \in Round \ {r} : round'[s].pc = "idle"
  BY ActiveRound DEF queue, Handling
<1> QED
  BY <1>1 DEF ControlInv, FreshBefore, WaitBehind, PollAlone, RoundAlone,
              NotifyAlone, RewindGivesUp, Handling

LEMMA ControlRound ==
  ASSUME TypeInv, TypeInv', ControlInv,
         NEW r \in Round, PeerAnswers(r) \/ Syncing(r)
  PROVE  ControlInv'
<1> USE DEF process, network, control
<1>0. round \in [Round -> RoundState] /\ round[r] \in RoundState
  BY DEF TypeInv, TypeOK
<1>1. CASE PeerAnswers(r)
  <2>1. /\ round'[r].pc = "answered"
        /\ \A s \in Round \ {r} : round'[s] = round[s]
    BY <1>0, <1>1 DEF PeerAnswers, RoundState
  <2>2. "headers" \in subs
    BY <1>1, ActiveRound DEF PeerAnswers
  <2> QED
    BY <1>1, <2>1, <2>2, ControlActive DEF PeerAnswers
<1>2. CASE HeadersIgnored(r)
  BY <1>2, ActiveRound DEF HeadersIgnored
<1>3. CASE OnNoHeaders(r)
  <2>1. /\ round'[r].pc = "store"
        /\ \A s \in Round \ {r} : round'[s] = round[s]
    BY <1>0, <1>3 DEF OnNoHeaders, NoRound
  <2> QED
    BY <1>3, <2>1, ControlActive DEF OnNoHeaders
<1>4. CASE OnHeaders(r)
  <2>1. CASE InOrder(round[r].batch)
    <3>1. /\ round'[r].pc = "insert"
          /\ \A s \in Round \ {r} : round'[s] = round[s]
      BY <1>0, <1>4, <2>1 DEF OnHeaders, RoundState
    <3> QED
      BY <1>4, <2>1, <3>1, ControlActive DEF OnHeaders
  <2>2. CASE ~InOrder(round[r].batch)
    BY <1>4, <2>2, BootFresh, FreshControl DEF OnHeaders, Stop
  <2> QED
    BY <2>1, <2>2
<1>5. CASE InsertHeaders(r)
  <2> DEFINE new == NewRows(round[r].from, round[r].batch)
  <2>1. CASE ~Duplicate(new)
    <3>1. /\ round'[r].pc = "inserted"
          /\ \A s \in Round \ {r} : round'[s] = round[s]
      BY <1>0, <1>5, <2>1 DEF InsertHeaders, NoRound
    <3> QED
      BY <1>5, <2>1, <3>1, ControlActive DEF InsertHeaders
  <2>2. CASE Duplicate(new)
    BY <1>5, <2>2, BootFresh, FreshControl DEF InsertHeaders, Stop
  <2> QED
    BY <2>1, <2>2
<1>6. CASE UpdateTip(r)
  <2>1. /\ round'[r].pc = "store"
        /\ \A s \in Round \ {r} : round'[s] = round[s]
    BY <1>0, <1>6 DEF UpdateTip, RoundState
  <2> QED
    BY <1>6, <2>1, ControlActive DEF UpdateTip
<1>7. CASE StoreTip(r)
  <2>1. /\ round'[r].pc = "stored"
        /\ \A s \in Round \ {r} : round'[s] = round[s]
    BY <1>0, <1>7 DEF StoreTip, NoRound
  <2> QED
    BY <1>7, <2>1, ControlActive DEF StoreTip
<1>8. CASE OnHeadersSave(r)
  <2>1. \A s \in Round \ {r} : round'[s] = round[s]
    BY <1>0, <1>8 DEF OnHeadersSave, Sync
  <2>2. round'[r].pc = "idle" \/ "headers" \in subs'
    BY <1>0, <1>8 DEF OnHeadersSave, Sync, NoRound
  <2> QED
    BY <1>8, <2>1, <2>2, ControlActive DEF OnHeadersSave
<1> QED
  BY <1>1, <1>2, <1>3, <1>4, <1>5, <1>6, <1>7, <1>8 DEF Syncing

LEMMA ControlSyncing ==
  ASSUME TypeInv, TypeInv', ControlInv, Poll \/ ServicesNotified
  PROVE  ControlInv'
<1> USE DEF process, network, control, queue
<1>1. CASE ServicesNotified
  <2>1. /\ notifying \in Nat /\ notifying # 0
        /\ polls = 0 /\ ~Handling /\ waiting = <<>>
    BY <1>1 DEF ServicesNotified, ControlInv, NotifyAlone, TypeInv, TypeOK
  <2>2. UNCHANGED <<polls, live, waiting, running, round, subs, phase,
                    connected, inbox>>
    BY <1>1 DEF ServicesNotified
  <2>3. phase = "run" /\ connected
    BY <2>1 DEF ControlInv, FreshBefore, Fresh
  <2> QED
    BY <2>1, <2>2, <2>3
    DEF ControlInv, FreshBefore, WaitBehind, PollAlone, RoundAlone,
        NotifyAlone, RewindGivesUp, Handling
<1>2. CASE Poll
  <2>1. /\ polls = 1 /\ Idle /\ notifying = 0 /\ ~Handling
        /\ waiting = <<>> /\ phase = "run" /\ connected
    BY <1>2 DEF Poll, ControlInv, FreshBefore, Fresh, PollAlone
  <2>2. CASE Stop("needed")
    BY <2>2, BootFresh, FreshControl DEF Stop
  <2>3. CASE ~Stop("needed")
    <3>1. /\ polls' = polls - 1
          /\ UNCHANGED <<notifying, live, waiting, running, phase, connected>>
          /\ (\E r \in Round : Sync(r)) \/ UNCHANGED <<round, subs>>
      BY <1>2, <2>3, Zenon DEF Poll
    <3>2. polls' = 0
      BY <2>1, <3>1
    <3>3. \A r \in Round : round'[r].pc # "idle" =>
            /\ \A s \in Round \ {r} : round'[s].pc = "idle"
            /\ "headers" \in subs'
      <4>1. CASE \E r \in Round : Sync(r)
        BY <2>1, <4>1 DEF Sync, Idle, TypeInv, TypeOK
      <4>2. CASE UNCHANGED <<round, subs>>
        BY <2>1, <4>2 DEF Idle
      <4> QED
        BY <3>1, <4>1, <4>2
    <3>4. phase' = "run" /\ connected' /\ ~Handling' /\ waiting' = <<>>
      BY <2>1, <3>1 DEF Handling
    <3> QED
      BY <3>2, <3>3, <3>4
      DEF ControlInv, FreshBefore, WaitBehind, PollAlone, RoundAlone,
          NotifyAlone, RewindGivesUp, Handling
  <2> QED
    BY <2>2, <2>3
<1> QED
  BY <1>1, <1>2

\* While a block is handled, the process runs and nothing else is under way.
LEMMA HandlingAlone ==
  ASSUME TypeInv, ControlInv, Handling
  PROVE  /\ phase = "run" /\ connected
         /\ polls = 0 /\ Idle /\ notifying = 0
         /\ running \in Block
<1>1. running \in Block
  BY DEF Handling, TypeInv, LiveBlock
<1>2. phase = "run" /\ connected
  BY <1>1, TreeAssumption DEF ControlInv, FreshBefore, Fresh
<1>3. polls = 0 /\ notifying = 0
  BY DEF ControlInv, PollAlone, NotifyAlone, TypeInv, TypeOK
<1>4. Idle
  BY DEF ControlInv, RoundAlone, Idle
<1> QED
  BY <1>1, <1>2, <1>3, <1>4

\* A step in the handling of a block keeps everything else from running.
LEMMA ControlHandling ==
  ASSUME TypeInv, ControlInv, Handling,
         UNCHANGED <<polls, round, notifying, waiting, running, phase,
                     connected>>,
         live'.pc \in {"destroy", "find"} => reorging'
  PROVE  ControlInv'
<1>1. /\ phase' = "run" /\ connected' /\ polls' = 0 /\ Idle'
      /\ notifying' = 0 /\ running' # NoBlock
  BY HandlingAlone, TreeAssumption DEF Idle
<1> QED
  BY <1>1 DEF ControlInv, FreshBefore, WaitBehind, PollAlone, RoundAlone,
              NotifyAlone, RewindGivesUp, Idle

LEMMA ControlFollowing ==
  ASSUME TypeInv, TypeInv', ControlInv, CalmPeer, DeliverBlock \/ Following
  PROVE  ControlInv'
<1> USE DEF process, network, control, queue
<1>0. live \in LiveState
  BY DEF TypeInv, TypeOK
<1>1. CASE DeliverBlock
  <2>1. CASE UNCHANGED queue
    BY <1>1, <2>1
    DEF DeliverBlock, ControlInv, FreshBefore, Fresh, WaitBehind, PollAlone,
        RoundAlone, NotifyAlone, RewindGivesUp, Handling, Idle
  <2>2. CASE /\ "block" \in subs
             /\ Calm
             /\ Queue!Push(Head(inbox))
             /\ live' = IF running = NoBlock THEN Entry ELSE live
    <3>1. polls = 0 /\ Idle /\ notifying = 0 /\ phase = "run" /\ connected
      BY <2>2 DEF ControlInv, PollAlone, FreshBefore, Fresh, Calm, Idle,
                  TypeInv, TypeOK
    <3>2. Head(inbox) \in Block
      BY <1>1 DEF DeliverBlock, TypeInv, TypeOK
    <3>3. running' \in Block
      BY <2>2, <3>2, QueueType
    <3>4. live'.pc \in {"destroy", "find"} => reorging'
      BY <1>1, <2>2 DEF DeliverBlock, Entry, NoCall, ControlInv,
                        RewindGivesUp
    <3>5. polls' = 0 /\ Idle' /\ notifying' = 0 /\ phase' = "run" /\ connected'
      BY <1>1, <3>1 DEF DeliverBlock, Idle
    <3> QED
      BY <3>3, <3>4, <3>5, TreeAssumption
      DEF ControlInv, FreshBefore, WaitBehind, PollAlone, RoundAlone,
          NotifyAlone, RewindGivesUp, Idle
  <2> QED
    BY <1>1, <2>1, <2>2 DEF DeliverBlock
<1>2. CASE LookupBlock
  BY <1>0, <1>2, ControlHandling DEF LookupBlock, Handling, LiveState
<1>3. CASE ExtendHeader
  BY <1>0, <1>3, ControlHandling DEF ExtendHeader, Handling, LiveState
<1>4. CASE DetectReorg
  BY <1>0, <1>4, ControlHandling DEF DetectReorg, Handling, LiveState
<1>5. CASE SaveHeader
  <2>1. CASE ~Duplicate({live.row})
    BY <1>5, <2>1, ControlHandling DEF SaveHeader, Handling, NoCall
  <2>2. CASE Duplicate({live.row})
    BY <1>5, <2>2, BootFresh, FreshControl DEF SaveHeader, Stop
  <2> QED
    BY <2>1, <2>2
<1>6. CASE UpdateLiveTip
  BY <1>0, <1>6, ControlHandling DEF UpdateLiveTip, Handling, LiveState
<1>7. CASE StoreLiveTip
  BY <1>7, ControlHandling DEF StoreLiveTip, Handling, NoCall
<1>8. CASE DestroyHeaders
  BY <1>8, ControlHandling
  DEF DestroyHeaders, Handling, NoCall, ControlInv, RewindGivesUp
<1>9. CASE FindHeader
  <2>1. CASE \E r \in rows : r.height = tip.height
    <3>1. /\ phase = "run" /\ connected /\ polls = 0 /\ Idle
          /\ notifying = 0
      BY <1>9, HandlingAlone DEF FindHeader, Handling
    <3>2. reorging'
      BY <1>9, <2>1 DEF FindHeader, ControlInv, RewindGivesUp
    <3>3. polls' = 1 /\ subs' = {}
      <4>1. StartSync
        BY <1>9, <2>1 DEF FindHeader
      <4> QED
        BY <3>1, <4>1 DEF StartSync
    <3>4. phase' = "run" /\ connected' /\ Idle' /\ notifying' = 0
      BY <1>9, <2>1, <3>1 DEF FindHeader, Idle
    <3>5. live'.pc = "done"
      BY <1>0, <1>9, <2>1 DEF FindHeader, LiveState
    <3>6. WaitBehind'
      BY <1>9, <2>1 DEF FindHeader, WaitBehind, ControlInv
    <3> QED
      BY <3>2, <3>3, <3>4, <3>5, <3>6
      DEF ControlInv, FreshBefore, PollAlone, RoundAlone, NotifyAlone,
          RewindGivesUp, Idle, Handling
  <2>2. CASE ~ \E r \in rows : r.height = tip.height
    BY <1>9, <2>2, BootFresh, FreshControl DEF FindHeader, Stop
  <2> QED
    BY <2>1, <2>2
<1>10. CASE FinishBlock
  <2>1. running \in Block
    BY <1>10 DEF FinishBlock, TypeInv, LiveBlock
  <2>2. phase = "run" /\ connected
    BY <2>1, TreeAssumption DEF ControlInv, FreshBefore, Fresh
  <2>3. CASE waiting = <<>>
    <3>1. waiting' = <<>> /\ live'.pc = "none" /\ running' = NoBlock
      BY <1>10, <2>3 DEF FinishBlock, Queue!Resolve, NoCall
    <3> QED
      BY <1>10, <2>2, <2>3, <3>1
      DEF FinishBlock, ControlInv, FreshBefore, WaitBehind, PollAlone,
          RoundAlone, NotifyAlone, RewindGivesUp, Handling, Idle
  <2>4. CASE waiting # <<>>
    <3>1. Idle /\ notifying = 0
      BY <2>4 DEF ControlInv, RoundAlone, NotifyAlone, Idle, TypeInv, TypeOK
    <3>2. polls > 0 => polls = 1 /\ "block" \notin subs /\ reorging
      BY <2>1, TreeAssumption DEF ControlInv, PollAlone
    <3>3. live' = Entry /\ running' \in Block
      BY <1>10, <2>4, ProcessType
      DEF FinishBlock, Queue!Resolve, Queue!Process, TypeInv, TypeOK
    <3>4. live'.pc = IF reorging THEN "done" ELSE "lookup"
      BY <3>3 DEF Entry, NoCall
    <3>5. /\ polls' = polls /\ subs' = subs /\ reorging' = reorging
          /\ phase' = "run" /\ connected' /\ Idle' /\ notifying' = 0
      BY <1>10, <2>2, <3>1 DEF FinishBlock, Idle
    <3> QED
      BY <3>2, <3>3, <3>4, <3>5, TreeAssumption
      DEF ControlInv, FreshBefore, WaitBehind, PollAlone, RoundAlone,
          NotifyAlone, RewindGivesUp, Handling, Idle
  <2> QED
    BY <2>3, <2>4
<1> QED
  BY <1>1, <1>2, <1>3, <1>4, <1>5, <1>6, <1>7, <1>8, <1>9, <1>10 DEF Following

LEMMA ControlEnvironment ==
  ASSUME TypeInv, TypeInv', ControlInv, CalmPeer, MaxOthers = 0, Environment
  PROVE  ControlInv'
<1> USE DEF process, network, control, queue, counters
<1>1. CASE PeerReady
  <2>1. Fresh
    BY <1>1 DEF PeerReady, ControlInv, FreshBefore
  <2>2. /\ phase' = "run" /\ connected' /\ polls' = 1 /\ subs' = {} /\ Idle'
        /\ notifying' = 0 /\ waiting' = <<>> /\ running' = NoBlock
    BY <1>1, <2>1 DEF PeerReady, StartSync, Fresh, Idle
  <2>3. ~Handling'
    BY <2>2, TreeAssumption DEF Handling, TypeInv, LiveBlock
  <2> QED
    BY <2>2, <2>3
    DEF ControlInv, FreshBefore, WaitBehind, PollAlone, RoundAlone,
        NotifyAlone, RewindGivesUp, Handling, Idle
<1>2. CASE Reconnect
  <2>1. Settled
    BY <1>2 DEF Reconnect
  <2>2. running = NoBlock
    BY <2>1 DEF Settled, TypeInv, TypeOK, LiveBlock
  <2>3. waiting = <<>>
    BY <2>2 DEF ControlInv, WaitBehind
  <2>4. phase = "run" /\ connected
    BY <1>2 DEF Reconnect, ControlInv, FreshBefore, Fresh
  <2>5. Idle'
    BY <1>2, <2>1 DEF Reconnect, Settled, Idle, NoRound
  <2>6. /\ phase' = "run" /\ connected' /\ polls' = 1 /\ subs' = {}
        /\ notifying' = 0 /\ waiting' = <<>> /\ running' = NoBlock
        /\ live'.pc = "none"
    BY <1>2, <2>1, <2>2, <2>3, <2>4 DEF Reconnect, StartSync, Settled
  <2> QED
    BY <2>5, <2>6
    DEF ControlInv, FreshBefore, WaitBehind, PollAlone, RoundAlone,
        NotifyAlone, RewindGivesUp, Handling, Idle
<1>3. CASE OtherPeerReady
  BY <1>3 DEF OtherPeerReady, TypeInv, TypeOK
<1>4. CASE PeerAdopts \/ PeerServes
  <2>1. /\ UNCHANGED <<phase, connected, polls, subs, round, notifying,
                       waiting, running, live, reorging>>
        /\ UNCHANGED inbox \/ connected
    BY <1>4 DEF PeerAdopts, PeerServes
  <2>3. inbox # inbox' => connected
    BY <2>1
  <2>4. FreshBefore'
    BY <2>1, <2>3 DEF ControlInv, FreshBefore, Fresh, Idle
  <2> QED
    BY <2>1, <2>4
    DEF ControlInv, WaitBehind, PollAlone, RoundAlone, NotifyAlone,
        RewindGivesUp, Handling, Idle
<1>5. CASE Crash
  BY <1>5, BootFresh, FreshControl DEF Crash, Stop
<1> QED
  BY <1>1, <1>2, <1>3, <1>4, <1>5 DEF Environment

-----------------------------------------------------------------------------
(* What the table holds: frames.                                           *)

\* A stopped process leaves the table as it is.
LEMMA DataStop ==
  ASSUME DataInv, Boot, phase' = "down", UNCHANGED database
  PROVE  DataInv'
<1>1. Idle' /\ live'.pc = "none" /\ waiting' = <<>> /\ subs' = {}
  BY DEF Boot, Idle, NoRound, NoCall
<1>2. StoredTrue' /\ TableInv'
  BY DEF DataInv, StoredTrue, TableInv, Ends, database
<1> QED
  BY <1>1, <1>2
  DEF DataInv, StartInv, MessageInv, InsertInv, StoreInv, SaveInv, RewindInv,
      RestInv, CaughtUp, Idle, Handling

\* Before a peer is ready, only the table and the tip matter.
LEMMA DataFresh ==
  ASSUME TypeInv', Fresh', StoredTrue', TableInv', StartInv', RestInv'
  PROVE  DataInv'
<1>1. Idle' /\ live'.pc = "none" /\ waiting' = <<>> /\ subs' = {}
  BY TreeAssumption DEF Fresh, TypeInv, LiveBlock
<1> QED
  BY <1>1
  DEF DataInv, MessageInv, InsertInv, StoreInv, SaveInv, RewindInv, CaughtUp,
      Idle, Handling

\* A step that leaves the table and the tips alone, and neither begins nor
\* ends a write.
LEMMA DataFrame ==
  ASSUME DataInv,
         UNCHANGED <<database, phase, tip, lastHeader>>,
         \A s \in Round : \/ round'[s] = round[s]
                          \/ round[s].pc # "insert" /\ round'[s].pc # "insert",
         \/ live' = live
         \/ /\ live.pc \notin {"save", "destroy", "find"}
            /\ live'.pc \notin {"save", "destroy", "find"},
         MessageInv', StoreInv', CaughtUp'
  PROVE  DataInv'
<1> USE DEF database
<1>1. StoredTrue' /\ TableInv' /\ StartInv'
  BY DEF DataInv, StoredTrue, TableInv, StartInv, Ends
<1>2. InsertInv'
  BY DEF DataInv, InsertInv, Ends, Continues
<1>3. SaveInv' /\ RewindInv'
  BY DEF DataInv, SaveInv, RewindInv, Ends
<1>4. RestInv'
  BY DEF DataInv, RestInv, Ends
<1> QED
  BY <1>1, <1>2, <1>3, <1>4 DEF DataInv

\* A step in the handling of a block, or the first one.
LEMMA DataLive ==
  ASSUME Idle', StoredTrue', TableInv', phase' = "run",
         live'.pc = "store" => live'.row = lastHeader',
         SaveInv', RewindInv', RestInv', CaughtUp'
  PROVE  DataInv'
  BY DEF DataInv, StartInv, MessageInv, InsertInv, StoreInv, Idle

\* A step that answers no request.
LEMMA MessageSame ==
  ASSUME MessageInv, peerTip \in Block, peerTip' \in Block,
         Depth[peerTip] <= Depth[peerTip'],
         \A s \in Round : \/ round'[s] = round[s]
                          \/ round'[s].pc # "answered"
  PROVE  MessageInv'
<1> SUFFICES ASSUME NEW r \in Round, round'[r].pc = "answered",
                    round'[r].batch # <<>>
             PROVE  \E b \in Block : /\ Stretch(round'[r].batch, b)
                                     /\ Depth[b] <= Depth[peerTip']
  BY DEF MessageInv, Stretch
<1>1. round'[r] = round[r]
  OBVIOUS
<1>2. PICK b \in Block :
        Stretch(round[r].batch, b) /\ Depth[b] <= Depth[peerTip]
  BY <1>1 DEF MessageInv
<1>3. Depth[b] <= Depth[peerTip']
  BY <1>2, DepthNat
<1> QED
  BY <1>1, <1>2, <1>3

LEMMA StoreSame ==
  ASSUME StoreInv, UNCHANGED lastHeader,
         \A s \in Round : \/ round'[s] = round[s]
                          \/ round'[s].pc # "store",
         live' = live \/ live'.pc # "store"
  PROVE  StoreInv'
  BY DEF StoreInv

-----------------------------------------------------------------------------
(* What the table holds: the steps.                                        *)

LEMMA DataStarting ==
  ASSUME TypeInv, TypeInv', HeightsInv, ControlInv, ControlInv', DataInv,
         Starting
  PROVE  DataInv'
<1> USE DEF database, heights, control, queue, network
<1>0. CASE phase' = "down"
  BY <1>0, DataStop
  DEF Starting, Start, TruncateHeaders, CreateGenesis, DestroyAboveTip,
      FindCheckpoint, Stop
<1>a. Fresh
  BY DEF Starting, Start, TruncateHeaders, CreateGenesis, DestroyAboveTip,
         FindCheckpoint, ControlInv, FreshBefore
<1>b. storedTip \in Row /\ tip \in Row
  BY DEF TypeInv, TypeOK
<1>1. CASE Start /\ phase' # "down"
  <2> DEFINE back == Checkpoint(storedTip)
  <2>1. /\ ~(back.height = 0 /\ back.hash # Genesis)
        /\ UNCHANGED <<database, connected>>
        /\ tip' = back
        /\ phase' = IF back.height = 0 THEN "truncate" ELSE "destroy"
    BY <1>1 DEF Start, Stop
  <2>2. Fresh'
    BY <2>1 DEF ControlInv, FreshBefore
  <2>3. StoredTrue' /\ TableInv'
    BY <2>1 DEF DataInv, StoredTrue, TableInv, Ends
  <2>4. CASE storedTip.height < Rewind
    <3>1. back.height = 0
      BY <2>4 DEF Checkpoint, GenesisRow
    <3>2. StartInv' /\ RestInv'
      BY <2>1, <2>4, <3>1 DEF StartInv, RestInv
    <3> QED
      BY <2>2, <2>3, <3>2, DataFresh
  <2>5. CASE ~(storedTip.height < Rewind)
    <3>1. back = [height |-> storedTip.height - Rewind,
                  hash |-> storedTip.hash]
      BY <2>5 DEF Checkpoint
    <3>2. storedTip.height = Depth[storedTip.hash] /\ storedTip.height # 0
      BY <1>b, <2>5, ParameterAssumption DEF DataInv, StoredTrue, Row
    <3>3. back.height # 0
      BY <2>1, <3>1, <3>2, GenesisDepth
    <3>4. PICK b \in Block : Ends(b, Rewind)
      BY <2>5 DEF DataInv, TableInv
    <3>5. /\ storedTip.height <= back.height + Rewind
          /\ rows = RowsOf(b) /\ back.height <= Depth[b]
      BY <1>b, <3>1, <3>4, DepthNat, ParameterAssumption DEF Ends, Row
    <3>6. StartInv' /\ RestInv'
      BY <2>1, <3>3, <3>5 DEF StartInv, RestInv
    <3> QED
      BY <2>2, <2>3, <3>6, DataFresh
  <2> QED
    BY <2>4, <2>5
<1>2. CASE TruncateHeaders
  <2>1. Fresh'
    BY <1>2 DEF TruncateHeaders, ControlInv, FreshBefore
  <2>2. /\ phase' = "create" /\ rows' = {} /\ storedTip.height < Rewind
        /\ UNCHANGED <<storedTip, tip>> /\ tip.height = 0
    BY <1>2 DEF TruncateHeaders, DataInv, StartInv
  <2> QED
    BY <2>1, <2>2, DataFresh
    DEF DataInv, StoredTrue, TableInv, StartInv, RestInv
<1>3. CASE CreateGenesis
  <2>1. Fresh'
    BY <1>3 DEF CreateGenesis, ControlInv, FreshBefore
  <2>2. /\ phase' = "destroy" /\ rows' = RowsOf(Genesis)
        /\ storedTip.height < Rewind
        /\ UNCHANGED <<storedTip, tip>> /\ tip.height = 0
    BY <1>3, RowsOfGenesis DEF CreateGenesis, DataInv, StartInv
  <2>3. Genesis \in Block /\ Depth[Genesis] = 0 /\ storedTip.height \in Nat
    BY <1>b, GenesisDepth, TreeAssumption DEF Row
  <2>4. TableInv'
    BY <2>2, <2>3, ParameterAssumption DEF TableInv, Ends
  <2>5. StartInv'
    BY <2>2, <2>3, ParameterAssumption DEF StartInv
  <2> QED
    BY <2>1, <2>2, <2>4, <2>5, DataFresh DEF DataInv, StoredTrue, RestInv
<1>4. CASE DestroyAboveTip
  <2>1. Fresh'
    BY <1>4 DEF DestroyAboveTip, ControlInv, FreshBefore
  <2>2. PICK b \in Block : rows = RowsOf(b) /\ tip.height <= Depth[b]
    BY <1>4 DEF DestroyAboveTip, DataInv, StartInv
  <2>3. storedTip.height <= tip.height + Rewind
    BY <1>4 DEF DestroyAboveTip, DataInv, StartInv
  <2>4. /\ phase' = "find" /\ UNCHANGED <<storedTip, tip>>
        /\ rows' = {r \in rows : r.height <= tip.height}
    BY <1>4 DEF DestroyAboveTip
  <2>5. tip.height \in 0 .. Depth[b]
    BY <1>b, <2>2, DepthNat DEF Row
  <2> DEFINE c == Branch[b][tip.height]
  <2>6. c \in Block /\ Depth[c] = tip.height
    BY <2>5, BranchBlock
  <2>7. rows' = RowsOf(c)
    BY <2>2, <2>4, <2>5, RowsOfCut
  <2> HIDE DEF c
  <2>8. TableInv' /\ StartInv'
    BY <2>3, <2>4, <2>6, <2>7 DEF TableInv, Ends, StartInv
  <2> QED
    BY <2>1, <2>4, <2>8, DataFresh DEF DataInv, StoredTrue, RestInv
<1>5. CASE FindCheckpoint /\ phase' # "down"
  <2>1. PICK r \in rows : /\ r.height = tip.height
                          /\ lastHeader' = r
                          /\ tip' = r
                          /\ phase' = "run"
                          /\ UNCHANGED <<database, connected>>
    BY <1>5 DEF FindCheckpoint, Stop
  <2>2. PICK b \in Block : rows = RowsOf(b) /\ tip.height = Depth[b]
    BY <1>5 DEF FindCheckpoint, DataInv, StartInv
  <2>3. storedTip.height <= Depth[b] + Rewind
    BY <1>5, <2>2 DEF FindCheckpoint, DataInv, StartInv
  <2>4. r.hash = b
    BY <2>1, <2>2, RowsOfEnd
  <2>5. ~connected /\ Fresh'
    BY <1>a, <2>1 DEF Fresh, ControlInv, FreshBefore
  <2>6. RestInv'
    BY <2>1, <2>2, <2>3, <2>4 DEF RestInv, Ends
  <2> QED
    BY <2>1, <2>5, <2>6, DataFresh
    DEF DataInv, StoredTrue, TableInv, StartInv, Ends
<1>6. Start \/ FindCheckpoint \/ TruncateHeaders \/ CreateGenesis
        \/ DestroyAboveTip
  BY DEF Starting
<1> QED
  BY <1>0, <1>1, <1>2, <1>3, <1>4, <1>5, <1>6

\* A message of a branch that begins after the last header goes on where the
\* last header ends, and ends in the block of that branch.
LEMMA InOrderContinues ==
  ASSUME lastHeader \in Row, lastHeader.height = Depth[lastHeader.hash],
         NEW batch \in Seq(Block), batch # <<>>, InOrder(batch),
         NEW b \in Block, Stretch(batch, b)
  PROVE  /\ batch[Len(batch)] = b
         /\ Continues(batch, lastHeader, b)
         /\ lastHeader.height + Len(batch) = Depth[b]
<1>1. PICK base \in 0 .. Depth[b] :
        /\ Depth[b] = base + Len(batch)
        /\ \A i \in 1 .. Len(batch) : batch[i] = Branch[b][base + i]
  BY DEF Stretch
<1>2. Len(batch) \in Nat \ {0} /\ Depth[b] \in Nat /\ base \in Nat
  BY DepthNat
<1>3. Branch[b][Depth[b]] = b
  BY BranchAssumption
<1>4. batch[Len(batch)] = b
  BY <1>1, <1>2, <1>3
<1>5. Parent[batch[1]] = Branch[b][base]
  <2>1. base + 1 \in 1 .. Depth[b] /\ batch[1] = Branch[b][base + 1]
    BY <1>1, <1>2
  <2>2. Parent[Branch[b][base + 1]] = Branch[b][base + 1 - 1]
    BY <2>1, BranchParent
  <2>3. base + 1 - 1 = base
    BY <1>2
  <2> QED
    BY <2>1, <2>2, <2>3
<1>6. lastHeader.hash = Branch[b][base]
  BY <1>2, <1>5 DEF InOrder
<1>7. lastHeader.height = base
  BY <1>6, BranchBlock
<1> QED
  BY <1>1, <1>4, <1>6, <1>7 DEF Continues

LEMMA DataRound ==
  ASSUME TypeInv, TypeInv', HeightsInv, HeightsInv', ControlInv, ControlInv',
         DataInv, NEW r \in Round, PeerAnswers(r) \/ Syncing(r)
  PROVE  DataInv'
<1> USE DEF process, heights, queue, network
<1>0. /\ round \in [Round -> RoundState] /\ round[r] \in RoundState
      /\ lastHeader \in Row /\ tip \in Row /\ storedTip \in Row
      /\ lastHeader.height = Depth[lastHeader.hash]
      /\ peerTip \in Block
  BY DEF TypeInv, TypeOK, HeightsInv, HeightsTrue
<1>a. round[r].pc # "idle"
  BY DEF PeerAnswers, Syncing, HeadersIgnored, OnNoHeaders, OnHeaders,
         InsertHeaders, UpdateTip, StoreTip, OnHeadersSave
<1>b. /\ phase = "run" /\ polls = 0 /\ ~Handling /\ waiting = <<>>
      /\ live.pc \in {"none", "done"}
      /\ \A s \in Round \ {r} : round[s].pc = "idle"
  BY <1>a, ActiveRound DEF Handling
<1>c. DataInv /\ peerTip' = peerTip =>
        /\ MessageInv /\ StoreInv /\ Depth[peerTip] <= Depth[peerTip']
  BY <1>0, DepthNat DEF DataInv
<1>d. round[r].pc # "insert" =>
        Ends(lastHeader.hash, Rewind) /\ tip = lastHeader
  <2>1. ASSUME round[r].pc # "insert", NEW s \in Round
        PROVE  round[s].pc # "insert"
    BY <1>b, <2>1
  <2> QED
    BY <1>b, <2>1 DEF DataInv, RestInv
<1>1. CASE PeerAnswers(r)
  <2> DEFINE a == Answer(round[r].from.hash)
  <2>1. round[r].from.hash \in Block
    BY <1>0 DEF RoundState, Row
  <2>2. /\ round'[r].pc = "answered" /\ round'[r].batch = a
        /\ \A s \in Round \ {r} : round'[s] = round[s]
        /\ UNCHANGED <<database, phase, tip, lastHeader, live, waiting,
                       running, subs, polls, peerTip>>
    BY <1>0, <1>1 DEF PeerAnswers, RoundState, control
  <2>3. a # <<>> =>
          \E b \in Block : Stretch(a, b) /\ Depth[b] <= Depth[peerTip]
    <3> SUFFICES ASSUME a # <<>>
                 PROVE  \E b \in Block : /\ Stretch(a, b)
                                         /\ Depth[b] <= Depth[peerTip]
      OBVIOUS
    <3>1. PICK base \in Nat :
            /\ base + Len(a) <= Depth[peerTip]
            /\ \A i \in 1 .. Len(a) : a[i] = Branch[peerTip][base + i]
      BY <1>0, <2>1, AnswerType
    <3>2. a \in Seq(Block)
      BY <1>0, <2>1, AnswerType
    <3> HIDE DEF a
    <3> DEFINE d == base + Len(a)
               b == Branch[peerTip][d]
    <3>3. d \in 0 .. Depth[peerTip] /\ d \in Nat /\ Depth[peerTip] \in Nat
      BY <1>0, <3>1, <3>2, DepthNat
    <3>4. b \in Block /\ Depth[b] = d
      BY <1>0, <3>3, BranchBlock
    <3>5. \A i \in 1 .. Len(a) : a[i] = Branch[b][base + i]
      <4> TAKE i \in 1 .. Len(a)
      <4>1. base + i \in 0 .. d
        BY <3>2
      <4>2. Branch[b][base + i] = Branch[peerTip][base + i]
        BY <1>0, <3>3, <4>1, BranchPrefix
      <4> QED
        BY <3>1, <4>2
    <3>6. base \in 0 .. Depth[b] /\ Depth[b] = base + Len(a)
      BY <3>2, <3>4
    <3> HIDE DEF b
    <3>7. Stretch(a, b)
      BY <3>5, <3>6 DEF Stretch
    <3> QED
      BY <3>1, <3>4, <3>7
  <2> HIDE DEF a
  <2>4. MessageInv'
    <3> SUFFICES ASSUME NEW s \in Round, round'[s].pc = "answered",
                        round'[s].batch # <<>>
                 PROVE  \E b \in Block : /\ Stretch(round'[s].batch, b)
                                         /\ Depth[b] <= Depth[peerTip']
      BY DEF MessageInv, Stretch
    <3>1. s = r
      BY <1>b, <2>2
    <3> QED
      BY <2>2, <2>3, <3>1
  <2>5. StoreInv'
    BY <1>c, <2>2, StoreSame
  <2>6. CaughtUp'
    BY <1>b, <2>2 DEF CaughtUp, Handling, Idle
  <2> QED
    BY <1>1, <2>2, <2>4, <2>5, <2>6, DataFrame DEF PeerAnswers
<1>2. CASE HeadersIgnored(r)
  BY <1>2, <1>a, ActiveRound DEF HeadersIgnored
<1>3. CASE OnNoHeaders(r)
  <2>1. /\ round'[r].pc = "store" /\ round'[r].tip = tip
        /\ \A s \in Round \ {r} : round'[s] = round[s]
        /\ UNCHANGED <<database, phase, tip, lastHeader, live, waiting,
                       polls, peerTip>>
    BY <1>0, <1>3 DEF OnNoHeaders, NoRound
  <2>2. MessageInv'
    BY <1>0, <1>c, <2>1, MessageSame
  <2>3. tip = lastHeader
    BY <1>3, <1>d DEF OnNoHeaders
  <2>4. StoreInv'
    BY <1>c, <2>1, <2>3 DEF StoreInv
  <2>5. CaughtUp'
    BY <1>b, <2>1 DEF CaughtUp, Handling, Idle
  <2> QED
    BY <1>3, <2>1, <2>2, <2>4, <2>5, DataFrame DEF OnNoHeaders
<1>4. CASE OnHeaders(r)
  <2> DEFINE batch == round[r].batch
  <2>1. CASE ~InOrder(batch)
    BY <1>4, <2>1, DataStop DEF OnHeaders, Stop
  <2>2. CASE InOrder(batch)
    <3>1. batch \in Seq(Block) /\ batch # <<>>
      BY <1>0, <1>4 DEF OnHeaders, RoundState
    <3>2. PICK b \in Block : Stretch(batch, b)
      BY <1>4, <3>1 DEF OnHeaders, DataInv, MessageInv
    <3>3. /\ batch[Len(batch)] = b
          /\ Continues(batch, lastHeader, b)
          /\ lastHeader.height + Len(batch) = Depth[b]
      BY <1>0, <2>2, <3>1, <3>2, InOrderContinues
    <3>4. /\ round'[r].pc = "insert" /\ round'[r].batch = batch
          /\ round'[r].from = lastHeader
          /\ \A s \in Round \ {r} : round'[s] = round[s]
      <4>1. round' = [round EXCEPT ![r].pc = "insert", ![r].from = lastHeader]
        BY <1>4, <2>2 DEF OnHeaders
      <4> QED
        BY <1>0, <4>1 DEF RoundState
    <3>5. /\ lastHeader' = [height |-> Depth[b], hash |-> b]
          /\ tip' = lastHeader'
          /\ UNCHANGED <<database, phase, live, waiting, subs, polls, peerTip>>
      BY <1>4, <2>2, <3>3 DEF OnHeaders
    <3> HIDE DEF batch
    <3>6. Ends(lastHeader.hash, Rewind)
      BY <1>4, <1>d DEF OnHeaders
    <3>7. InsertInv'
      <4> SUFFICES ASSUME NEW s \in Round, round'[s].pc = "insert"
                   PROVE  /\ rows' = RowsOf(round'[s].from.hash)
                          /\ storedTip'.height
                               <= Depth[round'[s].from.hash] + Rewind
                          /\ Continues(round'[s].batch, round'[s].from,
                                       lastHeader'.hash)
                          /\ tip' = lastHeader'
        BY DEF InsertInv, Ends, Continues
      <4>1. s = r
        BY <1>b, <3>4
      <4> QED
        BY <3>3, <3>4, <3>5, <3>6, <4>1 DEF Ends, database
    <3>8. StoredTrue' /\ TableInv'
      BY <3>5 DEF DataInv, StoredTrue, TableInv, Ends, database
    <3>9. StartInv'
      BY <1>b, <3>5 DEF StartInv
    <3>10. MessageInv'
      BY <1>0, <1>c, <3>4, <3>5, MessageSame
    <3>11. StoreInv'
      BY <1>b, <3>4, <3>5 DEF StoreInv
    <3>12. SaveInv' /\ RewindInv'
      BY <1>b, <3>5 DEF SaveInv, RewindInv
    <3>13. RestInv'
      BY <3>4 DEF RestInv
    <3>14. CaughtUp'
      BY <1>b, <3>4, <3>5 DEF CaughtUp, Handling, Idle
    <3> QED
      BY <3>7, <3>8, <3>9, <3>10, <3>11, <3>12, <3>13, <3>14 DEF DataInv
  <2> QED
    BY <2>1, <2>2
<1>5. CASE InsertHeaders(r)
  <2> DEFINE from == round[r].from
             batch == round[r].batch
             b == lastHeader.hash
             new == NewRows(from, batch)
  <2>1. CASE Duplicate(new)
    BY <1>5, <2>1, DataStop DEF InsertHeaders, Stop
  <2>2. CASE ~Duplicate(new)
    <3>1. from \in Row /\ batch \in Seq(Block) /\ b \in Block
      BY <1>0 DEF RoundState, Row
    <3>2. Ends(from.hash, Rewind) /\ Continues(batch, from, b) /\ tip = lastHeader
      BY <1>5 DEF InsertHeaders, DataInv, InsertInv
    <3>3. from.height = Depth[from.hash]
      <4>1. from.height \in 0 .. Depth[b] /\ from.hash = Branch[b][from.height]
        BY <3>1, <3>2, DepthNat DEF Continues, Row
      <4> QED
        BY <3>1, <4>1, BranchBlock
    <3>4. RowsOf(b) = RowsOf(from.hash) \cup new
      BY <3>1, <3>2, <3>3, RowsOfContinued
    <3>5. /\ round'[r].pc = "inserted"
          /\ \A s \in Round \ {r} : round'[s] = round[s]
          /\ rows' = rows \cup new
          /\ UNCHANGED <<storedTip, phase, tip, lastHeader, live, waiting,
                         subs, polls, peerTip>>
      BY <1>0, <1>5, <2>2 DEF InsertHeaders, NoRound, control
    <3>6. rows' = RowsOf(b) /\ storedTip'.height <= Depth[b] + Rewind
      <4>1. Depth[from.hash] <= Depth[b]
        BY <3>1, <3>2, <3>3, DepthNat DEF Continues, Row
      <4>2. storedTip.height <= Depth[b] + Rewind
        BY <1>0, <3>1, <3>2, <4>1, DepthNat, ParameterAssumption
        DEF Ends, Row
      <4> QED
        BY <3>2, <3>4, <3>5, <4>2 DEF Ends
    <3> HIDE DEF from, batch, new
    <3>7. StoredTrue' /\ TableInv'
      BY <3>1, <3>5, <3>6 DEF DataInv, StoredTrue, TableInv, Ends
    <3>8. StartInv' /\ SaveInv' /\ RewindInv'
      BY <1>b, <3>5 DEF StartInv, SaveInv, RewindInv
    <3>9. MessageInv'
      BY <1>0, <1>c, <3>5, MessageSame
    <3>10. InsertInv' /\ StoreInv'
      BY <1>b, <3>5 DEF InsertInv, StoreInv
    <3>11. RestInv'
      BY <3>2, <3>5, <3>6 DEF RestInv, Ends
    <3>12. CaughtUp'
      BY <1>b, <3>5 DEF CaughtUp, Handling, Idle
    <3> QED
      BY <3>7, <3>8, <3>9, <3>10, <3>11, <3>12 DEF DataInv
  <2> QED
    BY <2>1, <2>2
<1>6. CASE UpdateTip(r)
  <2>1. /\ round'[r].pc = "store" /\ round'[r].tip = tip
        /\ \A s \in Round \ {r} : round'[s] = round[s]
        /\ UNCHANGED <<database, phase, tip, lastHeader, live, waiting,
                       subs, polls, peerTip>>
    BY <1>0, <1>6 DEF UpdateTip, RoundState, control
  <2>2. MessageInv'
    BY <1>0, <1>c, <2>1, MessageSame
  <2>3. tip = lastHeader
    BY <1>6, <1>d DEF UpdateTip
  <2>4. StoreInv'
    BY <1>c, <2>1, <2>3 DEF StoreInv
  <2>5. CaughtUp'
    BY <1>b, <2>1 DEF CaughtUp, Handling, Idle
  <2> QED
    BY <1>6, <2>1, <2>2, <2>4, <2>5, DataFrame DEF UpdateTip
<1>7. CASE StoreTip(r)
  <2>1. /\ round'[r].pc = "stored"
        /\ \A s \in Round \ {r} : round'[s] = round[s]
        /\ storedTip' = round[r].tip
        /\ UNCHANGED <<rows, phase, tip, lastHeader, live, waiting, subs,
                       polls, peerTip>>
    BY <1>0, <1>7 DEF StoreTip, NoRound, control
  <2>2. storedTip' = lastHeader /\ Ends(lastHeader.hash, Rewind)
        /\ tip = lastHeader
    BY <1>7, <1>d, <2>1 DEF StoreTip, DataInv, StoreInv
  <2>3. lastHeader.hash \in Block /\ lastHeader.height \in Nat
    BY <1>0 DEF Row
  <2>4. rows' = RowsOf(lastHeader.hash)
        /\ storedTip'.height <= Depth[lastHeader.hash] + Rewind
    BY <1>0, <2>1, <2>2, <2>3, ParameterAssumption DEF Ends
  <2>5. StoredTrue' /\ TableInv'
    BY <1>0, <2>1, <2>2, <2>3, <2>4 DEF StoredTrue, TableInv, Ends
  <2>6. StartInv' /\ SaveInv' /\ RewindInv'
    BY <1>b, <2>1 DEF StartInv, SaveInv, RewindInv
  <2>7. MessageInv'
    BY <1>0, <1>c, <2>1, MessageSame
  <2>8. InsertInv' /\ StoreInv'
    BY <1>b, <2>1 DEF InsertInv, StoreInv
  <2>9. RestInv'
    BY <2>1, <2>2, <2>4 DEF RestInv, Ends
  <2>10. CaughtUp'
    BY <2>1, <2>2, <2>3 DEF CaughtUp
  <2> QED
    BY <2>5, <2>6, <2>7, <2>8, <2>9, <2>10 DEF DataInv
<1>8. CASE OnHeadersSave(r)
  <2>1. /\ round'[r].pc \in {"idle", "asked"}
        /\ \A s \in Round \ {r} : round'[s] = round[s]
        /\ UNCHANGED <<database, phase, tip, lastHeader, live, waiting,
                       polls, peerTip>>
    <3>1. CASE Sync(r)
      BY <1>0, <1>8, <3>1 DEF OnHeadersSave, Sync, NoRound
    <3>2. CASE round' = [round EXCEPT ![r] = NoRound]
      BY <1>0, <1>8, <3>2 DEF OnHeadersSave, NoRound
    <3> QED
      BY <1>8, <3>1, <3>2 DEF OnHeadersSave
  <2>2. MessageInv'
    BY <1>0, <1>c, <2>1, MessageSame
  <2>3. StoreInv'
    BY <1>c, <2>1, StoreSame
  <2>4. storedTip.height <= lastHeader.height
    BY <1>8, <1>b DEF OnHeadersSave, DataInv, CaughtUp
  <2>5. CaughtUp'
    BY <2>1, <2>4 DEF CaughtUp, database
  <2> QED
    BY <1>8, <2>1, <2>2, <2>3, <2>5, DataFrame DEF OnHeadersSave
<1> QED
  BY <1>1, <1>2, <1>3, <1>4, <1>5, <1>6, <1>7, <1>8 DEF Syncing

LEMMA DataSyncing ==
  ASSUME TypeInv, TypeInv', ControlInv, DataInv, Poll \/ ServicesNotified
  PROVE  DataInv'
<1> USE DEF process, heights, queue, network
<1>0. /\ round \in [Round -> RoundState] /\ peerTip \in Block
      /\ Depth[peerTip] <= Depth[peerTip]
  BY DepthNat DEF TypeInv, TypeOK
<1>1. CASE ServicesNotified
  <2>1. UNCHANGED <<database, phase, tip, lastHeader, round, live, waiting,
                    subs, polls, peerTip>>
    BY <1>1 DEF ServicesNotified
  <2>2. MessageInv' /\ StoreInv'
    BY <1>0, <2>1, MessageSame, StoreSame DEF DataInv
  <2>3. CaughtUp'
    BY <2>1 DEF DataInv, CaughtUp, Handling, Idle, database
  <2> QED
    BY <2>1, <2>2, <2>3, DataFrame
<1>2. CASE Poll
  <2>1. CASE Stop("needed")
    BY <1>2, <2>1, DataStop DEF Poll, Stop
  <2>2. CASE ~Stop("needed")
    <3>1. /\ UNCHANGED <<database, phase, tip, lastHeader, live, waiting,
                         peerTip>>
          /\ \/ UNCHANGED <<round, subs>>
             \/ \E r \in Round : Sync(r)
      BY <1>2, <2>2, Zenon DEF Poll
    <3>2. Idle /\ ~Handling /\ waiting = <<>> /\ "block" \notin subs
      BY <1>2 DEF Poll, ControlInv, PollAlone
    <3>3. \A s \in Round : round'[s] = round[s] \/ round'[s].pc = "asked"
      BY <1>0, <3>1 DEF Sync, NoRound
    <3>4. "block" \notin subs'
      BY <3>1, <3>2 DEF Sync
    <3>5. MessageInv' /\ StoreInv'
      BY <1>0, <3>1, <3>3, MessageSame, StoreSame DEF DataInv
    <3>6. CaughtUp'
      BY <3>1, <3>2, <3>3, <3>4 DEF CaughtUp, Handling, Idle
    <3>7. \A s \in Round : \/ round'[s] = round[s]
                           \/ round[s].pc # "insert" /\ round'[s].pc # "insert"
      BY <3>2, <3>3 DEF Idle
    <3> QED
      BY <3>1, <3>5, <3>6, <3>7, DataFrame
  <2> QED
    BY <2>1, <2>2
<1> QED
  BY <1>1, <1>2

\* The table and the last header as the handling of a block finds them.
LEMMA HandlingRest ==
  ASSUME TypeInv, HeightsInv, ControlInv, DataInv, Handling
  PROVE  /\ Idle /\ phase = "run" /\ polls = 0
         /\ live.pc # "find" => storedTip.height <= lastHeader.height
         /\ live.pc \notin {"save", "destroy", "find"} =>
              rows = RowsOf(lastHeader.hash) /\ tip = lastHeader
         /\ lastHeader \in Row /\ lastHeader.height = Depth[lastHeader.hash]
         /\ lastHeader.hash \in Block /\ lastHeader.height \in Nat
         /\ storedTip.height \in Nat
<1>1. Idle /\ phase = "run" /\ polls = 0
  BY HandlingAlone
<1>2. lastHeader \in Row /\ lastHeader.height = Depth[lastHeader.hash]
      /\ storedTip \in Row
  BY DEF TypeInv, TypeOK, HeightsInv, HeightsTrue
<1>3. live.pc # "find" => storedTip.height <= lastHeader.height
  BY DEF DataInv, CaughtUp
<1>4. live.pc \notin {"save", "destroy", "find"} =>
        rows = RowsOf(lastHeader.hash) /\ tip = lastHeader
  BY <1>1 DEF DataInv, RestInv, Ends, Idle
<1> QED
  BY <1>1, <1>2, <1>3, <1>4 DEF Row

LEMMA DataFollowing ==
  ASSUME TypeInv, TypeInv', HeightsInv, HeightsInv', ControlInv, ControlInv',
         DataInv, CalmPeer, DeliverBlock \/ Following
  PROVE  DataInv'
<1> USE DEF process, heights, queue, network, control
<1>0. /\ live \in LiveState /\ peerTip \in Block
      /\ round \in [Round -> RoundState]
      /\ Depth[peerTip] <= Depth[peerTip]
  BY DepthNat DEF TypeInv, TypeOK
<1>1. CASE DeliverBlock
  <2>1. /\ UNCHANGED <<database, phase, tip, lastHeader, round, subs, polls,
                       peerTip>>
        /\ \/ UNCHANGED <<waiting, live>>
           \/ "block" \in subs /\ Calm
        /\ live' = live \/ (running = NoBlock /\ live' = Entry)
    BY <1>1 DEF DeliverBlock
  <2>2. live' = live \/ (live.pc = "none" /\ live'.pc \in {"done", "lookup"})
    BY <2>1, TreeAssumption DEF Entry, NoCall, TypeInv, LiveBlock
  <2>3. MessageInv' /\ StoreInv'
    BY <1>0, <2>1, <2>2, MessageSame, StoreSame DEF DataInv
  <2>4. CaughtUp'
    <3>1. CASE UNCHANGED <<waiting, live>>
      BY <2>1, <3>1 DEF DataInv, CaughtUp, Handling, Idle, database
    <3>2. CASE "block" \in subs /\ Calm
      <4>1. Idle
        BY <3>2 DEF Calm, Idle
      <4>2. CASE live.pc = "find"
        BY <2>1, <2>2, <4>2 DEF CaughtUp
      <4>3. CASE live.pc # "find"
        BY <2>1, <3>2, <4>1, <4>3 DEF DataInv, CaughtUp, database
      <4> QED
        BY <4>2, <4>3
    <3> QED
      BY <2>1, <3>1, <3>2
  <2> QED
    BY <2>1, <2>2, <2>3, <2>4, DataFrame
<1>2. CASE LookupBlock \/ UpdateLiveTip
  <2>1. /\ UNCHANGED <<database, phase, tip, lastHeader, round, peerTip>>
        /\ \/ live.pc = "lookup" /\ live'.pc \in {"done", "absent"}
           \/ /\ live.pc = "saved" /\ live'.pc = "store"
              /\ live'.row = tip
    BY <1>0, <1>2 DEF LookupBlock, UpdateLiveTip, LiveState
  <2>2. /\ tip = lastHeader /\ Idle
        /\ storedTip.height <= lastHeader.height
    BY <2>1, HandlingRest DEF Handling
  <2>3. MessageInv' /\ StoreInv'
    BY <1>0, <2>1, <2>2, MessageSame DEF DataInv, StoreInv
  <2>4. CaughtUp'
    BY <2>1, <2>2 DEF CaughtUp, database
  <2> QED
    BY <2>1, <2>3, <2>4, DataFrame
<1>3. CASE ExtendHeader
  <2>1. Handling
    BY <1>3 DEF ExtendHeader, Handling
  <2>2. running \in Block /\ Parent[running] = lastHeader.hash
    BY <1>3, <2>1, HandlingAlone DEF ExtendHeader
  <2>3. /\ lastHeader'.hash = running /\ tip' = lastHeader'
        /\ lastHeader'.height = lastHeader.height + 1
        /\ live'.pc = "save" /\ live'.row = lastHeader'
        /\ UNCHANGED <<database, phase, round>>
    BY <1>0, <1>3 DEF ExtendHeader, LiveState
  <2>4. /\ Idle /\ phase = "run" /\ storedTip.height <= lastHeader.height
        /\ rows = RowsOf(lastHeader.hash)
        /\ lastHeader.height = Depth[lastHeader.hash]
        /\ lastHeader.hash \in Block /\ lastHeader.height \in Nat
        /\ storedTip.height \in Nat
    BY <1>3, <2>1, HandlingRest DEF ExtendHeader
  <2>5. SaveInv'
    BY <2>2, <2>3, <2>4 DEF SaveInv, Ends, database
  <2>6. StoredTrue' /\ TableInv'
    BY <2>3 DEF DataInv, StoredTrue, TableInv, Ends, database
  <2>7. CaughtUp'
    <3>1. storedTip.height <= lastHeader.height + 1
      BY <2>4
    <3> QED
      BY <2>3, <3>1 DEF CaughtUp, database
  <2>8. RewindInv' /\ RestInv' /\ Idle' /\ phase' = "run"
    BY <2>3, <2>4 DEF RewindInv, RestInv, Idle
  <2> QED
    BY <2>3, <2>5, <2>6, <2>7, <2>8, DataLive
<1>4. CASE DetectReorg
  <2> DEFINE back == Checkpoint(tip)
  <2>1. Handling
    BY <1>4 DEF DetectReorg, Handling
  <2>2. /\ tip' = back /\ live'.pc = "destroy" /\ live'.row = back
        /\ UNCHANGED <<database, phase, round, lastHeader>>
    BY <1>0, <1>4 DEF DetectReorg, LiveState
  <2>3. /\ Idle /\ phase = "run" /\ storedTip.height <= lastHeader.height
        /\ rows = RowsOf(lastHeader.hash) /\ tip = lastHeader
        /\ lastHeader.height = Depth[lastHeader.hash]
        /\ lastHeader.hash \in Block /\ lastHeader.height \in Nat
        /\ storedTip.height \in Nat
    BY <1>4, <2>1, HandlingRest DEF DetectReorg
  <2>4. back.height <= lastHeader.height
        /\ lastHeader.height <= back.height + Rewind
    BY <2>3, ParameterAssumption DEF Checkpoint, GenesisRow
  <2> HIDE DEF back
  <2>5. RewindInv'
    BY <2>2, <2>3, <2>4 DEF RewindInv, Ends, database
  <2>6. StoredTrue' /\ TableInv'
    BY <2>2 DEF DataInv, StoredTrue, TableInv, Ends, database
  <2>7. CaughtUp'
    BY <2>2, <2>3 DEF CaughtUp, database
  <2>8. SaveInv' /\ RestInv' /\ Idle' /\ phase' = "run"
    BY <2>2, <2>3 DEF SaveInv, RestInv, Idle
  <2> QED
    BY <2>2, <2>5, <2>6, <2>7, <2>8, DataLive
<1>5. CASE SaveHeader
  <2>1. CASE Duplicate({live.row})
    BY <1>5, <2>1, DataStop DEF SaveHeader, Stop
  <2>2. CASE ~Duplicate({live.row})
    <3> DEFINE b == lastHeader.hash
    <3>1. Handling
      BY <1>5 DEF SaveHeader, Handling
    <3>2. /\ rows' = rows \cup {live.row} /\ live'.pc = "saved"
          /\ UNCHANGED <<storedTip, phase, round, lastHeader, tip>>
      BY <1>5, <2>2 DEF SaveHeader, NoCall
    <3>3. /\ Idle /\ phase = "run" /\ storedTip.height <= lastHeader.height
          /\ lastHeader = [height |-> Depth[b], hash |-> b]
          /\ b \in Block /\ Depth[b] \in Nat /\ storedTip.height \in Nat
      BY <1>5, <3>1, HandlingRest, DepthNat DEF SaveHeader, Row
    <3>4. /\ Parent[b] \in Block /\ rows = RowsOf(Parent[b])
          /\ live.row = lastHeader /\ tip = lastHeader
      BY <1>5 DEF SaveHeader, DataInv, SaveInv, Ends
    <3>5. rows' = RowsOf(b)
      <4> DEFINE from == [height |-> Depth[Parent[b]], hash |-> Parent[b]]
      <4>1. Continues(<<b>>, from, b)
            /\ NewRows(from, <<b>>) = {[height |-> Depth[b], hash |-> b]}
        BY <3>3, <3>4, ParentContinued
      <4>2. from \in Row /\ <<b>> \in Seq(Block)
            /\ from.height = Depth[from.hash] /\ from.hash = Parent[b]
        BY <3>3, <3>4, DepthNat DEF Row
      <4> HIDE DEF from
      <4>3. RowsOf(b) = RowsOf(from.hash) \cup NewRows(from, <<b>>)
        BY <3>3, <4>1, <4>2, RowsOfContinued
      <4> QED
        BY <3>2, <3>3, <3>4, <4>1, <4>2, <4>3
    <3> HIDE DEF b
    <3>6. storedTip'.height <= Depth[b] + Rewind
          /\ storedTip'.height <= lastHeader'.height
      BY <3>2, <3>3, ParameterAssumption
    <3>7. StoredTrue' /\ TableInv'
      BY <3>2, <3>3, <3>5, <3>6 DEF DataInv, StoredTrue, TableInv, Ends
    <3>8. SaveInv' /\ RewindInv' /\ Idle' /\ phase' = "run" /\ CaughtUp'
      BY <3>2, <3>3, <3>6 DEF SaveInv, RewindInv, Idle, CaughtUp
    <3>9. RestInv'
      BY <3>2, <3>4, <3>5, <3>6 DEF RestInv, Ends, b
    <3> QED
      BY <3>2, <3>7, <3>8, <3>9, DataLive
  <2> QED
    BY <2>1, <2>2
<1>6. CASE StoreLiveTip
  <2>1. Handling
    BY <1>6 DEF StoreLiveTip, Handling
  <2>2. /\ live'.pc = "done" /\ storedTip' = live.row
        /\ UNCHANGED <<rows, phase, round, lastHeader, tip>>
    BY <1>6 DEF StoreLiveTip, NoCall
  <2>3. live.row = lastHeader
    BY <1>6 DEF StoreLiveTip, DataInv, StoreInv
  <2>4. /\ Idle /\ phase = "run"
        /\ rows = RowsOf(lastHeader.hash) /\ tip = lastHeader
        /\ lastHeader.height = Depth[lastHeader.hash]
        /\ lastHeader.hash \in Block /\ lastHeader.height \in Nat
    BY <1>6, <2>1, HandlingRest DEF StoreLiveTip
  <2>5. storedTip'.height <= Depth[lastHeader.hash] + Rewind
        /\ storedTip'.height <= lastHeader'.height
    BY <2>2, <2>3, <2>4, ParameterAssumption
  <2>6. StoredTrue' /\ TableInv' /\ RestInv'
    BY <2>2, <2>3, <2>4, <2>5 DEF StoredTrue, TableInv, RestInv, Ends
  <2>7. SaveInv' /\ RewindInv' /\ Idle' /\ phase' = "run" /\ CaughtUp'
    BY <2>2, <2>4, <2>5 DEF SaveInv, RewindInv, Idle, CaughtUp
  <2> QED
    BY <2>2, <2>6, <2>7, DataLive
<1>7. CASE DestroyHeaders
  <2> DEFINE c == Branch[lastHeader.hash][tip.height]
  <2>1. Handling
    BY <1>7 DEF DestroyHeaders, Handling
  <2>2. /\ live'.pc = "find"
        /\ rows' = {r \in rows : r.height <= live.row.height}
        /\ UNCHANGED <<storedTip, phase, round, lastHeader, tip>>
    BY <1>7 DEF DestroyHeaders, NoCall
  <2>3. /\ Idle /\ phase = "run" /\ storedTip.height <= lastHeader.height
        /\ lastHeader.height = Depth[lastHeader.hash]
        /\ lastHeader.hash \in Block /\ lastHeader.height \in Nat
        /\ storedTip.height \in Nat
    BY <1>7, <2>1, HandlingRest DEF DestroyHeaders
  <2>4. /\ rows = RowsOf(lastHeader.hash) /\ live.row = tip
        /\ tip.height <= lastHeader.height
        /\ lastHeader.height <= tip.height + Rewind
    BY <1>7 DEF DestroyHeaders, DataInv, RewindInv, Ends
  <2>5. tip.height \in 0 .. Depth[lastHeader.hash]
    BY <2>3, <2>4 DEF TypeInv, TypeOK, Row
  <2>6. c \in Block /\ Depth[c] = tip.height
    BY <2>3, <2>5, BranchBlock
  <2>7. rows' = RowsOf(c)
    BY <2>2, <2>3, <2>4, <2>5, RowsOfCut
  <2> HIDE DEF c
  <2>8. storedTip'.height <= Depth[c] + Rewind
    BY <2>2, <2>3, <2>4, <2>5, <2>6, ParameterAssumption
  <2>9. StoredTrue' /\ TableInv' /\ RewindInv'
    BY <2>2, <2>6, <2>7, <2>8
    DEF DataInv, StoredTrue, TableInv, RewindInv, Ends
  <2>10. SaveInv' /\ RestInv' /\ Idle' /\ phase' = "run" /\ CaughtUp'
    BY <2>2, <2>3 DEF SaveInv, RestInv, Idle, CaughtUp
  <2> QED
    BY <2>2, <2>9, <2>10, DataLive
<1>8. CASE FindHeader
  <2>0. PICK b \in Block : Ends(b, Rewind) /\ Depth[b] = tip.height
    BY <1>8 DEF FindHeader, DataInv, RewindInv
  <2>1. CASE \E r \in rows : r.height = tip.height
    <3>1. PICK r \in rows : /\ r.height = tip.height
                            /\ lastHeader' = r
                            /\ tip' = r
      BY <1>8, <2>1 DEF FindHeader
    <3>2. /\ StartSync /\ live'.pc = "done"
          /\ UNCHANGED <<database, phase, round, waiting>>
      BY <1>0, <1>8, <2>1 DEF FindHeader, LiveState
    <3>3. r.hash = b
      BY <2>0, <3>1, RowsOfEnd DEF Ends
    <3>4. Idle /\ phase = "run" /\ polls = 0
      BY <1>8, HandlingAlone DEF FindHeader, Handling
    <3>5. polls' # 0 /\ subs' = {}
      BY <3>2, <3>4 DEF StartSync
    <3>6. StoredTrue' /\ TableInv' /\ RestInv'
      BY <2>0, <3>1, <3>2, <3>3
      DEF DataInv, StoredTrue, TableInv, RestInv, Ends, database
    <3>7. SaveInv' /\ RewindInv' /\ Idle' /\ phase' = "run" /\ CaughtUp'
      BY <3>2, <3>4, <3>5 DEF SaveInv, RewindInv, Idle, CaughtUp, Handling
    <3> QED
      BY <3>2, <3>6, <3>7, DataLive
  <2>2. CASE ~ \E r \in rows : r.height = tip.height
    BY <1>8, <2>2, DataStop DEF FindHeader, Stop
  <2> QED
    BY <2>1, <2>2
<1>9. CASE FinishBlock
  <2>1. /\ UNCHANGED <<database, phase, tip, lastHeader, round, subs, polls,
                       peerTip>>
        /\ live.pc = "done"
        /\ live' = IF waiting = <<>> THEN NoCall ELSE Entry
        /\ waiting = <<>> => waiting' = <<>>
    BY <1>9 DEF FinishBlock, Queue!Resolve
  <2>2. live'.pc \in {"none", "done", "lookup"}
    BY <2>1 DEF Entry, NoCall
  <2>3. MessageInv' /\ StoreInv'
    BY <1>0, <2>1, <2>2, MessageSame, StoreSame DEF DataInv
  <2>4. CaughtUp'
    <3>1. CASE waiting = <<>>
      BY <2>1, <3>1 DEF DataInv, CaughtUp, Handling, Idle, NoCall, database
    <3>2. CASE waiting # <<>> /\ polls = 0
      BY <2>1, <3>2 DEF DataInv, CaughtUp, database
    <3>3. CASE waiting # <<>> /\ polls # 0
      <4>1. running \in Block
        BY <2>1 DEF TypeInv, LiveBlock
      <4>2. reorging /\ "block" \notin subs /\ Idle
        BY <3>3, <4>1, TreeAssumption
        DEF ControlInv, PollAlone, TypeInv, TypeOK
      <4>3. live'.pc = "done"
        BY <2>1, <3>3, <4>2 DEF Entry, NoCall
      <4> QED
        BY <2>1, <3>3, <4>2, <4>3 DEF CaughtUp, Handling, Idle
    <3> QED
      BY <3>1, <3>2, <3>3
  <2> QED
    BY <2>1, <2>2, <2>3, <2>4, DataFrame
<1> QED
  BY <1>1, <1>2, <1>3, <1>4, <1>5, <1>6, <1>7, <1>8, <1>9 DEF Following

LEMMA DataEnvironment ==
  ASSUME TypeInv, TypeInv', ControlInv, DataInv, CalmPeer, MaxOthers = 0,
         Environment
  PROVE  DataInv'
<1> USE DEF process, heights, queue, network, control, counters
<1>0. /\ peerTip \in Block /\ peerTip' \in Block
      /\ round \in [Round -> RoundState]
      /\ Depth[peerTip] \in Nat
  BY DepthNat DEF TypeInv, TypeOK
<1>1. CASE PeerReady \/ Reconnect
  <2>1. /\ UNCHANGED <<database, phase, tip, lastHeader, live, waiting,
                       peerTip>>
        /\ StartSync
    BY <1>1 DEF PeerReady, Reconnect
  <2>2. ~Handling /\ waiting = <<>> /\ polls = 0
        /\ \A s \in Round : round[s].pc \in {"idle", "asked", "answered"}
    <3>1. CASE PeerReady
      <4>1. Fresh
        BY <3>1 DEF PeerReady, ControlInv, FreshBefore
      <4> QED
        BY <4>1, TreeAssumption DEF Fresh, Idle, Handling, TypeInv, LiveBlock
    <3>2. CASE Reconnect
      <4>1. Settled /\ running = NoBlock
        BY <3>2 DEF Reconnect, Settled, TypeInv, TypeOK, LiveBlock
      <4> QED
        BY <4>1 DEF Settled, Handling, ControlInv, WaitBehind
    <3> QED
      BY <1>1, <3>1, <3>2
  <2>3. \A s \in Round : round'[s] = round[s] \/ round'[s].pc = "idle"
    BY <1>0, <1>1 DEF PeerReady, Reconnect, NoRound
  <2>4. MessageInv' /\ StoreInv'
    BY <1>0, <2>1, <2>3, MessageSame, StoreSame DEF DataInv
  <2>5. CaughtUp'
    BY <2>1, <2>2, <2>3 DEF StartSync, CaughtUp, Handling
  <2>6. \A s \in Round : round[s].pc # "insert" /\ round'[s].pc # "insert"
    BY <2>2, <2>3
  <2> QED
    BY <2>1, <2>4, <2>5, <2>6, DataFrame
<1>2. CASE OtherPeerReady
  BY <1>2 DEF OtherPeerReady, TypeInv, TypeOK
<1>3. CASE PeerAdopts \/ PeerServes
  <2>1. /\ UNCHANGED <<database, phase, tip, lastHeader, round, live,
                       waiting, subs, polls>>
        /\ peerTip' = peerTip \/ Depth[peerTip'] > Depth[peerTip]
    BY <1>3 DEF PeerAdopts, PeerServes
  <2>2. Depth[peerTip] <= Depth[peerTip']
    BY <1>0, <2>1, DepthNat
  <2>3. MessageInv' /\ StoreInv'
    BY <1>0, <2>1, <2>2, MessageSame, StoreSame DEF DataInv
  <2>4. CaughtUp'
    BY <2>1 DEF DataInv, CaughtUp, Handling, Idle, database
  <2> QED
    BY <2>1, <2>3, <2>4, DataFrame
<1>4. CASE Crash
  BY <1>4, DataStop DEF Crash, Stop
<1> QED
  BY <1>1, <1>2, <1>3, <1>4 DEF Environment

-----------------------------------------------------------------------------
(* No block is above the peer's best one.                                  *)

LEMMA ReachStop ==
  ASSUME TypeInv', ReachInv, Boot, UNCHANGED <<storedTip, peerTip>>
  PROVE  ReachInv'
<1>1. peerTip' \in Block /\ Depth[peerTip'] \in Nat
  BY DepthNat DEF TypeInv, TypeOK
<1>2. /\ tip'.height = 0 /\ lastHeader'.height = 0 /\ polls' = 0
      /\ waiting' = <<>> /\ inbox' = <<>> /\ running' = NoBlock
      /\ live'.pc = "none"
  BY DEF Boot, GenesisRow, NoCall
<1> QED
  BY <1>1, <1>2, TreeAssumption DEF ReachInv

\* A step that moves no block and sets no interval.
LEMMA ReachFrame ==
  ASSUME ReachInv,
         UNCHANGED <<peerTip, waiting, running, inbox, bestHeight>>,
         storedTip'.height <= Depth[peerTip],
         tip'.height <= Depth[peerTip],
         lastHeader'.height <= Depth[peerTip],
         polls' = 0 \/ UNCHANGED <<polls, tip, originalHeight>>,
         live'.pc \in {"destroy", "find"} => originalHeight' >= tip'.height
  PROVE  ReachInv'
  BY DEF ReachInv

LEMMA ReachStarting ==
  ASSUME TypeInv, TypeInv', ControlInv, DataInv, ReachInv, Starting
  PROVE  ReachInv'
<1> USE DEF database, heights, queue, network, control
<1>1. CASE Boot
  BY <1>1, ReachStop
  DEF Starting, Start, TruncateHeaders, CreateGenesis, DestroyAboveTip,
      FindCheckpoint
<1>2. CASE ~Boot
  <2>1. Fresh
    BY DEF Starting, Start, TruncateHeaders, CreateGenesis, DestroyAboveTip,
           FindCheckpoint, ControlInv, FreshBefore
  <2>2. polls = 0 /\ live.pc = "none"
    BY <2>1, TreeAssumption DEF Fresh, TypeInv, LiveBlock
  <2>3. /\ storedTip \in Row /\ tip \in Row /\ peerTip \in Block
        /\ Depth[peerTip] \in Nat
    BY DepthNat DEF TypeInv, TypeOK
  <2>4. UNCHANGED <<storedTip, peerTip, waiting, running, inbox, bestHeight,
                    polls, live>>
    BY <1>2 DEF Starting, Start, TruncateHeaders, CreateGenesis,
                DestroyAboveTip, FindCheckpoint, Stop
  <2>5. Checkpoint(storedTip).height <= storedTip.height
    BY <2>3, ParameterAssumption DEF Checkpoint, GenesisRow, Row
  <2>6. Checkpoint(storedTip).height \in Nat
    BY <2>3, CheckpointType DEF Row
  <2>7. tip'.height <= Depth[peerTip]
    <3>1. \/ tip' = Checkpoint(storedTip) \/ tip' = tip
          \/ tip'.height = tip.height
      BY <1>2 DEF Starting, Start, TruncateHeaders, CreateGenesis,
                  DestroyAboveTip, FindCheckpoint, Stop
    <3> QED
      BY <2>3, <2>5, <2>6, <3>1 DEF ReachInv, Row
  <2>8. lastHeader'.height <= Depth[peerTip]
    <3>1. \/ lastHeader' = lastHeader \/ lastHeader' = GenesisRow
          \/ lastHeader'.height = tip.height
      BY <1>2 DEF Starting, Start, TruncateHeaders, CreateGenesis,
                  DestroyAboveTip, FindCheckpoint, Stop
    <3> QED
      BY <2>3, <3>1 DEF ReachInv, GenesisRow
  <2> QED
    BY <2>2, <2>4, <2>7, <2>8, ReachFrame DEF ReachInv
<1> QED
  BY <1>1, <1>2

LEMMA ReachRound ==
  ASSUME TypeInv, TypeInv', HeightsInv', ControlInv, DataInv, DataInv',
         ReachInv, NEW r \in Round, PeerAnswers(r) \/ Syncing(r)
  PROVE  ReachInv'
<1> USE DEF database, heights, queue, network, control
<1>0. /\ round[r].pc # "idle" /\ round[r] \in RoundState
      /\ Depth[peerTip] \in Nat
  BY DepthNat
  DEF PeerAnswers, Syncing, HeadersIgnored, OnNoHeaders, OnHeaders,
      InsertHeaders, UpdateTip, StoreTip, OnHeadersSave, TypeInv, TypeOK
<1>1. /\ polls = 0 /\ ~Handling /\ lastHeader.height <= Depth[peerTip]
      /\ phase = "run"
  BY <1>0, ActiveRound DEF ReachInv
<1>2. CASE phase' = "down"
  BY <1>1, <1>2, ReachStop
  DEF process, Stop, PeerAnswers, Syncing, HeadersIgnored, OnNoHeaders, OnHeaders,
      InsertHeaders, UpdateTip, StoreTip, OnHeadersSave
<1>3. CASE OnHeaders(r) /\ phase' # "down"
  <2> DEFINE batch == round[r].batch
  <2>1. /\ batch # <<>> /\ InOrder(batch)
        /\ lastHeader' = [height |-> lastHeader.height + Len(batch),
                          hash |-> batch[Len(batch)]]
        /\ tip' = lastHeader'
        /\ UNCHANGED <<storedTip, peerTip, waiting, running, inbox,
                       bestHeight, polls, live>>
    BY <1>3 DEF OnHeaders, Stop
  <2>2. PICK b \in Block : Stretch(batch, b) /\ Depth[b] <= Depth[peerTip]
    BY <1>3 DEF OnHeaders, DataInv, MessageInv
  <2>3. batch[Len(batch)] = b
    <3>1. batch \in Seq(Block)
      BY <1>0 DEF RoundState
    <3>2. PICK base \in 0 .. Depth[b] :
            /\ Depth[b] = base + Len(batch)
            /\ \A i \in 1 .. Len(batch) : batch[i] = Branch[b][base + i]
      BY <2>2 DEF Stretch
    <3>3. Len(batch) \in 1 .. Len(batch)
      BY <2>1, <3>1
    <3>4. Branch[b][Depth[b]] = b
      BY BranchAssumption
    <3> QED
      BY <3>2, <3>3, <3>4
  <2>4. lastHeader'.height = Depth[b]
    BY <2>1, <2>3 DEF HeightsInv, HeightsTrue
  <2> HIDE DEF batch
  <2>5. live'.pc \notin {"destroy", "find"} /\ polls' = 0
    BY <1>1, <2>1 DEF Handling
  <2> QED
    BY <2>1, <2>2, <2>4, <2>5, ReachFrame DEF ReachInv
<1>4. CASE StoreTip(r)
  <2>1. storedTip' = lastHeader
    BY <1>4 DEF StoreTip, DataInv, StoreInv
  <2> QED
    BY <1>1, <1>4, <2>1, ReachFrame DEF StoreTip, ReachInv, Handling
<1>5. CASE /\ phase' # "down"
           /\ \/ PeerAnswers(r) \/ HeadersIgnored(r) \/ OnNoHeaders(r)
              \/ InsertHeaders(r) \/ UpdateTip(r) \/ OnHeadersSave(r)
  <2>1. UNCHANGED <<storedTip, tip, lastHeader, peerTip, waiting, running,
                    inbox, bestHeight, polls, live>>
    BY <1>5 DEF PeerAnswers, HeadersIgnored, OnNoHeaders, InsertHeaders,
                UpdateTip, OnHeadersSave, Stop
  <2> QED
    BY <1>1, <2>1, ReachFrame DEF ReachInv, Handling
<1> QED
  BY <1>2, <1>3, <1>4, <1>5 DEF Syncing

LEMMA ReachSyncing ==
  ASSUME TypeInv, TypeInv', ControlInv, ReachInv, Poll \/ ServicesNotified
  PROVE  ReachInv'
<1> USE DEF database, heights, queue, network, control
<1>1. CASE Stop("needed")
  BY <1>1, ReachStop DEF Poll, ServicesNotified, Stop
<1>2. CASE ~Stop("needed")
  <2>1. UNCHANGED <<storedTip, tip, lastHeader, originalHeight, peerTip,
                    waiting, running, inbox, bestHeight, live>>
    BY <1>2, Zenon DEF Poll, ServicesNotified
  <2>2. polls' = 0 \/ polls' = polls
    <3>1. CASE ServicesNotified
      BY <3>1 DEF ServicesNotified
    <3>2. CASE Poll
      <4>1. polls = 1
        BY <3>2 DEF Poll, ControlInv, PollAlone
      <4>2. polls' = polls - 1
        BY <1>2, <3>2, Zenon DEF Poll
      <4> QED
        BY <4>1, <4>2
    <3> QED
      BY <3>1, <3>2
  <2> QED
    BY <2>1, <2>2, ReachFrame DEF ReachInv
<1> QED
  BY <1>1, <1>2

\* The blocks of the queue are below the peer's best one as well.
LEMMA ReachPush ==
  ASSUME TypeInv, ReachInv, NEW b \in Block, Depth[b] <= Depth[peerTip],
         Queue!Push(b)
  PROVE  /\ running' \in Block => Depth[running'] <= Depth[peerTip]
         /\ \A i \in 1 .. Len(waiting') : Depth[waiting'[i]] <= Depth[peerTip]
<1> DEFINE w == Append(waiting, b)
<1>1. waiting \in Seq(Block)
  BY DEF TypeInv, TypeOK
<1>2. \A i \in 1 .. Len(w) : Depth[w[i]] <= Depth[peerTip]
  BY <1>1 DEF ReachInv
<1>3. w \in Seq(Block) /\ w # <<>> /\ Len(w) \in 1 .. Len(w)
  BY <1>1, AppendType
<1> HIDE DEF w
<1>4. CASE running = NoBlock
  <2>1. running' = w[Len(w)] /\ waiting' = SubSeq(w, 1, Len(w) - 1)
    BY <1>4 DEF Queue!Push, Queue!Process, Queue!Last, Queue!Front, w
  <2> QED
    BY <1>2, <1>3, <2>1
<1>5. CASE running # NoBlock
  BY <1>2, <1>5 DEF Queue!Push, ReachInv, w
<1> QED
  BY <1>4, <1>5

LEMMA ReachResolve ==
  ASSUME TypeInv, ReachInv, Queue!Resolve
  PROVE  /\ running' \in Block => Depth[running'] <= Depth[peerTip]
         /\ \A i \in 1 .. Len(waiting') : Depth[waiting'[i]] <= Depth[peerTip]
<1>1. waiting \in Seq(Block)
  BY DEF TypeInv, TypeOK
<1>2. CASE waiting = <<>>
  BY <1>2, TreeAssumption DEF Queue!Resolve
<1>3. CASE waiting # <<>>
  <2>1. /\ running' = waiting[Len(waiting)]
        /\ waiting' = SubSeq(waiting, 1, Len(waiting) - 1)
        /\ Len(waiting) \in 1 .. Len(waiting)
    BY <1>1, <1>3 DEF Queue!Resolve, Queue!Process, Queue!Last, Queue!Front
  <2> QED
    BY <1>1, <2>1 DEF ReachInv
<1> QED
  BY <1>2, <1>3

LEMMA ReachFollowing ==
  ASSUME TypeInv, TypeInv', HeightsInv, HeightsInv', ControlInv, DataInv,
         ReachInv, DeliverBlock \/ Following
  PROVE  ReachInv'
<1> USE DEF database, heights, queue, network, control
<1>0. /\ live \in LiveState /\ peerTip \in Block
      /\ inbox \in Seq(Block) /\ Depth[peerTip] \in Nat
      /\ tip \in Row /\ lastHeader \in Row
  BY DepthNat DEF TypeInv, TypeOK
<1>1. CASE DeliverBlock
  <2>1. /\ inbox # <<>> /\ inbox' = Tail(inbox)
        /\ UNCHANGED <<database, tip, lastHeader, originalHeight, bestHeight,
                       peerTip, polls>>
        /\ \/ /\ Queue!Push(Head(inbox))
              /\ live' = IF running = NoBlock THEN Entry ELSE live
           \/ UNCHANGED queue
    BY <1>1 DEF DeliverBlock
  <2>2. Head(inbox) \in Block /\ Depth[Head(inbox)] <= Depth[peerTip]
    BY <1>0, <2>1 DEF ReachInv
  <2>3. \A i \in 1 .. Len(inbox') : Depth[inbox'[i]] <= Depth[peerTip]
    BY <1>0, <2>1 DEF ReachInv
  <2>4. /\ running' \in Block => Depth[running'] <= Depth[peerTip]
        /\ \A i \in 1 .. Len(waiting') : Depth[waiting'[i]] <= Depth[peerTip]
    BY <2>1, <2>2, ReachPush DEF ReachInv
  <2>5. live' = live \/ live'.pc \notin {"destroy", "find"}
    BY <2>1 DEF Entry, NoCall
  <2> QED
    BY <2>1, <2>3, <2>4, <2>5 DEF ReachInv
<1>2. CASE FinishBlock
  <2>1. /\ running' \in Block => Depth[running'] <= Depth[peerTip]
        /\ \A i \in 1 .. Len(waiting') : Depth[waiting'[i]] <= Depth[peerTip]
    BY <1>2, ReachResolve DEF FinishBlock
  <2>2. live'.pc \notin {"destroy", "find"}
    BY <1>2 DEF FinishBlock, Entry, NoCall
  <2> QED
    BY <1>2, <2>1, <2>2 DEF FinishBlock, ReachInv
<1>3. CASE phase' = "down"
  <2>1. phase = "run"
    <3>1. CASE SaveHeader \/ FindHeader
      BY <3>1, HandlingAlone DEF SaveHeader, FindHeader, Handling
    <3>2. CASE ~(SaveHeader \/ FindHeader) /\ Handling
      BY <3>2, HandlingAlone
    <3>3. CASE DeliverBlock \/ FinishBlock
      <4>1. CASE DeliverBlock
        BY <4>1 DEF DeliverBlock, ControlInv, FreshBefore, Fresh
      <4>2. CASE FinishBlock
        BY <4>2, TreeAssumption
        DEF FinishBlock, ControlInv, FreshBefore, Fresh, TypeInv, LiveBlock
      <4> QED
        BY <3>3, <4>1, <4>2
    <3> QED
      BY <3>1, <3>2, <3>3
      DEF Following, LookupBlock, ExtendHeader, DetectReorg, UpdateLiveTip,
          StoreLiveTip, DestroyHeaders, Handling
  <2> QED
    BY <1>3, <2>1, ReachStop
    DEF Following, DeliverBlock, FinishBlock, LookupBlock, ExtendHeader,
        DetectReorg, SaveHeader, UpdateLiveTip, StoreLiveTip, DestroyHeaders,
        FindHeader, Stop, process
<1>a. ASSUME ~DeliverBlock, ~FinishBlock
      PROVE  /\ Handling /\ polls = 0 /\ running \in Block
             /\ live.pc # "find" => storedTip.height <= lastHeader.height
             /\ live.pc \notin {"save", "destroy", "find"} => tip = lastHeader
  <2>1. Handling
    BY <1>a DEF Following, LookupBlock, ExtendHeader, DetectReorg, SaveHeader,
                UpdateLiveTip, StoreLiveTip, DestroyHeaders, FindHeader,
                Handling
  <2> QED
    BY <2>1, HandlingAlone, HandlingRest
<1>4. CASE ExtendHeader
  <2>1. /\ lastHeader'.hash = running /\ tip' = lastHeader'
        /\ live'.pc = "save"
        /\ UNCHANGED <<storedTip, peerTip, waiting, running, inbox,
                       bestHeight, polls>>
    BY <1>0, <1>4 DEF ExtendHeader, LiveState
  <2>2. polls = 0 /\ running \in Block
    BY <1>4, HandlingAlone DEF ExtendHeader, Handling
  <2>3. lastHeader'.height <= Depth[peerTip]
    BY <2>1, <2>2 DEF HeightsInv, HeightsTrue, ReachInv
  <2> QED
    BY <2>1, <2>2, <2>3, ReachFrame DEF ReachInv
<1>5. CASE DetectReorg
  <2>1. /\ tip' = Checkpoint(tip) /\ originalHeight' = tip.height
        /\ live'.pc = "destroy"
        /\ UNCHANGED <<storedTip, lastHeader, peerTip, waiting, running,
                       inbox, bestHeight, polls>>
    BY <1>0, <1>5 DEF DetectReorg, LiveState
  <2>2. polls = 0
    BY <1>5, HandlingAlone DEF DetectReorg, Handling
  <2>3. tip'.height <= tip.height /\ tip'.height \in Nat /\ tip.height \in Nat
    BY <1>0, <2>1, CheckpointType, ParameterAssumption
    DEF Checkpoint, GenesisRow, Row
  <2>4. tip'.height <= Depth[peerTip]
    BY <1>0, <2>3 DEF ReachInv
  <2> QED
    BY <2>1, <2>2, <2>3, <2>4, ReachFrame DEF ReachInv
<1>6. CASE StoreLiveTip
  <2>1. /\ storedTip' = lastHeader /\ live'.pc = "done"
        /\ UNCHANGED <<tip, lastHeader, originalHeight, peerTip, waiting,
                       running, inbox, bestHeight, polls>>
    BY <1>6 DEF StoreLiveTip, NoCall, DataInv, StoreInv
  <2> QED
    BY <2>1, ReachFrame DEF ReachInv
<1>7. CASE FindHeader /\ phase' # "down"
  <2>1. /\ tip'.height = tip.height /\ lastHeader' = tip'
        /\ StartSync /\ live'.pc = "done"
        /\ UNCHANGED <<storedTip, originalHeight, peerTip, waiting, running,
                       inbox, bestHeight>>
    BY <1>0, <1>7 DEF FindHeader, Stop, LiveState
  <2>2. originalHeight >= tip.height
    BY <1>7 DEF FindHeader, ReachInv
  <2>3. tip'.height <= Larger(bestHeight', originalHeight')
    BY <1>0, <2>1, <2>2 DEF Larger, Row, TypeInv, TypeOK
  <2> QED
    BY <2>1, <2>3 DEF ReachInv
<1>8. CASE /\ phase' # "down"
           /\ \/ LookupBlock \/ SaveHeader \/ UpdateLiveTip \/ DestroyHeaders
  <2>1. /\ UNCHANGED <<storedTip, tip, lastHeader, originalHeight, peerTip,
                       waiting, running, inbox, bestHeight, polls>>
        /\ \/ live'.pc \notin {"destroy", "find"}
           \/ live.pc = "destroy"
    BY <1>0, <1>8 DEF LookupBlock, SaveHeader, UpdateLiveTip, DestroyHeaders,
                      Stop, NoCall, LiveState
  <2> QED
    BY <2>1, ReachFrame DEF ReachInv
<1> QED
  BY <1>1, <1>2, <1>3, <1>4, <1>5, <1>6, <1>7, <1>8 DEF Following

LEMMA ReachEnvironment ==
  ASSUME TypeInv, TypeInv', ControlInv, ReachInv, CalmPeer, MaxOthers = 0,
         Environment
  PROVE  ReachInv'
<1> USE DEF database, heights, queue, network, control, counters
<1>0. /\ peerTip \in Block /\ peerTip' \in Block /\ inbox \in Seq(Block)
      /\ waiting \in Seq(Block)
      /\ tip \in Row /\ lastHeader \in Row /\ storedTip \in Row
      /\ Depth[peerTip] \in Nat /\ Depth[peerTip'] \in Nat
      /\ bestHeight \in Nat /\ originalHeight \in Nat
  BY DepthNat DEF TypeInv, TypeOK
<1>1. CASE PeerReady \/ Reconnect
  <2>1. /\ UNCHANGED <<database, tip, lastHeader, originalHeight, peerTip,
                       waiting, running, live>>
        /\ bestHeight' = Depth[peerTip]
        /\ inbox' = inbox \/ inbox' = <<>>
    BY <1>1 DEF PeerReady, Reconnect
  <2>2. tip'.height <= Larger(bestHeight', originalHeight')
    BY <1>0, <2>1 DEF Larger, ReachInv, Row
  <2> QED
    BY <2>1, <2>2 DEF ReachInv
<1>2. CASE OtherPeerReady
  BY <1>2 DEF OtherPeerReady, TypeInv, TypeOK
<1>3. CASE PeerAdopts
  <2>1. PICK b \in Block :
          /\ Depth[b] > Depth[peerTip]
          /\ peerTip' = b
          /\ inbox' = inbox \/ inbox' = Append(inbox, b)
    BY <1>3 DEF PeerAdopts
  <2>2. UNCHANGED <<database, tip, lastHeader, originalHeight, bestHeight,
                    waiting, running, live, polls>>
    BY <1>3 DEF PeerAdopts
  <2>3. \A c \in Block : Depth[c] <= Depth[peerTip] => Depth[c] <= Depth[b]
    BY <1>0, <2>1, DepthNat
  <2>4. \A i \in 1 .. Len(inbox) : Depth[inbox[i]] <= Depth[b]
    BY <1>0, <2>3 DEF ReachInv
  <2>5. \A i \in 1 .. Len(inbox') : Depth[inbox'[i]] <= Depth[b]
    <3>1. CASE inbox' = inbox
      BY <2>4, <3>1
    <3>2. CASE inbox' = Append(inbox, b)
      BY <1>0, <2>1, <2>4, <3>2
    <3> QED
      BY <2>1, <3>1, <3>2
  <2>6. \A i \in 1 .. Len(waiting) : Depth[waiting[i]] <= Depth[b]
    BY <1>0, <2>3 DEF ReachInv
  <2>7. running \in Block => Depth[running] <= Depth[b]
    BY <2>3 DEF ReachInv
  <2>8. /\ storedTip.height <= Depth[b] /\ tip.height <= Depth[b]
        /\ lastHeader.height <= Depth[b]
    BY <1>0, <2>1 DEF ReachInv, Row
  <2> QED
    BY <2>1, <2>2, <2>5, <2>6, <2>7, <2>8 DEF ReachInv
<1>4. CASE PeerServes
  <2>1. PICK d \in 0 .. Depth[peerTip] :
          inbox' = Append(inbox, Branch[peerTip][d])
    BY <1>4 DEF PeerServes
  <2>2. UNCHANGED <<database, tip, lastHeader, originalHeight, bestHeight,
                    waiting, running, live, polls, peerTip>>
    BY <1>4 DEF PeerServes
  <2>3. Branch[peerTip][d] \in Block /\ Depth[Branch[peerTip][d]] = d
    BY <1>0, BranchBlock
  <2> DEFINE b == Branch[peerTip][d]
  <2>4. b \in Block /\ Depth[b] <= Depth[peerTip] /\ inbox' = Append(inbox, b)
    BY <1>0, <2>1, <2>3
  <2> HIDE DEF b
  <2>5. \A i \in 1 .. Len(inbox') : Depth[inbox'[i]] <= Depth[peerTip]
    BY <1>0, <2>4 DEF ReachInv
  <2> QED
    BY <2>2, <2>5 DEF ReachInv
<1>5. CASE Crash
  BY <1>5, ReachStop DEF Crash, Stop
<1> QED
  BY <1>1, <1>2, <1>3, <1>4, <1>5 DEF Environment

-----------------------------------------------------------------------------
(* The process does not stop of itself.                                    *)

LEMMA CheckpointFound ==
  ASSUME DataInv, phase = "find"
  PROVE  \E r \in rows : r.height = tip.height
<1>1. PICK b \in Block : rows = RowsOf(b) /\ tip.height = Depth[b]
  BY DEF DataInv, StartInv
<1> QED
  BY <1>1, RowsOfEnd

LEMMA RewoundFound ==
  ASSUME DataInv, live.pc = "find"
  PROVE  \E r \in rows : r.height = tip.height
<1>1. PICK b \in Block : rows = RowsOf(b) /\ tip.height = Depth[b]
  BY DEF DataInv, RewindInv, Ends
<1> QED
  BY <1>1, RowsOfEnd

LEMMA InsertNew ==
  ASSUME TypeInv, DataInv, NEW r \in Round, round[r].pc = "insert"
  PROVE  ~Duplicate(NewRows(round[r].from, round[r].batch))
<1> DEFINE from == round[r].from
           batch == round[r].batch
           b == lastHeader.hash
<1>1. from \in Row /\ batch \in Seq(Block) /\ b \in Block
  BY DEF TypeInv, TypeOK, RoundState, Row
<1>2. Ends(from.hash, Rewind) /\ Continues(batch, from, b)
  BY DEF DataInv, InsertInv
<1>3. from.height = Depth[from.hash]
  <2>1. from.height \in 0 .. Depth[b] /\ from.hash = Branch[b][from.height]
    BY <1>1, <1>2, DepthNat DEF Continues, Row
  <2> QED
    BY <1>1, <2>1, BranchBlock
<1> HIDE DEF from, batch, b
<1>4. \A n \in NewRows(from, batch) : \A s \in RowsOf(from.hash) :
        n.height # s.height /\ n.hash # s.hash
  BY <1>1, <1>2, <1>3, RowsOfContinued
<1>5. ~Duplicate(NewRows(from, batch))
  BY <1>2, <1>4 DEF Duplicate, Ends
<1> QED
  BY <1>5 DEF from, batch

LEMMA SaveNew ==
  ASSUME TypeInv, HeightsInv, DataInv, live.pc = "save"
  PROVE  ~Duplicate({live.row})
<1> DEFINE b == lastHeader.hash
           from == [height |-> Depth[Parent[b]], hash |-> Parent[b]]
<1>1. b \in Block /\ Parent[b] \in Block
      /\ lastHeader = [height |-> Depth[b], hash |-> b]
  BY DEF TypeInv, TypeOK, Row, DataInv, SaveInv, HeightsInv, HeightsTrue
<1>2. rows = RowsOf(Parent[b]) /\ live.row = lastHeader
  BY DEF DataInv, SaveInv, Ends
<1>3. /\ Continues(<<b>>, from, b)
      /\ NewRows(from, <<b>>) = {[height |-> Depth[b], hash |-> b]}
  BY <1>1, ParentContinued
<1>4. from \in Row /\ <<b>> \in Seq(Block)
      /\ from.height = Depth[from.hash] /\ from.hash = Parent[b]
  BY <1>1, DepthNat DEF Row
<1> HIDE DEF from, b
<1>5. \A n \in NewRows(from, <<b>>) : \A s \in RowsOf(from.hash) :
        n.height # s.height /\ n.hash # s.hash
  BY <1>1, <1>3, <1>4, RowsOfContinued
<1> QED
  BY <1>1, <1>2, <1>3, <1>4, <1>5 DEF Duplicate

LEMMA NeededNat ==
  ASSUME TypeInv, ReachInv, polls > 0
  PROVE  ~(Larger(bestHeight, originalHeight) - tip.height < 0)
  BY DEF TypeInv, TypeOK, ReachInv, Larger, Row

LEMMA FaultStep ==
  ASSUME TypeInv, HeightsInv, DataInv, ReachInv, FaultInv, Next
  PROVE  FaultInv'
<1> USE DEF process, FaultInv
<1>1. CASE Starting
  <2>1. CASE FindCheckpoint
    BY <2>1, CheckpointFound DEF FindCheckpoint
  <2>2. CASE ~FindCheckpoint
    BY <1>1, <2>2 DEF Starting, Start, TruncateHeaders, CreateGenesis,
                      DestroyAboveTip, Stop
  <2> QED
    BY <2>1, <2>2
<1>2. CASE Poll
  BY <1>2, NeededNat DEF Poll
<1>3. ASSUME NEW r \in Round, PeerAnswers(r) \/ Syncing(r)
      PROVE  FaultInv'
  <2>1. CASE InsertHeaders(r)
    BY <2>1, InsertNew DEF InsertHeaders
  <2>2. CASE ~InsertHeaders(r)
    BY <1>3, <2>2 DEF PeerAnswers, Syncing, HeadersIgnored, OnNoHeaders,
                      OnHeaders, UpdateTip, StoreTip, OnHeadersSave, Stop
  <2> QED
    BY <2>1, <2>2
<1>4. CASE ServicesNotified \/ DeliverBlock
  BY <1>4 DEF ServicesNotified, DeliverBlock
<1>5. CASE Following
  <2>1. CASE SaveHeader
    BY <2>1, SaveNew DEF SaveHeader
  <2>2. CASE FindHeader
    BY <2>2, RewoundFound DEF FindHeader
  <2>3. CASE ~SaveHeader /\ ~FindHeader
    BY <1>5, <2>3 DEF Following, LookupBlock, ExtendHeader, DetectReorg,
                      UpdateLiveTip, StoreLiveTip, DestroyHeaders, FinishBlock
  <2> QED
    BY <2>1, <2>2, <2>3
<1>6. CASE Environment
  BY <1>6 DEF Environment, PeerReady, Reconnect, OtherPeerReady, PeerAdopts,
              PeerServes, Crash, Stop
<1> QED
  BY <1>1, <1>2, <1>3, <1>4, <1>5, <1>6 DEF Next

-----------------------------------------------------------------------------
(* The invariant.                                                          *)

AllInv == TypeInv /\ HeightsInv /\ CalmInv

LEMMA CalmInit == Init => CalmInv
<1> SUFFICES ASSUME Init PROVE CalmInv
  OBVIOUS
<1>0. TypeInv
  BY TypeInit
<1>1. /\ Fresh /\ Idle /\ live.pc = "none" /\ waiting = <<>> /\ inbox = <<>>
      /\ running = NoBlock /\ subs = {} /\ polls = 0 /\ notifying = 0
      /\ phase = "down" /\ rows = {} /\ fault = "none"
      /\ storedTip = GenesisRow /\ tip = GenesisRow
      /\ lastHeader = GenesisRow
  BY DEF Init, Fresh, Idle, NoRound, NoCall, Queue!Init
<1>2. Depth[peerTip] \in Nat
  BY <1>0, DepthNat DEF TypeInv, TypeOK
<1>3. ControlInv
  BY <1>1 DEF ControlInv, FreshBefore, WaitBehind, PollAlone, RoundAlone,
              NotifyAlone, RewindGivesUp, Idle
<1>4. DataInv
  <2>1. StoredTrue /\ TableInv
    BY <1>1, GenesisDepth, ParameterAssumption
    DEF StoredTrue, TableInv, GenesisRow
  <2> QED
    BY <1>1, <2>1
    DEF DataInv, StartInv, MessageInv, InsertInv, StoreInv, SaveInv,
        RewindInv, RestInv, CaughtUp, Idle, Handling
<1>5. ReachInv
  BY <1>1, <1>2, TreeAssumption DEF ReachInv, GenesisRow
<1> QED
  BY <1>1, <1>3, <1>4, <1>5 DEF CalmInv, FaultInv

LEMMA CalmNext ==
  ASSUME CalmPeer, MaxOthers = 0, AllInv, Next
  PROVE  AllInv'
<1> USE DEF AllInv, CalmInv
<1>1. TypeInv'
  BY TypeStep
<1>2. HeightsInv'
  BY HeightsStep
<1>3. CASE Starting
  BY <1>1, <1>2, <1>3, ControlStarting, DataStarting, ReachStarting, FaultStep
<1>4. CASE Poll \/ ServicesNotified
  BY <1>1, <1>2, <1>4, ControlSyncing, DataSyncing, ReachSyncing, FaultStep
<1>5. ASSUME NEW r \in Round, PeerAnswers(r) \/ Syncing(r)
      PROVE  AllInv'
  <2>1. ControlInv'
    BY <1>1, <1>5, ControlRound
  <2>2. DataInv'
    BY <1>1, <1>2, <1>5, <2>1, DataRound
  <2>3. ReachInv'
    BY <1>1, <1>2, <1>5, <2>2, ReachRound
  <2> QED
    BY <1>1, <1>2, <2>1, <2>2, <2>3, FaultStep
<1>6. CASE DeliverBlock \/ Following
  BY <1>1, <1>2, <1>6, ControlFollowing, DataFollowing, ReachFollowing,
     FaultStep
<1>7. CASE Environment
  BY <1>1, <1>2, <1>7, ControlEnvironment, DataEnvironment, ReachEnvironment,
     FaultStep
<1> QED
  BY <1>3, <1>4, <1>5, <1>6, <1>7 DEF Next

LEMMA CalmStutter ==
  ASSUME AllInv, UNCHANGED vars
  PROVE  AllInv'
<1>1. TypeInv' /\ HeightsInv'
  BY TypeStep, HeightsStep DEF AllInv
<1> USE DEF vars, database, process, heights, control, queue, network, counters
<1>2. ControlInv'
  BY DEF AllInv, CalmInv, ControlInv, FreshBefore, Fresh, WaitBehind,
         PollAlone, RoundAlone, NotifyAlone, RewindGivesUp, Handling, Idle
<1>3. StoredTrue' /\ TableInv' /\ StartInv'
  BY DEF AllInv, CalmInv, DataInv, StoredTrue, TableInv, StartInv, Ends
<1>4. MessageInv' /\ InsertInv' /\ StoreInv'
  BY DEF AllInv, CalmInv, DataInv, MessageInv, InsertInv, StoreInv, Stretch,
         Continues, Ends
<1>5. SaveInv' /\ RewindInv' /\ RestInv' /\ CaughtUp'
  BY DEF AllInv, CalmInv, DataInv, SaveInv, RewindInv, RestInv, CaughtUp,
         Ends, Handling, Idle
<1>6. ReachInv' /\ FaultInv'
  BY DEF AllInv, CalmInv, ReachInv, FaultInv
<1> QED
  BY <1>1, <1>2, <1>3, <1>4, <1>5, <1>6 DEF AllInv, CalmInv, DataInv

\* With the types and the heights the invariant is inductive.
LEMMA AllInvariant ==
  ASSUME CalmPeer, MaxOthers = 0
  PROVE  Spec => []AllInv
<1>1. Init => AllInv
  BY CalmInit, TypeInit, HeightsInit DEF AllInv
<1>2. AllInv /\ [Next]_vars => AllInv'
  BY CalmNext, CalmStutter
<1> QED
  BY <1>1, <1>2, PTL DEF Spec

\* Rounds, calls and blocks exclude each other, and the table, the stored tip
\* and what is about to be written go together, at every step.
THEOREM CalmInvariant ==
  ASSUME CalmPeer, MaxOthers = 0
  PROVE  Spec => []CalmInv
<1>1. AllInv => CalmInv
  BY DEF AllInv
<1> QED
  BY <1>1, AllInvariant, PTL

-----------------------------------------------------------------------------
(* What it shows.                                                          *)

\* The header table is one whole branch, whenever the process is killed: no
\* crash leaves a gap or a row of another branch.
THEOREM TableIsBranch ==
  ASSUME CalmPeer, MaxOthers = 0
  PROVE  Spec => []WholeBranch
<1>1. AllInv => WholeBranch
  BY DEF AllInv, CalmInv, DataInv, TableInv, Ends, WholeBranch
<1> QED
  BY <1>1, AllInvariant, PTL

\* A start finds the row its stored tip goes back to, whenever the process
\* was killed: the tip is stored after the rows, and the next rewind begins
\* after the tip has caught up with the table.
THEOREM CheckpointExists ==
  ASSUME CalmPeer, MaxOthers = 0
  PROVE  Spec => []Recoverable
<1>1. AllInv => Recoverable
  <2> SUFFICES ASSUME AllInv, storedTip.height >= Rewind
               PROVE  \E r \in rows : r.height = storedTip.height - Rewind
    BY DEF Recoverable
  <2>1. storedTip.height \in Nat
    BY DEF AllInv, TypeInv, TypeOK, Row
  <2>2. PICK b \in Block : Ends(b, Rewind)
    BY <2>1, ParameterAssumption
    DEF AllInv, CalmInv, DataInv, TableInv
  <2> DEFINE h == storedTip.height - Rewind
  <2>3. h \in 0 .. Depth[b]
    BY <2>1, <2>2, DepthNat, ParameterAssumption DEF Ends
  <2>4. [height |-> h, hash |-> Branch[b][h]] \in rows
    BY <2>2, <2>3 DEF Ends, RowsOf
  <2> QED
    BY <2>4
<1> QED
  BY <1>1, AllInvariant, PTL

\* Where a start fails its assertion, the stored tip stays until the next one.
BoundaryInv == fault = "genesis" => phase = "down" /\ storedTip.height = Rewind

LEMMA BoundaryStep ==
  ASSUME AllInv, BoundaryInv, Next
  PROVE  BoundaryInv'
<1> USE DEF process, database, BoundaryInv
<1>1. TypeInv /\ ControlInv
  BY DEF AllInv, CalmInv
<1>2. CASE Starting
  <2>1. CASE Start
    <3> DEFINE back == Checkpoint(storedTip)
    <3>1. ASSUME back.height = 0, back.hash # Genesis, UNCHANGED storedTip
          PROVE  storedTip'.height = Rewind
      <4>1. storedTip.height \in Nat
        BY <1>1 DEF TypeInv, TypeOK, Row
      <4> QED
        BY <3>1, <4>1, ParameterAssumption DEF Checkpoint, GenesisRow
    <3> QED
      BY <2>1, <3>1 DEF Start, Stop
  <2>2. CASE ~Start
    BY <1>2, <2>2 DEF Starting, TruncateHeaders, CreateGenesis, DestroyAboveTip,
                      FindCheckpoint, Stop
  <2> QED
    BY <2>1, <2>2
<1>3. CASE Poll
  BY <1>3 DEF Poll, Stop
<1>4. ASSUME NEW r \in Round, PeerAnswers(r) \/ Syncing(r)
      PROVE  BoundaryInv'
  <2>1. CASE StoreTip(r)
    <3>1. phase = "run"
      BY <1>1, <2>1 DEF StoreTip, ControlInv, FreshBefore, Fresh, Idle
    <3> QED
      BY <2>1, <3>1 DEF StoreTip
  <2>2. CASE ~StoreTip(r)
    BY <1>4, <2>2 DEF PeerAnswers, Syncing, HeadersIgnored, OnNoHeaders, OnHeaders,
                      InsertHeaders, UpdateTip, OnHeadersSave, Stop
  <2> QED
    BY <2>1, <2>2
<1>5. CASE ServicesNotified \/ DeliverBlock
  BY <1>5 DEF ServicesNotified, DeliverBlock
<1>6. CASE Following
  <2>1. CASE StoreLiveTip
    <3>1. phase = "run"
      BY <1>1, <2>1, HandlingAlone DEF StoreLiveTip, Handling
    <3> QED
      BY <2>1, <3>1 DEF StoreLiveTip
  <2>2. CASE ~StoreLiveTip
    BY <1>6, <2>2 DEF Following, LookupBlock, ExtendHeader, DetectReorg, SaveHeader,
                      UpdateLiveTip, DestroyHeaders, FindHeader, FinishBlock, Stop
  <2> QED
    BY <2>1, <2>2
<1>7. CASE Environment
  BY <1>7 DEF Environment, PeerReady, Reconnect, OtherPeerReady, PeerAdopts,
              PeerServes, Crash, Stop
<1> QED
  BY <1>2, <1>3, <1>4, <1>5, <1>6, <1>7 DEF Next

\* The number of headers needed is never negative, no header is inserted twice, no
\* row is missed that a start or a reorganization goes back to, and the assertion of
\* _setGenesisBlock (src/node/services/header.js:69-72) fails only with the stored tip
\* exactly Rewind high.  Headers out of order, of a peer that changes its branch, are
\* not excluded.
THEOREM KeepsRunning ==
  ASSUME CalmPeer, MaxOthers = 0
  PROVE  Spec => []NoSelfMadeStop
<1>1. Init => BoundaryInv
  BY DEF Init, BoundaryInv
<1>2. AllInv /\ BoundaryInv /\ [Next]_vars => BoundaryInv'
  BY BoundaryStep DEF vars, process, database, BoundaryInv
<1>3. AllInv /\ BoundaryInv => NoSelfMadeStop
  BY DEF AllInv, CalmInv, FaultInv, BoundaryInv, NoSelfMadeStop
<1> QED
  BY <1>1, <1>2, <1>3, AllInvariant, PTL DEF Spec

\* The rounds and the handling of a block never write at the same time.
THEOREM WritersExclude ==
  ASSUME CalmPeer, MaxOthers = 0
  PROVE  Spec => []OneWriter
<1>1. AllInv => OneWriter
  BY DEF AllInv, CalmInv, ControlInv, RoundAlone, OneWriter, Handling
<1> QED
  BY <1>1, AllInvariant, PTL

\* The steps that write the stored tip or the table.
LEMMA TipSteps ==
  ASSUME Next, storedTip' # storedTip
  PROVE  (\E r \in Round : StoreTip(r)) \/ StoreLiveTip
<1> USE DEF database
<1>1. ~Starting /\ ~Poll /\ ~ServicesNotified /\ ~DeliverBlock
  BY DEF Starting, Start, TruncateHeaders, CreateGenesis, DestroyAboveTip,
         FindCheckpoint, Poll, ServicesNotified, DeliverBlock
<1>2. ~Environment
  BY DEF Environment, PeerReady, Reconnect, OtherPeerReady, PeerAdopts,
         PeerServes, Crash
<1>3. Following => StoreLiveTip
  BY DEF Following, LookupBlock, ExtendHeader, DetectReorg, SaveHeader,
         UpdateLiveTip, DestroyHeaders, FindHeader, FinishBlock
<1>4. ASSUME NEW r \in Round, PeerAnswers(r) \/ Syncing(r)
      PROVE  StoreTip(r)
  BY <1>4 DEF PeerAnswers, Syncing, HeadersIgnored, OnNoHeaders, OnHeaders,
              InsertHeaders, UpdateTip, OnHeadersSave
<1> QED
  BY <1>1, <1>2, <1>3, <1>4 DEF Next

\* A tip is only stored when its row is in the table, whatever the database
\* and the network do meanwhile.
THEOREM TipFollowsRow ==
  ASSUME CalmPeer, MaxOthers = 0
  PROVE  Spec => TipAfterRow
<1>1. AllInv /\ [Next]_vars =>
        [storedTip' # storedTip => storedTip' \in rows]_vars
  <2> SUFFICES ASSUME AllInv, Next, storedTip' # storedTip
               PROVE  storedTip' \in rows
    OBVIOUS
  <2>1. /\ lastHeader \in Row /\ lastHeader.height = Depth[lastHeader.hash]
        /\ lastHeader.hash \in Block
    BY DEF AllInv, TypeInv, TypeOK, HeightsInv, HeightsTrue, Row
  <2>2. lastHeader \in RowsOf(lastHeader.hash)
    <3>1. lastHeader = [height |-> Depth[lastHeader.hash],
                        hash |-> lastHeader.hash]
      BY <2>1 DEF Row
    <3> QED
      BY <2>1, <3>1, RowsOfEnd
  <2>3. storedTip' = lastHeader /\ rows = RowsOf(lastHeader.hash)
    <3>1. CASE StoreLiveTip
      BY <3>1, HandlingRest
      DEF StoreLiveTip, Handling, AllInv, CalmInv, DataInv, StoreInv
    <3>2. CASE \E r \in Round : StoreTip(r)
      <4>1. PICK r \in Round : StoreTip(r)
        BY <3>2
      <4>2. /\ phase = "run" /\ ~Handling
            /\ \A s \in Round : round[s].pc # "insert"
        BY <4>1, ActiveRound DEF StoreTip, AllInv, CalmInv
      <4>3. rows = RowsOf(lastHeader.hash)
        BY <4>2
        DEF AllInv, CalmInv, DataInv, RestInv, Ends, Handling
      <4> QED
        BY <4>1, <4>3 DEF StoreTip, AllInv, CalmInv, DataInv, StoreInv
    <3> QED
      BY <3>1, <3>2, TipSteps
  <2> QED
    BY <2>2, <2>3
<1> QED
  BY <1>1, AllInvariant, PTL DEF Spec, TipAfterRow

LEMMA RowSteps ==
  ASSUME Next, rows' # rows
  PROVE  \/ TruncateHeaders \/ CreateGenesis \/ DestroyAboveTip
         \/ \E r \in Round : InsertHeaders(r)
         \/ SaveHeader \/ DestroyHeaders
<1> USE DEF database
<1>1. ~Poll /\ ~ServicesNotified /\ ~DeliverBlock
  BY DEF Poll, ServicesNotified, DeliverBlock
<1>2. ~Environment
  BY DEF Environment, PeerReady, Reconnect, OtherPeerReady, PeerAdopts,
         PeerServes, Crash
<1>3. Following => SaveHeader \/ DestroyHeaders
  BY DEF Following, LookupBlock, ExtendHeader, DetectReorg, StoreLiveTip,
         UpdateLiveTip, FindHeader, FinishBlock
<1>4. ASSUME NEW r \in Round, PeerAnswers(r) \/ Syncing(r)
      PROVE  InsertHeaders(r)
  BY <1>4 DEF PeerAnswers, Syncing, HeadersIgnored, OnNoHeaders, OnHeaders,
              StoreTip, UpdateTip, OnHeadersSave
<1>5. Starting => TruncateHeaders \/ CreateGenesis \/ DestroyAboveTip
  BY DEF Starting, Start, FindCheckpoint
<1> QED
  BY <1>1, <1>2, <1>3, <1>4, <1>5 DEF Next

\* The header service implements HeaderChain: at every step the table keeps
\* its branch, goes on along it, is cut back or is emptied.
THEOREM ImplementsChain ==
  ASSUME CalmPeer, MaxOthers = 0
  PROVE  Spec => ChainSpec
<1> USE DEF Chain!RowsOf, Chain!OnBranch, Chain!Extend, Chain!Cut,
            Chain!Clear, Chain!Create
<1>1. Init => Chain!Init
  BY DEF Init, Chain!Init
<1>2. AllInv /\ AllInv' /\ [Next]_vars => [Chain!Next]_rows
  <2> SUFFICES ASSUME AllInv, AllInv', Next, rows' # rows
               PROVE  Chain!Next
    BY DEF vars, database
  <2>1. CASE TruncateHeaders
    BY <2>1 DEF TruncateHeaders, Chain!Next
  <2>2. CASE CreateGenesis
    BY <2>2, RowsOfGenesis
    DEF CreateGenesis, AllInv, CalmInv, DataInv, StartInv, RowsOf, Chain!Next
  <2>3. ASSUME NEW b \in Block, NEW h \in 0 .. Depth[b], rows = RowsOf(b),
               rows' = {r \in rows : r.height <= h}
        PROVE  Chain!Cut
    <3>1. rows' = RowsOf(Branch[b][h])
      BY <2>3, RowsOfCut
    <3>2. Branch[b][h] \in Block /\ Depth[Branch[b][h]] = h
      BY BranchBlock
    <3>3. Depth[b] \in Nat
      BY DepthNat
    <3> QED
      BY <2>3, <3>1, <3>2, <3>3 DEF RowsOf
  <2>4. CASE DestroyAboveTip
    <3>1. PICK b \in Block : rows = RowsOf(b) /\ tip.height <= Depth[b]
      BY <2>4 DEF DestroyAboveTip, AllInv, CalmInv, DataInv, StartInv
    <3>2. tip.height \in 0 .. Depth[b]
      BY <3>1, DepthNat DEF AllInv, TypeInv, TypeOK, Row
    <3> QED
      BY <2>3, <2>4, <3>1, <3>2 DEF DestroyAboveTip, Chain!Next
  <2>5. CASE DestroyHeaders
    <3>1. /\ rows = RowsOf(lastHeader.hash) /\ live.row = tip
          /\ tip.height <= lastHeader.height
          /\ lastHeader.height = Depth[lastHeader.hash]
          /\ lastHeader.hash \in Block /\ tip.height \in Nat
      BY <2>5 DEF DestroyHeaders, AllInv, CalmInv, DataInv, RewindInv, Ends,
                  HeightsInv, HeightsTrue, TypeInv, TypeOK, Row
    <3>2. tip.height \in 0 .. Depth[lastHeader.hash]
      BY <3>1, DepthNat
    <3> QED
      BY <2>3, <2>5, <3>1, <3>2 DEF DestroyHeaders, Chain!Next
  <2>6. CASE SaveHeader
    <3> DEFINE b == lastHeader.hash
    <3>1. /\ rows = RowsOf(Parent[b]) /\ Parent[b] \in Block /\ b \in Block
      BY <2>6 DEF SaveHeader, AllInv, CalmInv, DataInv, SaveInv, Ends,
                  TypeInv, TypeOK, Row
    <3>2. rows' = RowsOf(b)
      <4>1. ~Duplicate({live.row})
        BY <2>6, SaveNew DEF SaveHeader, AllInv, CalmInv
      <4>2. live'.pc = "saved" /\ phase' = phase /\ UNCHANGED <<round, lastHeader>>
        BY <2>6, <4>1 DEF SaveHeader, NoCall, process, heights
      <4>3. Handling /\ Handling'
        BY <2>6, <4>2 DEF SaveHeader, Handling
      <4>4. phase' = "run" /\ Idle'
        BY <4>2, <4>3, HandlingAlone DEF AllInv, CalmInv, Idle
      <4> QED
        BY <4>2, <4>4 DEF AllInv, CalmInv, DataInv, RestInv, Ends, Idle
    <3>3. OnBranch(Parent[b], b)
      <4> DEFINE from == [height |-> Depth[Parent[b]], hash |-> Parent[b]]
      <4>1. Continues(<<b>>, from, b)
        BY <3>1, ParentContinued
      <4>2. from \in Row /\ <<b>> \in Seq(Block)
            /\ from.height = Depth[from.hash] /\ from.hash = Parent[b]
        BY <3>1, DepthNat DEF Row
      <4> HIDE DEF from
      <4> QED
        BY <3>1, <4>1, <4>2, RowsOfContinued
    <3> QED
      BY <3>1, <3>2, <3>3 DEF RowsOf, OnBranch, Chain!Next
  <2>7. CASE \E r \in Round : InsertHeaders(r)
    <3>1. PICK r \in Round : InsertHeaders(r)
      BY <2>7
    <3> DEFINE from == round[r].from
               batch == round[r].batch
               b == lastHeader.hash
    <3>2. from \in Row /\ batch \in Seq(Block) /\ b \in Block
      BY DEF AllInv, TypeInv, TypeOK, RoundState, Row
    <3>3. rows = RowsOf(from.hash) /\ Continues(batch, from, b)
      BY <3>1 DEF InsertHeaders, AllInv, CalmInv, DataInv, InsertInv, Ends
    <3>4. from.height = Depth[from.hash]
      <4>1. from.height \in 0 .. Depth[b] /\ from.hash = Branch[b][from.height]
        BY <3>2, <3>3, DepthNat DEF Continues, Row
      <4> QED
        BY <3>2, <4>1, BranchBlock
    <3>5. rows' = rows \cup NewRows(from, batch)
      <4>1. ~Duplicate(NewRows(from, batch))
        BY <3>1, InsertNew DEF InsertHeaders, AllInv, CalmInv
      <4> QED
        BY <3>1, <4>1 DEF InsertHeaders
    <3> HIDE DEF from, batch, b
    <3>6. rows' = RowsOf(b) /\ OnBranch(from.hash, b)
      BY <3>2, <3>3, <3>4, <3>5, RowsOfContinued
    <3>7. from.hash \in Block
      BY <3>2 DEF Row
    <3> QED
      BY <3>2, <3>3, <3>6, <3>7 DEF RowsOf, OnBranch, Chain!Next
  <2> QED
    BY <2>1, <2>2, <2>4, <2>5, <2>6, <2>7, RowSteps
<1> QED
  BY <1>1, <1>2, AllInvariant, PTL DEF Spec, ChainSpec, Chain!Spec

-----------------------------------------------------------------------------
(* The rounds, the stages and the reorganizations: the invariant.          *)

LEMMA AnswerIdle ==
  ASSUME Idle'
  PROVE  AnswerInv'
  BY DEF Idle, AnswerInv

\* Rounds that stay as they are, or end.
LEMMA AnswerFrame ==
  ASSUME TypeInv, TypeInv', AnswerInv,
         UNCHANGED <<lastHeader, initialSync, lastCount>>,
         Depth[peerTip] <= Depth[peerTip'],
         \A r \in Round : round'[r] = round[r] \/ round'[r].pc = "idle"
  PROVE  AnswerInv'
<1>1. Depth[peerTip] \in Nat /\ Depth[peerTip'] \in Nat
  BY DepthNat DEF TypeInv, TypeOK
<1>2. Depth[peerTip] > 0 => Depth[peerTip'] > 0
  BY <1>1
<1> QED
  BY <1>2 DEF AnswerInv

\* One round goes on, and the others are idle.
LEMMA AnswerOne ==
  ASSUME ControlInv, AnswerInv, UNCHANGED peerTip,
         NEW r \in Round, round[r].pc # "idle",
         \A s \in Round \ {r} : round'[s] = round[s],
         round'[r].pc = "asked" => round'[r].from = lastHeader',
         round'[r].pc \in {"asked", "answered", "insert", "inserted"} =>
           initialSync',
         round'[r].pc \in {"store", "stored"} =>
           initialSync' \/ lastCount' < MaxHeaders,
         \/ round'[r].pc = "answered" /\ round'[r].batch = <<>>
         \/ round'[r].pc \in {"insert", "inserted", "store", "stored"}
         => lastHeader'.hash # Genesis
  PROVE  AnswerInv'
<1>1. \A s \in Round \ {r} : round'[s].pc = "idle"
  BY ActiveRound
<1>2. Depth[peerTip'] > 0
  BY DEF AnswerInv
<1> QED
  BY <1>1, <1>2 DEF AnswerInv

LEMMA FeedStop ==
  ASSUME TypeInv', Boot, UNCHANGED peerTip
  PROVE  FeedInv'
<1>1. /\ Idle' /\ live'.pc = "none" /\ waiting' = <<>> /\ subs' = {}
      /\ polls' = 0 /\ initialSync' /\ lastHeader'.hash = Genesis
      /\ bestHeight' = 0 /\ originalHeight' = 0
  BY DEF Boot, Idle, NoRound, NoCall, GenesisRow
<1>2. Depth[peerTip'] \in Nat
  BY DepthNat DEF TypeInv, TypeOK
<1> QED
  BY <1>1, <1>2, AnswerIdle
  DEF FeedInv, StageInv, KnownInv, BackInv, Handling

LEMMA FeedStarting ==
  ASSUME AllInv, AllInv', FeedInv, Starting
  PROVE  FeedInv'
<1> USE DEF database, heights, control, queue, network
<1>1. CASE Boot
  BY <1>1, FeedStop
  DEF AllInv, Starting, Start, TruncateHeaders, CreateGenesis,
      DestroyAboveTip, FindCheckpoint
<1>2. CASE ~Boot
  <2>1. /\ Fresh /\ phase # "run"
        /\ initialSync /\ lastHeader.hash = Genesis
    BY DEF AllInv, CalmInv, Starting, Start, TruncateHeaders, CreateGenesis,
           DestroyAboveTip, FindCheckpoint, ControlInv, FreshBefore, FeedInv,
           StageInv
  <2>2. UNCHANGED <<round, subs, polls, live, waiting, running, peerTip,
                    bestHeight, initialSync>>
    BY <1>2 DEF Starting, Start, TruncateHeaders, CreateGenesis,
                DestroyAboveTip, FindCheckpoint, Stop
  <2>3. /\ originalHeight' = originalHeight
        \/ originalHeight' = storedTip.height
    BY <1>2 DEF Starting, Start, TruncateHeaders, CreateGenesis,
                DestroyAboveTip, FindCheckpoint, Stop
  <2>4. phase' # "run" => lastHeader'.hash = Genesis
    <3>1. lastHeader' = lastHeader \/ lastHeader' = GenesisRow \/ phase' = "run"
      BY <1>2 DEF Starting, Start, TruncateHeaders, CreateGenesis,
                  DestroyAboveTip, FindCheckpoint, Stop
    <3> QED
      BY <2>1, <3>1 DEF GenesisRow
  <2>5. live.pc = "none"
    BY <2>1, TreeAssumption DEF Fresh, AllInv, TypeInv, LiveBlock
  <2>6. AnswerInv'
    BY <2>1, <2>2, AnswerIdle DEF Fresh, Idle
  <2>7. KnownInv'
    BY <2>2, <2>3 DEF AllInv, CalmInv, ReachInv, FeedInv, KnownInv
  <2>8. StageInv' /\ BackInv'
    BY <2>1, <2>2, <2>4, <2>5 DEF Fresh, StageInv, BackInv, Handling
  <2> QED
    BY <2>6, <2>7, <2>8 DEF FeedInv
<1> QED
  BY <1>1, <1>2

\* The answer to a request from the genesis block is not empty.
LEMMA AnswerSome ==
  ASSUME peerTip \in Block, Depth[peerTip] > 0
  PROVE  Answer(Genesis) # <<>>
<1> DEFINE left == Depth[peerTip] - 0
           n == IF left <= MaxHeaders THEN left ELSE MaxHeaders
<1>1. Answer(Genesis) = [i \in 1 .. n |-> Branch[peerTip][0 + i]]
  BY OnBranchSelf, GenesisDepth DEF Answer
<1>2. n \in Nat /\ n >= 1
  BY DepthNat, ParameterAssumption
<1> HIDE DEF n
<1>3. 1 \in DOMAIN Answer(Genesis)
  BY <1>1, <1>2
<1> QED
  BY <1>3

LEMMA FeedPoll ==
  ASSUME AllInv, AllInv', FeedInv, Poll, ~Boot
  PROVE  FeedInv'
<1> USE DEF database, heights, control, queue, network
<1>0. /\ round \in [Round -> RoundState] /\ polls \in Nat
      /\ tip \in Row /\ bestHeight \in Nat /\ originalHeight \in Nat
      /\ peerTip \in Block /\ Depth[peerTip] \in Nat
  BY DepthNat DEF AllInv, TypeInv, TypeOK
<1>1. /\ Idle /\ ~Handling /\ waiting = <<>> /\ "block" \notin subs
      /\ phase = "run" /\ initialSync
  BY DEF Poll, AllInv, CalmInv, ControlInv, PollAlone, FreshBefore, Fresh,
         FeedInv, StageInv
<1>2. UNCHANGED <<rows, phase, tip, lastHeader, originalHeight, bestHeight,
                  initialSync, waiting, live, peerTip>>
  BY DEF Poll, Stop, process
<1>3. "block" \notin subs'
  <2>1. subs' \in {subs, subs \cup {"headers"}}
    BY DEF Poll, Stop, Sync
  <2> QED
    BY <1>1, <2>1
<1>4. StageInv' /\ KnownInv' /\ BackInv'
  BY <1>1, <1>2, <1>3 DEF FeedInv, StageInv, KnownInv, BackInv, Handling
<1>5. CASE UNCHANGED round
  BY <1>1, <1>4, <1>5, AnswerIdle DEF Idle, FeedInv
<1>6. ASSUME NEW r \in Round, Sync(r),
             Larger(bestHeight, originalHeight) - tip.height > 0
      PROVE  AnswerInv'
  <2>1. tip = lastHeader
    BY <1>1 DEF AllInv, CalmInv, DataInv, RestInv, Idle, Handling
  <2>2. /\ round'[r] = [NoRound EXCEPT !.pc = "asked", !.from = tip]
        /\ \A s \in Round \ {r} : round'[s] = round[s]
    BY <1>0, <1>6 DEF Sync
  <2>3. /\ round'[r].pc = "asked" /\ round'[r].from = tip
        /\ \A s \in Round \ {r} : round'[s].pc = "idle"
    BY <1>1, <2>2 DEF NoRound, Idle
  <2>4. Depth[peerTip] > 0
    BY <1>0, <1>6 DEF Larger, Row, FeedInv, KnownInv
  <2> QED
    BY <1>1, <1>2, <2>1, <2>3, <2>4 DEF AnswerInv
<1> QED
  BY <1>4, <1>5, <1>6 DEF Poll, Stop, FeedInv

LEMMA FeedRound ==
  ASSUME AllInv, AllInv', FeedInv, ~Boot,
         NEW r \in Round, PeerAnswers(r) \/ Syncing(r)
  PROVE  FeedInv'
<1> USE DEF database, heights, control, queue, network
<1>0. /\ round \in [Round -> RoundState] /\ round[r] \in RoundState
      /\ peerTip \in Block /\ Depth[peerTip] \in Nat
      /\ lastHeader \in Row /\ lastHeader.hash \in Block
  BY DepthNat DEF AllInv, TypeInv, TypeOK, Row
<1>1. round[r].pc # "idle"
  BY DEF PeerAnswers, Syncing, HeadersIgnored, OnNoHeaders, OnHeaders,
         InsertHeaders, UpdateTip, StoreTip, OnHeadersSave
<1>2. /\ phase = "run" /\ polls = 0 /\ ~Handling /\ waiting = <<>>
      /\ \A s \in Round \ {r} : round[s].pc = "idle"
  BY <1>1, ActiveRound DEF AllInv, CalmInv
<1>3. /\ UNCHANGED <<phase, originalHeight, bestHeight, polls, waiting, live,
                     peerTip>>
      /\ \A s \in Round \ {r} : round'[s] = round[s]
  <2>1. UNCHANGED <<phase, originalHeight, bestHeight, polls, waiting, live,
                    peerTip>>
    BY DEF PeerAnswers, Syncing, HeadersIgnored, OnNoHeaders, OnHeaders,
           InsertHeaders, UpdateTip, StoreTip, OnHeadersSave, Stop, process
  <2>2. \A s \in Round \ {r} : round'[s] = round[s]
    BY <1>0
    DEF PeerAnswers, Syncing, HeadersIgnored, OnNoHeaders, OnHeaders,
        InsertHeaders, UpdateTip, StoreTip, OnHeadersSave, Stop, Sync
  <2> QED
    BY <2>1, <2>2
<1>4. \/ UNCHANGED initialSync /\ subs' \in {subs, subs \cup {"headers"}}
      \/ ~initialSync'
  BY DEF PeerAnswers, Syncing, HeadersIgnored, OnNoHeaders, OnHeaders,
         InsertHeaders, UpdateTip, StoreTip, OnHeadersSave, Stop, Sync,
         SyncComplete
<1>5. StageInv' /\ KnownInv' /\ BackInv'
  BY <1>2, <1>3, <1>4 DEF FeedInv, StageInv, KnownInv, BackInv, Handling
<1>6. AnswerInv'
  <2> USE DEF FeedInv
  <2>1. CASE round'[r].pc = "idle"
    BY <1>2, <1>3, <2>1, AnswerIdle DEF Idle
  <2>2. CASE PeerAnswers(r)
    <3>1. /\ round'[r].pc = "answered" /\ UNCHANGED <<lastHeader, initialSync>>
          /\ round'[r].batch = Answer(round[r].from.hash)
          /\ round[r].pc = "asked"
      BY <1>0, <2>2 DEF PeerAnswers, RoundState
    <3>2. /\ round[r].from = lastHeader /\ Depth[peerTip] > 0 /\ initialSync
      BY <3>1 DEF AnswerInv
    <3>3. round'[r].batch = <<>> => lastHeader.hash # Genesis
      BY <1>0, <3>1, <3>2, AnswerSome
    <3> QED
      BY <1>1, <1>3, <3>1, <3>2, <3>3, AnswerOne DEF AllInv, CalmInv
  <2>3. CASE OnNoHeaders(r)
    <3>1. /\ round'[r].pc = "store" /\ lastCount' = 0 /\ UNCHANGED lastHeader
          /\ round[r].pc = "answered" /\ round[r].batch = <<>>
      BY <1>0, <2>3 DEF OnNoHeaders, NoRound
    <3>2. lastHeader.hash # Genesis /\ 0 < MaxHeaders
      BY <3>1, ParameterAssumption DEF AnswerInv
    <3> QED
      BY <1>1, <1>3, <3>1, <3>2, AnswerOne DEF AllInv, CalmInv
  <2>4. CASE OnHeaders(r)
    <3>1. /\ round'[r].pc = "insert" /\ UNCHANGED initialSync
          /\ round[r].pc = "answered"
          /\ lastHeader'.height = lastHeader.height + Len(round[r].batch)
          /\ round[r].batch # <<>>
      BY <1>0, <2>4 DEF OnHeaders, Stop, RoundState
    <3>2. Len(round[r].batch) \in Nat /\ Len(round[r].batch) # 0
      BY <1>0, <3>1 DEF RoundState
    <3>3. lastHeader'.height > 0
      BY <1>0, <3>1, <3>2 DEF Row
    <3>4. lastHeader'.hash # Genesis
      BY <3>3, GenesisDepth DEF AllInv, HeightsInv, HeightsTrue
    <3>5. initialSync
      BY <3>1 DEF AnswerInv
    <3> QED
      BY <1>1, <1>3, <3>1, <3>4, <3>5, AnswerOne DEF AllInv, CalmInv
  <2>5. CASE InsertHeaders(r) \/ UpdateTip(r) \/ StoreTip(r)
    <3>1. /\ UNCHANGED <<lastHeader, initialSync, lastCount>>
          /\ \/ round[r].pc = "insert" /\ round'[r].pc = "inserted"
             \/ round[r].pc = "inserted" /\ round'[r].pc = "store"
             \/ round[r].pc = "store" /\ round'[r].pc = "stored"
      BY <1>0, <2>5 DEF InsertHeaders, UpdateTip, StoreTip, Stop, NoRound,
                        RoundState
    <3>2. lastHeader.hash # Genesis
      BY <3>1 DEF AnswerInv
    <3>3. /\ round'[r].pc = "inserted" => initialSync
          /\ round'[r].pc \in {"store", "stored"} =>
               initialSync \/ lastCount < MaxHeaders
      BY <3>1 DEF AnswerInv
    <3> QED
      BY <1>1, <1>3, <3>1, <3>2, <3>3, AnswerOne DEF AllInv, CalmInv
  <2>6. CASE OnHeadersSave(r) /\ round'[r].pc # "idle"
    <3>1. /\ lastCount >= MaxHeaders /\ UNCHANGED <<lastHeader, initialSync>>
          /\ round[r].pc = "stored"
          /\ round'[r] = [NoRound EXCEPT !.pc = "asked", !.from = tip]
      BY <1>0, <2>6 DEF OnHeadersSave, Sync, NoRound
    <3>2. round'[r].pc = "asked" /\ round'[r].from = tip
      BY <3>1 DEF NoRound
    <3>3. tip = lastHeader
      BY <1>2, <3>1 DEF AllInv, CalmInv, DataInv, RestInv, Handling
    <3>4. initialSync
      <4>1. initialSync \/ lastCount < MaxHeaders
        BY <3>1 DEF AnswerInv
      <4>2. lastCount \in Nat
        BY DEF AllInv, TypeInv, TypeOK
      <4> QED
        BY <3>1, <4>1, <4>2, ParameterAssumption
    <3> QED
      BY <1>1, <1>3, <3>1, <3>2, <3>3, <3>4, AnswerOne DEF AllInv, CalmInv
  <2>7. HeadersIgnored(r) => round'[r].pc = "idle"
    BY <1>0 DEF HeadersIgnored, NoRound
  <2> QED
    BY <2>1, <2>2, <2>3, <2>4, <2>5, <2>6, <2>7 DEF Syncing
<1> QED
  BY <1>5, <1>6 DEF FeedInv


LEMMA FeedNotified ==
  ASSUME AllInv, AllInv', FeedInv, ServicesNotified
  PROVE  FeedInv'
<1> USE DEF database, heights, queue, network, process
<1>1. /\ waiting = <<>> /\ UNCHANGED <<rows, phase, tip, lastHeader,
           originalHeight, bestHeight, initialSync, subs, polls, round,
           lastCount, waiting, live, peerTip>>
  BY DEF ServicesNotified, AllInv, CalmInv, ControlInv, NotifyAlone,
         AllInv, TypeInv, TypeOK
<1> QED
  BY <1>1
  DEF FeedInv, AnswerInv, StageInv, KnownInv, BackInv, Handling

LEMMA FeedDeliver ==
  ASSUME AllInv, AllInv', FeedInv, DeliverBlock
  PROVE  FeedInv'
<1> USE DEF database, heights, control, queue, network, process
<1>1. UNCHANGED <<rows, phase, tip, lastHeader, originalHeight, bestHeight,
                  initialSync, subs, polls, round, lastCount, reorging,
                  peerTip>>
  BY DEF DeliverBlock
<1>2. \/ UNCHANGED <<waiting, live>>
      \/ /\ "block" \in subs
         /\ live' = live \/ live'.pc \in {"done", "lookup"}
  BY DEF DeliverBlock, Entry, NoCall
<1> QED
  BY <1>1, <1>2
  DEF FeedInv, AnswerInv, StageInv, KnownInv, BackInv, Handling

LEMMA FeedFollowing ==
  ASSUME AllInv, AllInv', FeedInv, Following, ~Boot
  PROVE  FeedInv'
<1> USE DEF database, heights, control, queue, network, process, FeedInv
<1>0. live \in LiveState /\ tip \in Row /\ lastHeader \in Row
  BY DEF AllInv, TypeInv, TypeOK
<1>1. CASE FinishBlock
  <2>1. /\ UNCHANGED <<rows, phase, tip, lastHeader, originalHeight,
                       bestHeight, initialSync, subs, polls, round, lastCount,
                       reorging, peerTip>>
        /\ waiting' # <<>> => waiting # <<>>
        /\ live' = IF waiting = <<>> THEN NoCall ELSE Entry
    BY <1>1 DEF FinishBlock, Queue!Resolve, Queue!Process
  <2>2. Handling' => waiting # <<>> /\ ~reorging
    BY <2>1 DEF Handling, Entry, NoCall
  <2>3. live'.pc # "find"
    BY <2>1 DEF Entry, NoCall
  <2> QED
    BY <2>1, <2>2, <2>3 DEF AnswerInv, StageInv, KnownInv, BackInv
<1>2. CASE ~FinishBlock
  <2>1. Handling
    BY <1>2 DEF Following, LookupBlock, ExtendHeader, DetectReorg, SaveHeader,
                UpdateLiveTip, StoreLiveTip, DestroyHeaders, FindHeader,
                Handling
  <2>2. Idle /\ phase = "run" /\ polls = 0 /\ ~initialSync
    BY <2>1, HandlingAlone DEF AllInv, CalmInv, StageInv
  <2>3. UNCHANGED <<phase, bestHeight, waiting, round, peerTip>>
    BY <1>2 DEF Following, LookupBlock, ExtendHeader, DetectReorg, SaveHeader,
                UpdateLiveTip, StoreLiveTip, DestroyHeaders, FindHeader, Stop,
                StartSync
  <2>4. AnswerInv'
    BY <2>2, <2>3, AnswerIdle DEF Idle
  <2>5. KnownInv'
    <3>1. originalHeight' = originalHeight \/ originalHeight' = tip.height
      BY <1>2 DEF Following, LookupBlock, ExtendHeader, DetectReorg,
                  SaveHeader, UpdateLiveTip, StoreLiveTip, DestroyHeaders,
                  FindHeader, Stop
    <3> QED
      BY <2>3, <3>1 DEF KnownInv, AllInv, CalmInv, ReachInv
  <2>6. StageInv'
    <3>1. CASE FindHeader
      <4>1. /\ initialSync' /\ subs' = {} /\ live'.pc = "done"
            /\ UNCHANGED reorging
        BY <1>0, <3>1 DEF FindHeader, Stop, StartSync, LiveState
      <4>2. reorging
        BY <3>1 DEF FindHeader, AllInv, CalmInv, ControlInv, RewindGivesUp
      <4> QED
        BY <2>2, <2>3, <4>1, <4>2 DEF StageInv, Handling
    <3>2. CASE ~FindHeader
      <4>1. UNCHANGED <<initialSync, subs, polls>>
        BY <1>2, <3>2 DEF Following, LookupBlock, ExtendHeader, DetectReorg,
                          SaveHeader, UpdateLiveTip, StoreLiveTip,
                          DestroyHeaders, Stop
      <4> QED
        BY <2>2, <2>3, <4>1 DEF StageInv
    <3> QED
      BY <3>1, <3>2
  <2>7. BackInv'
    <3>1. CASE DestroyHeaders
      <4>1. /\ rows = RowsOf(lastHeader.hash) /\ live.row = tip
            /\ tip.height <= lastHeader.height
            /\ lastHeader.height = Depth[lastHeader.hash]
            /\ lastHeader.hash \in Block /\ tip.height \in Nat
        BY <3>1 DEF DestroyHeaders, AllInv, CalmInv, DataInv, RewindInv, Ends,
                    HeightsInv, HeightsTrue, TypeInv, TypeOK, Row
      <4>2. tip.height \in 0 .. Depth[lastHeader.hash]
        BY <4>1, DepthNat
      <4>3. rows' = RowsOf(Branch[lastHeader.hash][tip.height])
        BY <3>1, <4>1, <4>2, RowsOfCut DEF DestroyHeaders
      <4> QED
        BY <3>1, <4>1, <4>3 DEF DestroyHeaders, BackInv
    <3>2. ~DestroyHeaders => live'.pc # "find"
      BY <1>0, <1>2
      DEF Following, LookupBlock, ExtendHeader, DetectReorg, SaveHeader,
          UpdateLiveTip, StoreLiveTip, FindHeader, Stop, NoCall, LiveState
    <3> QED
      BY <3>1, <3>2 DEF BackInv
  <2> QED
    BY <2>4, <2>5, <2>6, <2>7
<1> QED
  BY <1>1, <1>2

LEMMA FeedEnvironment ==
  ASSUME AllInv, AllInv', FeedInv, CalmPeer, MaxOthers = 0, Environment
  PROVE  FeedInv'
<1> USE DEF database, heights, control, queue, network, process, counters,
            FeedInv
<1>0. peerTip \in Block /\ Depth[peerTip] \in Nat
  BY DepthNat DEF AllInv, TypeInv, TypeOK
<1>1. CASE PeerReady
  <2>1. Fresh /\ phase = "run"
    BY <1>1 DEF PeerReady, AllInv, CalmInv, ControlInv, FreshBefore
  <2>2. live.pc = "none"
    BY <2>1, TreeAssumption DEF Fresh, AllInv, TypeInv, LiveBlock
  <2>3. /\ UNCHANGED <<rows, phase, tip, lastHeader, originalHeight, round,
                       waiting, live, peerTip>>
        /\ subs' = {} /\ initialSync' /\ bestHeight' = Depth[peerTip]
    BY <1>1 DEF PeerReady, StartSync
  <2> QED
    BY <1>0, <2>1, <2>2, <2>3, AnswerIdle
    DEF Fresh, Idle, StageInv, KnownInv, BackInv, Handling
<1>2. CASE Reconnect
  <2>1. Settled
    BY <1>2 DEF Reconnect
  <2>2. live.pc = "none" /\ waiting = <<>>
    BY <2>1 DEF Settled, AllInv, TypeInv, TypeOK, LiveBlock, CalmInv,
                ControlInv, WaitBehind
  <2>3. phase = "run"
    BY <1>2 DEF Reconnect, AllInv, CalmInv, ControlInv, FreshBefore, Fresh
  <2>4. /\ UNCHANGED <<rows, phase, tip, lastHeader, originalHeight,
                       waiting, live, peerTip>>
        /\ subs' = {} /\ initialSync' /\ bestHeight' = Depth[peerTip]
    BY <1>2 DEF Reconnect, StartSync
  <2>5. Idle'
    BY <1>2, <2>1 DEF Reconnect, Settled, Idle, NoRound
  <2> QED
    BY <1>0, <2>2, <2>3, <2>4, <2>5, AnswerIdle
    DEF StageInv, KnownInv, BackInv, Handling
<1>3. CASE OtherPeerReady
  BY <1>3 DEF OtherPeerReady, AllInv, TypeInv, TypeOK
<1>4. CASE PeerAdopts \/ PeerServes
  <2>1. UNCHANGED <<rows, phase, tip, lastHeader, originalHeight, bestHeight,
                    initialSync, subs, polls, round, lastCount, reorging,
                    waiting, live>>
    BY <1>4 DEF PeerAdopts, PeerServes
  <2>2. Depth[peerTip'] \in Nat /\ Depth[peerTip] <= Depth[peerTip']
    BY <1>0, <1>4, DepthNat
    DEF PeerAdopts, PeerServes, AllInv, TypeInv, TypeOK
  <2>3. AnswerInv'
    BY <2>1, <2>2, AnswerFrame DEF AllInv
  <2>4. KnownInv'
    BY <1>0, <2>1, <2>2 DEF KnownInv, AllInv, TypeInv, TypeOK
  <2> QED
    BY <2>1, <2>3, <2>4 DEF StageInv, BackInv, Handling
<1>5. CASE Crash
  BY <1>5, FeedStop DEF Crash, Stop, AllInv
<1> QED
  BY <1>1, <1>2, <1>3, <1>4, <1>5 DEF Environment

LEMMA FeedInit == Init => FeedInv
<1> SUFFICES ASSUME Init PROVE FeedInv
  OBVIOUS
<1>1. \A r \in Round : round[r].pc = "idle"
  BY DEF Init, NoRound
<1>2. live.pc = "none" /\ waiting = <<>> /\ lastHeader.hash = Genesis
  BY DEF Init, NoCall, Queue!Init, GenesisRow
<1>3. Depth[peerTip] \in Nat
  BY DepthNat DEF Init
<1> QED
  BY <1>1, <1>2, <1>3
  DEF Init, FeedInv, AnswerInv, StageInv, KnownInv, BackInv, Handling

LEMMA FeedNext ==
  ASSUME CalmPeer, MaxOthers = 0, AllInv, AllInv', FeedInv, [Next]_vars
  PROVE  FeedInv'
<1> USE DEF network
<1>1. CASE Poll
  <2>1. UNCHANGED peerTip
    BY <1>1 DEF Poll
  <2> QED
    BY <1>1, <2>1, FeedPoll, FeedStop DEF AllInv
<1>2. ASSUME NEW r \in Round, PeerAnswers(r) \/ Syncing(r)
      PROVE  FeedInv'
  <2>1. UNCHANGED peerTip
    BY <1>2 DEF PeerAnswers, Syncing, HeadersIgnored, OnNoHeaders, OnHeaders,
                InsertHeaders, UpdateTip, StoreTip, OnHeadersSave
  <2> QED
    BY <1>2, <2>1, FeedRound, FeedStop DEF AllInv
<1>3. CASE Following
  <2>1. UNCHANGED peerTip
    BY <1>3 DEF Following, LookupBlock, ExtendHeader, DetectReorg, SaveHeader,
                UpdateLiveTip, StoreLiveTip, DestroyHeaders, FindHeader,
                FinishBlock
  <2> QED
    BY <1>3, <2>1, FeedFollowing, FeedStop DEF AllInv
<1>4. CASE UNCHANGED vars
  BY <1>4
  DEF vars, database, process, heights, control, queue, network, counters,
      FeedInv, AnswerInv, StageInv, KnownInv, BackInv, Handling
<1> QED
  BY <1>1, <1>2, <1>3, <1>4, FeedStarting, FeedNotified, FeedDeliver,
     FeedEnvironment DEF Next

-----------------------------------------------------------------------------
(* What the block service sees of a state.                                 *)

\* The end of the table, the stage and how far back a reorganization goes.
FeedState ==
  AllInv /\ FeedInv =>
    /\ rows = {} => FeedTop = NoBlock
    /\ \A b \in Block : rows = RowsOf(b) => FeedTop = b
    /\ phase # "run" => FeedCut = NoBlock
    /\ ~GoingBack => FeedCut = NoBlock
    /\ GoingBack =>
         /\ FeedCut = Branch[lastHeader.hash][tip.height]
         /\ FeedCut \in Block
         /\ OnBranch(FeedCut, lastHeader.hash)
         /\ phase = "run" /\ FeedStage = "follow"

LEMMA Seen == FeedState
<1> SUFFICES ASSUME AllInv, FeedInv
             PROVE  /\ rows = {} => FeedTop = NoBlock
                    /\ \A b \in Block : rows = RowsOf(b) => FeedTop = b
                    /\ phase # "run" => FeedCut = NoBlock
                    /\ ~GoingBack => FeedCut = NoBlock
                    /\ GoingBack =>
                         /\ FeedCut = Branch[lastHeader.hash][tip.height]
                         /\ FeedCut \in Block
                         /\ OnBranch(FeedCut, lastHeader.hash)
                         /\ phase = "run" /\ FeedStage = "follow"
  BY DEF FeedState
<1>1. rows = {} => FeedTop = NoBlock
  BY DEF FeedTop
<1>2. ASSUME NEW b \in Block, rows = RowsOf(b)
      PROVE  FeedTop = b
  <2>1. rows # {}
    BY <1>2, RowsOfSome
  <2>2. FeedTop = CHOOSE x \in Block : rows = RowsOf(x)
    BY <2>1 DEF FeedTop
  <2>3. \A x \in Block : rows = RowsOf(x) => x = b
    BY <1>2, RowsOfOne
  <2> QED
    BY <1>2, <2>2, <2>3
<1>3. ~GoingBack => FeedCut = NoBlock
  BY DEF FeedCut
<1>4. ASSUME GoingBack
      PROVE  /\ FeedCut = Branch[lastHeader.hash][tip.height]
             /\ FeedCut \in Block
             /\ OnBranch(FeedCut, lastHeader.hash)
             /\ phase = "run" /\ FeedStage = "follow"
  <2> DEFINE b == lastHeader.hash
  <2>1. Handling
    BY <1>4 DEF GoingBack, Handling
  <2>2. phase = "run" /\ FeedStage = "follow"
    BY <2>1, HandlingAlone DEF AllInv, CalmInv, FeedInv, StageInv, FeedStage
  <2>3. /\ tip.height \in Nat /\ b \in Block
        /\ lastHeader.height = Depth[b] /\ Depth[b] \in Nat
    BY DepthNat DEF AllInv, TypeInv, TypeOK, Row, HeightsInv, HeightsTrue
  <2>4. tip.height <= Depth[b]
    BY <1>4, <2>3 DEF AllInv, CalmInv, DataInv, RewindInv, GoingBack, FeedInv,
                         BackInv
  <2>5. tip.height \in 0 .. Depth[b]
    BY <2>3, <2>4
  <2>6. /\ FeedCut = Branch[b][tip.height] /\ FeedCut \in Block
        /\ Depth[FeedCut] = tip.height
    BY <1>4, <2>3, <2>5, BranchBlock DEF FeedCut
  <2> QED
    BY <2>2, <2>4, <2>6 DEF OnBranch
<1>5. phase # "run" => ~GoingBack
  BY <1>4
<1> QED
  BY <1>1, <1>2, <1>3, <1>4, <1>5


-----------------------------------------------------------------------------
(* The steps of the service are steps of HeaderFeed.                       *)

\* Its step, or none.
FeedStep == [Feed!Next]_(Feed!header)

\* Nothing that is seen changes.
LEMMA SeenSame ==
  ASSUME UNCHANGED <<rows, phase, initialSync, lastHeader>>,
         GoingBack' = GoingBack, GoingBack => UNCHANGED tip
  PROVE  FeedStep
<1>1. UNCHANGED <<FeedTop, FeedStage>>
  BY DEF FeedTop, FeedStage
<1>2. UNCHANGED FeedCut
  <2>1. CASE GoingBack
    BY <2>1 DEF FeedCut
  <2>2. CASE ~GoingBack
    BY <2>2 DEF FeedCut
  <2> QED
    BY <2>1, <2>2
<1> QED
  BY <1>1, <1>2 DEF FeedStep, Feed!header

\* The process stops.
LEMMA SeenHalt ==
  ASSUME Boot, phase' = "down", UNCHANGED rows
  PROVE  FeedStep
<1>1. UNCHANGED FeedTop
  BY DEF FeedTop
<1>2. lastHeader'.hash = Genesis /\ FeedStage' = "down" /\ FeedCut' = NoBlock
  BY DEF Boot, NoCall, GenesisRow, FeedStage, FeedCut, GoingBack
<1> QED
  BY <1>1, <1>2 DEF FeedStep, Feed!Next, Feed!Halt

LEMMA SeenStarting ==
  ASSUME AllInv, AllInv', FeedInv, FeedInv', FeedState, FeedState', Starting
  PROVE  FeedStep
<1> USE DEF database, heights, control, process
<1>0. /\ phase \in {"down", "truncate", "create", "destroy", "find"}
      /\ phase # "run" /\ lastHeader.hash = Genesis /\ initialSync
      /\ FeedCut = NoBlock
  BY DEF Starting, Start, TruncateHeaders, CreateGenesis, DestroyAboveTip,
         FindCheckpoint, FeedInv, StageInv, FeedState
<1>1. CASE Boot /\ phase' = "down"
  BY <1>1, SeenHalt DEF Starting, Start, TruncateHeaders, CreateGenesis,
                        DestroyAboveTip, FindCheckpoint, Stop
<1>2. CASE Start /\ ~(Boot /\ phase' = "down")
  <2>1. /\ phase = "down" /\ phase' \in {"truncate", "destroy"}
        /\ UNCHANGED <<rows, lastHeader>>
    BY <1>2 DEF Start, Stop
  <2>2. /\ FeedStage = "down" /\ FeedStage' = "start" /\ UNCHANGED FeedTop
    BY <2>1 DEF FeedStage, FeedTop
  <2>3. FeedCut' = NoBlock
    BY <2>1 DEF FeedState
  <2> QED
    BY <1>0, <2>1, <2>2, <2>3 DEF FeedStep, Feed!Next, Feed!Begin
<1>3. ASSUME FeedStage = "start", FeedStage' = "start",
             UNCHANGED lastHeader.hash, FeedCut' = NoBlock,
             \/ FeedTop' = NoBlock
             \/ FeedTop = NoBlock /\ FeedTop' = Genesis
             \/ \E a, b \in Block :
                  FeedTop = b /\ FeedTop' = a /\ OnBranch(a, b)
      PROVE  FeedStep
  BY <1>0, <1>3
  DEF FeedStep, Feed!Next, Feed!Rebuild, Feed!OnBranch, OnBranch
<1>4. CASE TruncateHeaders
  <2>1. /\ phase = "truncate" /\ phase' = "create" /\ rows' = {}
        /\ UNCHANGED lastHeader
    BY <1>4 DEF TruncateHeaders
  <2>2. FeedStage = "start" /\ FeedStage' = "start"
    BY <2>1 DEF FeedStage
  <2>3. FeedCut' = NoBlock /\ FeedTop' = NoBlock
    BY <2>1 DEF FeedState
  <2> QED
    BY <1>3, <2>1, <2>2, <2>3
<1>5. CASE CreateGenesis
  <2>1. /\ phase = "create" /\ phase' = "destroy" /\ rows' = {GenesisRow}
        /\ lastHeader'.hash = Genesis
    BY <1>5 DEF CreateGenesis, GenesisRow
  <2>2. FeedStage = "start" /\ FeedStage' = "start"
    BY <2>1 DEF FeedStage
  <2>3. rows = {}
    BY <2>1 DEF AllInv, CalmInv, DataInv, StartInv
  <2>4. FeedCut' = NoBlock /\ FeedTop = NoBlock
    BY <2>1, <2>3 DEF FeedState
  <2>5. FeedTop' = Genesis
    BY <2>1, RowsOfGenesis, TreeAssumption DEF FeedState
  <2> QED
    BY <1>0, <1>3, <2>1, <2>2, <2>4, <2>5
<1>6. CASE DestroyAboveTip
  <2>1. /\ phase = "destroy" /\ phase' = "find" /\ UNCHANGED lastHeader
        /\ rows' = {r \in rows : r.height <= tip.height}
    BY <1>6 DEF DestroyAboveTip
  <2>2. FeedStage = "start" /\ FeedStage' = "start"
    BY <2>1 DEF FeedStage
  <2>3. PICK b \in Block : rows = RowsOf(b) /\ tip.height <= Depth[b]
    BY <2>1 DEF AllInv, CalmInv, DataInv, StartInv
  <2>4. tip.height \in 0 .. Depth[b]
    BY <2>3, DepthNat DEF AllInv, TypeInv, TypeOK, Row
  <2> DEFINE a == Branch[b][tip.height]
  <2>5. a \in Block /\ Depth[a] = tip.height /\ rows' = RowsOf(a)
    BY <2>1, <2>3, <2>4, BranchBlock, RowsOfCut
  <2>6. OnBranch(a, b)
    BY <2>3, <2>5 DEF OnBranch
  <2> HIDE DEF a
  <2>7. FeedCut' = NoBlock /\ FeedTop = b /\ FeedTop' = a
    BY <2>1, <2>3, <2>5 DEF FeedState
  <2> QED
    BY <1>3, <2>1, <2>2, <2>5, <2>6, <2>7
<1>7. CASE FindCheckpoint /\ ~(Boot /\ phase' = "down")
  <2>1. PICK r \in rows : r.height = tip.height /\ lastHeader' = r
    BY <1>7 DEF FindCheckpoint, Stop
  <2>2. /\ phase = "find" /\ phase' = "run" /\ UNCHANGED <<rows, initialSync>>
        /\ UNCHANGED live
    BY <1>7 DEF FindCheckpoint, Stop, queue
  <2>3. PICK b \in Block : rows = RowsOf(b) /\ tip.height = Depth[b]
    BY <2>2 DEF AllInv, CalmInv, DataInv, StartInv
  <2>4. lastHeader'.hash = b
    BY <2>1, <2>3, RowsOfEnd
  <2>5. FeedStage = "start" /\ FeedStage' = "sync"
    BY <1>0, <2>2 DEF FeedStage
  <2>6. FeedTop = b /\ UNCHANGED FeedTop
    BY <2>2, <2>3 DEF FeedState, FeedTop
  <2>7. ~GoingBack
    BY <1>0, TreeAssumption
    DEF AllInv, CalmInv, ControlInv, FreshBefore, Fresh, TypeInv, LiveBlock,
        GoingBack
  <2>8. FeedCut' = NoBlock
    BY <2>2, <2>7 DEF GoingBack, FeedCut
  <2> QED
    BY <1>0, <2>4, <2>5, <2>6, <2>8 DEF FeedStep, Feed!Next, Feed!Ready
<1> QED
  BY <1>1, <1>2, <1>4, <1>5, <1>6, <1>7 DEF Starting


LEMMA SeenRound ==
  ASSUME AllInv, AllInv', FeedInv, FeedInv', FeedState, FeedState',
         NEW r \in Round, PeerAnswers(r) \/ Syncing(r)
  PROVE  FeedStep
<1> USE DEF database, heights, queue, process
<1>0. /\ round \in [Round -> RoundState] /\ round[r] \in RoundState
      /\ lastHeader \in Row /\ lastHeader.hash \in Block
      /\ lastHeader.height = Depth[lastHeader.hash]
  BY DEF AllInv, TypeInv, TypeOK, Row, HeightsInv, HeightsTrue
<1>1. round[r].pc # "idle"
  BY DEF PeerAnswers, Syncing, HeadersIgnored, OnNoHeaders, OnHeaders,
         InsertHeaders, UpdateTip, StoreTip, OnHeadersSave
<1>2. /\ phase = "run" /\ ~Handling
      /\ \A s \in Round \ {r} : round[s].pc = "idle"
  BY <1>1, ActiveRound DEF AllInv, CalmInv
<1>3. ~GoingBack /\ FeedCut = NoBlock
  BY <1>2 DEF GoingBack, Handling, FeedState
<1>4. CASE Boot /\ phase' = "down" /\ UNCHANGED rows
  BY <1>4, SeenHalt
<1>5. CASE UNCHANGED <<rows, phase, live, initialSync, lastHeader>>
  BY <1>3, <1>5, SeenSame DEF GoingBack
<1>6. ASSUME round[r].pc # "insert"
      PROVE  FeedTop = lastHeader.hash
  <2>1. rows = RowsOf(lastHeader.hash)
    BY <1>2, <1>6 DEF AllInv, CalmInv, DataInv, RestInv, Ends, Handling
  <2> QED
    BY <1>0, <2>1 DEF FeedState
\* The end of a sync.
<1>7. ASSUME round[r].pc # "insert", lastHeader.hash # Genesis, ~initialSync',
             UNCHANGED <<rows, phase, live, lastHeader>>
      PROVE  FeedStep
  <2>1. /\ FeedTop = lastHeader.hash /\ UNCHANGED FeedTop
        /\ FeedCut' = NoBlock /\ UNCHANGED lastHeader.hash
    BY <1>3, <1>6, <1>7 DEF FeedTop, FeedCut, GoingBack
  <2>2. CASE initialSync
    <3>1. FeedStage = "sync" /\ FeedStage' = "follow"
      BY <1>2, <1>7, <2>2 DEF FeedStage
    <3> QED
      BY <1>3, <1>7, <2>1, <3>1 DEF FeedStep, Feed!Next, Feed!Complete
  <2>3. CASE ~initialSync
    <3>1. UNCHANGED initialSync
      BY <1>7, <2>3 DEF AllInv, TypeInv, TypeOK
    <3> QED
      BY <1>5, <1>7, <3>1
  <2> QED
    BY <2>2, <2>3
<1>8. CASE OnNoHeaders(r)
  <2>1. /\ round[r].pc = "answered" /\ round[r].batch = <<>> /\ ~initialSync'
        /\ UNCHANGED <<rows, phase, live, lastHeader>>
    BY <1>8 DEF OnNoHeaders, SyncComplete
  <2>2. lastHeader.hash # Genesis
    BY <2>1 DEF FeedInv, AnswerInv
  <2> QED
    BY <1>7, <2>1, <2>2
<1>9. CASE OnHeadersSave(r)
  <2>1. /\ round[r].pc = "stored" /\ UNCHANGED <<rows, phase, live, lastHeader>>
        /\ ~initialSync' \/ UNCHANGED initialSync
    BY <1>9 DEF OnHeadersSave, SyncComplete
  <2>2. lastHeader.hash # Genesis
    BY <2>1 DEF FeedInv, AnswerInv
  <2> QED
    BY <1>5, <1>7, <2>1, <2>2
\* A message of headers is linked.
<1>10. CASE OnHeaders(r) /\ ~(Boot /\ phase' = "down" /\ UNCHANGED rows)
  <2> DEFINE batch == round[r].batch
             b == batch[Len(batch)]
  <2>1. /\ round[r].pc = "answered" /\ batch # <<>> /\ InOrder(batch)
        /\ lastHeader' = [height |-> lastHeader.height + Len(batch), hash |-> b]
        /\ UNCHANGED <<rows, phase, live, initialSync>>
    BY <1>10 DEF OnHeaders, Stop, control
  <2>2. PICK c \in Block : Stretch(batch, c)
    BY <2>1 DEF AllInv, CalmInv, DataInv, MessageInv
  <2>3. batch \in Seq(Block)
    BY <1>0 DEF RoundState
  <2> HIDE DEF batch
  <2>4. /\ b = c /\ Continues(batch, lastHeader, c)
        /\ lastHeader.height + Len(batch) = Depth[c]
    BY <1>0, <2>1, <2>2, <2>3, InOrderContinues
  <2>5. OnBranch(lastHeader.hash, c)
    BY <1>0, <2>3, <2>4, RowsOfContinued
  <2>6. c # lastHeader.hash
    <3>1. Len(batch) \in Nat /\ Len(batch) # 0
      BY <2>1, <2>3
    <3> QED
      BY <1>0, <2>4, <3>1, DepthNat
  <2>7. FeedStage = "sync" /\ FeedStage' = "sync"
    <3>1. initialSync
      BY <2>1 DEF FeedInv, AnswerInv
    <3> QED
      BY <1>2, <2>1, <3>1 DEF FeedStage
  <2>8. /\ FeedTop = lastHeader.hash /\ UNCHANGED FeedTop /\ FeedCut' = NoBlock
        /\ lastHeader'.hash = c
    BY <1>3, <1>6, <2>1, <2>4 DEF FeedTop, FeedCut, GoingBack
  <2> QED
    BY <1>3, <2>5, <2>6, <2>7, <2>8
    DEF FeedStep, Feed!Next, Feed!Download, Feed!OnBranch, OnBranch
\* And stored.
<1>11. CASE InsertHeaders(r) /\ ~(Boot /\ phase' = "down" /\ UNCHANGED rows)
  <2>1. /\ round[r].pc = "insert" /\ round'[r].pc = "inserted"
        /\ UNCHANGED <<phase, live, lastHeader, control>>
        /\ \A s \in Round \ {r} : round'[s] = round[s]
    BY <1>0, <1>11 DEF InsertHeaders, Stop, NoRound
  <2>2. UNCHANGED initialSync /\ ~GoingBack'
    BY <1>3, <2>1 DEF control, GoingBack
  <2>3. FeedTop' = lastHeader.hash
    <3>1. /\ \A s \in Round : round'[s].pc # "insert"
          /\ live'.pc \notin {"save", "destroy", "find"} /\ phase' = "run"
      BY <1>2, <2>1 DEF Handling
    <3>2. rows' = RowsOf(lastHeader.hash)
      BY <2>1, <3>1 DEF AllInv, CalmInv, DataInv, RestInv, Ends
    <3> QED
      BY <1>0, <3>2 DEF FeedState
  <2>4. FeedStage \in {"sync", "follow"} /\ UNCHANGED FeedStage
    BY <1>2, <2>1, <2>2 DEF FeedStage
  <2>5. UNCHANGED lastHeader.hash /\ FeedCut' = NoBlock
    BY <2>1, <2>2 DEF FeedCut
  <2>6. CASE FeedTop = lastHeader.hash
    BY <1>3, <2>3, <2>4, <2>5, <2>6 DEF FeedStep, Feed!header
  <2>7. CASE FeedTop # lastHeader.hash
    BY <1>3, <2>3, <2>4, <2>5, <2>7 DEF FeedStep, Feed!Next, Feed!Save
  <2> QED
    BY <2>6, <2>7
<1>12. CASE PeerAnswers(r) \/ HeadersIgnored(r) \/ UpdateTip(r) \/ StoreTip(r)
  BY <1>5, <1>12 DEF PeerAnswers, HeadersIgnored, UpdateTip, StoreTip, control
<1> QED
  BY <1>4, <1>8, <1>9, <1>10, <1>11, <1>12 DEF Syncing

LEMMA SeenFollowing ==
  ASSUME AllInv, AllInv', FeedInv, FeedInv', FeedState, FeedState', Following
  PROVE  FeedStep
<1> USE DEF database, heights, process
<1>0. /\ live \in LiveState /\ tip \in Row /\ lastHeader \in Row
      /\ lastHeader.hash \in Block /\ lastHeader.height \in Nat
      /\ lastHeader.height = Depth[lastHeader.hash]
  BY DEF AllInv, TypeInv, TypeOK, Row, HeightsInv, HeightsTrue
<1>1. CASE Boot /\ phase' = "down" /\ UNCHANGED rows
  BY <1>1, SeenHalt
<1>2. CASE FinishBlock
  <2>1. /\ UNCHANGED <<rows, phase, initialSync, lastHeader>>
        /\ live.pc = "done"
        /\ live' = IF waiting = <<>> THEN NoCall ELSE Entry
    BY <1>2 DEF FinishBlock, control
  <2>2. live'.pc \notin {"destroy", "find"}
    BY <2>1 DEF NoCall, Entry
  <2> QED
    BY <2>1, <2>2, SeenSame DEF GoingBack
<1>3. CASE ~FinishBlock
  <2>1. Handling
    BY <1>3 DEF Following, LookupBlock, ExtendHeader, DetectReorg, SaveHeader,
                UpdateLiveTip, StoreLiveTip, DestroyHeaders, FindHeader,
                Handling
  <2>2. Idle /\ phase = "run" /\ ~initialSync /\ FeedStage = "follow"
    BY <2>1, HandlingAlone
    DEF AllInv, CalmInv, FeedInv, StageInv, FeedStage
  <2>3. live.pc \notin {"save", "destroy", "find"} =>
          FeedTop = lastHeader.hash /\ FeedCut = NoBlock /\ tip = lastHeader
    BY <1>0, <2>1, HandlingRest DEF AllInv, CalmInv, FeedState, GoingBack
  <2>4. CASE LookupBlock \/ UpdateLiveTip \/ StoreLiveTip
    <3>1. /\ UNCHANGED <<rows, phase, initialSync, lastHeader>>
          /\ live.pc \notin {"destroy", "find"}
          /\ live'.pc \notin {"destroy", "find"}
      BY <1>0, <2>4 DEF LookupBlock, UpdateLiveTip, StoreLiveTip, control,
                        NoCall, LiveState
    <3> QED
      BY <3>1, SeenSame DEF GoingBack
  \* The block extends the last header.
  <2>5. CASE ExtendHeader
    <3>1. /\ live.pc = "absent" /\ live'.pc = "save"
          /\ Parent[running] = lastHeader.hash /\ lastHeader'.hash = running
          /\ UNCHANGED <<rows, phase, initialSync>>
      BY <1>0, <2>5 DEF ExtendHeader, control, LiveState
    <3>2. running \in Block
      BY <3>1 DEF AllInv, TypeInv, LiveBlock
    <3>3. /\ FeedStage' = "follow" /\ UNCHANGED FeedTop /\ FeedCut' = NoBlock
      BY <2>2, <3>1 DEF FeedStage, FeedTop, FeedCut, GoingBack
    <3> QED
      BY <2>2, <2>3, <3>1, <3>2, <3>3 DEF FeedStep, Feed!Next, Feed!Extend
  \* It does not: the service goes back.
  <2>6. CASE DetectReorg
    <3>1. /\ live.pc = "absent" /\ live'.pc = "destroy"
          /\ UNCHANGED <<rows, phase, initialSync, lastHeader>>
      BY <1>0, <2>6 DEF DetectReorg, LiveState
    <3>2. /\ GoingBack' /\ FeedStage' = "follow" /\ UNCHANGED FeedTop
      BY <2>2, <3>1 DEF FeedStage, FeedTop, GoingBack
    <3>3. FeedCut' \in Block /\ OnBranch(FeedCut', lastHeader.hash)
      BY <3>1, <3>2 DEF FeedState
    <3> QED
      BY <2>2, <2>3, <3>1, <3>2, <3>3
      DEF FeedStep, Feed!Next, Feed!GoBack, Feed!OnBranch, OnBranch
  <2>7. CASE SaveHeader /\ ~(Boot /\ phase' = "down" /\ UNCHANGED rows)
    <3>1. /\ live.pc = "save" /\ live'.pc = "saved"
          /\ UNCHANGED <<phase, initialSync, lastHeader, round>>
      BY <1>0, <2>7 DEF SaveHeader, Stop, NoCall, control
    <3>2. FeedTop = Parent[lastHeader.hash] /\ FeedTop # lastHeader.hash
      <4>1. /\ Parent[lastHeader.hash] \in Block
            /\ rows = RowsOf(Parent[lastHeader.hash])
        BY <3>1 DEF AllInv, CalmInv, DataInv, SaveInv, Ends
      <4>2. Depth[lastHeader.hash] = Depth[Parent[lastHeader.hash]] + 1
        BY <1>0, <4>1, TreeAssumption
      <4> QED
        BY <4>1, <4>2, DepthNat DEF FeedState
    <3>3. FeedTop' = lastHeader.hash
      <4>1. rows' = RowsOf(lastHeader.hash)
        BY <2>2, <3>1 DEF AllInv, CalmInv, DataInv, RestInv, Ends, Idle
      <4> QED
        BY <1>0, <4>1 DEF FeedState
    <3>4. /\ FeedStage' = "follow" /\ FeedCut = NoBlock /\ FeedCut' = NoBlock
          /\ UNCHANGED lastHeader.hash
      BY <2>2, <3>1 DEF FeedStage, FeedCut, GoingBack
    <3> QED
      BY <2>2, <3>2, <3>3, <3>4 DEF FeedStep, Feed!Next, Feed!Save
  <2>8. CASE DestroyHeaders
    <3>1. /\ live.pc = "destroy" /\ live'.pc = "find"
          /\ UNCHANGED <<phase, initialSync, lastHeader, tip>>
      BY <2>8 DEF DestroyHeaders, NoCall, control
    <3>2. GoingBack /\ GoingBack' /\ UNCHANGED FeedCut /\ FeedStage' = "follow"
      BY <2>2, <3>1 DEF GoingBack, FeedCut, FeedStage
    <3>3. FeedTop' = FeedCut'
      BY <3>1, <3>2 DEF FeedState, FeedInv, BackInv
    <3>4. FeedCut # NoBlock /\ UNCHANGED lastHeader.hash
      BY <3>1, <3>2, TreeAssumption DEF FeedState
    <3> QED
      BY <2>2, <3>2, <3>3, <3>4 DEF FeedStep, Feed!Next, Feed!Truncate
  <2>9. CASE FindHeader /\ ~(Boot /\ phase' = "down" /\ UNCHANGED rows)
    <3>1. PICK r \in rows : r.height = tip.height /\ lastHeader' = r
      BY <2>9 DEF FindHeader, Stop
    <3>2. /\ live.pc = "find" /\ live'.pc = "done" /\ initialSync'
          /\ UNCHANGED <<phase, rows>>
      BY <1>0, <2>9 DEF FindHeader, Stop, StartSync, LiveState
    <3>3. /\ GoingBack /\ ~GoingBack'
          /\ FeedStage' = "sync" /\ FeedCut' = NoBlock
      BY <2>2, <3>2 DEF GoingBack, FeedStage, FeedCut
    <3>4. FeedCut \in Block /\ rows = RowsOf(FeedCut)
      BY <3>2, <3>3 DEF FeedState, FeedInv, BackInv
    <3>5. Depth[FeedCut] = tip.height
      <4>1. /\ tip.height <= lastHeader.height
            /\ FeedCut = Branch[lastHeader.hash][tip.height]
        BY <3>2, <3>3 DEF FeedInv, BackInv, FeedState
      <4>2. tip.height \in 0 .. Depth[lastHeader.hash]
        BY <1>0, <4>1 DEF Row
      <4> QED
        BY <1>0, <4>1, <4>2, BranchBlock
    <3>6. lastHeader'.hash = FeedCut
      BY <3>1, <3>4, <3>5, RowsOfEnd
    <3>7. FeedTop = FeedCut /\ UNCHANGED FeedTop /\ FeedCut # NoBlock
      BY <3>2, <3>4, TreeAssumption DEF FeedState, FeedTop
    <3> QED
      BY <3>3, <3>6, <3>7 DEF FeedStep, Feed!Next, Feed!Again
  <2> QED
    BY <1>1, <1>3, <2>4, <2>5, <2>6, <2>7, <2>8, <2>9 DEF Following
<1> QED
  BY <1>2, <1>3


LEMMA SeenEnvironment ==
  ASSUME AllInv, AllInv', FeedInv, FeedState, FeedState', CalmPeer,
         MaxOthers = 0, Environment
  PROVE  FeedStep
<1> USE DEF database, heights, queue, process, counters
<1>1. CASE PeerReady \/ Reconnect
  <2>1. phase = "run" /\ live.pc = "none"
    <3>1. CASE PeerReady
      <4>1. Fresh /\ phase = "run"
        BY <3>1 DEF PeerReady, AllInv, CalmInv, ControlInv, FreshBefore
      <4> QED
        BY <4>1, TreeAssumption DEF Fresh, AllInv, TypeInv, LiveBlock
    <3>2. CASE Reconnect
      BY <3>2 DEF Reconnect, Settled, AllInv, CalmInv, ControlInv, FreshBefore,
                  Fresh
    <3> QED
      BY <1>1, <3>1, <3>2
  <2>2. UNCHANGED <<rows, phase, live, lastHeader>> /\ initialSync'
    BY <1>1 DEF PeerReady, Reconnect, StartSync
  <2>3. \A r \in Round : round[r].pc # "insert"
    BY <1>1
    DEF PeerReady, Reconnect, Settled, AllInv, CalmInv, ControlInv,
        FreshBefore, Fresh, Idle
  <2>4. /\ FeedTop = lastHeader.hash /\ UNCHANGED FeedTop
        /\ FeedCut = NoBlock /\ FeedCut' = NoBlock /\ UNCHANGED lastHeader.hash
    <3>1. rows = RowsOf(lastHeader.hash) /\ lastHeader.hash \in Block
      BY <2>1, <2>3 DEF AllInv, CalmInv, DataInv, RestInv, Ends, TypeInv,
                        TypeOK, Row
    <3> QED
      BY <2>1, <2>2, <3>1 DEF FeedState, FeedTop, FeedCut, GoingBack
  <2>5. CASE initialSync
    <3>1. UNCHANGED initialSync
      BY <2>2, <2>5 DEF AllInv, TypeInv, TypeOK
    <3> QED
      BY <2>1, <2>2, <3>1, SeenSame DEF GoingBack
  <2>6. CASE ~initialSync
    <3>1. FeedStage = "follow" /\ FeedStage' = "sync"
      BY <2>1, <2>2, <2>6 DEF FeedStage
    <3> QED
      BY <2>4, <3>1 DEF FeedStep, Feed!Next, Feed!Resume
  <2> QED
    BY <2>5, <2>6
<1>2. CASE OtherPeerReady
  BY <1>2 DEF OtherPeerReady, AllInv, TypeInv, TypeOK
<1>3. CASE PeerAdopts \/ PeerServes
  <2>1. UNCHANGED <<rows, phase, initialSync, lastHeader, live, tip>>
    BY <1>3 DEF PeerAdopts, PeerServes, control
  <2> QED
    BY <2>1, SeenSame DEF GoingBack
<1>4. CASE Crash
  BY <1>4, SeenHalt DEF Crash, Stop
<1> QED
  BY <1>1, <1>2, <1>3, <1>4 DEF Environment

LEMMA SeenNext ==
  ASSUME AllInv, AllInv', FeedInv, FeedInv', FeedState, FeedState', CalmPeer,
         MaxOthers = 0, [Next]_vars
  PROVE  FeedStep
<1> USE DEF database, heights, control, queue, process
<1>1. CASE Poll /\ Boot /\ phase' = "down"
  BY <1>1, SeenHalt DEF Poll
<1>2. CASE Poll /\ ~(Boot /\ phase' = "down")
  <2>1. UNCHANGED <<rows, phase, initialSync, lastHeader, live, tip>>
    BY <1>2 DEF Poll, Stop
  <2> QED
    BY <2>1, SeenSame DEF GoingBack
<1>3. CASE ServicesNotified \/ UNCHANGED vars
  <2>1. UNCHANGED <<rows, phase, initialSync, lastHeader, live, tip>>
    BY <1>3 DEF ServicesNotified, vars
  <2> QED
    BY <2>1, SeenSame DEF GoingBack
<1>4. CASE DeliverBlock
  <2>1. /\ UNCHANGED <<rows, phase, initialSync, lastHeader, tip>>
        /\ \/ live' = live
           \/ /\ running = NoBlock
              /\ live'.pc \in {"done", "lookup"}
    BY <1>4 DEF DeliverBlock, Entry, NoCall
  <2>2. running = NoBlock => live.pc = "none"
    BY TreeAssumption DEF AllInv, TypeInv, LiveBlock
  <2> QED
    BY <2>1, <2>2, SeenSame DEF GoingBack
<1> QED
  BY <1>1, <1>2, <1>3, <1>4, SeenStarting, SeenRound, SeenFollowing,
     SeenEnvironment DEF Next

\* The header service implements HeaderFeed, which BlockService is composed
\* with: whatever it does, the block service sees the table as one branch
\* that is extended, cut back along a reorganization or rebuilt by a start,
\* and a sync that only ends above the genesis block.
THEOREM ImplementsFeed ==
  ASSUME CalmPeer, MaxOthers = 0
  PROVE  Spec => FeedSpec
<1>1. Init => Feed!Init
  <2> SUFFICES ASSUME Init PROVE Feed!Init
    OBVIOUS
  <2>1. rows = {} /\ phase = "down" /\ lastHeader.hash = Genesis
        /\ live.pc = "none"
    BY DEF Init, GenesisRow, NoCall
  <2> QED
    BY <2>1 DEF Feed!Init, FeedTop, FeedStage, FeedCut, GoingBack
<1>2. AllInv /\ AllInv' /\ FeedInv /\ [Next]_vars => FeedInv'
  BY FeedNext
<1>3. /\ AllInv /\ AllInv' /\ FeedInv /\ FeedInv' /\ FeedState /\ FeedState'
      /\ [Next]_vars
      => [Feed!Next]_(Feed!header)
  BY SeenNext DEF FeedStep
<1> QED
  BY <1>1, <1>2, <1>3, FeedInit, Seen, AllInvariant, PTL
  DEF Spec, FeedSpec, Feed!Spec
=============================================================================
