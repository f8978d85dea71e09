---------------------------- MODULE TxIndex_proofs ----------------------------
(***************************************************************************)
(* The second part of the proof that the tables of TxIndex are the ledger  *)
(* of the committed chain: the queue and the statements of the handler of  *)
(* the blocks preserve the invariant of TxInvariant, and LedgerExact       *)
(* follows from it.  Then the links, and the witnesses, receipts and logs: *)
(* every step preserves LinksInv and OrphanInv, and LinksAgree and         *)
(* NoOrphans follow.  All of it is for peers that send nothing a block     *)
(* being written holds (CalmMempool), blocks that do not come during       *)
(* onSynced() (CalmStart), and a ledger in which a transaction that spends *)
(* another of its block has no rival for a coin (Unrivalled).              *)
(***************************************************************************)
EXTENDS TxTables_proofs

-----------------------------------------------------------------------------
(* The queue.                                                              *)

\* What is left to show of a step that only starts or ends a handler of the
\* mempool: that what is queued has nothing to do with the chain.
LEMMA QueueStep ==
  ASSUME LedgerInv, phase \in {"run", "undo"}, synced, db' = db,
         UNCHANGED <<storedTip, txTip, phase, step, synced, tip, block>>,
         DOMAIN job' = Handler, job'["block"] = job["block"],
         \/ job' = job /\ running' = running /\ running # NoTx
         \/ /\ ~Filling("mempool")
            /\ IF running' = NoTx THEN job'["mempool"] = NoJob /\ waiting' = <<>>
               ELSE job'["mempool"] = Begin(running'),
         waiting' \in Seq(Relayed), running' \in Relayed \cup {NoTx}, QueueInv'
  PROVE  LedgerInv'
<1> USE DEF LedgerInv, WorkInv
<1>0. "mempool" \in Handler /\ "block" \in Handler
  BY DEF Handler
<1>1. TableInv'
  BY SameTable
<1>2. \A r : Kept(r)
  BY DEF Kept, SameInput
<1>3. \A x : Committed(x)' <=> Committed(x)
  BY DEF Committed, H
<1>6. BlockInv'
  <2>1. /\ NewPlaces' = NewPlaces /\ BlockTx' = BlockTx /\ AroundTx' = AroundTx /\ H' = H
        /\ Looking' <=> Looking
    BY DEF NewPlaces, BlockTx, AroundTx, Around, H, Looking
  <2>2. \A r : Complete(r)' <=> Complete(r)
    BY DEF Complete, Filled, Linking, Spends
  <2>3. BlockPlace' <=> BlockPlace
    BY DEF BlockPlace
  <2>4. BlockFound' <=> BlockFound
    BY <2>1, <2>2 DEF BlockFound
  <2>5. BlockNew' <=> BlockNew
    BY <2>1 DEF BlockNew
  <2>6. BlockRows' <=> BlockRows
    BY <2>1 DEF BlockRows
  <2>7. BlockIds' <=> BlockIds
    BY DEF BlockIds
  <2>8. BlockLinks' <=> BlockLinks
    BY <2>1 DEF BlockLinks, Spends
  <2> QED
    BY <2>3, <2>4, <2>5, <2>6, <2>7, <2>8 DEF BlockInv
<1>4. CASE job' = job /\ running' = running /\ running # NoTx
  <2>1. ProcessInv'
    BY <1>4 DEF ProcessInv, H
  <2>2. CleanInv' /\ UndoInv' /\ HeightInv'
    BY <1>3, <1>4 DEF CleanInv, UndoInv, HeightInv, AroundTx, Around, H, Looking, BlockTx, Committed
  <2>3. CompleteInv'
    BY <1>4 DEF CompleteInv, Whole, Complete, Filled, Linking, InProgress, Filling, Committed, H
  <2>4. \A w \in Handler : WriteInv(w)'
    BY <1>4 DEF WriteInv, Filling, Filled, Unlinked, Empty, IdsRight
  <2>5. MempoolInv'
    BY <1>4 DEF MempoolInv, Filling
  <2> QED
    BY <1>1, <1>6, <2>1, <2>2, <2>3, <2>4, <2>5
<1>5. CASE /\ ~Filling("mempool")
           /\ IF running' = NoTx THEN job'["mempool"] = NoJob /\ waiting' = <<>>
              ELSE job'["mempool"] = Begin(running')
  <2>1. /\ DOMAIN job'["mempool"] = JobFields
        /\ job'["mempool"].pc \in {"none", "validate"}
        /\ running' = NoTx => job'["mempool"].pc = "none" /\ waiting' = <<>>
        /\ running' # NoTx => /\ job'["mempool"].pc = "validate"
                              /\ job'["mempool"].txs = <<running'>>
                              /\ job'["mempool"].todo = <<running'>>
    <3>1. DOMAIN NoJob = JobFields /\ NoJob.pc = "none"
      BY DEF NoJob, JobFields
    <3>2. \A t : /\ DOMAIN Begin(t) = JobFields /\ Begin(t).pc = "validate"
                 /\ Begin(t).txs = <<t>> /\ Begin(t).todo = <<t>>
      BY DEF NoJob, Begin, JobFields
    <3> QED
      BY <1>5, <3>1, <3>2
  <2>2. ~Filling("mempool")'
    BY <2>1 DEF Filling
  <2>3. ProcessInv'
    <3>1. \A w \in Handler : DOMAIN job'[w] = {"pc", "txs", "todo", "ids", "found", "known"}
      BY <1>0, <2>1 DEF ProcessInv, JobFields, Handler
    <3> QED
      BY <1>0, <2>1, <3>1 DEF ProcessInv, H
  <2>4. CleanInv' /\ UndoInv' /\ HeightInv'
    BY <1>3 DEF CleanInv, UndoInv, HeightInv, AroundTx, Around, H, Looking, BlockTx, Committed
  <2>5. \A t : InProgress(t) <=> InProgress(t)'
    BY <1>5, <2>2 DEF InProgress, Handler, Filling
  <2>6. CompleteInv'
    BY <2>5 DEF CompleteInv, Whole, Complete, Filled, Linking, Committed, H
  <2>7. WriteInv("block")'
    BY <1>0 DEF WriteInv, Filling, Filled, Unlinked, Empty, IdsRight
  <2>8. WriteInv("mempool")'
    BY <2>1, <2>2 DEF WriteInv
  <2>9. MempoolInv'
    BY <2>1, <2>2 DEF MempoolInv
  <2> QED
    BY <1>1, <2>3, <2>4, <2>6, <2>7, <2>8, <2>9, <1>6 DEF Handler
<1> QED
  BY <1>4, <1>5

\* A transaction of a peer is queued.
LEMMA LedgerDeliver ==
  ASSUME Calm, LedgerInv, NEW t \in Relayed, Deliver(t)
  PROVE  LedgerInv'
<1> USE DEF LedgerInv, WorkInv
<1>1. /\ phase \in {"run", "undo"} /\ synced
      /\ Fresh(t) /\ \A b \in Touched : Apart(t, b)
      /\ Queue!Push(t)
      /\ job' = IF running = NoTx THEN [job EXCEPT !["mempool"] = Begin(t)] ELSE job
      /\ UNCHANGED <<db, tips, process, overlooked>>
  BY DEF Deliver, Calm
<1>2. UNCHANGED <<db, storedTip, txTip, phase, step, synced, tip, block>>
  BY <1>1 DEF tips, process
<1>3. t \in Tx /\ t # NoTx
  BY LedgerAssumption
<1>4. waiting \in Seq(Relayed) /\ running \in Relayed \cup {NoTx} /\ DOMAIN job = Handler /\ storedTip \in Block
  BY DEF ProcessInv
<1>5. /\ waiting' \in Seq(Relayed)
      /\ IF running = NoTx THEN running' = t /\ waiting' = <<>>
         ELSE running' = running /\ waiting' = Append(waiting, t)
  <2>1. CASE running = NoTx
    <3>1. waiting = <<>>
      BY <2>1 DEF ProcessInv
    <3>2. running' = Queue!Last(Append(waiting, t)) /\ waiting' = Queue!Front(Append(waiting, t))
      BY <1>1, <2>1 DEF Queue!Push, Queue!Process
    <3>3. Append(waiting, t) = <<t>>
      BY <3>1
    <3> QED
      BY <2>1, <3>2, <3>3 DEF Queue!Last, Queue!Front
  <2>2. CASE running # NoTx
    BY <1>1, <1>4, <2>2 DEF Queue!Push
  <2> QED
    BY <2>1, <2>2
<1>6. \A s \in Queued' : s \in Queued \/ s = t
  <2>1. CASE running = NoTx
    BY <1>3, <1>5, <2>1 DEF Queued, ToSet
  <2>2. CASE running # NoTx
    <3>1. \A s \in ToSet(Append(waiting, t)) : s \in ToSet(waiting) \/ s = t
      BY <1>4 DEF ToSet
    <3> QED
      BY <1>5, <2>2, <3>1 DEF Queued
  <2> QED
    BY <2>1, <2>2
<1>7. tip = storedTip
  BY DEF ProcessInv
<1>8. t \notin ChainTx /\ \A s \in ChainTx : Coins(s) \cap Coins(t) = {}
  <2>1. Confirmed = ChainTx
    BY <1>7 DEF Confirmed, ChainTx, H
  <2> QED
    BY <1>1, <2>1 DEF Fresh, Coins
<1>9. ASSUME phase = "run", block # NoBlock PROVE Apart(t, block)
  <2>1. block \in Block /\ Parent[block] = storedTip
    BY <1>9 DEF ProcessInv
  <2>2. Depth[block] = H + 1 /\ H \in Nat
    BY <1>4, <2>1, ChainUp, ContentsType DEF H
  <2>3. Branch[block][Depth[block]] = block
    BY <2>1, BranchAssumption
  <2>4. block \in Touched
    BY <1>7, <1>9, <2>2, <2>3 DEF Touched, H
  <2> QED
    BY <1>1, <2>4
<1>10. ASSUME phase = "undo", NEW b \in Touched PROVE Stranger(t, b)
  <2>1. block \in Block /\ block # NoBlock
    BY <1>10, TreeAssumption DEF ProcessInv
  <2>2. PICK d \in Depth[tip] + 1 .. Depth[block] : b = Branch[block][d]
    BY <1>10, <2>1 DEF Touched
  <2>3. Depth[tip] \in Nat /\ Depth[block] \in Nat
    BY <1>4, <1>7, <2>1, ContentsType
  <2>4. d \in 0 .. Depth[block]
    BY <2>3
  <2>5. b \in Block
    BY <2>1, <2>2, <2>4, BranchBlock
  <2> QED
    BY <1>1, <1>3, <1>10, <2>5, ApartStranger
<1>11. QueueInv'
  <2>1. ChainTx' = ChainTx /\ Touched' = Touched
    BY <1>2 DEF ChainTx, H, Touched
  <2>2. ASSUME NEW s PROVE Apart(s, block)' <=> Apart(s, block)
    <3>1. Lineage(s)' = Lineage(s)
      BY <1>2 DEF Lineage
    <3> QED
      BY <1>2, <3>1 DEF Apart
  <2>3. ASSUME NEW s \in Queued'
        PROVE  /\ s \notin ChainTx /\ \A u \in ChainTx : Coins(u) \cap Coins(s) = {}
               /\ phase = "run" /\ block # NoBlock => Apart(s, block)
               /\ phase = "undo" => \A b \in Touched : Stranger(s, b)
    <3>1. CASE s \in Queued
      BY <3>1 DEF QueueInv
    <3>2. CASE s = t
      BY <3>2, <1>8, <1>9, <1>10
    <3> QED
      BY <1>6, <3>1, <3>2
  <2> QED
    <3>1. ASSUME NEW s \in Queued'
          PROVE  /\ s \notin ChainTx' /\ \A u \in ChainTx' : Coins(u) \cap Coins(s) = {}
                 /\ phase' = "run" /\ block' # NoBlock => Apart(s, block)'
                 /\ phase' = "undo" => \A b \in Touched' : Stranger(s, b)
      BY <1>2, <2>1, <2>2, <2>3
    <3> QED
      BY <3>1 DEF QueueInv
<1>12. job'["block"] = job["block"] /\ DOMAIN job' = Handler
  BY <1>1, <1>4 DEF Handler
<1>13. CASE running = NoTx
  <2>1. job["mempool"].pc = "none"
    BY <1>13 DEF ProcessInv
  <2>2. ~Filling("mempool")
    BY <2>1 DEF Filling
  <2>3. job'["mempool"] = Begin(t)
    BY <1>1, <1>4, <1>13 DEF Handler
  <2> QED
    BY <1>1, <1>2, <1>3, <1>5, <1>11, <1>12, <1>13, <2>2, <2>3, QueueStep
<1>14. CASE running # NoTx
  BY <1>1, <1>2, <1>4, <1>5, <1>11, <1>12, <1>14, QueueStep
<1> QED
  BY <1>13, <1>14

\* The next one is taken.
LEMMA LedgerFinish ==
  ASSUME LedgerInv, FinishTransaction
  PROVE  LedgerInv'
<1> USE DEF LedgerInv, WorkInv
<1>1. /\ phase \in {"run", "undo"} /\ job["mempool"].pc = "done"
      /\ Queue!Resolve
      /\ job' = [job EXCEPT !["mempool"] = IF waiting = <<>> THEN NoJob ELSE Begin(Last(waiting))]
      /\ UNCHANGED <<db, tips, process, overlooked>>
  BY DEF FinishTransaction, Writing
<1>2. UNCHANGED <<db, storedTip, txTip, phase, step, synced, tip, block>>
  BY <1>1 DEF tips, process
<1>3. waiting \in Seq(Relayed) /\ running \in Relayed \cup {NoTx} /\ DOMAIN job = Handler
  BY DEF ProcessInv
<1>4. synced
  <2>1. "mempool" \in Handler /\ job["mempool"].pc # "none"
    BY <1>1 DEF Handler
  <2> QED
    BY <1>1, <2>1, HandlerPlace
<1>5. ~Filling("mempool")
  BY <1>1 DEF Filling
<1>6. job'["block"] = job["block"] /\ DOMAIN job' = Handler
  BY <1>1, <1>3 DEF Handler
<1>7. job'["mempool"] = IF waiting = <<>> THEN NoJob ELSE Begin(Last(waiting))
  BY <1>1, <1>3 DEF Handler
<1>8. IF waiting = <<>> THEN running' = NoTx /\ waiting' = <<>>
      ELSE /\ running' = Last(waiting) /\ waiting' = Front(waiting)
           /\ running' \in ToSet(waiting) /\ running' \in Relayed
           /\ waiting' \in Seq(Relayed) /\ \A s \in ToSet(waiting') : s \in ToSet(waiting)
  <2>1. CASE waiting = <<>>
    BY <1>1, <2>1 DEF Queue!Resolve
  <2>2. CASE waiting # <<>>
    <3>1. running' = Last(waiting) /\ waiting' = Front(waiting)
      <4>1. running' = Queue!Last(waiting) /\ waiting' = Queue!Front(waiting)
        BY <1>1, <2>2 DEF Queue!Resolve, Queue!Process
      <4> QED
        BY <4>1 DEF Queue!Last, Queue!Front, Last, Front
    <3>2. Len(waiting) \in DOMAIN waiting /\ Len(waiting) \in Nat /\ Len(waiting) > 0
      BY <1>3, <2>2
    <3>3. Last(waiting) \in ToSet(waiting) /\ Last(waiting) \in Relayed
      BY <1>3, <3>2 DEF Last, ToSet
    <3>4. /\ Front(waiting) \in Seq(Relayed)
          /\ \A n \in DOMAIN Front(waiting) : n \in DOMAIN waiting /\ Front(waiting)[n] = waiting[n]
      BY <1>3, <3>2 DEF Front
    <3>5. \A s \in ToSet(Front(waiting)) : s \in ToSet(waiting)
      BY <3>4 DEF ToSet
    <3> QED
      BY <2>2, <3>1, <3>3, <3>4, <3>5
  <2> QED
    BY <2>1, <2>2
<1>9. \A s \in Queued' : s \in Queued
  <2>1. CASE waiting = <<>>
    <3>1. ToSet(waiting') = {}
      BY <1>8, <2>1 DEF ToSet
    <3> QED
      BY <1>8, <2>1, <3>1 DEF Queued
  <2>2. CASE waiting # <<>>
    BY <1>8, <2>2 DEF Queued
  <2> QED
    BY <2>1, <2>2
<1>10. QueueInv'
  <2>1. ChainTx' = ChainTx /\ Touched' = Touched
    BY <1>2 DEF ChainTx, H, Touched
  <2>2. ASSUME NEW s PROVE Apart(s, block)' <=> Apart(s, block)
    <3>1. Lineage(s)' = Lineage(s)
      BY <1>2 DEF Lineage
    <3> QED
      BY <1>2, <3>1 DEF Apart
  <2> QED
    <3>1. ASSUME NEW s \in Queued'
          PROVE  /\ s \notin ChainTx' /\ \A u \in ChainTx' : Coins(u) \cap Coins(s) = {}
                 /\ phase' = "run" /\ block' # NoBlock => Apart(s, block)'
                 /\ phase' = "undo" => \A b \in Touched' : Stranger(s, b)
      BY <1>2, <1>9, <2>1, <2>2 DEF QueueInv
    <3> QED
      BY <3>1 DEF QueueInv
<1>11. NoTx \notin Relayed
  BY LedgerAssumption
<1>12. CASE waiting = <<>>
  BY <1>1, <1>2, <1>3, <1>4, <1>5, <1>6, <1>7, <1>8, <1>10, <1>12, QueueStep
<1>13. CASE waiting # <<>>
  BY <1>1, <1>2, <1>4, <1>5, <1>6, <1>7, <1>8, <1>10, <1>11, <1>13, QueueStep
<1> QED
  BY <1>12, <1>13

-----------------------------------------------------------------------------
(* The statements of the handler of the blocks.                            *)

\* What is left to show of one that leaves the rows of other transactions alone.
LEMMA BlockWork ==
  ASSUME LedgerInv, phase = "run", block # NoBlock,
         UNCHANGED <<storedTip, phase, step, synced, tip, block, waiting, running>>,
         job'["mempool"] = job["mempool"],
         TableInv', ProcessInv', HeightInv', BlockInv', WriteInv("block")',
         \A s \in db'.tx : s.tx \in BlockTx =>
           /\ Whole(s)'
           /\ s.height = Unconfirmed => \E r \in db.tx : r.tx = s.tx /\ r.height = Unconfirmed,
         \A s \in db'.tx : s.tx \notin BlockTx =>
           \E r \in db.tx : Settled(r) /\ r.id = s.id /\ r.tx = s.tx /\ r.height = s.height,
         running # NoTx =>
           /\ \A r \in db.tx : r.tx = running => \E s \in db'.tx : r.id = s.id /\ r.tx = s.tx
           /\ \A c \in Coins(running), s \in db.tx, o \in db.outs :
                s.tx = c.tx /\ o.id = s.id /\ o.at = c.at =>
                  \E u \in db'.tx, p \in db'.outs : u.tx = c.tx /\ p.id = u.id /\ p.at = c.at
  PROVE  LedgerInv'
<1> USE DEF LedgerInv, WorkInv
<1>1. "mempool" \in Handler /\ "block" \in Handler
  BY DEF Handler
<1>2. CleanInv' /\ UndoInv'
  BY DEF CleanInv, UndoInv
<1>3. running # NoTx =>
        /\ running \in Queued /\ running \notin BlockTx
        /\ \A s \in BlockTx : Coins(s) \cap Coins(running) = {}
  <2> HAVE running # NoTx
  <2>1. running \in Queued
    BY QueuedType
  <2>2. BlockTx \subseteq AroundTx
    BY AroundChain
  <2> QED
    BY <2>1, <2>2, QueuedApart
<1>4. ASSUME NEW s \in db'.tx PROVE Whole(s)'
  <2>1. CASE s.tx \in BlockTx
    BY <2>1
  <2>2. CASE s.tx \notin BlockTx
    <3>1. PICK r \in db.tx : Settled(r) /\ r.id = s.id /\ r.tx = s.tx
      BY <2>2
    <3>2. Whole(r)
      BY DEF CompleteInv
    <3>3. ASSUME InProgress(r.tx) PROVE InProgress(r.tx)'
      <4>1. PICK w \in Handler : Filling(w) /\ r.tx \in ToSet(job[w].txs)
        BY <3>3 DEF InProgress
      <4>2. CASE w = "mempool"
        BY <1>1, <4>1, <4>2 DEF InProgress, Filling
      <4>3. CASE w = "block"
        <5>1. job["block"].pc # "find"
          BY <4>1, <4>3 DEF Filling
        <5> QED
          BY <2>2, <3>1, <4>1, <4>3, <5>1, JobBlock
      <4> QED
        BY <4>1, <4>2, <4>3 DEF Handler
    <3> QED
      BY <3>1, <3>2, <3>3, WholeKept DEF Settled
  <2> QED
    BY <2>1, <2>2
<1>5. CompleteInv'
  BY <1>4 DEF CompleteInv
<1>6. QueueInv'
  <2>1. \A s \in db'.tx : s.height = Unconfirmed => \E r \in db.tx : r.tx = s.tx /\ r.height = Unconfirmed
    OBVIOUS
  <2> QED
    BY <2>1, QueueKept
<1>7. WriteInv("mempool")'
  <2>1. Filling("mempool") => running # NoTx /\ ToSet(job["mempool"].txs) = {running}
    BY MempoolJob
  <2>2. Filling("mempool") =>
          /\ \A s \in db'.tx : s.tx \in ToSet(job["mempool"].txs) =>
               \E r \in db.tx : Settled(r) /\ r.id = s.id /\ r.tx = s.tx
          /\ \A r \in db.tx : r.tx \in ToSet(job["mempool"].txs) =>
               \E s \in db'.tx : r.id = s.id /\ r.tx = s.tx
    BY <1>3, <2>1
  <2> QED
    BY <1>1, <2>2, WriteKept
<1>8. MempoolInv'
  <2>1. running # NoTx =>
          /\ \A s \in db'.tx : s.tx # running =>
               (\E r \in db.tx : r.tx = s.tx) \/ Coins(s.tx) \cap Coins(running) = {}
          /\ \A s \in db'.tx : s.tx = running =>
               s.height = Unconfirmed \/ \E r \in db.tx : r.tx = s.tx /\ r.height = s.height
    BY <1>3
  <2> QED
    BY <2>1, MempoolKept
<1> QED
  BY <1>2, <1>5, <1>6, <1>7, <1>8 DEF Handler

\* The same of a step that changes no table.
LEMMA BlockIdle ==
  ASSUME LedgerInv, phase = "run", block # NoBlock, db' = db,
         UNCHANGED <<storedTip, phase, step, synced, tip, block, waiting, running>>,
         job'["mempool"] = job["mempool"],
         ~Filling("block"), ~Filling("block")',
         ProcessInv', HeightInv', BlockInv'
  PROVE  LedgerInv'
<1> USE DEF LedgerInv, WorkInv
<1>1. TableInv'
  BY SameTable
<1>2. \A r : Settled(r)
  BY DEF Settled, Kept, SameInput
<1>3. WriteInv("block")'
  BY DEF WriteInv, Filling
<1>4. ASSUME NEW s \in db'.tx PROVE Whole(s)'
  <2>1. Whole(s)
    BY DEF CompleteInv
  <2>2. ASSUME InProgress(s.tx) PROVE InProgress(s.tx)'
    BY <2>2 DEF InProgress, Handler, Filling
  <2> QED
    BY <1>2, <2>1, <2>2, WholeKept DEF Settled
<1> QED
  BY <1>1, <1>2, <1>3, <1>4, BlockWork

\* A block begins: it is the next one, and has nothing to do with what is queued.
LEMMA LedgerBegin ==
  ASSUME Calm, LedgerInv, NEW b \in Block, BeginBlock(b)
  PROVE  LedgerInv'
<1> USE DEF LedgerInv, WorkInv
<1> DEFINE j == [NoJob EXCEPT !.pc = IF synced THEN "find" ELSE "replace", !.txs = Contents[b]]
<1>1. /\ phase = "run" /\ block = NoBlock /\ Parent[b] = tip /\ block' = b
      /\ \A t \in Queued : Apart(t, b)
      /\ job' = [job EXCEPT !["block"] = j]
      /\ UNCHANGED <<db, storedTip, txTip, phase, step, synced, tip, waiting, running>>
  BY DEF BeginBlock, Undisturbed, Calm, Queued, tips, queue
<1>2. /\ tip = storedTip /\ storedTip \in Block /\ DOMAIN job = Handler
      /\ job["block"].pc = "none" /\ b # NoBlock
  BY <1>1, TreeAssumption DEF ProcessInv
<1>3. /\ DOMAIN j = JobFields /\ j.pc = (IF synced THEN "find" ELSE "replace")
      /\ j.txs = Contents[b] /\ j.todo = <<>> /\ j.found = {}
  BY DEF NoJob, JobFields
<1>4. /\ DOMAIN job' = Handler /\ job'["block"] = j /\ job'["mempool"] = job["mempool"]
      /\ "block" \in Handler /\ "mempool" \in Handler
  BY <1>1, <1>2 DEF Handler
<1> HIDE DEF j
<1>5. TableInv'
  BY <1>1, SameTable
<1>6. ProcessInv'
  <2>1. \A w \in Handler : DOMAIN job'[w] = {"pc", "txs", "todo", "ids", "found", "known"}
    BY <1>3, <1>4 DEF Handler, JobFields, ProcessInv
  <2> QED
    BY <1>1, <1>2, <1>4, <2>1 DEF ProcessInv, H
<1>7. CleanInv' /\ UndoInv'
  BY <1>1 DEF CleanInv, UndoInv
<1>8. ~Filling("block") /\ ~Filling("block")'
  BY <1>2, <1>3, <1>4 DEF Filling
<1>9. CompleteInv'
  <2>1. \A t : InProgress(t) <=> InProgress(t)'
    BY <1>4, <1>8 DEF InProgress, Handler, Filling
  <2> QED
    BY <1>1, <2>1 DEF CompleteInv, Whole, Complete, Filled, Linking, Committed, H, Spends
<1>10. H' = H /\ ChainTx' = ChainTx /\ BlockTx' = ToSet(Contents[b]) /\ Depth[b] = H + 1
       /\ H \in Nat /\ H < Unconfirmed /\ Unconfirmed \in Nat /\ Depth[b] < Unconfirmed
       /\ ChainTx \subseteq AroundTx'
  <2>1. ProcessInv' /\ phase' = "run"
    BY <1>1, <1>6
  <2>2. ChainTx' = ChainTx /\ H' = H
    BY <1>1 DEF ChainTx, H
  <2>3. AroundTx' = TxsUpTo(b, Depth[b])
    BY <1>1, <1>2 DEF AroundTx, Around
  <2>4. Depth[b] = H + 1 /\ ChainTx \subseteq TxsUpTo(b, Depth[b])
    BY <1>1, <1>2, ChainUp DEF ChainTx, H
  <2> QED
    BY <1>1, <1>2, <2>2, <2>3, <2>4, ContentsType, LedgerAssumption DEF BlockTx, H
<1>11. /\ \A r \in db.tx : Committed(r) \/ (synced /\ r.height = Unconfirmed)
       /\ \A x \in db.outs \cup db.ins : \A r \in db.tx : r.id = x.id => x.height = r.height
  <2>1. Looking
    BY <1>2 DEF Looking
  <2> QED
    BY <1>1, <1>2, <2>1 DEF HeightInv
<1>12. HeightInv'
  BY <1>1, <1>3, <1>4, <1>10, <1>11 DEF HeightInv, Committed
<1>13. QueueInv'
  <2>1. Queued' = Queued /\ ChainTx' = ChainTx
    BY <1>1, <1>10 DEF Queued
  <2>2. ASSUME NEW t \in Queued PROVE Apart(t, b)'
    <3>1. Lineage(t)' = Lineage(t)
      BY <1>1 DEF Lineage
    <3> QED
      BY <1>1, <3>1 DEF Apart
  <2> QED
    BY <1>1, <2>1, <2>2 DEF QueueInv
<1>14. WriteInv("block")'
  BY <1>3, <1>4, <1>8 DEF WriteInv
<1>15. WriteInv("mempool")'
  <2>1. \A r : Settled(r)
    BY <1>1 DEF Settled, Kept, SameInput
  <2>2. WriteInv("mempool")
    BY <1>4
  <2> QED
    BY <1>1, <1>4, <2>1, <2>2, WriteKept
<1>16. MempoolInv'
  BY <1>1, <1>4 DEF MempoolInv, Filling
<1>17. BlockInv'
  <2>1. NewPlaces' = DOMAIN Contents[b]
    BY <1>1, <1>3, <1>4 DEF NewPlaces
  <2>2. BlockPlace'
    BY <1>1, <1>3, <1>4 DEF BlockPlace
  <2>3. BlockFound'
    <3>1. Picked(Contents[b], DOMAIN Contents[b]) = Contents[b]
      BY ContentsType, PickedAll
    <3> QED
      BY <1>1, <1>3, <1>4, <2>1, <3>1 DEF BlockFound
  <2>4. BlockNew'
    <3> SUFFICES ASSUME ~synced PROVE BlockNew'
      BY <1>1, <1>3, <1>4 DEF BlockNew
    <3>1. ToSet(j.todo) = {} /\ j.todo \in Seq(Tx)
      BY <1>3 DEF ToSet
    <3>2. \A r \in db.tx : r.tx \in AroundTx'
      BY <1>2, <1>10, <1>11, CommittedRows DEF TableInv
    <3> QED
      BY <1>1, <1>4, <3>1, <3>2 DEF BlockNew
  <2>5. BlockRows' /\ BlockIds'
    BY <1>3, <1>4 DEF BlockRows, BlockIds, Looking
  <2>6. BlockLinks'
    <3> SUFFICES ASSUME ~synced, NEW i \in db.ins, i.height = H + 1 PROVE FALSE
      BY <1>1, <1>3, <1>4, <1>10 DEF BlockLinks
    <3>1. PICK r \in db.tx : r.id = i.id
      BY DEF TableInv, OwnInv, With
    <3> QED
      BY <1>10, <1>11, <3>1 DEF Committed
  <2> QED
    BY <2>2, <2>3, <2>4, <2>5, <2>6 DEF BlockInv
<1> QED
  BY <1>5, <1>6, <1>7, <1>9, <1>12, <1>13, <1>14, <1>15, <1>16, <1>17 DEF Handler

\* Before the rows are created, the handler of the blocks has a block, and the
\* rows are committed or the mempool's.
LEMMA BlockFacts ==
  ASSUME LedgerInv, phase \in {"run", "undo"}, job["block"].pc # "none"
  PROVE  /\ phase = "run" /\ block \in Block /\ block # NoBlock /\ Parent[block] = storedTip
         /\ storedTip \in Block /\ Depth[block] = H + 1
         /\ H \in Nat /\ H < Unconfirmed /\ Unconfirmed \in Nat /\ H + 1 < Unconfirmed
         /\ AroundTx = ChainTx \cup BlockTx /\ ChainTx \cap BlockTx = {} /\ BlockTx \subseteq Tx
         /\ \A n \in DOMAIN Contents[block] : Contents[block][n] \in BlockTx
         /\ \A t \in BlockTx : \E n \in DOMAIN Contents[block] : t = Contents[block][n]
         /\ \A r \in db.tx : Committed(r) => r.tx \notin BlockTx
         /\ running # NoTx => /\ running \notin AroundTx /\ running \in Queued /\ running \in Tx
                              /\ \A s \in AroundTx : Coins(s) \cap Coins(running) = {}
         /\ \A r \in db.tx : \/ Committed(r)
                             \/ synced /\ r.height = Unconfirmed
                             \/ ~Looking /\ r.height = H + 1 /\ r.tx \in BlockTx
<1> USE DEF LedgerInv, WorkInv
<1>1. "block" \in Handler
  BY DEF Handler
<1>2. /\ phase = "run" /\ block \in Block /\ block # NoBlock /\ Parent[block] = storedTip
      /\ storedTip \in Block /\ Depth[block] = H + 1
      /\ H \in Nat /\ H < Unconfirmed /\ Unconfirmed \in Nat /\ H + 1 < Unconfirmed
  BY <1>1, HandlerPlace
<1>3. AroundTx = ChainTx \cup BlockTx /\ ChainTx \cap BlockTx = {} /\ AroundTx \subseteq Tx
  BY <1>2, AroundChain
<1>4. /\ \A n \in DOMAIN Contents[block] : Contents[block][n] \in BlockTx
      /\ \A t \in BlockTx : \E n \in DOMAIN Contents[block] : t = Contents[block][n]
  BY DEF BlockTx, ToSet
<1>5. \A r \in db.tx : Committed(r) => r.tx \notin BlockTx
  BY <1>2, <1>3, CommittedRows DEF TableInv
<1>6. running # NoTx => /\ running \notin AroundTx /\ running \in Queued /\ running \in Tx
                        /\ \A s \in AroundTx : Coins(s) \cap Coins(running) = {}
  BY <1>2, QueuedType, QueuedApart
<1>7. \A r \in db.tx : \/ Committed(r)
                       \/ synced /\ r.height = Unconfirmed
                       \/ ~Looking /\ r.height = H + 1 /\ r.tx \in BlockTx
  BY <1>2 DEF HeightInv
<1> QED
  BY <1>2, <1>3, <1>4, <1>5, <1>6, <1>7

\* The handler finds what the mempool has of the block.
LEMMA LedgerFindUnconfirmed ==
  ASSUME LedgerInv, FindUnconfirmed
  PROVE  LedgerInv'
<1> USE DEF LedgerInv, WorkInv
<1> DEFINE j == job["block"]
           txs == Contents[block]
           found == Named(db, {txs[n] : n \in Generated(block) + 1 .. Len(txs)})
           new == {n \in DOMAIN txs : \A r \in found : r.tx # txs[n]}
           k == [j EXCEPT !.pc = IF found = {} THEN "replace" ELSE "adopt",
                          !.found = Ids(found), !.txs = Picked(txs, new), !.todo = Picked(txs, new \ {1})]
<1>1. /\ phase \in {"run", "undo"} /\ j.pc = "find"
      /\ job' = [job EXCEPT !["block"] = k]
      /\ UNCHANGED <<db, tips, process, queue, overlooked, counters>>
  BY DEF FindUnconfirmed, Writing
<1>2. UNCHANGED <<db, storedTip, txTip, phase, step, synced, tip, block, waiting, running>>
  BY <1>1 DEF tips, process, queue
<1>3. "block" \in Handler /\ DOMAIN job = Handler /\ DOMAIN j = JobFields
  BY DEF Handler, ProcessInv, JobFields
<1>4. j.pc # "none"
  BY <1>1
<1>5. /\ phase = "run" /\ block \in Block /\ block # NoBlock /\ Parent[block] = storedTip
      /\ storedTip \in Block /\ H \in Nat /\ H + 1 < Unconfirmed /\ Unconfirmed \in Nat
      /\ \A n \in DOMAIN txs : txs[n] \in BlockTx
      /\ \A r \in db.tx : Committed(r) => r.tx \notin BlockTx
      /\ running # NoTx => running \notin BlockTx
      /\ \A r \in db.tx : Committed(r) \/ (synced /\ r.height = Unconfirmed) \/ ~Looking
  BY <1>1, <1>4, BlockFacts
<1>6. Looking /\ ~Filling("block")
  BY <1>1 DEF Looking, Filling
<1>7. synced
  BY <1>1, <1>5 DEF BlockInv, BlockPlace
<1> HIDE DEF found, new
<1>8. /\ DOMAIN k = JobFields /\ k.pc = (IF found = {} THEN "replace" ELSE "adopt")
      /\ k.found = Ids(found) /\ k.txs = Picked(txs, new) /\ k.todo = Picked(txs, new \ {1})
  BY <1>3 DEF JobFields
<1>9. DOMAIN job' = Handler /\ job'["block"] = k /\ job'["mempool"] = job["mempool"]
  BY <1>1, <1>3 DEF Handler
<1> HIDE DEF k, j
<1>10. ~Filling("block")' /\ Looking'
  BY <1>8, <1>9 DEF Filling, Looking
<1>11. ProcessInv'
  <2>1. \A w \in Handler : DOMAIN job'[w] = {"pc", "txs", "todo", "ids", "found", "known"}
    BY <1>8, <1>9 DEF Handler, JobFields, ProcessInv
  <2> QED
    BY <1>2, <1>5, <1>9, <2>1 DEF ProcessInv, H
<1>12. H' = H /\ BlockTx' = BlockTx /\ AroundTx' = AroundTx
  BY <1>2 DEF H, BlockTx, AroundTx, Around
<1>13. /\ txs \in Seq(Tx) /\ Len(txs) \in Nat /\ DOMAIN txs = 1 .. Len(txs)
       /\ Generated(block) \in {1, 2}
  BY <1>5, ContentsType
<1>14. found \subseteq db.tx /\ \A r \in db.tx : r \in found <=> r.id \in Ids(found)
  BY DEF found, Named, Ids, TableInv, KeyInv
<1>15. NewPlaces' = new
  BY <1>2, <1>8, <1>9, <1>14 DEF NewPlaces, new
<1>16. \A x \in db.outs \cup db.ins : \A r \in db.tx : r.id = x.id => x.height = r.height
  BY <1>1, <1>5 DEF HeightInv, j
<1>17. HeightInv'
  <2>1. k.pc \in {"spend", "lower", "replace"} => k.found = {}
    BY <1>8 DEF Ids
  <2> QED
    BY <1>2, <1>5, <1>6, <1>9, <1>10, <1>12, <1>16, <2>1 DEF HeightInv, Committed
<1>18. /\ new \subseteq DOMAIN txs /\ k.todo \in Seq(Tx)
       /\ ToSet(k.todo) = {txs[n] : n \in new \ {1}}
  <2>1. new \subseteq DOMAIN txs
    BY DEF new
  <2>2. new \ {1} \in SUBSET DOMAIN txs
    BY <2>1
  <2> QED
    <3> DEFINE places == new \ {1}
    <3>1. Picked(txs, places) \in Seq(Tx) /\ ToSet(Picked(txs, places)) = {txs[n] : n \in places}
      <4>1. places \in SUBSET DOMAIN txs
        BY <2>2
      <4> HIDE DEF places, txs
      <4> QED
        BY <1>13, <4>1, PickedLemma
    <3> QED
      BY <1>8, <2>1, <3>1
<1>19. ASSUME NEW n \in new, NEW r \in db.tx PROVE r.tx # txs[n]
  <2> SUFFICES ASSUME r.tx = txs[n] PROVE FALSE
    OBVIOUS
  <2>1. n \in DOMAIN txs
    BY <1>18
  <2>2. CASE n \in 1 .. Generated(block)
    <3>1. txs[n] \in AllGenerated
      BY <1>5, <2>1, <2>2, GeneratedPlace
    <3>2. r.height # Unconfirmed
      BY <3>1 DEF TableInv, ShapeInv
    <3> QED
      BY <1>5, <1>6, <2>1, <3>2
  <2>3. CASE n \in Generated(block) + 1 .. Len(txs)
    <3>1. r \in found
      BY <2>3 DEF found, Named
    <3> QED
      BY <3>1 DEF new
  <2> QED
    BY <1>13, <2>1, <2>2, <2>3
<1>20. ASSUME NEW x \in k.found PROVE \E r \in db.tx : r.id = x /\ r.tx \in BlockTx /\ Complete(r)
  <2>1. PICK r \in found : r.id = x
    BY <1>8 DEF Ids
  <2>2. r \in db.tx /\ \E n \in Generated(block) + 1 .. Len(txs) : r.tx = txs[n]
    BY DEF found, Named
  <2>3. r.tx \in BlockTx
    BY <1>5, <1>13, <2>2
  <2>4. ~InProgress(r.tx)
    <3>1. ~(Filling("mempool") /\ r.tx \in ToSet(job["mempool"].txs))
      BY <1>5, <2>3, MempoolJob
    <3> QED
      BY <1>6, <3>1 DEF InProgress, Handler
  <2>5. Complete(r)
    BY <1>5, <2>2, <2>4 DEF CompleteInv, Whole
  <2> QED
    BY <2>1, <2>2, <2>3, <2>5
<1>21. BlockPlace'
  BY <1>2, <1>7, <1>8, <1>9 DEF BlockPlace
<1>22. BlockFound'
  <2>1. \A r : Complete(r)' <=> Complete(r)
    BY <1>2 DEF Complete, Filled, Linking, Spends
  <2> QED
    BY <1>2, <1>8, <1>9, <1>12, <1>15, <1>20, <2>1 DEF BlockFound
<1>23. BlockNew'
  BY <1>2, <1>9, <1>12, <1>15, <1>18, <1>19 DEF BlockNew
<1>24. BlockRows' /\ BlockIds'
  <2>1. job'["block"].pc \notin {"witness", "number"}
    BY <1>8, <1>9
  <2> QED
    BY <1>10, <2>1 DEF BlockRows, BlockIds
<1>25. BlockLinks'
  <2> SUFFICES ASSUME NEW i \in db.ins, i.height = H + 1 PROVE FALSE
    BY <1>2, <1>12 DEF BlockLinks
  <2>1. PICK r \in db.tx : r.id = i.id
    BY DEF TableInv, OwnInv, With
  <2> QED
    BY <1>5, <1>6, <1>16, <2>1 DEF Committed
<1>26. BlockInv'
  BY <1>21, <1>22, <1>23, <1>24, <1>25 DEF BlockInv
<1> QED
  BY <1>2, <1>5, <1>6, <1>9, <1>10, <1>11, <1>17, <1>26, BlockIdle

\* The same rows, at other heights.
Moves ==
  /\ DOMAIN db' = DOMAIN db /\ db'.next = db.next /\ db'.tx = db.tx
  /\ \A o \in db.outs : \E p \in db'.outs : p.id = o.id /\ p.at = o.at /\ p.by = o.by
  /\ \A p \in db'.outs : \E o \in db.outs : p.id = o.id /\ p.at = o.at /\ p.by = o.by
  /\ \A i \in db.ins : \E j \in db'.ins : SameInput(i, j)
  /\ \A j \in db'.ins : \E i \in db.ins : SameInput(i, j)

\* What such a statement leaves of the invariant.
LEMMA BlockMoves ==
  ASSUME LedgerInv, Handles("block"), Moves, TableInv', HeightInv', BlockLinks',
         job["block"].pc \in {"adopt", "spend"}, job'["block"].pc \in {"spend", "lower"},
         job'["block"].todo = job["block"].todo
  PROVE  LedgerInv'
<1> USE DEF LedgerInv, WorkInv
<1> DEFINE j == job["block"]
<1>1. phase \in {"run", "undo"} /\ j.pc # "none" /\ "block" \in Handler /\ "mempool" \in Handler
  BY DEF Handler, Handles
<1>2. /\ phase = "run" /\ block # NoBlock /\ storedTip \in Block
      /\ running # NoTx => running \notin BlockTx
  BY <1>1, BlockFacts
<1>3. /\ UNCHANGED <<storedTip, phase, step, synced, tip, block, waiting, running>>
      /\ job'["mempool"] = job["mempool"]
      /\ job'["block"].txs = j.txs /\ job'["block"].found = j.found
  BY <1>1 DEF Handles
<1>4. ProcessInv'
  BY <1>1, <1>2, HandlesProcess
<1>5. /\ ~Filling("block") /\ ~Filling("block")' /\ Looking /\ Looking'
      /\ j.pc # "find" /\ job'["block"].pc \notin {"find", "witness", "number", "commit", "replace"}
      /\ j.pc \in {"adopt", "spend", "lower", "replace"}
  BY DEF Filling, Looking
<1>6. ASSUME NEW r \in db.tx PROVE Settled(r)
  BY DEF Settled, Moves, Kept, SameInput
<1>7. \A r \in db.tx : Complete(r) => Complete(r)'
  BY <1>6, KeptComplete DEF Settled, Moves
<1>8. /\ NewPlaces' = NewPlaces /\ BlockTx' = BlockTx /\ H' = H /\ AroundTx' = AroundTx
      /\ db'.tx = db.tx
  BY <1>3 DEF NewPlaces, BlockTx, H, AroundTx, Around, Moves
<1>9. BlockInv'
  <2>0. BlockPlace /\ BlockFound /\ BlockNew
    BY <1>2 DEF BlockInv
  <2>1. BlockPlace'
    BY <1>3, <1>5, <2>0 DEF BlockPlace
  <2>2. BlockFound'
    BY <1>3, <1>5, <1>7, <1>8, <2>0 DEF BlockFound
  <2>3. BlockNew'
    BY <1>3, <1>5, <1>8, <2>0 DEF BlockNew
  <2>4. BlockRows' /\ BlockIds'
    BY <1>5 DEF BlockRows, BlockIds
  <2> QED
    BY <2>1, <2>2, <2>3, <2>4 DEF BlockInv
<1>10. ASSUME NEW s \in db'.tx PROVE Whole(s)'
  <2>1. s \in db.tx /\ Whole(s)
    BY <1>2, <1>8 DEF CompleteInv
  <2>2. ASSUME InProgress(s.tx) PROVE InProgress(s.tx)'
    BY <1>3, <1>5, <2>2 DEF InProgress, Handler, Filling
  <2> QED
    BY <1>2, <1>3, <1>6, <2>1, <2>2, WholeKept DEF Settled
<1>11. WriteInv("block")'
  BY <1>5 DEF WriteInv, Filling
<1>12. \A c : \A s \in db.tx, o \in db.outs : s.tx = c.tx /\ o.id = s.id /\ o.at = c.at =>
         \E u \in db'.tx, p \in db'.outs : u.tx = c.tx /\ p.id = u.id /\ p.at = c.at
  BY <1>8 DEF Moves
<1> QED
  BY <1>2, <1>3, <1>4, <1>6, <1>8, <1>9, <1>10, <1>11, <1>12, BlockWork

\* The rows before the block's are created: those that are found are the
\* mempool's, and nothing has the height of the block but theirs.
LEMMA FoundRows ==
  ASSUME LedgerInv, phase = "run", block # NoBlock, job["block"].pc \in {"adopt", "spend"}
  PROVE  /\ \A r \in db.tx : r.id \in job["block"].found => ~Committed(r) /\ r.height = Unconfirmed
         /\ \A x \in db.outs \cup db.ins : x.id \in job["block"].found =>
              ~Committed(x) /\ x.height = (IF job["block"].pc = "spend" THEN H + 1 ELSE Unconfirmed)
         /\ \A x \in db.outs \cup db.ins : x.id \notin job["block"].found => x.height # H + 1
<1> USE DEF LedgerInv, WorkInv
<1> DEFINE j == job["block"]
<1>1. /\ storedTip \in Block /\ H \in Nat /\ H + 1 < Unconfirmed /\ Unconfirmed \in Nat
      /\ \A r \in db.tx : Committed(r) => r.tx \notin BlockTx
      /\ \A r \in db.tx : \/ Committed(r)
                          \/ synced /\ r.height = Unconfirmed
                          \/ ~Looking /\ r.height = H + 1 /\ r.tx \in BlockTx
  <2>1. job["block"].pc # "none"
    OBVIOUS
  <2> QED
    BY <2>1, BlockFacts
<1>2. Looking /\ j.pc # "find"
  BY DEF Looking
<1>3. ASSUME NEW r \in db.tx, r.id \in j.found PROVE ~Committed(r) /\ r.height = Unconfirmed
  <2>1. PICK q \in db.tx : q.id = r.id /\ q.tx \in BlockTx
    BY <1>2, <1>3 DEF BlockInv, BlockFound
  <2>2. q = r
    BY <2>1 DEF TableInv, KeyInv
  <2> QED
    BY <1>1, <1>2, <2>1, <2>2
<1>4. ASSUME NEW x \in db.outs \cup db.ins
      PROVE  /\ x.id \in j.found =>
                  ~Committed(x) /\ x.height = (IF j.pc = "spend" THEN H + 1 ELSE Unconfirmed)
             /\ x.id \notin j.found => x.height # H + 1
  <2>1. PICK r \in db.tx : r.id = x.id
    BY DEF TableInv, OwnInv, With
  <2>2. x.height = IF j.pc \in {"spend", "lower", "replace"} /\ r.id \in j.found THEN H + 1 ELSE r.height
    BY <2>1 DEF HeightInv
  <2>3. CASE x.id \in j.found
    <3>1. r.height = Unconfirmed
      BY <1>3, <2>1, <2>3
    <3> QED
      <4>1. x.height = (IF j.pc = "spend" THEN H + 1 ELSE Unconfirmed)
        BY <2>1, <2>2, <2>3, <3>1
      <4>2. ~(x.height <= H)
        BY <1>1, <4>1
      <4>3. ~Committed(x)
        BY <4>2 DEF Committed
      <4> QED
        BY <2>3, <4>1, <4>3
  <2>4. CASE x.id \notin j.found
    <3>1. x.height = r.height
      BY <2>1, <2>2, <2>4
    <3>2. Committed(r) \/ r.height = Unconfirmed
      BY <1>1, <1>2
    <3>3. r.height # H + 1
      BY <1>1, <3>2 DEF Committed
    <3> QED
      BY <2>4, <3>1, <3>3
  <2> QED
    BY <2>3, <2>4
<1> QED
  BY <1>3, <1>4

\* The outputs and inputs found are at the height of the block.
LEMMA LedgerAdopt ==
  ASSUME LedgerInv, Adopt
  PROVE  LedgerInv'
<1> USE DEF LedgerInv, WorkInv
<1> DEFINE j == job["block"]
           h == Depth[block]
           outs == Update(db.outs, LAMBDA o : o.id \in j.found, LAMBDA o : [o EXCEPT !.height = h])
           ins == Update(db.ins, LAMBDA i : i.id \in j.found, LAMBDA i : [i EXCEPT !.height = h])
           d == [db EXCEPT !.outs = outs, !.ins = ins]
<1>0. "block" \in Handler /\ "adopt" # "none"
  BY DEF Handler
<1>1. Statement("block", "adopt", "spend", Adopted(db, j.found, h))
  BY DEF Adopt
<1>2. Adopted(db, j.found, h) = d
  BY Zenon DEF Adopted
<1>3. /\ outs = {IF o.id \in j.found THEN [o EXCEPT !.height = h] ELSE o : o \in db.outs}
      /\ ins = {IF i.id \in j.found THEN [i EXCEPT !.height = h] ELSE i : i \in db.ins}
  BY Zenon DEF Update
<1> HIDE DEF outs, ins
<1>4. /\ Handles("block") /\ j.pc = "adopt" /\ job'["block"].pc = "spend"
      /\ db' = Adopted(db, j.found, h) /\ job'["block"].todo = j.todo
      /\ job'["block"].found = j.found
  BY <1>0, <1>1, StatementHandles
<1>5. /\ phase = "run" /\ block # NoBlock /\ storedTip \in Block /\ h = H + 1
      /\ H \in Nat /\ H + 1 < Unconfirmed /\ Unconfirmed \in Nat
      /\ UNCHANGED <<storedTip, phase, step, synced, tip, block>>
  <2>1. phase \in {"run", "undo"} /\ j.pc # "none"
    BY <1>4 DEF Handles
  <2> QED
    BY <1>4, <2>1, BlockFacts DEF Handles
<1>6. /\ DOMAIN db' = DOMAIN db /\ db'.next = db.next /\ db'.tx = db.tx
      /\ db'.outs = outs /\ db'.ins = ins
  BY <1>2, <1>4 DEF TableInv, ShapeInv
<1> HIDE DEF d, h
<1>7. /\ \A x \in db.outs \cup db.ins : x.id \in j.found =>
           ~Committed(x) /\ x.height = Unconfirmed
      /\ \A x \in db.outs \cup db.ins : x.id \notin j.found => x.height # H + 1
  BY <1>4, <1>5, FoundRows
<1> HIDE DEF j
<1>8. ASSUME NEW o \in db.outs
      PROVE  /\ DOMAIN [o EXCEPT !.height = h] = DOMAIN o
             /\ [o EXCEPT !.height = h].id = o.id /\ [o EXCEPT !.height = h].at = o.at
             /\ [o EXCEPT !.height = h].by = o.by /\ [o EXCEPT !.height = h].byHeight = o.byHeight
             /\ [o EXCEPT !.height = h].height = h
  BY DEF TableInv, ShapeInv
<1>9. ASSUME NEW i \in db.ins
      PROVE  /\ DOMAIN [i EXCEPT !.height = h] = DOMAIN i
             /\ [i EXCEPT !.height = h].id = i.id /\ [i EXCEPT !.height = h].at = i.at
             /\ [i EXCEPT !.height = h].from = i.from /\ [i EXCEPT !.height = h].fromAt = i.fromAt
             /\ [i EXCEPT !.height = h].height = h
  BY DEF TableInv, ShapeInv
<1>10. \A p \in db'.outs : \E o \in db.outs :
         /\ DOMAIN p = DOMAIN o /\ p.id = o.id /\ p.at = o.at /\ p.by = o.by /\ p.byHeight = o.byHeight
         /\ IF o.id \in j.found THEN p.height = h ELSE p = o
  <2> TAKE p \in db'.outs
  <2>1. PICK o \in db.outs : p = IF o.id \in j.found THEN [o EXCEPT !.height = h] ELSE o
    BY <1>3, <1>6
  <2>2. /\ DOMAIN p = DOMAIN o /\ p.id = o.id /\ p.at = o.at /\ p.by = o.by /\ p.byHeight = o.byHeight
        /\ IF o.id \in j.found THEN p.height = h ELSE p = o
    BY <1>8, <2>1
  <2> QED
    BY <2>2
<1>11. \A o \in db.outs : \E p \in db'.outs :
         p.id = o.id /\ p.at = o.at /\ p.by = o.by /\ p.byHeight = o.byHeight
  BY <1>3, <1>6, <1>8
<1>12. \A l \in db'.ins : \E i \in db.ins :
         /\ DOMAIN l = DOMAIN i /\ SameInput(i, l)
         /\ IF i.id \in j.found THEN l.height = h ELSE l = i
  <2> TAKE l \in db'.ins
  <2>1. PICK i \in db.ins : l = IF i.id \in j.found THEN [i EXCEPT !.height = h] ELSE i
    BY <1>3, <1>6
  <2>2. /\ DOMAIN l = DOMAIN i /\ SameInput(i, l)
        /\ IF i.id \in j.found THEN l.height = h ELSE l = i
    BY <1>9, <2>1 DEF SameInput
  <2> QED
    BY <2>2
<1>13. \A i \in db.ins : \E l \in db'.ins :
         SameInput(i, l) /\ (i.id \notin j.found => l = i)
  BY <1>3, <1>6, <1>9 DEF SameInput
<1>14. Moves
  BY <1>6, <1>10, <1>11, <1>12, <1>13 DEF Moves, SameInput
<1>15. \A x : Committed(x)' <=> Committed(x)
  BY <1>5 DEF Committed, H
<1>16. h > H /\ h \in 0 .. Unconfirmed
  BY <1>5
<1>17. TableInv'
  <2>1. ShapeInv'
    <3>1. \A p \in db'.outs : /\ DOMAIN p = {"id", "at", "height", "address", "by", "byAt", "byHeight"}
                              /\ p.height \in 0 .. Unconfirmed /\ p.by \in 0 .. db'.next
                              /\ p.byHeight \in 0 .. Unconfirmed \cup {Null}
      BY <1>6, <1>10, <1>16 DEF TableInv, ShapeInv
    <3>2. \A l \in db'.ins : /\ DOMAIN l = {"id", "at", "height", "address", "from", "fromAt"}
                             /\ l.height \in 0 .. Unconfirmed /\ l.from \in 0 .. db'.next
      BY <1>6, <1>12, <1>16 DEF TableInv, ShapeInv, SameInput
    <3> QED
      BY <1>6, <3>1, <3>2 DEF TableInv, ShapeInv, AllGenerated
  <2>2. KeyInv'
    <3>1. ASSUME NEW p \in db'.outs, NEW q \in db'.outs, p.id = q.id, p.at = q.at PROVE p = q
      <4>1. PICK o \in db.outs : p = IF o.id \in j.found THEN [o EXCEPT !.height = h] ELSE o
        BY <1>3, <1>6
      <4>2. PICK u \in db.outs : q = IF u.id \in j.found THEN [u EXCEPT !.height = h] ELSE u
        BY <1>3, <1>6
      <4>3. p.id = o.id /\ p.at = o.at /\ q.id = u.id /\ q.at = u.at
        BY <1>8, <4>1, <4>2
      <4>4. o = u
        BY <3>1, <4>3 DEF TableInv, KeyInv
      <4> QED
        BY <4>1, <4>2, <4>4
    <3>2. ASSUME NEW p \in db'.ins, NEW q \in db'.ins, p.id = q.id, p.at = q.at PROVE p = q
      <4>1. PICK o \in db.ins : p = IF o.id \in j.found THEN [o EXCEPT !.height = h] ELSE o
        BY <1>3, <1>6
      <4>2. PICK u \in db.ins : q = IF u.id \in j.found THEN [u EXCEPT !.height = h] ELSE u
        BY <1>3, <1>6
      <4>3. p.id = o.id /\ p.at = o.at /\ q.id = u.id /\ q.at = u.at
        BY <1>9, <4>1, <4>2
      <4>4. o = u
        BY <3>2, <4>3 DEF TableInv, KeyInv
      <4> QED
        BY <4>1, <4>2, <4>4
    <3> QED
      BY <1>6, <3>1, <3>2 DEF TableInv, KeyInv
  <2>3. SpentInv'
    <3> SUFFICES ASSUME NEW p \in db'.outs
                 PROVE  /\ p.byHeight \notin {Null, Unconfirmed} =>
                             \E l \in db'.ins : Spends(l, p)' /\ l.height = p.byHeight
                        /\ \A l \in db'.ins : Spends(l, p)' /\ Committed(l) => p.byHeight = l.height
      BY <1>15 DEF SpentInv
    <3>1. PICK o \in db.outs : p.id = o.id /\ p.at = o.at /\ p.byHeight = o.byHeight
      BY <1>10
    <3>2. ASSUME p.byHeight \notin {Null, Unconfirmed}
          PROVE  \E l \in db'.ins : Spends(l, p)' /\ l.height = p.byHeight
      <4>1. PICK i \in db.ins : Spends(i, o) /\ i.height = o.byHeight
        BY <3>1, <3>2 DEF TableInv, SpentInv
      <4>2. i.id \notin j.found
        BY <1>7, <3>1, <3>2, <4>1
      <4>3. i \in db'.ins
        BY <1>13, <4>2
      <4> QED
        BY <3>1, <4>1, <4>3 DEF Spends
    <3>3. ASSUME NEW l \in db'.ins, Spends(l, p)', Committed(l) PROVE p.byHeight = l.height
      <4>1. PICK i \in db.ins : SameInput(i, l) /\ IF i.id \in j.found THEN l.height = h ELSE l = i
        BY <1>12
      <4>2. l = i
        BY <1>5, <1>16, <3>3, <4>1 DEF Committed
      <4>3. Spends(i, o)
        BY <3>1, <3>3, <4>2 DEF Spends
      <4> QED
        BY <3>1, <3>3, <4>2, <4>3 DEF TableInv, SpentInv
    <3> QED
      BY <3>2, <3>3
  <2>4. Trims
    <3>1. \A r \in db.tx : Kept(r)
      BY <1>14 DEF Moves, Kept, SameInput
    <3>2. \A p \in db'.outs :
            /\ \E o \in db.outs : /\ p.id = o.id /\ p.at = o.at /\ p.by \in {o.by, 0}
                                  /\ Committed(o) \/ Committed(p) => p.height = o.height
            /\ \E s \in db'.tx : s.id = p.id
      <4> SUFFICES ASSUME NEW p \in db'.outs
                   PROVE  /\ \E o \in db.outs : /\ p.id = o.id /\ p.at = o.at /\ p.by \in {o.by, 0}
                                                /\ Committed(o) \/ Committed(p) => p.height = o.height
                          /\ \E s \in db'.tx : s.id = p.id
        OBVIOUS
      <4>1. PICK o \in db.outs :
              /\ p.id = o.id /\ p.at = o.at /\ p.by = o.by
              /\ IF o.id \in j.found THEN p.height = h ELSE p = o
        BY <1>10
      <4>2. Committed(o) \/ Committed(p) => p.height = o.height
        BY <1>5, <1>7, <1>16, <4>1 DEF Committed
      <4>3. \E s \in db'.tx : s.id = p.id
        BY <1>6, <4>1 DEF TableInv, OwnInv, With
      <4> QED
        BY <4>1, <4>2, <4>3
    <3>3. \A l \in db'.ins :
            /\ \E i \in db.ins : /\ SameInput(i, l)
                                 /\ Committed(i) \/ Committed(l) => l.height = i.height
            /\ \E s \in db'.tx : s.id = l.id
      <4> SUFFICES ASSUME NEW l \in db'.ins
                   PROVE  /\ \E i \in db.ins : /\ SameInput(i, l)
                                               /\ Committed(i) \/ Committed(l) => l.height = i.height
                          /\ \E s \in db'.tx : s.id = l.id
        OBVIOUS
      <4>1. PICK i \in db.ins : SameInput(i, l) /\ IF i.id \in j.found THEN l.height = h ELSE l = i
        BY <1>12
      <4>2. Committed(i) \/ Committed(l) => l.height = i.height
        BY <1>5, <1>7, <1>16, <4>1 DEF Committed
      <4>3. \E s \in db'.tx : s.id = l.id
        BY <1>6, <4>1 DEF TableInv, OwnInv, With, SameInput
      <4> QED
        BY <4>1, <4>2, <4>3
    <3> QED
      BY <1>5, <1>6, <3>1, <3>2, <3>3 DEF Trims
  <2> QED
    BY <1>5, <2>1, <2>2, <2>3, <2>4, TrimsTable
<1>18. HeightInv'
  <2>1. Looking /\ Looking'
    BY <1>4 DEF Looking, j
  <2>2. \A r \in db'.tx : Committed(r)' \/ (synced /\ r.height = Unconfirmed)
    BY <1>5, <1>6, <1>15, <2>1 DEF HeightInv
  <2>3. ASSUME NEW x \in db'.outs \cup db'.ins, NEW r \in db'.tx, r.id = x.id
        PROVE  x.height = IF r.id \in j.found THEN h ELSE r.height
    <3>1. \E y \in db.outs \cup db.ins : y.id = x.id /\ IF y.id \in j.found THEN x.height = h ELSE x = y
      BY <1>10, <1>12 DEF SameInput
    <3>2. PICK y \in db.outs \cup db.ins : y.id = x.id /\ IF y.id \in j.found THEN x.height = h ELSE x = y
      BY <3>1
    <3>3. r \in db.tx /\ r.id = y.id
      BY <1>6, <2>3, <3>2
    <3>4. y.height = r.height
      BY <1>4, <1>5, <3>3 DEF HeightInv, j
    <3> QED
      BY <2>3, <3>2, <3>4
  <2>4. H' = H /\ phase' = "run" /\ synced' = synced
    BY <1>5 DEF H
  <2> QED
    BY <1>4, <1>5, <2>2, <2>3, <2>4 DEF HeightInv, j
<1>19. BlockLinks'
  BY <1>4 DEF BlockLinks
<1> QED
  BY <1>4, <1>14, <1>17, <1>18, <1>19, BlockMoves DEF j

\* The outputs they spend are spent at the height of the block.
LEMMA LedgerSpend ==
  ASSUME LedgerInv, Spend
  PROVE  LedgerInv'
<1> USE DEF LedgerInv, WorkInv
<1> DEFINE j == job["block"]
           h == Depth[block]
           Where(o) == \E i \in db.ins : i.id \in j.found /\ Spends(i, o)
           outs == Update(db.outs, LAMBDA o : \E i \in db.ins : i.id \in j.found /\ Spends(i, o),
                          LAMBDA o : [o EXCEPT !.byHeight = h])
           d == [db EXCEPT !.outs = outs]
<1>0. "block" \in Handler /\ "spend" # "none"
  BY DEF Handler
<1>1. Statement("block", "spend", "lower", Spent(db, j.found, h))
  BY DEF Spend
<1>2. Spent(db, j.found, h) = d
  BY Zenon DEF Spent
<1>3. outs = {IF Where(o) THEN [o EXCEPT !.byHeight = h] ELSE o : o \in db.outs}
  BY Zenon DEF Update
<1> HIDE DEF outs, Where
<1>4. /\ Handles("block") /\ j.pc = "spend" /\ job'["block"].pc = "lower"
      /\ db' = Spent(db, j.found, h) /\ job'["block"].todo = j.todo
      /\ job'["block"].found = j.found
  BY <1>0, <1>1, StatementHandles
<1>5. /\ phase = "run" /\ block # NoBlock /\ storedTip \in Block /\ h = H + 1
      /\ H \in Nat /\ H + 1 < Unconfirmed /\ Unconfirmed \in Nat /\ Null \notin Nat
      /\ UNCHANGED <<storedTip, phase, step, synced, tip, block>>
  <2>1. phase \in {"run", "undo"} /\ j.pc # "none"
    BY <1>4 DEF Handles
  <2> QED
    BY <1>4, <2>1, BlockFacts, LedgerAssumption DEF Handles
<1>6. /\ DOMAIN db' = DOMAIN db /\ db'.next = db.next /\ db'.tx = db.tx
      /\ db'.outs = outs /\ db'.ins = db.ins
  BY <1>2, <1>4 DEF TableInv, ShapeInv
<1> HIDE DEF d, h
<1>7. /\ \A x \in db.outs \cup db.ins : x.id \in j.found => ~Committed(x) /\ x.height = H + 1
      /\ \A x \in db.outs \cup db.ins : x.id \notin j.found => x.height # H + 1
  BY <1>4, <1>5, FoundRows
<1>8. ASSUME NEW o \in db.outs
      PROVE  /\ DOMAIN [o EXCEPT !.byHeight = h] = DOMAIN o
             /\ [o EXCEPT !.byHeight = h].id = o.id /\ [o EXCEPT !.byHeight = h].at = o.at
             /\ [o EXCEPT !.byHeight = h].by = o.by /\ [o EXCEPT !.byHeight = h].height = o.height
             /\ [o EXCEPT !.byHeight = h].byHeight = h
  BY DEF TableInv, ShapeInv
<1>9. \A p \in db'.outs : \E o \in db.outs :
         /\ DOMAIN p = DOMAIN o /\ p.id = o.id /\ p.at = o.at /\ p.by = o.by /\ p.height = o.height
         /\ IF Where(o) THEN p.byHeight = h ELSE p = o
  <2> TAKE p \in db'.outs
  <2>1. PICK o \in db.outs : p = IF Where(o) THEN [o EXCEPT !.byHeight = h] ELSE o
    BY <1>3, <1>6
  <2>2. /\ DOMAIN p = DOMAIN o /\ p.id = o.id /\ p.at = o.at /\ p.by = o.by /\ p.height = o.height
        /\ IF Where(o) THEN p.byHeight = h ELSE p = o
    BY <1>8, <2>1
  <2> QED
    BY <2>2
<1>10. \A o \in db.outs : \E p \in db'.outs : p.id = o.id /\ p.at = o.at /\ p.by = o.by
  BY <1>3, <1>6, <1>8
<1>11. Moves
  BY <1>6, <1>9, <1>10 DEF Moves, SameInput
<1>12. \A x : Committed(x)' <=> Committed(x)
  BY <1>5 DEF Committed, H
<1>13. h > H /\ h \in 0 .. Unconfirmed
  BY <1>5
\* what is spent at the height of the block is spent by it
<1>14. \A i \in db.ins, p \in db'.outs : \A o \in db.outs :
         Spends(i, p)' /\ p.id = o.id /\ p.at = o.at => Spends(i, o)
  BY DEF Spends
<1>15. ASSUME NEW i \in db.ins, NEW p \in db'.outs, Spends(i, p)', i.height = H + 1
       PROVE  p.byHeight = h
  <2>1. PICK o \in db.outs : /\ p.id = o.id /\ p.at = o.at
                             /\ IF Where(o) THEN p.byHeight = h ELSE p = o
    BY <1>9
  <2>2. i.id \in j.found
    BY <1>7, <1>15
  <2>3. Where(o)
    BY <1>14, <1>15, <2>1, <2>2 DEF Where
  <2> QED
    BY <2>1, <2>3
<1>16. TableInv'
  <2>1. ShapeInv'
    <3>1. \A p \in db'.outs : /\ DOMAIN p = {"id", "at", "height", "address", "by", "byAt", "byHeight"}
                              /\ p.height \in 0 .. Unconfirmed /\ p.by \in 0 .. db'.next
                              /\ p.byHeight \in 0 .. Unconfirmed \cup {Null}
      BY <1>6, <1>9, <1>13 DEF TableInv, ShapeInv
    <3> QED
      BY <1>6, <3>1 DEF TableInv, ShapeInv, AllGenerated
  <2>2. KeyInv'
    <3>1. ASSUME NEW p \in db'.outs, NEW q \in db'.outs, p.id = q.id, p.at = q.at PROVE p = q
      <4>1. PICK o \in db.outs : p = IF Where(o) THEN [o EXCEPT !.byHeight = h] ELSE o
        BY <1>3, <1>6
      <4>2. PICK u \in db.outs : q = IF Where(u) THEN [u EXCEPT !.byHeight = h] ELSE u
        BY <1>3, <1>6
      <4>3. p.id = o.id /\ p.at = o.at /\ q.id = u.id /\ q.at = u.at
        BY <1>8, <4>1, <4>2
      <4>4. o = u
        BY <3>1, <4>3 DEF TableInv, KeyInv
      <4> QED
        BY <4>1, <4>2, <4>4
    <3> QED
      BY <1>6, <3>1 DEF TableInv, KeyInv
  <2>3. SpentInv'
    <3> SUFFICES ASSUME NEW p \in db'.outs
                 PROVE  /\ p.byHeight \notin {Null, Unconfirmed} =>
                             \E l \in db'.ins : Spends(l, p)' /\ l.height = p.byHeight
                        /\ \A l \in db'.ins : Spends(l, p)' /\ Committed(l) => p.byHeight = l.height
      BY <1>12 DEF SpentInv
    <3>1. PICK o \in db.outs : /\ p.id = o.id /\ p.at = o.at
                               /\ IF Where(o) THEN p.byHeight = h ELSE p = o
      BY <1>9
    <3>2. CASE Where(o)
      <4>1. PICK i \in db.ins : i.id \in j.found /\ Spends(i, o)
        BY <3>2 DEF Where
      <4>2. i \in db'.ins /\ Spends(i, p)' /\ i.height = p.byHeight
        BY <1>5, <1>6, <1>7, <3>1, <3>2, <4>1 DEF Spends
      <4>3. ASSUME NEW l \in db'.ins, Spends(l, p)', Committed(l) PROVE FALSE
        <5>1. l \in db.ins /\ Spends(l, o)
          BY <1>6, <1>14, <3>1, <4>3
        <5>2. Committed(i)
          BY <1>5, <4>1, <4>3, <5>1, OneSpender DEF TableInv
        <5> QED
          BY <1>7, <4>1, <5>2
      <4> QED
        BY <4>2, <4>3
    <3>3. CASE ~Where(o)
      <4>1. p = o
        BY <3>1, <3>3
      <4>2. \A l : Spends(l, p)' <=> Spends(l, o)
        BY <4>1 DEF Spends
      <4> QED
        BY <1>6, <4>1, <4>2 DEF TableInv, SpentInv
    <3> QED
      BY <3>2, <3>3
  <2>4. Trims
    <3>1. \A r \in db.tx : Kept(r)
      BY <1>11 DEF Moves, Kept, SameInput
    <3>2. \A p \in db'.outs :
            /\ \E o \in db.outs : /\ p.id = o.id /\ p.at = o.at /\ p.by \in {o.by, 0}
                                  /\ Committed(o) \/ Committed(p) => p.height = o.height
            /\ \E s \in db'.tx : s.id = p.id
      BY <1>6, <1>9 DEF TableInv, OwnInv, With
    <3>3. \A l \in db'.ins :
            /\ \E i \in db.ins : /\ SameInput(i, l)
                                 /\ Committed(i) \/ Committed(l) => l.height = i.height
            /\ \E s \in db'.tx : s.id = l.id
      BY <1>6 DEF TableInv, OwnInv, With, SameInput
    <3> QED
      BY <1>5, <1>6, <3>1, <3>2, <3>3 DEF Trims
  <2> QED
    BY <1>5, <2>1, <2>2, <2>3, <2>4, TrimsTable
<1>17. HeightInv'
  <2>1. Looking /\ Looking'
    BY <1>4 DEF Looking
  <2>2. \A r \in db'.tx : Committed(r)' \/ (synced /\ r.height = Unconfirmed)
    BY <1>5, <1>6, <1>12, <2>1 DEF HeightInv
  <2>3. ASSUME NEW x \in db'.outs \cup db'.ins, NEW r \in db'.tx, r.id = x.id
        PROVE  x.height = IF r.id \in j.found THEN H + 1 ELSE r.height
    <3>1. PICK y \in db.outs \cup db.ins : y.id = x.id /\ x.height = y.height
      BY <1>6, <1>9
    <3>2. r \in db.tx /\ r.id = y.id
      BY <1>6, <2>3, <3>1
    <3> QED
      BY <1>4, <1>5, <3>1, <3>2 DEF HeightInv
  <2>4. H' = H /\ phase' = "run" /\ synced' = synced
    BY <1>5 DEF H
  <2> QED
    BY <1>4, <1>5, <2>2, <2>3, <2>4 DEF HeightInv
<1>18. BlockLinks'
  <2>1. H' = H
    BY <1>5 DEF H
  <2> QED
    BY <1>5, <1>6, <1>15, <2>1 DEF BlockLinks
<1> QED
  BY <1>4, <1>11, <1>16, <1>17, <1>18, BlockMoves

\* The transactions still to be looked at for rivals.
LEMMA TodoLemma ==
  ASSUME NEW X, NEW s \in Seq(X), s # <<>>
  PROVE  /\ Head(s) \in ToSet(s) /\ Tail(s) \in Seq(X)
         /\ \A x \in ToSet(s) : x = Head(s) \/ x \in ToSet(Tail(s))
         /\ \A x \in ToSet(Tail(s)) : x \in ToSet(s)
<1>1. Len(s) \in Nat /\ Len(s) > 0 /\ DOMAIN s = 1 .. Len(s) /\ Head(s) = s[1] /\ Tail(s) \in Seq(X)
  OBVIOUS
<1>2. DOMAIN Tail(s) = 1 .. Len(s) - 1 /\ \A n \in 1 .. Len(s) - 1 : Tail(s)[n] = s[n + 1]
  OBVIOUS
<1>3. ASSUME NEW x \in ToSet(s) PROVE x = Head(s) \/ x \in ToSet(Tail(s))
  <2>1. PICK n \in DOMAIN s : x = s[n]
    BY DEF ToSet
  <2>2. CASE n = 1
    BY <1>1, <2>1, <2>2
  <2>3. CASE n # 1
    <3>1. n - 1 \in 1 .. Len(s) - 1 /\ (n - 1) + 1 = n
      BY <1>1, <2>3
    <3>2. Tail(s)[n - 1] = s[n]
      BY <1>2, <3>1
    <3> QED
      BY <1>2, <2>1, <3>1, <3>2 DEF ToSet
  <2> QED
    BY <2>2, <2>3
<1>4. ASSUME NEW x \in ToSet(Tail(s)) PROVE x \in ToSet(s)
  <2>1. PICK n \in 1 .. Len(s) - 1 : x = s[n + 1]
    BY <1>2 DEF ToSet
  <2>2. n + 1 \in DOMAIN s
    BY <1>1
  <2> QED
    BY <2>1, <2>2 DEF ToSet
<1>5. Head(s) \in ToSet(s)
  BY <1>1 DEF ToSet
<1> QED
  BY <1>1, <1>3, <1>4, <1>5

\* Below the block is the chain of the tip.
LEMMA BelowBlock ==
  ASSUME storedTip \in Block, block \in Block, Parent[block] = storedTip
  PROVE  TxsUpTo(block, Depth[block] - 1) = ChainTx
<1>1. Depth[block] = H + 1 /\ OnBranch(storedTip, block) /\ H \in Nat
  BY ChainUp, ContentsType DEF H
<1>2. \A d \in 0 .. H : Branch[block][d] = Branch[storedTip][d]
  BY <1>1, BranchPrefix DEF OnBranch, H
<1>3. Depth[block] - 1 = H
  BY <1>1
<1> QED
  BY <1>2, <1>3 DEF TxsUpTo, ChainTx

\* What the rivals of a new transaction of the block leave: the chain and the block,
\* and what the mempool is about to write with all it rests on.
LEMMA BlockSpares ==
  ASSUME LedgerInv, Replace("block"), NEW t, t = Head(job["block"].todo)
  PROVE  /\ t \in BlockTx /\ t \in Tx /\ db' = Replaced(db, t)
         /\ \E Keep :
              /\ Spares(t, Keep) /\ AroundTx \subseteq Keep
              /\ running # NoTx =>
                   /\ running \in Keep
                   /\ \A c \in Coins(running) : \A s \in db.tx : s.tx = c.tx => s.tx \in Keep
<1> USE DEF LedgerInv, WorkInv
<1> DEFINE j == job["block"]
           txs == Contents[block]
           Keep == AroundTx \cup IF running = NoTx THEN {} ELSE Lineage(running)
<1>1. /\ phase \in {"run", "undo"} /\ j.pc = "replace" /\ j.todo # <<>>
      /\ db' = Replaced(db, t)
  BY DEF Replace, Writing
<1>3. /\ phase = "run" /\ block \in Block /\ block # NoBlock /\ Parent[block] = storedTip
      /\ storedTip \in Block /\ Depth[block] = H + 1
      /\ H \in Nat /\ H < Unconfirmed /\ Unconfirmed \in Nat /\ H + 1 < Unconfirmed
      /\ AroundTx = ChainTx \cup BlockTx /\ BlockTx \subseteq Tx
      /\ \A n \in DOMAIN txs : txs[n] \in BlockTx
      /\ \A r \in db.tx : Committed(r) => r.tx \notin BlockTx
      /\ running # NoTx => /\ running \notin AroundTx /\ running \in Queued /\ running \in Tx
                           /\ \A s \in AroundTx : Coins(s) \cap Coins(running) = {}
      /\ \A r \in db.tx : Committed(r) \/ (synced /\ r.height = Unconfirmed) \/ ~Looking
  <2>1. j.pc # "none"
    BY <1>1
  <2> QED
    BY <1>1, <2>1, BlockFacts
<1>8. Looking
  BY <1>1 DEF Looking
<1>9. NewPlaces \subseteq DOMAIN txs /\ BlockNew
  BY <1>1, <1>3, JobBlock DEF BlockInv
<1>10. /\ j.todo \in Seq(Tx) /\ ToSet(j.todo) \subseteq {txs[n] : n \in NewPlaces \ {1}}
       /\ synced => \A n \in NewPlaces, r \in db.tx : r.tx # txs[n]
  BY <1>1, <1>9 DEF BlockNew
<1> HIDE DEF txs, j
<1>11. t \in ToSet(j.todo)
  <2>1. j.todo \in Seq(Tx) /\ j.todo # <<>>
    BY <1>1, <1>10
  <2> QED
    BY <2>1, TodoLemma DEF j
<1>12. PICK place \in NewPlaces \ {1} : t = txs[place]
  BY <1>10, <1>11
<1>13. place \in DOMAIN txs /\ t \in BlockTx /\ t \in Tx /\ t \in AroundTx
  BY <1>3, <1>9, <1>12
<1>14. \A r \in db.tx : r.tx # t
  BY <1>3, <1>8, <1>10, <1>12, <1>13
<1>15. running # NoTx => /\ running \in Lineage(running)
                         /\ \A x \in Lineage(running) : Outpoints(t) \cap Outpoints(x) = {}
  <2> HAVE running # NoTx
  <2>1. Apart(running, block)
    BY <1>3 DEF QueueInv
  <2>2. t \in ToSet(Contents[block])
    BY <1>13 DEF BlockTx
  <2> QED
    BY <2>1, <2>2, LineageSelf DEF Apart
<1>16. running # NoTx => \A x \in Lineage(running) : \A c \in Coins(x) : \A s \in db.tx :
         s.tx = c.tx => s.tx \in Keep
  <2> SUFFICES ASSUME running # NoTx, NEW x \in Lineage(running), NEW c \in Coins(x),
                      NEW s \in db.tx, s.tx = c.tx
               PROVE  s.tx \in Keep
    OBVIOUS
  <2>1. CASE Committed(s)
    BY <1>3, <2>1, CommittedRows DEF TableInv
  <2>2. CASE s.height = Unconfirmed
    <3>1. c \in Outpoints(x)
      BY DEF Coins
    <3> QED
      BY <2>2, <3>1, LineageClosed
  <2> QED
    BY <1>3, <1>8, <2>1, <2>2
<1>17. /\ \A s \in AroundTx : \A o \in Coins(s) : o.tx \in AroundTx
       /\ \A s, u \in AroundTx : s # u => Coins(s) \cap Coins(u) = {}
  BY <1>1, AroundChain
<1>18. ASSUME NEW r \in db.tx, r.tx \in Keep
       PROVE  /\ Coins(r.tx) \cap Coins(t) = {}
              /\ \A c \in Coins(r.tx) : \A s \in db.tx : s.tx = c.tx => s.tx \in Keep
  <2>1. CASE r.tx \in AroundTx
    BY <1>13, <1>14, <1>17, <2>1
  <2>2. CASE running # NoTx /\ r.tx \in Lineage(running)
    BY <1>15, <1>16, <2>2 DEF Coins
  <2> QED
    BY <1>18, <2>1, <2>2
<1>19. \A r \in db.tx : Committed(r) => r.tx \in Keep
  BY <1>3, CommittedRows DEF TableInv
<1>20. \A i \in db.ins : \A r \in db.tx : r.id = i.id /\ i.height # Unconfirmed => r.tx \in Keep
  BY <1>1, AroundInputs
<1>21. AroundTx \subseteq Keep /\ (running # NoTx => running \in Keep)
  BY <1>15
<1>22. running # NoTx => \A c \in Coins(running) : \A s \in db.tx : s.tx = c.tx => s.tx \in Keep
  BY <1>15, <1>16
<1> HIDE DEF Keep
<1>23. Spares(t, Keep)
  BY <1>18, <1>19, <1>20 DEF Spares
<1> QED
  BY <1>1, <1>13, <1>21, <1>22, <1>23

\* The rivals of the block's new transactions go, one transaction after the other.
LEMMA BlockReplace ==
  ASSUME Calm, LedgerInv, Replace("block")
  PROVE  LedgerInv'
<1> USE DEF LedgerInv, WorkInv
<1> DEFINE j == job["block"]
           txs == Contents[block]
           t == Head(j.todo)
<1>1. /\ phase \in {"run", "undo"} /\ j.pc = "replace" /\ j.todo # <<>>
      /\ db' = Replaced(db, t)
      /\ job' = [job EXCEPT !["block"].todo = Tail(@)]
      /\ UNCHANGED <<tips, process, queue, overlooked, counters>>
  BY DEF Replace, Writing
<1>2. "block" \in Handler /\ "mempool" \in Handler /\ DOMAIN job = Handler /\ DOMAIN j = JobFields
  BY DEF Handler, ProcessInv, JobFields
<1>3. /\ phase = "run" /\ block \in Block /\ block # NoBlock /\ Parent[block] = storedTip
      /\ storedTip \in Block /\ Depth[block] = H + 1
      /\ H \in Nat /\ H < Unconfirmed /\ Unconfirmed \in Nat /\ H + 1 < Unconfirmed
      /\ AroundTx = ChainTx \cup BlockTx /\ BlockTx \subseteq Tx
      /\ \A n \in DOMAIN txs : txs[n] \in BlockTx
      /\ \A r \in db.tx : Committed(r) => r.tx \notin BlockTx
      /\ running # NoTx => /\ running \notin AroundTx /\ running \in Queued /\ running \in Tx
                           /\ \A s \in AroundTx : Coins(s) \cap Coins(running) = {}
      /\ \A r \in db.tx : Committed(r) \/ (synced /\ r.height = Unconfirmed) \/ ~Looking
  <2>1. j.pc # "none"
    BY <1>1
  <2> QED
    BY <1>1, <2>1, BlockFacts
<1>4. /\ job' = [job EXCEPT !["block"] = [j EXCEPT !.todo = Tail(j.todo)]]
      /\ job'["block"] = [j EXCEPT !.todo = Tail(j.todo)]
  BY <1>1, <1>2
<1>5. /\ DOMAIN job' = Handler /\ (\A v \in Handler : v # "block" => job'[v] = job[v])
      /\ DOMAIN job'["block"] = JobFields
      /\ job'["block"].pc = j.pc /\ job'["block"].txs = j.txs /\ job'["block"].found = j.found
      /\ job'["block"].todo = Tail(j.todo)
  BY <1>2, <1>4 DEF JobFields
<1>6. UNCHANGED <<storedTip, txTip, phase, step, synced, tip, block, waiting, running>>
  BY <1>1 DEF tips, process, queue
<1>7. Handles("block")
  BY <1>1, <1>5, <1>6 DEF Handles
<1>8. Looking /\ Looking' /\ ~Filling("block") /\ ~Filling("block")'
  BY <1>1, <1>5 DEF Looking, Filling
<1>9. /\ j.txs = Picked(txs, NewPlaces) /\ NewPlaces \subseteq DOMAIN txs
      /\ BlockPlace /\ BlockFound /\ BlockNew /\ BlockLinks
  BY <1>1, <1>3, JobBlock DEF BlockInv
<1>10. /\ j.todo \in Seq(Tx) /\ ToSet(j.todo) \subseteq {txs[n] : n \in NewPlaces \ {1}}
       /\ \A n \in NewPlaces \ {1}, r \in db.tx :
            r.tx \notin AroundTx /\ Coins(r.tx) \cap Coins(txs[n]) # {} => txs[n] \in ToSet(j.todo)
       /\ synced => \A n \in NewPlaces, r \in db.tx : r.tx # txs[n]
  BY <1>1, <1>9 DEF BlockNew
<1> HIDE DEF txs, t, j
<1>11. /\ t \in ToSet(j.todo)
       /\ \A x \in ToSet(j.todo) : x = t \/ x \in ToSet(Tail(j.todo))
       /\ \A x \in ToSet(Tail(j.todo)) : x \in ToSet(j.todo)
       /\ Tail(j.todo) \in Seq(Tx)
  <2>1. j.todo \in Seq(Tx) /\ j.todo # <<>>
    BY <1>1, <1>10
  <2> QED
    BY <2>1, TodoLemma DEF t
<1>12. PICK place \in NewPlaces \ {1} : t = txs[place]
  BY <1>10, <1>11
<1>13. place \in DOMAIN txs /\ t \in BlockTx /\ t \in Tx /\ t \in AroundTx
  BY <1>3, <1>9, <1>12
<1>14. \A r \in db.tx : r.tx # t
  BY <1>3, <1>8, <1>10, <1>12, <1>13
<1>15. PICK Keep :
         /\ Spares(t, Keep) /\ AroundTx \subseteq Keep
         /\ running # NoTx =>
              /\ running \in Keep
              /\ \A c \in Coins(running) : \A s \in db.tx : s.tx = c.tx => s.tx \in Keep
  BY BlockSpares DEF t, j
<1>23. /\ TableInv' /\ Fewer
       /\ \A r \in db.tx : r.tx \in Keep => r \in db'.tx
       /\ (\A n \in DOMAIN Inputs[t] : \E s \in db.tx : s.tx = Inputs[t][n].tx) =>
            \A r \in db'.tx : Complete(r) => Coins(r.tx) \cap Coins(t) = {}
  BY <1>1, <1>3, <1>6, <1>13, <1>15, ReplacedTable
<1>24. /\ \A s \in db'.tx : s \in db.tx /\ Kept(s) /\ Settled(s)
       /\ \A p \in db'.outs : \E o \in db.outs :
            p.id = o.id /\ p.at = o.at /\ p.height = o.height /\ p.byHeight = o.byHeight
       /\ \A i \in db'.ins : i \in db.ins
       /\ db'.next = db.next
  BY <1>23 DEF Fewer, Settled
<1>25. /\ H' = H /\ BlockTx' = BlockTx /\ AroundTx' = AroundTx
       /\ \A x : Committed(x)' <=> Committed(x)
  BY <1>6 DEF H, BlockTx, AroundTx, Around, Committed
<1>26. ProcessInv'
  BY <1>2, <1>7, HandlesProcess
<1>27. HeightInv'
  <2>1. ASSUME NEW x \in db'.outs \cup db'.ins, NEW r \in db'.tx, r.id = x.id
        PROVE  x.height = IF j.pc \in {"spend", "lower", "replace"} /\ r.id \in j.found THEN H + 1 ELSE r.height
    <3>1. PICK y \in db.outs \cup db.ins : y.id = x.id /\ x.height = y.height
      BY <1>24
    <3> QED
      BY <1>3, <1>24, <2>1, <3>1 DEF HeightInv, j
  <2>2. \A r \in db'.tx : Committed(r)' \/ (synced' /\ r.height = Unconfirmed)
    BY <1>3, <1>6, <1>8, <1>24, <1>25
  <2> QED
    BY <1>5, <1>6, <1>8, <1>25, <2>1, <2>2 DEF HeightInv
<1>28. ASSUME NEW r \in db.tx, r.tx \in BlockTx PROVE r \in db'.tx /\ Kept(r)
  BY <1>3, <1>15, <1>23, <1>24, <1>28
<1>29. NewPlaces' = NewPlaces
  <2>1. ASSUME NEW r \in db.tx, r.id \in j.found PROVE r \in db'.tx
    <3>1. PICK s \in db.tx : s.id = r.id /\ s.tx \in BlockTx
      BY <1>1, <1>9, <2>1 DEF BlockFound, j
    <3>2. s = r
      BY <3>1 DEF TableInv, KeyInv
    <3> QED
      BY <1>28, <3>1, <3>2
  <2> QED
    BY <1>5, <1>6, <1>24, <2>1 DEF NewPlaces, j
<1>30. ASSUME NEW n \in NewPlaces \ {1}, NEW r \in db'.tx,
              r.tx \notin AroundTx, Coins(r.tx) \cap Coins(txs[n]) # {}
       PROVE  txs[n] \in ToSet(Tail(j.todo))
  <2>1. r \in db.tx /\ r.tx \in Tx
    BY <1>24 DEF TableInv, ShapeInv
  <2>2. txs[n] \in ToSet(j.todo)
    BY <1>10, <1>30, <2>1
  <2> SUFFICES ASSUME txs[n] = t PROVE FALSE
    BY <1>11, <2>2
  <2>3. CASE \A m \in DOMAIN Inputs[t] : \E s \in db.tx : s.tx = Inputs[t][m].tx
    <3>1. ~Complete(r)
      BY <1>23, <1>30, <2>3
    <3>2. InProgress(r.tx)
      BY <1>3, <2>1, <3>1 DEF CompleteInv, Whole
    <3>3. Filling("mempool") /\ r.tx \in ToSet(job["mempool"].txs)
      BY <1>8, <3>2 DEF InProgress, Handler
    <3>4. r.tx = running /\ running # NoTx
      BY <1>1, <3>3, MempoolJob
    <3> QED
      BY <1>3, <1>13, <1>30, <3>4
  <2>4. CASE \E m \in DOMAIN Inputs[t] : \A s \in db.tx : s.tx # Inputs[t][m].tx
    <3>1. PICK m \in DOMAIN Inputs[t] : \A s \in db.tx : s.tx # Inputs[t][m].tx
      BY <2>4
    <3>2. Inputs[t][m] \in Outpoints(t)
      BY DEF Outpoints, ToSet
    <3>3. Inputs[t][m].tx \in TxsUpTo(block, Depth[block] - 1) \cup {Contents[block][k] : k \in 1 .. place-1}
      BY <1>3, <1>12, <1>13, <3>2, ChainAssumption DEF txs
    <3>4. Inputs[t][m].tx \notin ChainTx
      BY <1>3, <3>1, ChainRow DEF TableInv
    <3>5. TxsUpTo(block, Depth[block] - 1) = ChainTx
      BY <1>3, BelowBlock
    <3>6. PICK k \in 1 .. place-1 : Inputs[t][m].tx = Contents[block][k]
      BY <3>3, <3>4, <3>5
    <3>7. place \in DOMAIN Contents[block] /\ DOMAIN Contents[block] = 1 .. Len(Contents[block])
          /\ Len(Contents[block]) \in Nat
      BY <1>3, <1>13, ContentsType DEF txs
    <3>8. k \in DOMAIN Contents[block]
      BY <3>6, <3>7
    <3>9. Contents[block][k] \in ToSet(Contents[block]) /\ t \in ToSet(Contents[block])
      BY <1>13, <3>8 DEF ToSet, BlockTx
    <3>10. Contents[block][k] \in Tx /\ Inputs[t][m].tx # NoTx
      BY <1>3, <3>6, <3>8, ContentsType, LedgerAssumption
    <3>11. Inputs[t][m] \in Coins(t)
      BY <3>2, <3>10 DEF Coins
    <3>12. \A u \in Tx \ {t} : Coins(t) \cap Coins(u) = {}
      BY <1>3, <3>6, <3>9, <3>11 DEF Calm, Unrivalled
    <3> QED
      BY <1>14, <1>30, <2>1, <3>12
  <2> QED
    BY <2>3, <2>4
<1>31. BlockInv'
  <2>1. BlockPlace'
    BY <1>5, <1>6, <1>9 DEF BlockPlace, j
  <2>2. BlockFound'
    <3>1. ASSUME NEW x \in j.found PROVE \E r \in db'.tx : r.id = x /\ r.tx \in BlockTx /\ Complete(r)'
      <4>1. PICK r \in db.tx : r.id = x /\ r.tx \in BlockTx /\ Complete(r)
        BY <1>1, <1>9, <3>1 DEF BlockFound, j
      <4>2. r \in db'.tx /\ Kept(r)
        BY <1>28, <4>1
      <4> QED
        BY <4>1, <4>2, KeptComplete
    <3> QED
      BY <1>5, <1>6, <1>9, <1>25, <1>29, <3>1 DEF BlockFound, txs
  <2>3. BlockNew'
    <3>1. ToSet(Tail(j.todo)) \subseteq {txs[n] : n \in NewPlaces \ {1}}
      BY <1>10, <1>11
    <3> QED
      BY <1>5, <1>6, <1>10, <1>11, <1>24, <1>25, <1>29, <1>30, <3>1 DEF BlockNew, txs
  <2>4. BlockRows' /\ BlockIds'
    BY <1>1, <1>5, <1>8 DEF BlockRows, BlockIds
  <2>5. BlockLinks'
    <3>1. ASSUME NEW i \in db'.ins, NEW p \in db'.outs, Spends(i, p)', i.height = H + 1
          PROVE  p.byHeight = H + 1
      <4>1. PICK o \in db.outs : p.id = o.id /\ p.at = o.at /\ p.byHeight = o.byHeight
        BY <1>24
      <4>2. i \in db.ins /\ Spends(i, o)
        BY <1>24, <3>1, <4>1 DEF Spends
      <4> QED
        BY <1>1, <1>9, <3>1, <4>1, <4>2 DEF BlockLinks, j
    <3> QED
      BY <1>25, <3>1 DEF BlockLinks
  <2> QED
    BY <2>1, <2>2, <2>3, <2>4, <2>5 DEF BlockInv
<1>32. WriteInv("block")'
  BY <1>1, <1>5, <1>8 DEF WriteInv
<1>33. ASSUME NEW s \in db'.tx PROVE Whole(s)'
  <2>1. s \in db.tx /\ Kept(s) /\ Whole(s)
    BY <1>3, <1>24 DEF CompleteInv
  <2>2. ASSUME InProgress(s.tx) PROVE InProgress(s.tx)'
    BY <1>2, <1>5, <1>8, <2>2 DEF InProgress, Handler, Filling
  <2> QED
    BY <1>6, <2>1, <2>2, WholeKept
<1>34. running # NoTx =>
         /\ \A r \in db.tx : r.tx = running => \E s \in db'.tx : r.id = s.id /\ r.tx = s.tx
         /\ \A c \in Coins(running), s \in db.tx, o \in db.outs :
              s.tx = c.tx /\ o.id = s.id /\ o.at = c.at =>
                \E u \in db'.tx, p \in db'.outs : u.tx = c.tx /\ p.id = u.id /\ p.at = c.at
  <2> HAVE running # NoTx
  <2>1. \A r \in db.tx : r.tx = running => r \in db'.tx
    BY <1>15, <1>23
  <2>2. ASSUME NEW c \in Coins(running), NEW s \in db.tx, NEW o \in db.outs,
               s.tx = c.tx, o.id = s.id, o.at = c.at
        PROVE  \E u \in db'.tx, p \in db'.outs : u.tx = c.tx /\ p.id = u.id /\ p.at = c.at
    <3>1. s \in db'.tx /\ Kept(s)
      BY <1>15, <1>23, <1>24, <2>2
    <3>2. PICK p \in db'.outs : p.id = o.id /\ p.at = o.at
      BY <2>2, <3>1 DEF Kept
    <3> QED
      BY <2>2, <3>1, <3>2
  <2> QED
    BY <2>1, <2>2
<1>35. \A s \in db'.tx : \E r \in db.tx : Settled(r) /\ r.id = s.id /\ r.tx = s.tx /\ r.height = s.height
  BY <1>24
<1>36. job'["mempool"] = job["mempool"]
  BY <1>2, <1>5
<1> QED
  BY <1>3, <1>6, <1>23, <1>26, <1>27, <1>31, <1>32, <1>33, <1>34, <1>35, <1>36, BlockWork

\* The row that a block makes of one of the mempool, and that of a new one.
Confirms(r) == [r EXCEPT !.height = Depth[block], !.index = IndexOf(r.tx, Depth[block])]
NewRow(n) == [id |-> db.next + n, tx |-> job["block"].txs[n], height |-> Depth[block],
              index |-> IndexOf(job["block"].txs[n], Depth[block])]

\* The places at which the block has new transactions are those whose
\* transactions are not in the table.
LEMMA NewOnes ==
  ASSUME LedgerInv, phase = "run", block # NoBlock, job["block"].pc = "replace",
         synced \/ Named(db, BlockTx) = {}
  PROVE  /\ NewPlaces = {n \in DOMAIN Contents[block] : Named(db, {Contents[block][n]}) = {}}
         /\ \A r \in db.tx : r.tx \in BlockTx => r.id \in job["block"].found /\ Complete(r)
         /\ \A r \in db.tx : r.id \in job["block"].found => r.tx \in BlockTx
         /\ \A n \in DOMAIN job["block"].txs : \A r \in db.tx : r.tx # job["block"].txs[n]
<1> USE DEF LedgerInv, WorkInv
<1> DEFINE txs == Contents[block]
           j == job["block"]
<1>1. BlockFound /\ BlockNew
  BY DEF BlockInv
<1>2. /\ \A n \in DOMAIN txs : txs[n] \in BlockTx
      /\ \A u \in BlockTx : \E n \in DOMAIN txs : u = txs[n]
  BY DEF BlockTx, ToSet
<1>3. \A x \in j.found : \E r \in db.tx : r.id = x /\ r.tx \in BlockTx /\ Complete(r)
  BY <1>1 DEF BlockFound
<1>4. ASSUME NEW r \in db.tx, r.id \in j.found PROVE r.tx \in BlockTx /\ Complete(r)
  <2>1. PICK q \in db.tx : q.id = r.id /\ q.tx \in BlockTx /\ Complete(q)
    BY <1>3, <1>4
  <2>2. q = r
    BY <2>1 DEF TableInv, KeyInv
  <2> QED
    BY <2>1, <2>2
<1>5. ASSUME NEW n \in NewPlaces, NEW r \in db.tx PROVE r.tx # txs[n]
  <2>1. CASE synced
    BY <1>1, <2>1 DEF BlockNew
  <2>2. CASE Named(db, BlockTx) = {}
    BY <1>2, <2>2 DEF Named, NewPlaces
  <2> QED
    BY <2>1, <2>2
<1>6. ASSUME NEW r \in db.tx, r.tx \in BlockTx PROVE r.id \in j.found
  <2>1. PICK n \in DOMAIN txs : r.tx = txs[n]
    BY <1>2, <1>6
  <2>2. n \notin NewPlaces
    BY <1>5, <2>1
  <2>3. PICK q \in db.tx : q.id \in j.found /\ q.tx = txs[n]
    BY <2>2 DEF NewPlaces
  <2>4. q = r
    BY <2>1, <2>3 DEF TableInv, KeyInv
  <2> QED
    BY <2>3, <2>4
<1>7. NewPlaces = {n \in DOMAIN txs : Named(db, {txs[n]}) = {}}
  BY <1>5 DEF Named, NewPlaces
<1>8. \A n \in DOMAIN j.txs : \A r \in db.tx : r.tx # j.txs[n]
  <2>1. ToSet(j.txs) = {txs[n] : n \in NewPlaces}
    BY JobBlock
  <2>2. \A n \in DOMAIN j.txs : j.txs[n] \in ToSet(j.txs)
    BY DEF ToSet
  <2> QED
    BY <1>5, <2>1, <2>2
<1> QED
  BY <1>4, <1>6, <1>7, <1>8

\* The rows after those of a block are created.
LEMMA BlockCreated ==
  ASSUME LedgerInv, phase = "run", block # NoBlock, job["block"].pc = "replace",
         synced \/ Named(db, BlockTx) = {},
         db' = Created(db, Contents[block], Depth[block])
  PROVE  /\ DOMAIN db' = DOMAIN db /\ db'.outs = db.outs /\ db'.ins = db.ins
         /\ db'.next = db.next + Len(job["block"].txs)
         /\ db'.tx = {IF r.tx \in BlockTx THEN Confirms(r) ELSE r : r \in db.tx}
                     \cup {NewRow(n) : n \in DOMAIN job["block"].txs}
<1> USE DEF LedgerInv, WorkInv
<1> DEFINE ts == Contents[block]
           h == Depth[block]
           new == Picked(ts, {n \in DOMAIN ts : Named(db, {ts[n]}) = {}})
           rows == Update(db.tx, LAMBDA r : r.tx \in ToSet(ts),
                          LAMBDA r : [r EXCEPT !.height = h, !.index = IndexOf(r.tx, h)])
           row(n) == [id |-> db.next + n, tx |-> new[n], height |-> h, index |-> IndexOf(new[n], h)]
<1>1. new = job["block"].txs
  <2>1. BlockFound
    BY DEF BlockInv
  <2> QED
    BY <2>1, NewOnes DEF BlockFound
<1>2. db' = [db EXCEPT !.tx = rows \cup {row(n) : n \in DOMAIN new}, !.next = @ + Len(new)]
  BY DEF Created
<1>3. rows = {IF r.tx \in BlockTx THEN Confirms(r) ELSE r : r \in db.tx}
  <2>1. {IF r.tx \in ToSet(ts)
         THEN [r EXCEPT !.height = h, !.index = IndexOf(r.tx, h)] ELSE r : r \in db.tx} = rows
    BY Zenon DEF Update
  <2>2. \A r : Confirms(r) = [r EXCEPT !.height = h, !.index = IndexOf(r.tx, h)]
    BY DEF Confirms
  <2> HIDE DEF rows
  <2> QED
    BY <2>1, <2>2 DEF BlockTx
<1> HIDE DEF rows, new
<1>4. {row(n) : n \in DOMAIN new} = {NewRow(n) : n \in DOMAIN job["block"].txs}
  BY <1>1 DEF NewRow
<1> HIDE DEF row
<1>5. /\ db'.tx = rows \cup {row(n) : n \in DOMAIN new} /\ db'.next = db.next + Len(new)
      /\ DOMAIN db' = DOMAIN db /\ db'.outs = db.outs /\ db'.ins = db.ins
  BY <1>2 DEF TableInv, ShapeInv
<1> QED
  BY <1>1, <1>3, <1>4, <1>5

\* The place of a transaction of the block.
LEMMA PlaceOf ==
  ASSUME block \in Block, Parent[block] \in Block, NEW n \in DOMAIN Contents[block]
  PROVE  IndexOf(Contents[block][n], Depth[block]) = n - 1 /\ n \in Nat /\ n > 0
<1>1. Depth[block] # Unconfirmed /\ n \in Nat /\ n > 0
  BY ContentsType
<1>2. \A m \in DOMAIN Contents[block] : Contents[block][m] = Contents[block][n] => m = n
  BY ChainUp
<1>3. (CHOOSE m \in DOMAIN Contents[block] : Contents[block][m] = Contents[block][n]) = n
  BY <1>2
<1> QED
  BY <1>1, <1>3 DEF IndexOf

\* The rows there are then.
LEMMA CreatedRows ==
  ASSUME LedgerInv, phase = "run", block # NoBlock, job["block"].pc = "replace",
         synced \/ Named(db, BlockTx) = {},
         db' = Created(db, Contents[block], Depth[block])
  PROVE  /\ db'.next \in Nat /\ db'.next >= db.next
         /\ \A s \in db'.tx :
              /\ DOMAIN s = {"id", "tx", "height", "index"} /\ s.tx \in Tx
              /\ s.id \in 1 .. db'.next /\ s.index \in Nat
              /\ \/ s \in db.tx /\ s.tx \notin BlockTx
                 \/ /\ s.tx \in BlockTx /\ s.height = H + 1
                    /\ \E r \in db.tx : s = Confirms(r) /\ s.id = r.id /\ s.tx = r.tx
                 \/ /\ s.tx \in BlockTx /\ s.height = H + 1 /\ s.id > db.next
                    /\ s.tx \in ToSet(job["block"].txs)
                    /\ \E n \in DOMAIN job["block"].txs : s = NewRow(n) /\ s.id = db.next + n /\ s.tx = job["block"].txs[n]
         /\ \A r \in db.tx : \E s \in db'.tx :
              s.id = r.id /\ s.tx = r.tx /\ (r.tx \notin BlockTx => s = r)
         /\ \A n \in DOMAIN Contents[block] : \E s \in db'.tx :
              s.tx = Contents[block][n] /\ s.height = H + 1 /\ s.index = n - 1
         /\ \A n \in DOMAIN job["block"].txs : \E s \in db'.tx : s.id = db.next + n /\ s.tx = job["block"].txs[n]
<1> USE DEF LedgerInv, WorkInv
<1> DEFINE j == job["block"]
           txs == Contents[block]
<1>1. /\ block \in Block /\ storedTip \in Block /\ Parent[block] = storedTip
      /\ Depth[block] = H + 1 /\ H \in Nat /\ BlockTx \subseteq Tx
      /\ \A n \in DOMAIN txs : txs[n] \in BlockTx
      /\ \A u \in BlockTx : \E n \in DOMAIN txs : u = txs[n]
  <2>1. job["block"].pc # "none"
    OBVIOUS
  <2> QED
    BY <2>1, BlockFacts
<1>2. /\ j.txs = Picked(txs, NewPlaces) /\ NewPlaces \in SUBSET DOMAIN txs /\ txs \in Seq(Tx)
      /\ \A n \in DOMAIN j.txs : j.txs[n] \in BlockTx
  BY JobBlock
<1>3. /\ j.txs \in Seq(Tx) /\ Len(j.txs) \in Nat /\ DOMAIN j.txs = 1 .. Len(j.txs)
      /\ \A m \in NewPlaces : \E n \in DOMAIN j.txs : j.txs[n] = txs[m]
  <2> HIDE DEF txs, j
  <2> QED
    BY <1>2, PickedLemma
<1>4. /\ db'.next = db.next + Len(j.txs)
      /\ db'.tx = {IF r.tx \in BlockTx THEN Confirms(r) ELSE r : r \in db.tx}
                  \cup {NewRow(n) : n \in DOMAIN j.txs}
  BY BlockCreated
<1>5. db.next \in Nat /\ db'.next \in Nat /\ db'.next >= db.next
  BY <1>3, <1>4 DEF TableInv, ShapeInv
<1>6. ASSUME NEW r \in db.tx, r.tx \in BlockTx
      PROVE  /\ DOMAIN Confirms(r) = {"id", "tx", "height", "index"}
             /\ Confirms(r).id = r.id /\ Confirms(r).tx = r.tx
             /\ Confirms(r).height = H + 1 /\ Confirms(r).index = IndexOf(r.tx, Depth[block])
  BY <1>1 DEF Confirms, TableInv, ShapeInv
<1>7. \A n : /\ DOMAIN NewRow(n) = {"id", "tx", "height", "index"}
             /\ NewRow(n).id = db.next + n /\ NewRow(n).tx = j.txs[n]
             /\ NewRow(n).height = H + 1 /\ NewRow(n).index = IndexOf(j.txs[n], Depth[block])
  BY <1>1 DEF NewRow
<1>8. ASSUME NEW t \in BlockTx, NEW n \in DOMAIN txs, t = txs[n]
      PROVE  IndexOf(t, Depth[block]) = n - 1 /\ n - 1 \in Nat
  BY <1>1, <1>8, PlaceOf
<1> HIDE DEF txs
<1>9. \A t \in BlockTx : IndexOf(t, Depth[block]) \in Nat
  BY <1>1, <1>8
<1>10. ASSUME NEW s \in db'.tx
       PROVE  /\ DOMAIN s = {"id", "tx", "height", "index"} /\ s.tx \in Tx
              /\ s.id \in 1 .. db'.next /\ s.index \in Nat
              /\ \/ s \in db.tx /\ s.tx \notin BlockTx
                 \/ /\ s.tx \in BlockTx /\ s.height = H + 1
                    /\ \E r \in db.tx : s = Confirms(r) /\ s.id = r.id /\ s.tx = r.tx
                 \/ /\ s.tx \in BlockTx /\ s.height = H + 1 /\ s.id > db.next
                    /\ s.tx \in ToSet(j.txs)
                    /\ \E n \in DOMAIN j.txs : s = NewRow(n) /\ s.id = db.next + n /\ s.tx = j.txs[n]
  <2>1. CASE s \in db.tx /\ s.tx \notin BlockTx
    BY <1>5, <2>1 DEF TableInv, ShapeInv
  <2>2. ASSUME NEW r \in db.tx, r.tx \in BlockTx, s = Confirms(r)
        PROVE  <1>10!2
    <3>1. r.id \in 1 .. db'.next
      BY <1>5 DEF TableInv, ShapeInv
    <3> QED
      BY <1>1, <1>6, <1>9, <2>2, <3>1
  <2>3. ASSUME NEW n \in DOMAIN j.txs, s = NewRow(n) PROVE <1>10!2
    <3>1. s.id = db.next + n /\ s.tx = j.txs[n] /\ s.height = H + 1
      BY <1>7, <2>3
    <3>2. s.id \in 1 .. db'.next /\ s.id > db.next
      BY <1>3, <1>4, <1>5, <3>1
    <3>3. s.tx \in BlockTx /\ s.tx \in ToSet(j.txs)
      BY <1>2, <3>1 DEF ToSet
    <3> QED
      BY <1>1, <1>7, <1>9, <2>3, <3>1, <3>2, <3>3
  <2> QED
    BY <1>4, <2>1, <2>2, <2>3
<1>11. ASSUME NEW r \in db.tx
       PROVE  \E s \in db'.tx : s.id = r.id /\ s.tx = r.tx /\ (r.tx \notin BlockTx => s = r)
  <2>1. CASE r.tx \in BlockTx
    BY <1>4, <1>6, <2>1
  <2>2. CASE r.tx \notin BlockTx
    BY <1>4, <2>2
  <2> QED
    BY <2>1, <2>2
<1>12. ASSUME NEW n \in DOMAIN txs
       PROVE  \E s \in db'.tx : s.tx = txs[n] /\ s.height = H + 1 /\ s.index = n - 1
  <2>1. CASE n \in NewPlaces
    <3>1. PICK m \in DOMAIN j.txs : j.txs[m] = txs[n]
      BY <1>3, <2>1
    <3>2. NewRow(m) \in db'.tx
      BY <1>4
    <3> QED
      BY <1>1, <1>7, <1>8, <3>1, <3>2
  <2>2. CASE n \notin NewPlaces
    <3>1. PICK r \in db.tx : r.tx = txs[n]
      BY <2>2 DEF NewPlaces, txs
    <3>2. Confirms(r) \in db'.tx
      BY <1>1, <1>4, <3>1
    <3> QED
      BY <1>1, <1>6, <1>8, <3>1, <3>2
  <2> QED
    BY <2>1, <2>2
<1>13. \A n \in DOMAIN j.txs : \E s \in db'.tx : s.id = db.next + n /\ s.tx = j.txs[n]
  BY <1>4, <1>7
<1> QED
  BY <1>5, <1>10, <1>11, <1>12, <1>13 DEF txs

\* The rows of the block are new or the mempool's, and rivals of none.
LEMMA CreatedTable ==
  ASSUME LedgerInv, phase = "run", block # NoBlock, job["block"].pc = "replace", job["block"].todo = <<>>,
         synced \/ Named(db, BlockTx) = {}, storedTip' = storedTip,
         db' = Created(db, Contents[block], Depth[block])
  PROVE  TableInv' /\ \A r \in db.tx : Settled(r)
<1> USE DEF LedgerInv, WorkInv
<1> DEFINE j == job["block"]
           txs == Contents[block]
<1>1. /\ block \in Block /\ storedTip \in Block /\ Parent[block] = storedTip
      /\ H \in Nat /\ H + 1 < Unconfirmed /\ Unconfirmed \in Nat
      /\ AroundTx = ChainTx \cup BlockTx
      /\ \A u \in BlockTx : \E n \in DOMAIN txs : u = txs[n]
      /\ \A r \in db.tx : Committed(r) => r.tx \notin BlockTx
  <2>1. job["block"].pc # "none"
    OBVIOUS
  <2> QED
    BY <2>1, BlockFacts
<1>2. /\ db'.next \in Nat /\ db'.next >= db.next
      /\ \A s \in db'.tx :
           /\ DOMAIN s = {"id", "tx", "height", "index"} /\ s.tx \in Tx
           /\ s.id \in 1 .. db'.next /\ s.index \in Nat
           /\ \/ s \in db.tx /\ s.tx \notin BlockTx
              \/ /\ s.tx \in BlockTx /\ s.height = H + 1
                 /\ \E r \in db.tx : s = Confirms(r) /\ s.id = r.id /\ s.tx = r.tx
              \/ /\ s.tx \in BlockTx /\ s.height = H + 1 /\ s.id > db.next
                 /\ s.tx \in ToSet(job["block"].txs)
                 /\ \E n \in DOMAIN job["block"].txs :
                      s = NewRow(n) /\ s.id = db.next + n /\ s.tx = job["block"].txs[n]
      /\ \A r \in db.tx : \E s \in db'.tx : s.id = r.id /\ s.tx = r.tx /\ (r.tx \notin BlockTx => s = r)
  BY CreatedRows
<1>3. DOMAIN db' = DOMAIN db /\ db'.outs = db.outs /\ db'.ins = db.ins
  BY BlockCreated
<1>4. db.next \in Nat /\ \A r \in db.tx : r.id \in 1 .. db.next
  BY DEF TableInv, ShapeInv
<1>5. /\ ToSet(j.txs) = {txs[n] : n \in NewPlaces} /\ NewPlaces \subseteq DOMAIN txs
      /\ j.txs = Picked(txs, NewPlaces) /\ txs \in Seq(Tx)
  BY JobBlock
<1>6. \A n \in DOMAIN j.txs : \A r \in db.tx : r.tx # j.txs[n]
  BY NewOnes
<1>7. \A m, n \in DOMAIN j.txs : j.txs[m] = j.txs[n] => m = n
  <2>1. \A m, n \in DOMAIN txs : txs[m] = txs[n] => m = n
    BY <1>1, ChainUp
  <2>2. \A m, n \in NewPlaces : txs[m] = txs[n] => m = n
    BY <1>5, <2>1
  <2>3. NewPlaces \in SUBSET DOMAIN txs
    BY <1>5
  <2> HIDE DEF txs, j
  <2> QED
    BY <1>5, <2>2, <2>3, PickedLemma
<1>8. ShapeInv'
  <2>1. \A s \in db'.tx :
          /\ DOMAIN s = {"id", "tx", "height", "index"}
          /\ s.id \in 1 .. db'.next /\ s.tx \in Tx /\ s.height \in 0 .. Unconfirmed /\ s.index \in Nat
          /\ s.height = Unconfirmed => s.index = Unconfirmed /\ s.tx \notin AllGenerated
    BY <1>1, <1>2 DEF TableInv, ShapeInv
  <2>2. \A o \in db'.outs :
          /\ DOMAIN o = {"id", "at", "height", "address", "by", "byAt", "byHeight"}
          /\ o.height \in 0 .. Unconfirmed /\ o.by \in 0 .. db'.next
          /\ o.byHeight \in 0 .. Unconfirmed \cup {Null}
    BY <1>2, <1>3, <1>4 DEF TableInv, ShapeInv
  <2>3. \A i \in db'.ins :
          /\ DOMAIN i = {"id", "at", "height", "address", "from", "fromAt"}
          /\ i.height \in 0 .. Unconfirmed /\ i.from \in 0 .. db'.next
    BY <1>2, <1>3, <1>4 DEF TableInv, ShapeInv
  <2> QED
    BY <1>2, <1>3, <2>1, <2>2, <2>3 DEF TableInv, ShapeInv, AllGenerated
\* a row of before, or a new one
<1>9. ASSUME NEW s \in db'.tx
      PROVE  \/ \E r \in db.tx : /\ s.id = r.id /\ s.tx = r.tx
                                 /\ s = IF r.tx \in BlockTx THEN Confirms(r) ELSE r
             \/ \E n \in DOMAIN j.txs : s = NewRow(n) /\ s.id = db.next + n /\ s.tx = j.txs[n] /\ s.id > db.next
  BY <1>2
<1>10. KeyInv'
  <2>1. ASSUME NEW s \in db'.tx, NEW u \in db'.tx, s.id = u.id \/ s.tx = u.tx PROVE s = u
    <3>1. CASE \E r \in db.tx : /\ s.id = r.id /\ s.tx = r.tx
                                /\ s = IF r.tx \in BlockTx THEN Confirms(r) ELSE r
      <4>1. PICK r \in db.tx : /\ s.id = r.id /\ s.tx = r.tx
                               /\ s = IF r.tx \in BlockTx THEN Confirms(r) ELSE r
        BY <3>1
      <4>2. ASSUME NEW n \in DOMAIN j.txs, u.tx = j.txs[n], u.id > db.next PROVE FALSE
        BY <1>4, <1>6, <2>1, <4>1, <4>2
      <4>3. PICK q \in db.tx : /\ u.id = q.id /\ u.tx = q.tx
                               /\ u = IF q.tx \in BlockTx THEN Confirms(q) ELSE q
        BY <1>9, <4>2
      <4>4. r = q
        BY <2>1, <4>1, <4>3 DEF TableInv, KeyInv
      <4> QED
        BY <4>1, <4>3, <4>4
    <3>2. CASE \E n \in DOMAIN j.txs : s = NewRow(n) /\ s.id = db.next + n /\ s.tx = j.txs[n] /\ s.id > db.next
      <4>1. PICK n \in DOMAIN j.txs : s = NewRow(n) /\ s.id = db.next + n /\ s.tx = j.txs[n] /\ s.id > db.next
        BY <3>2
      <4>2. ASSUME NEW q \in db.tx, u.id = q.id, u.tx = q.tx PROVE FALSE
        BY <1>4, <1>6, <2>1, <4>1, <4>2
      <4>3. PICK m \in DOMAIN j.txs : u = NewRow(m) /\ u.id = db.next + m /\ u.tx = j.txs[m]
        BY <1>9, <4>2
      <4>4. m = n
        <5>1. CASE s.tx = u.tx
          BY <1>7, <4>1, <4>3, <5>1
        <5>2. CASE s.id = u.id
          <6>1. m \in Nat /\ n \in Nat
            <7>1. j.txs \in Seq(Tx)
              <8>1. NewPlaces \in SUBSET DOMAIN txs
                BY <1>5
              <8> HIDE DEF txs, j
              <8> QED
                BY <1>5, <8>1, PickedLemma
            <7> QED
              BY <7>1
          <6> QED
            BY <1>4, <4>1, <4>3, <5>2, <6>1
        <5> QED
          BY <2>1, <5>1, <5>2
      <4> QED
        BY <4>1, <4>3, <4>4
    <3> QED
      BY <1>9, <3>1, <3>2
  <2> QED
    BY <1>3, <2>1 DEF TableInv, KeyInv
<1>11. ASSUME NEW r \in db.tx, r.tx \notin BlockTx, NEW t \in BlockTx PROVE Coins(r.tx) \cap Coins(t) = {}
  <2>1. CASE \E q \in db.tx : q.tx = t
    BY <1>11, <2>1 DEF TableInv, RivalInv
  <2>2. CASE r.tx \in ChainTx
    <3>1. r.tx \in AroundTx /\ t \in AroundTx /\ r.tx # t
      BY <1>1, <1>11, <2>2
    <3> QED
      BY <3>1, AroundChain
  <2>3. CASE r.tx \notin ChainTx /\ \A q \in db.tx : q.tx # t
    <3>1. PICK n \in DOMAIN txs : t = txs[n]
      BY <1>1
    <3>2. n \in NewPlaces
      BY <2>3, <3>1 DEF NewPlaces
    <3>3. CASE n = 1
      BY <1>1, <3>1, <3>3, GeneratedPlace
    <3>4. CASE n # 1
      <4>1. BlockNew /\ ToSet(j.todo) = {}
        BY DEF BlockInv, ToSet
      <4>2. r.tx \notin AroundTx
        BY <1>1, <1>11, <2>3
      <4> QED
        BY <3>1, <3>2, <3>4, <4>1, <4>2 DEF BlockNew
    <3> QED
      BY <3>3, <3>4
  <2> QED
    BY <2>1, <2>2, <2>3
<1>12. RivalInv'
  <2>1. ASSUME NEW s \in db'.tx, NEW u \in db'.tx, s # u PROVE Coins(s.tx) \cap Coins(u.tx) = {}
    <3>1. s.tx # u.tx
      BY <1>10, <2>1 DEF KeyInv
    <3>2. CASE s.tx \in BlockTx /\ u.tx \in BlockTx
      <4>1. s.tx \in AroundTx /\ u.tx \in AroundTx
        BY <1>1, <3>2
      <4> QED
        BY <3>1, <4>1, AroundChain
    <3>3. CASE s.tx \notin BlockTx /\ u.tx \in BlockTx
      BY <1>2, <1>11, <3>3
    <3>4. CASE s.tx \in BlockTx /\ u.tx \notin BlockTx
      BY <1>2, <1>11, <3>4
    <3>5. CASE s.tx \notin BlockTx /\ u.tx \notin BlockTx
      <4>1. s \in db.tx /\ u \in db.tx
        BY <1>2, <3>5
      <4> QED
        BY <2>1, <4>1 DEF TableInv, RivalInv
    <3> QED
      BY <3>2, <3>3, <3>4, <3>5
  <2> QED
    BY <2>1 DEF RivalInv
<1>13. ASSUME NEW s \in db'.tx
       PROVE  \/ \E r \in db.tx : s.id = r.id /\ s.tx = r.tx /\ (Committed(r) \/ Committed(s) => s = r)
              \/ s.id > db.next /\ ~Committed(s)
  <2>1. CASE s \in db.tx
    BY <2>1
  <2>2. CASE s.height = H + 1 /\ s.tx \in BlockTx
    <3>1. ~Committed(s)
      BY <1>1, <2>2 DEF Committed
    <3> QED
      BY <1>1, <1>2, <2>2, <3>1
  <2> QED
    BY <1>2, <2>1, <2>2
<1>14. \A r \in db.tx : \E s \in db'.tx : s.id = r.id /\ s.tx = r.tx
  BY <1>2
<1> QED
  BY <1>1, <1>3, <1>8, <1>10, <1>12, <1>13, <1>14, AddedTable

\* The rows of the block.
LEMMA BlockCreate ==
  ASSUME LedgerInv, CreateTransactions("block")
  PROVE  LedgerInv'
<1> USE DEF LedgerInv, WorkInv
<1> DEFINE j == job["block"]
           txs == Contents[block]
           refused == Named(db, ToSet(txs)) # {} /\ ~synced
<1>1. "block" \in Handler /\ "mempool" \in Handler /\ DOMAIN job = Handler /\ DOMAIN j = JobFields
  BY DEF Handler, ProcessInv, JobFields
<1>2. CASE refused
  <2>1. Stop("duplicate")
    BY <1>2 DEF CreateTransactions, Refused
  <2> QED
    BY <2>1, LedgerStop
<1>3. CASE ~refused
  <2>1. /\ phase \in {"run", "undo"} /\ j.pc = "replace" /\ j.todo = <<>>
        /\ db' = Created(db, txs, Depth[block])
        /\ job' = [job EXCEPT !["block"].pc = "witness", !["block"].ids = <<>>]
        /\ UNCHANGED <<tips, process, queue, overlooked, counters>>
    BY <1>3 DEF CreateTransactions, Writing, Height
  <2>2. synced \/ Named(db, BlockTx) = {}
    BY <1>3 DEF BlockTx
  <2>3. /\ phase = "run" /\ block \in Block /\ block # NoBlock /\ Parent[block] = storedTip
        /\ storedTip \in Block /\ Depth[block] = H + 1
        /\ H \in Nat /\ H + 1 < Unconfirmed /\ Unconfirmed \in Nat
        /\ \A r \in db.tx : Committed(r) => r.tx \notin BlockTx
        /\ running # NoTx => running \notin AroundTx
        /\ AroundTx = ChainTx \cup BlockTx
        /\ \A r \in db.tx : Committed(r) \/ (synced /\ r.height = Unconfirmed) \/ ~Looking
    <3>1. j.pc # "none"
      BY <2>1
    <3> QED
      BY <2>1, <3>1, BlockFacts
  <2>4. /\ DOMAIN job' = Handler /\ (\A v \in Handler : v # "block" => job'[v] = job[v])
        /\ DOMAIN job'["block"] = JobFields
        /\ job'["block"].pc = "witness" /\ job'["block"].txs = j.txs /\ job'["block"].found = j.found
    BY <1>1, <2>1 DEF JobFields
  <2>5. UNCHANGED <<storedTip, txTip, phase, step, synced, tip, block, waiting, running>>
    BY <2>1 DEF tips, process, queue
  <2>6. Handles("block")
    BY <2>1, <2>4, <2>5 DEF Handles
  <2>7. Looking /\ ~Looking' /\ ~Filling("block") /\ Filling("block")'
    BY <2>1, <2>4 DEF Looking, Filling
  <2>8. /\ db'.next \in Nat /\ db'.next >= db.next
        /\ \A s \in db'.tx :
             \/ s \in db.tx /\ s.tx \notin BlockTx
             \/ /\ s.tx \in BlockTx /\ s.height = H + 1
                /\ \E r \in db.tx : s.id = r.id /\ s.tx = r.tx
             \/ /\ s.tx \in BlockTx /\ s.height = H + 1 /\ s.id > db.next
                /\ s.tx \in ToSet(j.txs)
        /\ \A r \in db.tx : \E s \in db'.tx : s.id = r.id /\ s.tx = r.tx
        /\ \A n \in DOMAIN txs : \E s \in db'.tx :
             s.tx = txs[n] /\ s.height = H + 1 /\ s.index = n - 1
        /\ \A n \in DOMAIN j.txs : \E s \in db'.tx : s.id = db.next + n /\ s.tx = j.txs[n]
    BY <2>1, <2>2, <2>3, CreatedRows
  <2>9. db'.outs = db.outs /\ db'.ins = db.ins
    BY <2>1, <2>2, <2>3, BlockCreated
  <2>10. TableInv' /\ \A r \in db.tx : Settled(r)
    BY <2>1, <2>2, <2>3, <2>5, CreatedTable
  <2>11. /\ \A r \in db.tx : r.tx \in BlockTx => r.id \in j.found /\ Complete(r)
         /\ \A r \in db.tx : r.id \in j.found => r.tx \in BlockTx
         /\ \A n \in DOMAIN j.txs : \A r \in db.tx : r.tx # j.txs[n]
    BY <2>1, <2>2, <2>3, NewOnes
  <2>12. BlockPlace /\ BlockFound /\ BlockLinks
    BY <2>3 DEF BlockInv
  <2>13. db.next \in Nat /\ (\A r \in db.tx : r.id \in 1 .. db.next)
         /\ \A x \in db.outs \cup db.ins : \E r \in db.tx : r.id = x.id
    BY DEF TableInv, ShapeInv, OwnInv, With
  <2>14. H' = H /\ BlockTx' = BlockTx /\ AroundTx' = AroundTx /\ \A x : Committed(x)' <=> Committed(x)
    BY <2>5 DEF H, BlockTx, AroundTx, Around, Committed
  <2> HIDE DEF txs, j, refused
  <2>15. ProcessInv'
    BY <1>1, <2>6, HandlesProcess
  <2>16. HeightInv'
    <3>1. ASSUME NEW x \in db'.outs \cup db'.ins, NEW s \in db'.tx, s.id = x.id
          PROVE  x.height = s.height
      <4>1. PICK r \in db.tx : r.id = x.id
        BY <2>9, <2>13
      <4>2. x.height = IF r.id \in j.found THEN H + 1 ELSE r.height
        BY <2>1, <2>3, <2>9, <4>1 DEF HeightInv, j
      <4>3. CASE s \in db.tx /\ s.tx \notin BlockTx
        <5>1. s = r
          BY <3>1, <4>1, <4>3 DEF TableInv, KeyInv
        <5> QED
          BY <2>11, <4>2, <4>3, <5>1
      <4>4. CASE s.height = H + 1 /\ \E q \in db.tx : s.id = q.id /\ s.tx = q.tx /\ s.tx \in BlockTx
        <5>1. PICK q \in db.tx : s.id = q.id /\ s.tx = q.tx /\ s.tx \in BlockTx
          BY <4>4
        <5>2. q = r
          BY <3>1, <4>1, <5>1 DEF TableInv, KeyInv
        <5> QED
          BY <2>11, <4>2, <4>4, <5>1, <5>2
      <4>5. CASE s.id > db.next
        BY <2>13, <3>1, <4>1, <4>5
      <4> QED
        BY <2>8, <4>3, <4>4, <4>5
    <3>2. \A s \in db'.tx : \/ Committed(s)' \/ (synced' /\ s.height = Unconfirmed)
                            \/ (~Looking' /\ s.height = H' + 1 /\ s.tx \in BlockTx')
      BY <2>3, <2>5, <2>7, <2>8, <2>14
    <3> QED
      BY <2>4, <3>1, <3>2 DEF HeightInv
  <2>17. NewPlaces' = NewPlaces
    <3>1. \A x \in j.found : \E r \in db.tx : r.id = x
      BY <2>1, <2>12 DEF BlockFound, j
    <3>2. ASSUME NEW s \in db'.tx, s.id \in j.found PROVE \E r \in db.tx : r.id = s.id /\ r.tx = s.tx
      <4>1. s.id <= db.next
        BY <2>13, <3>1, <3>2
      <4>2. ~(s.id > db.next)
        BY <2>13, <3>1, <3>2
      <4> QED
        BY <2>8, <4>2
    <3> QED
      BY <2>4, <2>5, <2>8, <3>2 DEF NewPlaces, j
  <2>18. BlockInv'
    <3>1. BlockPlace'
      BY <2>4 DEF BlockPlace
    <3>2. BlockFound'
      <4>1. ASSUME NEW x \in j.found PROVE \E s \in db'.tx : s.id = x /\ s.tx \in BlockTx /\ Complete(s)'
        <5>1. PICK r \in db.tx : r.id = x /\ r.tx \in BlockTx /\ Complete(r)
          BY <2>1, <2>12, <4>1 DEF BlockFound, j
        <5>2. PICK s \in db'.tx : s.id = r.id /\ s.tx = r.tx
          BY <2>8
        <5>3. Kept(r)
          BY <2>10 DEF Settled
        <5> QED
          BY <5>1, <5>2, <5>3, KeptComplete
      <4>2. j.txs = Picked(txs, NewPlaces)
        BY <2>1, <2>12 DEF BlockFound, j, txs
      <4> QED
        BY <2>4, <2>5, <2>14, <2>17, <4>1, <4>2 DEF BlockFound, txs
    <3>3. BlockNew'
      BY <2>4 DEF BlockNew
    <3>4. BlockRows'
      BY <2>5, <2>8, <2>14 DEF BlockRows, txs
    <3>5. BlockIds'
      <4>1. db.next \in 0 .. db'.next
        BY <2>8, <2>13
      <4> QED
        BY <2>4, <2>8, <4>1 DEF BlockIds
    <3>6. BlockLinks'
      <4>1. \A i \in db.ins, o \in db.outs : Spends(i, o) /\ i.height = H + 1 => o.byHeight = H + 1
        BY <2>1, <2>12 DEF BlockLinks, j
      <4> QED
        BY <2>9, <2>14, <4>1 DEF BlockLinks, Spends
    <3> QED
      BY <3>1, <3>2, <3>3, <3>4, <3>5, <3>6 DEF BlockInv
  <2>19. WriteInv("block")'
    <3>1. ASSUME NEW s \in db'.tx, s.tx \in ToSet(j.txs) PROVE Empty(s)'
      <4>1. \A r \in db.tx : r.tx # s.tx
        BY <2>11, <3>1 DEF ToSet
      <4>2. s.id > db.next
        BY <2>8, <4>1
      <4>3. \A x \in db.outs \cup db.ins : x.id # s.id
        BY <2>13, <4>2
      <4> QED
        BY <2>9, <4>3 DEF Empty
    <3> QED
      BY <2>4, <3>1 DEF WriteInv
  <2>20. ASSUME NEW s \in db'.tx, s.tx \in BlockTx PROVE Whole(s)'
    <3>1. CASE \E r \in db.tx : s.id = r.id /\ s.tx = r.tx
      <4>1. PICK r \in db.tx : s.id = r.id /\ s.tx = r.tx
        BY <3>1
      <4>2. Complete(r) /\ Kept(r)
        BY <2>10, <2>11, <2>20, <4>1 DEF Settled
      <4>3. Complete(s)'
        BY <4>1, <4>2, KeptComplete
      <4> QED
        BY <4>3 DEF Whole
    <3>2. CASE s.tx \in ToSet(j.txs)
      <4>1. InProgress(s.tx)'
        BY <1>1, <2>4, <2>7, <3>2 DEF InProgress, Filling
      <4> QED
        BY <4>1 DEF Whole
    <3> QED
      BY <2>8, <2>20, <3>1, <3>2
  <2>21. \A s \in db'.tx : s.tx \in BlockTx => s.height # Unconfirmed
    BY <2>3, <2>8
  <2>22. \A s \in db'.tx : s.tx \notin BlockTx =>
           \E r \in db.tx : Settled(r) /\ r.id = s.id /\ r.tx = s.tx /\ r.height = s.height
    BY <2>8, <2>10
  <2>23. running # NoTx =>
         /\ \A r \in db.tx : r.tx = running => \E s \in db'.tx : r.id = s.id /\ r.tx = s.tx
         /\ \A c \in Coins(running), s \in db.tx, o \in db.outs :
              s.tx = c.tx /\ o.id = s.id /\ o.at = c.at =>
                \E u \in db'.tx, p \in db'.outs : u.tx = c.tx /\ p.id = u.id /\ p.at = c.at
    <3>1. ASSUME NEW c \in Coins(running), NEW s \in db.tx, NEW o \in db.outs,
                 s.tx = c.tx, o.id = s.id, o.at = c.at
          PROVE  \E u \in db'.tx, p \in db'.outs : u.tx = c.tx /\ p.id = u.id /\ p.at = c.at
      <4>1. PICK u \in db'.tx : u.id = s.id /\ u.tx = s.tx
        BY <2>8
      <4> QED
        BY <2>9, <3>1, <4>1
    <3> QED
      BY <2>8, <3>1
  <2>24. job'["mempool"] = job["mempool"]
    BY <1>1, <2>4
  <2> QED
    BY <2>3, <2>5, <2>10, <2>15, <2>16, <2>18, <2>19, <2>20, <2>21, <2>22, <2>23, <2>24, BlockWork
<1> QED
  BY <1>2, <1>3

\* While the handler of the blocks writes the outputs and inputs of the new
\* transactions, its rows stay where they are.
LEMMA RowsStay ==
  ASSUME LedgerInv, Handles("block"), job["block"].pc \in {"insert", "link"},
         job'["block"].pc \in {"link", "adjust", "balances"}, db'.tx = db.tx,
         \A r \in db.tx : r.tx \notin ToSet(job["block"].txs) => Settled(r)
  PROVE  /\ BlockPlace' /\ BlockFound' /\ BlockNew' /\ BlockRows' /\ BlockIds'
         /\ \A r \in db.tx : r.tx \in BlockTx => r.height = H + 1
         /\ \A r \in db.tx : r.id \in job["block"].found =>
              Complete(r) /\ r.tx \notin ToSet(job["block"].txs)
<1> USE DEF LedgerInv, WorkInv
<1> DEFINE j == job["block"]
<1>1. /\ phase = "run" /\ block \in Block /\ block # NoBlock
      /\ \A n \in DOMAIN Contents[block] : Contents[block][n] \in BlockTx
      /\ \A t \in BlockTx : \E n \in DOMAIN Contents[block] : t = Contents[block][n]
  BY BlockFacts DEF Handles
<1>2. /\ BlockPlace /\ BlockFound /\ BlockRows
  BY <1>1 DEF BlockInv
<1>3. /\ j.pc # "find" /\ ~Looking /\ ~Looking' /\ job'["block"].pc # "find"
  BY DEF Looking
<1>4. /\ UNCHANGED <<storedTip, block, synced, phase>>
      /\ job'["block"].txs = j.txs /\ job'["block"].found = j.found
  BY DEF Handles
<1>5. NewPlaces' = NewPlaces
  BY <1>4 DEF NewPlaces
<1>6. ToSet(j.txs) = {Contents[block][n] : n \in NewPlaces}
  BY <1>1, <1>3, JobBlock
<1>7. ASSUME NEW r \in db.tx, r.id \in j.found PROVE Complete(r) /\ r.tx \notin ToSet(j.txs) /\ r.tx \in BlockTx
  <2>1. PICK q \in db.tx : q.id = r.id /\ q.tx \in BlockTx /\ Complete(q)
    BY <1>2, <1>3, <1>7 DEF BlockFound
  <2>2. q = r
    BY <2>1 DEF TableInv, KeyInv
  <2>3. \A n \in NewPlaces : r.tx # Contents[block][n]
    BY <1>7 DEF NewPlaces
  <2> QED
    BY <1>6, <2>1, <2>2, <2>3
<1>8. BlockPlace'
  BY DEF BlockPlace
<1>9. BlockFound'
  <2>1. ASSUME NEW x \in j.found PROVE \E r \in db'.tx : r.id = x /\ r.tx \in BlockTx /\ Complete(r)'
    <3>1. PICK r \in db.tx : r.id = x /\ r.tx \in BlockTx
      BY <1>2, <1>3, <2>1 DEF BlockFound
    <3>2. Complete(r) /\ Kept(r)
      BY <1>7, <2>1, <3>1 DEF Settled
    <3>3. Complete(r)'
      BY <3>2, KeptComplete
    <3> QED
      BY <3>1, <3>3
  <2>2. BlockTx' = BlockTx
    BY <1>4 DEF BlockTx
  <2>3. j.txs = Picked(Contents[block], NewPlaces)
    BY <1>2, <1>3 DEF BlockFound
  <2> QED
    BY <1>4, <1>5, <2>1, <2>2, <2>3 DEF BlockFound
<1>10. BlockNew'
  BY DEF BlockNew
<1>11. BlockRows'
  BY <1>2, <1>3, <1>4 DEF BlockRows, H
<1>12. BlockIds'
  BY DEF BlockIds
<1>13. ASSUME NEW r \in db.tx, r.tx \in BlockTx PROVE r.height = H + 1
  <2>1. PICK n \in DOMAIN Contents[block] : r.tx = Contents[block][n]
    BY <1>1, <1>13
  <2>2. PICK q \in db.tx : q.tx = Contents[block][n] /\ q.height = H + 1
    BY <1>2, <1>3 DEF BlockRows
  <2>3. q = r
    BY <2>1, <2>2 DEF TableInv, KeyInv
  <2> QED
    BY <2>2, <2>3
<1> QED
  BY <1>7, <1>8, <1>9, <1>10, <1>11, <1>12, <1>13

\* The outputs and inputs of the new transactions of the block.
LEMMA BlockInsert ==
  ASSUME LedgerInv, Insert("block")
  PROVE  LedgerInv'
<1> USE DEF LedgerInv, WorkInv
<1> DEFINE j == job["block"]
<1>1. CASE Refused("block", "insert", "duplicate")
  BY <1>1, LedgerStop DEF Refused
<1>2. CASE Statement("block", "insert", "link", Inserted(db, j, Height("block")))
  <2>1. "block" \in Handler /\ "mempool" \in Handler
    BY DEF Handler
  <2>2. /\ Handles("block") /\ j.pc = "insert" /\ job'["block"].pc = "link"
        /\ db' = Inserted(db, j, Height("block")) /\ txTip' = txTip
        /\ job'["block"].todo = j.todo /\ job'["block"].ids = j.ids
        /\ job'["block"].txs = j.txs
        /\ job'["block"].found = j.found
        /\ \A v \in Handler : v # "block" => job'[v] = job[v]
    BY <1>2, <2>1, StatementHandles
  <2>3. Filling("block") /\ Filling("block")' /\ j.pc # "none" /\ j.pc # "find" /\ ~Looking /\ ~Looking'
    BY <2>2 DEF Filling, Looking
  <2>4. /\ phase = "run" /\ block \in Block /\ block # NoBlock
        /\ storedTip \in Block /\ Depth[block] = H + 1
        /\ H \in Nat /\ H + 1 < Unconfirmed /\ Unconfirmed \in Nat
        /\ \A r \in db.tx : Committed(r) => r.tx \notin BlockTx
        /\ \A r \in db.tx : \/ Committed(r)
                            \/ synced /\ r.height = Unconfirmed
                            \/ ~Looking /\ r.height = H + 1 /\ r.tx \in BlockTx
    BY <2>2, <2>3, BlockFacts DEF Handles
  <2>5. UNCHANGED <<storedTip, phase, step, synced, tip, block, waiting, running>>
    BY <2>2 DEF Handles
  <2>6. ToSet(j.txs) \subseteq BlockTx /\ \A n \in DOMAIN j.txs : j.txs[n] \in BlockTx
    BY <2>3, <2>4, JobBlock
  <2>7. IdsRight(j) /\ \A r \in db.tx : r.tx \in ToSet(j.txs) => Empty(r)
    BY <2>1, <2>2, <2>3 DEF WriteInv
  <2>8. db' = Inserted(db, j, H + 1)
    BY <2>2, <2>4 DEF Height
  <2>9. H + 1 \in 0 .. Unconfirmed /\ H + 1 > H
    BY <2>4
  <2>10. \A r \in db.tx : r.tx \in ToSet(j.txs) => Empty(r) /\ ~Committed(r)
    BY <2>4, <2>6, <2>7
  <2>11. /\ TableInv'
         /\ \A r \in db.tx : r.tx \notin ToSet(j.txs) => Settled(r)
         /\ \A r \in db.tx : r.tx \in ToSet(j.txs) => Filled(r)' /\ Unlinked(r)'
    BY <2>4, <2>5, <2>7, <2>8, <2>9, <2>10, InsertTable
  <2>12. /\ db'.next = db.next /\ db'.tx = db.tx
         /\ db.outs \subseteq db'.outs /\ db.ins \subseteq db'.ins
         /\ \A p \in db'.outs : p \in db.outs \/ \E n \in DOMAIN j.txs : \E m \in DOMAIN Pays[j.txs[n]] :
              p = [id |-> j.ids[n], at |-> m, height |-> H + 1,
                   address |-> (CHOOSE r \in db.addresses : r.address = Pays[j.txs[n]][m]).id,
                   by |-> 0, byAt |-> 0, byHeight |-> Null]
         /\ \A i \in db'.ins : i \in db.ins \/ \E n \in DOMAIN j.txs : \E m \in DOMAIN Inputs[j.txs[n]] :
              i = [id |-> j.ids[n], at |-> m, height |-> H + 1, address |-> 0, from |-> 0, fromAt |-> 0]
    BY <2>7, <2>8, InsertedRows DEF TableInv
  <2>13. /\ BlockPlace' /\ BlockFound' /\ BlockNew' /\ BlockRows' /\ BlockIds'
         /\ \A r \in db.tx : r.tx \in BlockTx => r.height = H + 1
    BY <2>2, <2>11, <2>12, RowsStay
  <2>14. \A n \in DOMAIN j.txs : \E r \in db.tx :
           r.id = j.ids[n] /\ r.tx \in BlockTx /\ r.height = H + 1 /\ Empty(r)
    <3> TAKE n \in DOMAIN j.txs
    <3>1. PICK r \in db.tx : r.id = j.ids[n] /\ r.tx = j.txs[n]
      BY <2>7 DEF IdsRight
    <3>2. j.txs[n] \in ToSet(j.txs)
      BY DEF ToSet
    <3> QED
      BY <2>6, <2>7, <2>13, <3>1, <3>2
  <2>15. ASSUME NEW p \in db'.outs, p \notin db.outs
         PROVE  p.height = H + 1 /\ \E r \in db.tx :
                  p.id = r.id /\ r.tx \in BlockTx /\ r.height = H + 1 /\ Empty(r)
    <3>1. PICK n \in DOMAIN j.txs : p.id = j.ids[n] /\ p.height = H + 1
      BY <2>12, <2>15
    <3> QED
      BY <2>14, <3>1
  <2>16. ASSUME NEW i \in db'.ins, i \notin db.ins
         PROVE  i.height = H + 1 /\ i.from = 0 /\ \E r \in db.tx :
                  i.id = r.id /\ r.tx \in BlockTx /\ r.height = H + 1
    <3>1. PICK n \in DOMAIN j.txs : i.id = j.ids[n] /\ i.height = H + 1 /\ i.from = 0
      BY <2>12, <2>16
    <3> QED
      BY <2>14, <3>1
  <2>17. HeightInv'
    <3>1. ASSUME NEW x \in db'.outs \cup db'.ins, NEW s \in db'.tx, s.id = x.id PROVE x.height = s.height
      <4>1. CASE x \in db.outs \cup db.ins
        BY <2>2, <2>4, <2>12, <3>1, <4>1 DEF HeightInv
      <4>2. CASE x \notin db.outs \cup db.ins
        <5>1. x.height = H + 1 /\ \E r \in db.tx : x.id = r.id /\ r.height = H + 1
          BY <2>15, <2>16, <4>2
        <5>2. PICK r \in db.tx : x.id = r.id /\ r.height = H + 1
          BY <5>1
        <5>3. s = r
          BY <2>12, <3>1, <5>2 DEF TableInv, KeyInv
        <5> QED
          BY <5>1, <5>2, <5>3
      <4> QED
        BY <4>1, <4>2
    <3>2. \A s \in db'.tx : \/ Committed(s)' \/ (synced' /\ s.height = Unconfirmed)
                            \/ (~Looking' /\ s.height = H' + 1 /\ s.tx \in BlockTx')
      BY <2>3, <2>4, <2>5, <2>12 DEF Committed, H, BlockTx
    <3> QED
      BY <2>2, <3>1, <3>2 DEF HeightInv
  <2>18. BlockLinks'
    <3>1. \A i \in db.ins, o \in db.outs : Spends(i, o) /\ i.height = H + 1 => o.byHeight = H + 1
      BY <2>2, <2>4 DEF BlockInv, BlockLinks
    <3>2. ASSUME NEW i \in db'.ins, NEW p \in db'.outs, Spends(i, p), i.height = H + 1 PROVE p.byHeight = H + 1
      <4>1. CASE p \notin db.outs
        <5>1. PICK r \in db.tx : p.id = r.id /\ Empty(r)
          BY <2>15, <4>1
        <5>2. r.id # 0
          BY <2>4, Heights DEF TableInv
        <5>3. i \in db.ins
          BY <2>16, <3>2, <5>1, <5>2 DEF Spends
        <5>4. i.from # r.id
          BY <2>4, <5>1, <5>3, NoSpender
        <5> QED
          BY <3>2, <5>1, <5>4 DEF Spends
      <4>2. CASE p \in db.outs /\ i \in db.ins
        BY <3>1, <3>2, <4>2
      <4>3. CASE p \in db.outs /\ i \notin db.ins
        <5>1. p.id # 0
          <6>1. PICK r \in db.tx : With(p, r)
            BY <4>3 DEF TableInv, OwnInv
          <6> QED
            BY <2>4, <6>1, Heights DEF TableInv, With
        <5> QED
          BY <2>16, <3>2, <4>3, <5>1 DEF Spends
      <4> QED
        BY <4>1, <4>2, <4>3
    <3>3. H' = H
      BY <2>5 DEF H
    <3> QED
      BY <3>2, <3>3 DEF BlockLinks, Spends
  <2>19. BlockInv'
    BY <2>13, <2>18 DEF BlockInv
  <2>20. ProcessInv'
    BY <2>1, <2>2, HandlesProcess
  <2>21. WriteInv("block")'
    <3>1. IdsRight(job["block"])'
      BY <2>2, <2>7, <2>12 DEF IdsRight
    <3> QED
      BY <2>2, <2>11, <2>12, <3>1 DEF WriteInv
  <2>22. ASSUME NEW s \in db'.tx, s.tx \in BlockTx PROVE Whole(s)' /\ s.height # Unconfirmed
    <3>1. s.height # Unconfirmed
      BY <2>4, <2>12, <2>13, <2>22
    <3>2. CASE s.tx \in ToSet(j.txs)
      BY <2>1, <2>2, <2>3, <3>1, <3>2 DEF Whole, InProgress
    <3>3. CASE s.tx \notin ToSet(j.txs)
      <4>1. Whole(s) /\ Kept(s)
        BY <2>4, <2>11, <2>12, <3>3 DEF CompleteInv, Settled
      <4>2. ASSUME InProgress(s.tx) PROVE InProgress(s.tx)'
        <5>1. PICK w \in Handler : Filling(w) /\ s.tx \in ToSet(job[w].txs)
          BY <4>2 DEF InProgress
        <5> QED
          BY <2>2, <3>3, <5>1 DEF InProgress, Filling
      <4>3. Whole(s)'
        BY <2>4, <2>5, <2>12, <4>1, <4>2, WholeKept
      <4> QED
        BY <3>1, <4>3
    <3> QED
      BY <3>2, <3>3
  <2>23. \A s \in db'.tx : s.tx \notin BlockTx =>
           \E r \in db.tx : Settled(r) /\ r.id = s.id /\ r.tx = s.tx /\ r.height = s.height
    BY <2>6, <2>11, <2>12
  <2>24. \A c \in Coins(running), s \in db.tx, o \in db.outs :
              s.tx = c.tx /\ o.id = s.id /\ o.at = c.at =>
                \E u \in db'.tx, p \in db'.outs : u.tx = c.tx /\ p.id = u.id /\ p.at = c.at
    BY <2>12
  <2>25. \A r \in db.tx : r.tx = running => \E s \in db'.tx : r.id = s.id /\ r.tx = s.tx
    BY <2>12
  <2>26. job'["mempool"] = job["mempool"]
    BY <2>1, <2>2
  <2> QED
    BY <2>4, <2>5, <2>11, <2>17, <2>19, <2>20, <2>21, <2>22, <2>23, <2>24, <2>25, <2>26, BlockWork
<1> QED
  BY <1>1, <1>2 DEF Insert

\* Their links, to outputs that are all in the table.
LEMMA BlockLink ==
  ASSUME LedgerInv, Link("block")
  PROVE  LedgerInv'
<1> USE DEF LedgerInv, WorkInv
<1> DEFINE j == job["block"]
           next == IF synced THEN "adjust" ELSE "balances"
<1>1. "block" \in Handler /\ "mempool" \in Handler
  BY DEF Handler
<1>2. Statement("block", "link", next, Linked(db, j.txs)) /\ next \in {"adjust", "balances"}
  BY DEF Link
<1> HIDE DEF next
<1>3. /\ Handles("block") /\ j.pc = "link" /\ job'["block"].pc \in {"adjust", "balances"}
      /\ db' = Linked(db, j.txs) /\ txTip' = txTip
      /\ job'["block"].todo = j.todo /\ job'["block"].txs = j.txs
      /\ \A v \in Handler : v # "block" => job'[v] = job[v]
  BY <1>1, <1>2, StatementHandles
<1>4. Filling("block") /\ ~Filling("block")' /\ j.pc # "none" /\ j.pc # "find" /\ ~Looking /\ ~Looking'
  BY <1>3 DEF Filling, Looking
<1>5. /\ phase = "run" /\ block \in Block /\ block # NoBlock
      /\ storedTip \in Block /\ H \in Nat /\ H + 1 < Unconfirmed /\ Unconfirmed \in Nat
      /\ AroundTx = ChainTx \cup BlockTx /\ BlockTx \subseteq Tx
      /\ \A t \in BlockTx : \E n \in DOMAIN Contents[block] : t = Contents[block][n]
      /\ \A r \in db.tx : Committed(r) => r.tx \notin BlockTx
      /\ running # NoTx => running \notin AroundTx
      /\ \A r \in db.tx : \/ Committed(r)
                          \/ synced /\ r.height = Unconfirmed
                          \/ ~Looking /\ r.height = H + 1 /\ r.tx \in BlockTx
  BY <1>3, <1>4, BlockFacts DEF Handles
<1>6. UNCHANGED <<storedTip, phase, step, synced, tip, block, waiting, running>>
  BY <1>3 DEF Handles
<1>7. ToSet(j.txs) \subseteq BlockTx
  BY <1>4, <1>5, JobBlock
<1>8. \A r \in db.tx : r.tx \in ToSet(j.txs) => Filled(r) /\ Unlinked(r)
  BY <1>1, <1>3, <1>4 DEF WriteInv
<1>9. \A r \in db.tx : r.tx \in ToSet(j.txs) => Filled(r) /\ Unlinked(r) /\ ~Committed(r)
  BY <1>5, <1>7, <1>8
<1>10. /\ TableInv' /\ db'.tx = db.tx /\ db'.next = db.next
       /\ \A r \in db.tx : r.tx \notin ToSet(j.txs) => Settled(r)
       /\ \A r \in db.tx : r.tx \in ToSet(j.txs) /\
              (\A c \in Coins(r.tx) : \E s \in db.tx, o \in db.outs :
                 s.tx = c.tx /\ o.id = s.id /\ o.at = c.at) => Complete(r)'
       /\ \A p \in db'.outs : \E o \in db.outs : p.id = o.id /\ p.at = o.at /\ p.height = o.height
       /\ \A l \in db'.ins : \E i \in db.ins : l.id = i.id /\ l.at = i.at /\ l.height = i.height
       /\ \A l \in db'.ins, p \in db'.outs : Spends(l, p) =>
              \/ l.height = p.byHeight /\ \E r \in db.tx : r.id = l.id /\ r.tx \in ToSet(j.txs)
              \/ l \in db.ins /\ p \in db.outs
  BY <1>3, <1>5, <1>6, <1>9, LinkTable
<1>11. /\ BlockPlace' /\ BlockFound' /\ BlockNew' /\ BlockRows' /\ BlockIds'
       /\ \A r \in db.tx : r.tx \in BlockTx => r.height = H + 1
  BY <1>3, <1>10, RowsStay
\* the rows that the block found are complete, and all of its outputs are there
<1>12. ASSUME NEW s \in db.tx, s.tx \in BlockTx, s.tx \notin ToSet(j.txs) PROVE Complete(s)
  <2>1. Whole(s)
    BY <1>5 DEF CompleteInv
  <2>2. ASSUME NEW w \in Handler, Filling(w), s.tx \in ToSet(job[w].txs) PROVE FALSE
    <3>1. w = "mempool"
      BY <1>12, <2>2 DEF Handler
    <3>2. running # NoTx /\ ToSet(job["mempool"].txs) = {running}
      BY <1>5, <2>2, <3>1, MempoolJob
    <3> QED
      BY <1>5, <1>12, <2>2, <3>1, <3>2
  <2> QED
    BY <1>5, <2>1, <2>2 DEF Whole, InProgress
<1>13. ASSUME NEW r \in db.tx, r.tx \in BlockTx, NEW c \in Coins(r.tx)
       PROVE  \E s \in db.tx, o \in db.outs : s.tx = c.tx /\ o.id = s.id /\ o.at = c.at
  <2>1. c.tx \in AroundTx /\ c.at \in DOMAIN Pays[c.tx]
    BY <1>5, <1>13, AroundChain
  <2>2. \E s \in db.tx : s.tx = c.tx /\ Filled(s)
    <3>1. CASE c.tx \in ChainTx
      <4>1. PICK s \in db.tx : s.tx = c.tx /\ Committed(s)
        BY <1>5, <3>1, ChainRow DEF TableInv
      <4> QED
        BY <4>1 DEF TableInv, ChainInv, Complete
    <3>2. CASE c.tx \in BlockTx
      <4>1. PICK s \in db.tx : s.tx = c.tx
        <5>1. BlockRows
          BY <1>5 DEF BlockInv
        <5>2. PICK n \in DOMAIN Contents[block] : c.tx = Contents[block][n]
          BY <1>5, <3>2
        <5> QED
          BY <1>4, <5>1, <5>2 DEF BlockRows
      <4> QED
        BY <1>8, <1>12, <3>2, <4>1 DEF Complete
    <3> QED
      BY <1>5, <2>1, <3>1, <3>2
  <2>3. PICK s \in db.tx : s.tx = c.tx /\ Filled(s)
    BY <2>2
  <2>4. PICK o \in db.outs : o.id = s.id /\ o.at = c.at
    BY <2>1, <2>3 DEF Filled
  <2> QED
    BY <2>3, <2>4
<1>14. ASSUME NEW s \in db'.tx, s.tx \in BlockTx PROVE Complete(s)'
  <2>1. CASE s.tx \in ToSet(j.txs)
    BY <1>10, <1>13, <1>14, <2>1
  <2>2. CASE s.tx \notin ToSet(j.txs)
    <3>1. s \in db.tx /\ Complete(s) /\ Kept(s)
      BY <1>10, <1>12, <1>14, <2>2 DEF Settled
    <3> QED
      BY <1>14, <3>1, KeptComplete
  <2> QED
    BY <2>1, <2>2
<1>15. HeightInv'
  <2>1. ASSUME NEW x \in db'.outs \cup db'.ins, NEW s \in db'.tx, s.id = x.id PROVE x.height = s.height
    <3>1. PICK y \in db.outs \cup db.ins : x.id = y.id /\ x.height = y.height
      BY <1>10
    <3>2. s \in db.tx /\ s.id = y.id
      BY <1>10, <2>1, <3>1
    <3> QED
      BY <1>3, <1>5, <3>1, <3>2 DEF HeightInv
  <2>2. \A s \in db'.tx : \/ Committed(s)' \/ (synced' /\ s.height = Unconfirmed)
                          \/ (~Looking' /\ s.height = H' + 1 /\ s.tx \in BlockTx')
    BY <1>4, <1>5, <1>6, <1>10 DEF Committed, H, BlockTx
  <2> QED
    BY <1>3, <2>1, <2>2 DEF HeightInv
<1>16. BlockLinks'
  <2>1. \A i \in db.ins, o \in db.outs : Spends(i, o) /\ i.height = H + 1 => o.byHeight = H + 1
    BY <1>3, <1>5 DEF BlockInv, BlockLinks
  <2>2. ASSUME NEW i \in db'.ins, NEW p \in db'.outs, Spends(i, p), i.height = H + 1 PROVE p.byHeight = H + 1
    BY <1>10, <2>1, <2>2
  <2>3. H' = H
    BY <1>6 DEF H
  <2> QED
    BY <2>2, <2>3 DEF BlockLinks, Spends
<1>17. BlockInv'
  BY <1>11, <1>16 DEF BlockInv
<1>18. ProcessInv'
  BY <1>1, <1>3, HandlesProcess
<1>19. WriteInv("block")'
  BY <1>3, <1>4 DEF WriteInv
<1>20. ASSUME NEW s \in db'.tx, s.tx \in BlockTx PROVE Whole(s)' /\ s.height # Unconfirmed
  <2>1. s.height # Unconfirmed
    BY <1>5, <1>10, <1>11, <1>20
  <2>2. Complete(s)'
    BY <1>14, <1>20
  <2> QED
    BY <2>1, <2>2 DEF Whole
<1>21. \A s \in db'.tx : s.tx \notin BlockTx =>
         \E r \in db.tx : Settled(r) /\ r.id = s.id /\ r.tx = s.tx /\ r.height = s.height
  BY <1>7, <1>10
<1>22. ASSUME NEW c \in Coins(running), NEW s \in db.tx, NEW o \in db.outs,
              s.tx = c.tx, o.id = s.id, o.at = c.at
       PROVE  \E u \in db'.tx, p \in db'.outs : u.tx = c.tx /\ p.id = u.id /\ p.at = c.at
  <2>1. CASE s.tx \notin ToSet(j.txs)
    <3>1. Kept(s)
      BY <1>10, <2>1 DEF Settled
    <3>2. PICK p \in db'.outs : p.id = o.id /\ p.at = o.at
      BY <1>22, <3>1 DEF Kept
    <3> QED
      BY <1>10, <1>22, <3>2
  <2>2. CASE s.tx \in ToSet(j.txs)
    <3>1. Complete(s)'
      BY <1>7, <1>10, <1>14, <2>2
    <3>2. o.at \in DOMAIN Pays[s.tx]
      <4>1. PICK r \in db.tx : With(o, r) /\ o.at \in DOMAIN Pays[r.tx]
        BY DEF TableInv, OwnInv
      <4>2. r = s
        BY <1>22, <4>1 DEF TableInv, KeyInv, With
      <4> QED
        BY <4>1, <4>2
    <3>3. PICK p \in db'.outs : p.id = s.id /\ p.at = o.at
      BY <3>1, <3>2 DEF Complete, Filled
    <3> QED
      BY <1>10, <1>22, <3>3
  <2> QED
    BY <2>1, <2>2
<1>23. \A r \in db.tx : r.tx = running => \E s \in db'.tx : r.id = s.id /\ r.tx = s.tx
  BY <1>10
<1>24. job'["mempool"] = job["mempool"]
  BY <1>1, <1>3
<1> QED
  BY <1>5, <1>6, <1>10, <1>15, <1>17, <1>18, <1>19, <1>20, <1>21, <1>22, <1>23, <1>24, BlockWork

\* The block is written: its rows are those of the chain that ends in it.
LEMMA LedgerCommit ==
  ASSUME LedgerInv, Commit
  PROVE  LedgerInv'
<1> USE DEF LedgerInv, WorkInv
<1> DEFINE j == job["block"]
<1>1. /\ "block" \in Handler /\ "mempool" \in Handler /\ DOMAIN job = Handler
      /\ DOMAIN NoJob = JobFields /\ NoJob.pc = "none"
  BY DEF Handler, ProcessInv, NoJob, JobFields
<1>2. /\ j.pc = "commit" /\ phase \in {"run", "undo"} /\ j.pc # "none"
      /\ storedTip' = block /\ tip' = block /\ block' = NoBlock
      /\ job' = [job EXCEPT !["block"] = NoJob]
      /\ UNCHANGED <<db, txTip, phase, step, synced, waiting, running>>
  BY DEF Commit, Writing, queue
<1>3. /\ job'["block"] = NoJob /\ DOMAIN job' = Handler /\ job'["mempool"] = job["mempool"]
  BY <1>1, <1>2
<1>4. /\ phase = "run" /\ block \in Block /\ block # NoBlock /\ Parent[block] = storedTip
      /\ storedTip \in Block /\ Depth[block] = H + 1
      /\ H \in Nat /\ H + 1 < Unconfirmed /\ Unconfirmed \in Nat
      /\ AroundTx = ChainTx \cup BlockTx
      /\ \A n \in DOMAIN Contents[block] : Contents[block][n] \in BlockTx
      /\ \A t \in BlockTx : \E n \in DOMAIN Contents[block] : t = Contents[block][n]
      /\ \A r \in db.tx : Committed(r) => r.tx \notin BlockTx
      /\ running # NoTx => running \notin AroundTx
      /\ \A r \in db.tx : \/ Committed(r)
                          \/ synced /\ r.height = Unconfirmed
                          \/ ~Looking /\ r.height = H + 1 /\ r.tx \in BlockTx
  BY <1>2, BlockFacts
<1>5. ~Filling("block") /\ ~Filling("block")' /\ ~Looking
  BY <1>1, <1>2, <1>3 DEF Filling, Looking
<1>6. BlockPlace /\ BlockRows /\ BlockLinks
  BY <1>4 DEF BlockInv
<1>7. /\ txTip = block
      /\ \A n \in DOMAIN Contents[block] : \E r \in db.tx :
           r.tx = Contents[block][n] /\ r.height = H + 1 /\ r.index = n - 1
      /\ \A i \in db.ins, o \in db.outs : Spends(i, o) /\ i.height = H + 1 => o.byHeight = H + 1
  BY <1>2, <1>5, <1>6 DEF BlockPlace, BlockRows, BlockLinks
<1>8. H' = H + 1 /\ (\A x : Committed(x)' <=> x.height <= H + 1)
  BY <1>2, <1>4 DEF H, Committed
<1>9. ASSUME NEW n \in DOMAIN Contents[block], NEW r \in db.tx, r.tx = Contents[block][n]
      PROVE  r.height = H + 1 /\ r.index = n - 1
  <2>1. PICK q \in db.tx : q.tx = Contents[block][n] /\ q.height = H + 1 /\ q.index = n - 1
    BY <1>7
  <2>2. q = r
    BY <1>9, <2>1 DEF TableInv, KeyInv
  <2> QED
    BY <2>1, <2>2
<1>10. ASSUME NEW r \in db.tx
       PROVE  /\ Committed(r)' <=> Committed(r) \/ r.tx \in BlockTx
              /\ r.tx \in BlockTx => r.height = H + 1
              /\ \/ Committed(r)' \/ (synced /\ r.height = Unconfirmed)
  <2>1. r.tx \in BlockTx => r.height = H + 1
    BY <1>4, <1>9
  <2>2. r.height \in Nat
    BY <1>4, Heights DEF TableInv
  <2> QED
    BY <1>4, <1>8, <2>1, <2>2 DEF Committed
<1>11. \A x \in db.outs \cup db.ins : \A r \in db.tx : r.id = x.id => x.height = r.height
  BY <1>2, <1>4 DEF HeightInv
<1>12. ASSUME NEW r \in db.tx, r.tx \in BlockTx PROVE Complete(r)
  <2>1. Whole(r)
    BY <1>4 DEF CompleteInv
  <2>2. ASSUME NEW w \in Handler, Filling(w), r.tx \in ToSet(job[w].txs) PROVE FALSE
    <3>1. w = "mempool"
      BY <1>5, <2>2 DEF Handler
    <3>2. running # NoTx /\ ToSet(job["mempool"].txs) = {running}
      BY <1>4, <2>2, <3>1, MempoolJob
    <3> QED
      BY <1>4, <1>12, <2>2, <3>1, <3>2
  <2> QED
    BY <1>4, <2>1, <2>2 DEF Whole, InProgress
<1>13. \A r : Complete(r)' <=> Complete(r)
  BY <1>2 DEF Complete, Filled, Linking, Spends
<1>14. ChainInv'
  <2> DEFINE row(r) == [tx |-> r.tx, height |-> r.height, index |-> r.index]
             new == {[tx |-> Contents[block][n], height |-> Depth[block], index |-> n - 1] :
                       n \in DOMAIN Contents[block]}
  <2>1. {row(r) : r \in {q \in db.tx : Committed(q)}} = ChainTxs(storedTip)
    BY DEF TableInv, ChainInv
  <2>2. ChainTxs(block) = ChainTxs(storedTip) \cup new
    BY <1>4, ChainUp
  <2>3. ASSUME NEW r \in db.tx, Committed(r)' PROVE row(r) \in ChainTxs(block)
    <3>1. CASE Committed(r)
      BY <2>1, <2>2, <3>1
    <3>2. CASE r.tx \in BlockTx
      <4>1. PICK n \in DOMAIN Contents[block] : r.tx = Contents[block][n]
        BY <1>4, <3>2
      <4>2. r.height = Depth[block] /\ r.index = n - 1
        BY <1>4, <1>9, <4>1
      <4> QED
        BY <2>2, <4>1, <4>2
    <3> QED
      BY <1>10, <2>3, <3>1, <3>2
  <2>4. ASSUME NEW x \in ChainTxs(block) PROVE \E r \in db.tx : Committed(r)' /\ x = row(r)
    <3>1. CASE x \in ChainTxs(storedTip)
      BY <1>10, <2>1, <3>1
    <3>2. CASE x \in new
      <4>1. PICK n \in DOMAIN Contents[block] :
              x = [tx |-> Contents[block][n], height |-> Depth[block], index |-> n - 1]
        BY <3>2
      <4>2. PICK r \in db.tx : r.tx = Contents[block][n] /\ r.height = H + 1 /\ r.index = n - 1
        BY <1>7
      <4>3. Committed(r)' /\ x = row(r)
        BY <1>4, <1>10, <4>1, <4>2
      <4> QED
        BY <4>3
    <3> QED
      BY <2>2, <2>4, <3>1, <3>2
  <2>5. {row(r) : r \in {q \in db'.tx : Committed(q)'}} = ChainTxs(storedTip')
    <3> HIDE DEF row, new
    <3> QED
      BY <1>2, <2>3, <2>4
  <2>6. \A r \in db.tx : Committed(r)' => Complete(r)'
    BY <1>10, <1>12, <1>13 DEF TableInv, ChainInv
  <2> QED
    BY <1>2, <2>5, <2>6 DEF ChainInv
<1>15. TableInv'
  <2>1. ShapeInv' /\ KeyInv' /\ LinkInv' /\ RivalInv'
    BY <1>2 DEF TableInv, ShapeInv, KeyInv, LinkInv, RivalInv, AllGenerated
  <2>2. OwnInv'
    <3>1. \A o \in db.outs : \E r \in db.tx :
            r.id = o.id /\ o.height = r.height /\ o.at \in DOMAIN Pays[r.tx]
      BY <1>11 DEF TableInv, OwnInv, With
    <3>2. \A i \in db.ins : \E r \in db.tx :
            r.id = i.id /\ i.height = r.height /\ i.at \in DOMAIN Inputs[r.tx]
      BY <1>11 DEF TableInv, OwnInv, With
    <3> QED
      BY <1>2, <3>1, <3>2 DEF OwnInv, With
  <2>3. SpentInv'
    <3>1. ASSUME NEW o \in db.outs, NEW i \in db.ins, Spends(i, o), Committed(i)'
          PROVE  o.byHeight = i.height
      <4>1. i.height \in Nat
        BY <1>4, Heights DEF TableInv
      <4>2. CASE Committed(i)
        BY <3>1, <4>2 DEF TableInv, SpentInv
      <4>3. CASE i.height = H + 1
        BY <1>7, <3>1, <4>3
      <4> QED
        BY <1>4, <1>8, <3>1, <4>1, <4>2, <4>3 DEF Committed
    <3>2. \A o \in db.outs : o.byHeight \notin {Null, Unconfirmed} =>
            \E i \in db.ins : Spends(i, o) /\ i.height = o.byHeight
      BY DEF TableInv, SpentInv
    <3> QED
      BY <1>2, <3>1, <3>2 DEF SpentInv, Spends
  <2> QED
    BY <1>14, <2>1, <2>2, <2>3 DEF TableInv
<1>16. ProcessInv'
  <2>1. \A w \in Handler : DOMAIN job'[w] = {"pc", "txs", "todo", "ids", "found", "known"}
    BY <1>1, <1>3 DEF ProcessInv, JobFields, Handler
  <2>2. Depth[txTip'] >= H'
    BY <1>2, <1>4, <1>7, <1>8
  <2>3. /\ waiting' \in Seq(Relayed) /\ running' \in Relayed \cup {NoTx}
        /\ (~synced' => running' = NoTx /\ waiting' = <<>>)
        /\ (running' = NoTx => job'["mempool"].pc = "none" /\ waiting' = <<>>)
        /\ synced' \in BOOLEAN
    BY <1>2, <1>3 DEF ProcessInv
  <2> QED
    BY <1>1, <1>2, <1>3, <1>4, <1>7, <2>1, <2>2, <2>3 DEF ProcessInv
<1>17. CleanInv' /\ UndoInv' /\ BlockInv'
  BY <1>2, <1>4 DEF CleanInv, UndoInv, BlockInv
<1>18. CompleteInv'
  <2>1. \A t : InProgress(t) => InProgress(t)'
    BY <1>1, <1>3, <1>5 DEF InProgress, Filling, Handler
  <2> QED
    BY <1>2, <1>4, <1>13, <2>1 DEF CompleteInv, Whole
<1>19. HeightInv'
  BY <1>1, <1>2, <1>3, <1>10, <1>11 DEF HeightInv
<1>20. QueueInv'
  <2>1. ChainTx' = AroundTx
    BY <1>2, <1>4 DEF ChainTx, H, AroundTx, Around
  <2>2. \A t \in Queued : t \notin AroundTx /\ \A s \in AroundTx : Coins(s) \cap Coins(t) = {}
    BY <1>4, QueuedApart
  <2>3. Queued' = Queued
    BY <1>2 DEF Queued
  <2> QED
    BY <1>2, <1>4, <2>1, <2>2, <2>3 DEF QueueInv
<1>21. WriteInv("block")'
  BY <1>1, <1>3, <1>5 DEF WriteInv
<1>22. WriteInv("mempool")'
  BY <1>1, <1>2, <1>3 DEF WriteInv, Filling, IdsRight, Filled, Unlinked, Empty
<1>23. MempoolInv'
  BY <1>2, <1>3 DEF MempoolInv, Filling
<1> QED
  BY <1>15, <1>16, <1>17, <1>18, <1>19, <1>20, <1>21, <1>22, <1>23 DEF Handler

-----------------------------------------------------------------------------
(* Every step, and the ledger.                                             *)

\* A step that changes nothing.
LEMMA LedgerIdle ==
  ASSUME LedgerInv, UNCHANGED vars
  PROVE  LedgerInv'
<1> USE DEF LedgerInv, WorkInv
<1>1. UNCHANGED <<db, storedTip, txTip, phase, step, synced, tip, block, job, waiting, running>>
  BY DEF vars, tips, process, queue
<1>2. TableInv'
  BY <1>1, SameTable
<1>3. /\ H' = H /\ ChainTx' = ChainTx /\ AroundTx' = AroundTx /\ BlockTx' = BlockTx
      /\ NewPlaces' = NewPlaces /\ Queued' = Queued
      /\ Looking' = Looking
  BY <1>1 DEF H, ChainTx, AroundTx, Around, BlockTx, NewPlaces, Queued, Looking
<1>4. /\ \A x : Committed(x)' <=> Committed(x)
      /\ \A r : Complete(r)' <=> Complete(r)
      /\ \A w : Filling(w)' <=> Filling(w)
  BY <1>1, <1>3 DEF Committed, Complete, Filled, Linking, Spends, Filling
<1>5. ProcessInv'
  BY <1>1, <1>3 DEF ProcessInv
<1>6. CleanInv' /\ HeightInv' /\ QueueInv' /\ MempoolInv'
  <2>1. CleanInv'
    BY <1>1, <1>4 DEF CleanInv, Spends
  <2>2. HeightInv'
    BY <1>1, <1>3, <1>4 DEF HeightInv
  <2>3. \A s \in db'.tx : s.height = Unconfirmed => \E r \in db.tx : r.tx = s.tx /\ r.height = Unconfirmed
    BY <1>1
  <2>4. QueueInv'
    BY <1>1, <2>3, QueueKept
  <2>5. MempoolInv'
    BY <1>1, <1>4 DEF MempoolInv
  <2> QED
    BY <2>1, <2>2, <2>4, <2>5
<1>7. UndoInv'
  BY <1>1, <1>3, <1>4 DEF UndoInv, Spends
<1>8. CompleteInv'
  BY <1>1, <1>4 DEF CompleteInv, Whole, InProgress
<1>9. \A w \in Handler : WriteInv(w)'
  BY <1>1, <1>4 DEF WriteInv, Filled, Unlinked, Empty, IdsRight
<1>10. BlockInv'
  <2>1. BlockPlace' <=> BlockPlace
    BY <1>1 DEF BlockPlace
  <2>2. BlockFound' <=> BlockFound
    BY <1>1, <1>3, <1>4 DEF BlockFound
  <2>3. BlockNew' <=> BlockNew
    BY <1>1, <1>3 DEF BlockNew
  <2>4. BlockRows' <=> BlockRows
    BY <1>1, <1>3 DEF BlockRows
  <2>5. BlockIds' <=> BlockIds
    BY <1>1 DEF BlockIds
  <2>6. BlockLinks' <=> BlockLinks
    BY <1>1, <1>3 DEF BlockLinks, Spends
  <2> QED
    BY <1>1, <2>1, <2>2, <2>3, <2>4, <2>5, <2>6 DEF BlockInv
<1> QED
  BY <1>2, <1>5, <1>6, <1>7, <1>8, <1>9, <1>10

\* Every step preserves the invariant.
LEMMA LedgerNext ==
  ASSUME Calm, LedgerInv, [Next]_vars
  PROVE  LedgerInv'
<1>1. ASSUME NEW w \in Handler, WriteTransactions(w) PROVE LedgerInv'
  <2>1. w \in {"block", "mempool"}
    BY DEF Handler
  <2>2. CASE Replace(w)
    BY <2>1, <2>2, BlockReplace, MempoolReplace
  <2>3. CASE CreateTransactions(w)
    BY <2>1, <2>3, BlockCreate, MempoolCreate
  <2>4. CASE CreateWitnesses(w)
    BY <2>4, LedgerWitnesses
  <2>5. CASE FindAddresses(w)
    BY <2>5, LedgerFindAddresses
  <2>6. CASE CreateAddresses(w)
    BY <2>6, LedgerAddresses
  <2>7. CASE Insert(w)
    BY <2>1, <2>7, BlockInsert, MempoolInsert
  <2>8. CASE Link(w)
    BY <2>1, <2>8, BlockLink, MempoolLink
  <2>9. CASE CreateBalances(w)
    BY <2>9, LedgerBalances
  <2>10. CASE CreateReceipts(w)
    BY <2>10, LedgerReceipts
  <2> QED
    BY <1>1, <2>2, <2>3, <2>4, <2>5, <2>6, <2>7, <2>8, <2>9, <2>10 DEF WriteTransactions
<1>2. CASE Start \/ Clean \/ StoreStartTip \/ OnSynced \/ Undo
  BY <1>2, LedgerStart, CleanStep, LedgerStarted, LedgerSynced, LedgerUndo
<1>3. CASE Crash
  BY <1>3, LedgerStop DEF Crash
<1>4. CASE \E b \in Block : GoBack(b) \/ BeginBlock(b)
  BY <1>4, LedgerGoBack, LedgerBegin
<1>5. CASE FindUnconfirmed \/ Adopt \/ Spend \/ Lower
  BY <1>5, LedgerFindUnconfirmed, LedgerAdopt, LedgerSpend, LedgerLower
<1>6. CASE Number \/ Adjust \/ ProcessContracts \/ StoreTxTip \/ Commit
  BY <1>6, LedgerNumber, LedgerAdjust, LedgerContracts, LedgerStored, LedgerCommit
<1>7. CASE \E t \in Relayed : Deliver(t)
  BY <1>7, LedgerDeliver
<1>8. CASE Validate \/ FinishTransaction
  BY <1>8, LedgerValidate, LedgerFinish
<1>9. CASE UNCHANGED vars
  BY <1>9, LedgerIdle
<1> QED
  BY <1>1, <1>2, <1>3, <1>4, <1>5, <1>6, <1>7, <1>8, <1>9 DEF Next

\* The invariant holds in every state, if peers are calm (CalmMempool), no block
\* comes during onSynced() (CalmStart), and no transaction that spends another of
\* its block has a rival for a coin (Unrivalled).
THEOREM LedgerInvariant ==
  ASSUME CalmMempool, CalmStart, Unrivalled
  PROVE  Spec => []LedgerInv
<1> USE DEF Calm
<1>1. Init => LedgerInv
  BY LedgerInit
<1>2. LedgerInv /\ [Next]_vars => LedgerInv'
  BY LedgerNext
<1> QED
  BY <1>1, <1>2, PTL DEF Spec

\* LedgerExact: in every state up to the committed tip the tables hold the
\* transactions of the chain, and its unspent outputs; between any two actions, of
\* which Replace and ProcessContracts are several statements each.  The first two
\* hypotheses keep peers and blocks apart where the code relies on it without
\* ensuring it.  Without the third it is false: the rival of a transaction that
\* has itself been replaced with its input is not found (transaction.js:641-646).
THEOREM LedgerTheorem ==
  ASSUME CalmMempool, CalmStart, Unrivalled
  PROVE  Spec => []LedgerExact
<1> USE DEF Calm
<1>1. LedgerInv => LedgerExact
  BY LedgerImplied DEF LedgerInv, WorkInv, ProcessInv
<1> QED
  BY <1>1, LedgerInvariant, PTL

-----------------------------------------------------------------------------
(* The links.                                                              *)

\* Only a start and the handler of the blocks move the heights apart.
LEMMA NotMoving ==
  ASSUME ProcessInv, job["block"].pc # "spend",
         phase \in {"run", "undo"} \/ (phase = "clean" /\ step \notin {1, 2})
  PROVE  \A i : ~Moving(i)
<1>1. phase = "clean" => step \in 1 .. 6
  BY DEF ProcessInv, CleanStatements
<1>2. phase = "clean" => ~(step <= 2)
  BY <1>1
<1> QED
  BY <1>2 DEF Moving

\* A step that leaves the outputs and the inputs alone.
LEMMA LinksStill ==
  ASSUME LedgerInv, LinksInv, db'.outs = db.outs, db'.ins = db.ins,
         \/ storedTip' = storedTip /\ phase' = "down"
         \/ phase \in {"run", "undo"} /\ job["block"].pc # "spend"
         \/ UNCHANGED <<storedTip, phase, step>> /\ job'["block"] = job["block"]
         \/ UNCHANGED <<storedTip, job>> /\ phase' = "clean" /\ step' = 1
         \/ phase = "clean" /\ step \notin {1, 2}
  PROVE  LinksInv'
<1>1. \A i : Moving(i) => Moving(i)'
  <2>1. CASE storedTip' = storedTip /\ phase' = "down"
    BY <2>1 DEF Moving, Committed, H
  <2>2. CASE phase \in {"run", "undo"} /\ job["block"].pc # "spend"
    BY <2>2, NotMoving DEF LedgerInv, WorkInv
  <2>3. CASE UNCHANGED <<storedTip, phase, step>> /\ job'["block"] = job["block"]
    BY <2>3 DEF Moving, Committed, H
  <2>4. CASE UNCHANGED <<storedTip, job>> /\ phase' = "clean" /\ step' = 1
    BY <2>4 DEF Moving, Committed, H
  <2>5. CASE phase = "clean" /\ step \notin {1, 2}
    <3>1. "block" \in Handler
      BY DEF Handler
    <3>2. job["block"].pc = "none"
      BY <2>5, <3>1 DEF LedgerInv, WorkInv, ProcessInv
    <3> QED
      BY <2>5, <3>2, NotMoving DEF LedgerInv, WorkInv
  <2> QED
    BY <2>1, <2>2, <2>3, <2>4, <2>5
<1>2. BackInv'
  BY <1>1 DEF LinksInv, BackInv, Spends
<1>3. AddressInv'
  BY DEF LinksInv, AddressInv, Spends
<1> QED
  BY <1>2, <1>3 DEF LinksInv

\* Rows that go, or keep their addresses and what they spend.
LEMMA AddressKept ==
  ASSUME AddressInv,
         \A j \in db'.ins : \E i \in db.ins : SameInput(i, j) /\ j.address = i.address,
         \A p \in db'.outs : \E o \in db.outs : p.id = o.id /\ p.at = o.at /\ p.address = o.address
  PROVE  AddressInv'
<1> SUFFICES ASSUME NEW j \in db'.ins, NEW p \in db'.outs, Spends(j, p)' PROVE j.address = p.address
  BY DEF AddressInv
<1>1. PICK i \in db.ins : SameInput(i, j) /\ j.address = i.address
  OBVIOUS
<1>2. PICK o \in db.outs : p.id = o.id /\ p.at = o.at /\ p.address = o.address
  OBVIOUS
<1>3. Spends(i, o)
  BY <1>1, <1>2 DEF Spends, SameInput
<1> QED
  BY <1>1, <1>2, <1>3 DEF AddressInv

\* The outputs after some are freed.
LEMMA FreedOuts ==
  ASSUME ShapeInv, NEW ins, db'.outs = Freed(db.outs, ins)
  PROVE  \A p \in db'.outs : \E o \in db.outs :
           /\ p.id = o.id /\ p.at = o.at /\ p.address = o.address
           /\ IF \E i \in ins : Spends(i, o) THEN p.by = 0 /\ p.byHeight = Null ELSE p = o
<1> DEFINE freed(o) == \E i \in ins : Spends(i, o)
           new(o) == IF freed(o) THEN [o EXCEPT !.by = 0, !.byAt = 0, !.byHeight = Null] ELSE o
<1>1. db'.outs = {new(o) : o \in db.outs}
  BY DEF Freed, Update
<1>2. \A o \in db.outs : /\ new(o).id = o.id /\ new(o).at = o.at /\ new(o).address = o.address
                         /\ IF freed(o) THEN new(o).by = 0 /\ new(o).byHeight = Null ELSE new(o) = o
  BY DEF ShapeInv
<1>3. \A o \in db.outs : freed(o) <=> \E i \in ins : Spends(i, o)
  OBVIOUS
<1> HIDE DEF new, freed
<1> SUFFICES ASSUME NEW o \in db.outs
             PROVE  /\ new(o).id = o.id /\ new(o).at = o.at /\ new(o).address = o.address
                    /\ IF \E i \in ins : Spends(i, o) THEN new(o).by = 0 /\ new(o).byHeight = Null
                       ELSE new(o) = o
  BY <1>1
<1> QED
  BY <1>2, <1>3

\* What frees outputs and leaves the inputs, when what moves is freed or still moves.
LEMMA LinksFreed ==
  ASSUME LedgerInv, LinksInv, NEW ins, db'.ins = db.ins, db'.outs = Freed(db.outs, ins),
         \A i \in db.ins : Moving(i) => i \in ins
  PROVE  LinksInv'
<1>1. \A p \in db'.outs : \E o \in db.outs :
        /\ p.id = o.id /\ p.at = o.at /\ p.address = o.address
        /\ IF \E i \in ins : Spends(i, o) THEN p.by = 0 /\ p.byHeight = Null ELSE p = o
  BY FreedOuts DEF LedgerInv, TableInv
<1>2. AddressInv'
  BY <1>1, AddressKept DEF LinksInv, SameInput
<1>3. ASSUME NEW p \in db'.outs
      PROVE  IF p.by = 0 THEN p.byHeight \in {Null, Unconfirmed}
             ELSE \E i \in db'.ins : i.id = p.by /\ i.at = p.byAt /\ Spends(i, p)'
                                     /\ (i.height = p.byHeight \/ Moving(i)')
  <2>1. PICK o \in db.outs :
          IF \E i \in ins : Spends(i, o) THEN p.by = 0 /\ p.byHeight = Null ELSE p = o
    BY <1>1
  <2>2. CASE \E i \in ins : Spends(i, o)
    BY <2>1, <2>2
  <2>3. CASE ~\E i \in ins : Spends(i, o)
    <3>1. p = o
      BY <2>1, <2>3
    <3>2. ASSUME p.by # 0
          PROVE  \E i \in db.ins : i.id = p.by /\ i.at = p.byAt /\ Spends(i, p) /\ i.height = p.byHeight
      BY <2>3, <3>1, <3>2 DEF LinksInv, BackInv
    <3>3. p.by = 0 => p.byHeight \in {Null, Unconfirmed}
      BY <3>1 DEF LinksInv, BackInv
    <3> QED
      BY <3>2, <3>3 DEF Spends
  <2> QED
    BY <2>2, <2>3
<1>4. BackInv'
  BY <1>3 DEF BackInv
<1> QED
  BY <1>2, <1>4 DEF LinksInv

\* The statements of start().
LEMMA LinksClean ==
  ASSUME LedgerInv, LinksInv, Clean
  PROVE  LinksInv'
<1> USE DEF LedgerInv, WorkInv
<1>1. /\ phase = "clean" /\ phase' = "clean" /\ step \in 1 .. 5 /\ step' = step + 1
      /\ storedTip' = storedTip /\ db' = Cleaned(step, db, H) /\ storedTip \in Block
      /\ job' = job /\ job["block"].pc = "none"
  <2>1. phase = "clean" /\ job' = job
    BY DEF Clean
  <2>2. "block" \in Handler
    BY DEF Handler
  <2> QED
    BY <2>1, <2>2, CleanProcess DEF ProcessInv
<1>2. /\ \A i \in db.ins : i.height > H <=> ~Committed(i)
      /\ \A i \in db.ins : i.height \in Nat
      /\ Null \notin Nat
  BY <1>1, Heights DEF Committed, TableInv
<1>3. DOMAIN db = {"tx", "outs", "ins", "balances", "witness", "receipts", "logs", "spends",
                   "refunds", "addresses", "next"}
  BY DEF TableInv, ShapeInv
<1>4. CASE step = 1
  <2>1. db'.outs = {o \in db.outs : o.height <= H} /\ db'.ins = db.ins
    BY <1>1, <1>3, <1>4 DEF Cleaned
  <2>2. \A i : Moving(i) => Moving(i)'
    BY <1>1, <1>4 DEF Moving, Committed, H
  <2>3. BackInv'
    BY <2>1, <2>2 DEF LinksInv, BackInv, Spends
  <2>4. AddressInv'
    BY <2>1 DEF LinksInv, AddressInv, Spends
  <2> QED
    BY <2>3, <2>4 DEF LinksInv
<1>5. CASE step = 2
  <2> DEFINE ins == {i \in db.ins : i.height > H}
  <2>1. db'.outs = Freed(db.outs, ins) /\ db'.ins = db.ins
    BY <1>1, <1>3, <1>5 DEF Cleaned
  <2>2. \A i \in db.ins : Moving(i) => i \in ins
    BY <1>2 DEF Moving
  <2> HIDE DEF ins
  <2> QED
    BY <2>1, <2>2, LinksFreed
<1>6. CASE step \in {3, 4, 5}
  <2>1. \A i : ~Moving(i)
    BY <1>1, <1>6, NotMoving
  <2>2. CASE step = 3
    <3>1. db'.outs = db.outs /\ db'.ins = {i \in db.ins : i.height <= H}
      BY <1>1, <1>3, <2>2 DEF Cleaned
    <3>2. \A i \in db.ins, o \in db.outs : Spends(i, o) /\ ~Committed(i) => o.byHeight = Null
      BY <1>1, <2>2 DEF CleanInv
    <3>3. ASSUME NEW o \in db.outs, o.by # 0
          PROVE  \E i \in db'.ins : i.id = o.by /\ i.at = o.byAt /\ Spends(i, o) /\ i.height = o.byHeight
      <4>1. PICK i \in db.ins : i.id = o.by /\ i.at = o.byAt /\ Spends(i, o) /\ i.height = o.byHeight
        BY <2>1, <3>3 DEF LinksInv, BackInv
      <4>2. Committed(i)
        BY <1>2, <3>2, <4>1
      <4>3. i \in db'.ins
        BY <3>1, <4>2 DEF Committed
      <4> QED
        BY <4>1, <4>3
    <3>4. BackInv'
      BY <3>1, <3>3 DEF LinksInv, BackInv, Spends
    <3>5. AddressInv'
      BY <3>1 DEF LinksInv, AddressInv, Spends
    <3> QED
      BY <3>4, <3>5 DEF LinksInv
  <2>3. CASE step \in {4, 5}
    <3>1. db'.outs = db.outs /\ db'.ins = db.ins
      <4>1. CASE step = 4
        <5> DEFINE dead == {r \in db.tx : r.height > H}
                   txs == db.tx \ dead
                   witness == db.witness \ {r.tx : r \in dead}
                   receipts == {r \in db.receipts : r.id \notin Ids(dead)}
                   logs == {l \in db.logs : l.receipt \notin Ids(dead)}
                   balances == {b \in db.balances : b.id \notin Ids(dead)}
        <5>1. db' = [db EXCEPT !.tx = txs, !.witness = witness, !.receipts = receipts,
                               !.logs = logs, !.balances = balances]
          BY <1>1, <4>1 DEF Cleaned
        <5> HIDE DEF txs, witness, receipts, logs, balances
        <5> QED
          BY <1>3, <5>1
      <4>2. CASE step = 5
        BY <1>1, <1>3, <4>2 DEF Cleaned
      <4> QED
        BY <2>3, <4>1, <4>2
    <3>2. BackInv'
      BY <2>1, <3>1 DEF LinksInv, BackInv, Spends
    <3>3. AddressInv'
      BY <3>1 DEF LinksInv, AddressInv, Spends
    <3> QED
      BY <3>2, <3>3 DEF LinksInv
  <2> QED
    BY <1>6, <2>2, <2>3
<1> QED
  BY <1>1, <1>4, <1>5, <1>6

\* The statements of onReorg() preserve the links.
LEMMA LinksUndo ==
  ASSUME LedgerInv, LinksInv, Undo
  PROVE  LinksInv'
<1> USE DEF LedgerInv, WorkInv, TableInv
<1>1. /\ phase = "undo" /\ step \in 1 .. 10 /\ db' = Undone(step, db, H)
      /\ storedTip \in Block /\ job["block"].pc = "none"
  BY UndoProcess
<1>2. /\ \A i \in db.ins : i.height > H <=> ~Committed(i)
      /\ \A i \in db.ins : i.height \in Nat
      /\ Null \notin Nat
  BY <1>1, Heights DEF Committed
<1>3. DOMAIN db = {"tx", "outs", "ins", "balances", "witness", "receipts", "logs", "spends",
                   "refunds", "addresses", "next"}
  BY DEF ShapeInv
<1>4. \A i : ~Moving(i)
  BY <1>1, NotMoving
<1>5. \A o \in db.outs :
        IF o.by = 0 THEN o.byHeight \in {Null, Unconfirmed}
        ELSE \E i \in db.ins : i.id = o.by /\ i.at = o.byAt /\ Spends(i, o) /\ i.height = o.byHeight
  BY <1>4 DEF LinksInv, BackInv
<1>6. CASE step = 1
  <2> DEFINE ins == {i \in db.ins : i.id \in Ids(Stakes)}
  <2>1. db'.ins = db.ins /\ db'.outs = Freed(db.outs, ins)
    BY <1>1, <1>3, <1>6 DEF Undone, Stakes, Above
  <2>2. \A i \in db.ins : Moving(i) => i \in ins
    BY <1>4
  <2> HIDE DEF ins
  <2> QED
    BY <2>1, <2>2, LinksFreed
<1>7. CASE step = 3
  <2> DEFINE gone == Stakes \cup Coinbases
             outs == {o \in db.outs : o.id \notin Ids(gone)}
             ins == {i \in db.ins : i.id \notin Ids(gone)}
  <2>1. db'.outs = outs /\ db'.ins = ins
    <3> DEFINE txs == db.tx \ gone
               wit == db.witness \ {r.tx : r \in gone}
               bal == {b \in db.balances : b.id \notin Ids(gone)}
    <3>1. db' = [db EXCEPT !.tx = txs, !.witness = wit, !.outs = outs, !.ins = ins, !.balances = bal]
      BY <1>1, <1>7 DEF Undone, Stakes, Coinbases, Above
    <3> HIDE DEF outs, ins, txs, wit, bal
    <3> QED
      BY <1>3, <3>1
  <2>2. \A r \in gone : r \in db.tx /\ ~Committed(r) /\ r.tx \in AllGenerated
    BY <1>1, UndoGenerated
  <2>3. \A i \in db.ins, o \in db.outs, r \in db.tx :
          Spends(i, o) /\ r.id = i.id /\ ~Committed(r) /\ r.tx \in AllGenerated => o.byHeight = Null
    BY <1>1, <1>7 DEF UndoInv
  <2> HIDE DEF gone
  <2>4. ASSUME NEW o \in db.outs, o.by # 0
        PROVE  \E i \in db'.ins : i.id = o.by /\ i.at = o.byAt /\ Spends(i, o) /\ i.height = o.byHeight
    <3>1. PICK i \in db.ins : i.id = o.by /\ i.at = o.byAt /\ Spends(i, o) /\ i.height = o.byHeight
      BY <1>5, <2>4
    <3>2. o.byHeight # Null
      BY <1>2, <3>1
    <3>3. \A r \in gone : r.id # i.id
      BY <2>2, <2>3, <3>1, <3>2
    <3>4. i \in db'.ins
      BY <2>1, <3>3 DEF Ids
    <3> QED
      BY <3>1, <3>4
  <2>5. db'.outs \subseteq db.outs /\ db'.ins \subseteq db.ins
    BY <2>1
  <2>6. BackInv'
    BY <1>5, <2>4, <2>5 DEF BackInv, Spends
  <2>7. AddressInv'
    BY <2>5 DEF LinksInv, AddressInv, Spends
  <2> QED
    BY <2>6, <2>7 DEF LinksInv
<1>8. CASE step = 4
  <2> DEFINE rows == Update(db.tx, LAMBDA r : r \in Above,
                            LAMBDA r : [r EXCEPT !.height = Unconfirmed, !.index = Unconfirmed])
  <2>1. db' = [db EXCEPT !.tx = rows]
    BY <1>1, <1>8 DEF Undone, Above
  <2> HIDE DEF rows
  <2>2. db'.outs = db.outs /\ db'.ins = db.ins
    BY <1>3, <2>1
  <2> QED
    BY <1>1, <2>2, LinksStill
<1>9. CASE step = 5
  <2> DEFINE new(o) == IF o.height > H THEN [o EXCEPT !.height = Unconfirmed] ELSE o
             outs == RaisedAbove(db.outs, H)
  <2>1. outs = {new(o) : o \in db.outs}
    BY Zenon DEF RaisedAbove, Update
  <2>2. db' = [db EXCEPT !.outs = outs]
    BY <1>1, <1>9 DEF Undone
  <2>3. \A o \in db.outs :
          /\ new(o).id = o.id /\ new(o).at = o.at /\ new(o).address = o.address
          /\ new(o).by = o.by /\ new(o).byAt = o.byAt /\ new(o).byHeight = o.byHeight
    BY DEF ShapeInv
  <2> HIDE DEF outs, new
  <2>4. db'.outs = {new(o) : o \in db.outs} /\ db'.ins = db.ins
    BY <1>3, <2>1, <2>2
  <2>5. \A p \in db'.outs : \E o \in db.outs :
          /\ p.id = o.id /\ p.at = o.at /\ p.address = o.address
          /\ p.by = o.by /\ p.byAt = o.byAt /\ p.byHeight = o.byHeight
    BY <2>3, <2>4
  <2>6. AddressInv'
    BY <2>4, <2>5, AddressKept DEF LinksInv, SameInput
  <2>7. BackInv'
    BY <1>5, <2>4, <2>5 DEF BackInv, Spends
  <2> QED
    BY <2>6, <2>7 DEF LinksInv
<1>10. CASE step = 8
  <2> DEFINE linked == {i \in db.ins : i.height > H /\ \E o \in db.outs : Spends(i, o)}
             spent(o) == \E i \in linked : Spends(i, o)
             new(o) == IF spent(o) THEN [o EXCEPT !.byHeight = Unconfirmed] ELSE o
             put(i) == IF i \in linked THEN [i EXCEPT !.height = Unconfirmed] ELSE i
  <2>1. /\ db'.outs = {new(o) : o \in db.outs}
        /\ db'.ins = {put(i) : i \in db.ins}
    <3> DEFINE outs == Update(db.outs, LAMBDA o : \E i \in linked : Spends(i, o),
                              LAMBDA o : [o EXCEPT !.byHeight = Unconfirmed])
               ins == Update(db.ins, LAMBDA i : i \in linked,
                             LAMBDA i : [i EXCEPT !.height = Unconfirmed])
    <3>1. outs = {new(o) : o \in db.outs}
      BY Zenon DEF Update
    <3>2. ins = {put(i) : i \in db.ins}
      BY Zenon DEF Update
    <3>3. db' = [db EXCEPT !.outs = outs, !.ins = ins]
      BY <1>1, <1>10 DEF Undone
    <3> HIDE DEF outs, ins, new, put
    <3> QED
      BY <1>3, <3>1, <3>2, <3>3
  <2>2. \A o \in db.outs :
          /\ new(o).id = o.id /\ new(o).at = o.at /\ new(o).address = o.address
          /\ new(o).by = o.by /\ new(o).byAt = o.byAt
          /\ IF spent(o) THEN new(o).byHeight = Unconfirmed ELSE new(o).byHeight = o.byHeight
    BY DEF ShapeInv
  <2>3. \A i \in db.ins :
          /\ SameInput(i, put(i)) /\ put(i).address = i.address
          /\ IF i \in linked THEN put(i).height = Unconfirmed ELSE put(i).height = i.height
    BY DEF ShapeInv, SameInput
  <2>4. /\ linked \subseteq db.ins
        /\ \A i \in linked : ~Committed(i)
        /\ \A i \in db.ins, o \in db.outs : ~Committed(i) /\ Spends(i, o) => i \in linked
        /\ \A o : spent(o) <=> \E i \in linked : Spends(i, o)
    BY <1>2
  <2> HIDE DEF new, put, linked, spent
  <2>5. \A p \in db'.outs : \E o \in db.outs : p = new(o)
    BY <2>1
  <2>6. AddressInv'
    <3>1. \A p \in db'.outs : \E o \in db.outs : p.id = o.id /\ p.at = o.at /\ p.address = o.address
      BY <2>2, <2>5
    <3>2. \A j \in db'.ins : \E i \in db.ins : SameInput(i, j) /\ j.address = i.address
      BY <2>1, <2>3
    <3> QED
      BY <3>1, <3>2, AddressKept DEF LinksInv
  <2>7. ASSUME NEW o \in db.outs, o.by # 0
        PROVE  \E j \in db'.ins : /\ j.id = o.by /\ j.at = o.byAt /\ Spends(j, o)
                                  /\ j.height = IF spent(o) THEN Unconfirmed ELSE o.byHeight
    <3>1. PICK i \in db.ins : i.id = o.by /\ i.at = o.byAt /\ Spends(i, o) /\ i.height = o.byHeight
      BY <1>5, <2>7
    <3>2. \A l \in db.ins : Spends(l, o) => (Committed(i) <=> Committed(l))
      BY <1>1, <3>1, OneSpender
    <3>3. spent(o) <=> i \in linked
      BY <2>4, <3>1, <3>2
    <3>4. put(i) \in db'.ins /\ SameInput(i, put(i))
      BY <2>1, <2>3
    <3>5. put(i).height = IF spent(o) THEN Unconfirmed ELSE o.byHeight
      BY <2>3, <3>1, <3>3
    <3>6. put(i).id = o.by /\ put(i).at = o.byAt /\ Spends(put(i), o)
      BY <3>1, <3>4 DEF SameInput, Spends
    <3> QED
      BY <3>4, <3>5, <3>6
  <2>8. ASSUME NEW p \in db'.outs
        PROVE  IF p.by = 0 THEN p.byHeight \in {Null, Unconfirmed}
               ELSE \E j \in db'.ins : j.id = p.by /\ j.at = p.byAt /\ Spends(j, p) /\ j.height = p.byHeight
    <3>1. PICK o \in db.outs : p = new(o)
      BY <2>5
    <3>2. /\ p.id = o.id /\ p.at = o.at /\ p.by = o.by /\ p.byAt = o.byAt
          /\ p.byHeight = IF spent(o) THEN Unconfirmed ELSE o.byHeight
      BY <2>2, <3>1
    <3>3. CASE o.by = 0
      BY <1>5, <3>2, <3>3
    <3>4. CASE o.by # 0
      <4>1. PICK j \in db'.ins : /\ j.id = o.by /\ j.at = o.byAt /\ Spends(j, o)
                                 /\ j.height = IF spent(o) THEN Unconfirmed ELSE o.byHeight
        BY <2>7, <3>4
      <4>2. j.id = p.by /\ j.at = p.byAt /\ Spends(j, p) /\ j.height = p.byHeight
        BY <3>2, <4>1 DEF Spends
      <4> QED
        BY <3>2, <3>4, <4>2
    <3> QED
      BY <3>3, <3>4
  <2>9. BackInv'
    BY <2>8 DEF BackInv, Spends
  <2> QED
    BY <2>6, <2>9 DEF LinksInv
<1>11. CASE step \notin {1, 3, 4, 5, 8}
  BY <1>1, <1>11, UndoOther, LinksStill
<1> QED
  BY <1>6, <1>7, <1>8, <1>9, <1>10, <1>11

\* The inputs found are at the height of the block, what they spend not yet.
LEMMA LinksAdopt ==
  ASSUME LedgerInv, LinksInv, Adopt
  PROVE  LinksInv'
<1> USE DEF LedgerInv, WorkInv
<1> DEFINE j == job["block"]
           h == Depth[block]
           outs == Update(db.outs, LAMBDA o : o.id \in j.found, LAMBDA o : [o EXCEPT !.height = h])
           ins == Update(db.ins, LAMBDA i : i.id \in j.found, LAMBDA i : [i EXCEPT !.height = h])
           d == [db EXCEPT !.outs = outs, !.ins = ins]
           move(o) == IF o.id \in j.found THEN [o EXCEPT !.height = h] ELSE o
<1>0. "block" \in Handler /\ "adopt" # "none"
  BY DEF Handler
<1>1. Statement("block", "adopt", "spend", Adopted(db, j.found, h))
  BY DEF Adopt
<1>2. Adopted(db, j.found, h) = d
  BY Zenon DEF Adopted
<1>3. outs = {move(o) : o \in db.outs} /\ ins = {move(i) : i \in db.ins}
  BY Zenon DEF Update
<1>4. \A o \in db.outs :
        /\ move(o).id = o.id /\ move(o).at = o.at /\ move(o).address = o.address
        /\ move(o).by = o.by /\ move(o).byAt = o.byAt /\ move(o).byHeight = o.byHeight
  BY DEF TableInv, ShapeInv
<1>5. \A i \in db.ins :
        /\ SameInput(i, move(i)) /\ move(i).address = i.address
        /\ IF i.id \in j.found THEN move(i).height = h ELSE move(i) = i
  BY DEF TableInv, ShapeInv, SameInput
<1> HIDE DEF outs, ins, move
<1>6. /\ Handles("block") /\ j.pc = "adopt" /\ job'["block"].pc = "spend"
      /\ db' = Adopted(db, j.found, h) /\ job'["block"].found = j.found
  BY <1>0, <1>1, StatementHandles
<1>7. /\ phase = "run" /\ block # NoBlock /\ storedTip \in Block /\ h = H + 1 /\ H \in Nat
      /\ storedTip' = storedTip
  <2>1. phase \in {"run", "undo"} /\ j.pc # "none"
    BY <1>6 DEF Handles
  <2> QED
    BY <1>6, <2>1, BlockFacts DEF Handles
<1>8. db'.outs = outs /\ db'.ins = ins
  BY <1>2, <1>6 DEF TableInv, ShapeInv
<1> HIDE DEF d, h
<1>9. \A p \in db'.outs : \E o \in db.outs :
        /\ p.id = o.id /\ p.at = o.at /\ p.address = o.address
        /\ p.by = o.by /\ p.byAt = o.byAt /\ p.byHeight = o.byHeight
  BY <1>3, <1>4, <1>8
<1>10. AddressInv'
  BY <1>3, <1>5, <1>8, <1>9, AddressKept DEF LinksInv
<1>11. \A i : ~Moving(i)
  <2>1. j.pc # "spend"
    BY <1>6
  <2> QED
    BY <1>7, <2>1, NotMoving
<1>12. ASSUME NEW i \in db.ins
       PROVE  \E l \in db'.ins : SameInput(i, l) /\ (l.height = i.height \/ Moving(l)')
  <2>1. PICK l \in db'.ins :
          SameInput(i, l) /\ IF i.id \in j.found THEN l.height = h ELSE l = i
    BY <1>3, <1>5, <1>8
  <2>2. CASE i.id \in j.found
    <3>1. l.height = H + 1 /\ l.id \in job'["block"].found
      BY <1>6, <1>7, <2>1, <2>2 DEF SameInput
    <3>2. ~Committed(l)'
      BY <1>7, <3>1 DEF Committed, H
    <3>3. Moving(l)'
      BY <1>6, <3>1, <3>2 DEF Moving
    <3> QED
      BY <2>1, <3>3
  <2>3. CASE i.id \notin j.found
    BY <2>1, <2>3
  <2> QED
    BY <2>2, <2>3
<1> HIDE DEF j
<1>13. ASSUME NEW p \in db'.outs
       PROVE  IF p.by = 0 THEN p.byHeight \in {Null, Unconfirmed}
              ELSE \E l \in db'.ins : l.id = p.by /\ l.at = p.byAt /\ Spends(l, p)'
                                      /\ (l.height = p.byHeight \/ Moving(l)')
  <2>1. PICK o \in db.outs :
          /\ p.id = o.id /\ p.at = o.at
          /\ p.by = o.by /\ p.byAt = o.byAt /\ p.byHeight = o.byHeight
    BY <1>9
  <2>2. CASE o.by = 0
    BY <2>1, <2>2 DEF LinksInv, BackInv
  <2>3. CASE o.by # 0
    <3>1. PICK i \in db.ins : i.id = o.by /\ i.at = o.byAt /\ Spends(i, o) /\ i.height = o.byHeight
      BY <1>11, <2>3 DEF LinksInv, BackInv
    <3>2. PICK l \in db'.ins : SameInput(i, l) /\ (l.height = i.height \/ Moving(l)')
      BY <1>12
    <3>3. l.id = p.by /\ l.at = p.byAt /\ Spends(l, p)'
      BY <2>1, <3>1, <3>2 DEF SameInput, Spends
    <3> QED
      BY <2>1, <2>3, <3>1, <3>2, <3>3
  <2> QED
    BY <2>2, <2>3
<1>14. BackInv'
  BY <1>13 DEF BackInv
<1> QED
  BY <1>10, <1>14 DEF LinksInv

\* What they spend is spent at that height.
LEMMA LinksSpend ==
  ASSUME LedgerInv, LinksInv, Spend
  PROVE  LinksInv'
<1> USE DEF LedgerInv, WorkInv
<1> DEFINE j == job["block"]
           h == Depth[block]
           Where(o) == \E i \in db.ins : i.id \in j.found /\ Spends(i, o)
           outs == Update(db.outs, LAMBDA o : \E i \in db.ins : i.id \in j.found /\ Spends(i, o),
                          LAMBDA o : [o EXCEPT !.byHeight = h])
           d == [db EXCEPT !.outs = outs]
           put(o) == IF Where(o) THEN [o EXCEPT !.byHeight = h] ELSE o
<1>0. "block" \in Handler /\ "spend" # "none"
  BY DEF Handler
<1>1. Statement("block", "spend", "lower", Spent(db, j.found, h))
  BY DEF Spend
<1>2. Spent(db, j.found, h) = d
  BY Zenon DEF Spent
<1>3. outs = {put(o) : o \in db.outs}
  BY Zenon DEF Update
<1>4. \A o \in db.outs :
        /\ put(o).id = o.id /\ put(o).at = o.at /\ put(o).address = o.address
        /\ put(o).by = o.by /\ put(o).byAt = o.byAt
        /\ IF Where(o) THEN put(o).byHeight = h ELSE put(o) = o
  BY DEF TableInv, ShapeInv
<1> HIDE DEF outs, put, Where
<1>5. /\ Handles("block") /\ j.pc = "spend" /\ job'["block"].pc = "lower"
      /\ db' = Spent(db, j.found, h)
  BY <1>0, <1>1, StatementHandles
<1>6. phase = "run" /\ block # NoBlock /\ storedTip \in Block /\ h = H + 1 /\ H \in Nat
  <2>1. phase \in {"run", "undo"} /\ j.pc # "none"
    BY <1>5 DEF Handles
  <2> QED
    BY <1>5, <2>1, BlockFacts DEF Handles
<1>7. db'.outs = outs /\ db'.ins = db.ins
  BY <1>2, <1>5 DEF TableInv, ShapeInv
<1> HIDE DEF d, h
<1>8. \A i \in db.ins : i.id \in j.found => i.height = H + 1
  BY <1>5, <1>6, FoundRows
<1>9. \A i : Moving(i) => i.id \in j.found
  BY <1>6 DEF Moving
<1>10. \A x \in j.found : x # 0 /\ \E r \in db.tx : r.id = x /\ Complete(r)
  <2>1. j.pc # "find"
    BY <1>5
  <2>2. \A x \in j.found : \E r \in db.tx : r.id = x /\ Complete(r)
    BY <1>6, <2>1 DEF BlockInv, BlockFound
  <2> QED
    BY <1>6, <2>2, Heights DEF TableInv
<1>11. AddressInv'
  <2>1. \A p \in db'.outs : \E o \in db.outs : p.id = o.id /\ p.at = o.at /\ p.address = o.address
    BY <1>3, <1>4, <1>7
  <2> QED
    BY <1>7, <2>1, AddressKept DEF LinksInv, SameInput
\* an output is linked by the input of a row that is found
<1>12. ASSUME NEW o \in db.outs, Where(o) PROVE o.by \in j.found
  <2>1. PICK i \in db.ins : i.id \in j.found /\ Spends(i, o)
    BY <1>12 DEF Where
  <2>2. PICK r \in db.tx : r.id = i.id /\ Complete(r)
    BY <1>10, <2>1
  <2>3. PICK q, s \in db.tx :
          /\ With(i, q) /\ i.at \in DOMAIN Inputs[q.tx] /\ With(o, s)
          /\ Inputs[q.tx][i.at] = [tx |-> s.tx, at |-> o.at] /\ [tx |-> s.tx, at |-> o.at] \in Coins(q.tx)
    BY <1>6, <2>1, LinkRows DEF TableInv
  <2>4. q = r
    BY <2>2, <2>3 DEF With, TableInv, KeyInv
  <2>5. PICK l \in db.ins, u \in db.outs, v \in db.tx :
          /\ l.id = r.id /\ Spends(l, u) /\ u.by = r.id
          /\ With(u, v) /\ v.tx = s.tx /\ u.at = o.at
    <3> DEFINE c == [tx |-> s.tx, at |-> o.at]
    <3>1. c \in Coins(r.tx) /\ c.tx = s.tx /\ c.at = o.at
      BY <2>3, <2>4
    <3> HIDE DEF c
    <3> QED
      BY <1>6, <2>2, <3>1, CompleteLink DEF TableInv
  <2>6. v = s
    BY <2>5 DEF TableInv, KeyInv
  <2>7. u = o
    BY <2>3, <2>5, <2>6 DEF With, TableInv, KeyInv
  <2> QED
    BY <2>1, <2>2, <2>5, <2>7
<1> HIDE DEF j
<1>13. ASSUME NEW p \in db'.outs
       PROVE  IF p.by = 0 THEN p.byHeight \in {Null, Unconfirmed}
              ELSE \E i \in db'.ins : i.id = p.by /\ i.at = p.byAt /\ Spends(i, p)' /\ i.height = p.byHeight
  <2>1. PICK o \in db.outs : p = put(o)
    BY <1>3, <1>7
  <2>2. /\ p.id = o.id /\ p.at = o.at /\ p.by = o.by /\ p.byAt = o.byAt
        /\ IF Where(o) THEN p.byHeight = h ELSE p = o
    BY <1>4, <2>1
  <2>3. CASE o.by = 0
    <3>1. ~Where(o)
      BY <1>10, <1>12, <2>3
    <3> QED
      BY <2>2, <2>3, <3>1 DEF LinksInv, BackInv
  <2>4. CASE o.by # 0
    <3>1. PICK i \in db.ins : i.id = o.by /\ i.at = o.byAt /\ Spends(i, o)
                              /\ (i.height = o.byHeight \/ Moving(i))
      BY <2>4 DEF LinksInv, BackInv
    <3>2. i.id = p.by /\ i.at = p.byAt /\ Spends(i, p)'
      BY <2>2, <3>1 DEF Spends
    <3>3. i.height = p.byHeight
      <4>1. CASE Where(o)
        BY <1>6, <1>8, <1>12, <2>2, <3>1, <4>1
      <4>2. CASE ~Where(o)
        <5>1. i.id \notin j.found
          BY <3>1, <4>2 DEF Where
        <5> QED
          BY <1>9, <2>2, <3>1, <4>2, <5>1
      <4> QED
        BY <4>1, <4>2
    <3> QED
      BY <1>7, <2>2, <2>4, <3>2, <3>3
  <2> QED
    BY <2>3, <2>4
<1>14. BackInv'
  BY <1>13 DEF BackInv
<1> QED
  BY <1>11, <1>14 DEF LinksInv

\* What is left of the outputs and the inputs: what an input that is removed had
\* spent is spent by nothing, and keeps its height.
LEMMA RemovedLinks ==
  ASSUME TableInv, LinksInv, storedTip \in Block,
         NEW roots, NEW D, D = Descendants(db, roots), db' = Removed(db, roots),
         \A i \in db.ins : i.id \in D => i.height = Unconfirmed /\ ~Moving(i),
         \A i \in db.ins : Moving(i) => Moving(i)'
  PROVE  LinksInv'
<1> USE DEF TableInv
<1> DEFINE gone == {i \in db.ins : i.id \in D}
           freed(o) == \E i \in gone : Spends(i, o)
           left == {o \in db.outs : o.id \notin D}
           new(o) == IF freed(o) THEN [o EXCEPT !.by = 0, !.byAt = 0] ELSE o
<1>1. db'.outs = {new(o) : o \in left} /\ db'.ins = {i \in db.ins : i.id \notin D}
  <2>1. db'.outs = {new(o) : o \in left} /\ db'.ins = db.ins \ gone
    BY DEF Removed, Update, ShapeInv
  <2> QED
    BY <2>1
<1>2. \A o \in left : /\ o \in db.outs
                      /\ new(o).id = o.id /\ new(o).at = o.at /\ new(o).address = o.address
                      /\ IF freed(o) THEN new(o).by = 0 /\ new(o).byHeight = o.byHeight
                         ELSE new(o) = o
  BY DEF ShapeInv
<1>3. \A o : freed(o) <=> \E i \in db.ins : i.id \in D /\ Spends(i, o)
  OBVIOUS
<1> HIDE DEF gone, freed, left, new
<1>4. AddressInv'
  <2>1. \A p \in db'.outs : \E o \in db.outs : p.id = o.id /\ p.at = o.at /\ p.address = o.address
    BY <1>1, <1>2
  <2> QED
    BY <1>1, <2>1, AddressKept DEF LinksInv, SameInput
<1>5. ASSUME NEW p \in db'.outs
      PROVE  IF p.by = 0 THEN p.byHeight \in {Null, Unconfirmed}
             ELSE \E i \in db'.ins : i.id = p.by /\ i.at = p.byAt /\ Spends(i, p)'
                                     /\ (i.height = p.byHeight \/ Moving(i)')
  <2>1. PICK o \in left : p = new(o)
    BY <1>1
  <2>2. o \in db.outs
    BY <1>2
  <2>3. CASE freed(o)
    <3>1. p.by = 0 /\ p.byHeight = o.byHeight
      BY <1>2, <2>1, <2>3
    <3>2. CASE o.by = 0
      BY <2>2, <3>1, <3>2 DEF LinksInv, BackInv
    <3>3. CASE o.by # 0
      <4>1. PICK i \in db.ins : Spends(i, o) /\ (i.height = o.byHeight \/ Moving(i))
        BY <2>2, <3>3 DEF LinksInv, BackInv
      <4>2. PICK l \in db.ins : l.id \in D /\ Spends(l, o)
        BY <1>3, <2>3
      <4>3. i.id = l.id
        BY <2>2, <4>1, <4>2, OneSpender
      <4>4. o.byHeight = Unconfirmed
        BY <4>1, <4>2, <4>3
      <4> QED
        BY <3>1, <4>4
    <3> QED
      BY <3>2, <3>3
  <2>4. CASE ~freed(o)
    <3>1. p = o
      BY <1>2, <2>1, <2>4
    <3>2. CASE p.by # 0
      <4>1. PICK i \in db.ins : i.id = p.by /\ i.at = p.byAt /\ Spends(i, p)
                                /\ (i.height = p.byHeight \/ Moving(i))
        BY <2>2, <3>1, <3>2 DEF LinksInv, BackInv
      <4>2. i \in db'.ins
        BY <1>1, <1>3, <2>4, <3>1, <4>1
      <4>3. Spends(i, p)'
        BY <4>1 DEF Spends
      <4> QED
        BY <3>2, <4>1, <4>2, <4>3
    <3>3. CASE p.by = 0
      BY <2>2, <3>1, <3>3 DEF LinksInv, BackInv
    <3> QED
      BY <3>2, <3>3
  <2> QED
    BY <2>3, <2>4
<1>6. BackInv'
  BY <1>5 DEF BackInv
<1> QED
  BY <1>4, <1>6 DEF LinksInv

\* An input that is moving is of a transaction of the block.
LEMMA MovingAround ==
  ASSUME LedgerInv, phase \in {"run", "undo"}, NEW i \in db.ins, Moving(i),
         NEW r \in db.tx, r.id = i.id
  PROVE  r.tx \in AroundTx
<1> USE DEF LedgerInv, WorkInv
<1>1. job["block"].pc = "spend" /\ i.id \in job["block"].found
  BY DEF Moving
<1>2. job["block"].pc # "none" /\ job["block"].pc # "find"
  BY <1>1
<1>3. phase = "run" /\ block # NoBlock /\ AroundTx = ChainTx \cup BlockTx
  BY <1>2, BlockFacts
<1>4. PICK q \in db.tx : q.id = i.id /\ q.tx \in BlockTx
  BY <1>1, <1>2, <1>3 DEF BlockInv, BlockFound
<1>5. q = r
  BY <1>4 DEF TableInv, KeyInv
<1> QED
  BY <1>3, <1>4, <1>5

\* The removal of what t replaces.
LEMMA ReplacedLinks ==
  ASSUME LedgerInv, LinksInv, phase \in {"run", "undo"}, storedTip \in Block,
         NEW t \in Tx, db' = Replaced(db, t), NEW Keep, Spares(t, Keep), AroundTx \subseteq Keep,
         \A i \in db.ins : Moving(i) => Moving(i)'
  PROVE  LinksInv'
<1> DEFINE roots == {o.by : o \in Sources(db, t)} \ {0}
           D == Replaceable(t)
<1>1. db' = db \/ db' = Removed(db, roots)
  BY DEF Replaced
<1>2. D = Descendants(db, roots)
  BY DEF Replaceable
<1> HIDE DEF roots
<1>3. CASE db' = db
  <2>1. BackInv'
    BY <1>3 DEF LinksInv, BackInv, Spends
  <2>2. AddressInv'
    BY <1>3 DEF LinksInv, AddressInv, Spends
  <2> QED
    BY <2>1, <2>2 DEF LinksInv
<1>4. CASE db' = Removed(db, roots)
  <2>1. /\ \A r \in db.tx : r.tx \in Keep => r.id \notin D
        /\ \A i \in db.ins : i.id \in D => i.height = Unconfirmed
    BY ReplacedSpare DEF LedgerInv
  <2>2. ASSUME NEW i \in db.ins, i.id \in D PROVE i.height = Unconfirmed /\ ~Moving(i)
    <3>1. PICK r \in db.tx : r.id = i.id
      BY DEF LedgerInv, TableInv, OwnInv, With
    <3> QED
      BY <2>1, <2>2, <3>1, MovingAround
  <2> HIDE DEF D
  <2> QED
    BY <1>2, <1>4, <2>2, RemovedLinks DEF LedgerInv
<1> QED
  BY <1>1, <1>3, <1>4

\* removeReplacedTransactions.
LEMMA LinksReplace ==
  ASSUME LedgerInv, LinksInv, NEW w \in Handler, Replace(w)
  PROVE  LinksInv'
<1> USE DEF LedgerInv, WorkInv
<1>1. /\ phase \in {"run", "undo"} /\ job[w].pc = "replace"
      /\ job' = [job EXCEPT ![w].todo = Tail(@)]
      /\ UNCHANGED <<storedTip, phase, step>> /\ storedTip \in Block
  BY DEF Replace, Writing, tips, process, ProcessInv
<1>2. \A i \in db.ins : Moving(i) => Moving(i)'
  <2>1. CASE job["block"].pc # "spend"
    BY <1>1, <2>1, NotMoving
  <2>2. CASE job["block"].pc = "spend"
    <3>1. w # "block" /\ "block" \in Handler /\ DOMAIN job = Handler
      BY <1>1, <2>2 DEF Handler, ProcessInv
    <3>2. job'["block"] = job["block"]
      BY <1>1, <3>1
    <3> QED
      BY <1>1, <3>2 DEF Moving, Committed, H
  <2> QED
    BY <2>1, <2>2
<1>3. CASE w = "mempool"
  <2>1. PICK Keep : Spares(running, Keep) /\ AroundTx \subseteq Keep
    BY <1>3, MempoolSpares
  <2>2. running \in Tx /\ db' = Replaced(db, running)
    BY <1>3, MempoolSpares
  <2> QED
    BY <1>1, <1>2, <2>1, <2>2, ReplacedLinks
<1>4. CASE w = "block"
  <2> DEFINE t == Head(job["block"].todo)
  <2>1. t = Head(job["block"].todo)
    OBVIOUS
  <2> HIDE DEF t
  <2>2. PICK Keep : Spares(t, Keep) /\ AroundTx \subseteq Keep
    BY <1>4, <2>1, BlockSpares
  <2>3. t \in Tx /\ db' = Replaced(db, t)
    BY <1>4, <2>1, BlockSpares
  <2> QED
    BY <1>1, <1>2, <2>2, <2>3, ReplacedLinks
<1> QED
  BY <1>3, <1>4 DEF Handler

\* The statements of a handler that is not about to write the heights of what the
\* block spends leave what is moving alone.
LEMMA MovingKept ==
  ASSUME LedgerInv, NEW w \in Handler, phase \in {"run", "undo"}, job[w].pc # "spend",
         UNCHANGED <<storedTip, phase, step>>, w = "mempool" => job'["block"] = job["block"]
  PROVE  \A i : Moving(i) => Moving(i)'
<1>1. CASE w = "block"
  BY <1>1, NotMoving DEF LedgerInv, WorkInv
<1>2. CASE w = "mempool"
  BY <1>2 DEF Moving, Committed, H
<1> QED
  BY <1>1, <1>2 DEF Handler

\* A statement that leaves the outputs and the inputs alone.
LEMMA LinksStatement ==
  ASSUME LedgerInv, LinksInv, NEW w \in Handler, NEW pc, NEW next, NEW d,
         Statement(w, pc, next, d), pc \notin {"none", "spend"}, d.outs = db.outs, d.ins = db.ins
  PROVE  LinksInv'
<1>1. /\ Handles(w) /\ job[w].pc = pc /\ db' = d
      /\ \A v \in Handler : v # w => job'[v] = job[v]
  BY StatementHandles DEF LedgerInv, WorkInv
<1>2. phase \in {"run", "undo"} /\ UNCHANGED <<storedTip, phase, step>>
  BY <1>1 DEF Handles
<1>3. CASE w = "block"
  BY <1>1, <1>2, <1>3, LinksStill
<1>4. CASE w = "mempool"
  BY <1>1, <1>2, <1>4, LinksStill DEF Handler
<1> QED
  BY <1>3, <1>4 DEF Handler

\* The process stops.
LEMMA LinksStop ==
  ASSUME LedgerInv, LinksInv, NEW reason, Stop(reason)
  PROVE  LinksInv'
<1>1. db' = db /\ storedTip' = storedTip /\ phase' = "down"
  BY DEF Stop, tips
<1> QED
  BY <1>1, LinksStill

\* The rows of the transactions.
LEMMA LinksCreate ==
  ASSUME LedgerInv, LinksInv, NEW w \in Handler, CreateTransactions(w)
  PROVE  LinksInv'
<1> DEFINE ts == IF w = "block" THEN Contents[block] ELSE job[w].txs
           h == Height(w)
           ids == IF w = "mempool" THEN <<db.next + 1>> ELSE <<>>
<1>1. CASE Refused(w, "replace", "duplicate")
  BY <1>1, LinksStop DEF Refused
<1>2. CASE ~Refused(w, "replace", "duplicate")
  <2>1. /\ phase \in {"run", "undo"} /\ job[w].pc = "replace"
        /\ db' = Created(db, ts, h)
        /\ job' = [job EXCEPT ![w].pc = "witness", ![w].ids = ids]
        /\ UNCHANGED <<tips, process, queue, overlooked, counters>>
    BY <1>2 DEF CreateTransactions, Writing
  <2> HIDE DEF ts, h, ids
  <2>2. db'.outs = db.outs /\ db'.ins = db.ins
    <3> DEFINE new == Picked(ts, {n \in DOMAIN ts : Named(db, {ts[n]}) = {}})
               txs == Update(db.tx, LAMBDA r : r.tx \in ToSet(ts),
                         LAMBDA r : [r EXCEPT !.height = h, !.index = IndexOf(r.tx, h)])
                  \cup {[id |-> db.next + n, tx |-> new[n], height |-> h,
                         index |-> IndexOf(new[n], h)] : n \in DOMAIN new}
               next == db.next + Len(new)
    <3>1. db' = [db EXCEPT !.tx = txs, !.next = next]
      BY <2>1, Zenon DEF Created
    <3> HIDE DEF txs, next
    <3> QED
      BY <3>1 DEF LedgerInv, TableInv, ShapeInv
  <2>3. UNCHANGED <<storedTip, phase, step>>
    BY <2>1 DEF tips, process
  <2>4. CASE w = "block"
    BY <2>1, <2>2, <2>3, <2>4, LinksStill
  <2>5. CASE w = "mempool"
    <3>1. "block" \in Handler /\ w # "block" /\ DOMAIN job = Handler
      BY <2>5 DEF Handler, LedgerInv, WorkInv, ProcessInv
    <3>2. job'["block"] = job["block"]
      BY <2>1, <3>1
    <3> QED
      BY <2>2, <2>3, <3>2, LinksStill
  <2> QED
    BY <2>4, <2>5 DEF Handler
<1> QED
  BY <1>1, <1>2

\* New outputs are spent by nothing, and new inputs spend nothing yet.
LEMMA InsertedLinks ==
  ASSUME LedgerInv, LinksInv, phase \in {"run", "undo"}, NEW j, NEW h,
         IdsRight(j), db' = Inserted(db, j, h),
         \A r \in db.tx : r.tx \in ToSet(j.txs) => Empty(r) /\ (phase = "undo" => r.tx \in Queued),
         \A i \in db.ins : Moving(i) => Moving(i)'
  PROVE  LinksInv'
<1> USE DEF LedgerInv, WorkInv
<1>1. /\ db.outs \subseteq db'.outs /\ db.ins \subseteq db'.ins
      /\ \A p \in db'.outs : p \in db.outs \/ \E n \in DOMAIN j.txs : \E m \in DOMAIN Pays[j.txs[n]] :
           p = [id |-> j.ids[n], at |-> m, height |-> h,
                address |-> (CHOOSE r \in db.addresses : r.address = Pays[j.txs[n]][m]).id,
                by |-> 0, byAt |-> 0, byHeight |-> Null]
      /\ \A i \in db'.ins : i \in db.ins \/ \E n \in DOMAIN j.txs : \E m \in DOMAIN Inputs[j.txs[n]] :
           i = [id |-> j.ids[n], at |-> m, height |-> h, address |-> 0, from |-> 0, fromAt |-> 0]
  BY InsertedRows DEF TableInv
<1>2. \A n \in DOMAIN j.txs : \E r \in db.tx : r.id = j.ids[n] /\ r.tx \in ToSet(j.txs)
  BY DEF IdsRight, ToSet
<1>3. ASSUME NEW p \in db'.outs, p \notin db.outs
      PROVE  p.by = 0 /\ p.byHeight = Null /\ \E r \in db.tx : r.id = p.id /\ r.tx \in ToSet(j.txs)
  <2>1. PICK n \in DOMAIN j.txs : p.id = j.ids[n] /\ p.by = 0 /\ p.byHeight = Null
    BY <1>1, <1>3
  <2> QED
    BY <1>2, <2>1
<1>4. \A i \in db'.ins : i \in db.ins \/ i.from = 0
  BY <1>1
<1>5. storedTip \in Block
  BY DEF ProcessInv
<1>6. \A p \in db'.outs : p.id # 0
  <2> SUFFICES ASSUME NEW p \in db'.outs PROVE p.id # 0
    OBVIOUS
  <2>1. \E r \in db.tx : r.id = p.id
    BY <1>3 DEF TableInv, OwnInv, With
  <2> QED
    BY <1>5, <2>1, Heights DEF TableInv
<1>7. ASSUME NEW i \in db'.ins, NEW p \in db'.outs, Spends(i, p)
      PROVE  i \in db.ins /\ p \in db.outs
  <2>1. i \in db.ins
    BY <1>4, <1>6, <1>7 DEF Spends
  <2>2. ASSUME p \notin db.outs PROVE FALSE
    <3>1. PICK r \in db.tx : r.id = p.id /\ r.tx \in ToSet(j.txs)
      BY <1>3, <2>2
    <3>2. i.from # r.id
      BY <2>1, <3>1, NoSpender
    <3> QED
      BY <1>7, <3>1, <3>2 DEF Spends
  <2> QED
    BY <2>1, <2>2
<1>8. AddressInv'
  BY <1>7 DEF LinksInv, AddressInv, Spends
<1>9. BackInv'
  BY <1>1, <1>3 DEF LinksInv, BackInv, Spends
<1> QED
  BY <1>8, <1>9 DEF LinksInv

\* _createInputs and _createOutputs: nothing new is linked.
LEMMA LinksInsert ==
  ASSUME LedgerInv, LinksInv, NEW w \in Handler, Insert(w)
  PROVE  LinksInv'
<1> USE DEF LedgerInv, WorkInv
<1> DEFINE j == job[w]
<1>1. CASE Refused(w, "insert", "duplicate")
  BY <1>1, LinksStop DEF Refused
<1>2. CASE Statement(w, "insert", "link", Inserted(db, j, Height(w)))
  <2>1. /\ Handles(w) /\ j.pc = "insert" /\ db' = Inserted(db, j, Height(w))
        /\ \A v \in Handler : v # w => job'[v] = job[v]
    BY <1>2, StatementHandles
  <2>2. phase \in {"run", "undo"} /\ UNCHANGED <<storedTip, phase, step>>
    BY <2>1 DEF Handles
  <2>3. Filling(w) /\ j.pc # "spend" /\ j.pc # "none"
    BY <2>1 DEF Filling
  <2>4. IdsRight(j) /\ \A r \in db.tx : r.tx \in ToSet(j.txs) => Empty(r)
    BY <2>1, <2>3 DEF WriteInv
  <2>5. phase = "undo" => \A t \in ToSet(j.txs) : t \in Queued
    <3> HAVE phase = "undo"
    <3>1. w = "mempool"
      BY <2>2, <2>3, HandlerPlace
    <3> QED
      BY <2>2, <2>3, <3>1, MempoolJob
  <2>6. \A i : Moving(i) => Moving(i)'
    BY <2>1, <2>2, <2>3, MovingKept DEF Handler
  <2> HIDE DEF j
  <2> QED
    BY <2>1, <2>2, <2>4, <2>5, <2>6, InsertedLinks
<1> QED
  BY <1>1, <1>2 DEF Insert

\* An input and the output it is linked to name each other.
LEMMA LinkedLinks ==
  ASSUME TableInv, LinksInv, storedTip \in Block, NEW ts, db' = Linked(db, ts),
         \A r \in db.tx : r.tx \in ToSet(ts) => Unlinked(r),
         \A i \in db.ins : Moving(i) => Moving(i)'
  PROVE  LinksInv'
<1> USE DEF TableInv
<1> DEFINE J(i, o) == Joined(db, ts, i, o)
<1>1. /\ \A i \in db.ins : \A o \in db.outs : J(i, o) => InputOf(i, o) \in db'.ins
      /\ \A i \in db.ins : (\A o \in db.outs : ~J(i, o)) => i \in db'.ins
      /\ \A l \in db'.ins : \E i \in db.ins :
              IF \E o \in db.outs : J(i, o) THEN \E o \in db.outs : J(i, o) /\ l = InputOf(i, o)
              ELSE l = i
      /\ \A p \in db'.outs : \E o \in db.outs :
              IF \E i \in db.ins : J(i, o) THEN \E i \in db.ins : J(i, o) /\ p = OutputBy(o, i)
              ELSE p = o
  <2>1. \A i \in db.ins : \A o \in db.outs : J(i, o) => InputOf(i, o) \in db'.ins
    BY LinkedRows DEF J
  <2>2. \A i \in db.ins : (\A o \in db.outs : ~J(i, o)) => i \in db'.ins
    BY LinkedRows DEF J
  <2>3. \A l \in db'.ins : \E i \in db.ins :
              IF \E o \in db.outs : J(i, o) THEN \E o \in db.outs : J(i, o) /\ l = InputOf(i, o)
              ELSE l = i
    BY LinkedRows DEF J
  <2>4. \A p \in db'.outs : \E o \in db.outs :
              IF \E i \in db.ins : J(i, o) THEN \E i \in db.ins : J(i, o) /\ p = OutputBy(o, i)
              ELSE p = o
    BY LinkedRows DEF J
  <2> HIDE DEF J
  <2> QED
    BY <2>1, <2>2, <2>3, <2>4
<1>2. \A i \in db.ins, o \in db.outs : J(i, o) => \E r \in db.tx : r.tx \in ToSet(ts) /\ r.id = i.id
  <2> SUFFICES ASSUME NEW i \in db.ins, NEW o \in db.outs, J(i, o)
               PROVE  \E r \in db.tx : r.tx \in ToSet(ts) /\ r.id = i.id
    OBVIOUS
  <2>1. Joined(db, ts, i, o)
    BY DEF J
  <2> HIDE DEF J
  <2>2. \E t \in ToSet(ts) : i.id \in Ids(Named(db, {t}))
    BY <2>1 DEF Joined
  <2> QED
    BY <2>2 DEF Ids, Named
<1>3. \A i \in db.ins, o \in db.outs : J(i, o) => i.from = 0 /\ i.id # 0
  <2> SUFFICES ASSUME NEW i \in db.ins, NEW o \in db.outs, J(i, o) PROVE i.from = 0 /\ i.id # 0
    OBVIOUS
  <2>1. PICK r \in db.tx : r.tx \in ToSet(ts) /\ r.id = i.id
    BY <1>2
  <2> QED
    BY <2>1, Heights DEF Unlinked
<1>4. \A o \in db.outs : o.id # 0
  <2> SUFFICES ASSUME NEW o \in db.outs PROVE o.id # 0
    OBVIOUS
  <2>1. PICK r \in db.tx : r.id = o.id
    BY DEF OwnInv, With
  <2> QED
    BY <2>1, Heights
<1>5. \A i \in db.ins : \A o :
        /\ InputOf(i, o).id = i.id /\ InputOf(i, o).at = i.at /\ InputOf(i, o).height = i.height
        /\ InputOf(i, o).address = o.address /\ InputOf(i, o).from = o.id /\ InputOf(i, o).fromAt = o.at
  BY DEF InputOf, ShapeInv
<1>6. \A o \in db.outs : \A i :
        /\ OutputBy(o, i).id = o.id /\ OutputBy(o, i).at = o.at /\ OutputBy(o, i).address = o.address
        /\ OutputBy(o, i).by = i.id /\ OutputBy(o, i).byAt = i.at /\ OutputBy(o, i).byHeight = i.height
  BY DEF OutputBy, ShapeInv
<1> HIDE DEF J
<1>7. \A p \in db'.outs : \E o \in db.outs : p.id = o.id /\ p.at = o.at /\ p.address = o.address
  BY <1>1, <1>6
<1>8. ASSUME NEW l \in db'.ins, NEW p \in db'.outs, Spends(l, p)
      PROVE  l.address = p.address
  <2>1. PICK o \in db.outs : p.id = o.id /\ p.at = o.at /\ p.address = o.address
    BY <1>7
  <2>2. PICK i \in db.ins :
          IF \E u \in db.outs : J(i, u) THEN \E u \in db.outs : J(i, u) /\ l = InputOf(i, u) ELSE l = i
    BY <1>1
  <2>3. CASE \E u \in db.outs : J(i, u)
    <3>1. PICK u \in db.outs : l = InputOf(i, u)
      BY <2>2, <2>3
    <3>2. l.from = u.id /\ l.fromAt = u.at /\ l.address = u.address
      BY <1>5, <3>1
    <3>3. u = o
      BY <1>8, <2>1, <3>2 DEF Spends, KeyInv
    <3> QED
      BY <2>1, <3>2, <3>3
  <2>4. CASE ~\E u \in db.outs : J(i, u)
    BY <1>8, <2>1, <2>2, <2>4 DEF Spends, LinksInv, AddressInv
  <2> QED
    BY <2>3, <2>4
<1>9. AddressInv'
  BY <1>8 DEF AddressInv, Spends
<1>10. ASSUME NEW p \in db'.outs
       PROVE  IF p.by = 0 THEN p.byHeight \in {Null, Unconfirmed}
              ELSE \E l \in db'.ins : l.id = p.by /\ l.at = p.byAt /\ Spends(l, p)
                                      /\ (l.height = p.byHeight \/ Moving(l)')
  <2>1. PICK o \in db.outs :
          IF \E i \in db.ins : J(i, o) THEN \E i \in db.ins : J(i, o) /\ p = OutputBy(o, i) ELSE p = o
    BY <1>1
  <2>2. CASE \E i \in db.ins : J(i, o)
    <3>1. PICK i \in db.ins : J(i, o) /\ p = OutputBy(o, i)
      BY <2>1, <2>2
    <3>2. /\ p.id = o.id /\ p.at = o.at /\ p.by = i.id /\ p.byAt = i.at /\ p.byHeight = i.height
          /\ i.id # 0
      BY <1>3, <1>6, <3>1
    <3>3. PICK l \in db'.ins : l = InputOf(i, o)
      BY <1>1, <3>1
    <3>4. l.id = i.id /\ l.at = i.at /\ l.height = i.height /\ l.from = o.id /\ l.fromAt = o.at
      BY <1>5, <3>3
    <3> QED
      BY <3>2, <3>4 DEF Spends
  <2>3. CASE ~\E i \in db.ins : J(i, o)
    <3>1. p = o
      BY <2>1, <2>3
    <3>2. CASE p.by = 0
      BY <3>1, <3>2 DEF LinksInv, BackInv
    <3>3. CASE p.by # 0
      <4>1. PICK i \in db.ins : i.id = p.by /\ i.at = p.byAt /\ Spends(i, p)
                                /\ (i.height = p.byHeight \/ Moving(i))
        BY <3>1, <3>3 DEF LinksInv, BackInv
      <4>2. \A u \in db.outs : ~J(i, u)
        BY <1>3, <1>4, <3>1, <4>1 DEF Spends
      <4>3. i \in db'.ins
        BY <1>1, <4>2
      <4> QED
        BY <3>3, <4>1, <4>3
    <3> QED
      BY <3>2, <3>3
  <2> QED
    BY <2>2, <2>3
<1>11. BackInv'
  BY <1>10 DEF BackInv, Spends
<1> QED
  BY <1>9, <1>11 DEF LinksInv

\* The links of the transactions that are written.
LEMMA LinksLink ==
  ASSUME LedgerInv, LinksInv, NEW w \in Handler, Link(w)
  PROVE  LinksInv'
<1> USE DEF LedgerInv, WorkInv
<1> DEFINE next == IF w = "block" /\ synced THEN "adjust" ELSE "balances"
           ts == job[w].txs
<1>1. Statement(w, "link", next, Linked(db, ts))
  BY DEF Link
<1> HIDE DEF next
<1>2. /\ Handles(w) /\ job[w].pc = "link" /\ db' = Linked(db, ts)
      /\ \A v \in Handler : v # w => job'[v] = job[v]
  BY <1>1, StatementHandles
<1>3. phase \in {"run", "undo"} /\ UNCHANGED <<storedTip, phase, step>>
  BY <1>2 DEF Handles
<1>4. \A r \in db.tx : r.tx \in ToSet(ts) => Unlinked(r)
  BY <1>2 DEF WriteInv, Filling
<1>5. \A i : Moving(i) => Moving(i)'
  BY <1>2, <1>3, MovingKept DEF Handler
<1>6. storedTip \in Block
  BY DEF ProcessInv
<1> HIDE DEF ts
<1> QED
  BY <1>2, <1>4, <1>5, <1>6, LinkedLinks

\* The statements on other tables.
SameLinks(d) == d.outs = db.outs /\ d.ins = db.ins

\* What the other statements leave alone.
LEMMA OtherTables ==
  ASSUME ShapeInv
  PROVE  /\ \A ids, h : SameLinks(Lowered(db, ids, h))
         /\ \A ts : SameLinks(WithWitness(db, ts))
         /\ \A new, h : SameLinks(WithAddresses(db, new, h))
         /\ \A h : SameLinks(Adjusted(db, h))
         /\ \A rows : SameLinks([db EXCEPT !.balances = @ \cup rows])
         /\ \A j, h : SameLinks(WithReceipts(db, j, h))
         /\ \A b : SameLinks(WithContracts(db, b))
<1>1. DOMAIN db = {"tx", "outs", "ins", "balances", "witness", "receipts", "logs", "spends",
                   "refunds", "addresses", "next"}
  BY DEF ShapeInv
<1>2. \A x, n : SameLinks([db EXCEPT !.addresses = x, !.next = n])
  BY <1>1 DEF SameLinks
<1>3. \A x : /\ SameLinks([db EXCEPT !.addresses = x]) /\ SameLinks([db EXCEPT !.witness = x])
             /\ SameLinks([db EXCEPT !.balances = x]) /\ SameLinks([db EXCEPT !.receipts = x])
  BY <1>1 DEF SameLinks
<1>4. \A x, y, z, u : SameLinks([db EXCEPT !.spends = x, !.refunds = y, !.receipts = z, !.logs = u])
  BY <1>1 DEF SameLinks
<1>5. \A ids, h : SameLinks(Lowered(db, ids, h))
  BY <1>3, Zenon DEF Lowered
<1>6. \A ts : SameLinks(WithWitness(db, ts))
  BY <1>3, Zenon DEF WithWitness
<1>7. \A new, h : SameLinks(WithAddresses(db, new, h))
  BY <1>2, Zenon DEF WithAddresses
<1>8. \A h : SameLinks(Adjusted(db, h))
  BY <1>3, Zenon DEF Adjusted
<1>9. \A rows : SameLinks([db EXCEPT !.balances = @ \cup rows])
  BY <1>3, Zenon
<1>10. \A j, h : SameLinks(WithReceipts(db, j, h))
  BY <1>3, Zenon DEF WithReceipts
<1>11. \A b : SameLinks(WithContracts(db, b))
  BY <1>4, Zenon DEF WithContracts
<1> QED
  BY <1>5, <1>6, <1>7, <1>8, <1>9, <1>10, <1>11

\* They keep the links.
LEMMA LinksTables ==
  ASSUME LedgerInv, LinksInv, NEW w \in Handler,
         Lower \/ Adjust \/ ProcessContracts \/ CreateWitnesses(w) \/ CreateAddresses(w)
         \/ CreateBalances(w) \/ CreateReceipts(w)
  PROVE  LinksInv'
<1>1. "block" \in Handler /\ ShapeInv
  BY DEF Handler, LedgerInv, TableInv
<1>2. CASE \E reason : Stop(reason)
  BY <1>2, LinksStop
<1>3. CASE \E v \in Handler : \E pc, next, d :
             Statement(v, pc, next, d) /\ pc \notin {"none", "spend"} /\ SameLinks(d)
  BY <1>3, LinksStatement DEF SameLinks
<1>4. CASE Lower
  BY <1>1, <1>3, <1>4, OtherTables DEF Lower
<1>5. CASE Adjust
  BY <1>1, <1>3, <1>5, OtherTables DEF Adjust
<1>6. CASE ProcessContracts
  BY <1>1, <1>3, <1>6, OtherTables DEF ProcessContracts
<1>7. CASE CreateWitnesses(w)
  BY <1>1, <1>2, <1>3, <1>7, OtherTables DEF CreateWitnesses, Refused
<1>8. CASE CreateAddresses(w)
  BY <1>1, <1>2, <1>3, <1>8, OtherTables DEF CreateAddresses, Refused
<1>9. CASE CreateBalances(w)
  BY <1>1, <1>2, <1>3, <1>9, OtherTables DEF CreateBalances, Refused
<1>10. CASE CreateReceipts(w)
  BY <1>1, <1>2, <1>3, <1>10, OtherTables DEF CreateReceipts, Refused
<1> QED
  BY <1>4, <1>5, <1>6, <1>7, <1>8, <1>9, <1>10

\* The steps that write none of the tables, or only start and stop.
LEMMA LinksQuiet ==
  ASSUME LedgerInv, LinksInv,
         \/ Start \/ StoreStartTip \/ OnSynced \/ Crash
         \/ \E b \in Block : GoBack(b) \/ BeginBlock(b)
         \/ FindUnconfirmed \/ Number \/ StoreTxTip \/ Commit
         \/ \E w \in Handler : FindAddresses(w)
         \/ \E t \in Relayed : Deliver(t)
         \/ Validate \/ FinishTransaction \/ UNCHANGED vars
  PROVE  LinksInv'
<1> USE DEF LedgerInv, WorkInv
<1>1. CASE Start
  BY <1>1, LinksStill DEF Start, tips
<1>2. CASE StoreStartTip
  BY <1>2, LinksStill DEF StoreStartTip, CleanStatements
<1>3. CASE OnSynced \/ UNCHANGED vars
  BY <1>3, LinksStill DEF OnSynced, vars, tips, process
<1>4. CASE Crash
  BY <1>4, LinksStop DEF Crash
<1>5. CASE \E b \in Block : GoBack(b) \/ BeginBlock(b)
  <2>1. phase = "run" /\ block = NoBlock /\ db' = db
    BY <1>5 DEF GoBack, BeginBlock
  <2>2. job["block"].pc = "none"
    BY <2>1 DEF ProcessInv
  <2> QED
    BY <2>1, <2>2, LinksStill
<1>6. CASE FindUnconfirmed \/ Number \/ StoreTxTip \/ Commit
  <2>1. phase \in {"run", "undo"} /\ job["block"].pc \in {"find", "number", "tip", "commit"} /\ db' = db
    BY <1>6 DEF FindUnconfirmed, Number, StoreTxTip, Commit, Writing
  <2> QED
    BY <2>1, LinksStill
<1>7. DOMAIN job = Handler /\ "block" \in Handler /\ "mempool" \in Handler
  BY DEF ProcessInv, Handler
<1>8. CASE \E w \in Handler : FindAddresses(w)
  <2>1. PICK w \in Handler : FindAddresses(w)
    BY <1>8
  <2>2. /\ phase \in {"run", "undo"} /\ job[w].pc = "addresses" /\ db' = db
        /\ UNCHANGED <<storedTip, phase, step>>
    BY <2>1 DEF FindAddresses, Writing, tips, process
  <2>3. w = "mempool" => job'["block"] = job["block"]
    <3> DEFINE known == Paid(job[w].txs) \cap {a.address : a \in db.addresses}
    <3>1. job' = [job EXCEPT ![w].pc = "new", ![w].known = known]
      BY <2>1 DEF FindAddresses
    <3> HIDE DEF known
    <3> QED
      BY <1>7, <3>1
  <2>4. CASE w = "block"
    BY <2>2, <2>4, LinksStill
  <2>5. CASE w = "mempool"
    BY <2>2, <2>3, <2>5, LinksStill
  <2> QED
    BY <2>4, <2>5 DEF Handler
<1>9. CASE (\E t \in Relayed : Deliver(t)) \/ Validate \/ FinishTransaction
  <2>1. db' = db /\ UNCHANGED <<storedTip, phase, step>>
    BY <1>9 DEF Deliver, Validate, FinishTransaction, tips, process
  <2>2. job'["block"] = job["block"]
    <3>1. CASE \E t \in Relayed : Deliver(t)
      BY <1>7, <3>1 DEF Deliver
    <3>2. CASE Validate
      <4>1. PICK pc : Goes("mempool", pc)
        BY <3>2 DEF Validate
      <4> QED
        BY <1>7, <4>1 DEF Goes
    <3>3. CASE FinishTransaction
      <4>1. PICK begun : job' = [job EXCEPT !["mempool"] = begun]
        BY <3>3 DEF FinishTransaction
      <4> QED
        BY <1>7, <4>1
    <3> QED
      BY <1>9, <3>1, <3>2, <3>3
  <2> QED
    BY <2>1, <2>2, LinksStill
<1> QED
  BY <1>1, <1>2, <1>3, <1>4, <1>5, <1>6, <1>8, <1>9

\* Every step preserves the links.
LEMMA LinksNext ==
  ASSUME LedgerInv, LinksInv, [Next]_vars
  PROVE  LinksInv'
<1>0. "block" \in Handler
  BY DEF Handler
<1>1. ASSUME NEW w \in Handler, WriteTransactions(w) PROVE LinksInv'
  <2>1. CASE Replace(w) \/ CreateTransactions(w)
    BY <2>1, LinksReplace, LinksCreate
  <2>2. CASE Insert(w) \/ Link(w)
    BY <2>2, LinksInsert, LinksLink
  <2>3. CASE FindAddresses(w)
    BY <2>3, LinksQuiet
  <2>4. CASE CreateWitnesses(w) \/ CreateAddresses(w) \/ CreateBalances(w) \/ CreateReceipts(w)
    BY <2>4, LinksTables
  <2> QED
    BY <1>1, <2>1, <2>2, <2>3, <2>4 DEF WriteTransactions
<1>2. CASE Clean \/ Undo \/ Adopt \/ Spend
  BY <1>2, LinksClean, LinksUndo, LinksAdopt, LinksSpend
<1>3. CASE Lower \/ Adjust \/ ProcessContracts
  BY <1>0, <1>3, LinksTables
<1>4. CASE \/ Start \/ StoreStartTip \/ OnSynced \/ Crash
           \/ \E b \in Block : GoBack(b) \/ BeginBlock(b)
           \/ FindUnconfirmed \/ Number \/ StoreTxTip \/ Commit
           \/ \E t \in Relayed : Deliver(t)
           \/ Validate \/ FinishTransaction \/ UNCHANGED vars
  BY <1>4, LinksQuiet
<1> QED
  BY <1>1, <1>2, <1>3, <1>4 DEF Next

\* The genesis block spends nothing.
LEMMA LinksInit ==
  ASSUME Init
  PROVE  LinksInv
<1>1. /\ \A o \in db.outs : o.id = 1 /\ o.by = 0 /\ o.byHeight = Null
      /\ \A i \in db.ins : i.from = 0
  BY DEF Init, GenesisTables
<1>2. \A i \in db.ins, o \in db.outs : ~Spends(i, o)
  BY <1>1 DEF Spends
<1> QED
  BY <1>1, <1>2 DEF LinksInv, BackInv, AddressInv

\* What the links say when nothing is under way.
LEMMA LinksImplied ==
  ASSUME LedgerInv, LinksInv
  PROVE  LinksAgree
<1> USE DEF LedgerInv, WorkInv, TableInv
<1> SUFFICES ASSUME Quiet
             PROVE  /\ \A o \in db.outs :
                         IF o.by = 0 THEN o.byHeight \in {Null, Unconfirmed}
                         ELSE \E i \in db.ins : i.id = o.by /\ i.at = o.byAt /\ Spends(i, o)
                                                /\ i.height = o.byHeight
                    /\ \A i \in db.ins :
                         \/ TxOf(i.id) # NoTx /\ Inputs[TxOf(i.id)][i.at].tx = NoTx
                         \/ \E o \in db.outs : Spends(i, o) /\ o.by = i.id /\ o.address = i.address
  BY DEF LinksAgree
<1>1. phase = "run" /\ job["block"].pc = "none" /\ job["mempool"].pc = "none"
  BY DEF Quiet, ProcessInv
<1>2. \A i : ~Moving(i)
  BY <1>1, NotMoving
<1>3. ASSUME NEW o \in db.outs
      PROVE  IF o.by = 0 THEN o.byHeight \in {Null, Unconfirmed}
             ELSE \E i \in db.ins : i.id = o.by /\ i.at = o.byAt /\ Spends(i, o)
                                    /\ i.height = o.byHeight
  BY <1>2 DEF LinksInv, BackInv
<1>4. ASSUME NEW i \in db.ins
      PROVE  \/ TxOf(i.id) # NoTx /\ Inputs[TxOf(i.id)][i.at].tx = NoTx
             \/ \E o \in db.outs : Spends(i, o) /\ o.by = i.id /\ o.address = i.address
  <2>1. PICK r \in db.tx : r.id = i.id
    BY DEF OwnInv, With
  <2>2. r.tx # NoTx
    BY LedgerAssumption DEF ShapeInv
  <2>3. TxOf(i.id) = r.tx
    <3>1. \A q \in db.tx : q.id = i.id => q = r
      BY <2>1 DEF KeyInv
    <3> QED
      BY <2>1, <3>1 DEF TxOf
  <2>4. ~InProgress(r.tx)
    BY <1>1 DEF InProgress, Filling, Handler
  <2>5. Complete(r)
    BY <1>1, <2>4 DEF CompleteInv, Whole
  <2>6. CASE Inputs[r.tx][i.at].tx = NoTx
    BY <2>2, <2>3, <2>6
  <2>7. CASE Inputs[r.tx][i.at].tx # NoTx
    <3>1. PICK o \in db.outs : Spends(i, o) /\ o.by = r.id
      BY <2>1, <2>5, <2>7 DEF Complete, Linking
    <3>2. i.address = o.address
      BY <3>1 DEF LinksInv, AddressInv
    <3> QED
      BY <2>1, <3>1, <3>2
  <2> QED
    BY <2>6, <2>7
<1> QED
  BY <1>3, <1>4

\* The ledger and its links, in every state, under the hypotheses of LedgerTheorem.
THEOREM LinksInvariant ==
  ASSUME CalmMempool, CalmStart, Unrivalled
  PROVE  Spec => [](LedgerInv /\ LinksInv)
<1> USE DEF Calm
<1>1. Init => LedgerInv /\ LinksInv
  BY LedgerInit, LinksInit
<1>2. LedgerInv /\ LinksInv /\ [Next]_vars => (LedgerInv /\ LinksInv)'
  BY LedgerNext, LinksNext
<1> QED
  BY <1>1, <1>2, PTL DEF Spec

\* LinksAgree: when no block, transaction or reorganization is being written, an
\* output and the input that spends it name each other, at the height of the
\* input, and every input has its output, with its address: under the hypotheses
\* of LedgerTheorem.
THEOREM LinksTheorem ==
  ASSUME CalmMempool, CalmStart, Unrivalled
  PROVE  Spec => []LinksAgree
<1> USE DEF Calm
<1>1. LedgerInv /\ LinksInv => LinksAgree
  BY LinksImplied
<1> QED
  BY <1>1, LinksInvariant, PTL

-----------------------------------------------------------------------------
(* The witnesses, the receipts and the logs.                               *)

\* A step that leaves these tables alone, and what is due stays due.
LEMMA OrphansStill ==
  ASSUME OrphanInv, db.next \in Nat, db'.next \in Nat, db'.next >= db.next,
         db'.tx = db.tx, db'.witness = db.witness, db'.receipts = db.receipts, db'.logs = db.logs,
         \A r \in db.tx : /\ WitnessDue(r) => WitnessDue(r)'
                          /\ ReceiptDue(r) => ReceiptDue(r)'
                          /\ LogDue(r) => LogDue(r)',
         \A x \in db.receipts, r \in db.tx : Lagging(x, r) => Lagging(x, r)' \/ LogDue(r)',
         \A l \in db.logs, r \in db.tx : Stale(l, r) => Stale(l, r)',
         IdsInv'
  PROVE  OrphanInv'
<1>1. WitnessInv'
  BY DEF OrphanInv, WitnessInv
<1>2. ReceiptInv'
  <2>1. \A x \in db'.receipts :
          /\ x = [id |-> x.id, height |-> x.height, index |-> x.index]
          /\ x.id \in 0 .. db'.next /\ x.height \in Nat
    BY DEF OrphanInv, ReceiptInv
  <2>2. \A x \in db'.receipts, r \in db'.tx : x.id = r.id =>
          /\ r.tx \in Contract
          /\ (x.height = r.height /\ x.index = r.index) \/ LogDue(r)' \/ Lagging(x, r)'
    BY DEF OrphanInv, ReceiptInv
  <2>3. \A r \in db'.tx : r.tx \in Contract => (\E x \in db'.receipts : x.id = r.id) \/ ReceiptDue(r)'
    BY DEF OrphanInv, ReceiptInv
  <2> QED
    BY <2>1, <2>2, <2>3 DEF ReceiptInv
<1>3. LogInv'
  <2>1. ASSUME NEW l \in db'.logs
        PROVE  \E r \in db'.tx : r.id = l.receipt /\ r.tx \in Contract /\ (r.height = l.height \/ Stale(l, r)')
    BY DEF OrphanInv, LogInv
  <2>2. \A r \in db'.tx : r.tx \in Contract /\ r.height # Unconfirmed =>
          [receipt |-> r.id, height |-> r.height] \in db'.logs \/ LogDue(r)'
    BY DEF OrphanInv, LogInv
  <2> QED
    BY <2>1, <2>2 DEF OrphanInv, LogInv
<1> QED
  BY <1>1, <1>2, <1>3 DEF OrphanInv

\* A step of a handler that leaves them alone, and is not about to write them.
LEMMA OrphansHandle ==
  ASSUME LedgerInv, OrphanInv, NEW w \in Handler, UNCHANGED <<storedTip, phase, step, block>>,
         db'.next \in Nat, db'.next >= db.next,
         db'.tx = db.tx, db'.witness = db.witness, db'.receipts = db.receipts, db'.logs = db.logs,
         \A v \in Handler : v # w => job'[v] = job[v],
         job[w].pc # "witness",
         Unreceipted(w) => Unreceipted(w)' /\ job'[w].txs = job[w].txs,
         w = "block" /\ job'[w].pc \in {"tip", "commit"} => job[w].pc \in {"tip", "commit"},
         job'[w].pc \in {"adjust", "balances", "receipts"} => IdsRight(job[w])'
  PROVE  OrphanInv'
<1>1. /\ H' = H /\ BlockTx' = BlockTx /\ AroundTx' = AroundTx
      /\ \A r : Committed(r)' <=> Committed(r)
      /\ \A r : Cut(r)' <=> Cut(r)
  BY DEF H, BlockTx, AroundTx, Around, Committed, Cut
<1>2. \A r : WitnessDue(r) => WitnessDue(r)'
  BY <1>1 DEF WitnessDue
<1>3. \A v \in Handler : Unreceipted(v) => Unreceipted(v)' /\ job'[v].txs = job[v].txs
  BY DEF Unreceipted, Filling
<1>4. \A r : ReceiptDue(r) => ReceiptDue(r)'
  BY <1>1, <1>3 DEF ReceiptDue
<1>5. job["block"].pc \notin {"tip", "commit"} => job'["block"].pc \notin {"tip", "commit"}
  BY DEF Handler
<1>6. \A r : LogDue(r) => LogDue(r)'
  BY <1>1, <1>5 DEF LogDue
<1>7. \A x, r : /\ Lagging(x, r) => Lagging(x, r)'
                /\ Stale(x, r) => Stale(x, r)'
  BY <1>1 DEF Lagging, Stale
<1>8. IdsInv'
  <2> SUFFICES ASSUME NEW v \in Handler, job'[v].pc \in {"adjust", "balances", "receipts"}
               PROVE  IdsRight(job[v])'
    BY DEF IdsInv
  <2>1. CASE v # w
    BY <2>1 DEF OrphanInv, IdsInv, IdsRight
  <2>2. CASE v = w
    BY <2>2
  <2> QED
    BY <2>1, <2>2
<1>9. db.next \in Nat
  BY DEF LedgerInv, TableInv, ShapeInv
<1> QED
  BY <1>2, <1>4, <1>6, <1>7, <1>8, <1>9, OrphansStill

\* What is being written is not committed.
LEMMA UnderWay ==
  ASSUME LedgerInv, NEW r \in db.tx,
         WitnessDue(r) \/ ReceiptDue(r) \/ LogDue(r)
  PROVE  ~Committed(r)
<1> USE DEF LedgerInv, WorkInv, TableInv
<1>1. CASE Cut(r)
  BY <1>1 DEF Cut
<1>2. ASSUME NEW w \in Handler, Unreceipted(w), r.tx \in ToSet(job[w].txs) PROVE ~Committed(r)
  <2>1. job[w].pc \notin {"none", "find"}
    BY <1>2 DEF Unreceipted, Filling
  <2>2. phase \in {"run", "undo"}
    BY <2>1 DEF ProcessInv
  <2>3. CASE w = "block"
    <3>1. job["block"].pc # "none" /\ job["block"].pc # "find"
      BY <2>1, <2>3
    <3>2. /\ phase = "run" /\ block # NoBlock
          /\ \A s \in db.tx : Committed(s) => s.tx \notin BlockTx
      BY <2>2, <3>1, BlockFacts
    <3>3. ToSet(job["block"].txs) \subseteq BlockTx
      BY <3>1, <3>2, JobBlock
    <3> QED
      BY <1>2, <2>3, <3>2, <3>3
  <2>4. CASE w = "mempool"
    <3>1. running # NoTx
      BY <2>1, <2>4 DEF ProcessInv
    <3>2. job["mempool"].txs = <<running>>
      BY <3>1 DEF MempoolInv
    <3>3. r.tx = running
      <4>1. ToSet(<<running>>) = {running}
        BY DEF ToSet
      <4> QED
        BY <1>2, <2>4, <3>2, <4>1
    <3>4. running \in Queued
      BY <3>1 DEF Queued
    <3>5. running \notin ChainTx
      BY <3>4, <2>2, QueuedApart
    <3>6. storedTip \in Block
      BY DEF ProcessInv
    <3> QED
      BY <3>3, <3>5, <3>6, CommittedRows
  <2> QED
    BY <2>3, <2>4 DEF Handler
<1>3. CASE phase = "run" /\ block # NoBlock /\ job["block"].pc \notin {"tip", "commit"} /\ r.tx \in BlockTx
  <2>1. job["block"].pc # "none"
    BY <1>3 DEF BlockInv, BlockPlace
  <2> QED
    BY <1>3, <2>1, BlockFacts
<1> QED
  <2>1. CASE WitnessDue(r)
    BY <2>1, <1>1, <1>2 DEF WitnessDue, Unreceipted, Filling
  <2>2. CASE ReceiptDue(r)
    BY <2>2, <1>1, <1>2 DEF ReceiptDue
  <2>3. CASE LogDue(r)
    BY <2>3, <1>1, <1>3 DEF LogDue
  <2> QED
    BY <2>1, <2>2, <2>3

\* The process stops: what was under way is left.
LEMMA OrphansStop ==
  ASSUME LedgerInv, OrphanInv, NEW reason, Stop(reason)
  PROVE  OrphanInv'
<1>1. /\ db' = db /\ storedTip' = storedTip /\ phase' = "down"
      /\ job' = [w \in Handler |-> NoJob]
  BY DEF Stop, tips
<1>2. \A r : ~Committed(r) => Cut(r)'
  BY <1>1 DEF Cut, Committed, H
<1>3. \A r \in db.tx : /\ WitnessDue(r) => WitnessDue(r)'
                       /\ ReceiptDue(r) => ReceiptDue(r)'
                       /\ LogDue(r) => LogDue(r)'
  <2>1. \A r \in db.tx : WitnessDue(r) \/ ReceiptDue(r) \/ LogDue(r) => Cut(r)'
    BY <1>2, UnderWay
  <2> QED
    BY <2>1 DEF WitnessDue, ReceiptDue, LogDue
<1>4. \A x, r : Lagging(x, r) => LogDue(r)'
  BY <1>2 DEF Lagging, LogDue
<1>5. \A l, r : Stale(l, r) => Stale(l, r)'
  <2>1. \A l, r : Stale(l, r) => Cut(r)' /\ l.height > H
    BY <1>2 DEF Stale, Cut
  <2>2. H' = H
    BY <1>1 DEF H
  <2> QED
    BY <2>1, <2>2 DEF Stale
<1>6. IdsInv'
  BY <1>1 DEF IdsInv, NoJob
<1>7. db.next \in Nat
  BY DEF LedgerInv, TableInv, ShapeInv
<1>8. db'.next \in Nat /\ db'.next >= db.next
  BY <1>1, <1>7
<1> QED
  BY <1>1, <1>3, <1>4, <1>5, <1>6, <1>7, <1>8, OrphansStill

\* The tables that these properties are about.
SameRows(d) ==
  /\ d.tx = db.tx /\ d.witness = db.witness /\ d.receipts = db.receipts /\ d.logs = db.logs
  /\ d.next \in Nat /\ d.next >= db.next

\* A step of the process, which leaves the handlers alone.
LEMMA OrphansProcess ==
  ASSUME LedgerInv, OrphanInv, SameRows(db'), job' = job,
         \/ /\ storedTip' = storedTip /\ phase \in {"down", "clean"}
            /\ phase' = "clean" \/ \A r \in db.tx : Committed(r)
         \/ phase = "run" /\ block = NoBlock
         \/ phase = "undo" /\ storedTip' = storedTip /\ block' = block /\ phase' = "undo"
            /\ step' = step + 1 /\ step \notin {4, 6, 7}
         \/ phase = "undo" /\ step \notin 4 .. 7
         \/ UNCHANGED <<storedTip, phase, step, block>>
  PROVE  OrphanInv'
<1> USE DEF LedgerInv, WorkInv, TableInv
<1>1. db.next \in Nat
  BY DEF ShapeInv
<1>2. \A r : /\ ~Cut(r) /\ WitnessDue(r) => WitnessDue(r)'
             /\ ~Cut(r) /\ ReceiptDue(r) => ReceiptDue(r)'
  BY DEF WitnessDue, ReceiptDue, Unreceipted, Filling
<1>3. IdsInv'
  BY DEF OrphanInv, IdsInv, IdsRight, SameRows
<1>4. CASE /\ storedTip' = storedTip /\ phase \in {"down", "clean"}
           /\ phase' = "clean" \/ \A r \in db.tx : Committed(r)
  <2>1. \A r \in db.tx : Cut(r) => Cut(r)'
    BY <1>4 DEF Cut, Committed, H
  <2>2. \A r \in db.tx : LogDue(r) => LogDue(r)'
    BY <1>4, <2>1 DEF LogDue
  <2>3. \A x, r : ~Lagging(x, r)
    BY <1>4 DEF Lagging
  <2>4. \A l \in db.logs, r \in db.tx : Stale(l, r) => Stale(l, r)'
    BY <1>4, <2>1 DEF Stale, H
  <2>5. \A r \in db.tx : /\ WitnessDue(r) => WitnessDue(r)'
                         /\ ReceiptDue(r) => ReceiptDue(r)'
    BY <1>2, <2>1 DEF WitnessDue, ReceiptDue
  <2> QED
    BY <1>1, <1>3, <2>2, <2>3, <2>4, <2>5, OrphansStill DEF SameRows
<1>5. CASE phase = "run" /\ block = NoBlock
  <2>1. \A x, r : ~Cut(r) /\ ~LogDue(r) /\ ~Lagging(x, r) /\ ~Stale(x, r)
    BY <1>5 DEF Cut, LogDue, Lagging, Stale
  <2> QED
    BY <1>1, <1>2, <1>3, <2>1, OrphansStill DEF SameRows
<1>6. CASE phase = "undo" /\ storedTip' = storedTip /\ block' = block /\ phase' = "undo"
            /\ step' = step + 1 /\ step \notin {4, 6, 7}
  <2>1. \A r : ~Cut(r) /\ ~LogDue(r)
    BY <1>6 DEF Cut, LogDue
  <2>2. step \in 1 .. 10
    BY <1>6 DEF ProcessInv, UndoStatements
  <2>3. step \in {5, 6} => step' \in {5, 6}
    BY <1>6, <2>2
  <2>4. step \in 5 .. 7 => step' \in 5 .. 7
    BY <1>6, <2>2
  <2>5. \A x, r : Lagging(x, r) => Lagging(x, r)'
    BY <1>6, <2>3 DEF Lagging, Committed, H
  <2>6. \A x, r : Stale(x, r) => Stale(x, r)'
    <3>1. AroundTx' = AroundTx
      BY <1>6 DEF AroundTx, Around
    <3> QED
      BY <1>6, <2>1, <2>4, <3>1 DEF Stale, Committed, H
  <2> QED
    BY <1>1, <1>2, <1>3, <2>1, <2>5, <2>6, OrphansStill DEF SameRows
<1>7. CASE phase = "undo" /\ step \notin 4 .. 7
  <2>1. \A x, r : ~Cut(r) /\ ~LogDue(r) /\ ~Lagging(x, r) /\ ~Stale(x, r)
    BY <1>7 DEF Cut, LogDue, Lagging, Stale
  <2> QED
    BY <1>1, <1>2, <1>3, <2>1, OrphansStill DEF SameRows
<1>8. CASE UNCHANGED <<storedTip, phase, step, block>>
  <2>1. \A r : Cut(r) => Cut(r)'
    BY <1>8 DEF Cut, Committed, H
  <2>2. \A r : LogDue(r) => LogDue(r)'
    BY <1>8, <2>1 DEF LogDue, BlockTx
  <2>3. \A x, r : /\ Lagging(x, r) => Lagging(x, r)'
                  /\ Stale(x, r) => Stale(x, r)'
    BY <1>8 DEF Lagging, Stale, Cut, AroundTx, Around, Committed, H
  <2>4. \A r \in db.tx : /\ WitnessDue(r) => WitnessDue(r)'
                         /\ ReceiptDue(r) => ReceiptDue(r)'
    BY <1>2, <2>1 DEF WitnessDue, ReceiptDue
  <2> QED
    BY <1>1, <1>3, <2>2, <2>3, <2>4, OrphansStill DEF SameRows
<1> QED
  BY <1>4, <1>5, <1>6, <1>7, <1>8

\* The steps of the process that write none of the tables.
LEMMA OrphansPlain ==
  ASSUME LedgerInv, OrphanInv,
         \/ Start \/ StoreStartTip \/ OnSynced \/ Crash
         \/ \E b \in Block : GoBack(b) \/ BeginBlock(b)
         \/ Commit \/ UNCHANGED vars
  PROVE  OrphanInv'
<1> USE DEF LedgerInv, WorkInv, TableInv
<1>1. db' = db => SameRows(db')
  BY DEF SameRows, ShapeInv
<1>2. CASE Start
  BY <1>1, <1>2, OrphansProcess DEF Start, tips
<1>3. CASE StoreStartTip
  <2>1. \A r \in db.tx : Committed(r)
    <3>1. step \in 1 .. 6 /\ phase = "clean" /\ step > 5
      BY <1>3 DEF StoreStartTip, ProcessInv, CleanStatements
    <3>2. step > 4
      BY <3>1
    <3> QED
      BY <3>1, <3>2 DEF CleanInv
  <2> QED
    BY <1>1, <1>3, <2>1, OrphansProcess DEF StoreStartTip
<1>4. CASE OnSynced \/ UNCHANGED vars
  BY <1>1, <1>4, OrphansProcess DEF OnSynced, vars, tips, process
<1>5. CASE Crash
  BY <1>5, OrphansStop DEF Crash
<1>6. CASE \E b \in Block : GoBack(b)
  BY <1>1, <1>6, OrphansProcess DEF GoBack
<1>7. ASSUME NEW w, w = "block", phase = "run", job["block"].pc \in {"none", "commit"}, db' = db,
             phase' = "run",
             block = NoBlock \/ job["block"].pc = "commit",
             job'["mempool"] = job["mempool"],
             job'["block"].pc \in {"none", "find", "replace"}
      PROVE  OrphanInv'
  <2>1. \A r : ~Cut(r) /\ ~LogDue(r)
    BY <1>7 DEF Cut, LogDue
  <2>2. \A x, r : ~Lagging(x, r) /\ ~Stale(x, r)
    BY <1>7, <2>1 DEF Lagging, Stale
  <2>3. \A r : /\ WitnessDue(r) => WitnessDue(r)'
               /\ ReceiptDue(r) => ReceiptDue(r)'
    BY <1>7, <2>1 DEF WitnessDue, ReceiptDue, Unreceipted, Filling, Handler
  <2>4. IdsInv'
    BY <1>7 DEF OrphanInv, IdsInv, IdsRight, Handler
  <2> QED
    BY <1>1, <1>7, <2>1, <2>2, <2>3, <2>4, OrphansStill DEF SameRows, ShapeInv
<1>8. DOMAIN job = Handler /\ "block" \in Handler /\ "mempool" \in Handler
  BY DEF ProcessInv, Handler
<1>9. CASE \E b \in Block : BeginBlock(b)
  <2>1. PICK b \in Block : BeginBlock(b)
    BY <1>9
  <2> DEFINE j == [NoJob EXCEPT !.pc = IF synced THEN "find" ELSE "replace", !.txs = Contents[b]]
  <2>2. phase = "run" /\ block = NoBlock /\ db' = db /\ phase' = phase /\ job' = [job EXCEPT !["block"] = j]
    BY <2>1 DEF BeginBlock
  <2>3. job["block"].pc = "none"
    BY <2>2 DEF ProcessInv
  <2>4. j.pc \in {"find", "replace"}
    BY DEF NoJob
  <2> HIDE DEF j
  <2>5. job'["mempool"] = job["mempool"] /\ job'["block"] = j
    BY <1>8, <2>2
  <2> QED
    BY <1>7, <2>2, <2>3, <2>4, <2>5
<1>10. CASE Commit
  <2>1. /\ phase \in {"run", "undo"} /\ job["block"].pc = "commit" /\ db' = db /\ phase' = phase
        /\ job' = [job EXCEPT !["block"] = NoJob]
    BY <1>10 DEF Commit, Writing
  <2>2. phase = "run"
    BY <2>1 DEF ProcessInv
  <2>3. job'["mempool"] = job["mempool"] /\ job'["block"] = NoJob
    BY <1>8, <2>1
  <2>4. NoJob.pc = "none"
    BY DEF NoJob
  <2> QED
    BY <1>7, <2>1, <2>2, <2>3, <2>4
<1> QED
  BY <1>2, <1>3, <1>4, <1>5, <1>6, <1>9, <1>10

\* The steps of the handlers that write none.
LEMMA OrphansTurn ==
  ASSUME LedgerInv, OrphanInv,
         \/ FindUnconfirmed \/ Number \/ StoreTxTip
         \/ \E w \in Handler : FindAddresses(w)
         \/ \E t \in Relayed : Deliver(t)
         \/ Validate \/ FinishTransaction
  PROVE  OrphanInv'
<1> USE DEF LedgerInv, WorkInv, TableInv
<1>1. db' = db => SameRows(db')
  BY DEF SameRows, ShapeInv
<1>2. DOMAIN job = Handler /\ "block" \in Handler /\ "mempool" \in Handler
  BY DEF ProcessInv, Handler
<1>3. \A w \in Handler : DOMAIN job[w] = JobFields
  BY DEF ProcessInv, JobFields
<1>4. ASSUME NEW w \in Handler, UNCHANGED <<storedTip, phase, step, block>>, db' = db,
             \A v \in Handler : v # w => job'[v] = job[v],
             job[w].pc # "witness",
             Unreceipted(w) => Unreceipted(w)' /\ job'[w].txs = job[w].txs,
             w = "block" /\ job'[w].pc \in {"tip", "commit"} => job[w].pc \in {"tip", "commit"},
             job'[w].pc \notin {"adjust", "balances", "receipts"}
      PROVE  OrphanInv'
  BY <1>1, <1>4, OrphansHandle DEF SameRows
<1>5. CASE FindUnconfirmed
  <2> DEFINE txs == Contents[block]
             found == Named(db, {txs[n] : n \in Generated(block) + 1 .. Len(txs)})
             new == {n \in DOMAIN txs : \A r \in found : r.tx # txs[n]}
             j == [job["block"] EXCEPT !.pc = IF found = {} THEN "replace" ELSE "adopt",
                     !.found = Ids(found), !.txs = Picked(txs, new), !.todo = Picked(txs, new \ {1})]
  <2>1. /\ job["block"].pc = "find" /\ db' = db /\ job' = [job EXCEPT !["block"] = j]
        /\ UNCHANGED <<tips, process>>
    BY <1>5 DEF FindUnconfirmed, Writing
  <2>2. j.pc \in {"replace", "adopt"}
    BY <1>2, <1>3 DEF JobFields
  <2> HIDE DEF j
  <2>3. job'["block"] = j /\ job'["mempool"] = job["mempool"]
    BY <1>2, <2>1
  <2>4. ~Unreceipted("block")
    BY <2>1 DEF Unreceipted, Filling
  <2> QED
    BY <1>2, <1>4, <2>1, <2>2, <2>3, <2>4 DEF tips, process, Handler
<1>6. CASE Number
  <2> DEFINE ids == Numbered(db, job["block"].txs)
  <2>1. /\ job["block"].pc = "number" /\ db' = db
        /\ job' = [job EXCEPT !["block"].pc = "addresses", !["block"].ids = ids]
        /\ UNCHANGED <<tips, process>>
    BY <1>6 DEF Number, Writing
  <2> HIDE DEF ids
  <2>2. job'["block"].pc = "addresses" /\ job'["block"].txs = job["block"].txs /\ job'["mempool"] = job["mempool"]
    BY <1>2, <1>3, <2>1 DEF JobFields
  <2>3. Unreceipted("block")'
    BY <2>2 DEF Unreceipted, Filling
  <2> QED
    BY <1>2, <1>4, <2>1, <2>2, <2>3 DEF tips, process, Handler
<1>7. CASE StoreTxTip
  <2>1. /\ job["block"].pc = "tip" /\ db' = db
        /\ job' = [job EXCEPT !["block"].pc = "commit"]
        /\ UNCHANGED <<storedTip, process>>
    BY <1>7 DEF StoreTxTip, Writing, Goes
  <2>2. job'["block"].pc = "commit" /\ job'["mempool"] = job["mempool"]
    BY <1>2, <1>3, <2>1 DEF JobFields
  <2>3. ~Unreceipted("block")
    BY <2>1 DEF Unreceipted, Filling
  <2> QED
    BY <1>2, <1>4, <2>1, <2>2, <2>3 DEF process, Handler
<1>8. CASE \E w \in Handler : FindAddresses(w)
  <2>1. PICK w \in Handler : FindAddresses(w)
    BY <1>8
  <2> DEFINE known == Paid(job[w].txs) \cap {a.address : a \in db.addresses}
  <2>2. /\ job[w].pc = "addresses" /\ db' = db
        /\ job' = [job EXCEPT ![w].pc = "new", ![w].known = known]
        /\ UNCHANGED <<tips, process>>
    BY <2>1 DEF FindAddresses, Writing
  <2> HIDE DEF known
  <2>3. /\ job'[w].pc = "new" /\ job'[w].txs = job[w].txs
        /\ \A v \in Handler : v # w => job'[v] = job[v]
    BY <1>2, <1>3, <2>2 DEF JobFields
  <2>4. Unreceipted(w)'
    BY <2>3 DEF Unreceipted, Filling
  <2> QED
    BY <1>4, <2>2, <2>3, <2>4 DEF tips, process
<1>9. CASE Validate
  <2>1. PICK pc \in {"replace", "done"} : Goes("mempool", pc)
    BY <1>9 DEF Validate
  <2>2. /\ job["mempool"].pc = "validate" /\ db' = db
        /\ job' = [job EXCEPT !["mempool"].pc = pc]
        /\ UNCHANGED <<tips, process>>
    BY <1>9, <2>1 DEF Validate, Writing, Goes
  <2>3. job'["mempool"].pc = pc /\ job'["block"] = job["block"]
    BY <1>2, <1>3, <2>2 DEF JobFields
  <2>4. ~Unreceipted("mempool")
    BY <2>2 DEF Unreceipted, Filling
  <2> QED
    BY <1>2, <1>4, <2>1, <2>2, <2>3, <2>4 DEF tips, process, Handler
<1>10. CASE FinishTransaction
  <2> DEFINE j == IF waiting = <<>> THEN NoJob ELSE Begin(Last(waiting))
  <2>1. job' = [job EXCEPT !["mempool"] = j]
    BY <1>10 DEF FinishTransaction
  <2>5. j.pc \in {"none", "validate"}
    <3>1. NoJob.pc = "none" /\ Begin(Last(waiting)).pc = "validate"
      BY DEF NoJob, Begin
    <3> QED
      BY <3>1
  <2> HIDE DEF j
  <2>2. job["mempool"].pc = "done" /\ db' = db /\ UNCHANGED <<tips, process>>
    BY <1>10 DEF FinishTransaction, Writing
  <2>3. job'["mempool"] = j /\ job'["block"] = job["block"]
    BY <1>2, <2>1
  <2>4. ~Unreceipted("mempool")
    BY <2>2 DEF Unreceipted, Filling
  <2> QED
    BY <1>2, <1>4, <2>2, <2>3, <2>4, <2>5 DEF tips, process, Handler
<1>11. CASE \E t \in Relayed : Deliver(t)
  <2>1. PICK t \in Relayed : Deliver(t)
    BY <1>11
  <2>2. db' = db /\ UNCHANGED <<storedTip, phase, step, block>>
    BY <2>1 DEF Deliver, tips, process
  <2>3. CASE running = NoTx
    <3>1. job["mempool"].pc = "none"
      BY <2>3 DEF ProcessInv
    <3>2. job' = [job EXCEPT !["mempool"] = Begin(t)] /\ Begin(t).pc = "validate"
      BY <2>1, <2>3 DEF Deliver, Begin, NoJob
    <3>3. job'["mempool"] = Begin(t) /\ job'["block"] = job["block"]
      BY <1>2, <3>2
    <3>4. ~Unreceipted("mempool")
      BY <3>1 DEF Unreceipted, Filling
    <3> QED
      BY <1>2, <1>4, <2>2, <3>1, <3>2, <3>3, <3>4 DEF Handler
  <2>4. CASE running # NoTx
    BY <1>1, <2>1, <2>2, <2>4, OrphansProcess DEF Deliver
  <2> QED
    BY <2>3, <2>4
<1> QED
  BY <1>5, <1>6, <1>7, <1>8, <1>9, <1>10, <1>11

\* The statements on the other tables.
OtherSteps ==
  {<<"adopt", "spend">>, <<"spend", "lower">>, <<"lower", "replace">>, <<"new", "insert">>,
   <<"insert", "link">>, <<"link", "adjust">>, <<"link", "balances">>, <<"adjust", "balances">>,
   <<"balances", "receipts">>}

\* A statement on them.
LEMMA OrphansStatement ==
  ASSUME LedgerInv, OrphanInv, NEW w \in Handler, NEW pc, NEW next, NEW d,
         Statement(w, pc, next, d), SameRows(d), <<pc, next>> \in OtherSteps
  PROVE  OrphanInv'
<1> USE DEF LedgerInv, WorkInv, TableInv
<1>1. /\ Handles(w) /\ job[w].pc = pc /\ job'[w].pc = next /\ db' = d
      /\ job'[w].ids = job[w].ids /\ job'[w].txs = job[w].txs
      /\ \A v \in Handler : v # w => job'[v] = job[v]
  <2>1. pc # "none"
    BY DEF OtherSteps
  <2> QED
    BY <2>1, StatementHandles
<1>2. UNCHANGED <<storedTip, phase, step, block>>
  BY <1>1 DEF Handles
<1>3. pc # "witness" /\ next \notin {"tip", "commit"}
  BY DEF OtherSteps
<1>4. Unreceipted(w) => Unreceipted(w)'
  <2>1. Unreceipted(w) => pc \in {"witness", "number", "addresses", "new", "insert", "link",
                                  "adjust", "balances", "receipts"}
    BY <1>1 DEF Unreceipted, Filling
  <2>2. Unreceipted(w) => next \in {"insert", "link", "adjust", "balances", "receipts"}
    BY <2>1 DEF OtherSteps
  <2> QED
    BY <1>1, <2>2 DEF Unreceipted, Filling
<1>5. next \in {"adjust", "balances", "receipts"} => IdsRight(job[w])'
  <2>1. next \in {"adjust", "balances", "receipts"} => pc \in {"link", "adjust", "balances"}
    BY DEF OtherSteps
  <2>2. next \in {"adjust", "balances", "receipts"} => IdsRight(job[w])
    BY <1>1, <2>1 DEF WriteInv, OrphanInv, IdsInv
  <2> QED
    BY <1>1, <2>2 DEF IdsRight, SameRows
<1> QED
  BY <1>1, <1>2, <1>3, <1>4, <1>5, OrphansHandle DEF SameRows

\* What they leave alone.
LEMMA OtherRows ==
  ASSUME ShapeInv
  PROVE  /\ \A ids, h : /\ SameRows(Adopted(db, ids, h)) /\ SameRows(Spent(db, ids, h))
                        /\ SameRows(Lowered(db, ids, h))
         /\ \A new, h : IsFiniteSet(new) => SameRows(WithAddresses(db, new, h))
         /\ \A j, h : SameRows(Inserted(db, j, h))
         /\ \A ts : SameRows(Linked(db, ts))
         /\ \A h : SameRows(Adjusted(db, h))
         /\ \A rows : SameRows([db EXCEPT !.balances = @ \cup rows])
<1>1. DOMAIN db = {"tx", "outs", "ins", "balances", "witness", "receipts", "logs", "spends",
                   "refunds", "addresses", "next"} /\ db.next \in Nat
  BY DEF ShapeInv
<1>2. \A x : /\ SameRows([db EXCEPT !.outs = x]) /\ SameRows([db EXCEPT !.addresses = x])
             /\ SameRows([db EXCEPT !.balances = x])
  BY <1>1 DEF SameRows
<1>3. \A x, y : /\ SameRows([db EXCEPT !.outs = x, !.ins = y])
                /\ SameRows([db EXCEPT !.ins = y, !.outs = x])
  BY <1>1 DEF SameRows
<1>4. \A x, n : n \in Nat => SameRows([db EXCEPT !.addresses = x, !.next = @ + n])
  BY <1>1 DEF SameRows
<1>5. \A ids, h : SameRows(Adopted(db, ids, h))
  BY <1>3, Zenon DEF Adopted
<1>6. \A ids, h : SameRows(Spent(db, ids, h))
  BY <1>2, Zenon DEF Spent
<1>7. \A ids, h : SameRows(Lowered(db, ids, h))
  BY <1>2, Zenon DEF Lowered
<1>8. \A new, h : IsFiniteSet(new) => SameRows(WithAddresses(db, new, h))
  BY <1>4, SetToSeqLen, Zenon DEF WithAddresses
<1>9. \A j, h : SameRows(Inserted(db, j, h))
  BY <1>3, Zenon DEF Inserted
<1>10. \A ts : SameRows(Linked(db, ts))
  BY <1>3, Zenon DEF Linked
<1>11. \A h : SameRows(Adjusted(db, h))
  BY <1>2, Zenon DEF Adjusted
<1>12. \A rows : SameRows([db EXCEPT !.balances = @ \cup rows])
  BY <1>2, Zenon
<1> QED
  BY <1>5, <1>6, <1>7, <1>8, <1>9, <1>10, <1>11, <1>12

\* They keep the witnesses, the receipts and the logs.
LEMMA OrphansTables ==
  ASSUME LedgerInv, OrphanInv, NEW w \in Handler,
         Adopt \/ Spend \/ Lower \/ Adjust \/ CreateAddresses(w) \/ Insert(w) \/ Link(w)
         \/ CreateBalances(w)
  PROVE  OrphanInv'
<1>1. "block" \in Handler /\ ShapeInv
  BY DEF Handler, LedgerInv, TableInv
<1>2. CASE \E reason : Stop(reason)
  BY <1>2, OrphansStop
<1>3. CASE \E v \in Handler : \E pc, next, d :
             Statement(v, pc, next, d) /\ <<pc, next>> \in OtherSteps /\ SameRows(d)
  BY <1>3, OrphansStatement
<1>4. CASE Adopt \/ Spend \/ Lower
  BY <1>1, <1>3, <1>4, OtherRows DEF Adopt, Spend, Lower, OtherSteps
<1>5. CASE Adjust
  BY <1>1, <1>3, <1>5, OtherRows DEF Adjust, OtherSteps
<1>6. CASE CreateAddresses(w)
  <2> DEFINE new == Paid(job[w].txs) \ job[w].known
  <2>1. CASE \E reason : Stop(reason)
    BY <1>2, <2>1
  <2>2. CASE Statement(w, "new", "insert", WithAddresses(db, new, Height(w)))
    <3>1. phase \in {"run", "undo"} /\ job[w].pc = "new"
      BY <2>2 DEF Statement, Writing
    <3>2. IsFiniteSet(new)
      <4>1. job[w].txs \in Seq(Tx)
        BY <3>1, JobTxs
      <4> QED
        BY <4>1, PaidFinite, FS_Subset
    <3> HIDE DEF new
    <3> QED
      BY <1>1, <1>3, <2>2, <3>2, OtherRows DEF OtherSteps
  <2> QED
    BY <1>6, <2>1, <2>2 DEF CreateAddresses, Refused
<1>7. CASE Insert(w)
  BY <1>1, <1>2, <1>3, <1>7, OtherRows DEF Insert, Refused, OtherSteps
<1>8. CASE Link(w)
  <2>1. PICK next \in {"adjust", "balances"} : Statement(w, "link", next, Linked(db, job[w].txs))
    BY <1>8 DEF Link
  <2> QED
    BY <1>1, <1>3, <2>1, OtherRows DEF OtherSteps
<1>9. CASE CreateBalances(w)
  BY <1>1, <1>2, <1>3, <1>9, OtherRows DEF CreateBalances, Refused, OtherSteps
<1> QED
  BY <1>4, <1>5, <1>6, <1>7, <1>8, <1>9

\* A step that removes transactions, with their witnesses and logs.
LEMMA OrphansFewer ==
  ASSUME LedgerInv, OrphanInv, db'.next = db.next, NEW gone, gone \subseteq db.tx,
         db'.tx = db.tx \ gone, db'.witness = db.witness \ {r.tx : r \in gone},
         \A x \in db'.receipts : x \in db.receipts,
         \A x \in db.receipts : x.id \notin Ids(gone) => x \in db'.receipts,
         \A l \in db'.logs : l \in db.logs /\ l.receipt \notin Ids(gone),
         \A l \in db.logs : l.receipt \notin Ids(gone) => l \in db'.logs,
         \A r \in db.tx \ gone : /\ WitnessDue(r) => WitnessDue(r)'
                                 /\ ReceiptDue(r) => ReceiptDue(r)'
                                 /\ LogDue(r) => LogDue(r)',
         \A x, r : /\ Lagging(x, r) => Lagging(x, r)'
                   /\ Stale(x, r) => Stale(x, r)',
         IdsInv'
  PROVE  OrphanInv'
<1>1. \A r \in db.tx : (r.id \in Ids(gone) <=> r \in gone) /\ (r.tx \in {s.tx : s \in gone} <=> r \in gone)
  BY DEF Ids, LedgerInv, TableInv, KeyInv
<1>2. WitnessInv'
  <2>1. ASSUME NEW t \in db'.witness PROVE t \in Segwit /\ \E r \in db'.tx : r.tx = t
    <3>1. t \in db.witness /\ t \notin {r.tx : r \in gone}
      OBVIOUS
    <3>2. t \in Segwit /\ \E r \in db.tx : r.tx = t
      BY <3>1 DEF OrphanInv, WitnessInv
    <3> QED
      BY <3>1, <3>2
  <2>2. ASSUME NEW r \in db'.tx, r.tx \in Segwit PROVE r.tx \in db'.witness \/ WitnessDue(r)'
    <3>1. r \in db.tx /\ r \notin gone
      OBVIOUS
    <3>2. r.tx \in db.witness \/ WitnessDue(r)
      BY <2>2, <3>1 DEF OrphanInv, WitnessInv
    <3> QED
      BY <1>1, <3>1, <3>2
  <2> QED
    BY <2>1, <2>2 DEF WitnessInv
<1>3. ReceiptInv'
  <2>1. \A x \in db'.receipts :
          /\ x = [id |-> x.id, height |-> x.height, index |-> x.index]
          /\ x.id \in 0 .. db'.next /\ x.height \in Nat
    BY DEF OrphanInv, ReceiptInv
  <2>2. \A x \in db'.receipts, r \in db'.tx : x.id = r.id =>
          /\ r.tx \in Contract
          /\ (x.height = r.height /\ x.index = r.index) \/ LogDue(r)' \/ Lagging(x, r)'
    BY DEF OrphanInv, ReceiptInv
  <2>3. ASSUME NEW r \in db'.tx, r.tx \in Contract
        PROVE  (\E x \in db'.receipts : x.id = r.id) \/ ReceiptDue(r)'
    <3>1. r \in db.tx /\ r \notin gone
      OBVIOUS
    <3>2. (\E x \in db.receipts : x.id = r.id) \/ ReceiptDue(r)
      BY <2>3, <3>1 DEF OrphanInv, ReceiptInv
    <3> QED
      BY <1>1, <3>1, <3>2
  <2> QED
    BY <2>1, <2>2, <2>3 DEF ReceiptInv
<1>4. LogInv'
  <2>1. ASSUME NEW l \in db'.logs
        PROVE  /\ l = [receipt |-> l.receipt, height |-> l.height]
               /\ l.height \in Nat /\ l.height # Unconfirmed
               /\ \E r \in db'.tx : r.id = l.receipt /\ r.tx \in Contract /\ (r.height = l.height \/ Stale(l, r)')
    <3>1. l \in db.logs /\ l.receipt \notin Ids(gone)
      OBVIOUS
    <3>2. PICK r \in db.tx : r.id = l.receipt /\ r.tx \in Contract /\ (r.height = l.height \/ Stale(l, r))
      BY <3>1 DEF OrphanInv, LogInv
    <3>3. r \in db'.tx
      BY <1>1, <3>1, <3>2
    <3>4. l = [receipt |-> l.receipt, height |-> l.height] /\ l.height \in Nat /\ l.height # Unconfirmed
      BY <3>1 DEF OrphanInv, LogInv
    <3> QED
      BY <3>2, <3>3, <3>4
  <2>2. ASSUME NEW r \in db'.tx, r.tx \in Contract, r.height # Unconfirmed
        PROVE  [receipt |-> r.id, height |-> r.height] \in db'.logs \/ LogDue(r)'
    <3>1. r \in db.tx /\ r \notin gone
      OBVIOUS
    <3>2. [receipt |-> r.id, height |-> r.height] \in db.logs \/ LogDue(r)
      BY <2>2, <3>1 DEF OrphanInv, LogInv
    <3>3. r.id \notin Ids(gone)
      BY <1>1, <3>1
    <3> QED
      BY <3>1, <3>2, <3>3
  <2> QED
    BY <2>1, <2>2 DEF LogInv
<1> QED
  BY <1>2, <1>3, <1>4 DEF OrphanInv

\* The statements of start().
LEMMA OrphansClean ==
  ASSUME LedgerInv, OrphanInv, Clean
  PROVE  OrphanInv'
<1> USE DEF LedgerInv, WorkInv, TableInv
<1>1. /\ phase = "clean" /\ phase' = "clean" /\ step \in 1 .. 5 /\ storedTip' = storedTip
      /\ db' = Cleaned(step, db, H) /\ job' = job /\ storedTip \in Block
  BY CleanProcess DEF Clean
<1>2. CASE step # 4
  <2>1. SameRows(db')
    <3>1. DOMAIN db = {"tx", "outs", "ins", "balances", "witness", "receipts", "logs", "spends",
                       "refunds", "addresses", "next"} /\ db.next \in Nat
      BY DEF ShapeInv
    <3>2. \A x : /\ SameRows([db EXCEPT !.outs = x]) /\ SameRows([db EXCEPT !.ins = x])
                 /\ SameRows([db EXCEPT !.addresses = x])
      BY <3>1 DEF SameRows
    <3>3. step \in {1, 2, 3, 5}
      BY <1>1, <1>2
    <3>4. CASE step = 1
      <4> DEFINE rows == {o \in db.outs : o.height <= H}
      <4>1. db' = [db EXCEPT !.outs = rows]
        BY <1>1, <3>4 DEF Cleaned
      <4> HIDE DEF rows
      <4> QED
        BY <3>2, <4>1
    <3>5. CASE step = 2
      <4> DEFINE rows == Freed(db.outs, {i \in db.ins : i.height > H})
      <4>1. db' = [db EXCEPT !.outs = rows]
        BY <1>1, <3>5 DEF Cleaned
      <4> HIDE DEF rows
      <4> QED
        BY <3>2, <4>1
    <3>6. CASE step = 3
      <4> DEFINE rows == {i \in db.ins : i.height <= H}
      <4>1. db' = [db EXCEPT !.ins = rows]
        BY <1>1, <3>6 DEF Cleaned
      <4> HIDE DEF rows
      <4> QED
        BY <3>2, <4>1
    <3>7. CASE step = 5
      <4> DEFINE rows == {a \in db.addresses : a.create <= H}
      <4>1. db' = [db EXCEPT !.addresses = rows]
        BY <1>1, <3>7 DEF Cleaned
      <4> HIDE DEF rows
      <4> QED
        BY <3>2, <4>1
    <3> QED
      BY <3>3, <3>4, <3>5, <3>6, <3>7
  <2> QED
    BY <1>1, <2>1, OrphansProcess
<1>3. CASE step = 4
  <2> DEFINE dead == {r \in db.tx : r.height > H}
             witness == db.witness \ {r.tx : r \in dead}
             receipts == {x \in db.receipts : x.id \notin Ids(dead)}
             logs == {l \in db.logs : l.receipt \notin Ids(dead)}
             balances == {b \in db.balances : b.id \notin Ids(dead)}
             txs == db.tx \ dead
  <2>1. /\ db'.next = db.next /\ db'.tx = db.tx \ dead /\ db'.witness = witness
        /\ db'.receipts = receipts /\ db'.logs = logs
    <3>1. db' = [db EXCEPT !.tx = txs, !.witness = witness, !.receipts = receipts,
                           !.logs = logs, !.balances = balances]
      BY <1>1, <1>3 DEF Cleaned
    <3> HIDE DEF witness, receipts, logs, balances, txs
    <3>2. /\ db'.next = db.next /\ db'.tx = txs /\ db'.witness = witness
          /\ db'.receipts = receipts /\ db'.logs = logs
      BY <3>1 DEF ShapeInv
    <3> QED
      BY <3>2 DEF txs
  <2>2. \A r \in db.tx : Cut(r) => Cut(r)'
    BY <1>1 DEF Cut, Committed, H
  <2>3. \A r \in db.tx : /\ WitnessDue(r) => WitnessDue(r)'
                         /\ ReceiptDue(r) => ReceiptDue(r)'
    BY <1>1, <2>2 DEF WitnessDue, ReceiptDue, Unreceipted, Filling
  <2>4. \A r \in db.tx : LogDue(r) => LogDue(r)'
    BY <1>1, <2>2 DEF LogDue
  <2>5. \A x, r : /\ Lagging(x, r) => Lagging(x, r)'
                  /\ Stale(x, r) => Stale(x, r)'
    BY <1>1 DEF Lagging, Stale, Cut, Committed, H
  <2>6. IdsInv'
    BY <1>1 DEF IdsInv, ProcessInv
  <2>7. dead \subseteq db.tx
    OBVIOUS
  <2>8. \A x \in db'.receipts : x \in db.receipts
    BY <2>1
  <2>9. \A x \in db.receipts : x.id \notin Ids(dead) => x \in db'.receipts
    BY <2>1
  <2>10. \A l \in db'.logs : l \in db.logs /\ l.receipt \notin Ids(dead)
    BY <2>1
  <2>11. \A l \in db.logs : l.receipt \notin Ids(dead) => l \in db'.logs
    BY <2>1
  <2>12. db'.witness = db.witness \ {r.tx : r \in dead}
    BY <2>1
  <2> HIDE DEF dead, witness, receipts, logs
  <2> QED
    BY <2>1, <2>2, <2>3, <2>4, <2>5, <2>6, <2>7, <2>8, <2>9, <2>10, <2>11, <2>12, OrphansFewer
<1> QED
  BY <1>2, <1>3

\* In a reorganization nothing is due but what the mempool is writing.
LEMMA OrphansUndone ==
  ASSUME phase = "undo", phase' \in {"undo", "run"}, job' = job
  PROVE  /\ \A r : ~Cut(r) /\ ~Cut(r)' /\ ~LogDue(r)
         /\ \A r, s : r.tx = s.tx => /\ WitnessDue(r) => WitnessDue(s)'
                                     /\ ReceiptDue(r) => ReceiptDue(s)'
         /\ step \notin {5, 6} => \A x, r : ~Lagging(x, r)
         /\ step \notin 5 .. 7 => \A l, r : ~Stale(l, r)
<1>1. \A r : ~Cut(r) /\ ~Cut(r)' /\ ~LogDue(r)
  BY DEF Cut, LogDue
<1>2. \A r, s : r.tx = s.tx => /\ WitnessDue(r) => WitnessDue(s)'
                               /\ ReceiptDue(r) => ReceiptDue(s)'
  BY <1>1 DEF WitnessDue, ReceiptDue, Unreceipted, Filling
<1>3. step \notin {5, 6} => \A x, r : ~Lagging(x, r)
  BY DEF Lagging
<1>4. step \notin 5 .. 7 => \A l, r : ~Stale(l, r)
  BY <1>1 DEF Stale
<1> QED
  BY <1>1, <1>2, <1>3, <1>4

\* The coinbases and the stakes go.
LEMMA OrphansRemoved ==
  ASSUME Ordinary, LedgerInv, OrphanInv, Undo, step = 3
  PROVE  OrphanInv'
<1> USE DEF LedgerInv, WorkInv, TableInv
<1>1. /\ phase = "undo" /\ phase' = "undo" /\ job' = job
      /\ db' = Undone(3, db, H)
  BY UndoProcess
<1> DEFINE gone == Stakes \cup Coinbases
           outs == {o \in db.outs : o.id \notin Ids(gone)}
           ins == {i \in db.ins : i.id \notin Ids(gone)}
           txs == db.tx \ gone
           wit == db.witness \ {r.tx : r \in gone}
           bal == {b \in db.balances : b.id \notin Ids(gone)}
<1>2. /\ db'.next = db.next /\ db'.tx = db.tx \ gone /\ db'.witness = db.witness \ {r.tx : r \in gone}
      /\ db'.receipts = db.receipts /\ db'.logs = db.logs
  <2>1. db' = [db EXCEPT !.tx = txs, !.witness = wit, !.outs = outs, !.ins = ins, !.balances = bal]
    BY <1>1 DEF Undone, Stakes, Coinbases, Above
  <2> HIDE DEF outs, ins, txs, wit, bal
  <2>2. /\ db'.next = db.next /\ db'.tx = txs /\ db'.witness = wit
        /\ db'.receipts = db.receipts /\ db'.logs = db.logs
    BY <2>1 DEF ShapeInv
  <2> QED
    BY <2>2 DEF txs, wit
<1>3. gone = {r \in db.tx : ~Committed(r) /\ r.tx \in AllGenerated}
  BY <1>1, UndoGenerated
<1> HIDE DEF gone
<1>4. \A l \in db.logs : l.receipt \notin Ids(gone)
  <2> TAKE l \in db.logs
  <2>1. PICK r \in db.tx : r.id = l.receipt /\ r.tx \in Contract
    BY DEF OrphanInv, LogInv
  <2>2. r \notin gone
    BY <1>3, <2>1 DEF Ordinary
  <2>3. \A s \in gone : s.id # r.id
    BY <1>3, <2>2 DEF KeyInv
  <2> QED
    BY <2>1, <2>3 DEF Ids
<1>5. /\ \A r \in db.tx \ gone : /\ WitnessDue(r) => WitnessDue(r)'
                                 /\ ReceiptDue(r) => ReceiptDue(r)'
                                 /\ LogDue(r) => LogDue(r)'
      /\ \A x, r : ~Lagging(x, r) /\ ~Stale(x, r)
  BY <1>1, OrphansUndone
<1>6. IdsInv'
  <2> SUFFICES ASSUME NEW w \in Handler, job[w].pc \in {"adjust", "balances", "receipts"}
               PROVE  IdsRight(job[w])'
    BY <1>1 DEF IdsInv
  <2>1. IdsRight(job[w])
    BY DEF OrphanInv, IdsInv
  <2>2. w = "mempool" /\ running # NoTx
    BY <1>1 DEF ProcessInv, Handler
  <2>3. job[w].txs = <<running>> /\ running \notin AllGenerated
    <3>1. running \in Relayed
      BY <2>2 DEF ProcessInv
    <3> QED
      BY <2>2, <3>1, RelayAssumption DEF MempoolInv, AllGenerated
  <2>4. \A n \in DOMAIN job[w].txs : job[w].txs[n] = running
    BY <2>3
  <2>5. \A n \in DOMAIN job[w].txs : \E r \in db'.tx : r.id = job[w].ids[n] /\ r.tx = job[w].txs[n]
    BY <1>2, <1>3, <2>1, <2>3, <2>4 DEF IdsRight
  <2> QED
    BY <1>1, <2>1, <2>5 DEF IdsRight
<1>7. gone \subseteq db.tx
  BY <1>3
<1> QED
  BY <1>2, <1>4, <1>5, <1>6, <1>7, OrphansFewer

\* The other transactions are unconfirmed again, their receipts and logs as yet not.
LEMMA OrphansRows ==
  ASSUME LedgerInv, OrphanInv, Undo, step = 4
  PROVE  OrphanInv'
<1> USE DEF LedgerInv, WorkInv, TableInv
<1>1. /\ phase = "undo" /\ phase' = "undo" /\ step' = 5 /\ block' = block
      /\ job' = job /\ storedTip' = storedTip
      /\ db' = Undone(4, db, H) /\ storedTip \in Block /\ block \in Block
  BY UndoProcess
<1>2. H' = H /\ \A x : Committed(x)' <=> Committed(x)
  BY <1>1 DEF H, Committed
<1>3. H \in Nat /\ H < Unconfirmed /\ Unconfirmed \in Nat
  BY <1>1, Heights
<1>4. Above = {r \in db.tx : ~Committed(r)}
  BY <1>1, UndoGenerated
<1> DEFINE new(r) == IF r \in Above THEN [r EXCEPT !.height = Unconfirmed, !.index = Unconfirmed] ELSE r
<1>5. /\ db'.next = db.next /\ db'.tx = {new(r) : r \in db.tx} /\ db'.witness = db.witness
      /\ db'.receipts = db.receipts /\ db'.logs = db.logs
  <2> DEFINE txs == {new(r) : r \in db.tx}
  <2> DEFINE rows == Update(db.tx, LAMBDA r : r \in Above,
                            LAMBDA r : [r EXCEPT !.height = Unconfirmed, !.index = Unconfirmed])
  <2>0. txs = rows
    BY Zenon DEF Update
  <2>1. db' = [db EXCEPT !.tx = rows]
    BY <1>1 DEF Undone, Above
  <2> HIDE DEF rows
  <2> HIDE DEF txs
  <2>2. /\ db'.next = db.next /\ db'.tx = txs /\ db'.witness = db.witness
        /\ db'.receipts = db.receipts /\ db'.logs = db.logs
    BY <2>0, <2>1 DEF ShapeInv
  <2> QED
    BY <2>2 DEF txs
<1>6. \A r \in db.tx : /\ new(r).id = r.id /\ new(r).tx = r.tx
                       /\ IF Committed(r) THEN new(r) = r ELSE new(r).height = Unconfirmed
  BY <1>4 DEF ShapeInv
<1> HIDE DEF new
<1>7. \A s \in db'.tx : \E r \in db.tx :
        s.id = r.id /\ s.tx = r.tx /\ IF Committed(r) THEN s = r ELSE s.height = Unconfirmed
  BY <1>5, <1>6
<1>8. \A r \in db.tx : \E s \in db'.tx :
        s.id = r.id /\ s.tx = r.tx /\ IF Committed(r) THEN s = r ELSE s.height = Unconfirmed
  BY <1>5, <1>6
<1>9. /\ \A r : ~LogDue(r)
      /\ \A r, s : r.tx = s.tx => /\ WitnessDue(r) => WitnessDue(s)'
                                  /\ ReceiptDue(r) => ReceiptDue(s)'
      /\ \A x, r : ~Lagging(x, r) /\ ~Stale(x, r)
  BY <1>1, OrphansUndone
<1>10. \A r \in db.tx : ~Committed(r) => r.height > H
  BY <1>3 DEF Committed, ShapeInv
<1>11. \A s : s.height = Unconfirmed => ~Committed(s)'
  BY <1>2, <1>3 DEF Committed
<1>12. WitnessInv'
  <2>1. \A t \in db'.witness : t \in Segwit /\ \E r \in db'.tx : r.tx = t
    <3> TAKE t \in db'.witness
    <3>1. PICK r \in db.tx : r.tx = t /\ t \in Segwit
      BY <1>5 DEF OrphanInv, WitnessInv
    <3> QED
      BY <1>8, <3>1
  <2>2. ASSUME NEW s \in db'.tx, s.tx \in Segwit PROVE s.tx \in db'.witness \/ WitnessDue(s)'
    <3>1. PICK r \in db.tx : s.tx = r.tx
      BY <1>7
    <3>2. r.tx \in db.witness \/ WitnessDue(r)
      BY <2>2, <3>1 DEF OrphanInv, WitnessInv
    <3> QED
      BY <1>5, <1>9, <3>1, <3>2
  <2> QED
    BY <2>1, <2>2 DEF WitnessInv
<1>13. ReceiptInv'
  <2>1. \A x \in db'.receipts :
          /\ x = [id |-> x.id, height |-> x.height, index |-> x.index]
          /\ x.id \in 0 .. db'.next /\ x.height \in Nat
    BY <1>5 DEF OrphanInv, ReceiptInv
  <2>2. ASSUME NEW x \in db'.receipts, NEW s \in db'.tx, x.id = s.id
        PROVE  s.tx \in Contract /\ ((x.height = s.height /\ x.index = s.index) \/ Lagging(x, s)')
    <3>1. PICK r \in db.tx :
            s.id = r.id /\ s.tx = r.tx /\ IF Committed(r) THEN s = r ELSE s.height = Unconfirmed
      BY <1>7
    <3>2. r.tx \in Contract /\ x.height = r.height /\ x.index = r.index
      BY <1>5, <1>9, <2>2, <3>1 DEF OrphanInv, ReceiptInv
    <3>3. CASE Committed(r)
      BY <3>1, <3>2, <3>3
    <3>4. CASE ~Committed(r)
      <4>1. ~Committed(s)' /\ x.height > H'
        BY <1>2, <1>10, <1>11, <3>1, <3>2, <3>4
      <4> QED
        BY <1>1, <3>1, <3>2, <4>1 DEF Lagging
    <3> QED
      BY <3>3, <3>4
  <2>3. ASSUME NEW s \in db'.tx, s.tx \in Contract
        PROVE  (\E x \in db'.receipts : x.id = s.id) \/ ReceiptDue(s)'
    <3>1. PICK r \in db.tx : s.id = r.id /\ s.tx = r.tx
      BY <1>7
    <3>2. (\E x \in db.receipts : x.id = r.id) \/ ReceiptDue(r)
      BY <2>3, <3>1 DEF OrphanInv, ReceiptInv
    <3> QED
      BY <1>5, <1>9, <3>1, <3>2
  <2> QED
    BY <2>1, <2>2, <2>3 DEF ReceiptInv
<1>14. LogInv'
  <2>1. ASSUME NEW l \in db'.logs
        PROVE  /\ l = [receipt |-> l.receipt, height |-> l.height]
               /\ l.height \in Nat /\ l.height # Unconfirmed
               /\ \E s \in db'.tx : s.id = l.receipt /\ s.tx \in Contract /\ (s.height = l.height \/ Stale(l, s)')
    <3>1. l \in db.logs
      BY <1>5
    <3>2. l = [receipt |-> l.receipt, height |-> l.height] /\ l.height \in Nat /\ l.height # Unconfirmed
      BY <3>1 DEF OrphanInv, LogInv
    <3>3. PICK r \in db.tx : r.id = l.receipt /\ r.tx \in Contract /\ r.height = l.height
      BY <1>9, <3>1 DEF OrphanInv, LogInv
    <3>4. PICK s \in db'.tx :
            s.id = r.id /\ s.tx = r.tx /\ IF Committed(r) THEN s = r ELSE s.height = Unconfirmed
      BY <1>8
    <3>5. CASE Committed(r)
      BY <3>2, <3>3, <3>4, <3>5
    <3>6. CASE ~Committed(r)
      <4>1. [tx |-> r.tx, height |-> r.height, index |-> r.index] \in ChainTxs(block)
        BY <1>1, <3>2, <3>3 DEF UndoInv
      <4>2. r.tx \in TxsUpTo(block, Depth[block])
        BY <1>1, <4>1, ChainTxsType
      <4>3. s.tx \in AroundTx'
        BY <1>1, <3>4, <4>2, TreeAssumption DEF AroundTx, Around
      <4>4. ~Committed(s)' /\ l.height > H'
        BY <1>2, <1>10, <1>11, <3>3, <3>4, <3>6
      <4>5. Stale(l, s)'
        BY <1>1, <4>3, <4>4 DEF Stale
      <4> QED
        BY <3>2, <3>3, <3>4, <4>5
    <3> QED
      BY <3>5, <3>6
  <2>2. ASSUME NEW s \in db'.tx, s.tx \in Contract, s.height # Unconfirmed
        PROVE  [receipt |-> s.id, height |-> s.height] \in db'.logs
    <3>1. s \in db.tx
      BY <1>7, <2>2
    <3> QED
      BY <1>5, <1>9, <2>2, <3>1 DEF OrphanInv, LogInv
  <2> QED
    BY <2>1, <2>2 DEF LogInv
<1>15. IdsInv'
  <2> SUFFICES ASSUME NEW w \in Handler, job[w].pc \in {"adjust", "balances", "receipts"}
               PROVE  IdsRight(job[w])'
    BY <1>1 DEF IdsInv
  <2>1. IdsRight(job[w])
    BY DEF OrphanInv, IdsInv
  <2>2. \A n \in DOMAIN job[w].txs : \E s \in db'.tx : s.id = job[w].ids[n] /\ s.tx = job[w].txs[n]
    BY <1>8, <2>1 DEF IdsRight
  <2> QED
    BY <1>1, <2>1, <2>2 DEF IdsRight
<1> QED
  BY <1>12, <1>13, <1>14, <1>15 DEF OrphanInv

\* Their receipts.
LEMMA OrphansReceipts ==
  ASSUME LedgerInv, OrphanInv, Undo, step = 6
  PROVE  OrphanInv'
<1> USE DEF LedgerInv, WorkInv, TableInv
<1>1. /\ phase = "undo" /\ phase' = "undo" /\ step' = 7 /\ block' = block
      /\ job' = job /\ storedTip' = storedTip
      /\ db' = Undone(6, db, H) /\ storedTip \in Block
  BY UndoProcess
<1>2. H' = H /\ \A x : Committed(x)' <=> Committed(x)
  BY <1>1 DEF H, Committed
<1>3. H \in Nat /\ H < Unconfirmed /\ Unconfirmed \in Nat
  BY <1>1, Heights
<1> DEFINE new(x) == IF x.height > H THEN [x EXCEPT !.height = Unconfirmed, !.index = Unconfirmed] ELSE x
<1>4. /\ db'.next = db.next /\ db'.tx = db.tx /\ db'.witness = db.witness
      /\ db'.receipts = {new(x) : x \in db.receipts} /\ db'.logs = db.logs
  <2> DEFINE recs == {new(x) : x \in db.receipts}
  <2> DEFINE rows == Update(db.receipts, LAMBDA r : r.height > H,
                            LAMBDA r : [r EXCEPT !.height = Unconfirmed, !.index = Unconfirmed])
  <2>0. recs = rows
    BY Zenon DEF Update
  <2>1. db' = [db EXCEPT !.receipts = rows]
    BY <1>1 DEF Undone
  <2> HIDE DEF rows
  <2> HIDE DEF recs
  <2>2. /\ db'.next = db.next /\ db'.tx = db.tx /\ db'.witness = db.witness
        /\ db'.receipts = recs /\ db'.logs = db.logs
    BY <2>0, <2>1 DEF ShapeInv
  <2> QED
    BY <2>2 DEF recs
<1>5. \A x \in db.receipts :
        /\ new(x) = [id |-> new(x).id, height |-> new(x).height, index |-> new(x).index]
        /\ new(x).id = x.id /\ new(x).height \in Nat
        /\ IF x.height > H THEN new(x).height = Unconfirmed /\ new(x).index = Unconfirmed ELSE new(x) = x
  <2> TAKE x \in db.receipts
  <2>1. x = [id |-> x.id, height |-> x.height, index |-> x.index] /\ x.height \in Nat
    BY DEF OrphanInv, ReceiptInv
  <2> QED
    BY <1>3, <2>1
<1> HIDE DEF new
<1>6. /\ \A r : ~LogDue(r) /\ ~Cut(r)
      /\ \A r, s : r.tx = s.tx => /\ WitnessDue(r) => WitnessDue(s)'
                                  /\ ReceiptDue(r) => ReceiptDue(s)'
  BY <1>1, OrphansUndone
<1>7. \A r \in db.tx : ~Committed(r) => r.height = Unconfirmed /\ r.index = Unconfirmed
  BY <1>1 DEF UndoInv, ShapeInv
<1>8. \A r \in db.tx : Committed(r) <=> ~(r.height > H)
  BY <1>3 DEF Committed, ShapeInv
<1>9. WitnessInv'
  BY <1>4, <1>6 DEF OrphanInv, WitnessInv
<1>10. ReceiptInv'
  <2>1. \A y \in db'.receipts :
          /\ y = [id |-> y.id, height |-> y.height, index |-> y.index]
          /\ y.id \in 0 .. db'.next /\ y.height \in Nat
    <3>1. \A x \in db.receipts : x.id \in 0 .. db.next
      BY DEF OrphanInv, ReceiptInv
    <3> QED
      BY <1>4, <1>5, <3>1
  <2>2. ASSUME NEW y \in db'.receipts, NEW r \in db'.tx, y.id = r.id
        PROVE  r.tx \in Contract /\ y.height = r.height /\ y.index = r.index
    <3>1. PICK x \in db.receipts :
            x.id = y.id /\ IF x.height > H THEN y.height = Unconfirmed /\ y.index = Unconfirmed ELSE y = x
      BY <1>4, <1>5
    <3>2. r \in db.tx
      BY <1>4
    <3>3. r.tx \in Contract /\ ((x.height = r.height /\ x.index = r.index) \/ Lagging(x, r))
      BY <1>6, <2>2, <3>1, <3>2 DEF OrphanInv, ReceiptInv
    <3>4. CASE Lagging(x, r)
      BY <1>7, <3>1, <3>2, <3>3, <3>4 DEF Lagging
    <3>5. CASE x.height = r.height /\ x.index = r.index
      BY <1>7, <1>8, <3>1, <3>2, <3>3, <3>5
    <3> QED
      BY <3>3, <3>4, <3>5
  <2>3. ASSUME NEW r \in db'.tx, r.tx \in Contract
        PROVE  (\E y \in db'.receipts : y.id = r.id) \/ ReceiptDue(r)'
    <3>1. (\E x \in db.receipts : x.id = r.id) \/ ReceiptDue(r)
      BY <1>4, <2>3 DEF OrphanInv, ReceiptInv
    <3> QED
      BY <1>4, <1>5, <1>6, <3>1
  <2> QED
    BY <2>1, <2>2, <2>3 DEF ReceiptInv
<1>11. \A l, r : Stale(l, r) => Stale(l, r)'
  <2>1. AroundTx' = AroundTx
    BY <1>1 DEF AroundTx, Around
  <2> QED
    BY <1>1, <1>2, <1>6, <2>1 DEF Stale
<1>12. LogInv'
  BY <1>4, <1>6, <1>11 DEF OrphanInv, LogInv
<1>13. IdsInv'
  BY <1>1, <1>4 DEF OrphanInv, IdsInv, IdsRight
<1> QED
  BY <1>9, <1>10, <1>12, <1>13 DEF OrphanInv

\* Their logs go.
LEMMA OrphansLogs ==
  ASSUME LedgerInv, OrphanInv, Undo, step = 7
  PROVE  OrphanInv'
<1> USE DEF LedgerInv, WorkInv, TableInv
<1>1. /\ phase = "undo" /\ phase' = "undo" /\ block' = block
      /\ job' = job /\ storedTip' = storedTip
      /\ db' = Undone(7, db, H) /\ storedTip \in Block
  BY UndoProcess
<1>2. /\ db'.next = db.next /\ db'.tx = db.tx /\ db'.witness = db.witness
      /\ db'.receipts = db.receipts /\ db'.logs = {l \in db.logs : l.height <= H}
  <2> DEFINE logs == {l \in db.logs : l.height <= H}
  <2>1. db' = [db EXCEPT !.logs = logs]
    BY <1>1 DEF Undone
  <2> HIDE DEF logs
  <2>2. /\ db'.next = db.next /\ db'.tx = db.tx /\ db'.witness = db.witness
        /\ db'.receipts = db.receipts /\ db'.logs = logs
    BY <2>1 DEF ShapeInv
  <2> QED
    BY <2>2 DEF logs
<1>3. /\ \A r : ~LogDue(r)
      /\ \A r, s : r.tx = s.tx => /\ WitnessDue(r) => WitnessDue(s)'
                                  /\ ReceiptDue(r) => ReceiptDue(s)'
      /\ \A x, r : ~Lagging(x, r)
  BY <1>1, OrphansUndone
<1>4. \A r \in db.tx : r.height # Unconfirmed => r.height <= H
  BY <1>1 DEF UndoInv, Committed
<1>5. WitnessInv'
  BY <1>2, <1>3 DEF OrphanInv, WitnessInv
<1>6. ReceiptInv'
  BY <1>2, <1>3 DEF OrphanInv, ReceiptInv
<1>7. LogInv'
  <2>1. H \in Nat
    BY <1>1, Heights
  <2>2. \A r : \A l \in db'.logs : ~Stale(l, r)
    <3>1. \A l \in db'.logs : l \in db.logs /\ l.height <= H /\ l.height \in Nat
      BY <1>2 DEF OrphanInv, LogInv
    <3> QED
      BY <2>1, <3>1 DEF Stale
  <2>3. ASSUME NEW l \in db'.logs
        PROVE  /\ l = [receipt |-> l.receipt, height |-> l.height]
               /\ l.height \in Nat /\ l.height # Unconfirmed
               /\ \E r \in db'.tx : r.id = l.receipt /\ r.tx \in Contract /\ r.height = l.height
    <3>1. l \in db.logs
      BY <1>2
    <3> QED
      BY <1>2, <2>2, <3>1 DEF OrphanInv, LogInv
  <2>4. \A r \in db'.tx : r.tx \in Contract /\ r.height # Unconfirmed =>
          [receipt |-> r.id, height |-> r.height] \in db'.logs
    BY <1>2, <1>3, <1>4 DEF OrphanInv, LogInv
  <2> QED
    BY <2>3, <2>4 DEF LogInv
<1>8. IdsInv'
  BY <1>1, <1>2 DEF OrphanInv, IdsInv, IdsRight
<1> QED
  BY <1>5, <1>6, <1>7, <1>8 DEF OrphanInv

\* Every statement of onReorg().
LEMMA OrphansUndo ==
  ASSUME Ordinary, LedgerInv, OrphanInv, Undo
  PROVE  OrphanInv'
<1> USE DEF LedgerInv, WorkInv, TableInv
<1>1. /\ phase = "undo" /\ step \in 1 .. 10 /\ job' = job /\ storedTip' = storedTip
      /\ db' = Undone(step, db, H)
      /\ IF step < 10 THEN phase' = "undo" /\ step' = step + 1 /\ block' = block
         ELSE phase' = "run" /\ block' = NoBlock
  BY UndoProcess
<1>2. DOMAIN db = {"tx", "outs", "ins", "balances", "witness", "receipts", "logs", "spends",
                   "refunds", "addresses", "next"} /\ db.next \in Nat
  BY DEF ShapeInv
<1>3. \A x, y : /\ SameRows([db EXCEPT !.outs = x]) /\ SameRows([db EXCEPT !.outs = x, !.ins = y])
                /\ SameRows([db EXCEPT !.balances = x]) /\ SameRows([db EXCEPT !.addresses = x])
                /\ SameRows([db EXCEPT !.refunds = x, !.spends = y])
  BY <1>2 DEF SameRows
<1>4. CASE step \in {1, 2, 5, 8, 9, 10}
  <2>1. SameRows(db')
    <3>1. CASE step = 1
      <4> DEFINE x == Freed(db.outs, {i \in db.ins : i.id \in Ids(Stakes)})
      <4>1. db' = [db EXCEPT !.outs = x]
        BY <1>1, <3>1 DEF Undone, Stakes, Above
      <4> HIDE DEF x
      <4> QED
        BY <1>3, <4>1
    <3>2. CASE step = 2
      <4> DEFINE x == {r \in db.refunds : r[1] \notin Ids(Above)}
                 y == {s \in db.spends : s[1] \notin Ids(Above)}
      <4>1. db' = [db EXCEPT !.refunds = x, !.spends = y]
        BY <1>1, <3>2 DEF Undone, Stakes, Above
      <4> HIDE DEF x, y
      <4> QED
        BY <1>3, <4>1
    <3>3. CASE step = 5
      <4> DEFINE x == RaisedAbove(db.outs, H)
      <4>1. db' = [db EXCEPT !.outs = x]
        BY <1>1, <3>3 DEF Undone, Stakes, Above
      <4> HIDE DEF x
      <4> QED
        BY <1>3, <4>1
    <3>4. CASE step = 8
      <4> DEFINE linked == {i \in db.ins : i.height > H /\ \E o \in db.outs : Spends(i, o)}
      <4> DEFINE x == Update(db.outs, LAMBDA o : \E i \in linked : Spends(i, o),
                             LAMBDA o : [o EXCEPT !.byHeight = Unconfirmed])
                 y == Update(db.ins, LAMBDA i : i \in linked, LAMBDA i : [i EXCEPT !.height = Unconfirmed])
      <4>1. db' = [db EXCEPT !.outs = x, !.ins = y]
        BY <1>1, <3>4 DEF Undone, Stakes, Above
      <4> HIDE DEF x, y
      <4> QED
        BY <1>3, <4>1
    <3>5. CASE step = 9
      <4> DEFINE x == Update(db.balances, LAMBDA b : b.id \in Ids(Above),
                             LAMBDA b : [b EXCEPT !.height = Unconfirmed, !.index = Unconfirmed])
      <4>1. db' = [db EXCEPT !.balances = x]
        BY <1>1, <3>5 DEF Undone, Stakes, Above
      <4> HIDE DEF x
      <4> QED
        BY <1>3, <4>1
    <3>6. CASE step = 10
      <4> DEFINE x == Update(db.addresses, LAMBDA a : a.create > H,
                             LAMBDA a : [a EXCEPT !.create = Unconfirmed])
      <4>1. db' = [db EXCEPT !.addresses = x]
        BY <1>1, <3>6 DEF Undone, Stakes, Above
      <4> HIDE DEF x
      <4> QED
        BY <1>3, <4>1
    <3> QED
      BY <1>4, <3>1, <3>2, <3>3, <3>4, <3>5, <3>6
  <2>2. CASE step \in {1, 2, 8, 9, 10}
    <3>1. step \notin 4 .. 7
      BY <2>2
    <3> QED
      BY <1>1, <2>1, <3>1, OrphansProcess
  <2>3. CASE step = 5
    BY <1>1, <2>1, <2>3, OrphansProcess
  <2> QED
    BY <1>4, <2>2, <2>3
<1>5. CASE step = 3
  BY <1>5, OrphansRemoved
<1>6. CASE step = 4
  BY <1>6, OrphansRows
<1>7. CASE step = 6
  BY <1>7, OrphansReceipts
<1>8. CASE step = 7
  BY <1>8, OrphansLogs
<1> QED
  BY <1>1, <1>4, <1>5, <1>6, <1>7, <1>8

\* removeReplacedTransactions: what it removes is the mempool's.
LEMMA ReplacedOrphans ==
  ASSUME LedgerInv, OrphanInv, phase \in {"run", "undo"}, storedTip \in Block,
         NEW w \in Handler, job[w].pc = "replace", UNCHANGED <<storedTip, phase, step, block>>,
         \A v \in Handler : v # w => job'[v] = job[v],
         job'[w].pc = "replace",
         NEW t \in Tx, db' = Replaced(db, t), NEW Keep, Spares(t, Keep), AroundTx \subseteq Keep,
         w = "block" /\ running # NoTx => running \in Keep
  PROVE  OrphanInv'
<1> USE DEF LedgerInv, WorkInv, TableInv
<1> DEFINE roots == {o.by : o \in Sources(db, t)} \ {0}
           D == Replaceable(t)
           gone == {r \in db.tx : r.id \in D}
<1>1. db' = db \/ db' = Removed(db, roots)
  BY DEF Replaced
<1>2. D = Descendants(db, roots)
  BY DEF Replaceable
<1>3. \A r \in db.tx : r.tx \in Keep => r \notin gone
  BY ReplacedSpare
<1>4. /\ AroundTx' = AroundTx /\ H' = H
      /\ \A r : Cut(r)' <=> Cut(r)
      /\ \A r : Committed(r)' <=> Committed(r)
      /\ BlockTx' = BlockTx
  BY DEF AroundTx, Around, H, Cut, Committed, BlockTx
<1>5. \A r : /\ WitnessDue(r) => WitnessDue(r)'
             /\ ReceiptDue(r) => ReceiptDue(r)'
  BY <1>4 DEF WitnessDue, ReceiptDue, Unreceipted, Filling
<1>6. \A r : LogDue(r) => LogDue(r)'
  BY <1>4 DEF LogDue, Handler
<1>7. \A x, r : /\ Lagging(x, r) => Lagging(x, r)'
                /\ Stale(x, r) => Stale(x, r)'
  BY <1>4 DEF Lagging, Stale
<1> HIDE DEF roots, D
<1>8. CASE db' = db
  <2>1. IdsInv'
    BY <1>8 DEF OrphanInv, IdsInv, IdsRight
  <2>2. db.next \in Nat
    BY DEF ShapeInv
  <2> QED
    BY <1>5, <1>6, <1>7, <1>8, <2>1, <2>2, OrphansStill
<1>9. CASE db' = Removed(db, roots)
  <2> DEFINE ins == {i \in db.ins : i.id \in D}
             outs == Update({o \in db.outs : o.id \notin D},
                            LAMBDA o : \E i \in ins : Spends(i, o),
                            LAMBDA o : [o EXCEPT !.by = 0, !.byAt = 0])
             rest == db.ins \ ins
             balances == {b \in db.balances : b.id \notin D}
             txs == db.tx \ gone
             wit == db.witness \ {r.tx : r \in gone}
  <2>1. /\ db'.next = db.next /\ db'.tx = db.tx \ gone /\ db'.witness = db.witness \ {r.tx : r \in gone}
        /\ db'.receipts = db.receipts /\ db'.logs = db.logs
    <3>1. db' = [db EXCEPT !.outs = outs, !.ins = rest, !.balances = balances, !.tx = txs,
                           !.witness = wit]
      BY <1>2, <1>9 DEF Removed
    <3> HIDE DEF outs, ins, rest, balances, txs, wit
    <3>2. /\ db'.next = db.next /\ db'.tx = txs /\ db'.witness = wit
          /\ db'.receipts = db.receipts /\ db'.logs = db.logs
      BY <3>1 DEF ShapeInv
    <3> QED
      BY <3>2 DEF txs, wit
  <2> HIDE DEF gone
  <2>2. gone \subseteq db.tx
    BY DEF gone
  <2>3. \A l \in db.logs : l.receipt \notin Ids(gone)
    <3> TAKE l \in db.logs
    <3>1. PICK r \in db.tx : r.id = l.receipt /\ (r.height = l.height \/ Stale(l, r))
      BY DEF OrphanInv, LogInv
    <3>2. r.tx \in Keep
      <4>1. CASE Stale(l, r)
        BY <4>1 DEF Stale, Cut
      <4>2. CASE r.height = l.height
        <5>1. r.height # Unconfirmed
          BY <4>2 DEF OrphanInv, LogInv
        <5>2. CASE phase = "undo"
          <6>1. block \in Block
            BY <5>2 DEF ProcessInv
          <6>2. [tx |-> r.tx, height |-> r.height, index |-> r.index] \in ChainTxs(block)
            BY <5>1, <5>2 DEF UndoInv
          <6>3. r.tx \in TxsUpTo(block, Depth[block])
            BY <6>1, <6>2, ChainTxsType
          <6>4. r.tx \in AroundTx
            BY <6>1, <6>3, TreeAssumption DEF AroundTx, Around
          <6> QED
            BY <6>4
        <5>3. CASE phase = "run"
          <6>1. CASE Committed(r)
            BY <6>1 DEF Spares
          <6>2. CASE ~Looking /\ r.tx \in BlockTx
            <7>1. job["block"].pc # "none"
              BY <6>2 DEF Looking
            <7>2. BlockTx \subseteq AroundTx
              BY <7>1, BlockFacts
            <7> QED
              BY <6>2, <7>2
          <6> QED
            BY <5>1, <5>3, <6>1, <6>2 DEF HeightInv
        <5> QED
          BY <5>2, <5>3
      <4> QED
        BY <3>1, <4>1, <4>2
    <3>3. \A s \in gone : s.id # r.id
      BY <1>3, <2>2, <3>2 DEF KeyInv
    <3> QED
      BY <3>1, <3>3 DEF Ids
  <2>4. IdsInv'
    <3> SUFFICES ASSUME NEW v \in Handler, job'[v].pc \in {"adjust", "balances", "receipts"}
                 PROVE  IdsRight(job[v])'
      BY DEF IdsInv
    <3>1. v # w /\ job'[v] = job[v]
      OBVIOUS
    <3>2. IdsRight(job[v])
      BY <3>1 DEF OrphanInv, IdsInv
    <3>3. \A n \in DOMAIN job[v].txs : job[v].txs[n] \in Keep
      <4>1. CASE v = "block"
        <5>1. job["block"].pc \notin {"none", "find"}
          BY <3>1, <4>1
        <5>2. phase = "run" /\ block # NoBlock /\ BlockTx \subseteq AroundTx
          BY <5>1, BlockFacts
        <5>3. \A n \in DOMAIN job["block"].txs : job["block"].txs[n] \in BlockTx
          BY <5>1, <5>2, JobBlock
        <5> QED
          BY <4>1, <5>2, <5>3
      <4>2. CASE v = "mempool"
        <5>1. w = "block"
          BY <3>1, <4>2 DEF Handler
        <5>2. running # NoTx
          BY <3>1, <4>2 DEF ProcessInv
        <5>3. job["mempool"].txs = <<running>> /\ running \in Keep
          BY <5>1, <5>2 DEF MempoolInv
        <5> QED
          BY <4>2, <5>3
      <4> QED
        BY <4>1, <4>2 DEF Handler
    <3>4. \A n \in DOMAIN job[v].txs : \E r \in db'.tx : r.id = job[v].ids[n] /\ r.tx = job[v].txs[n]
      <4> TAKE n \in DOMAIN job[v].txs
      <4>1. PICK r \in db.tx : r.id = job[v].ids[n] /\ r.tx = job[v].txs[n]
        BY <3>2 DEF IdsRight
      <4>2. r \notin gone
        BY <1>3, <3>3, <4>1
      <4> QED
        BY <2>1, <4>1, <4>2
    <3> QED
      BY <3>1, <3>2, <3>4 DEF IdsRight
  <2> QED
    BY <1>5, <1>6, <1>7, <2>1, <2>2, <2>3, <2>4, OrphansFewer
<1> QED
  BY <1>1, <1>8, <1>9

\* A turn of removeReplacedTransactions.
LEMMA OrphansReplace ==
  ASSUME LedgerInv, OrphanInv, NEW w \in Handler, Replace(w)
  PROVE  OrphanInv'
<1> USE DEF LedgerInv, WorkInv
<1>1. /\ phase \in {"run", "undo"} /\ job[w].pc = "replace"
      /\ job' = [job EXCEPT ![w].todo = Tail(@)]
      /\ UNCHANGED <<storedTip, phase, step, block>> /\ storedTip \in Block
  BY DEF Replace, Writing, tips, process, ProcessInv
<1>2. job'[w].pc = "replace" /\ \A v \in Handler : v # w => job'[v] = job[v]
  <2>1. DOMAIN job = Handler /\ DOMAIN job[w] = JobFields
    BY DEF ProcessInv, JobFields
  <2> QED
    BY <1>1, <2>1 DEF JobFields
<1>3. CASE w = "mempool"
  <2>1. PICK Keep : Spares(running, Keep) /\ AroundTx \subseteq Keep
    BY <1>3, MempoolSpares
  <2>2. running \in Tx /\ db' = Replaced(db, running)
    BY <1>3, MempoolSpares
  <2>3. w # "block"
    BY <1>3
  <2> QED
    BY <1>1, <1>2, <2>1, <2>2, <2>3, ReplacedOrphans
<1>4. CASE w = "block"
  <2> DEFINE t == Head(job["block"].todo)
  <2>1. t = Head(job["block"].todo)
    OBVIOUS
  <2> HIDE DEF t
  <2>2. PICK Keep : Spares(t, Keep) /\ AroundTx \subseteq Keep /\ (running # NoTx => running \in Keep)
    BY <1>4, <2>1, BlockSpares
  <2>3. t \in Tx /\ db' = Replaced(db, t)
    BY <1>4, <2>1, BlockSpares
  <2> QED
    BY <1>1, <1>2, <2>2, <2>3, ReplacedOrphans
<1> QED
  BY <1>3, <1>4 DEF Handler

\* New rows, and the rows of the mempool that a block confirms.
LEMMA AddedOrphans ==
  ASSUME LedgerInv, OrphanInv, phase \in {"run", "undo"}, UNCHANGED <<storedTip, phase, step, block>>,
         NEW w \in Handler, job[w].pc = "replace", job'[w].pc = "witness", job'[w].txs = job[w].txs,
         \A v \in Handler : v # w => job'[v] = job[v],
         db'.next \in Nat, db'.next >= db.next,
         db'.witness = db.witness, db'.receipts = db.receipts, db'.logs = db.logs,
         \A s \in db'.tx :
           \/ s \in db.tx
           \/ LogDue(s)' /\ \E r \in db.tx : s.id = r.id /\ s.tx = r.tx
           \/ /\ s.id > db.next /\ s.tx \in ToSet(job[w].txs)
              /\ s.height = Unconfirmed \/ LogDue(s)',
         \A r \in db.tx :
           \/ r \in db'.tx
           \/ phase = "run" /\ r.height = Unconfirmed /\ \E s \in db'.tx : s.id = r.id /\ s.tx = r.tx
  PROVE  OrphanInv'
<1>1. /\ AroundTx' = AroundTx /\ H' = H /\ BlockTx' = BlockTx
      /\ \A r : Committed(r)' <=> Committed(r)
      /\ \A r : ~Cut(r) /\ ~Cut(r)'
  BY DEF AroundTx, Around, H, Cut, Committed, BlockTx
<1>2. \A r, s : r.tx = s.tx => /\ WitnessDue(r) => WitnessDue(s)'
                               /\ ReceiptDue(r) => ReceiptDue(s)'
  BY <1>1 DEF WitnessDue, ReceiptDue, Unreceipted, Filling
<1>3. \A s : s.tx \in ToSet(job[w].txs) => WitnessDue(s)' /\ ReceiptDue(s)'
  BY DEF WitnessDue, ReceiptDue, Unreceipted, Filling
<1>4. \A r : LogDue(r) => LogDue(r)'
  BY <1>1 DEF LogDue, Handler
<1>5. \A x, r : /\ Lagging(x, r) => Lagging(x, r)'
                /\ Stale(x, r) => Stale(x, r)'
  BY <1>1 DEF Lagging, Stale
<1>6. WitnessInv'
  <2>1. ASSUME NEW t \in db'.witness PROVE t \in Segwit /\ \E s \in db'.tx : s.tx = t
    <3>1. PICK r \in db.tx : r.tx = t /\ t \in Segwit
      BY DEF OrphanInv, WitnessInv
    <3> QED
      BY <3>1
  <2>2. ASSUME NEW s \in db'.tx, s.tx \in Segwit PROVE s.tx \in db'.witness \/ WitnessDue(s)'
    <3>1. CASE \E r \in db.tx : s.tx = r.tx
      BY <1>2, <2>2, <3>1 DEF OrphanInv, WitnessInv
    <3>2. CASE s.tx \in ToSet(job[w].txs)
      BY <1>3, <3>2
    <3> QED
      BY <3>1, <3>2
  <2> QED
    BY <2>1, <2>2 DEF WitnessInv
<1>7. ReceiptInv'
  <2>0. db.next \in Nat
    BY DEF LedgerInv, TableInv, ShapeInv
  <2>1. ASSUME NEW x \in db'.receipts
        PROVE  /\ x = [id |-> x.id, height |-> x.height, index |-> x.index]
               /\ x.id \in 0 .. db'.next /\ x.height \in Nat
    <3>1. /\ x = [id |-> x.id, height |-> x.height, index |-> x.index]
          /\ x.id \in 0 .. db.next /\ x.height \in Nat
      BY DEF OrphanInv, ReceiptInv
    <3> QED
      BY <2>0, <3>1
  <2>2. ASSUME NEW x \in db'.receipts, NEW s \in db'.tx, x.id = s.id
        PROVE  /\ s.tx \in Contract
               /\ (x.height = s.height /\ x.index = s.index) \/ LogDue(s)' \/ Lagging(x, s)'
    <3>1. CASE s \in db.tx
      BY <1>4, <1>5, <2>2, <3>1 DEF OrphanInv, ReceiptInv
    <3>2. CASE LogDue(s)' /\ \E r \in db.tx : s.id = r.id /\ s.tx = r.tx
      BY <2>2, <3>2 DEF OrphanInv, ReceiptInv
    <3>3. CASE s.id > db.next
      <4>1. x.id \in 0 .. db.next
        BY DEF OrphanInv, ReceiptInv
      <4> QED
        BY <2>0, <2>2, <3>3, <4>1
    <3> QED
      BY <3>1, <3>2, <3>3
  <2>3. ASSUME NEW s \in db'.tx, s.tx \in Contract
        PROVE  (\E x \in db'.receipts : x.id = s.id) \/ ReceiptDue(s)'
    <3>1. CASE \E r \in db.tx : s.id = r.id /\ s.tx = r.tx
      BY <1>2, <2>3, <3>1 DEF OrphanInv, ReceiptInv
    <3>2. CASE s.tx \in ToSet(job[w].txs)
      BY <1>3, <3>2
    <3> QED
      BY <3>1, <3>2
  <2> QED
    BY <2>1, <2>2, <2>3 DEF ReceiptInv
<1>8. LogInv'
  <2>1. ASSUME NEW l \in db'.logs
        PROVE  /\ l = [receipt |-> l.receipt, height |-> l.height]
               /\ l.height \in Nat /\ l.height # Unconfirmed
               /\ \E s \in db'.tx : s.id = l.receipt /\ s.tx \in Contract /\ (s.height = l.height \/ Stale(l, s)')
    <3>1. l = [receipt |-> l.receipt, height |-> l.height] /\ l.height \in Nat /\ l.height # Unconfirmed
      BY DEF OrphanInv, LogInv
    <3>2. PICK r \in db.tx : r.id = l.receipt /\ r.tx \in Contract /\ (r.height = l.height \/ Stale(l, r))
      BY DEF OrphanInv, LogInv
    <3>3. r \in db'.tx
      <4>1. phase = "run" => ~Stale(l, r)
        BY <1>1 DEF Stale
      <4> QED
        BY <3>1, <3>2, <4>1
    <3> QED
      BY <1>5, <3>1, <3>2, <3>3
  <2>2. ASSUME NEW s \in db'.tx, s.tx \in Contract, s.height # Unconfirmed
        PROVE  [receipt |-> s.id, height |-> s.height] \in db'.logs \/ LogDue(s)'
    <3>1. CASE s \in db.tx
      BY <1>4, <2>2, <3>1 DEF OrphanInv, LogInv
    <3> QED
      BY <2>2, <3>1
  <2> QED
    BY <2>1, <2>2 DEF LogInv
<1>9. IdsInv'
  <2> SUFFICES ASSUME NEW v \in Handler, job'[v].pc \in {"adjust", "balances", "receipts"}
               PROVE  IdsRight(job[v])'
    BY DEF IdsInv
  <2>1. v # w /\ job'[v] = job[v]
    OBVIOUS
  <2>2. IdsRight(job[v])
    BY <2>1 DEF OrphanInv, IdsInv
  <2>3. \A n \in DOMAIN job[v].txs : \E s \in db'.tx : s.id = job[v].ids[n] /\ s.tx = job[v].txs[n]
    <3> TAKE n \in DOMAIN job[v].txs
    <3>1. PICK r \in db.tx : r.id = job[v].ids[n] /\ r.tx = job[v].txs[n]
      BY <2>2 DEF IdsRight
    <3>2. \E s \in db'.tx : s.id = r.id /\ s.tx = r.tx
      OBVIOUS
    <3> QED
      BY <3>1, <3>2
  <2> QED
    BY <2>1, <2>2, <2>3 DEF IdsRight
<1> QED
  BY <1>6, <1>7, <1>8, <1>9 DEF OrphanInv

\* The tables that the rows of transactions are not in.
LEMMA CreatedOthers ==
  ASSUME ShapeInv, NEW ts, NEW h, db' = Created(db, ts, h)
  PROVE  db'.witness = db.witness /\ db'.receipts = db.receipts /\ db'.logs = db.logs
<1> DEFINE new == Picked(ts, {n \in DOMAIN ts : Named(db, {ts[n]}) = {}})
           txs == Update(db.tx, LAMBDA r : r.tx \in ToSet(ts),
                     LAMBDA r : [r EXCEPT !.height = h, !.index = IndexOf(r.tx, h)])
              \cup {[id |-> db.next + n, tx |-> new[n], height |-> h,
                     index |-> IndexOf(new[n], h)] : n \in DOMAIN new}
           next == db.next + Len(new)
<1>1. db' = [db EXCEPT !.tx = txs, !.next = next]
  BY Zenon DEF Created
<1> HIDE DEF txs, next
<1> QED
  BY <1>1 DEF ShapeInv

\* _createTransactions: what is new is due.
LEMMA OrphansCreate ==
  ASSUME LedgerInv, OrphanInv, NEW w \in Handler, CreateTransactions(w)
  PROVE  OrphanInv'
<1> USE DEF LedgerInv, WorkInv, TableInv
<1> DEFINE ts == IF w = "block" THEN Contents[block] ELSE job[w].txs
           h == Height(w)
           ids == IF w = "mempool" THEN <<db.next + 1>> ELSE <<>>
           refused == Named(db, ToSet(ts)) # {} /\ ~(w = "block" /\ synced)
<1>1. CASE refused
  BY <1>1, OrphansStop DEF CreateTransactions, Refused
<1>2. CASE ~refused
  <2>1. /\ phase \in {"run", "undo"} /\ job[w].pc = "replace" /\ job[w].todo = <<>>
        /\ db' = Created(db, ts, h)
        /\ job' = [job EXCEPT ![w].pc = "witness", ![w].ids = ids]
        /\ UNCHANGED <<tips, process, queue, overlooked, counters>>
    BY <1>2 DEF CreateTransactions, Writing
  <2>2. db'.witness = db.witness /\ db'.receipts = db.receipts /\ db'.logs = db.logs
    <3> HIDE DEF ts, h
    <3> QED
      BY <2>1, CreatedOthers
  <2>3. UNCHANGED <<storedTip, phase, step, block>>
    BY <2>1 DEF tips, process
  <2> HIDE DEF ids
  <2>4. job'[w].pc = "witness" /\ job'[w].txs = job[w].txs /\ \A v \in Handler : v # w => job'[v] = job[v]
    <3>1. DOMAIN job = Handler /\ DOMAIN job[w] = JobFields
      BY DEF ProcessInv, JobFields
    <3> QED
      BY <2>1, <3>1 DEF JobFields
  <2>5. CASE w = "mempool"
    <3>1. running # NoTx
      BY <2>1, <2>5 DEF ProcessInv
    <3>2. job["mempool"].txs = <<running>> /\ running \in Tx
      BY <3>1, QueuedType DEF MempoolInv
    <3>3. ToSet(<<running>>) = {running}
      BY DEF ToSet
    <3>4. ts = <<running>> /\ h = Unconfirmed
      BY <2>5, <3>2 DEF Height
    <3>5. Named(db, {running}) = {}
      BY <1>2, <2>5, <3>3, <3>4
    <3>6. db' = Created(db, <<running>>, Unconfirmed)
      BY <2>1, <3>4
    <3>7. /\ db'.next = db.next + 1
          /\ db'.tx = db.tx \cup {[id |-> db.next + 1, tx |-> running, height |-> Unconfirmed, index |-> Unconfirmed]}
      BY <3>2, <3>5, <3>6, MempoolCreated
    <3>8. db.next \in Nat
      BY DEF ShapeInv
    <3>9. \A s \in db'.tx :
            \/ s \in db.tx
            \/ s.id > db.next /\ s.tx \in ToSet(job[w].txs) /\ s.height = Unconfirmed
      BY <2>5, <3>2, <3>3, <3>7, <3>8
    <3>10. \A r \in db.tx : r \in db'.tx
      BY <3>7
    <3>11. db'.next \in Nat /\ db'.next >= db.next
      BY <3>7, <3>8
    <3> HIDE DEF ts, h, refused
    <3> QED
      BY <2>1, <2>2, <2>3, <2>4, <3>9, <3>10, <3>11, AddedOrphans
  <2>6. CASE w = "block"
    <3>1. job["block"].pc = "replace" /\ db' = Created(db, Contents[block], Depth[block])
      BY <2>1, <2>6 DEF Height
    <3>2. synced \/ Named(db, BlockTx) = {}
      BY <1>2, <2>6 DEF BlockTx
    <3>3. /\ phase = "run" /\ block \in Block /\ block # NoBlock
          /\ \A r \in db.tx : Committed(r) => r.tx \notin BlockTx
          /\ \A r \in db.tx : Committed(r) \/ (synced /\ r.height = Unconfirmed) \/ ~Looking
      <4>1. job["block"].pc # "none"
        BY <3>1
      <4> QED
        BY <2>1, <4>1, BlockFacts
    <3>4. Looking
      BY <3>1 DEF Looking
    <3>5. /\ db'.next \in Nat /\ db'.next >= db.next
          /\ \A s \in db'.tx :
               \/ s \in db.tx /\ s.tx \notin BlockTx
               \/ s.tx \in BlockTx /\ \E r \in db.tx : s.id = r.id /\ s.tx = r.tx
               \/ s.tx \in BlockTx /\ s.id > db.next /\ s.tx \in ToSet(job["block"].txs)
          /\ \A r \in db.tx : \E s \in db'.tx :
               s.id = r.id /\ s.tx = r.tx /\ (r.tx \notin BlockTx => s = r)
      BY <3>1, <3>2, <3>3, CreatedRows
    <3>6. \A s : s.tx \in BlockTx => LogDue(s)'
      <4>1. phase' = "run" /\ block' # NoBlock /\ job'["block"].pc = "witness" /\ BlockTx' = BlockTx
        BY <2>3, <2>4, <2>6, <3>3 DEF BlockTx
      <4> QED
        BY <4>1 DEF LogDue
    <3>7. \A s \in db'.tx :
           \/ s \in db.tx
           \/ LogDue(s)' /\ \E r \in db.tx : s.id = r.id /\ s.tx = r.tx
           \/ /\ s.id > db.next /\ s.tx \in ToSet(job[w].txs)
              /\ s.height = Unconfirmed \/ LogDue(s)'
      BY <2>6, <3>5, <3>6
    <3>8. \A r \in db.tx :
           \/ r \in db'.tx
           \/ phase = "run" /\ r.height = Unconfirmed /\ \E s \in db'.tx : s.id = r.id /\ s.tx = r.tx
      <4> TAKE r \in db.tx
      <4>1. CASE r.tx \notin BlockTx
        BY <3>5, <4>1
      <4>2. CASE r.tx \in BlockTx
        BY <3>3, <3>4, <3>5, <4>2
      <4> QED
        BY <4>1, <4>2
    <3> HIDE DEF ts, h, refused
    <3> QED
      BY <2>1, <2>2, <2>3, <2>4, <3>5, <3>7, <3>8, AddedOrphans
  <2> QED
    BY <2>5, <2>6 DEF Handler
<1> QED
  BY <1>1, <1>2

\* The witnesses.
LEMMA OrphansWitnesses ==
  ASSUME LedgerInv, OrphanInv, NEW w \in Handler, CreateWitnesses(w)
  PROVE  OrphanInv'
<1> USE DEF LedgerInv, WorkInv, TableInv
<1> DEFINE refused == db.witness \cap ToSet(job[w].txs) # {}
           next == IF w = "block" THEN "number" ELSE "addresses"
<1>1. CASE refused
  BY <1>1, OrphansStop DEF CreateWitnesses, Refused
<1>2. CASE ~refused
  <2>1. Statement(w, "witness", next, WithWitness(db, job[w].txs))
    BY <1>2 DEF CreateWitnesses
  <2> HIDE DEF refused
  <2>2. next \in {"number", "addresses"}
    OBVIOUS
  <2> HIDE DEF next
  <2>3. /\ Handles(w) /\ job[w].pc = "witness" /\ job'[w].pc = next /\ db' = WithWitness(db, job[w].txs)
        /\ job'[w].txs = job[w].txs
        /\ \A v \in Handler : v # w => job'[v] = job[v]
    BY <2>1, StatementHandles
  <2>4. UNCHANGED <<storedTip, phase, step, block>> /\ phase \in {"run", "undo"}
    BY <2>3 DEF Handles
  <2>5. /\ db'.next = db.next /\ db'.tx = db.tx /\ db'.receipts = db.receipts /\ db'.logs = db.logs
        /\ db'.witness = db.witness \cup (ToSet(job[w].txs) \cap Segwit)
    BY <2>3 DEF WithWitness, ShapeInv
  <2>6. \A t \in ToSet(job[w].txs) : \E r \in db.tx : r.tx = t
    <3>1. \A n \in DOMAIN job[w].txs : \E r \in db.tx : r.tx = job[w].txs[n]
      <4>1. CASE w = "mempool"
        BY <2>3, <4>1 DEF WriteInv, IdsRight
      <4>2. CASE w = "block"
        <5>1. phase = "run" /\ block # NoBlock
          <6>1. job["block"].pc # "none"
            BY <2>3, <4>2
          <6> QED
            BY <2>4, <6>1, BlockFacts
        <5>2. BlockIds
          BY <5>1 DEF BlockInv
        <5> QED
          BY <2>3, <4>2, <5>2 DEF BlockIds
      <4> QED
        BY <4>1, <4>2 DEF Handler
    <3> QED
      BY <3>1 DEF ToSet
  <2>7. \A r : ~Cut(r) /\ ~Cut(r)'
    BY <2>4 DEF Cut
  <2>8. AroundTx' = AroundTx /\ H' = H /\ BlockTx' = BlockTx /\ \A r : Committed(r)' <=> Committed(r)
    BY <2>4 DEF AroundTx, Around, H, BlockTx, Committed
  <2>9. \A r : ReceiptDue(r) => ReceiptDue(r)'
    <3>1. Unreceipted(w)'
      BY <2>2, <2>3 DEF Unreceipted, Filling
    <3>2. \A v \in Handler : Unreceipted(v) => Unreceipted(v)' /\ job'[v].txs = job[v].txs
      BY <2>3, <3>1 DEF Unreceipted, Filling
    <3> QED
      BY <2>7, <3>2 DEF ReceiptDue
  <2>10. \A r : LogDue(r) => LogDue(r)'
    <3>1. job["block"].pc \notin {"tip", "commit"} => job'["block"].pc \notin {"tip", "commit"}
      BY <2>2, <2>3 DEF Handler
    <3> QED
      BY <2>4, <2>7, <2>8, <3>1 DEF LogDue
  <2>11. \A x, r : /\ Lagging(x, r) => Lagging(x, r)'
                   /\ Stale(x, r) => Stale(x, r)'
    BY <2>4, <2>7, <2>8 DEF Lagging, Stale
  <2>12. WitnessInv'
    <3>1. \A t \in db'.witness : t \in Segwit /\ \E r \in db'.tx : r.tx = t
      BY <2>5, <2>6 DEF OrphanInv, WitnessInv
    <3>2. ASSUME NEW r \in db'.tx, r.tx \in Segwit PROVE r.tx \in db'.witness \/ WitnessDue(r)'
      <4>1. r.tx \in db.witness \/ WitnessDue(r)
        BY <2>5, <3>2 DEF OrphanInv, WitnessInv
      <4>2. CASE r.tx \in db.witness
        BY <2>5, <4>2
      <4>3. CASE WitnessDue(r)
        <5>1. PICK v \in Handler : job[v].pc = "witness" /\ r.tx \in ToSet(job[v].txs)
          BY <2>7, <4>3 DEF WitnessDue
        <5>2. CASE v = w
          BY <2>5, <3>2, <5>1, <5>2
        <5>3. CASE v # w
          BY <2>3, <5>1, <5>3 DEF WitnessDue
        <5> QED
          BY <5>2, <5>3
      <4> QED
        BY <4>1, <4>2, <4>3
    <3> QED
      BY <3>1, <3>2 DEF WitnessInv
  <2>13. ReceiptInv'
    BY <2>5, <2>9, <2>10, <2>11 DEF OrphanInv, ReceiptInv
  <2>14. LogInv'
    BY <2>5, <2>10, <2>11 DEF OrphanInv, LogInv
  <2>15. IdsInv'
    <3> SUFFICES ASSUME NEW v \in Handler, job'[v].pc \in {"adjust", "balances", "receipts"}
                 PROVE  IdsRight(job[v])'
      BY DEF IdsInv
    <3>1. v # w /\ job'[v] = job[v]
      BY <2>2, <2>3
    <3> QED
      BY <2>5, <3>1 DEF OrphanInv, IdsInv, IdsRight
  <2> QED
    BY <2>12, <2>13, <2>14, <2>15 DEF OrphanInv
<1> QED
  BY <1>1, <1>2

\* The row of the transaction that the mempool writes is unconfirmed.
LEMMA RunningRow ==
  ASSUME LedgerInv, phase \in {"run", "undo"}, running # NoTx, NEW r \in db.tx, r.tx = running
  PROVE  r.height = Unconfirmed /\ r.index = Unconfirmed
<1> USE DEF LedgerInv, WorkInv, TableInv
<1>1. running \notin AroundTx /\ running \notin ChainTx
  <2>1. running \in Queued
    BY DEF Queued
  <2> QED
    BY <2>1, QueuedApart
<1>2. r.height = Unconfirmed
  <2>1. CASE phase = "undo"
    <3>1. block \in Block
      BY <2>1 DEF ProcessInv
    <3>2. r.height # Unconfirmed => r.tx \in TxsUpTo(block, Depth[block])
      BY <2>1, <3>1, ChainTxsType DEF UndoInv
    <3> QED
      BY <1>1, <3>1, <3>2, TreeAssumption DEF AroundTx, Around
  <2>2. CASE phase = "run"
    <3>1. ~Committed(r)
      BY <1>1, CommittedRows DEF ProcessInv
    <3>2. CASE ~Looking /\ r.tx \in BlockTx
      <4>1. job["block"].pc # "none"
        BY <3>2 DEF Looking
      <4> QED
        BY <1>1, <3>2, <4>1, BlockFacts
    <3> QED
      BY <2>2, <3>1, <3>2 DEF HeightInv
  <2> QED
    BY <2>1, <2>2
<1> QED
  BY <1>2 DEF ShapeInv

\* The receipts.
LEMMA OrphansReceipted ==
  ASSUME LedgerInv, OrphanInv, NEW w \in Handler, CreateReceipts(w)
  PROVE  OrphanInv'
<1> USE DEF LedgerInv, WorkInv, TableInv
<1> DEFINE j == job[w]
           h == Height(w)
           next == IF w = "block" THEN "contracts" ELSE "done"
           rows == {[id |-> j.ids[n], height |-> h, index |-> IndexOf(j.txs[n], h)]
                      : n \in {m \in DOMAIN j.txs : j.txs[m] \in Contract}}
<1>1. CASE \E reason : Stop(reason)
  BY <1>1, OrphansStop
<1>2. CASE Statement(w, "receipts", next, WithReceipts(db, j, h))
  <2>1. /\ Handles(w) /\ j.pc = "receipts" /\ job'[w].pc = next /\ db' = WithReceipts(db, j, h)
        /\ job'[w].txs = j.txs
        /\ \A v \in Handler : v # w => job'[v] = job[v]
    BY <1>2, StatementHandles
  <2>2. next \in {"contracts", "done"}
    OBVIOUS
  <2> HIDE DEF next
  <2>3. UNCHANGED <<storedTip, phase, step, block>> /\ phase \in {"run", "undo"}
    BY <2>1 DEF Handles
  <2>4. /\ db'.next = db.next /\ db'.tx = db.tx /\ db'.logs = db.logs /\ db'.witness = db.witness
        /\ db'.receipts = db.receipts \cup rows
    <3>1. db' = [db EXCEPT !.receipts = @ \cup rows]
      BY <2>1 DEF WithReceipts
    <3> HIDE DEF rows
    <3> QED
      BY <3>1 DEF ShapeInv
  <2>5. IdsRight(j)
    BY <2>1 DEF OrphanInv, IdsInv
  <2>6. \A r : ~Cut(r) /\ ~Cut(r)'
    BY <2>3 DEF Cut
  <2>7. AroundTx' = AroundTx /\ H' = H /\ BlockTx' = BlockTx /\ \A r : Committed(r)' <=> Committed(r)
    BY <2>3 DEF AroundTx, Around, H, BlockTx, Committed
  <2>8. \A r : WitnessDue(r) => WitnessDue(r)'
    BY <2>1, <2>6 DEF WitnessDue
  <2>9. \A r : LogDue(r) => LogDue(r)'
    <3>1. job["block"].pc \notin {"tip", "commit"} => job'["block"].pc \notin {"tip", "commit"}
      BY <2>1, <2>2 DEF Handler
    <3> QED
      BY <2>3, <2>6, <2>7, <3>1 DEF LogDue
  <2>10. \A x, r : /\ Lagging(x, r) => Lagging(x, r)'
                   /\ Stale(x, r) => Stale(x, r)'
    BY <2>3, <2>6, <2>7 DEF Lagging, Stale
  <2>11. h \in Nat
    <3>1. CASE w = "mempool"
      BY <3>1, LedgerAssumption DEF Height
    <3>2. CASE w = "block"
      <4>1. job["block"].pc # "none"
        BY <2>1, <3>2
      <4>2. Depth[block] = H + 1 /\ H \in Nat
        BY <2>3, <4>1, BlockFacts
      <4> QED
        BY <3>2, <4>2 DEF Height
    <3> QED
      BY <3>1, <3>2 DEF Handler
  <2>12. \A n \in DOMAIN j.txs : \A r \in db.tx : r.id = j.ids[n] \/ r.tx = j.txs[n] =>
           r.id = j.ids[n] /\ r.tx = j.txs[n]
    <3> TAKE n \in DOMAIN j.txs
    <3>1. PICK s \in db.tx : s.id = j.ids[n] /\ s.tx = j.txs[n]
      BY <2>5 DEF IdsRight
    <3> QED
      BY <3>1 DEF KeyInv
  <2>13. WitnessInv'
    BY <2>4, <2>8 DEF OrphanInv, WitnessInv
  <2>14. LogInv'
    BY <2>4, <2>9, <2>10 DEF OrphanInv, LogInv
  <2>15. IdsInv'
    <3> SUFFICES ASSUME NEW v \in Handler, job'[v].pc \in {"adjust", "balances", "receipts"}
                 PROVE  IdsRight(job[v])'
      BY DEF IdsInv
    <3>1. v # w /\ job'[v] = job[v]
      BY <2>1, <2>2
    <3> QED
      BY <2>4, <3>1 DEF OrphanInv, IdsInv, IdsRight
  <2>16. ASSUME NEW x \in rows
         PROVE  /\ x = [id |-> x.id, height |-> x.height, index |-> x.index]
                /\ x.id \in 0 .. db.next /\ x.height \in Nat
                /\ \A r \in db.tx : x.id = r.id =>
                     r.tx \in Contract /\ ((x.height = r.height /\ x.index = r.index) \/ LogDue(r)')
    <3>1. PICK n \in DOMAIN j.txs :
            j.txs[n] \in Contract /\ x = [id |-> j.ids[n], height |-> h, index |-> IndexOf(j.txs[n], h)]
      OBVIOUS
    <3> HIDE DEF h
    <3>2. x.id = j.ids[n] /\ x.height = h /\ x.index = IndexOf(j.txs[n], h)
          /\ x = [id |-> x.id, height |-> x.height, index |-> x.index]
      BY <3>1
    <3>3. \E r \in db.tx : r.id = j.ids[n]
      BY <2>5 DEF IdsRight
    <3>4. x.id \in 0 .. db.next
      BY <3>2, <3>3 DEF ShapeInv
    <3>5. ASSUME NEW r \in db.tx, x.id = r.id
          PROVE  r.tx \in Contract /\ ((x.height = r.height /\ x.index = r.index) \/ LogDue(r)')
      <4>1. r.tx = j.txs[n]
        BY <2>12, <3>2, <3>5
      <4>2. CASE w = "mempool"
        <5>1. running # NoTx
          BY <2>1, <4>2 DEF ProcessInv
        <5>2. j.txs = <<running>>
          BY <4>2, <5>1 DEF MempoolInv
        <5>3. r.tx = running
          BY <4>1, <5>2
        <5>4. r.height = Unconfirmed /\ r.index = Unconfirmed
          BY <2>3, <5>1, <5>3, RunningRow
        <5>5. h = Unconfirmed /\ IndexOf(j.txs[n], Unconfirmed) = Unconfirmed
          BY <4>2 DEF h, Height, IndexOf
        <5> QED
          BY <3>1, <3>2, <4>1, <5>4, <5>5
      <4>3. CASE w = "block"
        <5>1. job["block"].pc \notin {"none", "find"}
          BY <2>1, <4>3
        <5>2. phase = "run" /\ block # NoBlock
          BY <2>3, <5>1, BlockFacts
        <5>3. r.tx \in BlockTx
          BY <4>1, <4>3, <5>1, <5>2, JobBlock
        <5>4. LogDue(r)'
          <6>1. phase' = "run" /\ block' # NoBlock /\ BlockTx' = BlockTx /\ job'["block"].pc \notin {"tip", "commit"}
            BY <2>1, <2>2, <2>3, <2>7, <4>3, <5>2
          <6> QED
            BY <5>3, <6>1 DEF LogDue
        <5> QED
          BY <3>1, <4>1, <5>4
      <4> QED
        BY <4>2, <4>3 DEF Handler
    <3> QED
      BY <2>11, <3>2, <3>4, <3>5
  <2>17. ReceiptInv'
    <3>1. ASSUME NEW x \in db'.receipts
          PROVE  /\ x = [id |-> x.id, height |-> x.height, index |-> x.index]
                 /\ x.id \in 0 .. db'.next /\ x.height \in Nat
      <4> HIDE DEF rows
      <4> QED
        BY <2>4, <2>16 DEF OrphanInv, ReceiptInv
    <3>2. ASSUME NEW x \in db'.receipts, NEW r \in db'.tx, x.id = r.id
          PROVE  /\ r.tx \in Contract
                 /\ (x.height = r.height /\ x.index = r.index) \/ LogDue(r)' \/ Lagging(x, r)'
      <4> HIDE DEF rows
      <4>1. CASE x \in rows
        BY <2>4, <2>16, <3>2, <4>1
      <4>2. CASE x \in db.receipts
        BY <2>4, <2>9, <2>10, <3>2, <4>2 DEF OrphanInv, ReceiptInv
      <4> QED
        BY <2>4, <4>1, <4>2
    <3>3. ASSUME NEW r \in db'.tx, r.tx \in Contract
          PROVE  (\E x \in db'.receipts : x.id = r.id) \/ ReceiptDue(r)'
      <4>1. (\E x \in db.receipts : x.id = r.id) \/ ReceiptDue(r)
        BY <2>4, <3>3 DEF OrphanInv, ReceiptInv
      <4>2. CASE \E x \in db.receipts : x.id = r.id
        BY <2>4, <4>2
      <4>3. CASE ReceiptDue(r)
        <5>1. PICK v \in Handler : Unreceipted(v) /\ r.tx \in ToSet(job[v].txs)
          BY <2>6, <4>3 DEF ReceiptDue
        <5>2. CASE v # w
          BY <2>1, <5>1, <5>2 DEF ReceiptDue, Unreceipted, Filling
        <5>3. CASE v = w
          <6>1. PICK n \in DOMAIN j.txs : j.txs[n] = r.tx
            BY <5>1, <5>3 DEF ToSet
          <6>2. r.id = j.ids[n]
            BY <2>4, <2>12, <6>1
          <6>3. [id |-> j.ids[n], height |-> h, index |-> IndexOf(j.txs[n], h)] \in rows
            BY <3>3, <6>1
          <6> HIDE DEF rows
          <6> QED
            BY <2>4, <6>2, <6>3
        <5> QED
          BY <5>2, <5>3
      <4> QED
        BY <4>1, <4>2, <4>3
    <3> QED
      BY <3>1, <3>2, <3>3 DEF ReceiptInv
  <2> QED
    BY <2>13, <2>14, <2>15, <2>17 DEF OrphanInv
<1> QED
  BY <1>1, <1>2 DEF CreateReceipts, Refused

\* The row at a place of the block is that of its transaction there.
RowAt(n) == CHOOSE r \in db.tx : r.height = Depth[block] /\ r.index = n - 1

LEMMA PlaceRows ==
  ASSUME LedgerInv, phase \in {"run", "undo"}, ~Looking, NEW n \in DOMAIN Contents[block]
  PROVE  /\ RowAt(n) \in db.tx /\ RowAt(n).tx = Contents[block][n]
         /\ RowAt(n).height = H + 1 /\ RowAt(n).index = n - 1
<1> USE DEF LedgerInv, WorkInv, TableInv
<1>1. job["block"].pc # "none"
  BY DEF Looking
<1>2. /\ phase = "run" /\ block \in Block /\ block # NoBlock /\ Parent[block] = storedTip
      /\ Depth[block] = H + 1 /\ H \in Nat /\ H + 1 < Unconfirmed
      /\ \A t \in BlockTx : \E m \in DOMAIN Contents[block] : t = Contents[block][m]
      /\ storedTip \in Block
  BY <1>1, BlockFacts
<1>3. \A m \in DOMAIN Contents[block] : \E r \in db.tx :
        r.tx = Contents[block][m] /\ r.height = H + 1 /\ r.index = m - 1
  BY <1>2 DEF BlockInv, BlockRows
<1>4. \A m \in DOMAIN Contents[block] : m \in Nat
  BY <1>2, ContentsType
<1>5. ASSUME NEW r \in db.tx, r.height = H + 1, r.index = n - 1
      PROVE  r.tx = Contents[block][n]
  <2>1. ~Committed(r) /\ r.height # Unconfirmed
    BY <1>2, <1>5 DEF Committed
  <2>2. r.tx \in BlockTx
    BY <1>2, <2>1 DEF HeightInv
  <2>3. PICK m \in DOMAIN Contents[block] : r.tx = Contents[block][m]
    BY <1>2, <2>2
  <2>4. r.index = m - 1
    BY <1>3, <2>3 DEF KeyInv
  <2>5. m = n
    BY <1>4, <1>5, <2>4
  <2> QED
    BY <2>3, <2>5
<1>6. \E r \in db.tx : r.height = Depth[block] /\ r.index = n - 1
  BY <1>2, <1>3
<1>7. RowAt(n) \in db.tx /\ RowAt(n).height = Depth[block] /\ RowAt(n).index = n - 1
  BY <1>6 DEF RowAt
<1> QED
  BY <1>2, <1>5, <1>7

\* _processContracts: the receipts of the block get their place, and their logs.
LEMMA OrphansContracts ==
  ASSUME Ordinary, LedgerInv, OrphanInv, ProcessContracts
  PROVE  OrphanInv'
<1> USE DEF LedgerInv, WorkInv, TableInv
<1> DEFINE w == "block"
           h == Depth[block]
           txs == Contents[block]
           ids == [n \in DOMAIN txs |-> (CHOOSE r \in db.tx : r.height = h /\ r.index = n-1).id]
           calls == Calls(block)
           caller(n) == Max({1} \cup {m \in 2 .. n-1 : txs[m] \notin Spender})
           new(x) == IF \E n \in calls : x.id = ids[n]
                     THEN [x EXCEPT !.height = h, !.index = (CHOOSE n \in calls : x.id = ids[n]) - 1]
                     ELSE x
           spends == db.spends \cup {<<ids[n], ids[caller(n)]>> : n \in {m \in DOMAIN txs : txs[m] \in Spender}}
           refunds == db.refunds \cup {<<ids[n], ids[Generated(block)]>> : n \in calls}
           receipts == {new(x) : x \in db.receipts}
           logs == {[receipt |-> ids[n], height |-> h] : n \in calls}
<1>1. "block" \in Handler
  BY DEF Handler
<1>2. /\ Handles("block") /\ job["block"].pc = "contracts" /\ job'["block"].pc = "tip"
      /\ db' = WithContracts(db, block)
      /\ \A v \in Handler : v # "block" => job'[v] = job[v]
  BY <1>1, StatementHandles DEF ProcessContracts
<1>3. UNCHANGED <<storedTip, phase, step, block>> /\ phase \in {"run", "undo"}
  BY <1>2 DEF Handles
<1>4. /\ db'.next = db.next /\ db'.tx = db.tx /\ db'.witness = db.witness
      /\ db'.receipts = receipts /\ db'.logs = db.logs \cup logs
  <2> DEFINE all == db.logs \cup logs
  <2>1. db' = [db EXCEPT !.spends = spends, !.refunds = refunds, !.receipts = receipts, !.logs = all]
    BY <1>2, Zenon DEF WithContracts
  <2> HIDE DEF spends, refunds, receipts, all
  <2>2. /\ db'.next = db.next /\ db'.tx = db.tx /\ db'.witness = db.witness
        /\ db'.receipts = receipts /\ db'.logs = all
    BY <2>1 DEF ShapeInv
  <2> QED
    BY <2>2 DEF all
<1>5. /\ phase = "run" /\ block \in Block /\ block # NoBlock /\ h = H + 1
      /\ H \in Nat /\ H + 1 < Unconfirmed /\ Unconfirmed \in Nat
      /\ \A t \in BlockTx : \E n \in DOMAIN txs : t = txs[n]
  <2>1. job["block"].pc # "none"
    BY <1>2
  <2> QED
    BY <1>3, <2>1, BlockFacts
<1>6. ~Looking
  BY <1>2 DEF Looking
<1>7. \A n \in DOMAIN txs :
        \E r \in db.tx : ids[n] = r.id /\ r.tx = txs[n] /\ r.height = h /\ r.index = n - 1
  <2> TAKE n \in DOMAIN txs
  <2>1. /\ RowAt(n) \in db.tx /\ RowAt(n).tx = txs[n]
        /\ RowAt(n).height = h /\ RowAt(n).index = n - 1
    BY <1>3, <1>5, <1>6, PlaceRows
  <2>2. ids[n] = RowAt(n).id
    BY DEF RowAt
  <2> HIDE DEF ids
  <2> QED
    BY <2>1, <2>2
<1>8. /\ calls \subseteq DOMAIN txs
      /\ \A n \in DOMAIN txs : n \in calls <=> txs[n] \in Contract
      /\ \A n \in DOMAIN txs : n \in Nat
  <2>1. \A n \in DOMAIN txs : n \in Nat
    BY <1>5, ContentsType
  <2> QED
    BY <2>1 DEF Calls, Ordinary
<1>9. \A x \in db.receipts :
        /\ new(x).id = x.id
        /\ (\A n \in calls : x.id # ids[n]) => new(x) = x
        /\ \A n \in calls : x.id = ids[n] => new(x) = [id |-> x.id, height |-> h, index |-> n - 1]
  <2> TAKE x \in db.receipts
  <2>1. x = [id |-> x.id, height |-> x.height, index |-> x.index]
    BY DEF OrphanInv, ReceiptInv
  <2>2. ASSUME NEW n \in calls, x.id = ids[n] PROVE new(x) = [id |-> x.id, height |-> h, index |-> n - 1]
    <3> DEFINE c == CHOOSE m \in calls : x.id = ids[m]
    <3>1. c \in calls /\ x.id = ids[c]
      BY <2>2
    <3> HIDE DEF c
    <3>2. c = n
      <4>1. PICK r \in db.tx : ids[n] = r.id /\ r.index = n - 1
        BY <1>7, <1>8
      <4>2. PICK s \in db.tx : ids[c] = s.id /\ s.index = c - 1
        BY <1>7, <1>8, <3>1
      <4>3. n - 1 = c - 1
        BY <2>2, <3>1, <4>1, <4>2 DEF KeyInv
      <4>4. n \in Nat /\ c \in Nat
        BY <1>8, <3>1
      <4> QED
        BY <4>3, <4>4
    <3>3. new(x) = [x EXCEPT !.height = h, !.index = c - 1]
      BY <2>2 DEF c
    <3> HIDE DEF new, h
    <3> QED
      BY <2>1, <3>2, <3>3
  <2>3. (\A n \in calls : x.id # ids[n]) => new(x) = x
    OBVIOUS
  <2>4. new(x).id = x.id
    <3> HIDE DEF new, ids, h, calls
    <3>1. CASE \E n \in calls : x.id = ids[n]
      <4>1. PICK n \in calls : x.id = ids[n]
        BY <3>1
      <4>2. new(x) = [id |-> x.id, height |-> h, index |-> n - 1]
        BY <2>2, <4>1
      <4> QED
        BY <4>2
    <3>2. CASE \A n \in calls : x.id # ids[n]
      BY <2>3, <3>2
    <3> QED
      BY <3>1, <3>2
  <2> QED
    BY <2>2, <2>3, <2>4
<1> HIDE DEF new, ids, calls, spends, refunds
<1>10. \A r \in db.tx : r.tx \in Contract /\ r.tx \in BlockTx =>
         \E n \in calls : ids[n] = r.id /\ r.height = h /\ r.index = n - 1
  <2> TAKE r \in db.tx
  <2> HAVE r.tx \in Contract /\ r.tx \in BlockTx
  <2>1. PICK n \in DOMAIN txs : r.tx = txs[n]
    BY <1>5
  <2>2. PICK s \in db.tx : ids[n] = s.id /\ s.tx = txs[n] /\ s.height = h /\ s.index = n - 1
    BY <1>7
  <2>3. s = r
    BY <2>1, <2>2 DEF KeyInv
  <2>4. n \in calls
    BY <1>8, <2>1
  <2> QED
    BY <2>2, <2>3, <2>4
<1>11. \A r : ~Cut(r) /\ ~Cut(r)'
  BY <1>3 DEF Cut
<1>12. \A r : LogDue(r) => r.tx \in BlockTx
  BY <1>11 DEF LogDue
<1>13. \A x, r : ~Lagging(x, r) /\ ~Stale(x, r)
  BY <1>5, <1>11 DEF Lagging, Stale
<1>14. \A r : /\ WitnessDue(r) => WitnessDue(r)'
              /\ ReceiptDue(r) => ReceiptDue(r)'
  <2>1. job["block"].pc # "witness" /\ ~Unreceipted("block")
    BY <1>2 DEF Unreceipted, Filling
  <2>2. \A v \in Handler : Unreceipted(v) => Unreceipted(v)' /\ job'[v].txs = job[v].txs
    BY <1>2, <2>1 DEF Unreceipted, Filling
  <2>3. \A v \in Handler : job[v].pc = "witness" => job'[v] = job[v]
    BY <1>2
  <2> QED
    BY <1>11, <2>2, <2>3 DEF WitnessDue, ReceiptDue
<1>15. WitnessInv'
  BY <1>4, <1>14 DEF OrphanInv, WitnessInv
<1>16. ReceiptInv'
  <2>1. ASSUME NEW y \in db'.receipts
        PROVE  /\ y = [id |-> y.id, height |-> y.height, index |-> y.index]
               /\ y.id \in 0 .. db'.next /\ y.height \in Nat
    <3>1. PICK x \in db.receipts : y = new(x)
      BY <1>4
    <3>2. /\ x = [id |-> x.id, height |-> x.height, index |-> x.index]
          /\ x.id \in 0 .. db.next /\ x.height \in Nat
      BY DEF OrphanInv, ReceiptInv
    <3>3. h \in Nat
      BY <1>5
    <3> HIDE DEF h
    <3>4. CASE \E n \in calls : x.id = ids[n]
      <4>1. PICK n \in calls : y = [id |-> x.id, height |-> h, index |-> n - 1]
        BY <1>9, <3>1, <3>4
      <4> QED
        BY <1>4, <3>2, <3>3, <4>1
    <3>5. CASE \A n \in calls : x.id # ids[n]
      BY <1>4, <1>9, <3>1, <3>2, <3>5
    <3> QED
      BY <3>4, <3>5
  <2>2. ASSUME NEW y \in db'.receipts, NEW r \in db'.tx, y.id = r.id
        PROVE  r.tx \in Contract /\ y.height = r.height /\ y.index = r.index
    <3>1. PICK x \in db.receipts : y = new(x)
      BY <1>4
    <3>2. x.id = r.id /\ r \in db.tx
      BY <1>4, <1>9, <2>2, <3>1
    <3>3. r.tx \in Contract /\ ((x.height = r.height /\ x.index = r.index) \/ LogDue(r))
      BY <1>13, <3>2 DEF OrphanInv, ReceiptInv
    <3> HIDE DEF h
    <3>4. CASE \E n \in calls : x.id = ids[n]
      <4>1. PICK n \in calls : x.id = ids[n]
        BY <3>4
      <4>2. y = [id |-> x.id, height |-> h, index |-> n - 1]
        BY <1>9, <3>1, <4>1
      <4>3. n \in DOMAIN txs
        BY <1>8, <4>1
      <4>4. PICK s \in db.tx : ids[n] = s.id /\ s.height = h /\ s.index = n - 1
        BY <1>7, <4>3
      <4>5. s = r
        BY <3>2, <4>1, <4>4 DEF KeyInv
      <4> QED
        BY <3>3, <4>2, <4>4, <4>5
    <3>5. CASE \A n \in calls : x.id # ids[n]
      <4>1. y = x
        BY <1>9, <3>1, <3>5
      <4>2. ~LogDue(r)
        BY <1>10, <1>12, <3>2, <3>3, <3>5
      <4> QED
        BY <3>3, <4>1, <4>2
    <3> QED
      BY <3>4, <3>5
  <2>3. ASSUME NEW r \in db'.tx, r.tx \in Contract
        PROVE  (\E y \in db'.receipts : y.id = r.id) \/ ReceiptDue(r)'
    <3>1. (\E x \in db.receipts : x.id = r.id) \/ ReceiptDue(r)
      BY <1>4, <2>3 DEF OrphanInv, ReceiptInv
    <3>2. CASE \E x \in db.receipts : x.id = r.id
      <4>1. PICK x \in db.receipts : x.id = r.id
        BY <3>2
      <4>2. new(x) \in db'.receipts /\ new(x).id = r.id
        BY <1>4, <1>9, <4>1
      <4> QED
        BY <4>2
    <3> QED
      BY <1>14, <3>1, <3>2
  <2> QED
    BY <2>1, <2>2, <2>3 DEF ReceiptInv
<1>17. LogInv'
  <2>1. ASSUME NEW l \in db'.logs
        PROVE  /\ l = [receipt |-> l.receipt, height |-> l.height]
               /\ l.height \in Nat /\ l.height # Unconfirmed
               /\ \E r \in db'.tx : r.id = l.receipt /\ r.tx \in Contract /\ r.height = l.height
    <3>1. CASE l \in db.logs
      BY <1>4, <1>13, <3>1 DEF OrphanInv, LogInv
    <3>2. CASE l \in logs
      <4>1. PICK n \in calls : l = [receipt |-> ids[n], height |-> h]
        BY <3>2
      <4>2. h \in Nat /\ h # Unconfirmed
        BY <1>5
      <4> HIDE DEF h
      <4>3. n \in DOMAIN txs /\ txs[n] \in Contract
        BY <1>8, <4>1
      <4>4. PICK r \in db.tx : ids[n] = r.id /\ r.tx = txs[n] /\ r.height = h
        BY <1>7, <4>3
      <4>5. l.receipt = ids[n] /\ l.height = h /\ l = [receipt |-> l.receipt, height |-> l.height]
        BY <4>1
      <4>6. r \in db'.tx /\ r.id = l.receipt /\ r.tx \in Contract /\ r.height = l.height
        BY <1>4, <4>3, <4>4, <4>5
      <4>7. l.height \in Nat /\ l.height # Unconfirmed
        BY <4>2, <4>5
      <4> QED
        BY <4>5, <4>6, <4>7
    <3> HIDE DEF logs
    <3> QED
      BY <1>4, <3>1, <3>2
  <2>2. ASSUME NEW r \in db'.tx, r.tx \in Contract, r.height # Unconfirmed
        PROVE  [receipt |-> r.id, height |-> r.height] \in db'.logs
    <3>1. [receipt |-> r.id, height |-> r.height] \in db.logs \/ LogDue(r)
      BY <1>4, <2>2 DEF OrphanInv, LogInv
    <3>2. CASE LogDue(r)
      <4>1. PICK n \in calls : ids[n] = r.id /\ r.height = h
        BY <1>4, <1>10, <1>12, <2>2, <3>2
      <4> QED
        BY <1>4, <4>1
    <3> HIDE DEF logs
    <3> QED
      BY <1>4, <3>1, <3>2
  <2> QED
    BY <2>1, <2>2 DEF LogInv
<1>18. IdsInv'
  <2> SUFFICES ASSUME NEW v \in Handler, job'[v].pc \in {"adjust", "balances", "receipts"}
               PROVE  IdsRight(job[v])'
    BY DEF IdsInv
  <2>1. v # "block" /\ job'[v] = job[v]
    BY <1>2
  <2> QED
    BY <1>4, <2>1 DEF OrphanInv, IdsInv, IdsRight
<1> QED
  BY <1>15, <1>16, <1>17, <1>18 DEF OrphanInv

\* Every step keeps them.
LEMMA OrphansNext ==
  ASSUME Ordinary, LedgerInv, OrphanInv, [Next]_vars
  PROVE  OrphanInv'
<1>0. "block" \in Handler
  BY DEF Handler
<1>1. ASSUME NEW w \in Handler, WriteTransactions(w) PROVE OrphanInv'
  <2>1. CASE Replace(w) \/ CreateTransactions(w)
    BY <2>1, OrphansReplace, OrphansCreate
  <2>2. CASE CreateWitnesses(w) \/ CreateReceipts(w)
    BY <2>2, OrphansWitnesses, OrphansReceipted
  <2>3. CASE FindAddresses(w)
    BY <2>3, OrphansTurn
  <2>4. CASE CreateAddresses(w) \/ Insert(w) \/ Link(w) \/ CreateBalances(w)
    BY <2>4, OrphansTables
  <2> QED
    BY <1>1, <2>1, <2>2, <2>3, <2>4 DEF WriteTransactions
<1>2. CASE Clean \/ Undo \/ ProcessContracts
  BY <1>2, OrphansClean, OrphansUndo, OrphansContracts
<1>3. CASE Adopt \/ Spend \/ Lower \/ Adjust
  BY <1>0, <1>3, OrphansTables
<1>4. CASE \/ Start \/ StoreStartTip \/ OnSynced \/ Crash
           \/ \E b \in Block : GoBack(b) \/ BeginBlock(b)
           \/ Commit \/ UNCHANGED vars
  BY <1>4, OrphansPlain
<1>5. CASE \/ FindUnconfirmed \/ Number \/ StoreTxTip
           \/ \E t \in Relayed : Deliver(t)
           \/ Validate \/ FinishTransaction
  BY <1>5, OrphansTurn
<1> QED
  BY <1>1, <1>2, <1>3, <1>4, <1>5 DEF Next

\* The genesis block has neither.
LEMMA OrphansInit ==
  ASSUME Ordinary, Init
  PROVE  OrphanInv
<1>1. PICK t \in Tx : Contents[Genesis] = <<t>>
  BY GenesisAssumption
<1>2. Contents[Genesis][1] = t /\ Len(Contents[Genesis]) = 1
  BY <1>1
<1>3. Genesis \in Block
  BY TreeAssumption
<1>4. 1 \in 1 .. Generated(Genesis)
  BY DEF Generated
<1>5. t \in AllGenerated
  BY <1>2, <1>3, <1>4 DEF AllGenerated, GeneratedBy
<1>6. t \in ToSet(Contents[Genesis])
  BY <1>1 DEF ToSet
<1>7. t \notin Contract /\ t \notin Segwit
  BY <1>5, <1>6 DEF Ordinary
<1>8. /\ db.tx = {[id |-> 1, tx |-> t, height |-> 0, index |-> 0]}
      /\ db.witness = {} /\ db.receipts = {} /\ db.logs = {}
  BY <1>2 DEF Init, GenesisTables
<1>9. \A r \in db.tx : r.tx = t
  BY <1>8
<1>10. \A w \in Handler : job[w].pc = "none"
  BY DEF Init, NoJob
<1> QED
  BY <1>7, <1>8, <1>9, <1>10 DEF OrphanInv, WitnessInv, ReceiptInv, LogInv, IdsInv

\* What they say when nothing is under way.
LEMMA OrphansImplied ==
  ASSUME LedgerInv, OrphanInv
  PROVE  NoOrphans
<1> USE DEF LedgerInv, WorkInv, TableInv, OrphanInv
<1> DEFINE calls == {r \in db.tx : r.tx \in Contract}
<1> SUFFICES ASSUME Quiet
             PROVE  /\ {<<o.id, o.at>> : o \in db.outs}
                       = UNION {{<<r.id, n>> : n \in DOMAIN Pays[r.tx]} : r \in db.tx}
                    /\ {<<i.id, i.at>> : i \in db.ins}
                       = UNION {{<<r.id, n>> : n \in DOMAIN Inputs[r.tx]} : r \in db.tx}
                    /\ \A o \in db.outs \cup db.ins : \E r \in db.tx : r.id = o.id /\ r.height = o.height
                    /\ db.witness = {r.tx : r \in db.tx} \cap Segwit
                    /\ {r \in db.receipts : r.id \in Ids(db.tx)}
                       = {[id |-> r.id, height |-> r.height, index |-> r.index] : r \in calls}
                    /\ db.logs = {[receipt |-> r.id, height |-> r.height]
                                  : r \in {c \in calls : c.height # Unconfirmed}}
  BY DEF NoOrphans
<1>1. phase = "run" /\ block = NoBlock /\ job["block"].pc = "none" /\ job["mempool"].pc = "none"
  BY DEF Quiet, ProcessInv
<1>2. \A w \in Handler : job[w].pc = "none"
  BY <1>1 DEF Handler
<1>3. ASSUME NEW r \in db.tx
      PROVE  ~WitnessDue(r) /\ ~ReceiptDue(r) /\ ~LogDue(r) /\ \A x : ~Lagging(x, r) /\ ~Stale(x, r)
  BY <1>1, <1>2 DEF WitnessDue, ReceiptDue, LogDue, Lagging, Stale, Cut, Unreceipted, Filling
<1>4. \A r \in db.tx : Filled(r)
  BY <1>1, <1>2 DEF CompleteInv, Whole, Complete, InProgress, Filling
<1>5. {<<o.id, o.at>> : o \in db.outs} = UNION {{<<r.id, n>> : n \in DOMAIN Pays[r.tx]} : r \in db.tx}
  <2>1. ASSUME NEW o \in db.outs
        PROVE  <<o.id, o.at>> \in UNION {{<<r.id, n>> : n \in DOMAIN Pays[r.tx]} : r \in db.tx}
    BY DEF OwnInv, With
  <2>2. ASSUME NEW r \in db.tx, NEW n \in DOMAIN Pays[r.tx]
        PROVE  <<r.id, n>> \in {<<o.id, o.at>> : o \in db.outs}
    BY <1>4 DEF Filled
  <2> QED
    BY <2>1, <2>2
<1>6. {<<i.id, i.at>> : i \in db.ins} = UNION {{<<r.id, n>> : n \in DOMAIN Inputs[r.tx]} : r \in db.tx}
  <2>1. ASSUME NEW i \in db.ins
        PROVE  <<i.id, i.at>> \in UNION {{<<r.id, n>> : n \in DOMAIN Inputs[r.tx]} : r \in db.tx}
    BY DEF OwnInv, With
  <2>2. ASSUME NEW r \in db.tx, NEW n \in DOMAIN Inputs[r.tx]
        PROVE  <<r.id, n>> \in {<<i.id, i.at>> : i \in db.ins}
    BY <1>4 DEF Filled
  <2> QED
    BY <2>1, <2>2
<1>7. ASSUME NEW x \in db.outs \cup db.ins
      PROVE  \E r \in db.tx : r.id = x.id /\ r.height = x.height
  <2>1. PICK r \in db.tx : r.id = x.id
    BY DEF OwnInv, With
  <2>2. job["block"].pc \notin {"spend", "lower", "replace"}
    BY <1>1
  <2>3. x.height = r.height
    BY <1>1, <2>1, <2>2 DEF HeightInv
  <2> QED
    BY <2>1, <2>3
<1>8. db.witness = {r.tx : r \in db.tx} \cap Segwit
  BY <1>3 DEF WitnessInv
<1>9. {r \in db.receipts : r.id \in Ids(db.tx)}
      = {[id |-> r.id, height |-> r.height, index |-> r.index] : r \in calls}
  <2>1. \A x \in db.receipts, r \in db.tx : x.id = r.id =>
          r.tx \in Contract /\ x.height = r.height /\ x.index = r.index
    BY <1>3 DEF ReceiptInv
  <2>2. ASSUME NEW x \in db.receipts, x.id \in Ids(db.tx)
        PROVE  x \in {[id |-> r.id, height |-> r.height, index |-> r.index] : r \in calls}
    <3>1. PICK r \in db.tx : r.id = x.id
      BY <2>2 DEF Ids
    <3>2. r \in calls /\ x.height = r.height /\ x.index = r.index
      BY <2>1, <3>1
    <3>3. x = [id |-> x.id, height |-> x.height, index |-> x.index]
      BY DEF ReceiptInv
    <3>4. x = [id |-> r.id, height |-> r.height, index |-> r.index]
      BY <3>1, <3>2, <3>3
    <3> QED
      BY <3>2, <3>4
  <2>3. ASSUME NEW r \in calls
        PROVE  /\ [id |-> r.id, height |-> r.height, index |-> r.index] \in db.receipts
               /\ r.id \in Ids(db.tx)
    <3>1. PICK x \in db.receipts : x.id = r.id
      BY <1>3 DEF ReceiptInv
    <3>2. x.height = r.height /\ x.index = r.index
      BY <2>1, <3>1
    <3>3. x = [id |-> x.id, height |-> x.height, index |-> x.index]
      BY DEF ReceiptInv
    <3>4. x = [id |-> r.id, height |-> r.height, index |-> r.index]
      BY <3>1, <3>2, <3>3
    <3> QED
      BY <3>4 DEF Ids
  <2>4. ASSUME NEW y \in {[id |-> r.id, height |-> r.height, index |-> r.index] : r \in calls}
        PROVE  y \in db.receipts /\ y.id \in Ids(db.tx)
    BY <2>3
  <2> HIDE DEF calls
  <2> QED
    BY <2>2, <2>4
<1>10. db.logs = {[receipt |-> r.id, height |-> r.height] : r \in {c \in calls : c.height # Unconfirmed}}
  <2>1. ASSUME NEW l \in db.logs
        PROVE  l \in {[receipt |-> r.id, height |-> r.height] : r \in {c \in calls : c.height # Unconfirmed}}
    <3>1. /\ l = [receipt |-> l.receipt, height |-> l.height] /\ l.height # Unconfirmed
          /\ \E r \in db.tx : r.id = l.receipt /\ r.tx \in Contract /\ (r.height = l.height \/ Stale(l, r))
      BY DEF LogInv
    <3>2. PICK r \in db.tx : r.id = l.receipt /\ r.tx \in Contract /\ r.height = l.height
      BY <1>3, <3>1
    <3>3. l = [receipt |-> r.id, height |-> r.height]
      BY <3>1, <3>2
    <3> QED
      BY <3>1, <3>2, <3>3
  <2>2. ASSUME NEW r \in db.tx, r.tx \in Contract, r.height # Unconfirmed
        PROVE  [receipt |-> r.id, height |-> r.height] \in db.logs
    BY <1>3, <2>2 DEF LogInv
  <2> QED
    BY <2>1, <2>2
<1> HIDE DEF calls
<1> QED
  BY <1>5, <1>6, <1>7, <1>8, <1>9, <1>10

\* The ledger, its witnesses, its receipts and its logs, in every state, under the
\* hypotheses of LedgerTheorem, and if coinbases and coinstakes call no contract
\* and the first block has no witness (Ordinary).
THEOREM OrphansInvariant ==
  ASSUME CalmMempool, CalmStart, Unrivalled, Ordinary
  PROVE  Spec => [](LedgerInv /\ OrphanInv)
<1> USE DEF Calm
<1>1. Init => LedgerInv /\ OrphanInv
  BY LedgerInit, OrphansInit
<1>2. LedgerInv /\ OrphanInv /\ [Next]_vars => (LedgerInv /\ OrphanInv)'
  BY LedgerNext, OrphansNext
<1> QED
  BY <1>1, <1>2, PTL DEF Spec

\* NoOrphans: when no block, transaction or reorganization is being written, the
\* outputs, the inputs and the witnesses are those of the transactions in the
\* table, none missing and none left over, at the height of their transaction, and
\* a contract call has its receipt at its place and, confirmed, its logs: under
\* the hypotheses of OrphansInvariant.
THEOREM OrphansTheorem ==
  ASSUME CalmMempool, CalmStart, Unrivalled, Ordinary
  PROVE  Spec => []NoOrphans
<1> USE DEF Calm
<1>1. LedgerInv /\ OrphanInv => NoOrphans
  BY OrphansImplied
<1> QED
  BY <1>1, OrphansInvariant, PTL
===============================================================================
