-------------------------------- MODULE TxIndex --------------------------------
(***************************************************************************)
(* src/node/services/transaction.js and src/node/services/mempool.js: the  *)
(* tables of transactions, outputs, inputs, balances and receipts, which   *)
(* the block service has written block by block and the peers transaction  *)
(* by transaction.                                                         *)
(*                                                                         *)
(* Of the block service (BlockService) only the promise of IndexedChain is *)
(* kept: a block follows the last one, its tip is stored when every        *)
(* service has written it, and a reorganization stores the tip it goes     *)
(* back to before any service undoes anything.                             *)
(*                                                                         *)
(* The database is one record of tables, a statement an operator from the  *)
(* database before it to the one after it, and an action one statement, or *)
(* statements on different tables that are awaited together.               *)
(***************************************************************************)
EXTENDS BlockTree, Sequences, SequencesExt, FiniteSets, FiniteSetsExt

CONSTANTS
  Tx, NoTx, Address,
  Contents,       \* the transactions of a block, in order
  Inputs,         \* the outputs that a transaction spends, in order; that of a
                  \* coinbase spends output 0 of NoTx
  Pays,           \* the addresses of its outputs, in order
  Relayed,        \* the transactions that peers may send alone,
  Segwit,         \* those with a witness,
  Contract,       \* with one contract output, and
  Spender,        \* that spend contract outputs (OP_SPEND)
  LastPoW,        \* lastPoWBlockHeight
  Unconfirmed,    \* 0xffffffff
  Null,
  Stalled,
  CalmMempool,    \* whether a transaction of the peers has nothing to do with a
                  \* block that is written meanwhile, nor with a confirmed one
  CalmStart,      \* whether reorganizations only happen after onSynced()
  MaxWaiting, MaxDeliveries, MaxCrashes, MaxReorgs  \* bounds

ASSUME LedgerAssumption ==
  /\ NoTx \notin Tx /\ NoBlock \notin Tx /\ Stalled \notin Tx \cup {NoTx}
  /\ Contents \in [Block -> Seq(Tx)]
  /\ Inputs \in [Tx -> Seq([tx : Tx \cup {NoTx}, at : Nat]) \ {<<>>}]
  /\ Pays \in [Tx -> Seq(Address) \ {<<>>}]
  /\ Relayed \cup Segwit \cup Contract \cup Spender \subseteq Tx
  /\ LastPoW \in Nat
  /\ Unconfirmed \in Nat /\ Unconfirmed > 1 /\ Null \notin Nat
  /\ \A b \in Block : Depth[b] < Unconfirmed
  /\ CalmMempool \in BOOLEAN /\ CalmStart \in BOOLEAN
  /\ MaxWaiting \in Nat /\ MaxDeliveries \in Nat
  /\ MaxCrashes \in Nat /\ MaxReorgs \in Nat

\* The outputs that t spends: all of them, and those there are.
Outpoints(t) == ToSet(Inputs[t])
Coins(t) == {o \in Outpoints(t) : o.tx # NoTx}

\* The coinbase and the stake of a block.
Generated(b) == IF Depth[b] > LastPoW THEN 2 ELSE 1
GeneratedBy(b) == {Contents[b][n] : n \in 1 .. Generated(b)}

\* The transactions of the blocks of a chain up to height h.
TxsUpTo(b, h) == UNION {ToSet(Contents[Branch[b][d]]) : d \in 0 .. h}

\* The blocks are valid: a transaction spends outputs of earlier ones, no two of a
\* chain are the same or spend the same output, and what one block generates is
\* not among the other transactions of any.
ASSUME ChainAssumption ==
  \A b \in Block :
    /\ Len(Contents[b]) >= Generated(b)
    /\ \A n \in DOMAIN Contents[b] : \A o \in Outpoints(Contents[b][n]) :
         IF n = 1 THEN o.tx = NoTx
         ELSE /\ o.tx \in TxsUpTo(b, Depth[b] - 1) \cup {Contents[b][m] : m \in 1 .. n-1}
              /\ o.at \in DOMAIN Pays[o.tx]
    /\ \A d, e \in 0 .. Depth[b] :
         \A m \in DOMAIN Contents[Branch[b][d]], n \in DOMAIN Contents[Branch[b][e]] :
           LET s == Contents[Branch[b][d]][m]
               t == Contents[Branch[b][e]][n]
           IN  <<d, m>> # <<e, n>> => s # t /\ Coins(s) \cap Coins(t) = {}
    /\ \A a \in Block : \A n \in DOMAIN Contents[b] :
         n > Generated(b) => Contents[b][n] \notin GeneratedBy(a)

ASSUME GenesisAssumption ==
  \E t \in Tx : Contents[Genesis] = <<t>> /\ Len(Inputs[t]) = 1 /\ Len(Pays[t]) = 1

\* The peers are nodes, and send what could be in a block: nothing that a block
\* generates, nor what spends an output that one it rests on spends.
ASSUME RelayAssumption ==
  /\ \A t \in Tx : IsInjective(Inputs[t])
  /\ \A t \in Relayed :
       /\ Outpoints(t) = Coins(t)
       /\ \A b \in Block : t \notin GeneratedBy(b)
       /\ \E A \in SUBSET (Tx \ {t}) :
            /\ \A s \in A \cup {t} : \A o \in Coins(s) : o.tx \in A
            /\ \A s \in A : Coins(s) \cap Coins(t) = {}

Handler == {"block", "mempool"}

VARIABLES
  db,             \* the tables; next is the next AUTO_INCREMENT
  storedTip,      \* the block service's tip in the table of tips
  txTip,          \* this service's tip there
  phase,          \* "down", "clean" (start), "run", "undo" (onReorg)
  step,           \* the statement of start or onReorg to be executed
  fault,          \* why the process last stopped
  synced,         \* #synced, and the mempool service's #enabled
  tip,            \* the last block written or gone back to
  block,          \* the block that is being written, or the last of those that
                  \* are undone, or NoBlock
  job,            \* the two handlers that write transactions
  waiting,        \* #transactionProcessor
  running,
  overlooked,     \* history: the addresses that processTxos of a block found at
                  \* a greater height, and left there
  deliveries, crashes, reorgs

tips == <<storedTip, txTip>>
process == <<phase, step, fault, synced, tip, block>>
queue == <<waiting, running>>
counters == <<deliveries, crashes, reorgs>>
vars == <<db, tips, process, job, queue, overlooked, counters>>

Queue == INSTANCE AsyncQueue WITH Item <- Tx, NoItem <- NoTx

-----------------------------------------------------------------------------
(* The rows: id is the _id of the transaction, and at a place among its      *)
(* outputs or inputs, from 1.  by and byAt are the input that spends an      *)
(* output, from and fromAt the output that an input spends; 0 is for none.   *)

TransactionRow == [id : Nat, tx : Tx, height : Nat, index : Nat]
OutputRow == [id : Nat, at : Nat, height : Nat, address : Nat, by : Nat, byAt : Nat,
              byHeight : Nat \cup {Null}]
InputRow == [id : Nat, at : Nat, height : Nat, address : Nat, from : Nat, fromAt : Nat]
BalanceRow == [id : Nat, address : Nat, height : Nat, index : Nat, value : Int]
ReceiptRow == [id : Nat, height : Nat, index : Nat]
LogRow == [receipt : Nat, height : Nat]
AddressRow == [id : Nat, address : Address, create : Nat]
\* The witnesses of a transaction are one row, its hash.
WitnessRow == Segwit
\* contract_spend and gas_refund: the transaction and its source or refund.
PairRow == Nat \X Nat

-----------------------------------------------------------------------------
(* Statements.                                                             *)

Update(table, Where(_), New(_)) == {IF Where(r) THEN New(r) ELSE r : r \in table}

Ids(rows) == {r.id : r \in rows}
Named(d, names) == {r \in d.tx : r.tx \in names}

\* The join of an input with the output it has been linked to.
Spends(i, o) == i.from = o.id /\ i.fromAt = o.at

\* The outputs linked to these inputs are unspent again.
Freed(outs, ins) ==
  Update(outs, LAMBDA o : \E i \in ins : Spends(i, o),
         LAMBDA o : [o EXCEPT !.by = 0, !.byAt = 0, !.byHeight = Null])

RaisedAbove(table, h) ==
  Update(table, LAMBDA r : r.height > h, LAMBDA r : [r EXCEPT !.height = Unconfirmed])

\* The statements of start().  The fourth joins gas_refund and contract_spend
\* by the hash of the transaction, which no row has: they stay.
Cleaned(k, d, h) ==
  LET dead == {r \in d.tx : r.height > h} IN
  CASE k = 1 -> [d EXCEPT !.outs = {o \in @ : o.height <= h}]
    [] k = 2 -> [d EXCEPT !.outs = Freed(@, {i \in d.ins : i.height > h})]
    [] k = 3 -> [d EXCEPT !.ins = {i \in @ : i.height <= h}]
    [] k = 4 -> [d EXCEPT !.tx = @ \ dead,
                          !.witness = @ \ {r.tx : r \in dead},
                          !.receipts = {r \in @ : r.id \notin Ids(dead)},
                          !.logs = {l \in @ : l.receipt \notin Ids(dead)},
                          !.balances = {b \in @ : b.id \notin Ids(dead)}]
    [] k = 5 -> [d EXCEPT !.addresses = {a \in @ : a.create <= h}]
CleanStatements == 5

\* Those of onReorg(h): coinbases and stakes go, the other transactions are
\* unconfirmed again.
Undone(k, d, h) ==
  LET above     == {r \in d.tx : r.height > h}
      stakes    == {r \in above : r.index = 1 /\ r.height > LastPoW}
      generated == stakes \cup {r \in above : r.index = 0}
      linked    == {i \in d.ins : i.height > h /\ \E o \in d.outs : Spends(i, o)}
  IN
  CASE k = 1 -> [d EXCEPT !.outs = Freed(@, {i \in d.ins : i.id \in Ids(stakes)})]
    [] k = 2 -> [d EXCEPT !.refunds = {r \in @ : r[1] \notin Ids(above)},
                          !.spends = {s \in @ : s[1] \notin Ids(above)}]
    [] k = 3 -> [d EXCEPT !.tx = @ \ generated,
                          !.witness = @ \ {r.tx : r \in generated},
                          !.outs = {o \in @ : o.id \notin Ids(generated)},
                          !.ins = {i \in @ : i.id \notin Ids(generated)},
                          !.balances = {b \in @ : b.id \notin Ids(generated)}]
    [] k = 4 -> [d EXCEPT !.tx = Update(@, LAMBDA r : r \in above,
                   LAMBDA r : [r EXCEPT !.height = Unconfirmed, !.index = Unconfirmed])]
    [] k = 5 -> [d EXCEPT !.outs = RaisedAbove(@, h)]
    [] k = 6 -> [d EXCEPT !.receipts = Update(@, LAMBDA r : r.height > h,
                   LAMBDA r : [r EXCEPT !.height = Unconfirmed, !.index = Unconfirmed])]
    [] k = 7 -> [d EXCEPT !.logs = {l \in @ : l.height <= h}]
    [] k = 8 -> [d EXCEPT
                   !.outs = Update(@, LAMBDA o : \E i \in linked : Spends(i, o),
                                   LAMBDA o : [o EXCEPT !.byHeight = Unconfirmed]),
                   !.ins = Update(@, LAMBDA i : i \in linked,
                                  LAMBDA i : [i EXCEPT !.height = Unconfirmed])]
    [] k = 9 -> [d EXCEPT !.balances = Update(@, LAMBDA b : b.id \in Ids(above),
                   LAMBDA b : [b EXCEPT !.height = Unconfirmed, !.index = Unconfirmed])]
    [] k = 10 -> [d EXCEPT !.addresses = Update(@, LAMBDA a : a.create > h,
                    LAMBDA a : [a EXCEPT !.create = Unconfirmed])]
UndoStatements == 10

\* The transactions of the roots and what spends their outputs, down to the
\* last: the least set that the calls of _removeMempoolTransaction reach.
Descendants(d, roots) ==
  LET all == roots \cup {o.by : o \in d.outs}
      closed == {S \in SUBSET all : roots \subseteq S /\ \A o \in d.outs : o.id \in S => o.by \in S}
  IN  {x \in all : \A S \in closed : x \in S}

\* _removeMempoolTransaction(id) of the roots, the inputs being unlinked.  Their
\* receipts stay.
Removed(d, roots) ==
  LET all == Descendants(d, roots)
      gone == {r \in d.tx : r.id \in all}
      ins == {i \in d.ins : i.id \in all}
  IN  [d EXCEPT !.outs = Update({o \in @ : o.id \notin all},
                                LAMBDA o : \E i \in ins : Spends(i, o),
                                LAMBDA o : [o EXCEPT !.by = 0, !.byAt = 0]),
                !.ins = @ \ ins,
                !.balances = {b \in @ : b.id \notin all},
                !.tx = @ \ gone,
                !.witness = @ \ {r.tx : r \in gone}]

\* The outputs in the table that t spends.
Sources(d, t) ==
  {o \in d.outs : \E n \in DOMAIN Inputs[t] :
     /\ Inputs[t][n].at = o.at
     /\ o.id \in Ids(Named(d, {Inputs[t][n].tx}))}

\* removeReplacedTransactions(t): it gives up when one of the transactions that
\* t spends is not in the table.
Replaced(d, t) ==
  IF \E n \in DOMAIN Inputs[t] : Named(d, {Inputs[t][n].tx}) = {} THEN d
  ELSE Removed(d, {o.by : o \in Sources(d, t)} \ {0})

-----------------------------------------------------------------------------
(* The statements that write transactions: job j of _processBlock(block) or  *)
(* of _onTransaction, at height h.                                         *)

\* indexInBlock.
IndexOf(t, h) ==
  IF h = Unconfirmed THEN Unconfirmed
  ELSE (CHOOSE n \in DOMAIN Contents[block] : Contents[block][n] = t) - 1

\* Mutation: the inputs keep the height of the mempool.
Adopted_Outputs(d, ids, h) ==
  [d EXCEPT !.outs = Update(@, LAMBDA o : o.id \in ids, LAMBDA o : [o EXCEPT !.height = h])]

\* The rows of the mempool that the block confirms: their outputs and inputs,
\* the outputs they spend, and their addresses.
Adopted(d, ids, h) ==
  [d EXCEPT !.outs = Update(@, LAMBDA o : o.id \in ids, LAMBDA o : [o EXCEPT !.height = h]),
            !.ins = Update(@, LAMBDA i : i.id \in ids, LAMBDA i : [i EXCEPT !.height = h])]

Spent(d, ids, h) ==
  [d EXCEPT !.outs = Update(@,
     LAMBDA o : \E i \in d.ins : i.id \in ids /\ Spends(i, o),
     LAMBDA o : [o EXCEPT !.byHeight = h])]

\* Mutation: the addresses stay those of the mempool.
Lowered_Not(d, ids, h) == d
Lowered(d, ids, h) ==
  [d EXCEPT !.addresses = Update(@,
     LAMBDA a : a.create > h /\ \E o \in d.outs : o.id \in ids /\ o.address = a.id,
     LAMBDA a : [a EXCEPT !.create = h])]

\* Mutation: every transaction is new.
Created_All(d, ts, h) ==
  [d EXCEPT !.tx = @ \cup {[id |-> d.next + n, tx |-> ts[n], height |-> h,
                            index |-> IndexOf(ts[n], h)] : n \in DOMAIN ts},
            !.next = @ + Len(ts)]

\* The members of a set of numbers in their order, and the elements of a
\* sequence at these places.
Ordered(S) ==
  [n \in 1 .. Cardinality(S) |-> CHOOSE x \in S : Cardinality({y \in S : y <= x}) = n]
Picked(s, places) == [n \in 1 .. Cardinality(places) |-> s[Ordered(places)[n]]]

\* The rows of the transactions ts, of which those not in the table are new.
Created(d, ts, h) ==
  LET new == Picked(ts, {n \in DOMAIN ts : Named(d, {ts[n]}) = {}})
  IN  [d EXCEPT
         !.tx = Update(@, LAMBDA r : r.tx \in ToSet(ts),
                       LAMBDA r : [r EXCEPT !.height = h, !.index = IndexOf(r.tx, h)])
                \cup {[id |-> d.next + n, tx |-> new[n], height |-> h,
                       index |-> IndexOf(new[n], h)] : n \in DOMAIN new},
         !.next = @ + Len(new)]

WithWitness(d, ts) == [d EXCEPT !.witness = @ \cup (ToSet(ts) \cap Segwit)]

\* The ids of the transactions in the order of their ids.
Numbered(d, ts) == Ordered(Ids(Named(d, ToSet(ts))))

Paid(ts) == UNION {ToSet(Pays[t]) : t \in ToSet(ts)}

WithAddresses(d, new, h) ==
  LET list == SetToSeq(new)
  IN  [d EXCEPT !.addresses = @ \cup {[id |-> d.next + n, address |-> list[n],
                                       create |-> h] : n \in DOMAIN list},
                !.next = @ + Len(list)]

\* The outputs and inputs, as yet unlinked.
Inserted(d, j, h) ==
  LET row(a) == CHOOSE r \in d.addresses : r.address = a IN
  [d EXCEPT
     !.outs = @ \cup UNION {{[id |-> j.ids[n], at |-> m, height |-> h,
                              address |-> row(Pays[j.txs[n]][m]).id,
                              by |-> 0, byAt |-> 0, byHeight |-> Null]
                             : m \in DOMAIN Pays[j.txs[n]]} : n \in DOMAIN j.txs},
     !.ins = @ \cup UNION {{[id |-> j.ids[n], at |-> m, height |-> h,
                             address |-> 0, from |-> 0, fromAt |-> 0]
                            : m \in DOMAIN Inputs[j.txs[n]]} : n \in DOMAIN j.txs}]

\* The join of the mapping: input i is that of one of the transactions, and o
\* the output it names, by the hashes of both.
Joined(d, ts, i, o) ==
  \E t \in ToSet(ts) :
    /\ i.id \in Ids(Named(d, {t}))
    /\ i.at \in DOMAIN Inputs[t]
    /\ o.id \in Ids(Named(d, {Inputs[t][i.at].tx}))
    /\ o.at = Inputs[t][i.at].at

Linked(d, ts) ==
  [d EXCEPT
     !.ins = {IF \E o \in d.outs : Joined(d, ts, i, o)
              THEN LET o == CHOOSE p \in d.outs : Joined(d, ts, i, p)
                   IN  [i EXCEPT !.address = o.address, !.from = o.id, !.fromAt = o.at]
              ELSE i : i \in @},
     !.outs = {IF \E i \in d.ins : Joined(d, ts, i, o)
               THEN LET i == CHOOSE l \in d.ins : Joined(d, ts, l, o)
                    IN  [o EXCEPT !.by = i.id, !.byAt = i.at, !.byHeight = i.height]
               ELSE o : o \in @}]

\* Mutation: they stay where they were.
Adjusted_Not(d, h) == d

\* processBalanceChanges: the rows of transactions of an earlier moment first.
Adjusted(d, h) ==
  [d EXCEPT !.balances = {IF \E r \in d.tx : r.id = b.id /\ r.height = h
                          THEN [b EXCEPT !.height = h, !.index =
                                  (CHOOSE r \in d.tx : r.id = b.id).index]
                          ELSE b : b \in @}]

\* Every output counts for one.
Change(d, x, a) ==
  Cardinality({o \in d.outs : o.id = x /\ o.address = a})
  - Cardinality({i \in d.ins : i.id = x /\ i.address = a /\ i.from # 0})

BalanceRows(d, ids) ==
  LET row(x) == CHOOSE r \in d.tx : r.id = x IN
  {[id |-> xa[1], address |-> xa[2], height |-> row(xa[1]).height,
    index |-> row(xa[1]).index, value |-> Change(d, xa[1], xa[2])]
   : xa \in {<<r.id, r.address>> : r \in {q \in d.outs \cup d.ins : q.id \in ids}}}

\* processReceipts: the sender is the address of the first input.
SenderKnown(d, j, n) ==
  \E i \in d.ins : i.id = j.ids[n] /\ i.at = 1
                   /\ i.address \in {a.id : a \in d.addresses}

WithReceipts(d, j, h) ==
  [d EXCEPT !.receipts = @ \cup {[id |-> j.ids[n], height |-> h, index |-> IndexOf(j.txs[n], h)]
                                 : n \in {m \in DOMAIN j.txs : j.txs[m] \in Contract}}]

\* The contract calls among the block's transactions.
Calls(b) == {n \in DOMAIN Contents[b] : Contents[b][n] \in Contract \ Spender}

\* _processContracts(b), with one log for a receipt.
WithContracts(d, b) ==
  LET h == Depth[b]
      txs == Contents[b]
      ids == [n \in DOMAIN txs |-> (CHOOSE r \in d.tx : r.height = h /\ r.index = n-1).id]
      \* the last transaction before n that is neither OP_SPEND nor the coinbase
      caller(n) == Max({1} \cup {m \in 2 .. n-1 : txs[m] \notin Spender})
      calls == Calls(b)
  IN  [d EXCEPT
         !.spends = @ \cup {<<ids[n], ids[caller(n)]>> : n \in {m \in DOMAIN txs : txs[m] \in Spender}},
         !.refunds = @ \cup {<<ids[n], ids[Generated(b)]>> : n \in calls},
         !.receipts = {IF \E n \in calls : r.id = ids[n]
                       THEN [r EXCEPT !.height = h,
                                      !.index = (CHOOSE n \in calls : r.id = ids[n]) - 1]
                       ELSE r : r \in @},
         !.logs = @ \cup {[receipt |-> ids[n], height |-> h] : n \in calls}]

-----------------------------------------------------------------------------
(* What CalmMempool assumes.                                               *)

\* t and the unconfirmed transactions it rests on.
Lineage(t) ==
  LET all == {t} \cup {r.tx : r \in {q \in db.tx : q.height = Unconfirmed}}
      closed == {S \in SUBSET all : t \in S /\ \A s \in S : \A o \in Outpoints(s) : o.tx \in all => o.tx \in S}
  IN  {s \in all : \A S \in closed : s \in S}

\* A transaction of the peers that has nothing to do with block b: none of the
\* block's transactions is one it rests on, spends its outputs or the same
\* ones, or pays an address it pays; and it spends nothing the block has
\* generated.
Apart(t, b) ==
  /\ \A s \in ToSet(Contents[b]) :
       /\ s \notin Lineage(t)
       /\ \A r \in Lineage(t) : Outpoints(s) \cap Outpoints(r) = {}
       /\ \A o \in Outpoints(s) : o.tx # t
       /\ Paid(<<s>>) \cap Paid(<<t>>) = {}
  /\ \A o \in Outpoints(t) : o.tx \notin GeneratedBy(b)

\* The transactions of the blocks up to the tip.
Confirmed == TxsUpTo(tip, Depth[tip])

\* A transaction that is not confirmed and spends nothing a confirmed one does.
Fresh(t) ==
  /\ t \notin Confirmed
  /\ \A s \in Confirmed : Outpoints(s) \cap Outpoints(t) = {}

\* The blocks that are being written or undone.
Touched == IF block = NoBlock THEN {}
           ELSE {Branch[block][d] : d \in Depth[tip] + 1 .. Depth[block]}

Undisturbed(b) ==
  CalmMempool => \A t \in ToSet(waiting) \cup ({running} \ {NoTx}) : Apart(t, b)

\* The maturity of coins: what the blocks above a have generated is only spent
\* by what goes with them.
Mature(a) ==
  LET removed == UNION {GeneratedBy(Branch[tip][d]) : d \in Depth[a] + 1 .. Depth[tip]} IN
  \A r \in db.tx : r.tx \in removed \/ \A o \in Outpoints(r.tx) : o.tx \notin removed

-----------------------------------------------------------------------------
(* The process.                                                            *)

NoJob == [pc |-> "none", txs |-> <<>>, todo |-> <<>>, ids |-> <<>>, found |-> {}, known |-> {}]

Stop(reason) ==
  /\ phase' = "down"
  /\ step' = 0
  /\ fault' = reason
  /\ synced' = FALSE
  /\ block' = NoBlock
  /\ job' = [w \in Handler |-> NoJob]
  /\ waiting' = <<>>
  /\ running' = NoTx
  /\ UNCHANGED <<db, tips, tip, overlooked>>

\* start(): the tip is the lower one of the block service's and its own.
StartTip == IF Depth[txTip] > Depth[storedTip] THEN storedTip ELSE txTip

Start ==
  /\ phase = "down"
  /\ phase' = "clean"
  /\ step' = 1
  /\ fault' = "none"
  /\ tip' = storedTip
  /\ UNCHANGED <<db, tips, synced, block, job, queue, overlooked, counters>>

Clean ==
  /\ phase = "clean"
  /\ step <= CleanStatements
  /\ db' = Cleaned(step, db, Depth[StartTip])
  /\ step' = step + 1
  /\ UNCHANGED <<tips, phase, fault, synced, tip, block, job, queue, overlooked, counters>>

StoreStartTip ==
  /\ phase = "clean"
  /\ step > CleanStatements
  /\ txTip' = StartTip
  /\ phase' = "run"
  /\ step' = 0
  /\ UNCHANGED <<db, storedTip, fault, synced, tip, block, job, queue, overlooked, counters>>

\* The block service has caught up: onSynced(), of both services.
OnSynced ==
  /\ phase = "run"
  /\ block = NoBlock
  /\ ~synced
  /\ synced' = TRUE
  /\ UNCHANGED <<db, tips, phase, step, fault, tip, block, job, queue, overlooked, counters>>

\* Mutation: the block service stores the tip it goes back to at the end.
GoBack_Late(a) ==
  /\ phase = "run"
  /\ block = NoBlock
  /\ reorgs < MaxReorgs
  /\ CalmStart => synced
  /\ a # tip /\ OnBranch(a, tip)
  /\ \A d \in Depth[a] + 1 .. Depth[tip] : Undisturbed(Branch[tip][d])
  /\ Mature(a)
  /\ tip' = a
  /\ block' = tip
  /\ phase' = "undo"
  /\ step' = 1
  /\ reorgs' = reorgs + 1
  /\ UNCHANGED <<db, tips, fault, synced, job, queue, overlooked, deliveries, crashes>>

\* A reorganization of the block service.
GoBack(a) ==
  /\ phase = "run"
  /\ block = NoBlock
  /\ reorgs < MaxReorgs
  /\ CalmStart => synced
  /\ a # tip /\ OnBranch(a, tip)
  /\ \A d \in Depth[a] + 1 .. Depth[tip] : Undisturbed(Branch[tip][d])
  /\ Mature(a)
  /\ storedTip' = a
  /\ tip' = a
  /\ block' = tip
  /\ phase' = "undo"
  /\ step' = 1
  /\ reorgs' = reorgs + 1
  /\ UNCHANGED <<db, txTip, fault, synced, job, queue, overlooked, deliveries, crashes>>

Undo ==
  /\ phase = "undo"
  /\ db' = Undone(step, db, Depth[tip])
  /\ IF step < UndoStatements THEN step' = step + 1 /\ UNCHANGED phase
     ELSE step' = 0 /\ phase' = "run"
  /\ block' = IF step < UndoStatements THEN block ELSE NoBlock
  /\ UNCHANGED <<tips, fault, synced, tip, job, queue, overlooked, counters>>

-----------------------------------------------------------------------------
(* The handlers.                                                           *)

Height(w) == IF w = "block" THEN Depth[block] ELSE Unconfirmed

Writing(w, pc) == phase \in {"run", "undo"} /\ job[w].pc = pc
Goes(w, pc) == job' = [job EXCEPT ![w].pc = pc]

\* The addresses of the block's transactions that stay at a greater height.
Overlooking ==
  {a.id : a \in {r \in db.addresses :
                 r.create > Depth[block] /\ r.address \in Paid(job["block"].txs)}}

\* A statement of handler w, from pc to next.
Statement(w, pc, next, d) ==
  /\ Writing(w, pc)
  /\ db' = d
  /\ Goes(w, next)
  /\ overlooked' = IF w = "block" /\ pc = "insert" THEN overlooked \cup Overlooking ELSE overlooked
  /\ UNCHANGED <<tips, process, queue, counters>>

\* The database refuses it, or its answer is not the expected one.
Refused(w, pc, reason) ==
  /\ Writing(w, pc)
  /\ Stop(reason)
  /\ UNCHANGED counters

\* onBlock, _processBlock.
BeginBlock(b) ==
  /\ phase = "run"
  /\ block = NoBlock
  /\ Parent[b] = tip
  /\ Undisturbed(b)
  /\ block' = b
  /\ job' = [job EXCEPT !["block"] =
               [NoJob EXCEPT !.pc = IF synced THEN "find" ELSE "replace", !.txs = Contents[b]]]
  /\ UNCHANGED <<db, tips, phase, step, fault, synced, tip, queue, overlooked, counters>>

\* The transactions of the block that the mempool has, those the block has
\* made itself apart; of the new ones, all but the coinbase may replace others.
FindUnconfirmed ==
  LET txs == Contents[block]
      found == Named(db, {txs[n] : n \in Generated(block) + 1 .. Len(txs)})
      new == {n \in DOMAIN txs : \A r \in found : r.tx # txs[n]}
  IN
  /\ Writing("block", "find")
  /\ job' = [job EXCEPT !["block"] =
       [@ EXCEPT !.pc = IF found = {} THEN "replace" ELSE "adopt",
                 !.found = Ids(found), !.txs = Picked(txs, new), !.todo = Picked(txs, new \ {1})]]
  /\ UNCHANGED <<db, tips, process, queue, overlooked, counters>>

Adopt == Statement("block", "adopt", "spend", Adopted(db, job["block"].found, Depth[block]))
Spend == Statement("block", "spend", "lower", Spent(db, job["block"].found, Depth[block]))
Lower == Statement("block", "lower", "replace", Lowered(db, job["block"].found, Depth[block]))

\* Mutation: conflicting transactions of the mempool stay.
Replace_Not(w) ==
  /\ Writing(w, "replace") /\ job[w].todo # <<>>
  /\ job' = [job EXCEPT ![w].todo = Tail(@)]
  /\ UNCHANGED <<db, tips, process, queue, overlooked, counters>>

\* removeReplacedTransactions, of one transaction after the other.
Replace(w) ==
  /\ Writing(w, "replace") /\ job[w].todo # <<>>
  /\ db' = Replaced(db, Head(job[w].todo))
  /\ job' = [job EXCEPT ![w].todo = Tail(@)]
  /\ UNCHANGED <<tips, process, queue, overlooked, counters>>

\* The rows, which a block updates once it is synced.
CreateTransactions(w) ==
  LET ts == IF w = "block" THEN Contents[block] ELSE job[w].txs
      refused == Named(db, ToSet(ts)) # {} /\ ~(w = "block" /\ synced)
  IN
  /\ Writing(w, "replace") /\ job[w].todo = <<>>
  /\ \/ /\ ~refused
        /\ db' = Created(db, ts, Height(w))
        /\ job' = [job EXCEPT ![w].pc = "witness",
                     ![w].ids = IF w = "mempool" THEN <<db.next + 1>> ELSE <<>>]
        /\ UNCHANGED <<tips, process, queue, overlooked, counters>>
     \/ refused /\ Refused(w, "replace", "duplicate")

CreateWitnesses(w) ==
  LET refused == db.witness \cap ToSet(job[w].txs) # {} IN
  /\ Writing(w, "witness")
  /\ \/ ~refused /\ Statement(w, "witness", IF w = "block" THEN "number" ELSE "addresses",
                             WithWitness(db, job[w].txs))
     \/ refused /\ Refused(w, "witness", "duplicate")

Number ==
  /\ Writing("block", "number")
  /\ job' = [job EXCEPT !["block"].pc = "addresses",
                     !["block"].ids = Numbered(db, job["block"].txs)]
  /\ UNCHANGED <<db, tips, process, queue, overlooked, counters>>

\* processTxos: the addresses in the table.
FindAddresses(w) ==
  /\ Writing(w, "addresses")
  /\ job' = [job EXCEPT ![w].pc = "new",
               ![w].known = Paid(job[w].txs) \cap {a.address : a \in db.addresses}]
  /\ UNCHANGED <<db, tips, process, queue, overlooked, counters>>

CreateAddresses(w) ==
  LET new == Paid(job[w].txs) \ job[w].known
      refused == \E a \in db.addresses : a.address \in new
  IN
  /\ Writing(w, "new")
  /\ \/ ~refused /\ Statement(w, "new", "insert", WithAddresses(db, new, Height(w)))
     \/ refused /\ Refused(w, "new", "duplicate")

Insert(w) ==
  LET refused == \E r \in db.outs \cup db.ins : r.id \in ToSet(job[w].ids) IN
  /\ Writing(w, "insert")
  /\ \/ ~refused /\ Statement(w, "insert", "link", Inserted(db, job[w], Height(w)))
     \/ refused /\ Refused(w, "insert", "duplicate")

Link(w) == Statement(w, "link", IF w = "block" /\ synced THEN "adjust" ELSE "balances",
                     Linked(db, job[w].txs))

\* processBalanceChanges.
Adjust == Statement("block", "adjust", "balances", Adjusted(db, Depth[block]))

\* Mutation: before the first sync nothing tells which transactions are meant.
Balanced_All(w) == {r.id : r \in db.outs \cup db.ins}

\* Of which transactions: a range of ids, or the height.
Balanced(w) ==
  {r.id : r \in {q \in db.outs \cup db.ins :
     IF w = "mempool" \/ synced
     THEN q.id \in job[w].ids[1] .. Last(job[w].ids) ELSE q.height = Depth[block]}}

CreateBalances(w) ==
  LET new == BalanceRows(db, Balanced(w))
      refused == \E b \in db.balances : \E n \in new : b.id = n.id /\ b.address = n.address
  IN
  /\ Writing(w, "balances")
  /\ \/ ~refused /\ Statement(w, "balances", "receipts", [db EXCEPT !.balances = @ \cup new])
     \/ refused /\ Refused(w, "balances", "duplicate")

\* processReceipts.
CreateReceipts(w) ==
  LET j == job[w]
      known == \A n \in DOMAIN j.txs : j.txs[n] \in Contract => SenderKnown(db, j, n)
  IN
  /\ Writing(w, "receipts")
  /\ \/ known /\ Statement(w, "receipts", IF w = "block" THEN "contracts" ELSE "done",
                           WithReceipts(db, j, Height(w)))
     \/ ~known /\ Refused(w, "receipts", "sender")

ProcessContracts == Statement("block", "contracts", "tip", WithContracts(db, block))

StoreTxTip ==
  /\ Writing("block", "tip")
  /\ txTip' = block
  /\ Goes("block", "commit")
  /\ UNCHANGED <<db, storedTip, process, queue, overlooked, counters>>

\* The block service's own row and tip.
Commit ==
  /\ Writing("block", "commit")
  /\ storedTip' = block
  /\ tip' = block
  /\ block' = NoBlock
  /\ job' = [job EXCEPT !["block"] = NoJob]
  /\ UNCHANGED <<db, txTip, phase, step, fault, synced, queue, overlooked, counters>>

\* _onTransaction.
Begin(t) == [NoJob EXCEPT !.pc = "validate", !.txs = <<t>>, !.todo = <<t>>]

\* _queueTransaction.
Deliver(t) ==
  /\ phase \in {"run", "undo"}
  /\ synced
  /\ deliveries < MaxDeliveries
  /\ Len(waiting) < MaxWaiting
  /\ CalmMempool => Fresh(t) /\ \A b \in Touched : Apart(t, b)
  /\ Queue!Push(t)
  /\ job' = IF running = NoTx THEN [job EXCEPT !["mempool"] = Begin(t)] ELSE job
  /\ deliveries' = deliveries + 1
  /\ UNCHANGED <<db, tips, process, overlooked, crashes, reorgs>>

\* _validate: every output it spends is in the table.
Validate ==
  LET t == job["mempool"].txs[1]
      valid == Cardinality(Sources(db, t)) = Len(Inputs[t])
  IN
  /\ Writing("mempool", "validate")
  /\ Goes("mempool", IF valid THEN "replace" ELSE "done")
  /\ UNCHANGED <<db, tips, process, queue, overlooked, counters>>

FinishTransaction ==
  /\ Writing("mempool", "done")
  /\ Queue!Resolve
  /\ job' = [job EXCEPT !["mempool"] = IF waiting = <<>> THEN NoJob ELSE Begin(Last(waiting))]
  /\ UNCHANGED <<db, tips, process, overlooked, counters>>

Crash ==
  /\ phase # "down"
  /\ crashes < MaxCrashes
  /\ crashes' = crashes + 1
  /\ Stop("crash")
  /\ UNCHANGED <<deliveries, reorgs>>

-----------------------------------------------------------------------------
\* The genesis block has been committed.
GenesisTables ==
  LET t == Contents[Genesis][1] IN
  [tx |-> {[id |-> 1, tx |-> t, height |-> 0, index |-> 0]},
   outs |-> {[id |-> 1, at |-> 1, height |-> 0, address |-> 2, by |-> 0, byAt |-> 0,
              byHeight |-> Null]},
   ins |-> {[id |-> 1, at |-> 1, height |-> 0, address |-> 0, from |-> 0, fromAt |-> 0]},
   balances |-> {[id |-> 1, address |-> 2, height |-> 0, index |-> 0, value |-> 1],
                 [id |-> 1, address |-> 0, height |-> 0, index |-> 0, value |-> 0]},
   witness |-> {}, receipts |-> {}, logs |-> {}, spends |-> {}, refunds |-> {},
   addresses |-> {[id |-> 2, address |-> Pays[t][1], create |-> 0]},
   next |-> 2]

Init ==
  /\ db = GenesisTables
  /\ storedTip = Genesis /\ txTip = Genesis /\ tip = Genesis
  /\ phase = "down" /\ step = 0 /\ fault = "none" /\ synced = FALSE /\ block = NoBlock
  /\ job = [w \in Handler |-> NoJob]
  /\ Queue!Init
  /\ overlooked = {}
  /\ deliveries = 0 /\ crashes = 0 /\ reorgs = 0

WriteTransactions(w) ==
  \/ Replace(w) \/ CreateTransactions(w) \/ CreateWitnesses(w)
  \/ FindAddresses(w) \/ CreateAddresses(w) \/ Insert(w) \/ Link(w)
  \/ CreateBalances(w) \/ CreateReceipts(w)

Next ==
  \/ Start \/ Clean \/ StoreStartTip \/ OnSynced \/ Undo \/ Crash
  \/ \E b \in Block : GoBack(b) \/ BeginBlock(b)
  \/ FindUnconfirmed \/ Adopt \/ Spend \/ Lower \/ Number \/ Adjust
  \/ \E w \in Handler : WriteTransactions(w)
  \/ ProcessContracts \/ StoreTxTip \/ Commit
  \/ \E t \in Relayed : Deliver(t)
  \/ Validate \/ FinishTransaction

Spec == Init /\ [][Next]_vars

-----------------------------------------------------------------------------
(* Properties.                                                             *)

JobState ==
  [pc : {"none", "validate", "find", "adopt", "spend", "lower", "replace", "witness", "number",
         "addresses", "new", "insert", "link", "adjust", "balances", "receipts", "contracts",
         "tip", "commit", "done"},
   txs : Seq(Tx), todo : Seq(Tx), ids : Seq(Nat), found : SUBSET Nat, known : SUBSET Address]

Unique(table, Key(_)) == \A r, s \in table : Key(r) = Key(s) => r = s

\* The types, and the keys of doc/structure.sql.
TypeOK ==
  /\ db.tx \subseteq TransactionRow /\ db.outs \subseteq OutputRow
  /\ db.ins \subseteq InputRow /\ db.balances \subseteq BalanceRow
  /\ db.receipts \subseteq ReceiptRow /\ db.logs \subseteq LogRow
  /\ db.witness \subseteq WitnessRow /\ db.addresses \subseteq AddressRow
  /\ db.spends \cup db.refunds \subseteq PairRow
  /\ Unique(db.tx, LAMBDA r : r.id) /\ Unique(db.tx, LAMBDA r : r.tx)
  /\ Unique(db.outs, LAMBDA r : <<r.id, r.at>>) /\ Unique(db.ins, LAMBDA r : <<r.id, r.at>>)
  /\ Unique(db.balances, LAMBDA r : <<r.id, r.address>>)
  /\ Unique(db.receipts, LAMBDA r : r.id) /\ Unique(db.addresses, LAMBDA r : r.address)
  /\ storedTip \in Block /\ txTip \in Block /\ tip \in Block
  /\ phase \in {"down", "clean", "run", "undo"}
  /\ step \in 0 .. UndoStatements + 1
  /\ fault \in {"none", "crash", "duplicate", "sender"}
  /\ synced \in BOOLEAN
  /\ block \in Block \cup {NoBlock}
  /\ job \in [Handler -> JobState]
  /\ Queue!TypeOK
  /\ overlooked \subseteq Nat
  /\ deliveries \in Nat /\ crashes \in Nat /\ reorgs \in Nat

\* The transactions of the chain that ends in b, where they are, and the outputs
\* they leave unspent.
ChainTxs(b) ==
  UNION {{[tx |-> Contents[c][n], height |-> Depth[c], index |-> n - 1] : n \in DOMAIN Contents[c]}
         : c \in {Branch[b][d] : d \in 0 .. Depth[b]}}

ChainUnspent(b) ==
  LET txs == {r.tx : r \in ChainTxs(b)}
  IN  (UNION {{[tx |-> t, at |-> n] : n \in DOMAIN Pays[t]} : t \in txs})
      \ (UNION {Outpoints(t) : t \in txs})

UpTo(h, x) == x # Null /\ x <= h

TxOf(id) == IF \E r \in db.tx : r.id = id THEN (CHOOSE r \in db.tx : r.id = id).tx ELSE NoTx

\* In every state, that after a crash in the middle of a block, a reorganization
\* or a start included: up to the committed tip, the tables hold the
\* transactions of the chain and no others, each at its place, and the outputs
\* that nothing up to that tip spends are the unspent outputs of the chain.
LedgerExact ==
  LET h == Depth[storedTip] IN
  /\ {[tx |-> r.tx, height |-> r.height, index |-> r.index] : r \in {q \in db.tx : UpTo(h, q.height)}}
     = ChainTxs(storedTip)
  /\ {[tx |-> TxOf(o.id), at |-> o.at]
        : o \in {p \in db.outs : UpTo(h, p.height) /\ ~UpTo(h, p.byHeight)}}
     = ChainUnspent(storedTip)

\* No block is being written, no transaction handled, nothing undone.
Quiet == phase = "run" /\ block = NoBlock /\ running = NoTx

\* An output names the input that spends it and is named by it, and every input
\* of a transaction, confirmed or not, has its output to itself: after
\* any blocks, replacements and reorganizations.  (An output whose spender was
\* replaced keeps the height of the mempool.)
LinksAgree ==
  Quiet =>
    /\ \A o \in db.outs :
         IF o.by = 0 THEN o.byHeight \in {Null, Unconfirmed}
         ELSE \E i \in db.ins : i.id = o.by /\ i.at = o.byAt /\ Spends(i, o)
                                /\ i.height = o.byHeight
    /\ \A i \in db.ins :
         \/ TxOf(i.id) # NoTx /\ Inputs[TxOf(i.id)][i.at].tx = NoTx
         \/ \E o \in db.outs : Spends(i, o) /\ o.by = i.id /\ o.address = i.address

\* No output, input or witness is left of a transaction that was replaced, undone
\* or cut off by a crash, and none is missing of the others; a contract call has
\* a receipt at its place, and logs while it is confirmed.
NoOrphans ==
  Quiet =>
    LET calls == {r \in db.tx : r.tx \in Contract} IN
    /\ {<<o.id, o.at>> : o \in db.outs} = UNION {{<<r.id, n>> : n \in DOMAIN Pays[r.tx]} : r \in db.tx}
    /\ {<<i.id, i.at>> : i \in db.ins} = UNION {{<<r.id, n>> : n \in DOMAIN Inputs[r.tx]} : r \in db.tx}
    /\ \A o \in db.outs \cup db.ins : \E r \in db.tx : r.id = o.id /\ r.height = o.height
    /\ db.witness = {r.tx : r \in db.tx} \cap Segwit
    /\ {r \in db.receipts : r.id \in Ids(db.tx)}
       = {[id |-> r.id, height |-> r.height, index |-> r.index] : r \in calls}
    /\ db.logs = {[receipt |-> r.id, height |-> r.height]
                  : r \in {c \in calls : c.height # Unconfirmed}}

\* A transaction has one change of balance for each address it pays or is paid
\* from, which is the sum over its outputs and inputs, at the place of the
\* transaction: also when it moved from the mempool into a block or back, or
\* when a block was written next to it.
BalancesExact == Quiet => db.balances = BalanceRows(db, Ids(db.tx))

\* A confirmed output has its address in the table from its height on, whatever
\* the mempool, reorganizations and starts do to the row, unless a block that
\* brought another transaction to the address overlooked that it was there at a
\* greater height: then the next start removes it.
AddressesKept ==
  \A o \in db.outs :
    UpTo(Depth[storedTip], o.height) /\ o.address \notin overlooked =>
      \E a \in db.addresses : a.id = o.address /\ a.create <= o.height
                              /\ a.address = Pays[TxOf(o.id)][o.at]

\* No statement is refused.
NeverRefused == fault \in {"none", "crash"}
=============================================================================
