------------------------------ MODULE TxInvariant ------------------------------
(***************************************************************************)
(* Why the tables of TxIndex are the ledger of the committed chain in      *)
(* every state, why outputs and inputs name each other, why nothing is     *)
(* left of a transaction or missing from it, and why no address is lost:   *)
(* invariants that every step preserves.                                   *)
(*                                                                         *)
(* A row is committed when its height is at most that of the stored tip.   *)
(* The committed rows are complete and right; of the others, each          *)
(* statement leaves so much in order that a start, a reorganization or the *)
(* removal of a replaced transaction never reaches a committed one.        *)
(***************************************************************************)
EXTENDS TxIndex

\* A transaction that spends another of its block has no rival:
\* removeReplacedTransactions() gives it up, as its input is not yet in the table.
Unrivalled ==
  \A b \in Block : \A s, t \in ToSet(Contents[b]) :
    (\E o \in Coins(t) : o.tx = s) => \A u \in Tx \ {t} : Coins(t) \cap Coins(u) = {}

Calm == CalmMempool /\ CalmStart /\ Unrivalled

H == Depth[storedTip]
Committed(x) == x.height <= H

AllGenerated == UNION {GeneratedBy(b) : b \in Block}
Queued == ToSet(waiting) \cup ({running} \ {NoTx})

\* The transactions of the committed chain; those of the chain that ends in the
\* block being written, or in the last of those undone.
ChainTx == TxsUpTo(storedTip, H)
Around == IF block = NoBlock THEN storedTip ELSE block
AroundTx == TxsUpTo(Around, Depth[Around])
BlockTx == ToSet(Contents[block])

-----------------------------------------------------------------------------
(* The tables.                                                             *)

\* The shape of the rows, and their keys.
ShapeInv ==
  /\ DOMAIN db = {"tx", "outs", "ins", "balances", "witness", "receipts", "logs", "spends",
                  "refunds", "addresses", "next"}
  /\ db.next \in Nat
  /\ \A r \in db.tx :
       /\ DOMAIN r = {"id", "tx", "height", "index"}
       /\ r.id \in 1 .. db.next /\ r.tx \in Tx /\ r.height \in 0 .. Unconfirmed /\ r.index \in Nat
       /\ r.height = Unconfirmed => r.index = Unconfirmed /\ r.tx \notin AllGenerated
  /\ \A o \in db.outs :
       /\ DOMAIN o = {"id", "at", "height", "address", "by", "byAt", "byHeight"}
       /\ o.height \in 0 .. Unconfirmed /\ o.by \in 0 .. db.next
       /\ o.byHeight \in 0 .. Unconfirmed \cup {Null}
  /\ \A i \in db.ins :
       /\ DOMAIN i = {"id", "at", "height", "address", "from", "fromAt"}
       /\ i.height \in 0 .. Unconfirmed /\ i.from \in 0 .. db.next

KeyInv ==
  /\ \A r, s \in db.tx : r.id = s.id \/ r.tx = s.tx => r = s
  /\ \A o, p \in db.outs : o.id = p.id /\ o.at = p.at => o = p
  /\ \A i, j \in db.ins : i.id = j.id /\ i.at = j.at => i = j

\* An output and an input are of a transaction in the table, and committed with it.
With(x, r) == r.id = x.id /\ (Committed(x) \/ Committed(r) => x.height = r.height)

OwnInv ==
  /\ \A o \in db.outs : \E r \in db.tx : With(o, r) /\ o.at \in DOMAIN Pays[r.tx]
  /\ \A i \in db.ins : \E r \in db.tx : With(i, r) /\ i.at \in DOMAIN Inputs[r.tx]

\* A link is what the transaction says.
LinkInv ==
  /\ \A i \in db.ins : \A r, s \in db.tx :
       r.id = i.id /\ s.id = i.from =>
         Inputs[r.tx][i.at].tx = s.tx /\ Inputs[r.tx][i.at].at = i.fromAt
  /\ \A o \in db.outs : \A r, s \in db.tx :
       r.id = o.by /\ s.id = o.id =>
         \E n \in DOMAIN Inputs[r.tx] : Inputs[r.tx][n].tx = s.tx /\ Inputs[r.tx][n].at = o.at

\* No two transactions in the table spend the same output.
RivalInv == \A r, s \in db.tx : r # s => Coins(r.tx) \cap Coins(s.tx) = {}

\* The height at which an output is spent is that of an input, except the mempool's;
\* that of a committed input is there.
SpentInv ==
  \A o \in db.outs :
    /\ o.byHeight \notin {Null, Unconfirmed} =>
         \E i \in db.ins : Spends(i, o) /\ i.height = o.byHeight
    /\ \A i \in db.ins : Spends(i, o) /\ Committed(i) => o.byHeight = i.height

\* All the outputs and inputs of a transaction are there, and each input has
\* its output to itself.
Filled(r) ==
  /\ \A n \in DOMAIN Pays[r.tx] : \E o \in db.outs : o.id = r.id /\ o.at = n
  /\ \A n \in DOMAIN Inputs[r.tx] : \E i \in db.ins : i.id = r.id /\ i.at = n

Linking(r) ==
  \A i \in db.ins : i.id = r.id /\ Inputs[r.tx][i.at].tx # NoTx =>
    \E o \in db.outs : Spends(i, o) /\ o.by = r.id

Complete(r) == Filled(r) /\ Linking(r)

\* The committed transactions are those of the chain.
ChainInv ==
  /\ {[tx |-> r.tx, height |-> r.height, index |-> r.index] : r \in {q \in db.tx : Committed(q)}}
     = ChainTxs(storedTip)
  /\ \A r \in db.tx : Committed(r) => Complete(r)

TableInv == ShapeInv /\ KeyInv /\ OwnInv /\ LinkInv /\ RivalInv /\ SpentInv /\ ChainInv

-----------------------------------------------------------------------------
(* What is under way.                                                      *)

\* The handler has created rows, and not yet linked them.
Filling(w) == job[w].pc \in {"witness", "number", "addresses", "new", "insert", "link"}
InProgress(t) == \E w \in Handler : Filling(w) /\ t \in ToSet(job[w].txs)

\* Before the handler of the blocks has created its rows.
Looking == job["block"].pc \in {"none", "find", "adopt", "spend", "lower", "replace"}

ProcessInv ==
  /\ storedTip \in Block /\ tip = storedTip
  /\ txTip \in Block /\ Depth[txTip] >= H
  /\ phase \in {"down", "clean", "run", "undo"}
  /\ synced \in BOOLEAN
  /\ DOMAIN job = Handler
  /\ \A w \in Handler : DOMAIN job[w] = {"pc", "txs", "todo", "ids", "found", "known"}
  /\ waiting \in Seq(Relayed) /\ running \in Relayed \cup {NoTx}
  /\ ~synced => running = NoTx /\ waiting = <<>>
  /\ phase \in {"down", "clean"} =>
       ~synced /\ block = NoBlock /\ \A w \in Handler : job[w].pc = "none"
  /\ phase = "clean" => step \in 1 .. CleanStatements + 1
  /\ phase = "undo" => /\ step \in 1 .. UndoStatements /\ synced /\ block \in Block
                       /\ OnBranch(storedTip, block) /\ block # storedTip
                       /\ job["block"].pc = "none"
  /\ phase = "run" => IF block = NoBlock THEN job["block"].pc = "none"
                      ELSE block \in Block /\ Parent[block] = storedTip
  /\ running = NoTx => job["mempool"].pc = "none" /\ waiting = <<>>

\* How far the start and a reorganization are.
CleanInv ==
  phase = "clean" =>
    /\ step > 1 => \A o \in db.outs : Committed(o)
    /\ step > 2 => \A i \in db.ins, o \in db.outs : Spends(i, o) /\ ~Committed(i) => o.byHeight = Null
    /\ step > 3 => \A i \in db.ins : Committed(i)
    /\ step > 4 => \A r \in db.tx : Committed(r)

UndoInv ==
  phase = "undo" =>
    /\ \A r \in db.tx : r.height # Unconfirmed =>
         [tx |-> r.tx, height |-> r.height, index |-> r.index] \in ChainTxs(block)
    /\ \A i \in db.ins, r \in db.tx : r.id = i.id /\ i.height # Unconfirmed => r.tx \in AroundTx
    /\ step \in {2, 3} => \A i \in db.ins, o \in db.outs, r \in db.tx :
         Spends(i, o) /\ r.id = i.id /\ ~Committed(r) /\ r.tx \in AllGenerated => o.byHeight = Null
    /\ step > 3 => \A r \in db.tx : r.tx \in AllGenerated => Committed(r)
    /\ step > 4 => \A r \in db.tx : Committed(r) \/ r.height = Unconfirmed
    /\ step > 5 => \A o \in db.outs : Committed(o) \/ o.height = Unconfirmed
    /\ step > 8 => \A i \in db.ins : Committed(i) \/ i.height = Unconfirmed
    \* what is undone first is spent by nothing that is kept
    /\ \A r, s \in db.tx : (\E o \in Coins(r.tx) : o.tx = s.tx) =>
         r.tx \in AllGenerated \/ Committed(s) \/ s.tx \notin AllGenerated

\* While there are handlers, every transaction is complete but those they are
\* writing, and what a reorganization is to remove.
Whole(r) ==
  \/ Complete(r)
  \/ InProgress(r.tx)
  \/ phase = "undo" /\ ~Committed(r) /\ r.tx \in AllGenerated

CompleteInv == phase \in {"run", "undo"} => \A r \in db.tx : Whole(r)

\* The heights while blocks are written.
HeightInv ==
  phase = "run" =>
    LET j == job["block"] IN
    /\ \A r \in db.tx :
         \/ Committed(r)
         \/ synced /\ r.height = Unconfirmed
         \/ ~Looking /\ r.height = H + 1 /\ r.tx \in BlockTx
    /\ \A x \in db.outs \cup db.ins : \A r \in db.tx : r.id = x.id =>
         x.height = IF j.pc \in {"spend", "lower", "replace"} /\ r.id \in j.found THEN H + 1
                    ELSE r.height

\* t has nothing to do with block b, as far as the two themselves tell.
Stranger(t, b) ==
  /\ \A s \in ToSet(Contents[b]) :
       s # t /\ Coins(s) \cap Coins(t) = {} /\ \A o \in Coins(s) : o.tx # t
  /\ \A o \in Coins(t) : o.tx \notin GeneratedBy(b)

\* What the peers send has nothing to do with the chain, nor the blocks.
QueueInv ==
  \A t \in Queued :
    /\ t \notin ChainTx /\ \A s \in ChainTx : Coins(s) \cap Coins(t) = {}
    /\ phase = "run" /\ block # NoBlock => Apart(t, block)
    /\ phase = "undo" => \A b \in Touched : Stranger(t, b)

\* The rows of a handler that has created them.
IdsRight(j) ==
  /\ DOMAIN j.ids = DOMAIN j.txs
  /\ \A n \in DOMAIN j.txs : \E r \in db.tx : r.id = j.ids[n] /\ r.tx = j.txs[n]

Empty(r) == \A x \in db.outs \cup db.ins : x.id # r.id
Unlinked(r) == \A i \in db.ins : i.id = r.id => i.from = 0

WriteInv(w) ==
  LET j == job[w] IN
  /\ Filling(w) =>
       \A r \in db.tx : r.tx \in ToSet(j.txs) =>
         IF j.pc = "link" THEN Filled(r) /\ Unlinked(r) ELSE Empty(r)
  /\ j.pc \in {"addresses", "new", "insert", "link"} \/ (w = "mempool" /\ j.pc = "witness") =>
       IdsRight(j)

MempoolInv ==
  LET j == job["mempool"] IN
  running # NoTx =>
    /\ j.pc \in {"validate", "replace", "witness", "addresses", "new", "insert", "link",
                 "balances", "receipts", "done"}
    /\ j.txs = <<running>>
    /\ j.todo \in {<<>>, <<running>>}
    /\ j.pc = "validate" => j.todo = <<running>>
    \* what it spends
    /\ j.pc = "replace" \/ Filling("mempool") =>
         \A c \in Coins(running) : \E s \in db.tx, o \in db.outs :
           s.tx = c.tx /\ o.id = s.id /\ o.at = c.at
    /\ j.pc = "replace" /\ j.todo = <<>> =>
         \A r \in db.tx : r.tx # running => Coins(r.tx) \cap Coins(running) = {}
    /\ Filling("mempool") => \A r \in db.tx : r.tx = running => r.height = Unconfirmed

\* The places of the block whose transactions are new.
NewPlaces == {n \in DOMAIN Contents[block] :
                \A r \in db.tx : r.id \in job["block"].found => r.tx # Contents[block][n]}

\* Where the handler of the blocks is.
BlockPlace ==
  LET j == job["block"] IN
  /\ j.pc \in {"find", "adopt", "spend", "lower", "replace", "witness", "number", "addresses",
               "new", "insert", "link", "adjust", "balances", "receipts", "contracts", "tip",
               "commit"}
  /\ j.pc \in {"find", "adopt", "spend", "lower"} => synced
  /\ j.pc = "find" => j.found = {}
  /\ j.pc = "commit" => txTip = block

\* What the mempool has of the block, and what is new.
BlockFound ==
  LET j == job["block"] IN
  j.pc # "find" =>
    /\ j.txs = Picked(Contents[block], NewPlaces)
    /\ \A x \in j.found : \E r \in db.tx : r.id = x /\ r.tx \in BlockTx /\ Complete(r)

\* Before it creates rows: the rivals of a new transaction are still to be removed.
BlockNew ==
  LET j == job["block"] IN
  j.pc \in {"adopt", "spend", "lower", "replace"} =>
    /\ synced => \A n \in NewPlaces, r \in db.tx : r.tx # Contents[block][n]
    /\ j.todo \in Seq(Tx) /\ ToSet(j.todo) \subseteq {Contents[block][n] : n \in NewPlaces \ {1}}
    /\ \A n \in NewPlaces \ {1}, r \in db.tx :
         r.tx \notin AroundTx /\ Coins(r.tx) \cap Coins(Contents[block][n]) # {} =>
           Contents[block][n] \in ToSet(j.todo)

\* After it: they are there, the new ones with ids that follow each other.
BlockRows ==
  ~Looking =>
    \A n \in DOMAIN Contents[block] : \E r \in db.tx :
      r.tx = Contents[block][n] /\ r.height = H + 1 /\ r.index = n - 1

BlockIds ==
  LET j == job["block"] IN
  j.pc \in {"witness", "number"} =>
    \E k \in 0 .. db.next : \A n \in DOMAIN j.txs : \E r \in db.tx :
      r.id = k + n /\ r.tx = j.txs[n]

\* What the block spends is spent at its height.
BlockLinks ==
  job["block"].pc \notin {"find", "adopt", "spend"} =>
    \A i \in db.ins, o \in db.outs : Spends(i, o) /\ i.height = H + 1 => o.byHeight = H + 1

BlockInv ==
  phase = "run" /\ block # NoBlock =>
    BlockPlace /\ BlockFound /\ BlockNew /\ BlockRows /\ BlockIds /\ BlockLinks

WorkInv ==
  /\ ProcessInv /\ CleanInv /\ UndoInv /\ CompleteInv /\ HeightInv /\ QueueInv
  /\ \A w \in Handler : WriteInv(w)
  /\ MempoolInv /\ BlockInv

LedgerInv == TableInv /\ WorkInv

-----------------------------------------------------------------------------
(* The links, both ways.                                                   *)

\* The height of i is no longer, or not yet, that of the output it spends: a crash
\* may have come between the two, or the block is about to write it.
Moving(i) ==
  /\ ~Committed(i)
  /\ \/ phase = "down" \/ (phase = "clean" /\ step <= 2)
     \/ (job["block"].pc = "spend" /\ i.id \in job["block"].found)

\* An output names an input that spends it, and that at its height.
BackInv ==
  \A o \in db.outs :
    IF o.by = 0 THEN o.byHeight \in {Null, Unconfirmed}
    ELSE \E i \in db.ins : i.id = o.by /\ i.at = o.byAt /\ Spends(i, o)
                           /\ (i.height = o.byHeight \/ Moving(i))

\* An input has the address of the output it spends.
AddressInv == \A i \in db.ins, o \in db.outs : Spends(i, o) => i.address = o.address

LinksInv == BackInv /\ AddressInv

-----------------------------------------------------------------------------
(* The witnesses, the receipts and the logs.                               *)

\* What a block generates calls no contract, nor does the spend that a call makes;
\* the genesis block has no witness.
Ordinary ==
  /\ Contract \cap (Spender \cup AllGenerated) = {}
  /\ ToSet(Contents[Genesis]) \cap Segwit = {}

\* Left by a stop, and removed by the next start.
Cut(r) == phase \in {"down", "clean"} /\ ~Committed(r)

\* Written in order, a transaction has no witness yet, no receipt, and neither the
\* place of its receipt nor a log.
WitnessDue(r) ==
  \/ Cut(r)
  \/ \E w \in Handler : job[w].pc = "witness" /\ r.tx \in ToSet(job[w].txs)

Unreceipted(w) == Filling(w) \/ job[w].pc \in {"adjust", "balances", "receipts"}
ReceiptDue(r) == Cut(r) \/ \E w \in Handler : Unreceipted(w) /\ r.tx \in ToSet(job[w].txs)

LogDue(r) ==
  \/ Cut(r)
  \/ phase = "run" /\ block # NoBlock /\ job["block"].pc \notin {"tip", "commit"} /\ r.tx \in BlockTx

WitnessInv ==
  /\ \A t \in db.witness : t \in Segwit /\ \E r \in db.tx : r.tx = t
  /\ \A r \in db.tx : r.tx \in Segwit => r.tx \in db.witness \/ WitnessDue(r)

\* A receipt at the height of a transaction that a reorganization has unconfirmed.
Lagging(x, r) == phase = "undo" /\ step \in {5, 6} /\ ~Committed(r) /\ x.height > H

\* A receipt may outlive its transaction, whose id is not used again.
ReceiptInv ==
  /\ \A x \in db.receipts :
       /\ x = [id |-> x.id, height |-> x.height, index |-> x.index]
       /\ x.id \in 0 .. db.next /\ x.height \in Nat
  /\ \A x \in db.receipts, r \in db.tx : x.id = r.id =>
       /\ r.tx \in Contract
       /\ (x.height = r.height /\ x.index = r.index) \/ LogDue(r) \/ Lagging(x, r)
  /\ \A r \in db.tx : r.tx \in Contract => (\E x \in db.receipts : x.id = r.id) \/ ReceiptDue(r)

\* A log of a transaction that a start is to remove, or a reorganization has
\* unconfirmed.
Stale(l, r) ==
  /\ l.height > H
  /\ \/ Cut(r)
     \/ phase = "undo" /\ step \in 5 .. 7 /\ ~Committed(r) /\ r.tx \in AroundTx

LogInv ==
  /\ \A l \in db.logs :
       /\ l = [receipt |-> l.receipt, height |-> l.height]
       /\ l.height \in Nat /\ l.height # Unconfirmed
       /\ \E r \in db.tx : r.id = l.receipt /\ r.tx \in Contract /\ (r.height = l.height \/ Stale(l, r))
  /\ \A r \in db.tx : r.tx \in Contract /\ r.height # Unconfirmed =>
       [receipt |-> r.id, height |-> r.height] \in db.logs \/ LogDue(r)

\* The ids of a handler that is yet to write receipts.
IdsInv ==
  \A w \in Handler : job[w].pc \in {"adjust", "balances", "receipts"} => IdsRight(job[w])

OrphanInv == WitnessInv /\ ReceiptInv /\ LogInv /\ IdsInv

-----------------------------------------------------------------------------
(* The addresses.                                                          *)

\* The address of an output is in the table, from height h on.
Known(o, r, h) ==
  \E a \in db.addresses : a.id = o.address /\ a.address = Pays[r.tx][o.at] /\ a.create <= h

\* Committed, or in a block that has lowered the addresses of the mempool.
Lasting(o) ==
  \/ Committed(o)
  \/ /\ phase = "run" /\ block # NoBlock /\ o.height = H + 1
     /\ job["block"].pc \notin {"find", "adopt", "spend", "lower"}

\* After a crash, the addresses of what has not been committed may be missing.
Findable(o, r) ==
  o.address \notin overlooked =>
    /\ Lasting(o) => Known(o, r, o.height)
    /\ phase \in {"run", "undo"} => Known(o, r, Unconfirmed)

AddressShape ==
  \A a \in db.addresses : DOMAIN a = {"id", "address", "create"} /\ a.create \in 0 .. Unconfirmed

KeptInv ==
  /\ AddressShape
  /\ \A o \in db.outs, r \in db.tx : r.id = o.id => Findable(o, r)

\* What a handler has found is still there, and what it inserts has an address.
Names == {a.address : a \in db.addresses}
PaidInv ==
  \A w \in Handler :
    /\ job[w].pc = "new" => job[w].known \subseteq Names
    /\ job[w].pc = "insert" => Paid(job[w].txs) \subseteq Names

AddressesInv == KeptInv /\ PaidInv
=============================================================================
