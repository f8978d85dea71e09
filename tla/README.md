# A specification of qtuminfo

qtuminfo is an indexer: one Node.js process that follows a Qtum node over the
peer-to-peer protocol and keeps headers, blocks, transactions, mempool and
contracts in a MySQL database, from which other programs read. This directory
holds TLA+ models of it, the TLC runs that check them, and proofs about them.

## The system

The process (`src/node/node.js`) starts its services in the order of their
dependencies and stops them in reverse. It is single-threaded and asynchronous:
what runs between two `await`s is atomic, and everything else interleaves. Any
error a service notices ends in `node.stop()`, which exits the process;
`src/doc/deploy.md` has a process manager start it again. Whatever must survive
is in the database, above all one *tip* per service.

| component | source | state | operations |
|---|---|---|---|
| node | `src/node/node.js`, `src/node/bus.js`, `src/node/cli/` | services, order, `stopping` | start, stop, buses |
| work queue | `src/node/utils.js` | waiting entries, running entry | push, process |
| database | `src/node/services/db.js`, `src/node/models/` | the tables, one tip per service | tip read and upsert |
| peer-to-peer | `src/node/services/p2p.js` | peers, best peer, inventories seen, retry timer | ready, disconnect, inventories, getheaders, getP2PBlock |
| pool and peer | `src/p2p/pool.js`, `src/p2p/peer.js` | connections, addresses, status | connect, disconnect, handshake, retry |
| messages | `src/p2p/commands/` | receive buffer | frame, parse, build |
| header service | `src/node/services/header.js` | header table, tip, last header, sync flags | start, rounds of headers, announced blocks, rewind |
| block service | `src/node/services/block.js` | block table, tip, recent hashes, timers, flags | start, sync, announced blocks, reorganization |
| transaction service | `src/node/services/transaction.js` | transactions, outputs, inputs, addresses, balances, receipts | start, onBlock, onReorg, replacement |
| mempool service | `src/node/services/mempool.js` | its queue, unconfirmed transactions | admission |
| contract service | `src/node/services/contract.js` | contracts, tokens, holders | start, onBlock, onReorg |
| server | `src/node/services/server.js` | sockets | publish |
| formats | `src/lib/` | none | block, transaction, script, address, varint, base58, bech32 |
| RPC client | `src/rpc/index.js` | batch | calls to the node |

How they interact: the p2p service broadcasts `p2p/headers`, `p2p/block` and
`p2p/transaction` to the buses subscribed. The header service downloads headers
and, when a round comes back short, awaits `onHeaders()` of every service; the
block service then looks for the last block it shares with the header table,
undoes what is above it with `onReorg()` of every service in reverse order, and
downloads blocks. Each saved block goes through `onBlock()` of every service in
order. `onSynced()` opens the mempool. The header and block services both
receive every announced block, each in its own queue.

### What is hard

- **Interleaving.** The header service downloads, follows and rewinds; the block
  service has a loop of downloads, a queue of announced blocks and a
  reorganization. They are kept apart by a few flags (`#reorging`,
  `#initialSync`, `#processingBlock`, `#blocksInQueue`) that several of them set,
  and by intervals that look at those flags once a second.
- **Order.** `AsyncQueue` takes the newest entry first.
- **Crashes.** Nothing is written in a database transaction. A block is written
  table by table, and the tips of the services are rows of their own.
- **Time.** A block is given five seconds, by two timers that know nothing of
  each other.
- **Limits.** The header service goes back 2000 headers, the block service
  remembers 144 blocks.

### What must hold

- *Header service:* heights are those of the chain; the header table is one
  branch of the tree at every moment; a start always finds its checkpoint; the
  rounds of a sync and the handling of a block never write at the same time; a
  sync ends; a block that was queued gets its header.
- *Block service:* the block table is one branch, and so are the committed
  blocks; every committed block has its transactions; memory, tips and tables
  agree whenever no write is under way; one save at a time and none during a
  reorganization; the index catches up; `onHeaders()` returns.
- *Transaction and mempool services:* up to the committed tip the tables are the
  ledger of that chain, in every state; outputs, inputs, witnesses, receipts,
  balances and addresses agree with the transactions left after any sequence of
  blocks, reorganizations, replacements and restarts; no statement is refused.
- *Contract service:* once the index has every block, contracts, supplies,
  balances and holders are those of the node.
- *Peers:* no peer that has gone stays among the ready ones; connections are
  retried as soon as none is ready, and beside a ready one only when the list of
  peers has lost it; blocks arrive.
- *Formats and framing:* what is read is written as it was; the string of an
  address is read as that address; however the stream is cut, every message is
  found once and in order.

## The modules

| module | what it is |
|---|---|
| `BlockTree` | the network's blocks as a tree: `Parent`, `Depth`, and `Branch[b]`, the chain that ends in `b`; the assumptions about them |
| `AsyncQueue` | `src/node/utils.js`, instantiated by both services |
| `HeaderService` | `src/node/services/header.js`, with the peer and the parts of p2p and db it uses |
| `HeaderChain` | abstract: the header table as a branch that grows, is cut, or is rebuilt |
| `HeaderFeed` | abstract: the header service as the block service sees it |
| `HeaderInvariant` | the inductive invariants of `HeaderService` |
| `HeaderService_proofs` | theorems about `HeaderService`: types and heights; calm peers, `HeaderChain` and `HeaderFeed` |
| `BlockService` | `src/node/services/block.js` and the decisions of `transaction.js` on what is in the database, composed with `HeaderFeed` |
| `BlockInvariant` | the inductive invariants of `BlockService` |
| `BlockTree_proofs` | lemmas about branches and the rows of a branch |
| `BlockService_proofs` | theorems about `BlockService`: types, a calm network, the common block |
| `IndexedChain` | abstract: the committed blocks as a branch that grows by one block and is cut at its end |
| `TxIndex` | `transaction.js` and `mempool.js`, statement by statement, on the tables they write; of the block service only what `IndexedChain` promises |
| `TxInvariant` | the inductive invariants of `TxIndex` |
| `TxTables_proofs` | lemmas about the tables of `TxIndex`; start, stop, reorganization and the statements of the mempool's handler preserve the invariant |
| `TxIndex_proofs` | so do the queue and the statements of a block; the theorems about `TxIndex`: ledger, links, and what hangs on a transaction |
| `TxAccounts_proofs` | the theorem about the addresses of `TxIndex` |
| `ContractIndex` | `contract.js`, on its tables, with a node that answers for its own tip |
| `ContractInvariant` | the inductive invariants of `ContractIndex` |
| `ContractIndex_proofs` | theorems about `ContractIndex`: contracts, balances and supplies |
| `PeerPool` | `p2p.js`, `pool.js`, `peer.js`, and the block service's requests with their time limit |
| `PeerPool_proofs` | theorems about `PeerPool` |
| `Frames` | how `peer.js` and `messages.js` cut the receive buffer into messages |
| `Scripts` | `src/lib/script`: scripts as bytes and as chunks, the kinds of outputs |
| `Addresses` | `src/lib/encoding`, `src/lib/address.js`: base58, bech32, segwit, and the address a script pays |
| `MCTrees` and the other `MC` modules | small trees and ledgers, and the modules TLC runs |

`HeaderService` implements `HeaderFeed` (`FeedSpec`, checked and, as
`ImplementsFeed`, proved), and `BlockService` extends `HeaderFeed`. The block service is
thereby checked, and proved, over what `HeaderFeed` allows, without the product of
the two state spaces. Its own steps add one thing to those of `HeaderFeed`: that the
headers come from the peer it has itself. A sync ends at the peer's best block
(`HeaderCompletes`), and blocks are taken and looked up on the peer's branch
(`HeaderSyncs`, `HeaderLooks`).

`TxIndex` and `ContractIndex` start from the promise of `IndexedChain` in the same
way: `BlockService` is checked to keep it (`IndexSpec`), and here the block service
is no more than that promise, with the order of its steps: a block is handed to
the services, its tip is stored after all of them, and a reorganization stores
the tip it goes back to before anything is undone. `ContractIndex` knows of the
transaction service only when receipt logs appear and vanish. `PeerPool` is alone:
its blocks are heights, and its user is a caller with a tip.

### How state and actions correspond to the code

A block is a member of `Block`; a header or block row is a height and a hash. An
action is what runs between two `await`s, or one operation of the database: a
handler that awaits three times is three or four actions, and the state between
them (`round[r].pc`, `live`, `work[w].pc`, `check.pc`, `call[c].pc`) is where that
handler is. A `BEGIN`/`COMMIT` does not exist in the code, so every operation of
the database is visible, and survives, on its own.

*HeaderService.* `rows` and `storedTip` are the database. `phase` walks through
`start()` and is `"run"` afterwards. `tip`, `lastHeader`, `originalHeight`,
`bestHeight`, `initialSync`, `reorging` and `lastCount` are the fields of the
class; `subs` are its subscriptions, `polls` the intervals that `_startSync` has
set, `round` the answered requests whose `_onHeaders` is unfinished, `notifying`
the calls of `onHeaders()` under way, `waiting`, `running` and `live` the queue.
`peerTip`, `connected`, `inbox` are the peer. `PeerReady`, `Poll`, `OnHeaders`,
`InsertHeaders`, `UpdateTip`, `StoreTip`, `OnHeadersSave` are a sync;
`DeliverBlock`, `LookupBlock`, `ExtendHeader` (with `SaveHeader`,
`UpdateLiveTip`, `StoreLiveTip`) or `DetectReorg` (with `DestroyHeaders`,
`FindHeader`), `FinishBlock` are an announced block.

*BlockService.* `blocks`, `storedTip`, `txs`, `txTip` are the database: `txs` holds
the rows of the blocks whose transactions are written. `check` is the one
`onHeaders()` call, from its first interval to `'reorg complete'`; `call[c]` is a
`_sync` call, from `getEndHash` to the end of `_syncBlock`; `work[w]` is a
`_saveBlock` of a `_sync` call, of the queue (`"live"`) or of `_startSync`
(`"genesis"`). `timer` is `#getBlocksTimer`: which call's timer `clearTimeout` would
clear. `listening` is whether `'next block'` and `'synced'` have listeners, which
`_removeAllSubscriptions` removes. `onReorg` and the writes of `onBlock` are one
action each: both only touch rows above both tips, which the next start removes.
The peer delivers the block that was asked for, or announces one; the blocks read
ahead (`readAheadBlockCount`) come only when they are asked for in their turn. A call
takes no block but the one it waits for, and when the loop is over and the service
subscribes again, those that were read ahead are in the database and dropped.

*TxIndex.* `db` is a record of tables, each a set of rows; an operator named for a
statement (`Spent`, `Adopted`, `Inserted`, `Linked`...) maps the tables before it to
the tables after it, and an action is one statement, or several on different
tables that the code awaits together, with two exceptions, in which a crash has no
step of its own to fall into: one removal of `removeReplacedTransactions`
(`Replace`, `transaction.js:636-681`) and the calls of the contracts of a block
(`ProcessContracts`, `transaction.js:465-634`) are several statements each. `Handler` has the two that write
transactions, the block that is being written and the mempool's transaction;
`job[w]` is where each is and what it holds in local variables (`ids`, `found`,
`known`); `todo` are the transactions that `removeReplacedTransactions` has still
to look at, one for each step `Replace`. `start` and `onReorg` are numbered statements (`Clean`, `Undo`), and a crash
may fall between any two actions. `waiting` and `running` are the mempool's queue.

*ContractIndex.* `nodeTip` is the chain of the node that answers the calls; `job` the
block that is written and `onSynced()`, each with its stage and the answers it
holds. `Find` and `SaveContract` are `_createContract`, `CreateDetails` its second
half; `BeginReceipts`, `ReadBalances`, `WriteBalances`, `WriteHolders`, `AskSupply` and
`WriteSupply` are `_processReceipts`; `FindLogs`, `RestoreTokens` and the same balances
are `onReorg`. A crash has no step inside two of them: `Find` is the search for the
contract, `getcontractcode` and the batch of `callcontract`, which write nothing, and
`Compare` the list of the table with the `DELETE` of what the node has not, which
`CalmSync` keeps blocks from coming between. A call for a name, a symbol or a total
supply that fails (`contract.js:259-261`, `295-297`), and an owner whose address is not
found (`89-107`), have no counterpart: the node of the model answers those. `lost` is a history variable: what the code never asks the node about
again, by which the properties name their exceptions.

*PeerPool.* A peer is a `Peer` object with its status and the messages on their way
in each direction. `pool.connected` is `#connectedPeers`, `pool.waiting` the addresses
whose `retryTime` is not over; `service.peers`, `best`, `retry` and `inventories` are
fields of the p2p service. `Handshake` is version, verack and `_onPeerReady`:
two messages of the peer, of which the first only fills in fields, so that an end
between them is the end of a peer that is connected and not ready; `Ends` and `NodeStops` run `disconnect()` and every handler of
the event, in the order in which they were added; `NodeStops` is what is left when
every peer has gone. An error of a socket is an `'error'` event without a listener
and stops the node, so it is part of `NodeStops`.

*Frames, Scripts, Addresses* are pure: operators of the same names as the functions.
Where the code throws or returns null the operator returns a value of its own
(`Invalid`, `<<-1>>`, `None`, the type `"TypeError"`).

A stop is one step that forgets the process: no `stop()` of any service waits for
anything, so `process.exit` runs before another answer of the database or the
network is seen. The same step with a counter is a crash.

`_resetTip` is not modelled. It would run for a stored tip without its block, and
then `#tip` is null and the start of the transaction service fails before
`onHeaders()` can be called: the model stops with the fault `"reset"` there, and
`NoSelfMadeStop` says that it never does.

## What is checked

`tlc -config X.cfg M.tla`; every run ends in minutes.

| run | module | what it shows |
|---|---|---|
| `HeaderCrash` | `MCHeaderService` | A peer whose chain forks two blocks down, a connection lost once, one crash at any step: `WholeBranch`, `Recoverable`, `NoSelfMadeStop`, `TipAfterRow`, the inductive invariant `CalmInv` of the proofs, and that the service implements `HeaderChain` and `HeaderFeed`. |
| `HeaderFollow` | `MCHeaderService` | Up to three blocks on their way, announced or served, in the last-in-first-out queue: `SyncEnds`, `QueuedBlockIndexed`, `OneWriter`. |
| `HeaderRaces` | `MCHeaderService` | A second peer becomes ready at any step, two rounds at a time, blocks during rounds: `HeightsTrue` all the same. |
| `HeaderBoundary` | `MCHeaderService` | Violation of `StartsFromGenesis`. |
| `HeaderOrder` | `MCHeaderService` | Violation of `HeadersArriveInOrder`. |
| `BlockCrash` | `MCBlockService` | A fork two blocks down, a further peer, one crash at any step: `OneSaver`, `BlocksWhole`, `CommittedIndexed`, `Agree`, `NoSelfMadeStop`, and that the committed blocks are an `IndexedChain`. |
| `BlockFollow` | `MCBlockService` | `CatchesUp` and `HeadersReturn`. |
| `BlockGenesis` | `MCBlockService` | Violation of `SavedAgain`. |
| `BlockSavedTip` | `MCBlockService` | Violation of `SavedTipGood`. |
| `TxIndex` | `MCTxIndex` | Two blocks of a fork whose transactions spend the same output, transactions of the mempool that a block confirms or replaces, one reorganization, one crash at any statement: `LedgerExact`, `LinksAgree`, `NoOrphans`, `BalancesExact`, `AddressesKept`, `NeverRefused`. |
| `ContractIndex` | `MCContractIndex` | Tokens that are created, minted, moved and burnt on two branches, a node ahead of the index, two crashes at any call or statement: `BalancesCurrent`, `HoldersCurrent`, `SuppliesCurrent`, `ContractsCurrent`. |
| `Network` | `MCNetwork` | Two peers whose connections end at any point, a late answer, announcements, a stop: `PeersAlive`, `RetryWhenAlone`, `BlockArrives`. In the first state, the formats: `ScriptsRead`, `FramesRead`, `AddressesRead`. |

The runs do not check for deadlock: a service that has caught up waits for the
next block, and with the counters at their bounds none comes; and a node may stop.

### Bounds

- *Trees.* Eight, seven or fewer blocks. The fork is two blocks deep and the other
  side longer, so that a reorganization removes a block that is saved, one that
  is being saved, or one whose header is only known, and so that the block that
  follows a rewind can be another one at the same height.
- *`Rewind` 2, `MaxHeaders` 2 (2000 and 2000).* A rewind is shorter than the
  longest chain and as long as the fork; a sync takes several rounds, the last
  one full or not.
- *`RecentHashes` 3 (144).* More than the fork is deep, fewer than the chain has
  blocks, so the cache drops its oldest entry.
- *`Round`, `Call`.* One round and one call for the runs in which a single peer is
  ready; two rounds for the second peer. One call means that a call whose
  block never came has ended (5 s) before a later `onHeaders()` begins its own.
- *`MaxCrashes`, `MaxReconnects`, `MaxResumes`, `MaxOthers` 1.* A crash can fall on
  any step, of the start after an earlier stop too; every stop by an assertion
  is a further restart and is not counted.
- *`MaxForks` 1.* The peer leaves its branch once (and may take any longer
  extension of a branch at any time).
- *`TxIndex`.* Eleven transactions: coinbases, stakes, a parent with two outputs to
  one address, two that conflict, one that spends another of the mempool, a
  contract call and the spend it makes, with and without a witness. One block is
  of the time before stakes. The mempool receives two, so that a transaction and
  its child, or a conflict, meet the block. One reorganization, and a crash that
  may fall into it, into a block or into the start after it.
- *`ContractIndex`.* Two QRC20 contracts, one of them created by a contract and on
  both branches, and a QRC721 contract with two tokens, one of which has no log
  before the fork; two holders. The node changes its branch twice and the index
  crashes twice, so that a crash can follow a crashed reorganization.
- *`PeerPool`.* Two addresses, one block, two connections ended by the other side, one
  late answer. Two ends are what it takes to lose a ready peer to one that
  never was, or to leave `#peer` dead beside a live one. With one block nothing is evicted from the inventories
  (`InventoryLimit` 1): they are forgotten by `clearInventoryCache`, at each request.
  With another block, end or late answer the run has millions of states and
  finds nothing else.
- *Formats.* All scripts of up to four bytes over pushes of every width,
  `OP_RETURN` and `OP_CHECKSIG`, and pushes on both sides of 75, 255 and 65535 bytes;
  numbers on both sides of every width and sign; payloads of up to three bytes
  with zeros in front, and hashes of 20 and 32 bytes on two networks; every
  wrong character of a witness address. Streams of up to three frames, read,
  unknown, damaged or garbage, cut at every two places; `MAX_RECEIVE_BUFFER` 60,
  which two frames together do not exceed and three do.
- *`MaxInbox`, `MaxServed`, `MaxWaiting`.* Two or three blocks are enough for the queue
  to take them in another order than they came in.

In `HeaderService` and `BlockService` the number of header rounds, blocks saved, stops and
restarts is not bounded.

### Assumptions of the runs, and what happens without them

These are not guaranteed by the code. Each is a constant, so each can be lifted.

- `CalmPeer`: no block is announced while a round of headers or an `onHeaders()`
  is unfinished. Without it the header service goes back while the services
  are told of the previous sync. Its late `#reorging = false` falls into the new
  reorganization, a waiting block starts a second one, and a crash before the
  next stored tip leaves a start looking for a row 2000 below that tip which
  does not exist (fault `"missing"`, at every start). In the block service
  `getEndHash` finds the header service behind and the node stops (fault
  `"misaligned"`). `HeightsTrue` and `TypeOK` do not need the assumption.
- `MaxOthers` 0 outside `HeaderRaces` and `HeaderOrder`: a second peer during a sync
  breaks the assertion on the order of headers; one whose height the tip has
  passed makes `numNeeded` negative (fault `"needed"`).
- `MaxTimeouts` 0: no block of the peer's chain takes more than five seconds. With
  one late block the retry is under way when the rejection of the first call
  resets `#processingBlock`; a reorganization then runs into the save and leaves
  a committed block without transactions (`CommittedIndexed` is violated).
  With two calls both take the block, and the second insertion stops the node
  (`OneSaver` is violated). A first block that is late stops the node at once
  (fault `"timeout"`), because `_startSync` awaits that call.
- `SlowReads` FALSE: the lookup of `getEndHash` is answered before the header table is
  cut. `BlockSavedTip` shows what happens otherwise.
- `Prompt`: the header service has looked at the announced blocks by the time the
  loop saves its block. Otherwise a block broadcast just before the loop ends
  is known to the header service alone, and nobody asks for it.
- `MaxWaiting` 1 in `BlockFollow`: with two blocks waiting the later one is taken
  first, does not follow the tip and is dropped for good.

- `CalmMempool` and `CalmStart` (`TxIndex`). A transaction of the peers that a confirmed
  one conflicts with, or that is confirmed already, passes `_validate`, which asks
  only whether its outputs exist: `removeReplacedTransactions` then removes the
  confirmed transaction and its descendants. One that is written between the
  search for the transactions of a block and their insertion makes the
  insertion fail on its key, or has rows numbered for another transaction; one
  written after `removeReplacedTransactions` of a block and before its links
  loses its own. A reorganization before `onSynced()` leaves a removed block's
  transactions in the tables without being synced, and one that is mined again
  fails on its key. `CalmMempool` also excludes a transaction of the peers that
  spends a coinbase or a stake that is then undone: it is left with a link to
  nothing.
- `Mature` (`TxIndex`): nothing that a reorganization keeps spends what the removed
  blocks generated. The code leaves it to the rules of the chain, by which a
  coinbase or a stake matures far longer than a branch is.
- `MaxWaiting` 1 in `TxIndex`: of two transactions that wait, the later one is taken
  first; if it spends the other it is dropped for good.
- `CalmSync` (`ContractIndex`): the next block waits for `onSynced()`. Otherwise a
  contract created meanwhile is compared with a list that is older
  (`ContractsCurrent` and `BalancesCurrent` are violated).
- `Steady` (`ContractIndex`): the node changes its branch only when the index has all
  of the old one. Otherwise a supply asked while the node was on another branch
  is kept (`SuppliesCurrent` is violated, and so are `BalancesCurrent` and
  `ContractsCurrent`).
- The magic bytes occur only where a message begins (`Frames`); a string is never in
  two encodings at once (`Addresses`).

One more is a hypothesis of the theorem about `TxIndex`, and true of the ledger of
its run: `Unrivalled`, a transaction that spends another of its own block has no
rival. `removeReplacedTransactions` gives up a transaction as soon as one of the
transactions it spends is not yet in its table (`transaction.js:641-646`), and those
of the same block are inserted later. The rival then stays, linked to an output that
the block spends as well; when the process stops before the next block, the start
frees every output that an unconfirmed input is linked to, and with it one that the
chain has spent. TLC has the counterexample to `LedgerExact` on a ledger with such a
pair.

The theorem about `NoOrphans` has a further one, `Ordinary`, which is what the chain's
rules say: the coinbase and the stake of a block call no contract, nor does
the spend that a call makes (which spends outputs of contracts and pays), and
the genesis block has no witness. `processReceipts` writes a receipt for whatever has a
contract output, while `_processContracts` passes over coinbases and such spends
(`transaction.js:474-492`) and `onReorg` removes what a block generated without its
receipt (`transaction.js:89-98`); `_setGenesis` writes no witness.

Three properties name what the code does not keep. `AddressesKept`: processTxos of a
block does not lower the height of an address that the mempool created and a new
transaction of the block pays, and the next start removes it (`overlooked`).
`BalancesCurrent` and `HoldersCurrent`: the start of the contract service looks for
logs that the start of the transaction service has removed, a failed call is
dropped silently, and after a reorganization a token goes back to the holder of
its first log (`lost`). `BlockArrives`: a `#peer` that has gone keeps receiving the
requests as long as another peer is ready, because only the loss of the last one
starts the retry timer (`Deserted`).

`CatchesUp` and `HeadersReturn` except one state by name, `Orphaned`: a save whose
header was removed by a reorganization looks for it for ever, `onHeaders()` waits
for the save, and the header service for `onHeaders()`.

Of the formats: a script whose last push is cut short is written with another
length, so the id computed for its transaction would differ; one whose length
itself is cut short is an error that `OutputScript.fromBuffer` does not catch;
`ScriptHashOutputScript.build` ends with another opcode than its `isValid` asks for;
the `build` of `MultisigOutputScript` and of `ContractOutputScript` throw; a segwit
address of a wrong length is a `TypeError` in `fromString`. Of the stream: after
bytes that begin no message nothing is read again, unless a piece happens to end
three bytes into a message. Of the pool: the limit on connections compares a
`length` that a Map does not have, and the retry timer is not cleared by a stop.

Two more behaviours of the header service were met and are not the subject of a
run. When a peer is no higher than the tip, `numNeeded` is 0 and nothing is
subscribed (`SyncEnds` is about peers with headers to give and uses that the tip
has been rewound). A block announced between the last message of headers and
the subscription is not seen until the next one, which then causes a
reorganization.

### Fairness

Weak fairness, of the handlers, of the database and of the peer: a promise that
can be resolved is resolved, an interval fires, a connected peer answers
`getheaders` and serves the blocks of its chain, a stopped process is started
again (`src/doc/deploy.md`). A peer is never required to announce a block, to move
to another chain or to disconnect, and a crash is never required. In
`BlockService` fairness is of two disjunctions, so any one of the enabled handlers
may be the one that runs; the timer of a call is fair by itself, since it does
not wait for the peer. In `PeerPool` the timers are fair, and so is each
connection: it is accepted, answered and read, or ended; the code has no timeout
for a peer that stays silent. `TxIndex` and `ContractIndex` have no fairness: their
properties are invariants.

### Findings

1. `HeaderBoundary`: a stored tip of exactly 2000 fails the assertion of
   `_setGenesisBlock` at every start (`<` for `<=`, `header.js:63`). A first full
   message of headers stores that tip.
2. `HeaderOrder`: two peers that become ready one after the other make the
   service ask for the same headers twice and stop at the second answer.
3. `BlockGenesis`: a node stopped before block 1 is committed inserts the genesis
   block again at every start and stops at its unique key.
4. `BlockSavedTip`: `_syncBlock` saves a block without comparing its `prevHash`; the
   tip is then good as far as `_checkTip` looks, with another branch below it.

## What is proved

By TLAPS, for every tree of blocks, every set of addresses and every value of the
constants that the named assumptions allow (`TreeAssumption`, `BranchAssumption`,
`ParameterAssumption`, `PoolAssumption`, and those of `TxIndex` and `ContractIndex`). An assumption that the code does not
justify is a hypothesis of the theorem and is discussed here. Every inductive
invariant was checked by TLC before it was proved; the numbers of states are in
brackets.

### The header service

*Without further assumptions* (`HeaderService_proofs`), whatever the peers do:
`TypeCorrect`, that `TypeOK` holds; and `HeightsAreTrue`, that every row and the
last header have the height of their block in the chain. The invariant adds to
`HeightsTrue` that the requests, messages and rows on their way between two
actions (`round[r].from`, the message, the row to save) have true heights as
well. It holds for a crash anywhere, for overlapping rounds and for blocks in
any order, because every height is computed from the last header in memory, and
`prevHash` is compared with it in the same step.

*With calm peers* (`CalmPeer`, `MaxOthers = 0`):
`TableIsBranch`, `CheckpointExists`, `KeepsRunning`, `WritersExclude`,
`TipFollowsRow`, and `ImplementsChain`, the refinement of `HeaderChain`.
`KeepsRunning` is about the assertions: the number of headers needed is not
negative, no header is inserted twice, no row is missed, and the assertion of
`_setGenesisBlock` fails at one height only, the stored tip of exactly `Rewind` that
`HeaderBoundary` reaches (`BoundaryInv` adds what a start that stopped there has
found). It does not say that headers come in order: a peer that changes its branch
between two messages sends others, on a calm network too. They follow
from one inductive invariant, `CalmInv` (`HeaderInvariant`), because none of them is
inductive by itself; that it holds is `CalmInvariant`:

- *who may run* (`ControlInv`): an interval that has not fired, a round, the calls
  of `onHeaders()` and the handling of a block exclude each other, by way of what
  is subscribed and queued at each point;
- *what the table holds* (`DataInv`): at each program counter, which branch the
  table is and how a pending insertion or removal continues it;
- *how far it is behind* (`CaughtUp`): the stored tip may be up to `Rewind` above the
  end of the table after a reorganization, but no longer when the next block is
  handled, so that a second rewind does not take the table out of reach of
  the start;
- *reach* (`ReachInv`): nothing known is above the peer's best block, so the number
  of headers needed is never negative.

Each action of `Next` has a lemma per part that it can disturb; parts it does not
touch are carried over by frame lemmas.

*`HeaderFeed`* (at the end of the same module): `ImplementsFeed`. `CalmInv` does not say
enough, because the mapping reads what a message *promises* before the table has
it. `FeedInv` adds (`HeaderInvariant`, 58,743 states): a round's answer begins after
the last header and ends on the peer's branch (`AnswerInv`); what is announced or
queued is ahead of the last header while a sync is under way (`StageInv`); each
block a subscriber was told of has its header, unless the service is about to
take it (`KnownInv`); and between the removal and the search for the earlier
header the table ends where the search will (`BackInv`). Each action then is a step
of `HeaderFeed` or a stutter (`FeedStarting` to `FeedNext`).

### The block service

`BlockTypeCorrect` (`BlockService_proofs`) needs no assumption. The others are about a
*calm* network (`Calm`, `BlockInvariant`), the one of the run `BlockCrash`:

- `CalmPeer`, as above;
- `MaxTimeouts = 0`: an answer that the peer will give comes within five seconds;
- `~SlowReads`: the lookup of `getEndHash` is not overtaken by a reorganization;
- one `_sync` call at a time: a call that waits for a block the peer has left has
  run into its time limit before the next sync begins.

Nothing in the code ensures the last three; they are what a responsive network
gives, and `BlockCrash` with one of them lifted finds a counterexample: to
`CommittedIndexed` with a late answer, to `BlocksWhole` with a slow lookup, to
`OneSaver` with two calls, because the rejection of the old one comes after the
new sync has begun, clears its `#processingBlock`, and the queue saves a block
beside it. Crashes, restarts, reorganizations and the order in which tables are
written are unrestricted.

`OneSaverTheorem`, `BlocksWholeTheorem`, `CommittedIndexedTheorem`, `AgreeTheorem` and
`ImplementsIndexedChain`, the refinement of `IndexedChain`, follow from `CalmInv` of `BlockInvariant`
(`BlockCalm`; 159,276, 33,167 and 201,626 states on three trees):

- *the process*: what of it is fresh before `"run"`; the queue and the counter of
  its blocks; which call each save belongs to;
- *the header service meanwhile*: it stays where it is while `onHeaders()` runs,
  and no header is above the peer's best block;
- *the calls*: one keeps `#processingBlock` set and the queue out, except when it
  waits in vain; when `onHeaders()` has waited, no other kind is left;
- *the tables*: at each step of a save, of a reorganization and of a start, which
  branch the block table is, which rows of transactions are there beyond it,
  and how the two tips stand to them.

`NoSelfMadeStopTheorem` is about the assertions and the null tips of the service, and
about rows inserted twice: only the genesis block is, before block 1 is committed,
which is what `BlockGenesis` shows (`RefusedInv`). The stop of `_startSync`, whose first
block does not come because the peer has changed its branch, is not excluded. The
theorem also assumes `ShallowForks`: two
branches differ in no more than the 144 blocks whose hashes are cached
(`RecentHashes`). It is the code's own limit: `_findLatestValidBlockHeader` goes
back through the cache only, and a deeper fork stops the node (`BlockCrash` with
`RecentHashes` 1 has the counterexample). The invariant adds what the cache holds,
every hash of the tip's branch that a shallow fork can ask for (`CacheInv`), and
that nothing saved is above the best block the peer had (`LimitInv`), so that the
tip is not further from the fork than the cache reaches (159,276, 30,096 and
159,276 states, and 370,000 of a tree with more branches without an error).

### The transaction service

`LedgerTheorem` (`TxIndex_proofs`): in every state, between any two actions of a block,
of the mempool's handler, of a start or of a reorganization, and so after a crash
between them, the rows up to the height of the stored tip are exactly the
transactions of that chain, at their heights and in their order, and the outputs
that they leave unspent. It holds for every tree of blocks with valid contents
under three hypotheses, discussed above, none of which the code ensures:
`CalmMempool` (peers send nothing that a block being written holds or conflicts with),
`CalmStart` (no block during `onSynced()`) and `Unrivalled` (no transaction that spends
another of its own block has a rival). The first two are those of the run; without
the third the theorem is false. The other theorems of this section have the same
three. The assumptions say what a ledger is:

- `ChainAssumption`: a transaction of a block spends existing outputs of earlier
  ones, and no two of a chain spend the same; what a block generates is no
  other block's payment;
- `GenesisAssumption`: the genesis block is one transaction, with one input and one
  output, which `_setGenesis` writes;
- `RelayAssumption`: no transaction has an input twice, and what the peers send could
  be mined after a set of others that it depends on.

`LedgerExact` is about rows that nothing writes when all is well; what could change
them are statements that select rows by a link or by a height. The invariant
(`LedgerInv` of `TxInvariant`; 712,721 states of the run's ledger, and a larger one by
simulation) therefore has two parts. What the tables look like at every moment
(`TableInv`):

- every output and input belongs to a row of a transaction, and is committed
  exactly when that is (`OwnInv`); a link is what the transaction says (`LinkInv`); no
  two transactions of the table spend the same output (`RivalInv`);
- an output that is marked as spent at a height has its input at that height, and
  what a committed input spends is marked (`SpentInv`): otherwise the second
  statement of a start, which frees by link, and the second of a reorganization,
  which frees by height, would free what the chain has spent;
- the committed transactions are those of the chain and complete (`ChainInv`).

And how far each actor is (`WorkInv`): which rows a start or a reorganization has
left at each of its statements (`CleanInv`, `UndoInv`); at which height rows are while
a block is written (`HeightInv`); that a transaction is complete unless its handler
is writing it (`CompleteInv`, `WriteInv`), because a later block confirms it without
looking at its outputs again; that what the peers sent has nothing to do with
the chain (`QueueInv`), and a mempool transaction still finds what it spends when its
links are written (`MempoolInv`); and at each statement of a block, which of its
transactions have been found, which rivals of the new ones are left to remove,
and that nothing is missing when its tip is stored (`BlockInv`).

The proof has a lemma for each statement. Those of the mempool's handler share one
(`MempoolStep`): they add rows of one transaction or remove rows of none that a block
knows. `removeReplacedTransactions` has the longest: what it removes is closed under
spending (so no link is left to nothing), holds no transaction of the chain (by
`CalmMempool` and `ChainAssumption`), and all the rivals of a new one.

`LinksTheorem`, under the same hypotheses: when no block, transaction or reorganization
is being written, an output and the input that spends it name each other, at the
same height and address, and every input has its output to itself. `LedgerInv` has
the forward direction (a complete transaction's inputs are linked); the way back
is `LinksInv` (712,721 states): an output that names a spender names an input that is
there and spends it, and the height it has for it is the input's (`BackInv`), and an
input has the address of what it spends (`AddressInv`). The height of an input differs
from what its output says in two places (`Moving`). `_processBlock` raises the inputs it
finds before the outputs they spend, in a statement of its own; and a crash
between the two leaves them apart until the second statement of the next start. An
output that a removed transaction had spent has no spender but keeps the height of
the mempool, which is why `BackInv` allows it.

`OrphansTheorem`, under these hypotheses and `Ordinary`: when nothing is being written, the
outputs, the inputs and the witnesses are those of the transactions in the table,
none missing and none left over; a contract call has one receipt, at its place;
and the logs are those of the confirmed calls. What hangs on a transaction is
written, moved and removed by other statements than its row, so `OrphanInv` (712,721
states) says of each table what may be missing or out of place and until when:

- a witness is missing while its handler has yet to write it (`WitnessDue`), a
  receipt until its handler has (`ReceiptDue`, `IdsInv`), its place and its logs until the
  block has called `_processContracts` (`LogDue`): or, after a crash, until the start has
  removed the transaction (`Cut`);
- a receipt may stay behind at the height that a reorganization has taken from its
  transaction (`Lagging`), and a log at that height too (`Stale`), until the statements
  that come after;
- a receipt whose transaction is gone is never taken for another's: ids only grow.

The hard steps are those in which the same transaction changes hands: a block
that confirms one of the mempool takes over a receipt with the mempool's place,
which only `_processContracts` corrects, by the row it finds at the block's height and
index (`PlaceRows`); and a reorganization gives it back before its logs are gone.

`AddressesTheorem` (`TxAccounts_proofs`), under the hypotheses of `LedgerTheorem`: in every
state, a crash at any statement included, the address of a committed output is in
the table under the id that the output has, from the height of the output on, unless
a block has overlooked it (above). Three actors write these rows without looking at
who else needs them: a start deletes the addresses above its tip, a reorganization
gives them the height of the mempool, a block lowers again those of the outputs it
found. `AddressesInv` (712,721 states, and 674,827 of a ledger whose block overlooks one)
says when each must have done its part:

- an output *lasts* when it is committed, or when its block has lowered the addresses
  of what it found (`Lasting`): from then on its address must be known at its own
  height, until then at any height, and after a crash not at all (`Findable`), as the
  start may delete it with the output;
- what a handler has found is still there when it inserts the other addresses, and
  those of all its outputs are there when it inserts these (`PaidInv`).

The lemmas follow each output through a step (`OutsFixed`, `OutsStay`, `KeptStill`): it is
one of before at the same height, or above what is committed, or new; and its address
row stays at no greater a height, or was above every output that lasts.

### The contract service

`ContractsTheorem`, `BalancesTheorem` and `SuppliesTheorem` (`ContractIndex_proofs`), under
`CalmSync` (the next block waits for `onSynced()`) and `Steady` (the node changes its
branch only when the index has all of the old one): whatever
the blocks create and log, whenever the index has caught up, the contracts are
those of the node and so are the QRC20 balances and the supplies, after any number
of crashes, after the reorganizations that `Steady` allows, and however far the node
was ahead on its branch while a block was written. What the properties except is named in them by `lost`: the supply of a
contract that a removed block had minted or burnt tokens of, for one, as `onReorg`
asks about no supplies.
The two hypotheses are those of the run. The code ensures neither: a block may come
while `onSynced()` compares its list, and a node may leave a branch of which the index
has only a part; without either TLC finds a counterexample. What contracts and nodes do is assumed:

- `ContractAssumption`: there are finitely many contracts (addresses of 20 bytes);
- `GenesisAssumption`: the genesis block calls no contract (`contract.js:59-84` writes
  the five of the chain's own as rows);
- `LogAssumption`: only contracts that exist write logs, and a transfer of a QRC20 has
  three topics, as its standard says;
- `CreationAssumption`: a contract's address is made from the transaction that
  creates it, so it has the same owner on every branch and is neither one of
  the genesis block nor created by a contract.

A contract that destroys itself is not modelled: `listcontracts` of the model only
grows along a branch, and a balance only changes with a log or a creation.

None of the properties says anything while the index is behind, so none is
inductive. Three invariants (`ContractInvariant`; 72,301 states) say what is true in
the meantime:

- `ContractInv`, for the contracts. The handlers exclude each other (`JobInv`). A
  comparison removes the rows of the contracts it finds in their own table, so
  no supply, balance or holder may ever be of a contract that is neither there
  nor at the node (`RowsInv`), at every point of a removal or a creation, and
  after a crash at each. How far a comparison is (`SyncInv`): the list that was
  read, and the contracts still to be created. It ends with the node's
  contracts only if the node has not moved since, but then the next block
  makes another comparison.
- `BalancesInv`, for the balances. The row of a holder is what the node said at
  *some* block; it still is, or a block that has not been asked about changes
  it. `BalanceInv` states that for every block that the chain of the index has in
  common with the node's, the form in which it survives a change of branch:
  a row of the old branch is that of the common block, or a log above it
  names the holder and will be found by `onReorg`, or the contract is gone.
  `OwnerInv` and `AnswerInv` say the same of the questions of a block that is half
  written, `ComparedInv` of a list that is older than the node's tip.

- `SuppliesInv`, for the supplies, says the same of the blocks that mint and burn
  (`SupplyInv`). A block asks about one contract after the other, so half of its
  supplies are of the block and half of the one before it (`ToSupplyInv`); one that
  is passed over is of a contract without a supply (`RowInv`: a token contract has
  its row, unless its second transaction is under way or was cut off, and no other
  contract has one). The supply that a contract is created with was asked for in
  another call (`ToldInv`) and may be older than what the block changes.

The lemmas say which blocks change a balance or a supply (`BalanceStays`,
`BalanceNone`, `TotalStays`), that what is pending of a branch is what is pending of its
two parts (`PendingSplits`, `MintingSplits`), and that an answer of the past is right or
pending now (`AnswerHolds`, `ToldHolds`).

### The peers

No assumption but `PoolAssumption` (`PeerPool_proofs`): `PeersAliveTheorem`,
`RetryWhenAloneTheorem`, and `OneConnectionTheorem`, the part of `TypeOK` that an
interleaving could break. `PeersInv` (432,716 states) says of the pool that each
`Peer` object has its shape and has not been met before its handshake, and
that `#connectedPeers` names exactly the open connections; and of the service that
`#peers` are ready, once each, none above `#peer`, and that a ready one is missing
only if some peer went before it was ready. The timer is on exactly when `#peers` is
empty (`RetryInv`), which is not when no peer is ready: the wrong `splice` may empty the
list beside a ready peer. `RetryWhenAlone` therefore speaks of the ready ones, and
says that the timer is on whenever there is none, and that it is on beside one only
after such a loss. That loss is why `PeersAlive` is
not inductive alone: `splice(-1, 1)` takes the last peer for one that never was
in the list, so later losses must be explained by that earlier one. The lemmas
are about the operators: what `splice` leaves (`RemovedMembers`), which peer
`_getBestHeight` finds (`BestMember`), what `fillConnections` opens (`FilledPool`).

### Only model-checked

- Liveness: `SyncEnds`, `QueuedBlockIndexed`, `CatchesUp`, `HeadersReturn`, `BlockArrives`. It
  is out of the prover's reach.
- The rest of `PeerPool`'s `TypeOK`, which is about the inventories: `Seen` is folded
  over a message, and what a fold computes for every sequence is an induction
  over data, which is out of reach as well. So are the formats (`ScriptsRead`,
  `FramesRead`, `AddressesRead`), which are recursive functions.
- `HoldersCurrent` and the `TypeOK` of `ContractIndex`. The holder of a
  token is the last of a selected sequence of logs, which is an induction again.
- The other properties of `TxIndex`: `TypeOK`, `BalancesExact`, `NeverRefused`. The
  balances count rows, which the prover does not do with sets that change; the
  others need the balances in the invariant.

## Not modelled

The layouts of headers, blocks, transactions and message payloads, which are
fixed fields written in the order they are read; chainwork, fees and sizes;
input scripts, which the node itself never parses; how scripts are shown; the
server and its subscribers; the command line, the bus and logging; the order of
the services, which their constants fix. `PROJECT.json` lists every component.

## Plan

1. *Done:* `BlockTree`, `AsyncQueue`, `HeaderService` with its abstractions and proofs;
   `BlockService` composed with `HeaderFeed`; `TxIndex`, `ContractIndex`, `PeerPool`,
   `Frames`, `Scripts`, `Addresses`.
2. *Done:* the proofs about `HeaderService`, `BlockService` and `PeerPool`, and about the
   contracts, balances and supplies of `ContractIndex`, and `LedgerExact`, `LinksAgree`,
   `NoOrphans` and `AddressesKept` of `TxIndex`.
3. Proofs that are left: `BalancesExact` of `TxIndex`, from an invariant with the balances.
4. Left over, in the order of use: the order of services (`getServiceOrder`), the
   layouts of transactions with and without a witness, input scripts.
