----------------------------- MODULE ContractIndex -----------------------------
(***************************************************************************)
(* src/node/services/contract.js: the tables of contracts, of the supplies *)
(* and balances of their tokens and of the holders of unique tokens.       *)
(*                                                                         *)
(* What the tables hold is not computed from the blocks: which contracts   *)
(* there are and what a holder has is asked of the node (RPC), which       *)
(* answers for its own chain, wherever that is by then.  The receipt logs  *)
(* of the transaction service (TxIndex) say only whom to ask about.  They  *)
(* are in the table from the moment a block is handed to this service      *)
(* until a reorganization has passed it, or a start has cut them off.      *)
(***************************************************************************)
EXTENDS BlockTree, Sequences, SequencesExt, FiniteSets

CONSTANTS
  Contract, Holder, Token,
  NoToken,       \* the token of a log with three topics (QRC20)
  Nobody,        \* the zero address
  Standard,      \* what the code of a contract implements: qrc20, qrc721, none
  Dgp,           \* the contracts of the genesis block
  Creations,     \* by block: the contracts its transactions create, in order,
                 \* with their owners, who begin with a unit and every token
                 \* without any log
  Inner,         \* by block: the contracts that contracts create
  Logs,          \* by block: its Transfer logs, in order
  CalmSync,      \* whether onSynced() returns before the next block
  Steady,        \* whether the node only changes branch when the index is idle
                 \* and has every block of the node
  MaxCrashes, MaxForks  \* bounds

Log == [contract : Contract, from : Holder \cup {Nobody}, to : Holder \cup {Nobody},
        token : Token \cup {NoToken}]

ASSUME ContractAssumption ==
  /\ IsFiniteSet(Contract)  \* addresses of 20 bytes
  /\ Nobody \notin Holder /\ NoToken \notin Token
  /\ Standard \in [Contract -> {"qrc20", "qrc721", "none"}]
  /\ Dgp \subseteq Contract
  /\ Creations \in [Block -> Seq([contract : Contract, owner : Holder])]
  /\ Inner \in [Block -> SUBSET Contract]
  /\ Logs \in [Block -> Seq(Log)]
  /\ CalmSync \in BOOLEAN /\ Steady \in BOOLEAN
  /\ MaxCrashes \in Nat /\ MaxForks \in Nat

\* The block that is written, undone or looked at by the start, and onSynced().
Handler == {"block", "sync"}

VARIABLES
  nodeTip,       \* the tip of the node
  db,            \* the tables: contracts (their type), supplies (qrc20 and
                 \* qrc721), balances, holders
  logged,        \* the last block whose logs are in evm_receipt_log
  storedTip,     \* the block service's tip, and
  contractTip,   \* this service's, in the table of tips
  phase,         \* "down", "start", "run", "undo"
  fault,         \* why the process last stopped
  synced,        \* isSynced()
  block,         \* the block that is being written, or NoBlock
  job,
  lost,          \* history: what nothing has asked the node about since a block
                 \* that changed it was removed
  crashes, forks

node == <<nodeTip, forks>>
tips == <<storedTip, contractTip>>
process == <<phase, fault, synced, block>>
vars == <<node, db, logged, tips, process, job, lost, crashes>>

-----------------------------------------------------------------------------
(* The models, each a function on the key of its table; amounts are the    *)
(* 32 byte integers of the columns.                                        *)

TableOf(f, Key, Rows) == DOMAIN f \subseteq Key /\ \A x \in DOMAIN f : f[x] \in Rows

ContractTable(f) == TableOf(f, Contract, {"qrc20", "qrc721", "none", "dgp"})
SupplyTable(f) == TableOf(f, Contract, Nat)               \* qrc20 and qrc721
BalanceTable(f) == TableOf(f, Contract \X Holder, Nat)    \* qrc20_balance
HolderTable(f) == TableOf(f, Contract \X Token, Holder)   \* qrc721_token

\* A table after rows have been written over those with the same keys.
Written(rows, table) ==
  [x \in DOMAIN rows \cup DOMAIN table |-> IF x \in DOMAIN rows THEN rows[x] ELSE table[x]]

-----------------------------------------------------------------------------
(* The answers of a node whose tip is b.                                   *)

Chain(b) == {Branch[b][d] : d \in 0 .. Depth[b]}
Above(a, b) == {Branch[b][d] : d \in Depth[a] + 1 .. Depth[b]}
LogsOf(blocks) == UNION {ToSet(Logs[b]) : b \in blocks}

CreatedIn(b) == {x.contract : x \in ToSet(Creations[b])} \cup Inner[b]
Existing(b) == Dgp \cup UNION {CreatedIn(c) : c \in Chain(b)}  \* listcontracts

\* Only contracts that exist write logs, and those of a QRC20 have three topics.
ASSUME LogAssumption ==
  \A b \in Block : \A l \in ToSet(Logs[b]) :
    l.contract \in Existing(b) /\ (Standard[l.contract] = "qrc20" => l.token = NoToken)

\* The address of a contract is made from the transaction that creates it: it
\* has the same owner on every branch.
ASSUME CreationAssumption ==
  \A a, b \in Block : \A x \in ToSet(Creations[a]) :
    /\ x.contract \notin Dgp \cup Inner[b]
    /\ \A y \in ToSet(Creations[b]) : y.contract = x.contract => y = x

\* Nobody calls or creates a contract in the genesis block.
ASSUME GenesisAssumption == Creations[Genesis] = <<>> /\ Logs[Genesis] = <<>>

\* How many of the logs of the chain are such.
Number(b, Test(_)) ==
  Cardinality(UNION {{<<d, n>> : n \in {m \in DOMAIN Logs[Branch[b][d]] : Test(Logs[Branch[b][d]][m])}}
                     : d \in 0 .. Depth[b]})

Endowed(b, c) ==
  {x.owner : x \in {y \in UNION {ToSet(Creations[a]) : a \in Chain(b)} : y.contract = c}}

\* balanceOf, by contract and holder, and totalSupply.
Balance(b, x) ==
  (IF x[2] \in Endowed(b, x[1]) THEN 1 ELSE 0)
  + Number(b, LAMBDA l : l.contract = x[1] /\ l.to = x[2])
  - Number(b, LAMBDA l : l.contract = x[1] /\ l.from = x[2])

Supply(b, c) ==
  Cardinality(Endowed(b, c))
  + Number(b, LAMBDA l : l.contract = c /\ l.from = Nobody)
  - Number(b, LAMBDA l : l.contract = c /\ l.to = Nobody)

Answers(b, c) == c \in Existing(b) /\ Standard[c] = "qrc20"

-----------------------------------------------------------------------------
(* What is read from logs.                                                 *)

IsToken(l) == l.token # NoToken


\* The balances to be asked for.
BalanceChanges(logs) ==
  UNION {{<<l.contract, h>> : h \in {l.from, l.to} \ {Nobody}} : l \in {k \in logs : ~IsToken(k)}}

\* Mutation: burning is overlooked.
SupplyChanges_Minted(logs) == {l.contract : l \in {k \in logs : k.from = Nobody}}

SupplyChanges(logs) == {l.contract : l \in {k \in logs : Nobody \in {k.from, k.to}}}

TokensOf(logs) == {<<l.contract, l.token>> : l \in {k \in logs : IsToken(k)}}

\* The logs of the block that give a token to somebody, by their place.
Moves(b) == {n \in DOMAIN Logs[b] : IsToken(Logs[b][n]) /\ Logs[b][n].to # Nobody}
MovesOf(b, x) == {n \in Moves(b) : <<Logs[b][n].contract, Logs[b][n].token>> = x}

\* Mutation: the first receiver stays.
TokenHolders_First(b) ==
  [x \in TokensOf({Logs[b][n] : n \in Moves(b)}) |-> Logs[b][Min(MovesOf(b, x))].to]

\* The last receiver in the block of each token, but the zero address.
TokenHolders(b) ==
  [x \in TokensOf({Logs[b][n] : n \in Moves(b)}) |-> Logs[b][Max(MovesOf(b, x))].to]

\* All a block changes, of the three tables.
Changed(logs) ==
  {<<"balance", x>> : x \in BalanceChanges(logs)}
  \cup {<<"supply", c>> : c \in SupplyChanges(logs)}
  \cup {<<"token", x>> : x \in TokensOf(logs)}

\* The statement of onReorg: a token whose first log in the table is above a is
\* given back to the sender of that log.
Restored(a) ==
  LET first(x) == CHOOSE d \in 0 .. Depth[logged] :
        /\ x \in TokensOf(ToSet(Logs[Branch[logged][d]]))
        /\ \A e \in 0 .. d-1 : x \notin TokensOf(ToSet(Logs[Branch[logged][e]]))
      sender(x) == LET logs == Logs[Branch[logged][first(x)]]
                   IN  logs[Min({n \in DOMAIN logs : <<logs[n].contract, logs[n].token>> = x})].from
      tokens == {x \in TokensOf(LogsOf(Chain(logged))) :
                   first(x) > Depth[a] /\ sender(x) # Nobody}
  IN  [x \in tokens |-> sender(x)]

-----------------------------------------------------------------------------
(* The process.                                                            *)

\* stage is what the job is about, todo the contracts it goes through, changes
\* the balances it is asking for, and answer what the node said.
NoJob == [pc |-> "none", stage |-> "none", todo |-> <<>>, changes |-> {},
          answer |-> <<>>, listed |-> {}]

Stop(reason) ==
  /\ phase' = "down"
  /\ fault' = reason
  /\ synced' = FALSE
  /\ block' = NoBlock
  /\ job' = [w \in Handler |-> NoJob]
  \* a contract without its details will never get them
  /\ lost' = lost \cup {<<"supply", Head(job[w].todo).contract>> :
                          w \in {v \in Handler : job[v].pc = "detail"}}
  /\ UNCHANGED <<node, db, logged, tips>>

Idle == \A w \in Handler : job[w].pc = "none"
CaughtUp == phase = "run" /\ Idle /\ block = NoBlock /\ synced /\ storedTip = nodeTip

At(w, pc) == phase # "down" /\ job[w].pc = pc
Goes(w, pc) == job' = [job EXCEPT ![w].pc = pc]
Reads == UNCHANGED <<node, db, logged, tips, process, lost, crashes>>
Writes == UNCHANGED <<node, logged, tips, process, crashes>>

Lower == IF Depth[contractTip] > Depth[storedTip] THEN storedTip ELSE contractTip

\* The start of the transaction service, which removes the logs of the blocks
\* above the tip, and then start(), which calls onReorg().
Start ==
  /\ phase = "down"
  /\ phase' = "start"
  /\ fault' = "none"
  /\ logged' = storedTip
  /\ lost' = lost \cup Changed(LogsOf(Above(storedTip, logged)))
  /\ job' = [job EXCEPT !["block"] = [NoJob EXCEPT !.pc = "logs", !.stage = "reorg"]]
  /\ UNCHANGED <<node, db, tips, synced, block, crashes>>

\* The tip is that of the header service: the blocks of another branch are gone.
OnSynced ==
  /\ phase = "run"
  /\ block = NoBlock
  /\ ~synced
  /\ Steady => OnBranch(storedTip, nodeTip)
  /\ synced' = TRUE
  /\ job' = [job EXCEPT !["sync"] = [NoJob EXCEPT !.pc = "list", !.stage = "sync"]]
  /\ UNCHANGED <<node, db, logged, tips, phase, fault, block, lost, crashes>>

Crash ==
  /\ phase # "down"
  /\ crashes < MaxCrashes
  /\ crashes' = crashes + 1
  /\ Stop("crash")

\* The node gets its next block, or changes to a longer branch.
NodeMoves(b) ==
  /\ \/ Parent[b] = nodeTip /\ UNCHANGED forks
     \/ /\ Depth[b] > Depth[nodeTip] /\ ~OnBranch(nodeTip, b)
        /\ forks < MaxForks
        /\ Steady => CaughtUp
        /\ forks' = forks + 1
  /\ nodeTip' = b
  /\ UNCHANGED <<db, logged, tips, process, job, lost, crashes>>

-----------------------------------------------------------------------------
(* onBlock, after the transaction service has written the block.           *)

BeginBlock(b) ==
  /\ phase = "run"
  /\ block = NoBlock
  /\ Parent[b] = storedTip
  /\ OnBranch(b, nodeTip)
  /\ CalmSync => job["sync"].pc = "none"
  /\ block' = b
  /\ logged' = b
  /\ job' = [job EXCEPT !["block"] = [NoJob EXCEPT !.pc = "find", !.stage = "creations",
                                                   !.todo = Creations[b]]]
  /\ UNCHANGED <<node, db, tips, phase, fault, synced, lost, crashes>>

\* _createContract: whether the table has it, and if not what the node says.
Find(w) ==
  LET c == Head(job[w].todo).contract
      known == c \in DOMAIN db.contracts
  IN
  /\ At(w, "find") /\ job[w].todo # <<>>
  /\ \/ /\ known
        /\ Goes(w, "owner")
     \/ /\ ~known /\ c \notin Existing(nodeTip)
        /\ job' = [job EXCEPT ![w].todo = Tail(@)]
     \/ /\ ~known /\ c \in Existing(nodeTip)
        /\ job' = [job EXCEPT ![w].pc = "save", ![w].answer = Supply(nodeTip, c)]
  /\ Reads

SaveContract(w) ==
  LET c == Head(job[w].todo).contract
      duplicate == c \in DOMAIN db.contracts
  IN
  /\ At(w, "save")
  /\ \/ /\ ~duplicate
        /\ db' = [db EXCEPT !.contracts = Written([x \in {c} |-> Standard[c]], @)]
        /\ Goes(w, "detail")
        /\ Writes /\ UNCHANGED lost
     \/ duplicate /\ Stop("duplicate") /\ UNCHANGED crashes

\* Its code, tag and qrc20 or qrc721 row.
CreateDetails(w) ==
  LET c == Head(job[w].todo).contract IN
  /\ At(w, "detail")
  /\ db' = IF Standard[c] = "none" THEN db
           ELSE [db EXCEPT !.supplies = Written([x \in {c} |-> job[w].answer], @)]
  /\ lost' = lost \ {<<"supply", c>>}
  /\ Goes(w, "owner")
  /\ Writes

\* A contract of a transaction: the balance of its owner is asked for.
AskOwner(w) ==
  LET x == Head(job[w].todo)
      asks == job[w].stage = "creations" /\ x.contract \in DOMAIN db.contracts
              /\ db.contracts[x.contract] = "qrc20"
  IN
  /\ At(w, "owner")
  /\ job' = IF asks THEN [job EXCEPT ![w].pc = "read", ![w].changes = {<<x.contract, x.owner>>}]
            ELSE [job EXCEPT ![w].pc = "find", ![w].todo = Tail(@)]
  /\ Reads

\* _processReceipts.
BeginReceipts ==
  /\ At("block", "find") /\ job["block"].todo = <<>> /\ job["block"].stage = "creations"
  /\ job' = [job EXCEPT !["block"] =
       [@ EXCEPT !.pc = "read", !.stage = "receipts", !.changes = BalanceChanges(ToSet(Logs[block]))]]
  /\ Reads

\* _updateBalances: the calls, those that fail being dropped.
ReadBalances ==
  LET asked == job["block"].changes
      answered == {x \in asked : Answers(nodeTip, x[1])}
  IN
  /\ At("block", "read")
  /\ job' = [job EXCEPT !["block"].pc = "write",
                        !["block"].answer = [x \in answered |-> Balance(nodeTip, x)]]
  /\ lost' = IF job["block"].stage = "reorg"
             THEN lost \cup {<<"balance", x>> : x \in asked \ answered} ELSE lost
  /\ UNCHANGED <<node, db, logged, tips, process, crashes>>

WriteBalances ==
  LET j == job["block"] IN
  /\ At("block", "write")
  /\ db' = [db EXCEPT !.balances = Written(j.answer, @)]
  /\ lost' = lost \ {<<"balance", x>> : x \in DOMAIN j.answer}
  /\ job' = [job EXCEPT !["block"] =
       CASE j.stage = "creations" -> [j EXCEPT !.pc = "find", !.todo = Tail(@)]
         [] j.stage = "receipts" -> [j EXCEPT !.pc = "holders"]
         [] j.stage = "reorg" -> [j EXCEPT !.pc = "tokens"]]
  /\ Writes

\* _updateTokenHolders.
WriteHolders ==
  LET supplies == SetToSeq({[contract |-> c] : c \in SupplyChanges(ToSet(Logs[block]))}) IN
  /\ At("block", "holders")
  /\ db' = [db EXCEPT !.holders = Written(TokenHolders(block), @)]
  /\ lost' = lost \ {<<"token", x>> : x \in DOMAIN TokenHolders(block)}
  /\ job' = [job EXCEPT !["block"].pc = "supply", !["block"].todo = supplies]
  /\ Writes

\* The supplies, one contract after the other.
AskSupply ==
  LET c == Head(job["block"].todo).contract
      asks == /\ c \in DOMAIN db.contracts /\ db.contracts[c] \in {"qrc20", "qrc721"}
              /\ c \in Existing(nodeTip)
  IN
  /\ At("block", "supply") /\ job["block"].todo # <<>>
  /\ job' = IF asks THEN [job EXCEPT !["block"].pc = "supplied", !["block"].answer = Supply(nodeTip, c)]
            ELSE [job EXCEPT !["block"].todo = Tail(@)]
  /\ Reads

WriteSupply ==
  LET c == Head(job["block"].todo).contract IN
  /\ At("block", "supplied")
  /\ db' = IF c \in DOMAIN db.supplies
           THEN [db EXCEPT !.supplies[c] = job["block"].answer] ELSE db
  /\ lost' = IF c \in DOMAIN db.supplies THEN lost \ {<<"supply", c>>} ELSE lost
  /\ job' = [job EXCEPT !["block"].pc = "supply", !["block"].todo = Tail(@)]
  /\ Writes

EndReceipts ==
  /\ At("block", "supply") /\ job["block"].todo = <<>>
  /\ job' = [job EXCEPT !["block"].pc = IF synced THEN "list" ELSE "tip",
                        !["block"].stage = "sync"]
  /\ Reads

StoreTip ==
  /\ At("block", "tip")
  /\ contractTip' = block
  /\ Goes("block", "commit")
  /\ UNCHANGED <<node, db, logged, storedTip, process, lost, crashes>>

\* The block service's own row and tip.
Commit ==
  /\ At("block", "commit")
  /\ storedTip' = block
  /\ block' = NoBlock
  /\ job' = [job EXCEPT !["block"] = NoJob]
  /\ UNCHANGED <<node, db, logged, contractTip, phase, fault, synced, lost, crashes>>

-----------------------------------------------------------------------------
(* _syncContracts, of either handler.                                      *)

ListContracts(w) ==
  /\ At(w, "list")
  /\ job' = [job EXCEPT ![w].pc = "compare", ![w].listed = Existing(nodeTip)]
  /\ Reads

\* Mutation: contracts that the node does not have stay.
Removable_None(w) == {}
Removable(w) == DOMAIN db.contracts \ job[w].listed

Dropped(f, gone) == [x \in {y \in DOMAIN f : y[1] \notin gone} |-> f[x]]

\* Those the node does not have go with all that is known of them, and the
\* others are to be created.
Compare(w) ==
  LET gone == Removable(w)
      missing == job[w].listed \ DOMAIN db.contracts
  IN
  /\ At(w, "compare")
  /\ db' = [contracts |-> [c \in DOMAIN db.contracts \ gone |-> db.contracts[c]],
            supplies |-> [c \in DOMAIN db.supplies \ gone |-> db.supplies[c]],
            balances |-> Dropped(db.balances, gone),
            holders |-> Dropped(db.holders, gone)]
  /\ lost' = {x \in lost : IF x[1] = "supply" THEN x[2] \notin gone ELSE x[2][1] \notin gone}
  /\ job' = [job EXCEPT ![w].pc = "find", ![w].todo = SetToSeq({[contract |-> c] : c \in missing})]
  /\ Writes

EndSync(w) ==
  /\ At(w, "find") /\ job[w].todo = <<>> /\ job[w].stage = "sync"
  /\ job' = [job EXCEPT ![w] = IF w = "block" THEN [NoJob EXCEPT !.pc = "tip"] ELSE NoJob]
  /\ Reads

-----------------------------------------------------------------------------
(* onReorg(height), before the transaction service's.                      *)

GoBack(a) ==
  /\ phase = "run"
  /\ block = NoBlock
  /\ ~OnBranch(storedTip, nodeTip)
  /\ OnBranch(a, storedTip) /\ OnBranch(a, nodeTip)
  /\ \A d \in Depth[a] + 1 .. Depth[storedTip] : ~OnBranch(Branch[storedTip][d], nodeTip)
  /\ CalmSync => job["sync"].pc = "none"
  /\ storedTip' = a
  /\ phase' = "undo"
  /\ job' = [job EXCEPT !["block"] = [NoJob EXCEPT !.pc = "logs", !.stage = "reorg"]]
  /\ UNCHANGED <<node, db, logged, contractTip, fault, synced, block, lost, crashes>>

\* Mutation: nobody is asked about.
Undone_None(a) == {}

\* The height is that of the tip gone back to, or that of start().
Undone(a) == BalanceChanges(LogsOf(Above(a, logged)))
ReorgTip == IF phase = "start" THEN Lower ELSE storedTip

FindLogs ==
  /\ At("block", "logs")
  /\ job' = [job EXCEPT !["block"].pc = "read", !["block"].changes = Undone(ReorgTip)]
  /\ Reads

RestoreTokens ==
  /\ At("block", "tokens")
  /\ db' = [db EXCEPT !.holders = Written(Restored(ReorgTip), @)]
  /\ Goes("block", "forget")
  /\ Writes /\ UNCHANGED lost

\* The transaction service's onReorg() follows, or the end of start().
EndReorg ==
  LET undone == LogsOf(Above(storedTip, logged)) IN
  /\ At("block", "forget")
  /\ logged' = storedTip
  /\ contractTip' = IF phase = "start" THEN Lower ELSE contractTip
  /\ lost' = lost \cup {<<"supply", c>> : c \in SupplyChanges(undone)}
                  \cup {<<"token", x>> : x \in TokensOf(undone) \ DOMAIN Restored(storedTip)}
  /\ phase' = "run"
  /\ job' = [job EXCEPT !["block"] = NoJob]
  /\ UNCHANGED <<node, db, storedTip, fault, synced, block, crashes>>

-----------------------------------------------------------------------------
\* The genesis block has been written.
Init ==
  /\ nodeTip = Genesis /\ forks = 0
  /\ db = [contracts |-> [c \in Dgp |-> "dgp"], supplies |-> <<>>, balances |-> <<>>,
           holders |-> <<>>]
  /\ logged = Genesis /\ storedTip = Genesis /\ contractTip = Genesis
  /\ phase = "down" /\ fault = "none" /\ synced = FALSE /\ block = NoBlock
  /\ job = [w \in Handler |-> NoJob]
  /\ lost = {}
  /\ crashes = 0

Sync(w) ==
  \/ ListContracts(w) \/ Compare(w) \/ EndSync(w)
  \/ Find(w) \/ SaveContract(w) \/ CreateDetails(w) \/ AskOwner(w)

Next ==
  \/ Start \/ OnSynced \/ Crash
  \/ \E b \in Block : NodeMoves(b) \/ BeginBlock(b) \/ GoBack(b)
  \/ \E w \in Handler : Sync(w)
  \/ BeginReceipts \/ ReadBalances \/ WriteBalances \/ WriteHolders
  \/ AskSupply \/ WriteSupply \/ EndReceipts \/ StoreTip \/ Commit
  \/ FindLogs \/ RestoreTokens \/ EndReorg

Spec == Init /\ [][Next]_vars

-----------------------------------------------------------------------------
(* Properties.                                                             *)

\* The types.  Nobody has a balance or holds a token, no balance and no supply
\* is negative, and the contract tip never passes the logs.
TypeOK ==
  /\ nodeTip \in Block /\ logged \in Block /\ storedTip \in Block /\ contractTip \in Block
  /\ DOMAIN db = {"contracts", "supplies", "balances", "holders"}
  /\ ContractTable(db.contracts) /\ SupplyTable(db.supplies)
  /\ BalanceTable(db.balances) /\ HolderTable(db.holders)
  /\ phase \in {"down", "start", "run", "undo"}
  /\ fault \in {"none", "crash", "duplicate"}
  /\ synced \in BOOLEAN
  /\ block \in Block \cup {NoBlock}
  /\ \A w \in Handler :
       /\ job[w].pc \in {"none", "logs", "find", "save", "detail", "owner", "read", "write",
                         "holders", "supply", "supplied", "list", "compare", "tokens",
                         "forget", "tip", "commit"}
       /\ job[w].stage \in {"none", "creations", "receipts", "sync", "reorg"}
       /\ job[w].changes \subseteq Contract \X Holder
       /\ job[w].listed \subseteq Contract
  /\ crashes \in Nat /\ forks \in Nat

\* What the node says of a holder: the last one who received the token, even if
\* it has been burnt since, or the owner of the contract.
HolderOf(b, x) ==
  LET all == FlattenSeq([n \in 1 .. Depth[b] + 1 |-> Logs[Branch[b][n-1]]])
      moves == SelectSeq(all, LAMBDA l : <<l.contract, l.token>> = x /\ l.to # Nobody)
  IN  IF moves = <<>> THEN Endowed(b, x[1]) ELSE {Last(moves).to}

\* When the index has every block of the node, the balances it shows are those
\* of the node, after any crash, any reorganization that Steady allows (the node
\* changes branch only when the index has all of the old one), and however far
\* the node was ahead of the block that was being written; except those of the holders
\* whose logs a start has cut off before onReorg() could see them, and those the
\* node had no answer for during a reorganization.
BalancesCurrent ==
  CaughtUp =>
    \A c \in Existing(storedTip), h \in Holder :
      Standard[c] = "qrc20" /\ <<"balance", <<c, h>>>> \notin lost =>
        (IF <<c, h>> \in DOMAIN db.balances THEN db.balances[<<c, h>>] ELSE 0)
        = Balance(storedTip, <<c, h>>)

\* The holder of a token is the node's, unless a removed block had moved it and
\* none has since: only a token that had no log before that block is given back.  It
\* is checked for the reorganizations that Steady allows.
HoldersCurrent ==
  CaughtUp =>
    /\ \A x \in DOMAIN db.holders :
         <<"token", x>> \notin lost => db.holders[x] \in HolderOf(storedTip, x)
    /\ \A l \in LogsOf(Chain(storedTip)) :
         IsToken(l) /\ l.to # Nobody => <<l.contract, l.token>> \in DOMAIN db.holders

\* So is the supply of a contract, unless a removed block had minted or burnt,
\* and none has since; and every token contract has one, unless the process
\* stopped before it was written.  A supply asked of a node on another branch
\* (excluded by Steady) would stay.
SuppliesCurrent ==
  CaughtUp =>
    /\ \A c \in DOMAIN db.supplies :
         <<"supply", c>> \notin lost => db.supplies[c] = Supply(storedTip, c)
    /\ \A c \in DOMAIN db.contracts :
         db.contracts[c] \in {"qrc20", "qrc721"} /\ <<"supply", c>> \notin lost =>
           c \in DOMAIN db.supplies

\* The contracts are those of the node, and nothing is left of others; no two
\* handlers create the same one.  A block that adds a contract between the answer
\* to onSynced() and the comparison is excluded by CalmSync.
ContractsCurrent ==
  /\ fault # "duplicate"
  /\ CaughtUp =>
       /\ DOMAIN db.contracts = Existing(storedTip)
       /\ DOMAIN db.supplies \subseteq Existing(storedTip)
       /\ \A x \in DOMAIN db.balances \cup DOMAIN db.holders : x[1] \in Existing(storedTip)
=============================================================================
