--------------------------- MODULE ContractInvariant ---------------------------
(***************************************************************************)
(* Why the contracts, the balances and the supplies of ContractIndex are   *)
(* those of the node whenever the index has caught up, if the node only    *)
(* changes branch then (Steady) and no block is written during onSynced()  *)
(* (CalmSync): three invariants that every step preserves together.        *)
(*                                                                         *)
(* Between two comparisons with the node the tables may hold contracts of  *)
(* a removed branch and lack some of the new one.  What must never happen  *)
(* is that a supply, a balance or a holder is of neither: a comparison     *)
(* only removes the rows of contracts that it finds in the table.          *)
(***************************************************************************)
EXTENDS ContractIndex

Items == [contract : Contract] \cup [contract : Contract, owner : Holder]

\* The contracts that handler w has still to go through.
ToDo(w) == {job[w].todo[n].contract : n \in DOMAIN job[w].todo}

Known == DOMAIN db.contracts
Rows == DOMAIN db.supplies \cup {x[1] : x \in DOMAIN db.balances \cup DOMAIN db.holders}

\* _createContract, of one of todo.
Creating == {"find", "save", "detail", "owner"}

\* The block whose contracts the tables are to hold when the handler is done.
Target(w) == IF w = "block" THEN block ELSE storedTip

-----------------------------------------------------------------------------
(* What the variables are.                                                 *)

ShapeInv ==
  /\ nodeTip \in Block /\ storedTip \in Block /\ logged \in Block /\ contractTip \in Block
  /\ block \in Block \cup {NoBlock}
  /\ phase \in {"down", "start", "run", "undo"}
  /\ synced \in BOOLEAN
  /\ DOMAIN db = {"contracts", "supplies", "balances", "holders"}
  /\ DOMAIN job = Handler
  /\ \A w \in Handler : DOMAIN job[w] = DOMAIN NoJob

-----------------------------------------------------------------------------
(* What the handlers do, and when: one at a time.                          *)

\* The stages of a block.
BlockJob(j) ==
  \/ j.stage = "creations" /\ j.pc \in Creating \cup {"read", "write"}
  \/ j.stage = "receipts" /\ j.pc \in {"read", "write", "holders"}
  \/ j.stage = "receipts" /\ j.pc \in {"supply", "supplied"}
  \/ j.stage = "sync" /\ j.pc \in Creating \cup {"list", "compare"} /\ synced
  \/ j.pc = "tip" /\ j.stage \in {"none", "sync"}
  \/ j.pc = "commit" /\ j.stage \in {"none", "sync"}

ReorgJob(j) == j.stage = "reorg" /\ j.pc \in {"logs", "read", "write", "tokens", "forget"}

SyncJob(j) == j.stage = "sync" /\ j.pc \in Creating \cup {"list", "compare"}

JobInv ==
  /\ phase = "down" => job = [w \in Handler |-> NoJob]
  /\ phase \in {"down", "start"} => ~synced
  /\ phase # "run" => block = NoBlock /\ job["sync"].pc = "none"
  /\ phase \in {"start", "undo"} => ReorgJob(job["block"])
  /\ phase = "run" =>
       IF block = NoBlock THEN job["block"] = NoJob
       ELSE BlockJob(job["block"]) /\ job["sync"].pc = "none"
  /\ job["sync"] = NoJob \/ (synced /\ SyncJob(job["sync"]))

-----------------------------------------------------------------------------
(* Where the tips are.                                                     *)

TipInv ==
  /\ Depth[storedTip] <= Depth[nodeTip]
  /\ block # NoBlock => OnBranch(block, nodeTip) /\ Parent[block] = storedTip /\ logged = block
  /\ phase = "run" /\ block = NoBlock => logged = storedTip
  /\ job["sync"].pc # "none" => OnBranch(storedTip, nodeTip)
  /\ phase = "undo" => OnBranch(storedTip, nodeTip) /\ storedTip # nodeTip

-----------------------------------------------------------------------------
(* What the tables hold.                                                   *)

\* Nothing is of a contract that no comparison could find.
RowsInv ==
  /\ Rows \subseteq Known \cup Existing(nodeTip)
  /\ OnBranch(storedTip, nodeTip) \/ Existing(storedTip) \subseteq Known
  /\ phase # "down" => OnBranch(logged, nodeTip) \/ Existing(logged) \subseteq Known

\* The contract that is being created, and those whose balances have been read.
CreateInv(w) ==
  LET c == Head(job[w].todo).contract IN
  /\ job[w].pc \in Creating \/ job[w].stage = "creations" => job[w].todo \in Seq(Items)
  /\ job[w].pc \in {"save", "detail", "owner"} => job[w].todo # <<>>
  /\ job[w].stage = "creations" /\ job[w].pc \in {"read", "write"} => job[w].todo # <<>>
  /\ job[w].pc = "save" => c \notin Known /\ c \in Existing(nodeTip)
  /\ job[w].pc \in {"detail", "owner"} => c \in Known
  /\ job[w].listed \subseteq Contract
  /\ job[w].pc = "write" => \A x \in DOMAIN job[w].answer : x[1] \in Existing(nodeTip)

\* How far a comparison is, when the node is at the block of the handler.
SyncInv(w) ==
  Target(w) = nodeTip =>
    /\ job[w].pc = "compare" => job[w].listed = Existing(nodeTip)
    /\ job[w].stage = "sync" /\ job[w].pc \in Creating =>
         Known \subseteq Existing(nodeTip) /\ Existing(nodeTip) \subseteq Known \cup ToDo(w)
    /\ job[w].pc \in {"tip", "commit"} /\ synced => Known = Existing(nodeTip)

ExactInv ==
  phase = "run" /\ block = NoBlock /\ synced /\ job["sync"].pc = "none" /\ storedTip = nodeTip =>
    Known = Existing(nodeTip)

ContractInv ==
  /\ ShapeInv /\ JobInv /\ TipInv /\ RowsInv
  /\ \A w \in Handler : CreateInv(w) /\ SyncInv(w)
  /\ ExactInv
  /\ fault # "duplicate"

-----------------------------------------------------------------------------
(* What the balances are.  While the node is ahead of the index the row of *)
(* a holder is what the node said at some block t; it is still what the    *)
(* node says, or a block above t changes it, and will have it asked for    *)
(* again.                                                                  *)

Pairs == {x \in Contract \X Holder : Standard[x[1]] = "qrc20"}
Owners == UNION {{<<y.contract, y.owner>> : y \in ToSet(Creations[b])} : b \in Block}

Shown(x) == IF x \in DOMAIN db.balances THEN db.balances[x] ELSE 0

\* A block above a, up to b, changes it.
LogChanges(a, b) == BalanceChanges(LogsOf(Above(a, b)))
Pending(a, b, x) ==
  x \in LogChanges(a, b) \/ (x \in Owners /\ x[1] \in Existing(b) \ Existing(a))

\* The last block whose logs have been asked about.
Done ==
  IF block # NoBlock /\ job["block"].stage # "creations"
     /\ ~(job["block"].stage = "receipts" /\ job["block"].pc \in {"read", "write"})
  THEN block ELSE storedTip

\* After the logs of the removed blocks have been asked about.
Asked == phase = "undo" /\ job["block"].pc \in {"tokens", "forget"}

\* The balance is the node's, or nobody has it as its contract is not there.
Right(x) ==
  \/ Shown(x) = Balance(nodeTip, x)
  \/ x \in Owners /\ x[1] \notin Existing(nodeTip)

Lost(x) == <<"balance", x>> \in lost

BalanceInv ==
  \A a \in Block : OnBranch(a, Done) /\ OnBranch(a, nodeTip) =>
    \A x \in Pairs :
      \/ Lost(x) \/ Right(x) \/ Pending(a, nodeTip, x)
      \/ ~Asked /\ x \in LogChanges(a, logged)

\* The owners of the contracts that the block has created are asked for.
OwnerInv ==
  LET j == job["block"] IN
  /\ j.stage = "creations" => ToSet(j.todo) \subseteq ToSet(Creations[block])
  /\ block # NoBlock /\ Done = storedTip =>
       \A x \in Pairs \cap Owners : x[1] \in Existing(block) \ Existing(storedTip) =>
         \/ Lost(x) \/ Right(x) \/ Pending(block, nodeTip, x)
         \/ x \in BalanceChanges(ToSet(Logs[block]))
         \/ j.stage = "creations" /\ \E n \in DOMAIN j.todo : x = <<j.todo[n].contract, j.todo[n].owner>>

\* A block the node had not long ago: no lower than that of the handler.
Recent(t, w) ==
  t \in Block /\ OnBranch(t, nodeTip)
  /\ Depth[IF w = "block" /\ block # NoBlock THEN block ELSE storedTip] <= Depth[t]

\* What the node says at block t of the balances it is asked for.
Told(t, asked) == [x \in {y \in asked : Answers(t, y[1])} |-> Balance(t, x)]

AnswerInv ==
  LET j == job["block"] IN
  /\ j.pc \in {"read", "write"} =>
       /\ j.stage = "creations" => j.changes = {<<Head(j.todo).contract, Head(j.todo).owner>>}
       /\ j.stage = "receipts" => j.changes = BalanceChanges(ToSet(Logs[block]))
       /\ phase = "undo" => j.changes = LogChanges(storedTip, logged)
  /\ j.pc = "write" =>
       \E t \in Block :
         /\ Recent(t, "block")
         /\ j.answer = Told(t, j.changes)
         /\ j.stage = "reorg" => \A x \in j.changes \ DOMAIN j.answer : Lost(x)

ComparedInv ==
  \A w \in Handler : job[w].pc = "compare" =>
    \E t \in Block : Recent(t, w) /\ job[w].listed = Existing(t)

KindInv == \A c \in Known \ Dgp : db.contracts[c] = Standard[c]

BalancesInv ==
  /\ BalanceInv /\ OwnerInv /\ AnswerInv /\ ComparedInv /\ KindInv
  /\ OnBranch(storedTip, logged)
  /\ phase = "start" => logged = storedTip

-----------------------------------------------------------------------------
(* What the supplies are, in the same way.                                 *)

LostSupply(c) == <<"supply", c>> \in lost
TokenKind(c) == db.contracts[c] \in {"qrc20", "qrc721"}
OwnersOf(c) == {x[2] : x \in {y \in Owners : y[1] = c}}

\* The supply, if the contract is there.
Total(b, c) ==
  Cardinality(OwnersOf(c))
  + Number(b, LAMBDA l : l.contract = c /\ l.from = Nobody)
  - Number(b, LAMBDA l : l.contract = c /\ l.to = Nobody)

\* A block above a, up to b, mints or burns.
Minting(a, b) == SupplyChanges(LogsOf(Above(a, b)))

\* Nothing that the chain has above a, or that is still to be undone, changes it.
Supplied(a, c) ==
  \/ LostSupply(c)
  \/ db.supplies[c] = Total(nodeTip, c)
  \/ c \in Minting(a, nodeTip)

\* The last block whose supplies have been asked for.
SupplyDone ==
  IF block # NoBlock /\ job["block"].stage \in {"sync", "none"} THEN block ELSE storedTip

SupplyInv ==
  \A a \in Block : OnBranch(a, SupplyDone) /\ OnBranch(a, nodeTip) =>
    \A c \in DOMAIN db.supplies : Supplied(a, c) \/ c \in Minting(a, logged)

\* The contracts whose supplies are still to be asked for.
ToSupplyInv ==
  LET j == job["block"] IN
  j.pc \in {"supply", "supplied"} =>
    /\ j.todo \in Seq(Items)
    /\ ToDo("block") \subseteq SupplyChanges(ToSet(Logs[block]))
    /\ j.pc = "supplied" => j.todo # <<>> /\ TokenKind(Head(j.todo).contract)
    /\ \A c \in DOMAIN db.supplies \cap SupplyChanges(ToSet(Logs[block])) :
         c \in ToDo("block") \/ Supplied(block, c)

\* What the node said of the contract that is created or asked for.
ToldInv ==
  \A w \in Handler : job[w].pc \in {"save", "detail", "supplied"} =>
    LET c == Head(job[w].todo).contract IN
    /\ \E t \in Block : Recent(t, w) /\ c \in Existing(t) /\ job[w].answer = Supply(t, c)
    /\ job[w].pc = "detail" => db.contracts[c] = Standard[c] /\ c \notin Dgp

\* A token contract has a supply, and nothing else has.
RowInv ==
  /\ Dgp \cup DOMAIN db.supplies \subseteq Known
  /\ \A c \in DOMAIN db.supplies : TokenKind(c)
  /\ \A c \in Known : TokenKind(c) =>
       \/ c \in DOMAIN db.supplies \/ LostSupply(c)
       \/ \E w \in Handler : job[w].pc = "detail" /\ Head(job[w].todo).contract = c

SuppliesInv == SupplyInv /\ ToSupplyInv /\ ToldInv /\ RowInv
=============================================================================
