------------------------- MODULE ContractIndex_proofs -------------------------
(***************************************************************************)
(* ContractsCurrent, BalancesCurrent and SuppliesCurrent of ContractIndex, *)
(* for every block tree and whatever the blocks create and log, if the     *)
(* node only changes branch when the index has caught up and no block      *)
(* comes during onSynced().  The invariants are those of                   *)
(* ContractInvariant.                                                      *)
(***************************************************************************)
EXTENDS ContractInvariant, BlockTree_proofs, FiniteSetTheorems, SequenceTheorems

Calm == CalmSync /\ Steady

-----------------------------------------------------------------------------
(* The sequences of contracts to go through.                               *)

\* SetToSeq lists every element of a finite set.
LEMMA Listing ==
  ASSUME NEW S, IsFiniteSet(S)
  PROVE  /\ SetToSeq(S) \in Seq(S)
         /\ {SetToSeq(S)[n] : n \in DOMAIN SetToSeq(S)} = S
<1>1. Cardinality(S) \in Nat /\ ExistsBijection(1 .. Cardinality(S), S)
  BY FS_CardinalityType
<1>2. PICK f \in Bijection(1 .. Cardinality(S), S) : TRUE
  BY <1>1 DEF ExistsBijection
<1>3. f \in [1 .. Cardinality(S) -> S] /\ IsInjective(f)
  BY <1>2 DEF Bijection, Injection, IsInjective
<1>4. SetToSeq(S) \in [1 .. Cardinality(S) -> S] /\ IsInjective(SetToSeq(S))
  BY <1>3 DEF SetToSeq
<1> DEFINE s == SetToSeq(S)
<1>5. s \in Injection(1 .. Cardinality(S), S)
  BY <1>4 DEF Injection, IsInjective
<1>6. IsFiniteSet(1 .. Cardinality(S)) /\ Cardinality(1 .. Cardinality(S)) = Cardinality(S)
  BY <1>1, FS_Interval
<1>7. s \in Surjection(1 .. Cardinality(S), S)
  BY <1>5, <1>6, FS_Injection
<1>8. \A x \in S : \E n \in 1 .. Cardinality(S) : s[n] = x
  BY <1>7 DEF Surjection
<1>9. s \in Seq(S)
  BY <1>1, <1>4
<1>10. DOMAIN s = 1 .. Cardinality(S) /\ \A n \in DOMAIN s : s[n] \in S
  BY <1>4
<1> HIDE DEF s
<1>11. {s[n] : n \in DOMAIN s} = S
  BY <1>8, <1>10
<1> QED
  BY <1>9, <1>11 DEF s

\* The contracts of a sequence are that of its head and those of its tail.
LEMMA HeadAndTail ==
  ASSUME NEW s \in Seq(Items), s # <<>>
  PROVE  /\ Head(s).contract \in Contract /\ Tail(s) \in Seq(Items)
         /\ {s[n].contract : n \in DOMAIN s}
            = {Head(s).contract} \cup {Tail(s)[n].contract : n \in DOMAIN Tail(s)}
<1>1. /\ Len(s) \in Nat /\ Len(s) > 0 /\ DOMAIN s = 1 .. Len(s) /\ Head(s) = s[1]
      /\ s[1] \in Items
  BY EmptySeq
<1>2. /\ Tail(s) \in Seq(Items) /\ Len(Tail(s)) = Len(s) - 1
      /\ \A n \in 1 .. Len(Tail(s)) : Tail(s)[n] = s[n+1]
  BY HeadTailProperties
<1>3. DOMAIN Tail(s) = 1 .. Len(s) - 1
  BY <1>2
<1>4. Head(s).contract \in Contract
  BY <1>1 DEF Items
<1> DEFINE t == Tail(s)
           of(q) == {q[n].contract : n \in DOMAIN q}
<1>5. DOMAIN t = 1 .. Len(s) - 1 /\ \A n \in DOMAIN t : t[n] = s[n+1]
  BY <1>2, <1>3
<1> HIDE DEF t
<1>6. of(s) = {s[1].contract} \cup of(t)
  <2>1. \A n \in 1 .. Len(s) : n = 1 \/ (n - 1 \in 1 .. Len(s) - 1 /\ (n - 1) + 1 = n)
    BY <1>1
  <2>2. \A n \in 1 .. Len(s) - 1 : n + 1 \in 1 .. Len(s)
    BY <1>1
  <2>3. 1 \in 1 .. Len(s)
    BY <1>1
  <2>4. \A n \in DOMAIN s : s[n] = s[1] \/ \E m \in DOMAIN t : t[m] = s[n]
    BY <1>1, <1>5, <2>1
  <2>5. \A m \in DOMAIN t : \E n \in DOMAIN s : t[m] = s[n]
    BY <1>1, <1>5, <2>2
  <2>6. 1 \in DOMAIN s
    BY <1>1, <2>3
  <2>7. ASSUME NEW c \in of(s) PROVE c \in {s[1].contract} \cup of(t)
    BY <2>4
  <2>8. ASSUME NEW c \in {s[1].contract} \cup of(t) PROVE c \in of(s)
    BY <2>5, <2>6
  <2> QED
    BY <2>7, <2>8
<1> QED
  BY <1>1, <1>2, <1>4, <1>6 DEF t

-----------------------------------------------------------------------------
(* What the node has.                                                      *)

\* A chain has the contracts of the chains below it.
LEMMA ExistingGrows ==
  ASSUME NEW a \in Block, NEW b \in Block, OnBranch(a, b)
  PROVE  Existing(a) \subseteq Existing(b)
<1>1. Depth[a] \in 0 .. Depth[b] /\ Branch[b][Depth[a]] = a
  BY DepthNat DEF OnBranch
<1>2. ASSUME NEW d \in 0 .. Depth[a]
      PROVE  d \in 0 .. Depth[b] /\ Branch[a][d] = Branch[b][d]
  <2>1. d \in 0 .. Depth[b]
    BY <1>1, DepthNat
  <2>2. Branch[Branch[b][Depth[a]]][d] = Branch[b][d]
    BY <1>1, BranchPrefix
  <2> QED
    BY <1>1, <2>1, <2>2
<1>3. Chain(a) \subseteq Chain(b)
  BY <1>2 DEF Chain
<1> QED
  BY <1>3 DEF Existing

LEMMA ExistingContracts ==
  ASSUME NEW b \in Block
  PROVE  Existing(b) \subseteq Contract
<1>1. ASSUME NEW c \in Block
      PROVE  CreatedIn(c) \subseteq Contract
  <2>1. Creations[c] \in Seq([contract : Contract, owner : Holder]) /\ Inner[c] \subseteq Contract
    BY ContractAssumption
  <2>2. \A n \in DOMAIN Creations[c] : Creations[c][n] \in [contract : Contract, owner : Holder]
    BY <2>1, LenProperties
  <2>3. \A x \in ToSet(Creations[c]) : x.contract \in Contract
    BY <2>2 DEF ToSet
  <2> QED
    BY <2>1, <2>3 DEF CreatedIn
<1>2. Chain(b) \subseteq Block
  BY BranchBlock DEF Chain
<1> QED
  BY <1>1, <1>2, ContractAssumption DEF Existing

\* The contracts of the logs of a chain are its own.
LEMMA LoggedContracts ==
  ASSUME NEW b \in Block
  PROVE  \A x \in TokensOf(LogsOf(Chain(b))) : x[1] \in Existing(b)
<1> SUFFICES ASSUME NEW c \in Chain(b), NEW l \in ToSet(Logs[c])
             PROVE  l.contract \in Existing(b)
  BY DEF TokensOf, LogsOf
<1>1. PICK d \in 0 .. Depth[b] : c = Branch[b][d]
  BY DEF Chain
<1>2. c \in Block /\ Depth[c] = d
  BY <1>1, BranchBlock
<1>3. OnBranch(c, b)
  BY <1>1, <1>2, DepthNat DEF OnBranch
<1>4. l.contract \in Existing(c)
  BY <1>2, LogAssumption
<1> QED
  BY <1>2, <1>3, <1>4, ExistingGrows

\* So are those of the tokens that a block moves, or a reorganization restores.
LEMMA MovedContracts ==
  ASSUME NEW b \in Block
  PROVE  \A x \in DOMAIN TokenHolders(b) : x[1] \in Existing(b)
<1>1. \A n \in Moves(b) : Logs[b][n] \in ToSet(Logs[b])
  BY DEF Moves, ToSet
<1>2. \A n \in Moves(b) : Logs[b][n].contract \in Existing(b)
  BY <1>1, LogAssumption
<1>3. DOMAIN TokenHolders(b) = TokensOf({Logs[b][n] : n \in Moves(b)})
  BY DEF TokenHolders
<1> QED
  BY <1>2, <1>3 DEF TokensOf

LEMMA RestoredContracts ==
  ASSUME logged \in Block, NEW a
  PROVE  \A x \in DOMAIN Restored(a) : x[1] \in Existing(logged)
<1>1. DOMAIN Restored(a) \subseteq TokensOf(LogsOf(Chain(logged)))
  BY DEF Restored
<1> QED
  BY <1>1, LoggedContracts

-----------------------------------------------------------------------------
(* The steps of a handler.                                                 *)

\* The other handler rests, and it is known at what this one is.
LEMMA OneHandler ==
  ASSUME ShapeInv, JobInv, NEW w \in Handler, phase # "down", job[w].pc # "none"
  PROVE  /\ \A v \in Handler : v # w => job[v] = NoJob
         /\ phase # "run" => w = "block" /\ block = NoBlock /\ ReorgJob(job[w])
         /\ phase = "run" /\ w = "block" => block # NoBlock /\ BlockJob(job[w])
         /\ w = "sync" => phase = "run" /\ block = NoBlock /\ synced /\ SyncJob(job[w])
<1>1. NoJob.pc = "none"
  BY DEF NoJob
<1>2. \A j : ReorgJob(j) \/ BlockJob(j) \/ SyncJob(j) => j.pc # "none"
  BY DEF ReorgJob, BlockJob, SyncJob, Creating
<1>3. w = "block" \/ w = "sync"
  BY DEF Handler
<1>4. phase \in {"start", "undo", "run"}
  BY DEF ShapeInv
<1>5. CASE w = "sync"
  BY <1>1, <1>4, <1>5 DEF JobInv, Handler, BlockJob
<1>6. CASE w = "block"
  BY <1>1, <1>2, <1>4, <1>6 DEF JobInv, Handler
<1> QED
  BY <1>3, <1>5, <1>6

\* What is left to show of a step that keeps the tips and the process.
LEMMA JobStep ==
  ASSUME ContractInv, NEW w \in Handler, phase # "down", job[w].pc # "none",
         UNCHANGED <<nodeTip, storedTip, logged, phase, fault, synced, block>>,
         contractTip' \in Block,
         DOMAIN db' = DOMAIN db,
         DOMAIN job' = Handler, DOMAIN job'[w] = DOMAIN NoJob,
         \A v \in Handler : v # w => job'[v] = job[v],
         phase # "run" => ReorgJob(job'[w]),
         phase = "run" /\ w = "block" => BlockJob(job'[w]),
         phase = "run" /\ w = "sync" => job'[w] = NoJob \/ SyncJob(job'[w]),
         RowsInv', CreateInv(w)', SyncInv(w)',
         w = "sync" /\ job'[w] = NoJob => ExactInv'
  PROVE  ContractInv'
<1>1. /\ \A v \in Handler : v # w => job[v] = NoJob
      /\ phase # "run" => w = "block" /\ block = NoBlock
      /\ phase = "run" /\ w = "block" => block # NoBlock
      /\ w = "sync" => phase = "run" /\ block = NoBlock /\ synced
  BY OneHandler DEF ContractInv
<1>2. NoJob.pc = "none" /\ NoJob.stage = "none" /\ NoJob.listed = {}
  BY DEF NoJob
<1>3. \A v \in Handler : v # w => job'[v] = NoJob
  BY <1>1
<1>4. ShapeInv'
  BY <1>3 DEF ShapeInv, ContractInv
<1>5. JobInv'
  <2>1. (phase = "down" => job = [v \in Handler |-> NoJob])'
    OBVIOUS
  <2>2. (phase \in {"down", "start"} => ~synced)'
    BY DEF ContractInv, JobInv
  <2>3. (phase # "run" => block = NoBlock /\ job["sync"].pc = "none")'
    BY <1>1, <1>2, <1>3 DEF Handler
  <2>4. (phase \in {"start", "undo"} => ReorgJob(job["block"]))'
    BY <1>1 DEF ReorgJob
  <2>5. (phase = "run" =>
           IF block = NoBlock THEN job["block"] = NoJob
           ELSE BlockJob(job["block"]) /\ job["sync"].pc = "none")'
    <3>1. CASE w = "block"
      BY <1>1, <1>2, <1>3, <3>1 DEF Handler, BlockJob
    <3>2. CASE w = "sync"
      BY <1>1, <1>3, <3>2 DEF Handler
    <3> QED
      BY <3>1, <3>2 DEF Handler
  <2>6. (job["sync"] = NoJob \/ (synced /\ SyncJob(job["sync"])))'
    <3>1. CASE w = "block"
      <4>1. job'["sync"] = NoJob
        BY <1>3, <3>1 DEF Handler
      <4> QED
        BY <4>1
    <3>2. CASE w = "sync"
      <4>1. phase = "run" /\ synced' = synced /\ synced = TRUE
        BY <1>1, <3>2 DEF ContractInv, ShapeInv
      <4>2. job'["sync"] = NoJob \/ SyncJob(job'["sync"])
        BY <3>2, <4>1
      <4> QED
        BY <4>1, <4>2 DEF SyncJob
    <3> QED
      BY <3>1, <3>2 DEF Handler
  <2> QED
    BY <2>1, <2>2, <2>3, <2>4, <2>5, <2>6 DEF JobInv
<1>6. TipInv'
  <2>1. (job["sync"].pc # "none" => OnBranch(storedTip, nodeTip))'
    <3>1. CASE w = "block"
      BY <1>2, <1>3, <3>1 DEF Handler
    <3>2. CASE w = "sync"
      BY <3>2 DEF ContractInv, TipInv, OnBranch
    <3> QED
      BY <3>1, <3>2 DEF Handler
  <2> QED
    BY <2>1 DEF ContractInv, TipInv, OnBranch
<1>7. \A v \in Handler : CreateInv(v)' /\ SyncInv(v)'
  <2> SUFFICES ASSUME NEW v \in Handler, v # w
               PROVE  CreateInv(v)' /\ SyncInv(v)'
    OBVIOUS
  <2>1. job'[v] = NoJob
    BY <1>3
  <2> QED
    BY <1>2, <2>1 DEF CreateInv, SyncInv, Creating
<1>8. ExactInv'
  <2>1. CASE w = "sync" /\ job'[w] = NoJob
    BY <2>1
  <2>2. CASE w = "sync" /\ SyncJob(job'[w])
    <3>1. job'["sync"].pc # "none"
      BY <2>2 DEF SyncJob, Creating
    <3> QED
      BY <3>1 DEF ExactInv
  <2>3. CASE w = "block"
    BY <1>1, <2>3 DEF ExactInv
  <2> QED
    BY <1>1, <2>1, <2>2, <2>3 DEF Handler
<1>9. (fault # "duplicate")'
  BY DEF ContractInv
<1> QED
  BY <1>4, <1>5, <1>6, <1>7, <1>8, <1>9 DEF ContractInv

-----------------------------------------------------------------------------
(* _createContract.                                                        *)

LEMMA CreatingStage ==
  ASSUME ShapeInv, JobInv, NEW w \in Handler, phase # "down", job[w].pc \in Creating
  PROVE  /\ phase = "run"
         /\ job[w].stage = "sync" \/ (w = "block" /\ job[w].stage = "creations")
         /\ job[w].stage = "sync" => synced
<1>1. job[w].pc # "none"
  BY DEF Creating
<1>2. w = "block" \/ w = "sync"
  BY DEF Handler
<1>3. ~ReorgJob(job[w])
  BY DEF ReorgJob, Creating
<1> QED
  BY <1>1, <1>2, <1>3, OneHandler DEF BlockJob, SyncJob, Creating

\* A step from one of its places to another.
LEMMA CreateStep ==
  ASSUME ContractInv, NEW w \in Handler, phase # "down", job[w].pc \in Creating,
         UNCHANGED <<nodeTip, storedTip, logged, contractTip, phase, fault, synced, block>>,
         DOMAIN db' = DOMAIN db,
         DOMAIN job' = Handler, DOMAIN job'[w] = DOMAIN NoJob,
         \A v \in Handler : v # w => job'[v] = job[v],
         job'[w].pc \in Creating, job'[w].stage = job[w].stage,
         RowsInv', CreateInv(w)', SyncInv(w)'
  PROVE  ContractInv'
<1>1. /\ phase = "run"
      /\ job[w].stage = "sync" \/ (w = "block" /\ job[w].stage = "creations")
      /\ job[w].stage = "sync" => synced
  BY CreatingStage DEF ContractInv
<1>2. job[w].pc # "none" /\ job'[w].pc # "none"
  BY DEF Creating
<1>3. w = "sync" => job'[w] # NoJob /\ SyncJob(job'[w])
  <2>1. w = "sync" => job'[w].stage = "sync"
    BY <1>1
  <2> QED
    BY <1>2, <2>1 DEF SyncJob, NoJob
<1>4. BlockJob(job'[w])
  BY <1>1 DEF BlockJob
<1>5. contractTip' \in Block
  BY DEF ContractInv, ShapeInv
<1> QED
  BY <1>1, <1>2, <1>3, <1>4, <1>5, JobStep

\* The tables and the node stay as they are.
LEMMA SameRows ==
  ASSUME RowsInv, UNCHANGED <<nodeTip, storedTip, logged, phase, db>>
  PROVE  RowsInv'
  BY DEF RowsInv, Rows, Known, OnBranch, Existing, Chain

LEMMA FindStep ==
  ASSUME ContractInv, NEW w \in Handler, Find(w)
  PROVE  ContractInv'
<1> DEFINE c == Head(job[w].todo).contract
<1>1. /\ phase # "down" /\ job[w].pc = "find" /\ job[w].todo # <<>>
      /\ UNCHANGED <<nodeTip, storedTip, logged, contractTip, phase, fault, synced, block, db>>
  BY DEF Find, At, Reads, node, tips, process
<1>2. DOMAIN job = Handler /\ DOMAIN job[w] = DOMAIN NoJob
  BY DEF ContractInv, ShapeInv
<1>3. job[w].todo \in Seq(Items)
  BY <1>1 DEF ContractInv, CreateInv, Creating
<1>4. RowsInv'
  BY <1>1, SameRows DEF ContractInv
<1>5. Known' = Known /\ Existing(nodeTip)' = Existing(nodeTip) /\ Target(w)' = Target(w)
  BY <1>1 DEF Known, Existing, Chain, Target
<1>6. CreateInv(w) /\ SyncInv(w)
  BY DEF ContractInv
<1>7. CASE c \in Known /\ Goes(w, "owner")
  <2>1. /\ DOMAIN job' = Handler /\ DOMAIN job'[w] = DOMAIN NoJob
        /\ \A v \in Handler : v # w => job'[v] = job[v]
        /\ job'[w].pc = "owner" /\ job'[w].stage = job[w].stage /\ job'[w].todo = job[w].todo
        /\ job'[w].listed = job[w].listed
    BY <1>2, <1>7 DEF Goes, NoJob
  <2>2. CreateInv(w)'
    BY <1>1, <1>3, <1>5, <1>6, <1>7, <2>1 DEF CreateInv
  <2>3. SyncInv(w)'
    <3>1. ToDo(w)' = ToDo(w)
      BY <2>1 DEF ToDo
    <3> QED
      BY <1>1, <1>5, <1>6, <2>1, <3>1 DEF SyncInv, Creating
  <2> QED
    BY <1>1, <1>4, <2>1, <2>2, <2>3, CreateStep DEF Creating
<1>8. CASE c \notin Known /\ c \notin Existing(nodeTip) /\ job' = [job EXCEPT ![w].todo = Tail(@)]
  <2>1. /\ DOMAIN job' = Handler /\ DOMAIN job'[w] = DOMAIN NoJob
        /\ \A v \in Handler : v # w => job'[v] = job[v]
        /\ job'[w].pc = "find" /\ job'[w].stage = job[w].stage /\ job'[w].todo = Tail(job[w].todo)
        /\ job'[w].listed = job[w].listed
    BY <1>1, <1>2, <1>8 DEF NoJob
  <2>2. CreateInv(w)'
    <3>1. Tail(job[w].todo) \in Seq(Items)
      BY <1>1, <1>3, HeadAndTail
    <3> QED
      BY <1>5, <1>6, <2>1, <3>1 DEF CreateInv
  <2>3. SyncInv(w)'
    <3>1. ToDo(w) = {c} \cup ToDo(w)'
      <4>1. ToDo(w)' = {Tail(job[w].todo)[n].contract : n \in DOMAIN Tail(job[w].todo)}
        BY <2>1 DEF ToDo
      <4>2. ToDo(w) = {job[w].todo[n].contract : n \in DOMAIN job[w].todo}
        BY DEF ToDo
      <4> QED
        BY <1>1, <1>3, <4>1, <4>2, HeadAndTail
    <3> QED
      BY <1>1, <1>5, <1>6, <1>8, <2>1, <3>1 DEF SyncInv, Creating
  <2> QED
    BY <1>1, <1>4, <2>1, <2>2, <2>3, CreateStep DEF Creating
<1>9. CASE /\ c \notin Known /\ c \in Existing(nodeTip)
           /\ job' = [job EXCEPT ![w].pc = "save", ![w].answer = Supply(nodeTip, c)]
  <2>1. /\ DOMAIN job' = Handler /\ DOMAIN job'[w] = DOMAIN NoJob
        /\ \A v \in Handler : v # w => job'[v] = job[v]
        /\ job'[w].pc = "save" /\ job'[w].stage = job[w].stage /\ job'[w].todo = job[w].todo
        /\ job'[w].listed = job[w].listed
    BY <1>2, <1>9 DEF NoJob
  <2>2. CreateInv(w)'
    BY <1>1, <1>3, <1>5, <1>6, <1>9, <2>1 DEF CreateInv
  <2>3. SyncInv(w)'
    <3>1. ToDo(w)' = ToDo(w)
      BY <2>1 DEF ToDo
    <3> QED
      BY <1>1, <1>5, <1>6, <2>1, <3>1 DEF SyncInv, Creating
  <2> QED
    BY <1>1, <1>4, <2>1, <2>2, <2>3, CreateStep DEF Creating
<1> QED
  BY <1>7, <1>8, <1>9 DEF Find, Known

LEMMA SaveStep ==
  ASSUME ContractInv, NEW w \in Handler, SaveContract(w)
  PROVE  ContractInv'
<1> DEFINE c == Head(job[w].todo).contract
<1>1. phase # "down" /\ job[w].pc = "save"
  BY DEF SaveContract, At
<1>2. /\ DOMAIN job = Handler /\ DOMAIN job[w] = DOMAIN NoJob
      /\ DOMAIN db = {"contracts", "supplies", "balances", "holders"}
  BY DEF ContractInv, ShapeInv
<1>3. CreateInv(w) /\ SyncInv(w) /\ RowsInv
  BY DEF ContractInv
<1>4. job[w].todo \in Seq(Items) /\ job[w].todo # <<>> /\ c \notin Known /\ c \in Existing(nodeTip)
  BY <1>1, <1>3 DEF CreateInv, Creating
<1>5. /\ db' = [db EXCEPT !.contracts = Written([x \in {c} |-> Standard[c]], @)]
      /\ Goes(w, "detail")
      /\ UNCHANGED <<nodeTip, storedTip, logged, contractTip, phase, fault, synced, block>>
  BY <1>4 DEF SaveContract, Known, Writes, node, tips, process
<1>6. /\ DOMAIN db' = DOMAIN db /\ Known' = Known \cup {c} /\ Rows' = Rows
      /\ Existing(nodeTip)' = Existing(nodeTip) /\ Target(w)' = Target(w)
  <2>1. /\ DOMAIN db' = DOMAIN db
        /\ db'.contracts = Written([x \in {c} |-> Standard[c]], db.contracts)
        /\ db'.supplies = db.supplies /\ db'.balances = db.balances /\ db'.holders = db.holders
    BY <1>2, <1>5
  <2>2. DOMAIN Written([x \in {c} |-> Standard[c]], db.contracts) = DOMAIN db.contracts \cup {c}
    BY DEF Written
  <2> QED
    BY <1>5, <2>1, <2>2 DEF Known, Rows, Existing, Chain, Target
<1>7. /\ DOMAIN job' = Handler /\ DOMAIN job'[w] = DOMAIN NoJob
      /\ \A v \in Handler : v # w => job'[v] = job[v]
      /\ job'[w].pc = "detail" /\ job'[w].stage = job[w].stage /\ job'[w].todo = job[w].todo
      /\ job'[w].listed = job[w].listed
  BY <1>2, <1>5 DEF Goes, NoJob
<1>8. RowsInv'
  BY <1>3, <1>5, <1>6 DEF RowsInv, OnBranch, Existing, Chain
<1>9. CreateInv(w)'
  BY <1>3, <1>4, <1>6, <1>7 DEF CreateInv
<1>10. SyncInv(w)'
  <2>1. ToDo(w)' = ToDo(w)
    BY <1>7 DEF ToDo
  <2> QED
    BY <1>1, <1>3, <1>4, <1>5, <1>6, <1>7, <2>1 DEF SyncInv, Creating
<1> QED
  BY <1>1, <1>5, <1>6, <1>7, <1>8, <1>9, <1>10, CreateStep DEF Creating

LEMMA DetailStep ==
  ASSUME ContractInv, NEW w \in Handler, CreateDetails(w)
  PROVE  ContractInv'
<1> DEFINE c == Head(job[w].todo).contract
<1>1. /\ phase # "down" /\ job[w].pc = "detail" /\ Goes(w, "owner")
      /\ db' = IF Standard[c] = "none" THEN db
               ELSE [db EXCEPT !.supplies = Written([x \in {c} |-> job[w].answer], @)]
      /\ UNCHANGED <<nodeTip, storedTip, logged, contractTip, phase, fault, synced, block>>
  BY DEF CreateDetails, At, Writes, node, tips, process
<1>2. /\ DOMAIN job = Handler /\ DOMAIN job[w] = DOMAIN NoJob
      /\ DOMAIN db = {"contracts", "supplies", "balances", "holders"}
  BY DEF ContractInv, ShapeInv
<1>3. CreateInv(w) /\ SyncInv(w) /\ RowsInv
  BY DEF ContractInv
<1>4. job[w].todo \in Seq(Items) /\ job[w].todo # <<>> /\ c \in Known
  BY <1>1, <1>3 DEF CreateInv, Creating
<1>5. /\ DOMAIN db' = DOMAIN db /\ Known' = Known /\ Rows' \subseteq Rows \cup {c}
      /\ Existing(nodeTip)' = Existing(nodeTip) /\ Target(w)' = Target(w)
  <2>1. CASE Standard[c] = "none"
    BY <1>1, <2>1 DEF Known, Rows, Existing, Chain, Target
  <2>2. CASE Standard[c] # "none"
    <3>1. /\ DOMAIN db' = DOMAIN db
          /\ db'.supplies = Written([x \in {c} |-> job[w].answer], db.supplies)
          /\ db'.contracts = db.contracts /\ db'.balances = db.balances /\ db'.holders = db.holders
      BY <1>1, <1>2, <2>2
    <3>2. DOMAIN (Written([x \in {c} |-> job[w].answer], db.supplies)) = DOMAIN db.supplies \cup {c}
      BY DEF Written
    <3> QED
      BY <1>1, <3>1, <3>2 DEF Known, Rows, Existing, Chain, Target
  <2> QED
    BY <2>1, <2>2
<1>6. /\ DOMAIN job' = Handler /\ DOMAIN job'[w] = DOMAIN NoJob
      /\ \A v \in Handler : v # w => job'[v] = job[v]
      /\ job'[w].pc = "owner" /\ job'[w].stage = job[w].stage /\ job'[w].todo = job[w].todo
      /\ job'[w].listed = job[w].listed
  BY <1>1, <1>2 DEF Goes, NoJob
<1>7. RowsInv'
  BY <1>1, <1>3, <1>4, <1>5 DEF RowsInv, OnBranch, Existing, Chain
<1>8. CreateInv(w)'
  BY <1>3, <1>4, <1>5, <1>6 DEF CreateInv
<1>9. SyncInv(w)'
  <2>1. ToDo(w)' = ToDo(w)
    BY <1>6 DEF ToDo
  <2> QED
    BY <1>1, <1>3, <1>5, <1>6, <2>1 DEF SyncInv, Creating
<1> QED
  BY <1>1, <1>5, <1>6, <1>7, <1>8, <1>9, CreateStep DEF Creating

LEMMA OwnerStep ==
  ASSUME ContractInv, NEW w \in Handler, AskOwner(w)
  PROVE  ContractInv'
<1> DEFINE x == Head(job[w].todo)
           c == x.contract
<1>1. /\ phase # "down" /\ job[w].pc = "owner"
      /\ UNCHANGED <<nodeTip, storedTip, logged, contractTip, phase, fault, synced, block, db>>
  BY DEF AskOwner, At, Reads, node, tips, process
<1>2. DOMAIN job = Handler /\ DOMAIN job[w] = DOMAIN NoJob
  BY DEF ContractInv, ShapeInv
<1>3. CreateInv(w) /\ SyncInv(w)
  BY DEF ContractInv
<1>4. job[w].todo \in Seq(Items) /\ job[w].todo # <<>> /\ c \in Known
  BY <1>1, <1>3 DEF CreateInv, Creating
<1>5. RowsInv'
  BY <1>1, SameRows DEF ContractInv
<1>6. Known' = Known /\ Existing(nodeTip)' = Existing(nodeTip) /\ Target(w)' = Target(w)
  BY <1>1 DEF Known, Existing, Chain, Target
<1>7. CASE /\ job[w].stage = "creations"
           /\ job' = [job EXCEPT ![w].pc = "read", ![w].changes = {<<x.contract, x.owner>>}]
  <2>1. /\ DOMAIN job' = Handler /\ DOMAIN job'[w] = DOMAIN NoJob
        /\ \A v \in Handler : v # w => job'[v] = job[v]
        /\ job'[w].pc = "read" /\ job'[w].stage = "creations" /\ job'[w].todo = job[w].todo
        /\ job'[w].listed = job[w].listed
    BY <1>2, <1>7 DEF NoJob
  <2>2. phase = "run" /\ w = "block"
    BY <1>1, <1>7, CreatingStage DEF Creating, ContractInv
  <2>3. CreateInv(w)'
    BY <1>3, <1>4, <2>1 DEF CreateInv, Creating
  <2>4. SyncInv(w)'
    BY <2>1 DEF SyncInv, Creating
  <2>5. BlockJob(job'[w])
    BY <2>1 DEF BlockJob
  <2>6. contractTip' \in Block
    BY <1>1 DEF ContractInv, ShapeInv
  <2> QED
    BY <1>1, <1>5, <2>1, <2>2, <2>3, <2>4, <2>5, <2>6, JobStep
<1>8. CASE job' = [job EXCEPT ![w].pc = "find", ![w].todo = Tail(@)]
  <2>1. /\ DOMAIN job' = Handler /\ DOMAIN job'[w] = DOMAIN NoJob
        /\ \A v \in Handler : v # w => job'[v] = job[v]
        /\ job'[w].pc = "find" /\ job'[w].stage = job[w].stage /\ job'[w].todo = Tail(job[w].todo)
        /\ job'[w].listed = job[w].listed
    BY <1>2, <1>8 DEF NoJob
  <2>2. CreateInv(w)'
    <3>1. Tail(job[w].todo) \in Seq(Items)
      BY <1>4, HeadAndTail
    <3> QED
      BY <1>3, <2>1, <3>1 DEF CreateInv
  <2>3. SyncInv(w)'
    <3>1. ToDo(w) = {c} \cup ToDo(w)'
      <4>1. ToDo(w)' = {Tail(job[w].todo)[n].contract : n \in DOMAIN Tail(job[w].todo)}
        BY <2>1 DEF ToDo
      <4>2. ToDo(w) = {job[w].todo[n].contract : n \in DOMAIN job[w].todo}
        BY DEF ToDo
      <4> QED
        BY <1>4, <4>1, <4>2, HeadAndTail
    <3> QED
      BY <1>1, <1>3, <1>4, <1>6, <2>1, <3>1 DEF SyncInv, Creating
  <2> QED
    BY <1>1, <1>5, <2>1, <2>2, <2>3, CreateStep DEF Creating
<1> QED
  BY <1>7, <1>8 DEF AskOwner

-----------------------------------------------------------------------------
(* The balances, the holders and the supplies.                             *)

LEMMA ReceiptsStep ==
  ASSUME ContractInv, BeginReceipts
  PROVE  ContractInv'
<1> DEFINE w == "block"
<1>1. /\ phase # "down" /\ job[w].pc = "find" /\ job[w].stage = "creations"
      /\ UNCHANGED <<nodeTip, storedTip, logged, contractTip, phase, fault, synced, block, db>>
  BY DEF BeginReceipts, At, Reads, node, tips, process
<1>2. w \in Handler /\ DOMAIN job = Handler /\ DOMAIN job[w] = DOMAIN NoJob
  BY DEF ContractInv, ShapeInv, Handler
<1>3. /\ DOMAIN job' = Handler /\ DOMAIN job'[w] = DOMAIN NoJob
      /\ \A v \in Handler : v # w => job'[v] = job[v]
      /\ job'[w].pc = "read" /\ job'[w].stage = "receipts" /\ job'[w].listed = job[w].listed
  BY <1>2 DEF BeginReceipts, NoJob
<1>4. phase = "run" /\ contractTip' \in Block
  BY <1>1, <1>2, CreatingStage DEF Creating, ContractInv, ShapeInv
<1>5. RowsInv'
  BY <1>1, SameRows DEF ContractInv
<1>6. CreateInv(w)
  BY <1>2 DEF ContractInv
<1>7. CreateInv(w)' /\ SyncInv(w)'
  BY <1>3, <1>6 DEF CreateInv, SyncInv, Creating
<1>8. BlockJob(job'[w])
  BY <1>3 DEF BlockJob
<1> HIDE DEF w
<1> QED
  BY <1>1, <1>2, <1>3, <1>4, <1>5, <1>7, <1>8, JobStep DEF w

LEMMA ReadStep ==
  ASSUME ContractInv, ReadBalances
  PROVE  ContractInv'
<1> DEFINE w == "block"
           answered == {x \in job[w].changes : Answers(nodeTip, x[1])}
<1>1. /\ phase # "down" /\ job[w].pc = "read"
      /\ job' = [job EXCEPT ![w].pc = "write",
                            ![w].answer = [x \in answered |-> Balance(nodeTip, x)]]
      /\ UNCHANGED <<nodeTip, storedTip, logged, contractTip, phase, fault, synced, block, db>>
  BY DEF ReadBalances, At, node, tips, process
<1>2. w \in Handler /\ DOMAIN job = Handler /\ DOMAIN job[w] = DOMAIN NoJob
  BY DEF ContractInv, ShapeInv, Handler
<1>3. /\ DOMAIN job' = Handler /\ DOMAIN job'[w] = DOMAIN NoJob
      /\ \A v \in Handler : v # w => job'[v] = job[v]
      /\ job'[w].pc = "write" /\ job'[w].stage = job[w].stage /\ job'[w].todo = job[w].todo
      /\ DOMAIN job'[w].answer = answered /\ job'[w].listed = job[w].listed
  BY <1>1, <1>2 DEF NoJob
<1>4. /\ phase # "run" => ReorgJob(job'[w])
      /\ phase = "run" => BlockJob(job'[w]) /\ job[w].stage \in {"creations", "receipts"}
  <2>1. /\ phase # "run" => ReorgJob(job[w])
        /\ phase = "run" => BlockJob(job[w])
    BY <1>1, <1>2, OneHandler DEF ContractInv
  <2> QED
    BY <1>1, <1>3, <2>1 DEF ReorgJob, BlockJob, Creating
<1>5. RowsInv' /\ contractTip' \in Block
  BY <1>1, SameRows DEF ContractInv, ShapeInv
<1>6. CreateInv(w)
  BY <1>2 DEF ContractInv
<1>7. CreateInv(w)'
  <2>1. \A x \in answered : x[1] \in Existing(nodeTip)
    BY DEF Answers
  <2>2. Existing(nodeTip)' = Existing(nodeTip)
    BY <1>1 DEF Existing, Chain
  <2> HIDE DEF answered
  <2> QED
    BY <1>1, <1>3, <1>6, <2>1, <2>2 DEF CreateInv, Creating
<1>8. SyncInv(w)'
  BY <1>3 DEF SyncInv, Creating
<1> HIDE DEF w
<1> QED
  BY <1>1, <1>2, <1>3, <1>4, <1>5, <1>7, <1>8, JobStep DEF w

LEMMA WriteStep ==
  ASSUME ContractInv, WriteBalances
  PROVE  ContractInv'
<1> DEFINE w == "block"
           j == job[w]
           j2 == CASE j.stage = "creations" -> [j EXCEPT !.pc = "find", !.todo = Tail(@)]
                   [] j.stage = "receipts" -> [j EXCEPT !.pc = "holders"]
                   [] j.stage = "reorg" -> [j EXCEPT !.pc = "tokens"]
<1>1. /\ phase # "down" /\ j.pc = "write"
      /\ db' = [db EXCEPT !.balances = Written(j.answer, @)]
      /\ job' = [job EXCEPT ![w] = j2]
      /\ UNCHANGED <<nodeTip, storedTip, logged, contractTip, phase, fault, synced, block>>
  BY DEF WriteBalances, At, Writes, node, tips, process
<1>2. /\ w \in Handler /\ DOMAIN job = Handler /\ DOMAIN j = DOMAIN NoJob
      /\ DOMAIN db = {"contracts", "supplies", "balances", "holders"}
  BY DEF ContractInv, ShapeInv, Handler
<1>3. /\ phase # "run" => ReorgJob(j)
      /\ phase = "run" => BlockJob(j)
  BY <1>1, <1>2, OneHandler DEF ContractInv
<1>4. /\ phase # "run" => j.stage = "reorg"
      /\ phase = "run" => j.stage \in {"creations", "receipts"}
  BY <1>1, <1>3 DEF ReorgJob, BlockJob, Creating
<1>5. CreateInv(w) /\ RowsInv
  BY <1>2 DEF ContractInv
<1>6. job'[w] = j2 /\ DOMAIN job' = Handler /\ \A v \in Handler : v # w => job'[v] = job[v]
  BY <1>1, <1>2
<1>7. /\ DOMAIN j2 = DOMAIN NoJob /\ j2.listed = j.listed /\ j2.stage = j.stage
      /\ j.stage = "creations" => j2.pc = "find" /\ j2.todo = Tail(j.todo)
      /\ j.stage = "receipts" => j2.pc = "holders"
      /\ j.stage = "reorg" => j2.pc = "tokens"
  BY <1>2, <1>4 DEF NoJob
<1>8. /\ DOMAIN db' = DOMAIN db /\ Known' = Known /\ Existing(nodeTip)' = Existing(nodeTip)
      /\ Rows' \subseteq Rows \cup Existing(nodeTip)
  <2>1. /\ DOMAIN db' = DOMAIN db /\ db'.balances = Written(j.answer, db.balances)
        /\ db'.supplies = db.supplies /\ db'.contracts = db.contracts /\ db'.holders = db.holders
    BY <1>1, <1>2
  <2>2. DOMAIN Written(j.answer, db.balances) = DOMAIN j.answer \cup DOMAIN db.balances
    BY DEF Written
  <2>3. \A x \in DOMAIN j.answer : x[1] \in Existing(nodeTip)
    BY <1>1, <1>5 DEF CreateInv
  <2> QED
    BY <1>1, <2>1, <2>2, <2>3 DEF Known, Rows, Existing, Chain
<1>9. RowsInv'
  BY <1>1, <1>5, <1>8 DEF RowsInv, OnBranch, Existing, Chain
<1>10. CreateInv(w)'
  <2>1. j.stage = "creations" => Tail(j.todo) \in Seq(Items)
    BY <1>1, <1>5, HeadAndTail DEF CreateInv
  <2> HIDE DEF j2
  <2> QED
    BY <1>4, <1>5, <1>6, <1>7, <2>1 DEF CreateInv, Creating
<1> HIDE DEF j2
<1>11. SyncInv(w)'
  BY <1>4, <1>6, <1>7 DEF SyncInv, Creating
<1>12. contractTip' \in Block
  BY <1>1 DEF ContractInv, ShapeInv
<1>13. (phase # "run" => ReorgJob(j2)) /\ (phase = "run" => BlockJob(j2))
  BY <1>4, <1>7 DEF ReorgJob, BlockJob, Creating
<1>14. job[w].pc # "none"
  BY <1>1
<1> HIDE DEF w
<1> QED
  BY <1>1, <1>2, <1>6, <1>7, <1>8, <1>9, <1>10, <1>11, <1>12, <1>13, <1>14, JobStep DEF w

LEMMA HoldersStep ==
  ASSUME ContractInv, WriteHolders
  PROVE  ContractInv'
<1> DEFINE w == "block"
           supplies == SetToSeq({[contract |-> c] : c \in SupplyChanges(ToSet(Logs[block]))})
<1>1. /\ phase # "down" /\ job[w].pc = "holders"
      /\ db' = [db EXCEPT !.holders = Written(TokenHolders(block), @)]
      /\ job' = [job EXCEPT ![w].pc = "supply", ![w].todo = supplies]
      /\ UNCHANGED <<nodeTip, storedTip, logged, contractTip, phase, fault, synced, block>>
  BY DEF WriteHolders, At, Writes, node, tips, process
<1>2. /\ w \in Handler /\ DOMAIN job = Handler /\ DOMAIN job[w] = DOMAIN NoJob
      /\ DOMAIN db = {"contracts", "supplies", "balances", "holders"}
  BY DEF ContractInv, ShapeInv, Handler
<1>3. phase = "run" /\ block # NoBlock /\ job[w].stage = "receipts"
  <2>1. /\ phase # "run" => ReorgJob(job[w])
        /\ phase = "run" => block # NoBlock /\ BlockJob(job[w])
    BY <1>1, <1>2, OneHandler DEF ContractInv
  <2> QED
    BY <1>1, <2>1 DEF ReorgJob, BlockJob, Creating
<1>4. /\ DOMAIN job' = Handler /\ DOMAIN job'[w] = DOMAIN NoJob
      /\ \A v \in Handler : v # w => job'[v] = job[v]
      /\ job'[w].pc = "supply" /\ job'[w].stage = "receipts" /\ job'[w].listed = job[w].listed
  BY <1>1, <1>2, <1>3 DEF NoJob
<1>5. block \in Block /\ nodeTip \in Block /\ OnBranch(block, nodeTip) /\ contractTip' \in Block
  BY <1>1, <1>3 DEF ContractInv, ShapeInv, TipInv
<1>6. \A x \in DOMAIN TokenHolders(block) : x[1] \in Existing(nodeTip)
  BY <1>5, MovedContracts, ExistingGrows
<1>7. /\ DOMAIN db' = DOMAIN db /\ Known' = Known /\ Existing(nodeTip)' = Existing(nodeTip)
      /\ Rows' \subseteq Rows \cup Existing(nodeTip)
  <2>1. /\ DOMAIN db' = DOMAIN db /\ db'.holders = Written(TokenHolders(block), db.holders)
        /\ db'.supplies = db.supplies /\ db'.contracts = db.contracts /\ db'.balances = db.balances
    BY <1>1, <1>2
  <2>2. DOMAIN Written(TokenHolders(block), db.holders) = DOMAIN TokenHolders(block) \cup DOMAIN db.holders
    BY DEF Written
  <2> QED
    BY <1>1, <1>6, <2>1, <2>2 DEF Known, Rows, Existing, Chain
<1>8. RowsInv'
  BY <1>1, <1>7 DEF ContractInv, RowsInv, OnBranch, Existing, Chain
<1>9. CreateInv(w)
  BY <1>2 DEF ContractInv
<1>10. CreateInv(w)' /\ SyncInv(w)'
  BY <1>4, <1>9 DEF CreateInv, SyncInv, Creating
<1>11. BlockJob(job'[w])
  BY <1>4 DEF BlockJob
<1> HIDE DEF w
<1> QED
  BY <1>1, <1>2, <1>3, <1>4, <1>5, <1>7, <1>8, <1>10, <1>11, JobStep DEF w

\* At the supplies a block is being written, in the stage of its receipts.
LEMMA SupplyStage ==
  ASSUME ContractInv, phase # "down", job["block"].pc \in {"supply", "supplied"}
  PROVE  /\ phase = "run" /\ block # NoBlock /\ job["block"].stage = "receipts"
         /\ contractTip \in Block
         /\ "block" \in Handler /\ DOMAIN job = Handler
         /\ DOMAIN job["block"] = DOMAIN NoJob /\ CreateInv("block")
<1>1. "block" \in Handler /\ ShapeInv /\ JobInv /\ CreateInv("block")
  BY DEF Handler, ContractInv
<1>2. /\ phase # "run" => ReorgJob(job["block"])
      /\ phase = "run" => block # NoBlock /\ BlockJob(job["block"])
  BY <1>1, OneHandler
<1> QED
  BY <1>1, <1>2 DEF ReorgJob, BlockJob, Creating, ShapeInv

LEMMA AskSupplyStep ==
  ASSUME ContractInv, AskSupply
  PROVE  ContractInv'
<1> DEFINE w == "block"
           c == Head(job[w].todo).contract
<1>1. /\ phase # "down" /\ job[w].pc = "supply"
      /\ \/ job' = [job EXCEPT ![w].pc = "supplied", ![w].answer = Supply(nodeTip, c)]
         \/ job' = [job EXCEPT ![w].todo = Tail(@)]
      /\ UNCHANGED <<nodeTip, storedTip, logged, contractTip, phase, fault, synced, block, db>>
  BY DEF AskSupply, At, Reads, node, tips, process
<1>2. /\ phase = "run" /\ block # NoBlock /\ job[w].stage = "receipts" /\ contractTip \in Block
      /\ w \in Handler /\ DOMAIN job = Handler /\ DOMAIN job[w] = DOMAIN NoJob /\ CreateInv(w)
  BY <1>1, SupplyStage
<1>3. /\ DOMAIN job' = Handler /\ DOMAIN job'[w] = DOMAIN NoJob
      /\ \A v \in Handler : v # w => job'[v] = job[v]
      /\ job'[w].pc \in {"supply", "supplied"} /\ job'[w].stage = "receipts"
      /\ job'[w].listed = job[w].listed
  BY <1>1, <1>2 DEF NoJob
<1>4. RowsInv'
  BY <1>1, SameRows DEF ContractInv
<1>5. CreateInv(w)' /\ SyncInv(w)' /\ BlockJob(job'[w])
  BY <1>2, <1>3 DEF CreateInv, SyncInv, Creating, BlockJob
<1> HIDE DEF w
<1> QED
  BY <1>1, <1>2, <1>3, <1>4, <1>5, JobStep DEF w

LEMMA WriteSupplyStep ==
  ASSUME ContractInv, WriteSupply
  PROVE  ContractInv'
<1> DEFINE w == "block"
           c == Head(job[w].todo).contract
<1>1. /\ phase # "down" /\ job[w].pc = "supplied"
      /\ db' = IF c \in DOMAIN db.supplies
               THEN [db EXCEPT !.supplies[c] = job[w].answer] ELSE db
      /\ job' = [job EXCEPT ![w].pc = "supply", ![w].todo = Tail(@)]
      /\ UNCHANGED <<nodeTip, storedTip, logged, contractTip, phase, fault, synced, block>>
  BY DEF WriteSupply, At, Writes, node, tips, process
<1>2. /\ phase = "run" /\ block # NoBlock /\ job[w].stage = "receipts" /\ contractTip \in Block
      /\ w \in Handler /\ DOMAIN job = Handler /\ DOMAIN job[w] = DOMAIN NoJob /\ CreateInv(w)
  BY <1>1, SupplyStage
<1>3. /\ DOMAIN job' = Handler /\ DOMAIN job'[w] = DOMAIN NoJob
      /\ \A v \in Handler : v # w => job'[v] = job[v]
      /\ job'[w].pc = "supply" /\ job'[w].stage = "receipts" /\ job'[w].listed = job[w].listed
  BY <1>1, <1>2 DEF NoJob
<1>4. /\ DOMAIN db' = DOMAIN db /\ Known' = Known /\ Rows' = Rows
      /\ Existing(nodeTip)' = Existing(nodeTip)
  <2>1. DOMAIN db = {"contracts", "supplies", "balances", "holders"}
    BY DEF ContractInv, ShapeInv
  <2>2. /\ DOMAIN db' = DOMAIN db /\ DOMAIN db'.supplies = DOMAIN db.supplies
        /\ db'.contracts = db.contracts /\ db'.balances = db.balances /\ db'.holders = db.holders
    BY <1>1, <2>1
  <2> QED
    BY <1>1, <2>2 DEF Known, Rows, Existing, Chain
<1>5. RowsInv'
  BY <1>1, <1>4 DEF ContractInv, RowsInv, OnBranch, Existing, Chain
<1>6. CreateInv(w)' /\ SyncInv(w)' /\ BlockJob(job'[w])
  BY <1>2, <1>3 DEF CreateInv, SyncInv, Creating, BlockJob
<1> HIDE DEF w
<1> QED
  BY <1>1, <1>2, <1>3, <1>4, <1>5, <1>6, JobStep DEF w

LEMMA EndReceiptsStep ==
  ASSUME ContractInv, EndReceipts
  PROVE  ContractInv'
<1> DEFINE w == "block"
<1>1. /\ phase # "down" /\ job[w].pc = "supply"
      /\ job' = [job EXCEPT ![w].pc = IF synced THEN "list" ELSE "tip", ![w].stage = "sync"]
      /\ UNCHANGED <<nodeTip, storedTip, logged, contractTip, phase, fault, synced, block, db>>
  BY DEF EndReceipts, At, Reads, node, tips, process
<1>2. /\ phase = "run" /\ block # NoBlock /\ job[w].stage = "receipts" /\ contractTip \in Block
      /\ w \in Handler /\ DOMAIN job = Handler /\ DOMAIN job[w] = DOMAIN NoJob /\ CreateInv(w)
  BY <1>1, SupplyStage
<1>3. /\ DOMAIN job' = Handler /\ DOMAIN job'[w] = DOMAIN NoJob
      /\ \A v \in Handler : v # w => job'[v] = job[v]
      /\ job'[w].stage = "sync" /\ job'[w].listed = job[w].listed
  BY <1>1, <1>2 DEF NoJob
<1>4. synced = TRUE \/ synced = FALSE
  BY DEF ContractInv, ShapeInv
<1>5. (synced /\ job'[w].pc = "list") \/ (~synced /\ job'[w].pc = "tip")
  BY <1>1, <1>2, <1>4 DEF NoJob
<1>6. RowsInv'
  BY <1>1, SameRows DEF ContractInv
<1>7. CreateInv(w)'
  BY <1>2, <1>3, <1>5 DEF CreateInv, Creating
<1>8. SyncInv(w)'
  BY <1>1, <1>3, <1>5 DEF SyncInv, Creating
<1>9. BlockJob(job'[w])
  BY <1>3, <1>5 DEF BlockJob
<1> HIDE DEF w
<1> QED
  BY <1>1, <1>2, <1>3, <1>6, <1>7, <1>8, <1>9, JobStep DEF w

LEMMA StoreTipStep ==
  ASSUME ContractInv, StoreTip
  PROVE  ContractInv'
<1> DEFINE w == "block"
<1>1. /\ phase # "down" /\ job[w].pc = "tip" /\ contractTip' = block
      /\ job' = [job EXCEPT ![w].pc = "commit"]
      /\ UNCHANGED <<nodeTip, storedTip, logged, phase, fault, synced, block, db>>
  BY DEF StoreTip, At, Goes, node, process
<1>2. w \in Handler /\ DOMAIN job = Handler /\ DOMAIN job[w] = DOMAIN NoJob
  BY DEF ContractInv, ShapeInv, Handler
<1>3. phase = "run" /\ block # NoBlock /\ job[w].stage \in {"none", "sync"}
  <2>1. /\ phase # "run" => ReorgJob(job[w])
        /\ phase = "run" => block # NoBlock /\ BlockJob(job[w])
    BY <1>1, <1>2, OneHandler DEF ContractInv
  <2> QED
    BY <1>1, <2>1 DEF ReorgJob, BlockJob, Creating
<1>4. block \in Block
  BY <1>3 DEF ContractInv, ShapeInv
<1>5. /\ DOMAIN job' = Handler /\ DOMAIN job'[w] = DOMAIN NoJob
      /\ \A v \in Handler : v # w => job'[v] = job[v]
      /\ job'[w].pc = "commit" /\ job'[w].stage = job[w].stage /\ job'[w].listed = job[w].listed
  BY <1>1, <1>2 DEF NoJob
<1>6. RowsInv'
  BY <1>1, SameRows DEF ContractInv
<1>7. CreateInv(w) /\ SyncInv(w)
  BY <1>2 DEF ContractInv
<1>8. CreateInv(w)'
  BY <1>3, <1>5, <1>7 DEF CreateInv, Creating
<1>9. SyncInv(w)'
  <2>1. Known' = Known /\ Existing(nodeTip)' = Existing(nodeTip) /\ Target(w)' = Target(w)
    BY <1>1 DEF Known, Existing, Chain, Target
  <2> QED
    BY <1>1, <1>3, <1>5, <1>7, <2>1 DEF SyncInv, Creating
<1>10. BlockJob(job'[w])
  BY <1>3, <1>5 DEF BlockJob
<1> HIDE DEF w
<1> QED
  BY <1>1, <1>2, <1>3, <1>4, <1>5, <1>6, <1>8, <1>9, <1>10, JobStep DEF w

-----------------------------------------------------------------------------
(* _syncContracts.                                                         *)

\* When a handler compares, the tip and the logs are of the node's branch.
LEMMA SyncStage ==
  ASSUME ContractInv, NEW w \in Handler, phase # "down", job[w].pc \in {"list", "compare"}
  PROVE  /\ phase = "run" /\ job[w].stage = "sync" /\ synced
         /\ storedTip \in Block /\ logged \in Block /\ nodeTip \in Block /\ contractTip \in Block
         /\ OnBranch(storedTip, nodeTip) /\ OnBranch(logged, nodeTip)
<1>1. ShapeInv /\ JobInv /\ TipInv
  BY DEF ContractInv
<1>2. w = "block" \/ w = "sync"
  BY DEF Handler
<1>3. /\ storedTip \in Block /\ logged \in Block /\ nodeTip \in Block /\ contractTip \in Block
      /\ block \in Block \cup {NoBlock}
  BY <1>1 DEF ShapeInv
<1>4. ~ReorgJob(job[w])
  BY DEF ReorgJob
<1>5. CASE w = "block"
  <2>1. phase = "run" /\ block # NoBlock /\ BlockJob(job[w])
    BY <1>1, <1>4, <1>5, OneHandler
  <2>2. job[w].stage = "sync" /\ synced
    BY <2>1 DEF BlockJob, Creating
  <2>3. block \in Block /\ OnBranch(block, nodeTip) /\ Parent[block] = storedTip /\ logged = block
    BY <1>1, <1>3, <2>1 DEF TipInv
  <2>4. OnBranch(storedTip, block)
    BY <1>3, <2>3, OnBranchParent
  <2>5. OnBranch(storedTip, nodeTip)
    BY <1>3, <2>3, <2>4, OnBranchTrans
  <2> QED
    BY <1>3, <2>1, <2>2, <2>3, <2>5
<1>6. CASE w = "sync"
  <2>1. phase = "run" /\ block = NoBlock /\ synced /\ SyncJob(job[w])
    BY <1>1, <1>6, OneHandler
  <2>2. job[w].pc # "none"
    OBVIOUS
  <2> QED
    BY <1>1, <1>3, <1>6, <2>1, <2>2 DEF TipInv, SyncJob
<1> QED
  BY <1>2, <1>5, <1>6

LEMMA ListStep ==
  ASSUME ContractInv, NEW w \in Handler, ListContracts(w)
  PROVE  ContractInv'
<1>1. /\ phase # "down" /\ job[w].pc = "list"
      /\ job' = [job EXCEPT ![w].pc = "compare", ![w].listed = Existing(nodeTip)]
      /\ UNCHANGED <<nodeTip, storedTip, logged, contractTip, phase, fault, synced, block, db>>
  BY DEF ListContracts, At, Reads, node, tips, process
<1>2. /\ phase = "run" /\ job[w].stage = "sync" /\ synced
      /\ contractTip \in Block /\ nodeTip \in Block
      /\ DOMAIN job = Handler /\ DOMAIN job[w] = DOMAIN NoJob
  BY <1>1, SyncStage DEF ContractInv, ShapeInv
<1>3. /\ DOMAIN job' = Handler /\ DOMAIN job'[w] = DOMAIN NoJob
      /\ \A v \in Handler : v # w => job'[v] = job[v]
      /\ job'[w].pc = "compare" /\ job'[w].stage = "sync" /\ job'[w].listed = Existing(nodeTip)
  BY <1>1, <1>2 DEF NoJob
<1>4. RowsInv'
  BY <1>1, SameRows DEF ContractInv
<1>5. Existing(nodeTip)' = Existing(nodeTip)
  BY <1>1 DEF Existing, Chain
<1>6. CreateInv(w)'
  <2>1. Existing(nodeTip) \subseteq Contract
    BY <1>2, ExistingContracts
  <2> QED
    BY <1>3, <2>1 DEF CreateInv, Creating
<1>7. SyncInv(w)'
  BY <1>3, <1>5 DEF SyncInv, Creating
<1>8. BlockJob(job'[w]) /\ SyncJob(job'[w]) /\ job'[w] # NoJob
  BY <1>2, <1>3 DEF BlockJob, SyncJob, NoJob
<1> QED
  BY <1>1, <1>2, <1>3, <1>4, <1>6, <1>7, <1>8, JobStep

LEMMA CompareStep ==
  ASSUME ContractInv, NEW w \in Handler, Compare(w)
  PROVE  ContractInv'
<1> DEFINE gone == Known \ job[w].listed
           missing == job[w].listed \ Known
           items == {[contract |-> c] : c \in missing}
<1>1. /\ phase # "down" /\ job[w].pc = "compare"
      /\ db' = [contracts |-> [c \in Known \ gone |-> db.contracts[c]],
                supplies |-> [c \in DOMAIN db.supplies \ gone |-> db.supplies[c]],
                balances |-> Dropped(db.balances, gone),
                holders |-> Dropped(db.holders, gone)]
      /\ job' = [job EXCEPT ![w].pc = "find", ![w].todo = SetToSeq(items)]
      /\ UNCHANGED <<nodeTip, storedTip, logged, contractTip, phase, fault, synced, block>>
  BY DEF Compare, At, Writes, node, tips, process, Known, Removable
<1>2. /\ phase = "run" /\ job[w].stage = "sync" /\ synced
      /\ storedTip \in Block /\ logged \in Block /\ nodeTip \in Block /\ contractTip \in Block
      /\ OnBranch(storedTip, nodeTip) /\ OnBranch(logged, nodeTip)
      /\ DOMAIN job = Handler /\ DOMAIN job[w] = DOMAIN NoJob
      /\ DOMAIN db = {"contracts", "supplies", "balances", "holders"}
  BY <1>1, SyncStage DEF ContractInv, ShapeInv
<1>3. CreateInv(w) /\ SyncInv(w) /\ RowsInv
  BY DEF ContractInv
<1>4. /\ DOMAIN job' = Handler /\ DOMAIN job'[w] = DOMAIN NoJob
      /\ \A v \in Handler : v # w => job'[v] = job[v]
      /\ job'[w].pc = "find" /\ job'[w].stage = "sync" /\ job'[w].listed = job[w].listed
      /\ job'[w].todo = SetToSeq(items)
  BY <1>1, <1>2 DEF NoJob
<1>5. /\ DOMAIN db' = DOMAIN db
      /\ Known' = Known \ gone
      /\ DOMAIN db'.supplies = DOMAIN db.supplies \ gone
      /\ DOMAIN db'.balances = {x \in DOMAIN db.balances : x[1] \notin gone}
      /\ DOMAIN db'.holders = {x \in DOMAIN db.holders : x[1] \notin gone}
  BY <1>1, <1>2 DEF Known, Dropped
<1>6. Existing(nodeTip)' = Existing(nodeTip) /\ Target(w)' = Target(w)
  BY <1>1 DEF Existing, Chain, Target
<1>7. Rows' \subseteq Rows \ gone
  <2> HIDE DEF gone
  <2> QED
    BY <1>5 DEF Rows
<1>8. RowsInv'
  <2>1. (OnBranch(storedTip, nodeTip) /\ OnBranch(logged, nodeTip))'
    BY <1>1, <1>2 DEF OnBranch
  <2>2. (Rows \subseteq Known \cup Existing(nodeTip))'
    <3>1. Rows \subseteq Known \cup Existing(nodeTip)
      BY <1>3 DEF RowsInv
    <3> HIDE DEF gone
    <3> QED
      BY <1>5, <1>6, <1>7, <3>1
  <2> QED
    BY <2>1, <2>2 DEF RowsInv
<1>9. job[w].listed \subseteq Contract
  BY <1>3 DEF CreateInv
<1>10. IsFiniteSet(items) /\ \A x \in items : x \in Items
  <2>1. items \subseteq [contract : Contract]
    BY <1>9
  <2>2. missing \in SUBSET Contract /\ IsFiniteSet(Contract)
    BY <1>9, ContractAssumption
  <2>3. IsFiniteSet(missing)
    BY <2>2, FS_Subset
  <2>4. \A c, d \in missing : [contract |-> c] = [contract |-> d] => c = d
    BY Zenon
  <2>5. [c \in missing |-> [contract |-> c]] \in Surjection(missing, items)
    BY DEF Surjection
  <2>6. IsFiniteSet(items)
    BY <2>3, <2>5, FS_Surjection
  <2> QED
    BY <2>1, <2>6 DEF Items
<1>11. /\ SetToSeq(items) \in Seq(items)
       /\ {SetToSeq(items)[n] : n \in DOMAIN SetToSeq(items)} = items
  BY <1>10, Listing
<1>12. SetToSeq(items) \in Seq(Items)
  BY <1>10, <1>11, SeqMonotonic
<1>13. ToDo(w)' = missing
  <2>1. ToDo(w)' = {SetToSeq(items)[n].contract : n \in DOMAIN SetToSeq(items)}
    BY <1>4 DEF ToDo
  <2>2. \A c \in missing : [contract |-> c] \in items
    OBVIOUS
  <2>3. \A x \in items : x.contract \in missing
    OBVIOUS
  <2>4. \A c : [contract |-> c].contract = c
    OBVIOUS
  <2>5. ASSUME NEW c \in missing
        PROVE  \E n \in DOMAIN SetToSeq(items) : SetToSeq(items)[n] = [contract |-> c]
    BY <1>11, <2>2
  <2>6. ASSUME NEW n \in DOMAIN SetToSeq(items)
        PROVE  SetToSeq(items)[n].contract \in missing
    BY <1>11, <2>3
  <2> HIDE DEF items, missing
  <2>7. missing \subseteq ToDo(w)'
    BY <2>1, <2>4, <2>5
  <2>8. ToDo(w)' \subseteq missing
    BY <2>1, <2>6
  <2> QED
    BY <2>7, <2>8
<1>14. CreateInv(w)'
  BY <1>3, <1>4, <1>12 DEF CreateInv
<1>15. SyncInv(w)'
  <2>1. Target(w) = nodeTip => job[w].listed = Existing(nodeTip)
    BY <1>1, <1>3 DEF SyncInv
  <2>2. Known' = Known \cap job[w].listed
    BY <1>5
  <2> QED
    BY <1>1, <1>4, <1>6, <1>13, <2>1, <2>2 DEF SyncInv, Creating
<1>16. BlockJob(job'[w]) /\ SyncJob(job'[w]) /\ job'[w] # NoJob
  BY <1>2, <1>4 DEF BlockJob, SyncJob, NoJob, Creating
<1>17. contractTip' \in Block /\ job[w].pc # "none"
  BY <1>1, <1>2
<1> HIDE DEF gone, missing, items
<1> QED
  BY <1>1, <1>2, <1>4, <1>5, <1>8, <1>14, <1>15, <1>16, <1>17, JobStep

LEMMA EndSyncStep ==
  ASSUME ContractInv, NEW w \in Handler, EndSync(w)
  PROVE  ContractInv'
<1> DEFINE j2 == IF w = "block" THEN [NoJob EXCEPT !.pc = "tip"] ELSE NoJob
<1>1. /\ phase # "down" /\ job[w].pc = "find" /\ job[w].todo = <<>> /\ job[w].stage = "sync"
      /\ job' = [job EXCEPT ![w] = j2]
      /\ UNCHANGED <<nodeTip, storedTip, logged, contractTip, phase, fault, synced, block, db>>
  BY DEF EndSync, At, Reads, node, tips, process
<1>2. /\ phase = "run" /\ synced /\ contractTip' \in Block /\ DOMAIN job = Handler
  BY <1>1, CreatingStage DEF Creating, ContractInv, ShapeInv
<1>3. /\ DOMAIN job' = Handler /\ job'[w] = j2
      /\ \A v \in Handler : v # w => job'[v] = job[v]
  BY <1>1, <1>2
<1>4. /\ DOMAIN j2 = DOMAIN NoJob /\ j2.stage = "none" /\ j2.listed = {}
      /\ w = "block" => j2.pc = "tip"
      /\ w # "block" => j2.pc = "none" /\ j2 = NoJob
  BY DEF NoJob
<1>5. RowsInv'
  BY <1>1, SameRows DEF ContractInv
<1>6. Known' = Known /\ Existing(nodeTip)' = Existing(nodeTip) /\ Target(w)' = Target(w)
  BY <1>1 DEF Known, Existing, Chain, Target
<1>7. Target(w) = nodeTip => Known = Existing(nodeTip)
  <2>1. ToDo(w) = {}
    BY <1>1 DEF ToDo
  <2>2. SyncInv(w)
    BY DEF ContractInv
  <2> QED
    BY <1>1, <2>1, <2>2 DEF SyncInv, Creating
<1> HIDE DEF j2
<1>8. CreateInv(w)'
  BY <1>3, <1>4 DEF CreateInv, Creating
<1>9. SyncInv(w)'
  BY <1>1, <1>3, <1>4, <1>6, <1>7 DEF SyncInv, Creating
<1>10. w = "block" => BlockJob(j2)
  BY <1>4 DEF BlockJob
<1>11. w = "sync" => ExactInv'
  BY <1>1, <1>6, <1>7 DEF ExactInv, Target
<1> QED
  BY <1>1, <1>2, <1>3, <1>4, <1>5, <1>8, <1>9, <1>10, <1>11, JobStep

-----------------------------------------------------------------------------
(* onReorg.                                                                *)

LEMMA ReorgStage ==
  ASSUME ContractInv, phase # "down", job["block"].pc \in {"logs", "tokens", "forget"}
  PROVE  /\ phase # "run" /\ block = NoBlock /\ job["block"].stage = "reorg"
         /\ contractTip \in Block /\ logged \in Block /\ storedTip \in Block /\ nodeTip \in Block
         /\ "block" \in Handler /\ DOMAIN job = Handler
         /\ DOMAIN job["block"] = DOMAIN NoJob /\ CreateInv("block")
<1>1. "block" \in Handler /\ ShapeInv /\ JobInv /\ CreateInv("block")
  BY DEF Handler, ContractInv
<1>2. /\ phase # "run" => block = NoBlock /\ ReorgJob(job["block"])
      /\ phase = "run" => BlockJob(job["block"])
  BY <1>1, OneHandler
<1> QED
  BY <1>1, <1>2 DEF ReorgJob, BlockJob, Creating, ShapeInv

LEMMA LogsStep ==
  ASSUME ContractInv, FindLogs
  PROVE  ContractInv'
<1> DEFINE w == "block"
<1>1. /\ phase # "down" /\ job[w].pc = "logs"
      /\ job' = [job EXCEPT ![w].pc = "read", ![w].changes = Undone(ReorgTip)]
      /\ UNCHANGED <<nodeTip, storedTip, logged, contractTip, phase, fault, synced, block, db>>
  BY DEF FindLogs, At, Reads, node, tips, process
<1>2. /\ phase # "run" /\ job[w].stage = "reorg" /\ contractTip \in Block
      /\ w \in Handler /\ DOMAIN job = Handler /\ DOMAIN job[w] = DOMAIN NoJob /\ CreateInv(w)
  BY <1>1, ReorgStage
<1>3. /\ DOMAIN job' = Handler /\ DOMAIN job'[w] = DOMAIN NoJob
      /\ \A v \in Handler : v # w => job'[v] = job[v]
      /\ job'[w].pc = "read" /\ job'[w].stage = "reorg" /\ job'[w].listed = job[w].listed
  BY <1>1, <1>2 DEF NoJob
<1>4. RowsInv'
  BY <1>1, SameRows DEF ContractInv
<1>5. CreateInv(w)' /\ SyncInv(w)' /\ ReorgJob(job'[w])
  BY <1>2, <1>3 DEF CreateInv, SyncInv, Creating, ReorgJob
<1> HIDE DEF w
<1> QED
  BY <1>1, <1>2, <1>3, <1>4, <1>5, JobStep DEF w

LEMMA TokensStep ==
  ASSUME ContractInv, RestoreTokens
  PROVE  ContractInv'
<1> DEFINE w == "block"
           back == Restored(ReorgTip)
<1>1. /\ phase # "down" /\ job[w].pc = "tokens"
      /\ db' = [db EXCEPT !.holders = Written(back, @)]
      /\ job' = [job EXCEPT ![w].pc = "forget"]
      /\ UNCHANGED <<nodeTip, storedTip, logged, contractTip, phase, fault, synced, block>>
  BY DEF RestoreTokens, At, Goes, Writes, node, tips, process
<1>2. /\ phase # "run" /\ job[w].stage = "reorg" /\ contractTip \in Block
      /\ logged \in Block /\ nodeTip \in Block
      /\ w \in Handler /\ DOMAIN job = Handler /\ DOMAIN job[w] = DOMAIN NoJob /\ CreateInv(w)
  BY <1>1, ReorgStage
<1>3. /\ DOMAIN job' = Handler /\ DOMAIN job'[w] = DOMAIN NoJob
      /\ \A v \in Handler : v # w => job'[v] = job[v]
      /\ job'[w].pc = "forget" /\ job'[w].stage = "reorg" /\ job'[w].listed = job[w].listed
  BY <1>1, <1>2 DEF NoJob
<1>4. \A x \in DOMAIN back : x[1] \in Known \cup Existing(nodeTip)
  <2>1. \A x \in DOMAIN back : x[1] \in Existing(logged)
    BY <1>2, RestoredContracts
  <2>2. OnBranch(logged, nodeTip) \/ Existing(logged) \subseteq Known
    BY <1>1 DEF ContractInv, RowsInv
  <2>3. OnBranch(logged, nodeTip) => Existing(logged) \subseteq Existing(nodeTip)
    BY <1>2, ExistingGrows
  <2> QED
    BY <2>1, <2>2, <2>3
<1> HIDE DEF back
<1>5. /\ DOMAIN db' = DOMAIN db /\ Known' = Known /\ Existing(nodeTip)' = Existing(nodeTip)
      /\ Rows' \subseteq Rows \cup Known \cup Existing(nodeTip)
  <2>1. DOMAIN db = {"contracts", "supplies", "balances", "holders"}
    BY DEF ContractInv, ShapeInv
  <2>2. /\ DOMAIN db' = DOMAIN db /\ db'.holders = Written(back, db.holders)
        /\ db'.supplies = db.supplies /\ db'.contracts = db.contracts /\ db'.balances = db.balances
    BY <1>1, <2>1
  <2>3. DOMAIN Written(back, db.holders) = DOMAIN back \cup DOMAIN db.holders
    BY DEF Written
  <2> QED
    BY <1>1, <1>4, <2>2, <2>3 DEF Known, Rows, Existing, Chain
<1>6. RowsInv'
  BY <1>1, <1>5 DEF ContractInv, RowsInv, OnBranch, Existing, Chain
<1>7. CreateInv(w)' /\ SyncInv(w)' /\ ReorgJob(job'[w])
  BY <1>2, <1>3 DEF CreateInv, SyncInv, Creating, ReorgJob
<1> HIDE DEF w
<1> QED
  BY <1>1, <1>2, <1>3, <1>5, <1>6, <1>7, JobStep DEF w

-----------------------------------------------------------------------------
(* The process and the node.                                               *)

\* A handler that rests satisfies its part.
LEMMA AtRest ==
  ASSUME NEW w \in Handler, job'[w] = NoJob
  PROVE  CreateInv(w)' /\ SyncInv(w)'
<1>1. NoJob.pc = "none" /\ NoJob.stage = "none" /\ NoJob.listed = {}
  BY DEF NoJob
<1> QED
  BY <1>1 DEF CreateInv, SyncInv, Creating

\* A handler whose pc is "none" rests.
LEMMA Rests ==
  ASSUME ContractInv
  PROVE  /\ job["sync"].pc = "none" => job["sync"] = NoJob
         /\ ~synced => job["sync"] = NoJob
         /\ phase # "run" => job["sync"] = NoJob
         /\ phase = "run" /\ block = NoBlock => job["block"] = NoJob
<1>1. \A j : SyncJob(j) => j.pc # "none"
  BY DEF SyncJob, Creating
<1> QED
  BY <1>1 DEF ContractInv, JobInv

\* At the start and at a reorganization the block handler finds the logs.
Finding == [NoJob EXCEPT !.pc = "logs", !.stage = "reorg"]

LEMMA FindingJob ==
  /\ DOMAIN Finding = DOMAIN NoJob /\ ReorgJob(Finding)
  /\ Finding.pc = "logs" /\ Finding.stage = "reorg" /\ Finding.listed = {}
  BY DEF Finding, NoJob, ReorgJob

LEMMA FindingInv ==
  ASSUME job'["block"] = Finding
  PROVE  CreateInv("block")' /\ SyncInv("block")'
  BY FindingJob DEF CreateInv, SyncInv, Creating

LEMMA StartStep ==
  ASSUME ContractInv, Start
  PROVE  ContractInv'
<1>1. /\ phase = "down" /\ phase' = "start" /\ fault' = "none" /\ logged' = storedTip
      /\ job' = [job EXCEPT !["block"] = Finding]
      /\ UNCHANGED <<nodeTip, storedTip, contractTip, synced, block, db>>
  BY DEF Start, Finding, node, tips
<1>2. /\ ShapeInv /\ JobInv /\ TipInv /\ RowsInv
  BY DEF ContractInv
<1>3. /\ block = NoBlock /\ synced = FALSE /\ job["sync"] = NoJob /\ DOMAIN job = Handler
  BY <1>1, <1>2, Rests DEF JobInv, ShapeInv, Handler
<1>4. DOMAIN job' = Handler /\ job'["block"] = Finding /\ job'["sync"] = NoJob
  BY <1>1, <1>3 DEF Handler
<1>5. ShapeInv'
  BY <1>1, <1>2, <1>4, FindingJob DEF ShapeInv, Handler
<1>6. JobInv'
  BY <1>1, <1>3, <1>4, FindingJob DEF JobInv, NoJob
<1>7. TipInv'
  BY <1>1, <1>2, <1>3, <1>4 DEF TipInv, NoJob, ShapeInv, OnBranch
<1>8. RowsInv'
  BY <1>1, <1>2 DEF RowsInv, Rows, Known, OnBranch, Existing, Chain
<1>9. \A w \in Handler : CreateInv(w)' /\ SyncInv(w)'
  BY <1>4, AtRest, FindingInv DEF Handler
<1>10. ExactInv'
  BY <1>1 DEF ExactInv
<1> QED
  BY <1>1, <1>5, <1>6, <1>7, <1>8, <1>9, <1>10 DEF ContractInv

LEMMA StopStep ==
  ASSUME ContractInv, Stop("crash")
  PROVE  ContractInv'
<1>1. /\ phase' = "down" /\ fault' = "crash" /\ synced' = FALSE /\ block' = NoBlock
      /\ job' = [w \in Handler |-> NoJob]
      /\ UNCHANGED <<nodeTip, storedTip, logged, contractTip, db>>
  BY DEF Stop, node, tips
<1>2. /\ ShapeInv /\ JobInv /\ TipInv /\ RowsInv
  BY DEF ContractInv
<1>3. \A w \in Handler : job'[w] = NoJob
  BY <1>1
<1>4. job'["sync"].pc = "none"
  BY <1>3 DEF Handler, NoJob
<1>5. ShapeInv'
  BY <1>1, <1>2, <1>3 DEF ShapeInv
<1>6. JobInv'
  BY <1>1, <1>3, <1>4 DEF JobInv, Handler
<1>7. TipInv'
  BY <1>1, <1>2, <1>4 DEF TipInv
<1>8. RowsInv'
  BY <1>1, <1>2 DEF RowsInv, Rows, Known, OnBranch, Existing, Chain
<1>9. \A w \in Handler : CreateInv(w)' /\ SyncInv(w)'
  BY <1>3, AtRest
<1>10. ExactInv'
  BY <1>1 DEF ExactInv
<1> QED
  BY <1>1, <1>5, <1>6, <1>7, <1>8, <1>9, <1>10 DEF ContractInv

LEMMA SyncedStep ==
  ASSUME ContractInv, Steady, OnSynced
  PROVE  ContractInv'
<1> DEFINE j == [NoJob EXCEPT !.pc = "list", !.stage = "sync"]
<1>1. /\ phase = "run" /\ block = NoBlock /\ synced' = TRUE /\ OnBranch(storedTip, nodeTip)
      /\ ~synced
      /\ job' = [job EXCEPT !["sync"] = j]
      /\ UNCHANGED <<nodeTip, storedTip, logged, contractTip, db, phase, fault, block>>
  BY DEF OnSynced, node, tips
<1>2. /\ ShapeInv /\ JobInv /\ TipInv /\ RowsInv /\ DOMAIN job = Handler
  BY DEF ContractInv, ShapeInv
<1>3. job["block"] = NoJob
  BY <1>1, Rests
<1>4. DOMAIN job' = Handler /\ job'["block"] = NoJob /\ job'["sync"] = j
  BY <1>1, <1>2, <1>3 DEF Handler
<1>5. /\ DOMAIN j = DOMAIN NoJob /\ SyncJob(j)
      /\ j.pc = "list" /\ j.stage = "sync" /\ j.listed = {}
  BY DEF NoJob, SyncJob
<1> HIDE DEF j
<1>6. ShapeInv'
  BY <1>1, <1>2, <1>4, <1>5 DEF ShapeInv, Handler
<1>7. JobInv'
  BY <1>1, <1>4, <1>5 DEF JobInv
<1>8. TipInv'
  BY <1>1, <1>2 DEF TipInv, OnBranch
<1>9. RowsInv'
  BY <1>1, <1>2 DEF RowsInv, Rows, Known, OnBranch, Existing, Chain
<1>10. CreateInv("sync")' /\ SyncInv("sync")'
  BY <1>4, <1>5 DEF CreateInv, SyncInv, Creating
<1>11. \A w \in Handler : CreateInv(w)' /\ SyncInv(w)'
  BY <1>4, <1>10, AtRest DEF Handler
<1>12. ExactInv'
  BY <1>4, <1>5 DEF ExactInv
<1>13. (fault # "duplicate")'
  BY <1>1 DEF ContractInv
<1> QED
  BY <1>6, <1>7, <1>8, <1>9, <1>11, <1>12, <1>13 DEF ContractInv

LEMMA BlockStep ==
  ASSUME ContractInv, CalmSync, NEW b \in Block, BeginBlock(b)
  PROVE  ContractInv'
<1> DEFINE j == [NoJob EXCEPT !.pc = "find", !.stage = "creations", !.todo = Creations[b]]
<1>1. /\ phase = "run" /\ block = NoBlock /\ Parent[b] = storedTip /\ OnBranch(b, nodeTip)
      /\ job["sync"].pc = "none" /\ block' = b /\ logged' = b
      /\ job' = [job EXCEPT !["block"] = j]
      /\ UNCHANGED <<nodeTip, storedTip, contractTip, db, phase, fault, synced>>
  BY DEF BeginBlock, node, tips
<1>2. /\ ShapeInv /\ JobInv /\ TipInv /\ RowsInv /\ DOMAIN job = Handler
  BY DEF ContractInv, ShapeInv
<1>3. job["sync"] = NoJob /\ NoBlock \notin Block
  BY <1>1, Rests, TreeAssumption
<1>4. DOMAIN job' = Handler /\ job'["block"] = j /\ job'["sync"] = NoJob
  BY <1>1, <1>2, <1>3 DEF Handler
<1>5. /\ DOMAIN j = DOMAIN NoJob /\ BlockJob(j)
      /\ j.pc = "find" /\ j.stage = "creations" /\ j.todo = Creations[b] /\ j.listed = {}
  BY DEF NoJob, BlockJob, Creating
<1> HIDE DEF j
<1>6. ShapeInv'
  BY <1>1, <1>2, <1>4, <1>5 DEF ShapeInv, Handler
<1>7. JobInv'
  <2>1. BlockJob(j)'
    BY <1>5 DEF BlockJob, Creating
  <2>2. job'["sync"].pc = "none" /\ block' # NoBlock
    BY <1>1, <1>3, <1>4 DEF NoJob
  <2> QED
    BY <1>1, <1>4, <2>1, <2>2 DEF JobInv, BlockJob
<1>8. TipInv'
  <2>1. job'["sync"].pc = "none"
    BY <1>4 DEF NoJob
  <2> QED
    BY <1>1, <1>2, <1>3, <2>1 DEF TipInv, OnBranch
<1>9. RowsInv'
  BY <1>1, <1>2 DEF RowsInv, Rows, Known, OnBranch, Existing, Chain
<1>10. Creations[b] \in Seq(Items)
  <2>1. Creations[b] \in Seq([contract : Contract, owner : Holder])
    BY ContractAssumption
  <2>2. [contract : Contract, owner : Holder] \subseteq Items
    BY DEF Items
  <2> QED
    BY <2>1, <2>2, SeqMonotonic
<1>11. CreateInv("block")' /\ SyncInv("block")'
  BY <1>4, <1>5, <1>10 DEF CreateInv, SyncInv, Creating
<1>12. \A w \in Handler : CreateInv(w)' /\ SyncInv(w)'
  BY <1>4, <1>11, AtRest DEF Handler
<1>13. ExactInv'
  BY <1>1, <1>3 DEF ExactInv
<1>14. (fault # "duplicate")'
  BY <1>1 DEF ContractInv
<1> QED
  BY <1>6, <1>7, <1>8, <1>9, <1>12, <1>13, <1>14 DEF ContractInv

LEMMA CommitStep ==
  ASSUME ContractInv, Commit
  PROVE  ContractInv'
<1>1. /\ phase # "down" /\ job["block"].pc = "commit"
      /\ storedTip' = block /\ block' = NoBlock
      /\ job' = [job EXCEPT !["block"] = NoJob]
      /\ UNCHANGED <<nodeTip, logged, contractTip, db, phase, fault, synced>>
  BY DEF Commit, At, node
<1>2. /\ ShapeInv /\ JobInv /\ TipInv /\ RowsInv /\ SyncInv("block") /\ "block" \in Handler
      /\ DOMAIN job = Handler
  BY DEF ContractInv, ShapeInv, Handler
<1>3. phase = "run" /\ block # NoBlock /\ job["sync"] = NoJob
  <2>1. /\ phase # "run" => ReorgJob(job["block"])
        /\ phase = "run" => block # NoBlock
        /\ "sync" \in Handler /\ job["sync"] = NoJob
    BY <1>1, <1>2, OneHandler DEF Handler
  <2> QED
    BY <1>1, <2>1 DEF ReorgJob
<1>4. block \in Block /\ nodeTip \in Block /\ OnBranch(block, nodeTip) /\ logged = block
  BY <1>2, <1>3 DEF ShapeInv, TipInv
<1>5. DOMAIN job' = Handler /\ job'["block"] = NoJob /\ job'["sync"] = NoJob
  BY <1>1, <1>2, <1>3 DEF Handler
<1>6. ShapeInv'
  BY <1>1, <1>2, <1>4, <1>5 DEF ShapeInv, Handler
<1>7. JobInv'
  BY <1>1, <1>2, <1>3, <1>5 DEF JobInv, NoJob
<1>8. TipInv'
  <2>1. job'["sync"].pc = "none"
    BY <1>5 DEF NoJob
  <2>2. Depth[block] <= Depth[nodeTip]
    BY <1>4 DEF OnBranch
  <2> QED
    BY <1>1, <1>3, <1>4, <2>1, <2>2 DEF TipInv
<1>9. RowsInv'
  BY <1>1, <1>2, <1>4 DEF RowsInv, Rows, Known, OnBranch, Existing, Chain
<1>10. \A w \in Handler : CreateInv(w)' /\ SyncInv(w)'
  BY <1>5, AtRest DEF Handler
<1>11. ExactInv'
  <2>1. block = nodeTip /\ synced => Known = Existing(nodeTip)
    BY <1>1, <1>2 DEF SyncInv, Target
  <2>2. Known' = Known /\ Existing(nodeTip)' = Existing(nodeTip)
    BY <1>1 DEF Known, Existing, Chain
  <2> QED
    BY <1>1, <2>1, <2>2 DEF ExactInv
<1>12. (fault # "duplicate")'
  BY <1>1 DEF ContractInv
<1> QED
  BY <1>6, <1>7, <1>8, <1>9, <1>10, <1>11, <1>12 DEF ContractInv

LEMMA GoBackStep ==
  ASSUME ContractInv, CalmSync, NEW a \in Block, GoBack(a)
  PROVE  ContractInv'
<1>1. /\ phase = "run" /\ phase' = "undo" /\ block = NoBlock /\ storedTip' = a
      /\ ~OnBranch(storedTip, nodeTip) /\ OnBranch(a, storedTip) /\ OnBranch(a, nodeTip)
      /\ job["sync"].pc = "none"
      /\ job' = [job EXCEPT !["block"] = Finding]
      /\ UNCHANGED <<nodeTip, logged, contractTip, db, fault, synced, block>>
  BY DEF GoBack, Finding, node
<1>2. /\ ShapeInv /\ JobInv /\ TipInv /\ RowsInv /\ DOMAIN job = Handler
      /\ storedTip \in Block /\ nodeTip \in Block
  BY DEF ContractInv, ShapeInv
<1>3. job["sync"] = NoJob
  BY <1>1, Rests
<1>4. DOMAIN job' = Handler /\ job'["block"] = Finding /\ job'["sync"] = NoJob
  BY <1>1, <1>2, <1>3 DEF Handler
<1>5. Depth[a] < Depth[nodeTip]
  <2>1. /\ Depth[a] \in Nat /\ Depth[storedTip] \in Nat /\ Depth[nodeTip] \in Nat
        /\ Depth[storedTip] <= Depth[nodeTip] /\ Depth[a] <= Depth[storedTip]
    BY <1>1, <1>2, DepthNat DEF TipInv, OnBranch
  <2>2. Depth[a] # Depth[storedTip]
    BY <1>1, <1>2, OnBranchSame, OnBranchSelf
  <2> QED
    BY <2>1, <2>2
<1>6. ShapeInv'
  BY <1>1, <1>2, <1>4, FindingJob DEF ShapeInv, Handler
<1>7. JobInv'
  BY <1>1, <1>4, FindingJob DEF JobInv, NoJob
<1>8. TipInv'
  <2>1. job'["sync"].pc = "none"
    BY <1>4 DEF NoJob
  <2>2. Depth[a] <= Depth[nodeTip] /\ a # nodeTip
    BY <1>2, <1>5, DepthNat
  <2> QED
    BY <1>1, <2>1, <2>2 DEF TipInv, OnBranch
<1>9. RowsInv'
  BY <1>1, <1>2 DEF RowsInv, Rows, Known, OnBranch, Existing, Chain
<1>10. \A w \in Handler : CreateInv(w)' /\ SyncInv(w)'
  BY <1>4, AtRest, FindingInv DEF Handler
<1>11. ExactInv'
  BY <1>1 DEF ExactInv
<1>12. (fault # "duplicate")'
  BY <1>1 DEF ContractInv
<1> QED
  BY <1>6, <1>7, <1>8, <1>9, <1>10, <1>11, <1>12 DEF ContractInv

LEMMA EndReorgStep ==
  ASSUME ContractInv, EndReorg
  PROVE  ContractInv'
<1>1. /\ phase # "down" /\ job["block"].pc = "forget"
      /\ logged' = storedTip /\ phase' = "run"
      /\ contractTip' = IF phase = "start" THEN Lower ELSE contractTip
      /\ job' = [job EXCEPT !["block"] = NoJob]
      /\ UNCHANGED <<nodeTip, db, storedTip, fault, synced, block>>
  BY DEF EndReorg, At, node
<1>2. /\ ShapeInv /\ JobInv /\ TipInv /\ RowsInv
  BY DEF ContractInv
<1>3. /\ phase # "run" /\ block = NoBlock /\ DOMAIN job = Handler
      /\ storedTip \in Block /\ nodeTip \in Block /\ contractTip \in Block
  BY <1>1, ReorgStage
<1>4. job["sync"] = NoJob
  BY <1>3, Rests
<1>5. DOMAIN job' = Handler /\ job'["block"] = NoJob /\ job'["sync"] = NoJob
  BY <1>1, <1>3, <1>4 DEF Handler
<1>6. contractTip' \in Block
  BY <1>1, <1>3 DEF Lower
<1>7. ShapeInv'
  BY <1>1, <1>2, <1>5, <1>6 DEF ShapeInv, Handler
<1>8. JobInv'
  BY <1>1, <1>3, <1>5 DEF JobInv, NoJob
<1>9. TipInv'
  <2>1. job'["sync"].pc = "none"
    BY <1>5 DEF NoJob
  <2> QED
    BY <1>1, <1>2, <1>3, <2>1 DEF TipInv
<1>10. RowsInv'
  BY <1>1, <1>2 DEF RowsInv, Rows, Known, OnBranch, Existing, Chain
<1>11. \A w \in Handler : CreateInv(w)' /\ SyncInv(w)'
  BY <1>5, AtRest DEF Handler
<1>12. ExactInv'
  <2>1. phase = "start" \/ phase = "undo"
    BY <1>1, <1>2, <1>3 DEF ShapeInv
  <2>2. phase = "start" => ~synced
    BY <1>2 DEF JobInv
  <2>3. phase = "undo" => storedTip # nodeTip
    BY <1>2 DEF TipInv
  <2> QED
    BY <1>1, <2>1, <2>2, <2>3 DEF ExactInv
<1>13. (fault # "duplicate")'
  BY <1>1 DEF ContractInv
<1> QED
  BY <1>7, <1>8, <1>9, <1>10, <1>11, <1>12, <1>13 DEF ContractInv

\* The next block of the node: what it has, it still has.
LEMMA GrowStep ==
  ASSUME ContractInv, NEW b \in Block, Parent[b] = nodeTip, nodeTip' = b,
         UNCHANGED <<db, logged, tips, process, job>>
  PROVE  ContractInv'
<1>1. /\ ShapeInv /\ JobInv /\ TipInv /\ RowsInv
      /\ nodeTip \in Block /\ storedTip \in Block /\ logged \in Block
      /\ block \in Block \cup {NoBlock} /\ NoBlock \notin Block
      /\ UNCHANGED <<storedTip, contractTip, phase, fault, synced, block>>
  BY TreeAssumption DEF ContractInv, ShapeInv, tips, process
<1>2. OnBranch(nodeTip, b) /\ Depth[nodeTip] < Depth[b]
  <2>1. OnBranch(nodeTip, b) /\ Depth[b] = Depth[nodeTip] + 1
    BY <1>1, OnBranchParent
  <2> QED
    BY <1>1, <2>1, DepthNat
<1>3. \A c \in Block : OnBranch(c, nodeTip) => OnBranch(c, nodeTip)'
  <2>1. \A c \in Block : OnBranch(c, nodeTip) => OnBranch(c, b)
    BY <1>1, <1>2, OnBranchTrans
  <2> QED
    BY <2>1 DEF OnBranch
<1>4. Existing(nodeTip) \subseteq Existing(nodeTip)'
  <2>1. Existing(nodeTip) \subseteq Existing(b)
    BY <1>1, <1>2, ExistingGrows
  <2> QED
    BY <2>1 DEF Existing, Chain
<1>5. Depth[storedTip] < Depth[b]
  BY <1>1, <1>2, DepthNat DEF TipInv
<1>6. storedTip # b
  BY <1>1, <1>5, DepthNat
<1>7. block # b
  <2>1. CASE block = NoBlock
    BY <1>1, <2>1
  <2>2. CASE block # NoBlock
    <3>1. block \in Block /\ Depth[block] <= Depth[nodeTip]
      BY <1>1, <2>2 DEF TipInv, OnBranch
    <3> QED
      BY <1>1, <1>2, <3>1, DepthNat
  <2> QED
    BY <2>1, <2>2
<1>8. ShapeInv'
  BY <1>1 DEF ShapeInv
<1>9. JobInv'
  BY <1>1 DEF JobInv, BlockJob
<1>10. TipInv'
  <2>1. Depth[storedTip] <= Depth[b]
    BY <1>1, <1>5, DepthNat
  <2> QED
    BY <1>1, <1>3, <1>6, <2>1 DEF TipInv
<1>11. RowsInv'
  <2>1. Rows' = Rows /\ Known' = Known
    BY DEF Rows, Known
  <2>2. Existing(storedTip)' = Existing(storedTip) /\ Existing(logged)' = Existing(logged)
    BY <1>1 DEF Existing, Chain
  <2> QED
    BY <1>1, <1>3, <1>4, <2>1, <2>2 DEF RowsInv
<1>12. ASSUME NEW w \in Handler
       PROVE  CreateInv(w)' /\ SyncInv(w)'
  <2>1. CreateInv(w)
    BY DEF ContractInv
  <2>2. CreateInv(w)'
    BY <1>4, <2>1 DEF CreateInv, Known
  <2>3. Target(w)' # nodeTip'
    BY <1>1, <1>6, <1>7 DEF Target
  <2> QED
    BY <2>2, <2>3 DEF SyncInv
<1>13. ExactInv'
  BY <1>1, <1>6 DEF ExactInv
<1>14. (fault # "duplicate")'
  BY <1>1 DEF ContractInv
<1> QED
  BY <1>8, <1>9, <1>10, <1>11, <1>12, <1>13, <1>14 DEF ContractInv

\* Another branch: the tables hold what the old one had.
LEMMA ForkStep ==
  ASSUME ContractInv, CaughtUp, NEW b \in Block, Depth[b] > Depth[nodeTip], nodeTip' = b,
         UNCHANGED <<db, logged, tips, process, job>>
  PROVE  ContractInv'
<1>1. /\ ShapeInv /\ JobInv /\ TipInv /\ RowsInv /\ ExactInv
      /\ nodeTip \in Block /\ storedTip \in Block
      /\ UNCHANGED <<storedTip, contractTip, phase, fault, synced, block>>
  BY DEF ContractInv, ShapeInv, tips, process
<1>2. /\ phase = "run" /\ block = NoBlock /\ synced /\ storedTip = nodeTip
      /\ job["block"] = NoJob /\ job["sync"] = NoJob /\ logged = storedTip
  <2>1. /\ phase = "run" /\ block = NoBlock /\ synced /\ storedTip = nodeTip
        /\ job["sync"].pc = "none"
    BY DEF CaughtUp, Idle, Handler
  <2> QED
    BY <1>1, <2>1, Rests DEF TipInv
<1>3. Known = Existing(nodeTip)
  BY <1>1, <1>2 DEF ExactInv, NoJob
<1>4. storedTip # b /\ Depth[storedTip] <= Depth[b]
  BY <1>1, <1>2, DepthNat
<1>5. ShapeInv'
  BY <1>1 DEF ShapeInv
<1>6. JobInv'
  BY <1>1 DEF JobInv, BlockJob
<1>7. TipInv'
  BY <1>1, <1>2, <1>4 DEF TipInv, NoJob
<1>8. RowsInv'
  <2>1. Rows' = Rows /\ Known' = Known
    BY DEF Rows, Known
  <2>2. Existing(storedTip)' = Existing(storedTip) /\ Existing(logged)' = Existing(logged)
    BY <1>1 DEF Existing, Chain
  <2> QED
    BY <1>1, <1>2, <1>3, <2>1, <2>2 DEF RowsInv
<1>9. \A w \in Handler : CreateInv(w)' /\ SyncInv(w)'
  BY <1>2, AtRest DEF Handler
<1>10. ExactInv'
  BY <1>1, <1>4 DEF ExactInv
<1>11. (fault # "duplicate")'
  BY <1>1 DEF ContractInv
<1> QED
  BY <1>5, <1>6, <1>7, <1>8, <1>9, <1>10, <1>11 DEF ContractInv

LEMMA MoveStep ==
  ASSUME ContractInv, Steady, NEW b \in Block, NodeMoves(b)
  PROVE  ContractInv'
<1>1. nodeTip' = b /\ UNCHANGED <<db, logged, tips, process, job>>
  BY DEF NodeMoves
<1>2. Parent[b] = nodeTip \/ (Depth[b] > Depth[nodeTip] /\ CaughtUp)
  BY DEF NodeMoves
<1> QED
  BY <1>1, <1>2, GrowStep, ForkStep

-----------------------------------------------------------------------------
(* The theorem.                                                            *)

LEMMA ContractInit == Init => ContractInv
<1> SUFFICES ASSUME Init PROVE ContractInv
  OBVIOUS
<1>1. /\ nodeTip = Genesis /\ storedTip = Genesis /\ logged = Genesis /\ contractTip = Genesis
      /\ phase = "down" /\ fault = "none" /\ synced = FALSE /\ block = NoBlock
      /\ job = [w \in Handler |-> NoJob]
      /\ db = [contracts |-> [c \in Dgp |-> "dgp"], supplies |-> <<>>, balances |-> <<>>,
               holders |-> <<>>]
  BY DEF Init
<1>2. Genesis \in Block /\ OnBranch(Genesis, Genesis) /\ Depth[Genesis] \in Nat
  BY TreeAssumption, OnBranchSelf
<1>3. NoJob.pc = "none" /\ NoJob.stage = "none" /\ NoJob.listed = {}
  BY DEF NoJob
<1>4. \A w \in Handler : job[w] = NoJob
  BY <1>1
<1>5. job["sync"] = NoJob
  BY <1>4 DEF Handler
<1>6. ShapeInv
  BY <1>1, <1>2 DEF ShapeInv
<1>7. JobInv
  BY <1>1, <1>3, <1>5 DEF JobInv
<1>8. TipInv
  BY <1>1, <1>2, <1>3, <1>5 DEF TipInv
<1>9. RowsInv
  <2>1. DOMAIN db.supplies = {} /\ DOMAIN db.balances = {} /\ DOMAIN db.holders = {}
    BY <1>1
  <2>2. Rows = {}
    BY <2>1 DEF Rows
  <2> QED
    BY <1>1, <1>2, <2>2 DEF RowsInv
<1>10. \A w \in Handler : CreateInv(w) /\ SyncInv(w)
  BY <1>3, <1>4 DEF CreateInv, SyncInv, Creating
<1>11. ExactInv
  BY <1>1 DEF ExactInv
<1> QED
  BY <1>1, <1>6, <1>7, <1>8, <1>9, <1>10, <1>11 DEF ContractInv

LEMMA ContractStutter ==
  ASSUME ContractInv, UNCHANGED vars
  PROVE  ContractInv'
<1>1. UNCHANGED <<nodeTip, storedTip, logged, contractTip, phase, fault, synced, block, job, db>>
  BY DEF vars, node, tips, process
<1>2. ShapeInv' /\ JobInv'
  BY <1>1 DEF ContractInv, ShapeInv, JobInv, BlockJob
<1>3. TipInv' /\ RowsInv'
  BY <1>1, SameRows DEF ContractInv, TipInv, OnBranch
<1>4. Known' = Known /\ Existing(nodeTip)' = Existing(nodeTip)
  BY <1>1 DEF Known, Existing, Chain
<1>5. ASSUME NEW w \in Handler
      PROVE  CreateInv(w)' /\ SyncInv(w)'
  <2>1. CreateInv(w) /\ SyncInv(w)
    BY DEF ContractInv
  <2>2. Target(w)' = Target(w) /\ ToDo(w)' = ToDo(w)
    BY <1>1 DEF Target, ToDo
  <2> QED
    BY <1>1, <1>4, <2>1, <2>2 DEF CreateInv, SyncInv
<1>6. ExactInv' /\ fault' # "duplicate"
  BY <1>1, <1>4 DEF ContractInv, ExactInv
<1> QED
  BY <1>2, <1>3, <1>5, <1>6 DEF ContractInv

LEMMA ContractNext ==
  ASSUME ContractInv, Calm, [Next]_vars
  PROVE  ContractInv'
<1>1. CASE Start \/ OnSynced \/ Crash
  BY <1>1, StartStep, SyncedStep, StopStep DEF Crash, Calm
<1>2. ASSUME NEW b \in Block, NodeMoves(b) \/ BeginBlock(b) \/ GoBack(b)
      PROVE  ContractInv'
  BY <1>2, MoveStep, BlockStep, GoBackStep DEF Calm
<1>3. ASSUME NEW w \in Handler, Sync(w)
      PROVE  ContractInv'
  BY <1>3, ListStep, CompareStep, EndSyncStep, FindStep, SaveStep, DetailStep, OwnerStep DEF Sync
<1>4. CASE BeginReceipts \/ ReadBalances \/ WriteBalances \/ WriteHolders
  BY <1>4, ReceiptsStep, ReadStep, WriteStep, HoldersStep
<1>5. CASE AskSupply \/ WriteSupply \/ EndReceipts \/ StoreTip \/ Commit
  BY <1>5, AskSupplyStep, WriteSupplyStep, EndReceiptsStep, StoreTipStep, CommitStep
<1>6. CASE FindLogs \/ RestoreTokens \/ EndReorg
  BY <1>6, LogsStep, TokensStep, EndReorgStep
<1>7. CASE UNCHANGED vars
  BY <1>7, ContractStutter
<1> QED
  BY <1>1, <1>2, <1>3, <1>4, <1>5, <1>6, <1>7 DEF Next

LEMMA ContractImplies == ContractInv => ContractsCurrent
<1> SUFFICES ASSUME ContractInv PROVE ContractsCurrent
  OBVIOUS
<1>1. fault # "duplicate" /\ ExactInv /\ RowsInv
  BY DEF ContractInv
<1>2. ASSUME CaughtUp
      PROVE  /\ DOMAIN db.contracts = Existing(storedTip)
             /\ DOMAIN db.supplies \subseteq Existing(storedTip)
             /\ \A x \in DOMAIN db.balances \cup DOMAIN db.holders : x[1] \in Existing(storedTip)
  <2>1. Known = Existing(nodeTip) /\ storedTip = nodeTip
    BY <1>1, <1>2 DEF ExactInv, CaughtUp, Idle, Handler
  <2>2. Rows \subseteq Existing(storedTip)
    BY <1>1, <2>1 DEF RowsInv
  <2> QED
    BY <2>1, <2>2 DEF Known, Rows
<1> QED
  BY <1>1, <1>2 DEF ContractsCurrent

\* ContractsCurrent: whenever the index has caught up with the node, the table
\* of contracts holds those of the node and no table a row of another, and no
\* two handlers ever create the same contract: for every block tree, whatever
\* the blocks create and log, and after any crashes, if the next block waits for
\* onSynced() (CalmSync) and the node changes branch only when the index has all
\* of the old one (Steady).  The code ensures neither, and both are needed.
THEOREM ContractsTheorem ==
  ASSUME CalmSync, Steady
  PROVE  Spec => []ContractsCurrent
<1> USE DEF Calm
<1>1. Init => ContractInv
  BY ContractInit
<1>2. ContractInv /\ [Next]_vars => ContractInv'
  BY ContractNext
<1>3. ContractInv => ContractsCurrent
  BY ContractImplies
<1> QED
  BY <1>1, <1>2, <1>3, PTL DEF Spec

-----------------------------------------------------------------------------
(* The balances: the blocks between two of a branch.                       *)

\* A block and those below it on the same branch.
LEMMA ChainBlocks ==
  ASSUME NEW b \in Block, NEW c \in Chain(b)
  PROVE  c \in Block /\ OnBranch(c, b)
<1>1. PICK d \in 0 .. Depth[b] : c = Branch[b][d]
  BY DEF Chain
<1>2. c \in Block /\ Depth[c] = d
  BY <1>1, BranchBlock
<1>3. Depth[c] <= Depth[b]
  BY <1>1, <1>2, DepthNat
<1> QED
  BY <1>1, <1>2, <1>3 DEF OnBranch

\* The blocks of a branch are those of a lower part, and those above it.
LEMMA AboveSplits ==
  ASSUME NEW a \in Block, NEW b \in Block, NEW c \in Block, OnBranch(a, b), OnBranch(b, c)
  PROVE  Above(a, c) = Above(a, b) \cup Above(b, c)
<1>1. /\ Depth[a] \in Nat /\ Depth[b] \in Nat /\ Depth[c] \in Nat
      /\ Depth[a] <= Depth[b] /\ Depth[b] <= Depth[c] /\ Branch[c][Depth[b]] = b
  BY DepthNat DEF OnBranch
<1>2. ASSUME NEW d \in Depth[a] + 1 .. Depth[b]
      PROVE  Branch[b][d] = Branch[c][d]
  <2>1. d \in 0 .. Depth[b] /\ Depth[b] \in 0 .. Depth[c]
    BY <1>1
  <2> QED
    BY <1>1, <2>1, BranchPrefix
<1>3. \A d : d \in Depth[a] + 1 .. Depth[c]
             <=> d \in Depth[a] + 1 .. Depth[b] \/ d \in Depth[b] + 1 .. Depth[c]
  BY <1>1
<1> QED
  BY <1>2, <1>3 DEF Above

LEMMA AboveNothing ==
  ASSUME NEW b \in Block
  PROVE  Above(b, b) = {}
<1>1. Depth[b] + 1 .. Depth[b] = {}
  BY DepthNat
<1> QED
  BY <1>1 DEF Above

\* Above its parent there is only the block.
LEMMA AboveParent ==
  ASSUME NEW b \in Block, Parent[b] \in Block
  PROVE  Above(Parent[b], b) = {b}
<1>1. Depth[b] = Depth[Parent[b]] + 1 /\ Depth[b] \in Nat
  BY OnBranchParent, DepthNat
<1>2. Depth[Parent[b]] + 1 .. Depth[b] = {Depth[b]}
  BY <1>1
<1>3. Branch[b][Depth[b]] = b
  BY BranchAssumption
<1> QED
  BY <1>2, <1>3 DEF Above

LEMMA ChangesSplit ==
  ASSUME NEW a \in Block, NEW b \in Block, NEW c \in Block, OnBranch(a, b), OnBranch(b, c)
  PROVE  LogChanges(a, c) = LogChanges(a, b) \cup LogChanges(b, c)
<1>1. Above(a, c) = Above(a, b) \cup Above(b, c)
  BY AboveSplits
<1>2. LogsOf(Above(a, c)) = LogsOf(Above(a, b)) \cup LogsOf(Above(b, c))
  BY <1>1 DEF LogsOf
<1> QED
  BY <1>2 DEF LogChanges, BalanceChanges

LEMMA ChangesNothing ==
  ASSUME NEW b \in Block
  PROVE  LogChanges(b, b) = {}
<1>1. LogsOf(Above(b, b)) = {}
  BY AboveNothing DEF LogsOf
<1> QED
  BY <1>1 DEF LogChanges, BalanceChanges

LEMMA ChangesParent ==
  ASSUME NEW b \in Block, Parent[b] \in Block
  PROVE  LogChanges(Parent[b], b) = BalanceChanges(ToSet(Logs[b]))
<1>1. LogsOf(Above(Parent[b], b)) = ToSet(Logs[b])
  BY AboveParent DEF LogsOf
<1> QED
  BY <1>1 DEF LogChanges

-----------------------------------------------------------------------------
(* What is pending.                                                        *)

\* What a lower part of the branch changes, and what the rest of it does.
LEMMA PendingSplits ==
  ASSUME NEW a \in Block, NEW b \in Block, NEW c \in Block, OnBranch(a, b), OnBranch(b, c),
         NEW x
  PROVE  Pending(a, c, x) <=> Pending(a, b, x) \/ Pending(b, c, x)
<1>1. Existing(a) \subseteq Existing(b) /\ Existing(b) \subseteq Existing(c)
  BY ExistingGrows
<1>2. x \in LogChanges(a, c) <=> x \in LogChanges(a, b) \/ x \in LogChanges(b, c)
  BY ChangesSplit
<1>3. x[1] \in Existing(c) \ Existing(a)
      <=> x[1] \in Existing(b) \ Existing(a) \/ x[1] \in Existing(c) \ Existing(b)
  BY <1>1
<1> QED
  BY <1>2, <1>3 DEF Pending

LEMMA PendingNothing ==
  ASSUME NEW b \in Block, NEW x
  PROVE  ~Pending(b, b, x)
  BY ChangesNothing DEF Pending

-----------------------------------------------------------------------------
(* The balances of a chain.                                                *)

\* The places of the logs that give to a holder, and of those that take.
Received(b, x) ==
  UNION {{<<d, n>> : n \in {m \in DOMAIN Logs[Branch[b][d]] :
            Logs[Branch[b][d]][m].contract = x[1] /\ Logs[Branch[b][d]][m].to = x[2]}}
         : d \in 0 .. Depth[b]}
Sent(b, x) ==
  UNION {{<<d, n>> : n \in {m \in DOMAIN Logs[Branch[b][d]] :
            Logs[Branch[b][d]][m].contract = x[1] /\ Logs[Branch[b][d]][m].from = x[2]}}
         : d \in 0 .. Depth[b]}

LEMMA BalanceOf ==
  ASSUME NEW b, NEW x
  PROVE  Balance(b, x) = (IF x[2] \in Endowed(b, x[1]) THEN 1 ELSE 0)
                         + Cardinality(Received(b, x)) - Cardinality(Sent(b, x))
  BY DEF Balance, Number, Received, Sent

LEMMA CreationsOf ==
  ASSUME NEW b \in Block, NEW y \in ToSet(Creations[b])
  PROVE  y.contract \in Contract /\ y.owner \in Holder
<1>1. Creations[b] \in Seq([contract : Contract, owner : Holder])
  BY ContractAssumption
<1>2. \A n \in DOMAIN Creations[b] : Creations[b][n] \in [contract : Contract, owner : Holder]
  BY <1>1, LenProperties
<1> QED
  BY <1>2 DEF ToSet

\* The owner of a contract that is there begins with a unit.
LEMMA EndowedOf ==
  ASSUME NEW b \in Block, NEW x \in Contract \X Holder
  PROVE  x[2] \in Endowed(b, x[1]) <=> x \in Owners /\ x[1] \in Existing(b)
<1>1. ASSUME x[2] \in Endowed(b, x[1])
      PROVE  x \in Owners /\ x[1] \in Existing(b)
  <2>1. PICK a \in Chain(b) : \E y \in ToSet(Creations[a]) : y.contract = x[1] /\ y.owner = x[2]
    BY <1>1 DEF Endowed
  <2>2. PICK y \in ToSet(Creations[a]) : y.contract = x[1] /\ y.owner = x[2]
    BY <2>1
  <2>3. a \in Block /\ x = <<y.contract, y.owner>>
    BY <2>2, ChainBlocks
  <2>4. x \in Owners
    BY <2>3 DEF Owners
  <2>5. x[1] \in CreatedIn(a)
    BY <2>2 DEF CreatedIn
  <2> QED
    BY <2>4, <2>5 DEF Existing
<1>2. ASSUME x \in Owners, x[1] \in Existing(b)
      PROVE  x[2] \in Endowed(b, x[1])
  <2>1. PICK a \in Block : \E y \in ToSet(Creations[a]) : x = <<y.contract, y.owner>>
    BY <1>2 DEF Owners
  <2>2. PICK y \in ToSet(Creations[a]) : x = <<y.contract, y.owner>>
    BY <2>1
  <2>3. x[1] = y.contract /\ x[2] = y.owner
    BY <2>2
  <2>4. x[1] \notin Dgp
    BY <2>2, <2>3, CreationAssumption
  <2>5. PICK c \in Chain(b) : x[1] \in CreatedIn(c)
    BY <1>2, <2>4 DEF Existing
  <2>6. c \in Block
    BY ChainBlocks
  <2>7. x[1] \notin Inner[c]
    BY <2>2, <2>3, <2>6, CreationAssumption
  <2>8. PICK z \in ToSet(Creations[c]) : z.contract = x[1]
    BY <2>5, <2>7 DEF CreatedIn
  <2>9. z = y
    BY <2>2, <2>3, <2>6, <2>8, CreationAssumption
  <2> QED
    BY <2>3, <2>8, <2>9 DEF Endowed
<1> QED
  BY <1>1, <1>2

\* A log of a QRC20 has the balances of its sender and receiver asked for.
LEMMA LogAsks ==
  ASSUME NEW x \in Pairs, NEW c \in Block, NEW l \in ToSet(Logs[c]),
         l.contract = x[1], x[2] \in {l.from, l.to},
         NEW logs, l \in logs
  PROVE  x \in BalanceChanges(logs)
<1>1. x = <<x[1], x[2]>> /\ x[2] \in Holder /\ Standard[x[1]] = "qrc20"
  BY DEF Pairs
<1>2. ~IsToken(l)
  BY <1>1, LogAssumption DEF IsToken
<1>3. x[2] # Nobody
  BY <1>1, ContractAssumption
<1> QED
  BY <1>1, <1>2, <1>3 DEF BalanceChanges

\* The contracts of what logs have asked for.
LEMMA AskedExists ==
  ASSUME NEW b \in Block, NEW x \in BalanceChanges(ToSet(Logs[b]))
  PROVE  x[1] \in Existing(b)
  BY LogAssumption DEF BalanceChanges

\* Nobody has a balance of a contract that is not there.
LEMMA BalanceNone ==
  ASSUME NEW b \in Block, NEW x \in Contract \X Holder, x[1] \notin Existing(b)
  PROVE  Balance(b, x) = 0
<1>1. ASSUME NEW d \in 0 .. Depth[b], NEW n \in DOMAIN Logs[Branch[b][d]]
      PROVE  Logs[Branch[b][d]][n].contract # x[1]
  <2>1. Branch[b][d] \in Block /\ Branch[b][d] \in Chain(b)
    BY BranchBlock DEF Chain
  <2>2. Existing(Branch[b][d]) \subseteq Existing(b)
    BY <2>1, ChainBlocks, ExistingGrows
  <2>3. Logs[Branch[b][d]][n] \in ToSet(Logs[Branch[b][d]])
    BY DEF ToSet
  <2> QED
    BY <2>1, <2>2, <2>3, LogAssumption
<1>2. Received(b, x) = {} /\ Sent(b, x) = {}
  BY <1>1 DEF Received, Sent
<1>3. Cardinality({}) = 0
  BY FS_EmptySet
<1>4. x[2] \notin Endowed(b, x[1])
  BY EndowedOf
<1> QED
  BY <1>2, <1>3, <1>4, BalanceOf

\* The balance of a chain is that of a lower part of it, unless one of the
\* blocks between them changes it.
LEMMA BalanceStays ==
  ASSUME NEW a \in Block, NEW b \in Block, OnBranch(a, b), NEW x \in Pairs,
         ~Pending(a, b, x)
  PROVE  Balance(a, x) = Balance(b, x)
<1>1. x \in Contract \X Holder
  BY DEF Pairs
<1>2. x \notin LogChanges(a, b) /\ (x \in Owners => x[1] \notin Existing(b) \ Existing(a))
  BY DEF Pending
<1>3. /\ Depth[a] \in Nat /\ Depth[b] \in Nat /\ Depth[a] <= Depth[b]
      /\ Branch[b][Depth[a]] = a
  BY DepthNat DEF OnBranch
<1>4. ASSUME NEW d \in 0 .. Depth[b], d \notin 0 .. Depth[a],
             NEW n \in DOMAIN Logs[Branch[b][d]],
             Logs[Branch[b][d]][n].contract = x[1]
      PROVE  Logs[Branch[b][d]][n].from # x[2] /\ Logs[Branch[b][d]][n].to # x[2]
  <2> DEFINE c == Branch[b][d]
             l == Logs[c][n]
  <2>1. d \in Depth[a] + 1 .. Depth[b]
    BY <1>3, <1>4
  <2>2. c \in Block /\ c \in Above(a, b)
    BY <2>1, BranchBlock DEF Above
  <2>3. l \in ToSet(Logs[c])
    BY DEF ToSet
  <2>4. l \in LogsOf(Above(a, b))
    BY <2>2, <2>3 DEF LogsOf
  <2>5. l.contract = x[1]
    BY <1>4
  <2> HIDE DEF l, c
  <2>6. x[2] \notin {l.from, l.to}
    BY <1>2, <2>2, <2>3, <2>4, <2>5, LogAsks DEF LogChanges
  <2> QED
    BY <2>6 DEF l, c
<1>5. ASSUME NEW d \in 0 .. Depth[a]
      PROVE  d \in 0 .. Depth[b] /\ Branch[a][d] = Branch[b][d]
  <2>1. d \in 0 .. Depth[b] /\ Depth[a] \in 0 .. Depth[b]
    BY <1>3
  <2>2. Branch[Branch[b][Depth[a]]][d] = Branch[b][d]
    BY <2>1, BranchPrefix
  <2> QED
    BY <1>3, <2>1, <2>2
<1>6. Received(a, x) = Received(b, x)
  <2>1. ASSUME NEW p \in Received(a, x) PROVE p \in Received(b, x)
    BY <1>5 DEF Received
  <2>2. ASSUME NEW p \in Received(b, x) PROVE p \in Received(a, x)
    BY <1>4, <1>5 DEF Received
  <2> QED
    BY <2>1, <2>2
<1>7. Sent(a, x) = Sent(b, x)
  <2>1. ASSUME NEW p \in Sent(a, x) PROVE p \in Sent(b, x)
    BY <1>5 DEF Sent
  <2>2. ASSUME NEW p \in Sent(b, x) PROVE p \in Sent(a, x)
    BY <1>4, <1>5 DEF Sent
  <2> QED
    BY <2>1, <2>2
<1>8. x[2] \in Endowed(a, x[1]) <=> x[2] \in Endowed(b, x[1])
  <2>1. Existing(a) \subseteq Existing(b)
    BY ExistingGrows
  <2> QED
    BY <1>1, <1>2, <2>1, EndowedOf
<1> QED
  BY <1>6, <1>7, <1>8, BalanceOf

-----------------------------------------------------------------------------
(* What a row shows, when the node goes on.                                *)

\* The balance v is that of block b, or nobody has it.
RightAt(v, b, x) == v = Balance(b, x) \/ (x \in Owners /\ x[1] \notin Existing(b))

LEMMA RightGrows ==
  ASSUME NEW a \in Block, NEW b \in Block, OnBranch(a, b), NEW x \in Pairs, NEW v,
         RightAt(v, a, x)
  PROVE  RightAt(v, b, x) \/ Pending(a, b, x)
<1>1. CASE v = Balance(a, x)
  BY <1>1, BalanceStays DEF RightAt
<1>2. CASE x \in Owners /\ x[1] \notin Existing(a)
  BY <1>2 DEF RightAt, Pending
<1> QED
  BY <1>1, <1>2 DEF RightAt

\* What the node answered of late is still so, or will be asked for again.
LEMMA AnswerHolds ==
  ASSUME NEW t \in Block, NEW n \in Block, OnBranch(t, n),
         NEW a \in Block, OnBranch(a, n), Depth[a] <= Depth[t],
         NEW x \in Pairs, NEW v, RightAt(v, t, x)
  PROVE  RightAt(v, n, x) \/ Pending(a, n, x)
<1>1. OnBranch(a, t)
  BY OnBranchBetween
<1>2. Pending(t, n, x) => Pending(a, n, x)
  BY <1>1, PendingSplits
<1> QED
  BY <1>2, RightGrows

-----------------------------------------------------------------------------
(* Where the blocks of a state are.                                        *)

LEMMA BlockPlace ==
  ASSUME ContractInv, block # NoBlock
  PROVE  /\ phase = "run" /\ block \in Block /\ logged = block
         /\ Parent[block] = storedTip /\ Parent[block] \in Block
         /\ OnBranch(block, nodeTip) /\ OnBranch(storedTip, block) /\ OnBranch(storedTip, nodeTip)
         /\ block # storedTip /\ Depth[block] = Depth[storedTip] + 1
<1>1. /\ nodeTip \in Block /\ storedTip \in Block /\ block \in Block
      /\ Parent[block] = storedTip /\ OnBranch(block, nodeTip) /\ logged = block
      /\ phase = "run"
  BY DEF ContractInv, ShapeInv, TipInv, JobInv
<1>2. OnBranch(storedTip, block) /\ Depth[block] = Depth[storedTip] + 1
  BY <1>1, OnBranchParent
<1>3. OnBranch(storedTip, nodeTip)
  BY <1>1, <1>2, OnBranchTrans
<1>4. block # storedTip
  BY <1>1, <1>2, DepthNat
<1> QED
  BY <1>1, <1>2, <1>3, <1>4

LEMMA DonePlace ==
  ASSUME ContractInv, BalancesInv
  PROVE  /\ Done \in Block /\ nodeTip \in Block /\ storedTip \in Block /\ logged \in Block
         /\ OnBranch(storedTip, Done) /\ OnBranch(Done, logged)
         /\ Depth[Done] <= Depth[nodeTip] /\ Depth[storedTip] <= Depth[nodeTip]
         /\ Done = storedTip \/ (block # NoBlock /\ Done = block)
<1>1. /\ nodeTip \in Block /\ storedTip \in Block /\ logged \in Block
      /\ Depth[storedTip] <= Depth[nodeTip] /\ OnBranch(storedTip, logged)
  BY DEF ContractInv, ShapeInv, TipInv, BalancesInv
<1>2. CASE Done = storedTip
  BY <1>1, <1>2, OnBranchSelf
<1>3. CASE block # NoBlock /\ Done = block
  BY <1>1, <1>3, BlockPlace, OnBranchSelf DEF OnBranch
<1> QED
  BY <1>2, <1>3 DEF Done

-----------------------------------------------------------------------------
(* The steps that write no balance.                                        *)

\* The rows stay, and no higher block is asked about.
LEMMA BalancesKept ==
  ASSUME BalanceInv, UNCHANGED <<nodeTip, logged>>,
         \A x \in Pairs : Shown(x)' = Shown(x) /\ (Lost(x) => Lost(x)'),
         Asked' => Asked,
         \A a \in Block : OnBranch(a, Done') => OnBranch(a, Done)
  PROVE  BalanceInv'
<1> SUFFICES ASSUME NEW a \in Block, OnBranch(a, Done'), OnBranch(a, nodeTip), NEW x \in Pairs
             PROVE  \/ Lost(x)' \/ Right(x)' \/ Pending(a, nodeTip, x)
                    \/ ~Asked' /\ x \in LogChanges(a, logged)
  BY DEF BalanceInv
<1>1. \/ Lost(x) \/ Right(x) \/ Pending(a, nodeTip, x)
      \/ ~Asked /\ x \in LogChanges(a, logged)
  BY DEF BalanceInv
<1>2. Right(x)' <=> Right(x)
  BY DEF Right
<1> QED
  BY <1>1, <1>2

\* A step of a handler.
LEMMA QuietStep ==
  ASSUME ContractInv, BalancesInv, NEW w \in Handler, phase # "down", job[w].pc # "none",
         UNCHANGED <<nodeTip, storedTip, logged, phase, block>>,
         \A x \in Pairs : Shown(x)' = Shown(x) /\ (Lost(x) => Lost(x)'),
         KindInv',
         \A v \in Handler : v # w => job'[v] = job[v],
         job'[w].pc = "compare" => \E t \in Block : Recent(t, w) /\ job'[w].listed = Existing(t),
         w = "block" => Done' = Done /\ (Asked' => Asked) /\ OwnerInv',
         w = "block" /\ job'[w].pc \in {"read", "write"} => AnswerInv'
  PROVE  BalancesInv'
<1>1. /\ \A v \in Handler : v # w => job[v] = NoJob
      /\ w = "sync" => phase = "run" /\ block = NoBlock
  BY OneHandler DEF ContractInv
<1>2. \A v \in Handler : v # w => job'[v] = NoJob
  BY <1>1
<1>3. NoJob.pc = "none" /\ NoJob.stage = "none"
  BY DEF NoJob
<1>4. w = "sync" => job["block"] = NoJob /\ job'["block"] = NoJob
  BY <1>1, <1>2 DEF Handler
<1>5. Done' = Done
  <2>1. CASE w = "sync"
    BY <1>1, <2>1 DEF Done
  <2> QED
    BY <2>1 DEF Handler
<1>6. Asked' => Asked
  <2>1. CASE w = "sync"
    BY <1>1, <2>1 DEF Asked
  <2> QED
    BY <2>1 DEF Handler
<1>7. BalanceInv'
  BY <1>5, <1>6, BalancesKept DEF BalancesInv
<1>8. OwnerInv'
  <2>1. CASE w = "sync"
    BY <1>1, <1>3, <1>4, <2>1 DEF OwnerInv
  <2> QED
    BY <2>1 DEF Handler
<1>9. AnswerInv'
  <2>1. CASE job'["block"].pc \notin {"read", "write"}
    BY <2>1 DEF AnswerInv
  <2>2. CASE w = "sync"
    BY <1>3, <1>4, <2>2 DEF AnswerInv
  <2> QED
    BY <2>1, <2>2 DEF Handler
<1>10. ComparedInv'
  <2> SUFFICES ASSUME NEW v \in Handler, job'[v].pc = "compare"
               PROVE  \E t \in Block : Recent(t, v)' /\ job'[v].listed = Existing(t)
    BY DEF ComparedInv
  <2>1. v = w
    BY <1>2, <1>3
  <2>2. \A t : Recent(t, w)' <=> Recent(t, w)
    BY DEF Recent
  <2> QED
    BY <2>1, <2>2
<1>11. (OnBranch(storedTip, logged) /\ (phase = "start" => logged = storedTip))'
  BY DEF BalancesInv, OnBranch
<1> QED
  BY <1>7, <1>8, <1>9, <1>10, <1>11 DEF BalancesInv

\* The block is done with when its receipts are.
LEMMA DoneAtEnd ==
  ASSUME ContractInv, block # NoBlock,
         job["block"].stage # "creations",
         ~(job["block"].stage = "receipts" /\ job["block"].pc \in {"read", "write"})
  PROVE  Done = block /\ Done # storedTip
  BY BlockPlace DEF Done

LEMMA HandlerBlock == "block" \in Handler /\ "sync" \in Handler
  BY DEF Handler

\* The head of the list is of the block that is being written.
LEMMA HeadOfBlock ==
  ASSUME ContractInv, BalancesInv, job["block"].stage = "creations", job["block"].todo # <<>>,
         job["block"].pc \in Creating \cup {"read", "write"}
  PROVE  LET y == Head(job["block"].todo) IN
         /\ block # NoBlock
         /\ y \in ToSet(Creations[block]) /\ y.contract \in Existing(block)
         /\ y.contract \in Existing(nodeTip) /\ y.contract \notin Dgp
         /\ ToSet(Tail(job["block"].todo)) \subseteq ToSet(Creations[block])
         /\ \A n \in DOMAIN job["block"].todo :
              job["block"].todo[n] = y
              \/ \E m \in DOMAIN Tail(job["block"].todo) :
                   Tail(job["block"].todo)[m] = job["block"].todo[n]
<1> DEFINE s == job["block"].todo
<1>1. phase # "down" /\ job["block"].pc # "none"
  <2>1. job["block"].pc # "none" /\ NoJob.pc = "none"
    BY DEF Creating, NoJob
  <2> QED
    BY <2>1, HandlerBlock DEF ContractInv, JobInv
<1>2. block # NoBlock
  BY <1>1, HandlerBlock, OneHandler DEF ContractInv, ReorgJob, ShapeInv
<1>3. s \in Seq(Items) /\ ToSet(s) \subseteq ToSet(Creations[block])
  BY HandlerBlock DEF ContractInv, CreateInv, BalancesInv, OwnerInv
<1> HIDE DEF s
<1>4. /\ Len(s) \in Nat /\ Len(s) > 0 /\ DOMAIN s = 1 .. Len(s) /\ Head(s) = s[1]
  BY <1>3, EmptySeq DEF s
<1>5. /\ Tail(s) \in Seq(Items) /\ Len(Tail(s)) = Len(s) - 1
      /\ \A n \in 1 .. Len(Tail(s)) : Tail(s)[n] = s[n+1]
  BY <1>3, HeadTailProperties DEF s
<1>6. DOMAIN Tail(s) = 1 .. Len(s) - 1
  BY <1>5
<1>7. 1 \in DOMAIN s
  BY <1>4
<1>8. Head(s) \in ToSet(Creations[block])
  BY <1>3, <1>4, <1>7 DEF ToSet
<1>9. block \in Block /\ OnBranch(block, nodeTip) /\ nodeTip \in Block
  BY <1>2, BlockPlace DEF ContractInv, ShapeInv
<1>10. Head(s).contract \in Existing(block)
  <2>1. block \in Chain(block)
    BY <1>9, DepthNat, BranchAssumption DEF Chain
  <2> QED
    BY <1>8, <2>1 DEF Existing, CreatedIn
<1>11. Head(s).contract \in Existing(nodeTip) /\ Head(s).contract \notin Dgp
  BY <1>8, <1>9, <1>10, ExistingGrows, CreationAssumption
<1>12. ToSet(Tail(s)) \subseteq ToSet(s)
  <2>1. \A n \in 1 .. Len(s) - 1 : n + 1 \in 1 .. Len(s)
    BY <1>4
  <2>2. \A n \in DOMAIN Tail(s) : Tail(s)[n] = s[n+1] /\ n + 1 \in DOMAIN s
    BY <1>4, <1>5, <1>6, <2>1
  <2> QED
    BY <2>2 DEF ToSet
<1>13. \A n \in DOMAIN s : s[n] = Head(s) \/ \E m \in DOMAIN Tail(s) : Tail(s)[m] = s[n]
  <2>1. \A n \in 1 .. Len(s) : n = 1 \/ (n - 1 \in 1 .. Len(s) - 1 /\ (n - 1) + 1 = n)
    BY <1>4
  <2> QED
    BY <1>4, <1>5, <1>6, <2>1
<1> QED
  BY <1>2, <1>3, <1>8, <1>10, <1>11, <1>12, <1>13 DEF s

-----------------------------------------------------------------------------
(* _createContract.                                                        *)

\* The rows of the balances stay, and what is lost of them.
Quiet == db'.balances = db.balances
         /\ \A x : <<"balance", x>> \in lost => <<"balance", x>> \in lost'

LEMMA QuietRows ==
  ASSUME Quiet
  PROVE  \A x : Shown(x)' = Shown(x) /\ (Lost(x) => Lost(x)')
  BY DEF Quiet, Shown, Lost

\* What a step of a handler to one of its places has to keep.
LEMMA CreatingQuiet ==
  ASSUME ContractInv, BalancesInv, NEW w \in Handler, phase # "down", job[w].pc \in Creating,
         UNCHANGED <<nodeTip, storedTip, logged, phase, block>>,
         Quiet, KindInv',
         \A v \in Handler : v # w => job'[v] = job[v],
         job'[w].pc \in Creating \cup {"read"}, job'[w].stage = job[w].stage,
         job[w].stage = "creations" => OwnerInv',
         job'[w].pc = "read" => AnswerInv' /\ job[w].stage = "creations"
  PROVE  BalancesInv'
<1>1. /\ phase = "run"
      /\ job[w].stage = "sync" \/ (w = "block" /\ job[w].stage = "creations")
  BY CreatingStage DEF ContractInv
<1>2. job[w].pc # "none" /\ job'[w].pc \notin {"compare", "write", "none"}
  BY DEF Creating
<1>3. \A x \in Pairs : Shown(x)' = Shown(x) /\ (Lost(x) => Lost(x)')
  BY QuietRows
<1>4. w = "block" => block # NoBlock
  BY <1>1, <1>2, OneHandler DEF ContractInv
<1>5. w = "block" => Done' = Done
  BY <1>1, <1>4 DEF Done
<1>6. ~Asked'
  BY <1>1 DEF Asked
<1>7. w = "block" => OwnerInv'
  <2>1. CASE job[w].stage = "creations"
    BY <2>1
  <2>2. CASE w = "block" /\ job[w].stage = "sync"
    <3>1. Done = block /\ Done # storedTip
      BY <1>4, <2>2, DoneAtEnd
    <3> QED
      BY <1>5, <2>2, <3>1 DEF OwnerInv
  <2> QED
    BY <1>1, <2>1, <2>2
<1> QED
  BY <1>2, <1>3, <1>5, <1>6, <1>7, QuietStep

LEMMA FindBalances ==
  ASSUME ContractInv, BalancesInv, NEW w \in Handler, Find(w)
  PROVE  BalancesInv'
<1> DEFINE c == Head(job[w].todo).contract
<1>1. /\ phase # "down" /\ job[w].pc = "find" /\ job[w].todo # <<>> /\ job[w].pc \in Creating
      /\ UNCHANGED <<nodeTip, storedTip, logged, phase, block, db, lost>>
  BY DEF Find, At, Reads, node, tips, process, Creating
<1>2. DOMAIN job = Handler /\ DOMAIN job[w] = DOMAIN NoJob
  BY DEF ContractInv, ShapeInv
<1>3. Quiet
  BY <1>1 DEF Quiet
<1>4. KindInv'
  BY <1>1 DEF BalancesInv, KindInv, Known
<1>5. job[w].stage = "creations" => c \in Existing(nodeTip) /\ w = "block"
  <2>1. job[w].stage = "creations" => w = "block"
    BY <1>1, CreatingStage DEF ContractInv
  <2> QED
    BY <1>1, <2>1, HeadOfBlock
<1>6. CASE c \notin Known /\ c \notin Existing(nodeTip) /\ job' = [job EXCEPT ![w].todo = Tail(@)]
  <2>1. /\ \A v \in Handler : v # w => job'[v] = job[v]
        /\ job'[w].pc = "find" /\ job'[w].stage = job[w].stage
    BY <1>1, <1>2, <1>6 DEF NoJob
  <2>2. job[w].stage # "creations"
    BY <1>5, <1>6
  <2> QED
    BY <1>1, <1>3, <1>4, <2>1, <2>2, CreatingQuiet DEF Creating
<1>7. CASE \/ Goes(w, "owner")
           \/ job' = [job EXCEPT ![w].pc = "save", ![w].answer = Supply(nodeTip, c)]
  <2>1. /\ \A v \in Handler : v # w => job'[v] = job[v]
        /\ job'[w].pc \in {"owner", "save"} /\ job'[w].stage = job[w].stage
        /\ job'[w].todo = job[w].todo
    BY <1>1, <1>2, <1>7 DEF NoJob, Goes
  <2>2. job[w].stage = "creations" => OwnerInv'
    <3> SUFFICES ASSUME job[w].stage = "creations" PROVE OwnerInv'
      OBVIOUS
    <3>1. w = "block" /\ OwnerInv /\ Done' = storedTip /\ Done = storedTip
      BY <1>1, <1>5, <2>1 DEF BalancesInv, Done
    <3>2. \A x : Right(x)' = Right(x) /\ Lost(x)' = Lost(x)
      BY <1>1 DEF Right, Lost, Shown
    <3> QED
      BY <1>1, <2>1, <3>1, <3>2 DEF OwnerInv
  <2> QED
    BY <1>1, <1>3, <1>4, <2>1, <2>2, CreatingQuiet DEF Creating
<1> QED
  BY <1>6, <1>7 DEF Find, Known

LEMMA SaveBalances ==
  ASSUME ContractInv, BalancesInv, NEW w \in Handler, SaveContract(w)
  PROVE  BalancesInv'
<1> DEFINE c == Head(job[w].todo).contract
<1>1. phase # "down" /\ job[w].pc = "save" /\ job[w].pc \in Creating
  BY DEF SaveContract, At, Creating
<1>2. /\ DOMAIN job = Handler /\ DOMAIN job[w] = DOMAIN NoJob
      /\ DOMAIN db = {"contracts", "supplies", "balances", "holders"}
  BY DEF ContractInv, ShapeInv
<1>3. c \notin DOMAIN db.contracts
  BY <1>1 DEF ContractInv, CreateInv, Known
<1>4. /\ db' = [db EXCEPT !.contracts = Written([x \in {c} |-> Standard[c]], @)]
      /\ Goes(w, "detail")
      /\ UNCHANGED <<nodeTip, storedTip, logged, phase, block, lost>>
  BY <1>3 DEF SaveContract, Writes, node, tips, process
<1>5. /\ db'.contracts = Written([x \in {c} |-> Standard[c]], db.contracts)
      /\ db'.balances = db.balances
  BY <1>2, <1>4
<1>6. Quiet
  BY <1>4, <1>5 DEF Quiet
<1>7. KindInv'
  BY <1>5 DEF BalancesInv, KindInv, Known, Written
<1>8. /\ \A v \in Handler : v # w => job'[v] = job[v]
      /\ job'[w].pc = "detail" /\ job'[w].stage = job[w].stage /\ job'[w].todo = job[w].todo
  BY <1>2, <1>4 DEF NoJob, Goes
<1>9. job[w].stage = "creations" => OwnerInv'
  <2> SUFFICES ASSUME job[w].stage = "creations" PROVE OwnerInv'
    OBVIOUS
  <2>1. w = "block"
    BY <1>1, CreatingStage DEF ContractInv
  <2>2. OwnerInv /\ Done' = storedTip /\ Done = storedTip
    BY <1>4, <1>8, <2>1 DEF BalancesInv, Done
  <2>3. \A x : Right(x)' = Right(x) /\ Lost(x)' = Lost(x)
    BY <1>4, <1>5 DEF Right, Lost, Shown
  <2> QED
    BY <1>4, <1>8, <2>1, <2>2, <2>3 DEF OwnerInv
<1> QED
  BY <1>1, <1>4, <1>6, <1>7, <1>8, <1>9, CreatingQuiet DEF Creating

LEMMA DetailsBalances ==
  ASSUME ContractInv, BalancesInv, NEW w \in Handler, CreateDetails(w)
  PROVE  BalancesInv'
<1> DEFINE c == Head(job[w].todo).contract
<1>1. phase # "down" /\ job[w].pc = "detail" /\ job[w].pc \in Creating
  BY DEF CreateDetails, At, Creating
<1>2. /\ DOMAIN job = Handler /\ DOMAIN job[w] = DOMAIN NoJob
      /\ DOMAIN db = {"contracts", "supplies", "balances", "holders"}
  BY DEF ContractInv, ShapeInv
<1>3. /\ Goes(w, "owner") /\ lost' = lost \ {<<"supply", c>>}
      /\ UNCHANGED <<nodeTip, storedTip, logged, phase, block>>
  BY DEF CreateDetails, Writes, node, tips, process
<1>4. db'.contracts = db.contracts /\ db'.balances = db.balances
  BY <1>2 DEF CreateDetails
<1>5. Quiet /\ \A x : Lost(x)' = Lost(x)
  BY <1>3, <1>4 DEF Quiet, Lost
<1>6. KindInv'
  BY <1>4 DEF BalancesInv, KindInv, Known
<1>7. /\ \A v \in Handler : v # w => job'[v] = job[v]
      /\ job'[w].pc = "owner" /\ job'[w].stage = job[w].stage /\ job'[w].todo = job[w].todo
  BY <1>2, <1>3 DEF NoJob, Goes
<1>8. job[w].stage = "creations" => OwnerInv'
  <2> SUFFICES ASSUME job[w].stage = "creations" PROVE OwnerInv'
    OBVIOUS
  <2>1. w = "block"
    BY <1>1, CreatingStage DEF ContractInv
  <2>2. OwnerInv /\ Done' = storedTip /\ Done = storedTip
    BY <1>3, <1>7, <2>1 DEF BalancesInv, Done
  <2>3. \A x : Right(x)' = Right(x)
    BY <1>3, <1>4 DEF Right, Shown
  <2> QED
    BY <1>3, <1>5, <1>7, <2>1, <2>2, <2>3 DEF OwnerInv
<1> QED
  BY <1>1, <1>3, <1>5, <1>6, <1>7, <1>8, CreatingQuiet DEF Creating

LEMMA AskOwnerBalances ==
  ASSUME ContractInv, BalancesInv, NEW w \in Handler, AskOwner(w)
  PROVE  BalancesInv'
<1> DEFINE y == Head(job[w].todo)
           asks == job[w].stage = "creations" /\ y.contract \in DOMAIN db.contracts
                   /\ db.contracts[y.contract] = "qrc20"
<1>1. /\ phase # "down" /\ job[w].pc = "owner" /\ job[w].pc \in Creating
      /\ UNCHANGED <<nodeTip, storedTip, logged, phase, block, db, lost>>
      /\ job' = IF asks THEN [job EXCEPT ![w].pc = "read", ![w].changes = {<<y.contract, y.owner>>}]
                ELSE [job EXCEPT ![w].pc = "find", ![w].todo = Tail(@)]
  BY DEF AskOwner, At, Reads, node, tips, process, Creating
<1>2. DOMAIN job = Handler /\ DOMAIN job[w] = DOMAIN NoJob
  BY DEF ContractInv, ShapeInv
<1>3. job[w].todo # <<>> /\ y.contract \in Known
  BY <1>1 DEF ContractInv, CreateInv
<1>4. Quiet
  BY <1>1 DEF Quiet
<1>5. KindInv'
  BY <1>1 DEF BalancesInv, KindInv, Known
<1>6. \A v \in Handler : v # w => job'[v] = job[v]
  BY <1>1, <1>2
<1>7. job[w].stage = "creations" => w = "block"
  BY <1>1, CreatingStage DEF ContractInv
<1>8. \A x : Right(x)' = Right(x) /\ Lost(x)' = Lost(x)
  BY <1>1 DEF Right, Lost, Shown
<1>9. CASE asks
  <2>1. /\ job'[w].pc = "read" /\ job'[w].stage = "creations" /\ job'[w].stage = job[w].stage
        /\ job'[w].todo = job[w].todo /\ job'[w].changes = {<<y.contract, y.owner>>}
    BY <1>1, <1>2, <1>9 DEF NoJob
  <2>2. w = "block" /\ OwnerInv /\ Done' = storedTip /\ Done = storedTip
    BY <1>1, <1>7, <1>9, <2>1 DEF BalancesInv, Done
  <2>3. OwnerInv'
    BY <1>1, <1>8, <2>1, <2>2 DEF OwnerInv
  <2>4. AnswerInv'
    <3>1. phase = "run"
      BY <1>1, CreatingStage DEF ContractInv
    <3> QED
      BY <1>1, <2>1, <2>2, <3>1 DEF AnswerInv
  <2> QED
    BY <1>1, <1>4, <1>5, <1>6, <1>9, <2>1, <2>3, <2>4, CreatingQuiet
<1>10. CASE ~asks
  <2>1. /\ job'[w].pc = "find" /\ job'[w].stage = job[w].stage
        /\ job'[w].todo = Tail(job[w].todo)
    BY <1>1, <1>2, <1>10 DEF NoJob
  <2>2. job[w].stage = "creations" => OwnerInv'
    <3> SUFFICES ASSUME job[w].stage = "creations" PROVE OwnerInv'
      OBVIOUS
    <3>1. w = "block" /\ OwnerInv /\ Done' = storedTip /\ Done = storedTip
      BY <1>1, <1>7, <2>1 DEF BalancesInv, Done
    <3> DEFINE s == job["block"].todo
    <3>2. /\ y.contract \notin Dgp /\ ToSet(Tail(s)) \subseteq ToSet(Creations[block])
          /\ \A n \in DOMAIN s : s[n] = y \/ \E m \in DOMAIN Tail(s) : Tail(s)[m] = s[n]
      BY <1>1, <1>3, <3>1, HeadOfBlock
    <3>3. Standard[y.contract] # "qrc20"
      BY <1>3, <1>10, <3>2 DEF BalancesInv, KindInv, Known
    <3>4. \A x \in Pairs : x # <<y.contract, y.owner>>
      BY <3>3 DEF Pairs
    <3>5. \A x \in Pairs : (\E n \in DOMAIN s : x = <<s[n].contract, s[n].owner>>)
            => \E m \in DOMAIN Tail(s) : x = <<Tail(s)[m].contract, Tail(s)[m].owner>>
      BY <3>2, <3>4
    <3>6. job'["block"].todo = Tail(s) /\ job'["block"].stage = job["block"].stage
      BY <2>1, <3>1
    <3> HIDE DEF s
    <3>7. (block # NoBlock /\ Done = storedTip =>
           \A x \in Pairs \cap Owners : x[1] \in Existing(block) \ Existing(storedTip) =>
             \/ Lost(x) \/ Right(x) \/ Pending(block, nodeTip, x)
             \/ x \in BalanceChanges(ToSet(Logs[block]))
             \/ job["block"].stage = "creations"
                /\ \E n \in DOMAIN job["block"].todo :
                     x = <<job["block"].todo[n].contract, job["block"].todo[n].owner>>)'
      BY <1>1, <1>8, <3>1, <3>5, <3>6 DEF OwnerInv, s
    <3> QED
      BY <1>1, <3>2, <3>6, <3>7 DEF OwnerInv
  <2> QED
    BY <1>1, <1>4, <1>5, <1>6, <2>1, <2>2, CreatingQuiet DEF Creating
<1> QED
  BY <1>9, <1>10

-----------------------------------------------------------------------------
(* _syncContracts.                                                         *)

\* A handler that has gone on with its block never asks for its owners.
LEMMA LaterOwners ==
  ASSUME ContractInv, UNCHANGED <<storedTip, block>>,
         job'["block"].stage # "creations",
         block = NoBlock \/ Done' = block
  PROVE  OwnerInv'
<1>1. block = NoBlock \/ Done' # storedTip
  BY BlockPlace
<1> QED
  BY <1>1 DEF OwnerInv

LEMMA ListBalances ==
  ASSUME ContractInv, BalancesInv, NEW w \in Handler, ListContracts(w)
  PROVE  BalancesInv'
<1>1. /\ phase # "down" /\ job[w].pc = "list" /\ job[w].pc # "none"
      /\ UNCHANGED <<nodeTip, storedTip, logged, phase, block, db, lost>>
      /\ job' = [job EXCEPT ![w].pc = "compare", ![w].listed = Existing(nodeTip)]
  BY DEF ListContracts, At, Reads, node, tips, process
<1>2. DOMAIN job = Handler /\ DOMAIN job[w] = DOMAIN NoJob
  BY DEF ContractInv, ShapeInv
<1>3. /\ \A v \in Handler : v # w => job'[v] = job[v]
      /\ job'[w].pc = "compare" /\ job'[w].stage = job[w].stage
      /\ job'[w].listed = Existing(nodeTip)
  BY <1>1, <1>2 DEF NoJob
<1>4. /\ w = "block" => phase = "run" /\ block # NoBlock /\ job[w].stage = "sync"
      /\ w = "sync" => block = NoBlock
  BY <1>1, OneHandler DEF ContractInv, ReorgJob, BlockJob, Creating, ShapeInv
<1>5. Recent(nodeTip, w)
  <2>1. nodeTip \in Block /\ OnBranch(nodeTip, nodeTip) /\ Depth[storedTip] <= Depth[nodeTip]
    BY DonePlace, OnBranchSelf
  <2>2. block # NoBlock => Depth[block] <= Depth[nodeTip]
    BY BlockPlace DEF OnBranch
  <2> QED
    BY <2>1, <2>2 DEF Recent
<1>6. KindInv'
  BY <1>1 DEF BalancesInv, KindInv, Known
<1>7. \A x \in Pairs : Shown(x)' = Shown(x) /\ (Lost(x) => Lost(x)')
  BY <1>1 DEF Shown, Lost
<1>8. w = "block" => Done' = Done /\ ~Asked' /\ OwnerInv'
  <2> SUFFICES ASSUME w = "block" PROVE Done' = Done /\ ~Asked' /\ OwnerInv'
    OBVIOUS
  <2>1. Done' = block /\ Done = block
    BY <1>1, <1>3, <1>4 DEF Done
  <2>2. ~Asked'
    BY <1>1, <1>4 DEF Asked
  <2> QED
    BY <1>1, <1>3, <1>4, <2>1, <2>2, LaterOwners
<1>9. nodeTip \in Block
  BY DonePlace
<1> QED
  BY <1>1, <1>3, <1>5, <1>6, <1>7, <1>8, <1>9, QuietStep

LEMMA EndSyncBalances ==
  ASSUME ContractInv, BalancesInv, NEW w \in Handler, EndSync(w)
  PROVE  BalancesInv'
<1>1. /\ phase # "down" /\ job[w].pc = "find" /\ job[w].pc # "none" /\ job[w].stage = "sync"
      /\ UNCHANGED <<nodeTip, storedTip, logged, phase, block, db, lost>>
      /\ job' = [job EXCEPT ![w] = IF w = "block" THEN [NoJob EXCEPT !.pc = "tip"] ELSE NoJob]
  BY DEF EndSync, At, Reads, node, tips, process
<1>2. DOMAIN job = Handler
  BY DEF ContractInv, ShapeInv
<1>3. /\ \A v \in Handler : v # w => job'[v] = job[v]
      /\ job'[w].pc \in {"tip", "none"} /\ job'[w].stage = "none"
  BY <1>1, <1>2 DEF NoJob
<1>4. w = "block" => phase = "run" /\ block # NoBlock
  BY <1>1, OneHandler DEF ContractInv, ReorgJob, ShapeInv
<1>5. KindInv'
  BY <1>1 DEF BalancesInv, KindInv, Known
<1>6. \A x \in Pairs : Shown(x)' = Shown(x) /\ (Lost(x) => Lost(x)')
  BY <1>1 DEF Shown, Lost
<1>7. w = "block" => Done' = Done /\ ~Asked' /\ OwnerInv'
  <2> SUFFICES ASSUME w = "block" PROVE Done' = Done /\ ~Asked' /\ OwnerInv'
    OBVIOUS
  <2>1. Done' = block /\ Done = block
    BY <1>1, <1>3, <1>4 DEF Done
  <2>2. ~Asked'
    BY <1>1, <1>4 DEF Asked
  <2> QED
    BY <1>1, <1>3, <1>4, <2>1, <2>2, LaterOwners
<1> QED
  BY <1>1, <1>3, <1>5, <1>6, <1>7, QuietStep

\* The rows that a comparison removes are of contracts that have no balance.
LEMMA CompareBalances ==
  ASSUME ContractInv, BalancesInv, NEW w \in Handler, Compare(w)
  PROVE  BalancesInv'
<1> DEFINE gone == Removable(w)
<1>1. /\ phase # "down" /\ job[w].pc = "compare" /\ job[w].pc # "none"
      /\ UNCHANGED <<nodeTip, storedTip, logged, phase, block>>
  BY DEF Compare, At, Writes, node, tips, process
<1>2. DOMAIN job = Handler /\ DOMAIN job[w] = DOMAIN NoJob
  BY DEF ContractInv, ShapeInv
<1>3. /\ \A v \in Handler : v # w => job'[v] = job[v]
      /\ job'[w].pc = "find" /\ job'[w].stage = job[w].stage
  BY <1>1, <1>2 DEF NoJob, Compare
<1>4. /\ db'.contracts = [c \in DOMAIN db.contracts \ gone |-> db.contracts[c]]
      /\ db'.balances = Dropped(db.balances, gone)
  BY DEF Compare
<1>5. \A x \in Pairs : x[1] \notin gone => Shown(x)' = Shown(x) /\ (Lost(x) => Lost(x)')
  <2>1. \A x \in Pairs : x[1] \notin gone => Shown(x)' = Shown(x)
    BY <1>4 DEF Shown, Dropped
  <2>2. ASSUME NEW x \in Pairs, x[1] \notin gone, Lost(x)
        PROVE  Lost(x)'
    <3>1. lost' = {y \in lost : IF y[1] = "supply" THEN y[2] \notin gone ELSE y[2][1] \notin gone}
      BY DEF Compare
    <3>2. <<"balance", x>>[1] = "balance" /\ <<"balance", x>>[2] = x
      OBVIOUS
    <3> QED
      BY <2>2, <3>1, <3>2 DEF Lost
  <2> QED
    BY <2>1, <2>2
<1>6. \A x \in Pairs : x[1] \in gone => Shown(x)' = 0
  BY <1>4 DEF Shown, Dropped
<1>7. KindInv'
  BY <1>4 DEF BalancesInv, KindInv, Known
<1>8. PICK t \in Block : Recent(t, w) /\ job[w].listed = Existing(t)
  BY <1>1 DEF BalancesInv, ComparedInv
<1>9. /\ w = "block" => phase = "run" /\ block # NoBlock /\ job[w].stage = "sync"
      /\ w = "sync" => phase = "run" /\ block = NoBlock /\ job["block"] = NoJob
  <2>1. NoJob.pc = "none"
    BY DEF NoJob
  <2> QED
    BY <1>1, <2>1, OneHandler DEF ContractInv, ReorgJob, BlockJob, Creating, ShapeInv, Handler
<1>10. w = "block" => Done' = block /\ Done = block
  BY <1>1, <1>3, <1>9 DEF Done
<1>11. w = "sync" => Done' = storedTip /\ Done = storedTip /\ job'["block"] = NoJob
  BY <1>1, <1>3, <1>9, HandlerBlock DEF Done
<1>12. Depth[Done] <= Depth[t] /\ OnBranch(t, nodeTip) /\ Done' = Done
  BY <1>8, <1>9, <1>10, <1>11 DEF Recent, Handler
<1>13. ~Asked' /\ ~Asked
  BY <1>1, <1>9 DEF Asked, Handler
<1>14. BalanceInv'
  <2> SUFFICES ASSUME NEW a \in Block, OnBranch(a, Done), OnBranch(a, nodeTip), NEW x \in Pairs
               PROVE  \/ Lost(x)' \/ Right(x)' \/ Pending(a, nodeTip, x)
                      \/ x \in LogChanges(a, logged)
    BY <1>1, <1>12, <1>13 DEF BalanceInv
  <2>1. CASE x[1] \in gone
    <3>1. x[1] \notin Existing(t) /\ x \in Contract \X Holder
      BY <1>8, <2>1 DEF Removable, Pairs
    <3>2. RightAt(0, t, x)
      BY <3>1, BalanceNone DEF RightAt
    <3>3. Depth[a] <= Depth[t] /\ nodeTip \in Block
      BY <1>12, DonePlace, DepthNat DEF OnBranch
    <3>4. RightAt(0, nodeTip, x) \/ Pending(a, nodeTip, x)
      BY <1>12, <3>2, <3>3, AnswerHolds
    <3>5. Shown(x)' = 0
      BY <1>6, <2>1
    <3> QED
      BY <1>1, <3>4, <3>5 DEF RightAt, Right
  <2>2. CASE x[1] \notin gone
    <3>1. \/ Lost(x) \/ Right(x) \/ Pending(a, nodeTip, x)
          \/ x \in LogChanges(a, logged)
      BY <1>13 DEF BalancesInv, BalanceInv
    <3>2. Shown(x)' = Shown(x) /\ (Lost(x) => Lost(x)')
      BY <1>5, <2>2
    <3> QED
      BY <1>1, <3>1, <3>2 DEF Right
  <2> QED
    BY <2>1, <2>2
<1>15. OwnerInv'
  BY <1>1, <1>3, <1>9, <1>10, <1>11, LaterOwners DEF NoJob, Handler
<1>16. AnswerInv'
  BY <1>3, <1>11 DEF AnswerInv, NoJob, Handler
<1>17. ComparedInv'
  <2>1. \A v \in Handler : v # w => job'[v].pc = "none"
    BY <1>1, <1>3, OneHandler DEF ContractInv, NoJob
  <2> QED
    BY <1>3, <2>1 DEF ComparedInv
<1>18. (OnBranch(storedTip, logged) /\ (phase = "start" => logged = storedTip))'
  BY <1>1 DEF BalancesInv
<1> QED
  BY <1>7, <1>14, <1>15, <1>16, <1>17, <1>18 DEF BalancesInv

-----------------------------------------------------------------------------
(* onBlock.                                                                *)

LEMMA BeginBlockBalances ==
  ASSUME ContractInv, BalancesInv, NEW b \in Block, BeginBlock(b)
  PROVE  BalancesInv'
<1>1. /\ phase = "run" /\ block = NoBlock /\ Parent[b] = storedTip /\ OnBranch(b, nodeTip)
      /\ block' = b /\ logged' = b
      /\ job' = [job EXCEPT !["block"] = [NoJob EXCEPT !.pc = "find", !.stage = "creations",
                                                       !.todo = Creations[b]]]
      /\ UNCHANGED <<nodeTip, storedTip, phase, db, lost>>
  BY DEF BeginBlock, node, tips
<1>2. DOMAIN job = Handler /\ storedTip \in Block /\ nodeTip \in Block
  BY DEF ContractInv, ShapeInv
<1>3. logged = storedTip
  BY <1>1 DEF ContractInv, TipInv
<1>4. /\ job'["block"].pc = "find" /\ job'["block"].stage = "creations"
      /\ job'["block"].todo = Creations[b] /\ job'["sync"] = job["sync"]
  BY <1>1, <1>2 DEF NoJob, Handler
<1>5. OnBranch(storedTip, b) /\ b # NoBlock
  BY <1>1, <1>2, OnBranchParent, TreeAssumption
<1>6. Done = storedTip /\ Done' = storedTip
  BY <1>1, <1>4 DEF Done
<1>7. ~Asked /\ ~Asked'
  BY <1>1 DEF Asked
<1>8. \A x : Right(x)' = Right(x) /\ Lost(x)' = Lost(x)
  BY <1>1 DEF Right, Lost, Shown
<1>9. BalanceInv'
  <2> SUFFICES ASSUME NEW a \in Block, OnBranch(a, storedTip), OnBranch(a, nodeTip),
                      NEW x \in Pairs
               PROVE  \/ Lost(x) \/ Right(x) \/ Pending(a, nodeTip, x)
                      \/ x \in LogChanges(a, b)
    BY <1>1, <1>6, <1>7, <1>8 DEF BalanceInv
  <2>1. \/ Lost(x) \/ Right(x) \/ Pending(a, nodeTip, x)
        \/ x \in LogChanges(a, storedTip)
    BY <1>3, <1>6 DEF BalancesInv, BalanceInv
  <2>2. LogChanges(a, storedTip) \subseteq LogChanges(a, b)
    BY <1>2, <1>5, ChangesSplit
  <2> QED
    BY <2>1, <2>2
<1>10. OwnerInv'
  <2>1. \A x \in Pairs \cap Owners : x[1] \in Existing(b) \ Existing(storedTip) =>
          \E n \in DOMAIN Creations[b] : x = <<Creations[b][n].contract, Creations[b][n].owner>>
    <3> SUFFICES ASSUME NEW x \in Pairs \cap Owners, x[1] \in Existing(b) \ Existing(storedTip)
                 PROVE  \E n \in DOMAIN Creations[b] :
                          x = <<Creations[b][n].contract, Creations[b][n].owner>>
      OBVIOUS
    <3>1. PICK e \in Block : \E y \in ToSet(Creations[e]) : x = <<y.contract, y.owner>>
      BY DEF Owners
    <3>2. PICK y \in ToSet(Creations[e]) : x = <<y.contract, y.owner>>
      BY <3>1
    <3>3. x[1] = y.contract /\ x[1] \notin Dgp /\ x[1] \notin Inner[b]
      BY <3>2, CreationAssumption
    <3>4. PICK c \in Chain(b) : x[1] \in CreatedIn(c)
      BY <3>3 DEF Existing
    <3>5. c = b
      <4>1. PICK d \in 0 .. Depth[b] : c = Branch[b][d]
        BY DEF Chain
      <4>2. Depth[b] = Depth[storedTip] + 1 /\ Depth[storedTip] \in Nat
        BY <1>1, <1>2, OnBranchParent, DepthNat
      <4>3. Branch[b][Depth[storedTip]] = storedTip /\ Branch[b][Depth[b]] = b
        BY <1>5, BranchAssumption DEF OnBranch
      <4>4. CASE d = Depth[b]
        BY <4>1, <4>3, <4>4
      <4>5. CASE d # Depth[b]
        <5>1. d \in 0 .. Depth[storedTip] /\ Depth[storedTip] \in 0 .. Depth[b]
          BY <4>2, <4>5
        <5>2. Branch[storedTip][d] = c
          BY <4>1, <4>3, <5>1, BranchPrefix
        <5>3. c \in Chain(storedTip)
          BY <5>1, <5>2 DEF Chain
        <5> QED
          BY <3>4, <5>3 DEF Existing
      <4> QED
        BY <4>4, <4>5
    <3>6. PICK z \in ToSet(Creations[b]) : z.contract = x[1]
      BY <3>3, <3>4, <3>5 DEF CreatedIn
    <3>7. z = y
      BY <3>2, <3>3, <3>6, CreationAssumption
    <3> QED
      BY <3>2, <3>6, <3>7 DEF ToSet
  <2> QED
    BY <1>1, <1>4, <2>1 DEF OwnerInv
<1>11. AnswerInv'
  BY <1>4 DEF AnswerInv
<1>12. ComparedInv'
  <2> SUFFICES ASSUME job'["sync"].pc = "compare"
               PROVE  \E t \in Block : Recent(t, "sync")' /\ job'["sync"].listed = Existing(t)
    BY <1>4 DEF ComparedInv, Handler
  <2>1. PICK t \in Block : Recent(t, "sync") /\ job["sync"].listed = Existing(t)
    BY <1>4, HandlerBlock DEF BalancesInv, ComparedInv
  <2>2. Recent(t, "sync")'
    BY <1>1, <2>1 DEF Recent
  <2> QED
    BY <1>4, <2>1, <2>2
<1>13. KindInv'
  BY <1>1 DEF BalancesInv, KindInv, Known
<1>14. (OnBranch(storedTip, logged) /\ (phase = "start" => logged = storedTip))'
  BY <1>1, <1>5
<1> QED
  BY <1>9, <1>10, <1>11, <1>12, <1>13, <1>14 DEF BalancesInv

LEMMA BeginReceiptsBalances ==
  ASSUME ContractInv, BalancesInv, BeginReceipts
  PROVE  BalancesInv'
<1> DEFINE w == "block"
<1>1. /\ phase # "down" /\ job[w].pc = "find" /\ job[w].todo = <<>>
      /\ job[w].stage = "creations"
      /\ UNCHANGED <<nodeTip, storedTip, logged, phase, block, db, lost>>
      /\ job' = [job EXCEPT ![w] = [job[w] EXCEPT !.pc = "read", !.stage = "receipts",
                                      !.changes = BalanceChanges(ToSet(Logs[block]))]]
  BY DEF BeginReceipts, At, Reads, node, tips, process
<1>2. DOMAIN job = Handler /\ DOMAIN job[w] = DOMAIN NoJob /\ w \in Handler
  BY HandlerBlock DEF ContractInv, ShapeInv
<1>3. /\ \A v \in Handler : v # w => job'[v] = job[v]
      /\ job'[w].pc = "read" /\ job'[w].stage = "receipts"
      /\ job'[w].changes = BalanceChanges(ToSet(Logs[block]))
  BY <1>1, <1>2 DEF NoJob
<1>4. phase = "run"
  BY <1>1, <1>2, CreatingStage DEF ContractInv, Creating
<1>5. KindInv'
  BY <1>1 DEF BalancesInv, KindInv, Known
<1>6. \A x \in Pairs : Shown(x)' = Shown(x) /\ (Lost(x) => Lost(x)')
  BY <1>1 DEF Shown, Lost
<1>7. Done = storedTip /\ Done' = storedTip
  BY <1>1, <1>3 DEF Done
<1>8. ~Asked'
  BY <1>1, <1>4 DEF Asked
<1>9. OwnerInv'
  <2>1. \A x : Right(x)' = Right(x) /\ Lost(x)' = Lost(x)
    BY <1>1 DEF Right, Lost, Shown
  <2>2. \A n \in DOMAIN job[w].todo : FALSE
    BY <1>1
  <2>3. OwnerInv
    BY DEF BalancesInv
  <2>4. block # NoBlock =>
          \A x \in Pairs \cap Owners : x[1] \in Existing(block) \ Existing(storedTip) =>
             \/ Lost(x) \/ Right(x) \/ Pending(block, nodeTip, x)
             \/ x \in BalanceChanges(ToSet(Logs[block]))
    BY <1>7, <2>2, <2>3 DEF OwnerInv
  <2> QED
    BY <1>1, <1>3, <2>1, <2>4 DEF OwnerInv
<1>10. AnswerInv'
  BY <1>1, <1>3, <1>4 DEF AnswerInv
<1> QED
  BY <1>1, <1>2, <1>3, <1>5, <1>6, <1>7, <1>8, <1>9, <1>10, QuietStep

LEMMA ReadBalancesBalances ==
  ASSUME ContractInv, BalancesInv, ReadBalances
  PROVE  BalancesInv'
<1> DEFINE w == "block"
           asked == job[w].changes
           answered == {x \in asked : Answers(nodeTip, x[1])}
<1>1. /\ phase # "down" /\ job[w].pc = "read" /\ job[w].pc # "none"
      /\ UNCHANGED <<nodeTip, storedTip, logged, phase, block, db>>
      /\ job' = [job EXCEPT ![w].pc = "write",
                            ![w].answer = [x \in answered |-> Balance(nodeTip, x)]]
      /\ lost' = IF job[w].stage = "reorg"
                 THEN lost \cup {<<"balance", x>> : x \in asked \ answered} ELSE lost
  BY DEF ReadBalances, At, node, tips, process
<1>2. DOMAIN job = Handler /\ DOMAIN job[w] = DOMAIN NoJob /\ w \in Handler
  BY HandlerBlock DEF ContractInv, ShapeInv
<1>3. /\ \A v \in Handler : v # w => job'[v] = job[v]
      /\ job'[w].pc = "write" /\ job'[w].stage = job[w].stage /\ job'[w].todo = job[w].todo
      /\ job'[w].changes = asked
      /\ job'[w].answer = [x \in answered |-> Balance(nodeTip, x)]
  BY <1>1, <1>2 DEF NoJob
<1>4. KindInv'
  BY <1>1 DEF BalancesInv, KindInv, Known
<1>5. lost \subseteq lost'
  BY <1>1
<1>6. \A x \in Pairs : Shown(x)' = Shown(x) /\ Right(x)' = Right(x) /\ (Lost(x) => Lost(x)')
  BY <1>1, <1>5 DEF Shown, Lost, Right
<1>7. Done' = Done
  BY <1>1, <1>3 DEF Done
<1>8. ~Asked'
  BY <1>3 DEF Asked
<1>9. OwnerInv'
  <2>1. OwnerInv
    BY DEF BalancesInv
  <2> QED
    BY <1>1, <1>3, <1>6, <1>7, <2>1 DEF OwnerInv
<1>10. Recent(nodeTip, w) /\ nodeTip \in Block
  <2>1. nodeTip \in Block /\ OnBranch(nodeTip, nodeTip) /\ Depth[storedTip] <= Depth[nodeTip]
    BY DonePlace, OnBranchSelf
  <2>2. block # NoBlock => Depth[block] <= Depth[nodeTip]
    BY BlockPlace DEF OnBranch
  <2> QED
    BY <2>1, <2>2 DEF Recent
<1>11. AnswerInv'
  <2>1. /\ job[w].stage = "creations" => job[w].changes = {<<Head(job[w].todo).contract, Head(job[w].todo).owner>>}
        /\ job[w].stage = "receipts" => job[w].changes = BalanceChanges(ToSet(Logs[block]))
        /\ phase = "undo" => job[w].changes = LogChanges(storedTip, logged)
    BY <1>1 DEF BalancesInv, AnswerInv
  <2>2. job[w].stage = "reorg" => \A x \in asked \ answered : Lost(x)'
    BY <1>1 DEF Lost
  <2>3. DOMAIN job'[w].answer = answered
    BY <1>3
  <2>4. Recent(nodeTip, w)'
    BY <1>1, <1>10 DEF Recent
  <2>5. \E t \in Block :
          /\ Recent(t, w)'
          /\ job'[w].answer = Told(t, job'[w].changes)
          /\ job'[w].stage = "reorg" =>
               \A x \in job'[w].changes \ DOMAIN job'[w].answer : Lost(x)'
    <3>1. job'[w].answer = Told(nodeTip, job'[w].changes)
      BY <1>3 DEF Told
    <3>2. job'[w].stage = "reorg" => \A x \in job'[w].changes \ DOMAIN job'[w].answer : Lost(x)'
      BY <1>3, <2>2, <2>3
    <3> QED
      BY <1>1, <1>10, <2>4, <3>1, <3>2
  <2> QED
    BY <1>1, <1>3, <2>1, <2>5 DEF AnswerInv
<1> QED
  BY <1>1, <1>2, <1>3, <1>4, <1>6, <1>7, <1>8, <1>9, <1>11, QuietStep

\* The balances that have been asked for, and the others.
LEMMA WriteBalancesBalances ==
  ASSUME ContractInv, BalancesInv, WriteBalances
  PROVE  BalancesInv'
<1> DEFINE w == "block"
           j == job[w]
           base == IF block # NoBlock THEN block ELSE storedTip
<1>1. /\ phase # "down" /\ j.pc = "write" /\ j.pc # "none"
      /\ UNCHANGED <<nodeTip, storedTip, logged, phase, block>>
      /\ db' = [db EXCEPT !.balances = Written(j.answer, @)]
      /\ lost' = lost \ {<<"balance", x>> : x \in DOMAIN j.answer}
  BY DEF WriteBalances, At, Writes, node, tips, process
<1>2. /\ DOMAIN job = Handler /\ DOMAIN j = DOMAIN NoJob /\ w \in Handler
      /\ DOMAIN db = {"contracts", "supplies", "balances", "holders"}
      /\ nodeTip \in Block /\ storedTip \in Block
  BY HandlerBlock DEF ContractInv, ShapeInv
<1>3. /\ phase # "run" => block = NoBlock /\ j.stage = "reorg"
      /\ phase = "run" => block # NoBlock /\ j.stage \in {"creations", "receipts"}
  BY <1>1, <1>2, OneHandler DEF ContractInv, ReorgJob, BlockJob, Creating
<1>4. /\ \A v \in Handler : v # w => job'[v] = job[v]
      /\ job'[w] = CASE j.stage = "creations" -> [j EXCEPT !.pc = "find", !.todo = Tail(@)]
                     [] j.stage = "receipts" -> [j EXCEPT !.pc = "holders"]
                     [] j.stage = "reorg" -> [j EXCEPT !.pc = "tokens"]
  BY <1>2 DEF WriteBalances
<1>5. /\ job'[w].stage = j.stage
      /\ j.stage = "creations" => job'[w].pc = "find" /\ job'[w].todo = Tail(j.todo)
      /\ j.stage = "receipts" => job'[w].pc = "holders"
      /\ j.stage = "reorg" => job'[w].pc = "tokens"
  BY <1>2, <1>3, <1>4 DEF NoJob
<1>6. PICK t \in Block :
        /\ Recent(t, w) /\ j.answer = Told(t, j.changes)
        /\ j.stage = "reorg" => \A x \in j.changes \ DOMAIN j.answer : Lost(x)
  BY <1>1 DEF BalancesInv, AnswerInv
<1>7. OnBranch(t, nodeTip) /\ Depth[base] <= Depth[t] /\ base \in Block
  BY <1>2, <1>6, BlockPlace DEF Recent
<1>8. /\ DOMAIN j.answer = {y \in j.changes : Answers(t, y[1])}
      /\ \A x \in DOMAIN j.answer : j.answer[x] = Balance(t, x)
  BY <1>6 DEF Told
<1>9. db'.balances = Written(j.answer, db.balances) /\ db'.contracts = db.contracts
  BY <1>1, <1>2
<1>10. \A x \in Pairs : x \notin DOMAIN j.answer => Shown(x)' = Shown(x) /\ (Lost(x) => Lost(x)')
  BY <1>1, <1>9 DEF Shown, Written, Lost
<1>11. ASSUME NEW x \in Pairs, x \in DOMAIN j.answer,
              NEW a \in Block, OnBranch(a, nodeTip), Depth[a] <= Depth[base]
       PROVE  Right(x)' \/ Pending(a, nodeTip, x)
  <2>1. Shown(x)' = Balance(t, x)
    BY <1>8, <1>9, <1>11 DEF Shown, Written
  <2>2. Depth[a] <= Depth[t]
    BY <1>7, <1>11, DepthNat
  <2>3. RightAt(Balance(t, x), nodeTip, x) \/ Pending(a, nodeTip, x)
    BY <1>2, <1>7, <1>11, <2>2, AnswerHolds DEF RightAt
  <2> QED
    BY <1>1, <2>1, <2>3 DEF RightAt, Right
<1>12. \A x \in Pairs : x \notin DOMAIN j.answer => (Right(x)' <=> Right(x))
  BY <1>1, <1>10 DEF Right
<1>13. KindInv'
  BY <1>9 DEF BalancesInv, KindInv, Known
<1>14. /\ \A x \in BalanceChanges(ToSet(Logs[block])) : block # NoBlock => x[1] \in Existing(t)
       /\ block # NoBlock => Existing(block) \subseteq Existing(t)
  <2> SUFFICES ASSUME block # NoBlock
               PROVE  /\ \A x \in BalanceChanges(ToSet(Logs[block])) : x[1] \in Existing(t)
                      /\ Existing(block) \subseteq Existing(t)
    OBVIOUS
  <2>1. block \in Block /\ OnBranch(block, nodeTip) /\ Depth[block] <= Depth[t]
    BY <1>7, BlockPlace
  <2>2. OnBranch(block, t)
    BY <1>2, <1>7, <2>1, OnBranchBetween
  <2> QED
    BY <2>1, <2>2, ExistingGrows, AskedExists
<1>15. BalanceInv' /\ OwnerInv'
  <2>1. CASE j.stage = "reorg"
    <3>1. block = NoBlock /\ Done = storedTip /\ Done' = storedTip /\ phase \in {"start", "undo"}
      BY <1>1, <1>2, <1>3, <2>1 DEF Done, ContractInv, ShapeInv
    <3>2. OwnerInv'
      BY <1>1, <1>5, <2>1, <3>1 DEF OwnerInv
    <3>3. base = storedTip
      BY <3>1
    <3> SUFFICES ASSUME NEW a \in Block, OnBranch(a, storedTip), OnBranch(a, nodeTip),
                        NEW x \in Pairs
                 PROVE  \/ Lost(x)' \/ Right(x)' \/ Pending(a, nodeTip, x)
                        \/ ~Asked' /\ x \in LogChanges(a, logged)
      BY <1>1, <3>1, <3>2 DEF BalanceInv
    <3>4. CASE x \in DOMAIN j.answer
      BY <1>11, <3>3, <3>4 DEF OnBranch
    <3>5. CASE x \notin DOMAIN j.answer /\ (Lost(x) \/ Right(x) \/ Pending(a, nodeTip, x))
      BY <1>10, <1>12, <3>5
    <3>6. CASE x \notin DOMAIN j.answer /\ x \in LogChanges(a, logged)
      <4>1. CASE phase = "start"
        BY <1>1, <3>6, <4>1 DEF Asked
      <4>2. CASE phase = "undo"
        <5>1. OnBranch(storedTip, nodeTip) /\ OnBranch(storedTip, logged) /\ logged \in Block
          BY <4>2 DEF ContractInv, TipInv, BalancesInv, ShapeInv
        <5>2. CASE x \in LogChanges(a, storedTip)
          <6>1. Pending(a, storedTip, x)
            BY <5>2 DEF Pending
          <6> QED
            BY <1>2, <5>1, <6>1, PendingSplits
        <5>3. CASE x \in LogChanges(storedTip, logged)
          <6>1. x \in j.changes
            BY <1>1, <4>2, <5>3 DEF BalancesInv, AnswerInv
          <6>2. Lost(x)
            BY <1>6, <2>1, <3>6, <6>1
          <6> QED
            BY <1>10, <3>6, <6>2
        <5>4. LogChanges(a, logged) = LogChanges(a, storedTip) \cup LogChanges(storedTip, logged)
          BY <1>2, <5>1, ChangesSplit
        <5> QED
          BY <3>6, <5>2, <5>3, <5>4
      <4> QED
        BY <3>1, <4>1, <4>2
    <3> QED
      BY <3>1, <3>4, <3>5, <3>6 DEF BalancesInv, BalanceInv
  <2>2. CASE j.stage = "creations"
    <3>1. /\ block # NoBlock /\ phase = "run" /\ Done = storedTip /\ Done' = storedTip
          /\ base = block
      BY <1>1, <1>3, <1>5, <2>2 DEF Done
    <3>2. /\ block \in Block /\ OnBranch(block, nodeTip) /\ OnBranch(storedTip, block)
      BY <3>1, BlockPlace
    <3>3. ~Asked /\ ~Asked'
      BY <1>1, <3>1 DEF Asked
    <3>4. BalanceInv'
      <4> SUFFICES ASSUME NEW a \in Block, OnBranch(a, storedTip), OnBranch(a, nodeTip),
                          NEW x \in Pairs
                   PROVE  \/ Lost(x)' \/ Right(x)' \/ Pending(a, nodeTip, x)
                          \/ x \in LogChanges(a, logged)
        BY <1>1, <3>1, <3>3 DEF BalanceInv
      <4>1. \/ Lost(x) \/ Right(x) \/ Pending(a, nodeTip, x) \/ x \in LogChanges(a, logged)
        BY <3>1 DEF BalancesInv, BalanceInv
      <4>2. Depth[a] <= Depth[block]
        BY <1>2, <3>2, DepthNat DEF OnBranch
      <4> QED
        BY <1>10, <1>11, <1>12, <3>1, <4>1, <4>2
    <3>5. OwnerInv'
      <4> DEFINE s == j.todo
                 y == Head(s)
      <4>1. s # <<>>
        BY <1>1, <1>2, <2>2 DEF ContractInv, CreateInv
      <4>2. /\ y.contract \in Existing(block) /\ ToSet(Tail(s)) \subseteq ToSet(Creations[block])
            /\ \A n \in DOMAIN s : s[n] = y \/ \E m \in DOMAIN Tail(s) : Tail(s)[m] = s[n]
        BY <1>1, <2>2, <4>1, HeadOfBlock
      <4>3. j.changes = {<<y.contract, y.owner>>}
        BY <1>1, <2>2 DEF BalancesInv, AnswerInv
      <4>4. job'[w].todo = Tail(s)
        BY <1>5, <2>2
      <4>5. ASSUME NEW x \in Pairs \cap Owners, x[1] \in Existing(block) \ Existing(storedTip)
            PROVE  \/ Lost(x)' \/ Right(x)' \/ Pending(block, nodeTip, x)
                   \/ x \in BalanceChanges(ToSet(Logs[block]))
                   \/ \E n \in DOMAIN Tail(s) : x = <<Tail(s)[n].contract, Tail(s)[n].owner>>
        <5>1. \/ Lost(x) \/ Right(x) \/ Pending(block, nodeTip, x)
              \/ x \in BalanceChanges(ToSet(Logs[block]))
              \/ \E n \in DOMAIN s : x = <<s[n].contract, s[n].owner>>
          BY <3>1, <4>5 DEF BalancesInv, OwnerInv
        <5>2. CASE x \in DOMAIN j.answer
          BY <1>11, <3>1, <3>2, <5>2, DepthNat
        <5>3. CASE x \notin DOMAIN j.answer
          <6>1. x # <<y.contract, y.owner>>
            <7> SUFFICES ASSUME x = <<y.contract, y.owner>> PROVE FALSE
              OBVIOUS
            <7>1. x \in j.changes /\ x[1] \in Existing(t) /\ Standard[x[1]] = "qrc20"
              BY <1>14, <3>1, <4>2, <4>3 DEF Pairs
            <7> QED
              BY <1>8, <5>3, <7>1 DEF Answers
          <6>2. (\E n \in DOMAIN s : x = <<s[n].contract, s[n].owner>>)
                => \E n \in DOMAIN Tail(s) : x = <<Tail(s)[n].contract, Tail(s)[n].owner>>
            BY <4>2, <6>1
          <6> QED
            BY <1>10, <1>12, <5>1, <5>3, <6>2
        <5> QED
          BY <5>2, <5>3
      <4> HIDE DEF s
      <4>6. job'[w].stage = "creations"
        BY <1>5, <2>2
      <4> QED
        BY <1>1, <4>2, <4>4, <4>5, <4>6 DEF OwnerInv
    <3> QED
      BY <3>4, <3>5
  <2>3. CASE j.stage = "receipts"
    <3>1. /\ block # NoBlock /\ phase = "run" /\ Done = storedTip /\ Done' = block
          /\ base = block
      BY <1>1, <1>3, <1>5, <2>3 DEF Done
    <3>2. /\ block \in Block /\ OnBranch(block, nodeTip) /\ OnBranch(storedTip, block)
          /\ OnBranch(storedTip, nodeTip) /\ logged = block /\ Parent[block] = storedTip
      BY <3>1, BlockPlace
    <3>3. ~Asked /\ ~Asked'
      BY <1>1, <3>1 DEF Asked
    <3>4. j.changes = BalanceChanges(ToSet(Logs[block]))
      BY <1>1, <2>3 DEF BalancesInv, AnswerInv
    <3>5. \A x \in Pairs : x \in BalanceChanges(ToSet(Logs[block])) => x \in DOMAIN j.answer
      BY <1>8, <1>14, <3>1, <3>4 DEF Answers, Pairs
    <3>6. ASSUME NEW x \in Pairs
          PROVE  Lost(x)' \/ Right(x)' \/ Pending(block, nodeTip, x)
      <4>1. CASE x \in DOMAIN j.answer
        BY <1>11, <3>1, <3>2, <4>1, DepthNat
      <4>2. CASE x \notin DOMAIN j.answer
        <5>1. x \notin LogChanges(storedTip, block) /\ x \notin BalanceChanges(ToSet(Logs[block]))
          BY <1>2, <3>2, <3>5, <4>2, ChangesParent
        <5>2. Lost(x) \/ Right(x) \/ Pending(storedTip, nodeTip, x)
          BY <1>2, <3>1, <3>2, <5>1, OnBranchSelf DEF BalancesInv, BalanceInv
        <5>3. Pending(storedTip, nodeTip, x) => Pending(storedTip, block, x) \/ Pending(block, nodeTip, x)
          BY <1>2, <3>2, PendingSplits
        <5>4. Pending(storedTip, block, x) => Lost(x) \/ Right(x) \/ Pending(block, nodeTip, x)
          BY <2>3, <3>1, <5>1 DEF Pending, BalancesInv, OwnerInv
        <5> QED
          BY <1>10, <1>12, <4>2, <5>2, <5>3, <5>4
      <4> QED
        BY <4>1, <4>2
    <3>7. BalanceInv'
      <4> SUFFICES ASSUME NEW a \in Block, OnBranch(a, block), OnBranch(a, nodeTip),
                          NEW x \in Pairs
                   PROVE  Lost(x)' \/ Right(x)' \/ Pending(a, nodeTip, x)
        BY <1>1, <3>1 DEF BalanceInv
      <4>1. Pending(block, nodeTip, x) => Pending(a, nodeTip, x)
        BY <1>2, <3>2, PendingSplits
      <4> QED
        BY <3>6, <4>1
    <3>8. OwnerInv'
      BY <1>1, <1>5, <2>3, <3>1, LaterOwners
    <3> QED
      BY <3>7, <3>8
  <2> QED
    BY <1>3, <2>1, <2>2, <2>3
<1>16. AnswerInv'
  BY <1>3, <1>5 DEF AnswerInv
<1>17. ComparedInv'
  <2>1. \A v \in Handler : v # w => job'[v].pc = "none"
    BY <1>1, <1>2, <1>4, OneHandler DEF ContractInv, NoJob
  <2> QED
    BY <1>3, <1>5, <2>1 DEF ComparedInv
<1>18. (OnBranch(storedTip, logged) /\ (phase = "start" => logged = storedTip))'
  BY <1>1 DEF BalancesInv
<1> QED
  BY <1>13, <1>15, <1>16, <1>17, <1>18 DEF BalancesInv

\* The end of a block, after its balances.
LEMMA LateStep ==
  ASSUME ContractInv, BalancesInv, phase # "down",
         job["block"].pc \in {"holders", "supply", "supplied", "tip"},
         UNCHANGED <<nodeTip, storedTip, logged, phase, block>>,
         Quiet, db'.contracts = db.contracts,
         \A v \in Handler : v # "block" => job'[v] = job[v],
         job'["block"].pc \in {"supply", "supplied", "list", "tip", "commit"},
         job'["block"].stage = job["block"].stage \/ job'["block"].stage = "sync"
  PROVE  BalancesInv'
<1>1. phase = "run" /\ block # NoBlock /\ job["block"].stage \in {"receipts", "sync", "none"}
  BY HandlerBlock, OneHandler DEF ContractInv, ReorgJob, BlockJob, Creating, ShapeInv
<1>2. Done' = block /\ Done = block
  BY <1>1 DEF Done
<1>3. ~Asked'
  BY <1>1 DEF Asked
<1>4. OwnerInv'
  BY <1>1, <1>2, LaterOwners
<1>5. KindInv'
  BY DEF BalancesInv, KindInv, Known
<1>6. \A x \in Pairs : Shown(x)' = Shown(x) /\ (Lost(x) => Lost(x)')
  BY QuietRows
<1> QED
  BY <1>2, <1>3, <1>4, <1>5, <1>6, HandlerBlock, QuietStep

LEMMA WriteHoldersBalances ==
  ASSUME ContractInv, BalancesInv, WriteHolders
  PROVE  BalancesInv'
<1>1. /\ DOMAIN job = Handler /\ DOMAIN job["block"] = DOMAIN NoJob
      /\ DOMAIN db = {"contracts", "supplies", "balances", "holders"}
  BY HandlerBlock DEF ContractInv, ShapeInv
<1>2. /\ phase # "down" /\ job["block"].pc = "holders"
      /\ UNCHANGED <<nodeTip, storedTip, logged, phase, block>>
  BY DEF WriteHolders, At, Writes, node, tips, process
<1>3. db'.contracts = db.contracts /\ db'.balances = db.balances
  BY <1>1 DEF WriteHolders
<1>4. Quiet
  BY <1>3 DEF WriteHolders, Quiet
<1>5. /\ \A v \in Handler : v # "block" => job'[v] = job[v]
      /\ job'["block"].pc = "supply" /\ job'["block"].stage = job["block"].stage
  BY <1>1, HandlerBlock DEF WriteHolders, NoJob
<1> QED
  BY <1>2, <1>3, <1>4, <1>5, LateStep

LEMMA AskSupplyBalances ==
  ASSUME ContractInv, BalancesInv, AskSupply
  PROVE  BalancesInv'
<1>1. DOMAIN job = Handler /\ DOMAIN job["block"] = DOMAIN NoJob
  BY HandlerBlock DEF ContractInv, ShapeInv
<1>2. /\ phase # "down" /\ job["block"].pc = "supply"
      /\ UNCHANGED <<nodeTip, storedTip, logged, phase, block, db, lost>>
  BY DEF AskSupply, At, Reads, node, tips, process
<1>3. /\ \A v \in Handler : v # "block" => job'[v] = job[v]
      /\ job'["block"].pc \in {"supply", "supplied"} /\ job'["block"].stage = job["block"].stage
  BY <1>1, <1>2, HandlerBlock DEF AskSupply, NoJob
<1>4. Quiet
  BY <1>2 DEF Quiet
<1> QED
  BY <1>2, <1>3, <1>4, LateStep

LEMMA WriteSupplyBalances ==
  ASSUME ContractInv, BalancesInv, WriteSupply
  PROVE  BalancesInv'
<1>1. /\ DOMAIN job = Handler /\ DOMAIN job["block"] = DOMAIN NoJob
      /\ DOMAIN db = {"contracts", "supplies", "balances", "holders"}
  BY HandlerBlock DEF ContractInv, ShapeInv
<1>2. /\ phase # "down" /\ job["block"].pc = "supplied"
      /\ UNCHANGED <<nodeTip, storedTip, logged, phase, block>>
  BY DEF WriteSupply, At, Writes, node, tips, process
<1>3. db'.contracts = db.contracts /\ db'.balances = db.balances
  BY <1>1 DEF WriteSupply
<1>4. Quiet
  BY <1>3 DEF WriteSupply, Quiet
<1>5. /\ \A v \in Handler : v # "block" => job'[v] = job[v]
      /\ job'["block"].pc = "supply" /\ job'["block"].stage = job["block"].stage
  BY <1>1, HandlerBlock DEF WriteSupply, NoJob
<1> QED
  BY <1>2, <1>3, <1>4, <1>5, LateStep

LEMMA EndReceiptsBalances ==
  ASSUME ContractInv, BalancesInv, EndReceipts
  PROVE  BalancesInv'
<1>1. DOMAIN job = Handler /\ DOMAIN job["block"] = DOMAIN NoJob
  BY HandlerBlock DEF ContractInv, ShapeInv
<1>2. /\ phase # "down" /\ job["block"].pc = "supply"
      /\ UNCHANGED <<nodeTip, storedTip, logged, phase, block, db, lost>>
  BY DEF EndReceipts, At, Reads, node, tips, process
<1>3. /\ \A v \in Handler : v # "block" => job'[v] = job[v]
      /\ job'["block"].pc \in {"list", "tip"} /\ job'["block"].stage = "sync"
  BY <1>1, HandlerBlock DEF EndReceipts, NoJob
<1>4. Quiet
  BY <1>2 DEF Quiet
<1> QED
  BY <1>2, <1>3, <1>4, LateStep

LEMMA StoreTipBalances ==
  ASSUME ContractInv, BalancesInv, StoreTip
  PROVE  BalancesInv'
<1>1. DOMAIN job = Handler /\ DOMAIN job["block"] = DOMAIN NoJob
  BY HandlerBlock DEF ContractInv, ShapeInv
<1>2. /\ phase # "down" /\ job["block"].pc = "tip"
      /\ UNCHANGED <<nodeTip, storedTip, logged, phase, block, db, lost>>
  BY DEF StoreTip, At, node, process
<1>3. /\ \A v \in Handler : v # "block" => job'[v] = job[v]
      /\ job'["block"].pc = "commit" /\ job'["block"].stage = job["block"].stage
  BY <1>1, HandlerBlock DEF StoreTip, Goes, NoJob
<1>4. Quiet
  BY <1>2 DEF Quiet
<1> QED
  BY <1>2, <1>3, <1>4, LateStep

LEMMA CommitBalances ==
  ASSUME ContractInv, BalancesInv, Commit
  PROVE  BalancesInv'
<1>1. /\ phase # "down" /\ job["block"].pc = "commit"
      /\ storedTip' = block /\ block' = NoBlock
      /\ job' = [job EXCEPT !["block"] = NoJob]
      /\ UNCHANGED <<nodeTip, logged, phase, db, lost>>
  BY DEF Commit, At, node
<1>2. DOMAIN job = Handler
  BY DEF ContractInv, ShapeInv
<1>3. phase = "run" /\ block # NoBlock /\ job["block"].stage \in {"sync", "none"}
  BY <1>1, HandlerBlock, OneHandler DEF ContractInv, ReorgJob, BlockJob, Creating, ShapeInv
<1>4. block \in Block /\ logged = block
  BY <1>3, BlockPlace
<1>5. Done = block /\ Done' = block
  BY <1>1, <1>3 DEF Done
<1>6. job'["block"] = NoJob /\ job'["sync"] = job["sync"] /\ job["sync"] = NoJob
  BY <1>1, <1>2, HandlerBlock, OneHandler DEF ContractInv
<1>7. NoJob.pc = "none" /\ NoJob.stage = "none"
  BY DEF NoJob
<1>8. BalanceInv'
  <2>1. \A x \in Pairs : Shown(x)' = Shown(x) /\ (Lost(x) => Lost(x)')
    BY <1>1 DEF Shown, Lost
  <2>2. ~Asked'
    BY <1>1, <1>3 DEF Asked
  <2> QED
    BY <1>1, <1>5, <2>1, <2>2, BalancesKept DEF BalancesInv
<1>9. OwnerInv' /\ AnswerInv'
  BY <1>1, <1>6, <1>7 DEF OwnerInv, AnswerInv
<1>10. ComparedInv'
  BY <1>6, <1>7 DEF ComparedInv, Handler
<1>11. KindInv'
  BY <1>1 DEF BalancesInv, KindInv, Known
<1>12. (OnBranch(storedTip, logged) /\ (phase = "start" => logged = storedTip))'
  BY <1>1, <1>4, OnBranchSelf
<1> QED
  BY <1>8, <1>9, <1>10, <1>11, <1>12 DEF BalancesInv

-----------------------------------------------------------------------------
(* The process, and onReorg.                                               *)

\* The balances of a state in which no block is written and no call of the node
\* is under way.
LEMMA AtRestBalances ==
  ASSUME BalanceInv', KindInv', (block = NoBlock)', OnBranch(storedTip, logged)',
         (phase = "start" => logged = storedTip)',
         (job["block"].stage # "creations")',
         (job["block"].pc \notin {"read", "write"})',
         (\A w \in Handler : job[w].pc # "compare")'
  PROVE  BalancesInv'
<1>1. OwnerInv'
  BY DEF OwnerInv
<1>2. AnswerInv'
  BY DEF AnswerInv
<1>3. ComparedInv'
  BY DEF ComparedInv
<1> QED
  BY <1>1, <1>2, <1>3 DEF BalancesInv

LEMMA StartBalances ==
  ASSUME ContractInv, BalancesInv, Start
  PROVE  BalancesInv'
<1>1. /\ phase = "down" /\ phase' = "start" /\ logged' = storedTip
      /\ lost' = lost \cup Changed(LogsOf(Above(storedTip, logged)))
      /\ job' = [job EXCEPT !["block"] = [NoJob EXCEPT !.pc = "logs", !.stage = "reorg"]]
      /\ UNCHANGED <<nodeTip, storedTip, block, db>>
  BY DEF Start, node, tips
<1>2. /\ block = NoBlock /\ storedTip \in Block /\ logged \in Block /\ DOMAIN job = Handler
      /\ job["sync"].pc = "none" /\ OnBranch(storedTip, logged)
  BY <1>1 DEF ContractInv, ShapeInv, JobInv, BalancesInv
<1>3. job'["block"].stage = "reorg" /\ job'["block"].pc = "logs" /\ job'["sync"].pc = "none"
  BY <1>1, <1>2 DEF Handler, NoJob
<1>4. Done = storedTip /\ Done' = storedTip
  BY <1>1, <1>2 DEF Done
<1>5. ~Asked' /\ ~Asked
  BY <1>1 DEF Asked
<1>6. \A x \in LogChanges(storedTip, logged) : Lost(x)'
  BY <1>1 DEF Lost, Changed, LogChanges
<1>7. \A x : (Right(x)' <=> Right(x)) /\ (Lost(x) => Lost(x)')
  BY <1>1 DEF Right, Lost, Shown
<1>8. BalanceInv'
  <2> SUFFICES ASSUME NEW a \in Block, OnBranch(a, storedTip), OnBranch(a, nodeTip),
                      NEW x \in Pairs
               PROVE  \/ Lost(x)' \/ Right(x)' \/ Pending(a, nodeTip, x)
                      \/ x \in LogChanges(a, storedTip)
    BY <1>1, <1>4, <1>5 DEF BalanceInv
  <2>1. \/ Lost(x) \/ Right(x) \/ Pending(a, nodeTip, x) \/ x \in LogChanges(a, logged)
    BY <1>4, <1>5 DEF BalancesInv, BalanceInv
  <2>2. LogChanges(a, logged) = LogChanges(a, storedTip) \cup LogChanges(storedTip, logged)
    BY <1>2, ChangesSplit
  <2> QED
    BY <1>6, <1>7, <2>1, <2>2
<1>9. KindInv'
  BY <1>1 DEF BalancesInv, KindInv, Known
<1>10. OnBranch(storedTip, logged)'
  BY <1>1, <1>2, OnBranchSelf
<1> QED
  BY <1>1, <1>2, <1>3, <1>8, <1>9, <1>10, AtRestBalances DEF Handler

LEMMA SyncedBalances ==
  ASSUME ContractInv, BalancesInv, OnSynced
  PROVE  BalancesInv'
<1>1. /\ phase = "run" /\ block = NoBlock
      /\ job' = [job EXCEPT !["sync"] = [NoJob EXCEPT !.pc = "list", !.stage = "sync"]]
      /\ UNCHANGED <<nodeTip, storedTip, logged, phase, block, db, lost>>
  BY DEF OnSynced, node, tips
<1>2. DOMAIN job = Handler /\ job["block"] = NoJob
  BY <1>1 DEF ContractInv, ShapeInv, JobInv
<1>3. job'["block"] = NoJob /\ job'["sync"].pc = "list"
  BY <1>1, <1>2 DEF Handler, NoJob
<1>4. Done = storedTip /\ Done' = storedTip /\ ~Asked'
  BY <1>1 DEF Done, Asked
<1>5. \A x \in Pairs : Shown(x)' = Shown(x) /\ (Lost(x) => Lost(x)')
  BY <1>1 DEF Lost, Shown
<1>6. BalanceInv'
  BY <1>1, <1>4, <1>5, BalancesKept DEF BalancesInv
<1>7. KindInv'
  BY <1>1 DEF BalancesInv, KindInv, Known
<1>8. OnBranch(storedTip, logged)' /\ (phase = "start" => logged = storedTip)'
  BY <1>1 DEF BalancesInv
<1> QED
  BY <1>1, <1>3, <1>6, <1>7, <1>8, AtRestBalances DEF Handler, NoJob

LEMMA StopBalances ==
  ASSUME ContractInv, BalancesInv, NEW reason, Stop(reason)
  PROVE  BalancesInv'
<1>1. /\ phase' = "down" /\ block' = NoBlock /\ job' = [w \in Handler |-> NoJob]
      /\ lost \subseteq lost'
      /\ UNCHANGED <<nodeTip, storedTip, logged, db>>
  BY DEF Stop, node, tips
<1>2. \A w \in Handler : job'[w].pc = "none" /\ job'[w].stage = "none"
  BY <1>1 DEF NoJob
<1>3. Done' = storedTip /\ ~Asked'
  BY <1>1 DEF Done, Asked
<1>4. \A a \in Block : OnBranch(a, storedTip) => OnBranch(a, Done)
  BY DonePlace, OnBranchTrans
<1>5. \A x \in Pairs : Shown(x)' = Shown(x) /\ (Lost(x) => Lost(x)')
  BY <1>1 DEF Lost, Shown
<1>6. BalanceInv'
  BY <1>1, <1>3, <1>4, <1>5, BalancesKept DEF BalancesInv
<1>7. KindInv'
  BY <1>1 DEF BalancesInv, KindInv, Known
<1>8. OnBranch(storedTip, logged)' /\ (phase = "start" => logged = storedTip)'
  BY <1>1 DEF BalancesInv
<1> QED
  BY <1>1, <1>2, <1>6, <1>7, <1>8, HandlerBlock, AtRestBalances

LEMMA GoBackBalances ==
  ASSUME ContractInv, BalancesInv, CalmSync, NEW a \in Block, GoBack(a)
  PROVE  BalancesInv'
<1>1. /\ phase = "run" /\ phase' = "undo" /\ block = NoBlock /\ storedTip' = a
      /\ OnBranch(a, storedTip) /\ job["sync"].pc = "none"
      /\ job' = [job EXCEPT !["block"] = [NoJob EXCEPT !.pc = "logs", !.stage = "reorg"]]
      /\ UNCHANGED <<nodeTip, logged, block, db, lost>>
  BY DEF GoBack, node
<1>2. DOMAIN job = Handler /\ storedTip \in Block /\ logged = storedTip
  BY <1>1 DEF ContractInv, ShapeInv, TipInv
<1>3. job'["block"].stage = "reorg" /\ job'["block"].pc = "logs" /\ job'["sync"].pc = "none"
  BY <1>1, <1>2 DEF Handler, NoJob
<1>4. Done = storedTip /\ Done' = a /\ ~Asked'
  BY <1>1, <1>3 DEF Done, Asked
<1>5. \A c \in Block : OnBranch(c, a) => OnBranch(c, storedTip)
  BY <1>1, <1>2, OnBranchTrans
<1>6. \A x \in Pairs : Shown(x)' = Shown(x) /\ (Lost(x) => Lost(x)')
  BY <1>1 DEF Lost, Shown
<1>7. BalanceInv'
  BY <1>1, <1>4, <1>5, <1>6, BalancesKept DEF BalancesInv
<1>8. KindInv'
  BY <1>1 DEF BalancesInv, KindInv, Known
<1>9. OnBranch(storedTip, logged)' /\ (phase = "start" => logged = storedTip)'
  BY <1>1, <1>2
<1> QED
  BY <1>1, <1>3, <1>7, <1>8, <1>9, AtRestBalances DEF Handler

\* A reorganization asks about the logs above the block it goes back to.
LEMMA FindLogsBalances ==
  ASSUME ContractInv, BalancesInv, FindLogs
  PROVE  BalancesInv'
<1>1. /\ phase # "down" /\ job["block"].pc = "logs"
      /\ UNCHANGED <<nodeTip, storedTip, logged, phase, block, db, lost>>
      /\ job' = [job EXCEPT !["block"].pc = "read", !["block"].changes = Undone(ReorgTip)]
  BY DEF FindLogs, At, Reads, node, tips, process
<1>2. DOMAIN job = Handler /\ DOMAIN job["block"] = DOMAIN NoJob
  BY HandlerBlock DEF ContractInv, ShapeInv
<1>3. block = NoBlock /\ job["block"].stage = "reorg"
  BY <1>1, HandlerBlock, OneHandler DEF ContractInv, ReorgJob, BlockJob, Creating, ShapeInv
<1>4. /\ \A v \in Handler : v # "block" => job'[v] = job[v]
      /\ job'["block"].pc = "read" /\ job'["block"].stage = "reorg"
      /\ job'["block"].changes = Undone(ReorgTip)
  BY <1>1, <1>2, <1>3, HandlerBlock DEF NoJob
<1>5. phase = "undo" => Undone(ReorgTip) = LogChanges(storedTip, logged)
  BY DEF Undone, ReorgTip, LogChanges
<1>6. AnswerInv'
  BY <1>1, <1>4, <1>5 DEF AnswerInv
<1>7. Done' = Done /\ ~Asked'
  BY <1>1, <1>3, <1>4 DEF Done, Asked
<1>8. OwnerInv'
  BY <1>1, <1>3, <1>4 DEF OwnerInv
<1>9. KindInv'
  BY <1>1 DEF BalancesInv, KindInv, Known
<1>10. \A x \in Pairs : Shown(x)' = Shown(x) /\ (Lost(x) => Lost(x)')
  BY <1>1 DEF Lost, Shown
<1> QED
  BY <1>1, <1>4, <1>6, <1>7, <1>8, <1>9, <1>10, HandlerBlock, QuietStep

LEMMA RestoreTokensBalances ==
  ASSUME ContractInv, BalancesInv, RestoreTokens
  PROVE  BalancesInv'
<1>1. /\ phase # "down" /\ job["block"].pc = "tokens"
      /\ UNCHANGED <<nodeTip, storedTip, logged, phase, block, lost>>
      /\ db' = [db EXCEPT !.holders = Written(Restored(ReorgTip), @)]
      /\ Goes("block", "forget")
  BY DEF RestoreTokens, At, Writes, node, tips, process
<1>2. /\ DOMAIN job = Handler /\ DOMAIN job["block"] = DOMAIN NoJob
      /\ DOMAIN db = {"contracts", "supplies", "balances", "holders"}
  BY HandlerBlock DEF ContractInv, ShapeInv
<1>3. block = NoBlock /\ job["block"].stage = "reorg"
  BY <1>1, HandlerBlock, OneHandler DEF ContractInv, ReorgJob, BlockJob, Creating, ShapeInv
<1>4. /\ \A v \in Handler : v # "block" => job'[v] = job[v]
      /\ job'["block"].pc = "forget" /\ job'["block"].stage = "reorg"
  BY <1>1, <1>2, <1>3, HandlerBlock DEF NoJob, Goes
<1>5. db'.contracts = db.contracts /\ db'.balances = db.balances
  BY <1>1, <1>2
<1>6. Done' = Done /\ (Asked' => Asked)
  BY <1>1, <1>3 DEF Done, Asked
<1>7. OwnerInv'
  BY <1>1, <1>3, <1>4 DEF OwnerInv
<1>8. KindInv'
  BY <1>5 DEF BalancesInv, KindInv, Known
<1>9. \A x \in Pairs : Shown(x)' = Shown(x) /\ (Lost(x) => Lost(x)')
  BY <1>1, <1>5 DEF Lost, Shown
<1> QED
  BY <1>1, <1>4, <1>6, <1>7, <1>8, <1>9, HandlerBlock, QuietStep

LEMMA EndReorgBalances ==
  ASSUME ContractInv, BalancesInv, EndReorg
  PROVE  BalancesInv'
<1>1. /\ phase # "down" /\ job["block"].pc = "forget"
      /\ logged' = storedTip /\ phase' = "run"
      /\ lost \subseteq lost'
      /\ job' = [job EXCEPT !["block"] = NoJob]
      /\ UNCHANGED <<nodeTip, db, storedTip, block>>
  BY DEF EndReorg, At, node
<1>2. DOMAIN job = Handler /\ storedTip \in Block
  BY DEF ContractInv, ShapeInv
<1>3. block = NoBlock /\ phase \in {"start", "undo"}
  BY <1>1, HandlerBlock, OneHandler DEF ContractInv, BlockJob, Creating, ShapeInv
<1>4. job["sync"].pc = "none"
  BY <1>3 DEF ContractInv, JobInv
<1>5. job'["block"] = NoJob /\ job'["sync"].pc = "none"
  BY <1>1, <1>2, <1>4 DEF Handler
<1>6. Done = storedTip /\ Done' = storedTip /\ ~Asked'
  BY <1>1, <1>3 DEF Done, Asked
<1>7. \A x : (Right(x)' <=> Right(x)) /\ (Lost(x) => Lost(x)')
  BY <1>1 DEF Right, Lost, Shown
<1>8. BalanceInv'
  <2> SUFFICES ASSUME NEW a \in Block, OnBranch(a, storedTip), OnBranch(a, nodeTip),
                      NEW x \in Pairs
               PROVE  \/ Lost(x)' \/ Right(x)' \/ Pending(a, nodeTip, x)
                      \/ x \in LogChanges(a, storedTip)
    BY <1>1, <1>6 DEF BalanceInv
  <2>1. \/ Lost(x) \/ Right(x) \/ Pending(a, nodeTip, x)
        \/ ~Asked /\ x \in LogChanges(a, logged)
    BY <1>6 DEF BalancesInv, BalanceInv
  <2>2. ~Asked => logged = storedTip
    BY <1>1, <1>3 DEF Asked, BalancesInv
  <2> QED
    BY <1>7, <2>1, <2>2
<1>9. KindInv'
  BY <1>1 DEF BalancesInv, KindInv, Known
<1>10. OnBranch(storedTip, logged)'
  BY <1>1, <1>2, OnBranchSelf
<1> QED
  BY <1>1, <1>3, <1>5, <1>8, <1>9, <1>10, AtRestBalances DEF Handler, NoJob

-----------------------------------------------------------------------------
(* The node.                                                               *)

\* What was right at the old tip is right at the new one, or will be asked for.
LEMMA GrowBalances ==
  ASSUME ContractInv, BalancesInv, NEW b \in Block, Parent[b] = nodeTip, nodeTip' = b,
         UNCHANGED <<db, logged, tips, process, job, lost>>
  PROVE  BalancesInv'
<1>1. UNCHANGED <<storedTip, logged, phase, block, job, db, lost>>
  BY DEF tips, process
<1>2. /\ nodeTip \in Block /\ Done \in Block /\ Depth[Done] <= Depth[nodeTip]
      /\ OnBranch(nodeTip, b) /\ Depth[b] = Depth[nodeTip] + 1
  BY DonePlace, OnBranchParent
<1>3. Done' = Done /\ (Asked' <=> Asked)
  BY <1>1 DEF Done, Asked
<1>4. \A x \in Pairs : Right(x) => Right(x)' \/ Pending(nodeTip, b, x)
  <2> SUFFICES ASSUME NEW x \in Pairs, Right(x) PROVE Right(x)' \/ Pending(nodeTip, b, x)
    OBVIOUS
  <2>1. RightAt(Shown(x), nodeTip, x)
    BY DEF Right, RightAt
  <2>2. RightAt(Shown(x), b, x) \/ Pending(nodeTip, b, x)
    BY <1>2, <2>1, RightGrows
  <2>3. Shown(x)' = Shown(x)
    BY <1>1 DEF Shown
  <2> QED
    BY <2>2, <2>3 DEF Right, RightAt
<1>5. \A x : Lost(x)' <=> Lost(x)
  BY <1>1 DEF Lost
<1>6. ASSUME NEW a \in Block, OnBranch(a, b), Depth[a] <= Depth[nodeTip]
      PROVE  /\ OnBranch(a, nodeTip)
             /\ \A x : Pending(a, nodeTip, x) \/ Pending(nodeTip, b, x) => Pending(a, b, x)
  <2>1. OnBranch(a, nodeTip)
    BY <1>2, <1>6, OnBranchBetween
  <2> QED
    BY <1>2, <2>1, PendingSplits
<1>7. BalanceInv'
  <2> SUFFICES ASSUME NEW a \in Block, OnBranch(a, Done), OnBranch(a, b), NEW x \in Pairs
               PROVE  \/ Lost(x)' \/ Right(x)' \/ Pending(a, b, x)
                      \/ ~Asked /\ x \in LogChanges(a, logged)
    BY <1>1, <1>3 DEF BalanceInv
  <2>1. Depth[a] <= Depth[nodeTip]
    BY <1>2, DepthNat DEF OnBranch
  <2>2. OnBranch(a, nodeTip)
    BY <1>6, <2>1
  <2>3. \/ Lost(x) \/ Right(x) \/ Pending(a, nodeTip, x)
        \/ ~Asked /\ x \in LogChanges(a, logged)
    BY <2>2 DEF BalancesInv, BalanceInv
  <2> QED
    BY <1>4, <1>5, <1>6, <2>1, <2>3
<1>8. OwnerInv'
  <2> DEFINE j == job["block"]
             asked(x) == \/ x \in BalanceChanges(ToSet(Logs[block]))
                         \/ j.stage = "creations"
                            /\ \E n \in DOMAIN j.todo : x = <<j.todo[n].contract, j.todo[n].owner>>
  <2>1. j.stage = "creations" => ToSet(j.todo) \subseteq ToSet(Creations[block])
    BY DEF BalancesInv, OwnerInv
  <2>2. ASSUME block # NoBlock, Done = storedTip, NEW x \in Pairs \cap Owners,
               x[1] \in Existing(block) \ Existing(storedTip)
        PROVE  Lost(x)' \/ Right(x)' \/ Pending(block, b, x) \/ asked(x)
    <3>1. Lost(x) \/ Right(x) \/ Pending(block, nodeTip, x) \/ asked(x)
      BY <2>2 DEF BalancesInv, OwnerInv
    <3>2. block \in Block /\ OnBranch(block, nodeTip)
      BY <2>2, BlockPlace
    <3>3. Pending(block, nodeTip, x) \/ Pending(nodeTip, b, x) => Pending(block, b, x)
      BY <1>2, <3>2, PendingSplits
    <3> HIDE DEF asked
    <3> QED
      BY <1>4, <1>5, <3>1, <3>3
  <2> QED
    BY <1>1, <1>3, <2>1, <2>2 DEF OwnerInv
<1>9. ASSUME NEW t, NEW w, Recent(t, w)
      PROVE  Recent(t, w)'
  <2>1. OnBranch(t, b)
    BY <1>2, <1>9, OnBranchTrans DEF Recent
  <2> QED
    BY <1>1, <1>9, <2>1 DEF Recent
<1>10. AnswerInv'
  BY <1>1, <1>5, <1>9 DEF BalancesInv, AnswerInv
<1>11. ComparedInv'
  BY <1>1, <1>9 DEF BalancesInv, ComparedInv
<1>12. KindInv'
  BY <1>1 DEF BalancesInv, KindInv, Known
<1>13. (OnBranch(storedTip, logged) /\ (phase = "start" => logged = storedTip))'
  BY <1>1 DEF BalancesInv
<1> QED
  BY <1>7, <1>8, <1>10, <1>11, <1>12, <1>13 DEF BalancesInv

\* A balance of the old branch is that of a common block, or one of the logs
\* that a reorganization will find changed it, or its contract is gone.
LEMMA ForkBalances ==
  ASSUME ContractInv, BalancesInv, CaughtUp, NEW b \in Block, nodeTip' = b,
         UNCHANGED <<db, logged, tips, process, job, lost>>
  PROVE  BalancesInv'
<1>1. UNCHANGED <<storedTip, logged, phase, block, job, db, lost>>
  BY DEF tips, process
<1>2. /\ phase = "run" /\ block = NoBlock /\ synced /\ storedTip = nodeTip
      /\ job["block"].pc = "none" /\ job["sync"].pc = "none"
  BY DEF CaughtUp, Idle, Handler
<1>3. job["block"] = NoJob /\ logged = nodeTip /\ nodeTip \in Block
  BY <1>2 DEF ContractInv, ShapeInv, JobInv, TipInv
<1>4. Done = nodeTip /\ Done' = nodeTip /\ ~Asked /\ ~Asked'
  BY <1>1, <1>2 DEF Done, Asked
<1>5. ASSUME NEW x \in Pairs
      PROVE  Lost(x) \/ RightAt(Shown(x), nodeTip, x)
  <2>1. OnBranch(nodeTip, nodeTip) /\ LogChanges(nodeTip, nodeTip) = {}
        /\ ~Pending(nodeTip, nodeTip, x)
    BY <1>3, OnBranchSelf, ChangesNothing, PendingNothing
  <2> QED
    BY <1>3, <1>4, <2>1 DEF BalancesInv, BalanceInv, Right, RightAt
<1>6. BalanceInv'
  <2> SUFFICES ASSUME NEW a \in Block, OnBranch(a, nodeTip), OnBranch(a, b), NEW x \in Pairs,
                      ~Lost(x)
               PROVE  \/ RightAt(Shown(x), b, x) \/ Pending(a, b, x)
                      \/ x \in LogChanges(a, nodeTip)
    <3>1. \A x : Lost(x)' <=> Lost(x)
      BY <1>1 DEF Lost
    <3>2. \A x : Right(x)' <=> RightAt(Shown(x), b, x)
      BY <1>1 DEF Right, RightAt, Shown
    <3> QED
      BY <1>1, <1>3, <1>4, <3>1, <3>2 DEF BalanceInv
  <2>1. RightAt(Shown(x), nodeTip, x)
    BY <1>5
  <2>2. CASE x \in Owners /\ x[1] \notin Existing(a)
    BY <2>2 DEF RightAt, Pending
  <2>3. CASE ~(x \in Owners /\ x[1] \notin Existing(a)) /\ x \notin LogChanges(a, nodeTip)
    <3>1. Existing(a) \subseteq Existing(nodeTip)
      BY <1>3, ExistingGrows
    <3>2. ~Pending(a, nodeTip, x)
      BY <2>3 DEF Pending
    <3>3. Balance(a, x) = Balance(nodeTip, x)
      BY <1>3, <3>2, BalanceStays
    <3>4. RightAt(Shown(x), a, x)
      BY <2>1, <2>3, <3>1, <3>3 DEF RightAt
    <3> QED
      BY <3>4, RightGrows
  <2> QED
    BY <2>2, <2>3
<1>7. KindInv'
  BY <1>1 DEF BalancesInv, KindInv, Known
<1>8. (OnBranch(storedTip, logged) /\ (phase = "start" => logged = storedTip))'
  BY <1>1 DEF BalancesInv
<1>9. /\ job'["block"].stage = "none" /\ job'["block"].pc = "none" /\ job'["sync"].pc = "none"
      /\ block' = NoBlock
  BY <1>1, <1>2, <1>3 DEF NoJob
<1> QED
  BY <1>6, <1>7, <1>8, <1>9, AtRestBalances DEF Handler

LEMMA MoveBalances ==
  ASSUME ContractInv, BalancesInv, Steady, NEW b \in Block, NodeMoves(b)
  PROVE  BalancesInv'
<1>1. nodeTip' = b /\ UNCHANGED <<db, logged, tips, process, job, lost>>
  BY DEF NodeMoves
<1>2. Parent[b] = nodeTip \/ CaughtUp
  BY DEF NodeMoves
<1> QED
  BY <1>1, <1>2, GrowBalances, ForkBalances

-----------------------------------------------------------------------------
(* The theorem.                                                            *)

\* Nothing has been given to anybody in the genesis block.
LEMMA GenesisBalance ==
  ASSUME NEW x
  PROVE  Balance(Genesis, x) = 0
<1>1. Genesis \in Block /\ Depth[Genesis] = 0 /\ Branch[Genesis][0] = Genesis
  BY TreeAssumption, BranchAssumption, GenesisDepth
<1>2. \A d \in 0 .. Depth[Genesis] : Branch[Genesis][d] = Genesis
  BY <1>1
<1>3. \A n \in DOMAIN Logs[Genesis] : FALSE
  BY GenesisAssumption
<1>4. Received(Genesis, x) = {} /\ Sent(Genesis, x) = {}
  BY <1>2, <1>3 DEF Received, Sent
<1>5. ToSet(Creations[Genesis]) = {}
  BY GenesisAssumption DEF ToSet
<1>6. x[2] \notin Endowed(Genesis, x[1])
  BY <1>2, <1>5 DEF Endowed, Chain
<1>7. Cardinality({}) = 0
  BY FS_EmptySet
<1> QED
  BY <1>4, <1>6, <1>7, BalanceOf

LEMMA BalancesInit == Init => BalancesInv
<1> SUFFICES ASSUME Init PROVE BalancesInv
  OBVIOUS
<1>1. /\ nodeTip = Genesis /\ storedTip = Genesis /\ logged = Genesis /\ phase = "down"
      /\ block = NoBlock /\ \A w \in Handler : job[w] = NoJob
      /\ db.contracts = [c \in Dgp |-> "dgp"] /\ db.balances = <<>>
  BY DEF Init
<1>2. Genesis \in Block /\ OnBranch(Genesis, Genesis) /\ Depth[Genesis] = 0
  BY TreeAssumption, OnBranchSelf, GenesisDepth
<1>3. /\ job["block"].pc = "none" /\ job["block"].stage = "none"
      /\ \A w \in Handler : job[w].pc = "none"
  BY <1>1, HandlerBlock DEF NoJob
<1>4. Done = Genesis /\ ~Asked
  BY <1>1 DEF Done, Asked
<1>5. BalanceInv
  <2> SUFFICES ASSUME NEW a \in Block, OnBranch(a, Genesis), NEW x \in Pairs
               PROVE  \/ Right(x) \/ Pending(a, Genesis, x) \/ x \in LogChanges(a, Genesis)
    BY <1>1, <1>4 DEF BalanceInv
  <2>1. Shown(x) = 0
    BY <1>1 DEF Shown
  <2>2. Balance(Genesis, x) = 0
    BY GenesisBalance
  <2> QED
    BY <1>1, <2>1, <2>2 DEF Right
<1>6. OwnerInv /\ AnswerInv /\ ComparedInv
  BY <1>1, <1>3 DEF OwnerInv, AnswerInv, ComparedInv
<1>7. KindInv
  BY <1>1 DEF KindInv, Known
<1> QED
  BY <1>1, <1>2, <1>5, <1>6, <1>7 DEF BalancesInv

LEMMA BalancesStutter ==
  ASSUME BalancesInv, UNCHANGED vars
  PROVE  BalancesInv'
<1>1. UNCHANGED <<nodeTip, storedTip, logged, phase, block, job, db, lost>>
  BY DEF vars, node, tips, process
<1>2. Done' = Done /\ (Asked' <=> Asked)
  BY <1>1 DEF Done, Asked
<1>3. \A x : (Right(x)' <=> Right(x)) /\ (Lost(x)' <=> Lost(x)) /\ Shown(x)' = Shown(x)
  BY <1>1 DEF Right, Lost, Shown
<1>4. BalanceInv'
  BY <1>1, <1>2, <1>3, BalancesKept DEF BalancesInv
<1>5. OwnerInv'
  BY <1>1, <1>2, <1>3 DEF BalancesInv, OwnerInv
<1>6. \A t, w : Recent(t, w)' <=> Recent(t, w)
  BY <1>1 DEF Recent
<1>7. AnswerInv' /\ ComparedInv'
  BY <1>1, <1>3, <1>6 DEF BalancesInv, AnswerInv, ComparedInv
<1>8. KindInv'
  BY <1>1 DEF BalancesInv, KindInv, Known
<1>9. (OnBranch(storedTip, logged) /\ (phase = "start" => logged = storedTip))'
  BY <1>1 DEF BalancesInv
<1> QED
  BY <1>4, <1>5, <1>7, <1>8, <1>9 DEF BalancesInv

LEMMA BalancesNext ==
  ASSUME ContractInv, BalancesInv, Calm, [Next]_vars
  PROVE  BalancesInv'
<1>1. CASE Start \/ OnSynced \/ Crash
  BY <1>1, StartBalances, SyncedBalances, StopBalances DEF Crash
<1>2. ASSUME NEW b \in Block, NodeMoves(b) \/ BeginBlock(b) \/ GoBack(b)
      PROVE  BalancesInv'
  BY <1>2, MoveBalances, BeginBlockBalances, GoBackBalances DEF Calm
<1>3. ASSUME NEW w \in Handler, Sync(w)
      PROVE  BalancesInv'
  BY <1>3, ListBalances, CompareBalances, EndSyncBalances, FindBalances, SaveBalances,
     DetailsBalances, AskOwnerBalances DEF Sync
<1>4. CASE BeginReceipts \/ ReadBalances \/ WriteBalances \/ WriteHolders
  BY <1>4, BeginReceiptsBalances, ReadBalancesBalances, WriteBalancesBalances,
     WriteHoldersBalances
<1>5. CASE AskSupply \/ WriteSupply \/ EndReceipts \/ StoreTip \/ Commit
  BY <1>5, AskSupplyBalances, WriteSupplyBalances, EndReceiptsBalances, StoreTipBalances,
     CommitBalances
<1>6. CASE FindLogs \/ RestoreTokens \/ EndReorg
  BY <1>6, FindLogsBalances, RestoreTokensBalances, EndReorgBalances
<1>7. CASE UNCHANGED vars
  BY <1>7, BalancesStutter
<1> QED
  BY <1>1, <1>2, <1>3, <1>4, <1>5, <1>6, <1>7 DEF Next

LEMMA BalancesImply ==
  ASSUME ContractInv, BalancesInv
  PROVE  BalancesCurrent
<1> SUFFICES ASSUME CaughtUp, NEW c \in Existing(storedTip), NEW h \in Holder,
                    Standard[c] = "qrc20", <<"balance", <<c, h>>>> \notin lost
             PROVE  Shown(<<c, h>>) = Balance(storedTip, <<c, h>>)
  BY DEF BalancesCurrent, Shown
<1>1. phase = "run" /\ block = NoBlock /\ storedTip = nodeTip
  BY DEF CaughtUp
<1>2. logged = nodeTip /\ nodeTip \in Block
  BY <1>1 DEF ContractInv, ShapeInv, TipInv
<1>3. Done = nodeTip
  BY <1>1 DEF Done
<1> DEFINE x == <<c, h>>
<1>4. x \in Pairs /\ x[1] = c
  BY <1>1, <1>2, ExistingContracts DEF Pairs
<1>5. OnBranch(nodeTip, nodeTip) /\ LogChanges(nodeTip, nodeTip) = {}
      /\ ~Pending(nodeTip, nodeTip, x)
  BY <1>2, OnBranchSelf, ChangesNothing, PendingNothing
<1>6. ~Lost(x)
  BY DEF Lost
<1> HIDE DEF x
<1>7. Right(x)
  BY <1>2, <1>3, <1>4, <1>5, <1>6 DEF BalancesInv, BalanceInv
<1>8. Shown(x) = Balance(nodeTip, x)
  BY <1>1, <1>4, <1>7 DEF Right
<1> QED
  BY <1>1, <1>8 DEF x

\* BalancesCurrent: whenever the index has caught up with the node, it shows of
\* every holder of a QRC20 what the node says, but for those a start has cut off
\* from their logs or the node had no answer for: for every block tree, whatever
\* the blocks create and log, after any crashes, and however far the node was
\* ahead on its branch of the block that was being written; under CalmSync, and
\* for the reorganizations that Steady allows, as in ContractsTheorem.
THEOREM BalancesTheorem ==
  ASSUME CalmSync, Steady
  PROVE  Spec => []BalancesCurrent
<1> USE DEF Calm
<1>1. Init => ContractInv /\ BalancesInv
  BY ContractInit, BalancesInit
<1>2. ContractInv /\ BalancesInv /\ [Next]_vars => ContractInv' /\ BalancesInv'
  BY ContractNext, BalancesNext
<1>3. ContractInv /\ BalancesInv => BalancesCurrent
  BY BalancesImply
<1> QED
  BY <1>1, <1>2, <1>3, PTL DEF Spec

-----------------------------------------------------------------------------
(* The supplies: the blocks that mint and burn.                            *)

LEMMA MintingSplits ==
  ASSUME NEW a \in Block, NEW b \in Block, NEW c \in Block, OnBranch(a, b), OnBranch(b, c)
  PROVE  Minting(a, c) = Minting(a, b) \cup Minting(b, c)
<1>1. Above(a, c) = Above(a, b) \cup Above(b, c)
  BY AboveSplits
<1>2. LogsOf(Above(a, c)) = LogsOf(Above(a, b)) \cup LogsOf(Above(b, c))
  BY <1>1 DEF LogsOf
<1> QED
  BY <1>2 DEF Minting, SupplyChanges

LEMMA MintingNothing ==
  ASSUME NEW b \in Block
  PROVE  Minting(b, b) = {}
<1>1. LogsOf(Above(b, b)) = {}
  BY AboveNothing DEF LogsOf
<1> QED
  BY <1>1 DEF Minting, SupplyChanges

LEMMA MintingParent ==
  ASSUME NEW b \in Block, Parent[b] \in Block
  PROVE  Minting(Parent[b], b) = SupplyChanges(ToSet(Logs[b]))
<1>1. LogsOf(Above(Parent[b], b)) = ToSet(Logs[b])
  BY AboveParent DEF LogsOf
<1> QED
  BY <1>1 DEF Minting

\* The contracts that a block mints or burns tokens of.
LEMMA MintedContracts ==
  ASSUME NEW b \in Block
  PROVE  /\ SupplyChanges(ToSet(Logs[b])) \subseteq Existing(b)
         /\ SupplyChanges(ToSet(Logs[b])) \subseteq Contract
<1>1. SupplyChanges(ToSet(Logs[b])) \subseteq Existing(b)
  BY LogAssumption DEF SupplyChanges
<1> QED
  BY <1>1, ExistingContracts

\* The places of the logs that mint, and of those that burn.
Minted(b, c) ==
  UNION {{<<d, n>> : n \in {m \in DOMAIN Logs[Branch[b][d]] :
            Logs[Branch[b][d]][m].contract = c /\ Logs[Branch[b][d]][m].from = Nobody}}
         : d \in 0 .. Depth[b]}
Burnt(b, c) ==
  UNION {{<<d, n>> : n \in {m \in DOMAIN Logs[Branch[b][d]] :
            Logs[Branch[b][d]][m].contract = c /\ Logs[Branch[b][d]][m].to = Nobody}}
         : d \in 0 .. Depth[b]}

LEMMA TotalOf ==
  ASSUME NEW b, NEW c
  PROVE  /\ Total(b, c) = Cardinality(OwnersOf(c)) + Cardinality(Minted(b, c)) - Cardinality(Burnt(b, c))
         /\ Supply(b, c) = Cardinality(Endowed(b, c)) + Cardinality(Minted(b, c)) - Cardinality(Burnt(b, c))
  BY DEF Total, Supply, Number, Minted, Burnt

\* The supply of a contract that is there counts all its owners.
LEMMA SupplyTotal ==
  ASSUME NEW b \in Block, NEW c \in Existing(b)
  PROVE  Supply(b, c) = Total(b, c)
<1>1. c \in Contract
  BY ExistingContracts
<1>2. \A h \in Holder : h \in Endowed(b, c) <=> <<c, h>> \in Owners
  <2> SUFFICES ASSUME NEW h \in Holder PROVE h \in Endowed(b, c) <=> <<c, h>> \in Owners
    OBVIOUS
  <2> DEFINE x == <<c, h>>
  <2>1. x \in Contract \X Holder /\ x[1] = c /\ x[2] = h
    BY <1>1
  <2> HIDE DEF x
  <2>2. h \in Endowed(b, c) <=> x \in Owners
    BY <2>1, EndowedOf
  <2> QED
    BY <2>2 DEF x
<1>3. Endowed(b, c) \subseteq Holder
  BY ChainBlocks, CreationsOf DEF Endowed
<1>4. \A x \in Owners : x = <<x[1], x[2]>> /\ x[2] \in Holder
  <2> SUFFICES ASSUME NEW e \in Block, NEW y \in ToSet(Creations[e]),
                      NEW x, x = <<y.contract, y.owner>>
               PROVE  x = <<x[1], x[2]>> /\ x[2] \in Holder
    BY DEF Owners
  <2> QED
    BY CreationsOf
<1>5. OwnersOf(c) \subseteq Holder
  BY <1>4 DEF OwnersOf
<1>6. \A h : h \in OwnersOf(c) <=> <<c, h>> \in Owners
  <2>1. ASSUME NEW h, h \in OwnersOf(c) PROVE <<c, h>> \in Owners
    BY <1>4, <2>1 DEF OwnersOf
  <2>2. ASSUME NEW h, <<c, h>> \in Owners PROVE h \in OwnersOf(c)
    <3>1. <<c, h>>[1] = c /\ <<c, h>>[2] = h
      OBVIOUS
    <3> QED
      BY <2>2, <3>1 DEF OwnersOf
  <2> QED
    BY <2>1, <2>2
<1>7. Endowed(b, c) = OwnersOf(c)
  BY <1>2, <1>3, <1>5, <1>6
<1> QED
  BY <1>7, TotalOf

\* The supply of a chain is that of a lower part of it, unless one of the blocks
\* between them mints or burns.
LEMMA TotalStays ==
  ASSUME NEW a \in Block, NEW b \in Block, OnBranch(a, b), NEW c, c \notin Minting(a, b)
  PROVE  Total(a, c) = Total(b, c)
<1>1. /\ Depth[a] \in Nat /\ Depth[b] \in Nat /\ Depth[a] <= Depth[b]
      /\ Branch[b][Depth[a]] = a
  BY DepthNat DEF OnBranch
<1>2. ASSUME NEW d \in 0 .. Depth[b], d \notin 0 .. Depth[a],
             NEW n \in DOMAIN Logs[Branch[b][d]],
             Logs[Branch[b][d]][n].contract = c
      PROVE  Logs[Branch[b][d]][n].from # Nobody /\ Logs[Branch[b][d]][n].to # Nobody
  <2> DEFINE e == Branch[b][d]
             l == Logs[e][n]
  <2>1. d \in Depth[a] + 1 .. Depth[b]
    BY <1>1, <1>2
  <2>2. e \in Block /\ e \in Above(a, b)
    BY <2>1, BranchBlock DEF Above
  <2>3. l \in ToSet(Logs[e])
    BY DEF ToSet
  <2>4. l \in LogsOf(Above(a, b))
    BY <2>2, <2>3 DEF LogsOf
  <2>5. l.contract = c
    BY <1>2
  <2> HIDE DEF l, e
  <2>6. Nobody \notin {l.from, l.to}
    BY <2>4, <2>5 DEF Minting, SupplyChanges
  <2> QED
    BY <2>6 DEF l, e
<1>3. ASSUME NEW d \in 0 .. Depth[a]
      PROVE  d \in 0 .. Depth[b] /\ Branch[a][d] = Branch[b][d]
  <2>1. d \in 0 .. Depth[b] /\ Depth[a] \in 0 .. Depth[b]
    BY <1>1
  <2>2. Branch[Branch[b][Depth[a]]][d] = Branch[b][d]
    BY <2>1, BranchPrefix
  <2> QED
    BY <1>1, <2>1, <2>2
<1>4. Minted(a, c) = Minted(b, c)
  <2>1. ASSUME NEW p \in Minted(a, c) PROVE p \in Minted(b, c)
    BY <1>3 DEF Minted
  <2>2. ASSUME NEW p \in Minted(b, c) PROVE p \in Minted(a, c)
    BY <1>2, <1>3 DEF Minted
  <2> QED
    BY <2>1, <2>2
<1>5. Burnt(a, c) = Burnt(b, c)
  <2>1. ASSUME NEW p \in Burnt(a, c) PROVE p \in Burnt(b, c)
    BY <1>3 DEF Burnt
  <2>2. ASSUME NEW p \in Burnt(b, c) PROVE p \in Burnt(a, c)
    BY <1>2, <1>3 DEF Burnt
  <2> QED
    BY <2>1, <2>2
<1> QED
  BY <1>4, <1>5, TotalOf

\* What the node said of late is still so, or will be asked for again.
LEMMA ToldHolds ==
  ASSUME NEW t \in Block, NEW n \in Block, OnBranch(t, n), NEW c \in Existing(t),
         NEW a \in Block, OnBranch(a, n), Depth[a] <= Depth[t]
  PROVE  Supply(t, c) = Total(n, c) \/ c \in Minting(a, n)
<1>1. OnBranch(a, t)
  BY OnBranchBetween
<1>2. Minting(t, n) \subseteq Minting(a, n)
  BY <1>1, MintingSplits
<1> QED
  BY <1>2, SupplyTotal, TotalStays

-----------------------------------------------------------------------------
(* Where the supplies of a state are.                                      *)

LEMMA SupplyPlace ==
  ASSUME ContractInv, BalancesInv
  PROVE  /\ SupplyDone \in Block /\ OnBranch(storedTip, SupplyDone) /\ OnBranch(SupplyDone, logged)
         /\ Depth[SupplyDone] <= Depth[nodeTip]
         /\ SupplyDone = storedTip \/ (block # NoBlock /\ SupplyDone = block)
<1>1. /\ nodeTip \in Block /\ storedTip \in Block /\ logged \in Block
      /\ Depth[storedTip] <= Depth[nodeTip] /\ OnBranch(storedTip, logged)
  BY DonePlace DEF BalancesInv
<1>2. CASE SupplyDone = storedTip
  BY <1>1, <1>2, OnBranchSelf
<1>3. CASE block # NoBlock /\ SupplyDone = block
  BY <1>1, <1>3, BlockPlace, OnBranchSelf DEF OnBranch
<1> QED
  BY <1>2, <1>3 DEF SupplyDone

\* A supply that a step keeps.
SupplyKept(c) == /\ c \in DOMAIN db.supplies /\ db'.supplies[c] = db.supplies[c]
                 /\ LostSupply(c) => LostSupply(c)'

\* Supplies stay or vanish, and no higher block is asked about.
LEMMA SuppliesKept ==
  ASSUME SupplyInv, UNCHANGED <<nodeTip, logged>>,
         \A c \in DOMAIN db'.supplies : SupplyKept(c),
         \A a \in Block : OnBranch(a, SupplyDone') => OnBranch(a, SupplyDone)
  PROVE  SupplyInv'
<1> SUFFICES ASSUME NEW a \in Block, OnBranch(a, SupplyDone'), OnBranch(a, nodeTip),
                    NEW c \in DOMAIN db'.supplies
             PROVE  Supplied(a, c)' \/ c \in Minting(a, logged)
  BY DEF SupplyInv
<1>1. SupplyKept(c)
  OBVIOUS
<1>2. Supplied(a, c) \/ c \in Minting(a, logged)
  BY <1>1 DEF SupplyInv, SupplyKept
<1>3. Supplied(a, c) => Supplied(a, c)'
  BY <1>1 DEF SupplyKept, Supplied
<1> QED
  BY <1>2, <1>3

\* Nothing is created and no supply asked for.
LEMMA NothingTold ==
  ASSUME SupplyInv', RowInv',
         \A w \in Handler : job'[w].pc \notin {"save", "detail", "supply", "supplied"}
  PROVE  SuppliesInv'
<1>1. ToSupplyInv'
  BY HandlerBlock DEF ToSupplyInv
<1>2. ToldInv'
  BY DEF ToldInv
<1> QED
  BY <1>1, <1>2 DEF SuppliesInv

\* The tables of the contracts and of the supplies stay.
LEMMA RowsKept ==
  ASSUME RowInv, db'.contracts = db.contracts, db'.supplies = db.supplies,
         \A c : LostSupply(c) => LostSupply(c)',
         \A c : \A w \in Handler : job[w].pc = "detail" /\ Head(job[w].todo).contract = c =>
           LostSupply(c)' \/ (job'[w].pc = "detail" /\ Head(job'[w].todo).contract = c)
  PROVE  RowInv'
<1>1. \A c : TokenKind(c)' <=> TokenKind(c)
  BY DEF TokenKind
<1>2. Known' = Known
  BY DEF Known
<1>3. \A c \in Known : TokenKind(c) =>
        \/ c \in DOMAIN db.supplies \/ LostSupply(c)'
        \/ \E w \in Handler : job'[w].pc = "detail" /\ Head(job'[w].todo).contract = c
  <2> SUFFICES ASSUME NEW c \in Known, TokenKind(c), c \notin DOMAIN db.supplies, ~LostSupply(c)'
               PROVE  \E w \in Handler : job'[w].pc = "detail" /\ Head(job'[w].todo).contract = c
    OBVIOUS
  <2>1. PICK w \in Handler : job[w].pc = "detail" /\ Head(job[w].todo).contract = c
    BY DEF RowInv
  <2> QED
    BY <2>1
<1> QED
  BY <1>1, <1>2, <1>3 DEF RowInv

\* A step of a handler that writes no contract and no supply.
LEMMA SuppliesQuiet ==
  ASSUME ContractInv, SuppliesInv, NEW w \in Handler, phase # "down", job[w].pc # "none",
         job[w].pc # "detail",
         UNCHANGED <<nodeTip, storedTip, logged, phase, block>>,
         db'.contracts = db.contracts, db'.supplies = db.supplies,
         \A c : LostSupply(c) => LostSupply(c)',
         \A v \in Handler : v # w => job'[v] = job[v],
         w = "block" => SupplyDone' = SupplyDone,
         w = "block" /\ job'[w].pc \in {"supply", "supplied"} => ToSupplyInv',
         job'[w].pc \in {"save", "supplied"} =>
           \E t \in Block : /\ Recent(t, w) /\ Head(job'[w].todo).contract \in Existing(t)
                            /\ job'[w].answer = Supply(t, Head(job'[w].todo).contract),
         job'[w].pc # "detail"
  PROVE  SuppliesInv'
<1>1. /\ \A v \in Handler : v # w => job[v] = NoJob /\ job'[v] = NoJob
      /\ w = "sync" => phase = "run" /\ block = NoBlock
  BY OneHandler DEF ContractInv
<1>2. NoJob.pc = "none" /\ NoJob.stage = "none"
  BY DEF NoJob
<1>3. w = "sync" => SupplyDone = storedTip /\ SupplyDone' = storedTip
  BY <1>1 DEF SupplyDone
<1>4. SupplyDone' = SupplyDone
  BY <1>3 DEF Handler
<1>5. SupplyInv'
  BY <1>4, SuppliesKept DEF SupplyKept, SuppliesInv
<1>6. RowInv'
  <2>1. \A v \in Handler : job[v].pc # "detail"
    BY <1>1, <1>2
  <2> QED
    BY <2>1, RowsKept DEF SuppliesInv
<1>7. ToSupplyInv'
  <2>1. CASE w = "block"
    BY <2>1 DEF ToSupplyInv
  <2>2. CASE w = "sync"
    BY <1>1, <1>2, <2>2, HandlerBlock DEF ToSupplyInv
  <2> QED
    BY <2>1, <2>2 DEF Handler
<1>8. ToldInv'
  <2> SUFFICES ASSUME NEW v \in Handler, job'[v].pc \in {"save", "detail", "supplied"}
               PROVE  LET c == Head(job'[v].todo).contract IN
                      /\ \E t \in Block : Recent(t, v)' /\ c \in Existing(t) /\ job'[v].answer = Supply(t, c)
                      /\ job'[v].pc = "detail" => db'.contracts[c] = Standard[c] /\ c \notin Dgp
    BY DEF ToldInv
  <2>1. v = w
    BY <1>1, <1>2
  <2>2. \A t : Recent(t, w)' <=> Recent(t, w)
    BY DEF Recent
  <2> QED
    BY <2>1, <2>2
<1> QED
  BY <1>5, <1>6, <1>7, <1>8 DEF SuppliesInv

-----------------------------------------------------------------------------
(* _createContract.                                                        *)

\* At each of its places the stage is that of the handler.
LEMMA FindSupplies ==
  ASSUME ContractInv, BalancesInv, SuppliesInv, NEW w \in Handler, Find(w)
  PROVE  SuppliesInv'
<1> DEFINE c == Head(job[w].todo).contract
<1>1. /\ phase # "down" /\ job[w].pc = "find" /\ job[w].todo # <<>> /\ job[w].pc \in Creating
      /\ UNCHANGED <<nodeTip, storedTip, logged, phase, block, db, lost>>
  BY DEF Find, At, Reads, node, tips, process, Creating
<1>2. DOMAIN job = Handler /\ DOMAIN job[w] = DOMAIN NoJob
  BY DEF ContractInv, ShapeInv
<1>3. \A x : LostSupply(x)' <=> LostSupply(x)
  BY <1>1 DEF LostSupply
<1>4. Recent(nodeTip, w)
  <2>1. nodeTip \in Block /\ OnBranch(nodeTip, nodeTip) /\ Depth[storedTip] <= Depth[nodeTip]
    BY DonePlace, OnBranchSelf
  <2>2. block # NoBlock => Depth[block] <= Depth[nodeTip]
    BY BlockPlace DEF OnBranch
  <2> QED
    BY <2>1, <2>2 DEF Recent
<1>5. nodeTip \in Block
  BY <1>4 DEF Recent
<1>6. \/ /\ c \notin Existing(nodeTip)
         /\ job' = [job EXCEPT ![w].todo = Tail(@)]
      \/ Goes(w, "owner")
      \/ /\ c \in Existing(nodeTip)
         /\ job' = [job EXCEPT ![w].pc = "save", ![w].answer = Supply(nodeTip, c)]
  BY DEF Find
<1>7. /\ \A v \in Handler : v # w => job'[v] = job[v]
      /\ job'[w].pc \in {"find", "owner", "save"} /\ job'[w].stage = job[w].stage
      /\ job'[w].pc = "save" => /\ job'[w].todo = job[w].todo /\ c \in Existing(nodeTip)
                                /\ job'[w].answer = Supply(nodeTip, c)
  BY <1>1, <1>2, <1>6 DEF NoJob, Goes
<1>8. w = "block" => SupplyDone' = SupplyDone
  BY <1>1, <1>7 DEF SupplyDone
<1> QED
  BY <1>1, <1>3, <1>4, <1>5, <1>7, <1>8, SuppliesQuiet

\* A new contract has no supply yet.
LEMMA SaveSupplies ==
  ASSUME ContractInv, BalancesInv, SuppliesInv, NEW w \in Handler, SaveContract(w)
  PROVE  SuppliesInv'
<1> DEFINE c == Head(job[w].todo).contract
<1>1. phase # "down" /\ job[w].pc = "save" /\ job[w].pc \in Creating /\ job[w].pc # "none"
  BY DEF SaveContract, At, Creating
<1>2. /\ DOMAIN job = Handler /\ DOMAIN job[w] = DOMAIN NoJob
      /\ DOMAIN db = {"contracts", "supplies", "balances", "holders"}
  BY DEF ContractInv, ShapeInv
<1>3. c \notin Known
  BY <1>1 DEF ContractInv, CreateInv
<1>4. /\ db' = [db EXCEPT !.contracts = Written([x \in {c} |-> Standard[c]], @)]
      /\ Goes(w, "detail")
      /\ UNCHANGED <<nodeTip, storedTip, logged, phase, block, lost>>
  BY <1>3 DEF SaveContract, Writes, node, tips, process, Known
<1>5. /\ db'.contracts = Written([x \in {c} |-> Standard[c]], db.contracts)
      /\ db'.supplies = db.supplies
  BY <1>2, <1>4
<1>6. /\ Known' = Known \cup {c} /\ db'.contracts[c] = Standard[c]
      /\ \A x \in Known : db'.contracts[x] = db.contracts[x]
  BY <1>3, <1>5 DEF Known, Written
<1>7. /\ \A v \in Handler : v # w => job'[v] = job[v] /\ job[v] = NoJob
      /\ job'[w].pc = "detail" /\ job'[w].stage = job[w].stage /\ job'[w].todo = job[w].todo
      /\ job'[w].answer = job[w].answer
  BY <1>1, <1>2, <1>4, OneHandler DEF NoJob, Goes, ContractInv
<1>8. \A x : LostSupply(x)' <=> LostSupply(x)
  BY <1>4 DEF LostSupply
<1>9. NoJob.pc = "none" /\ NoJob.stage = "none"
  BY DEF NoJob
<1>10. SupplyDone' = SupplyDone
  <2>1. job'["block"].stage = job["block"].stage
    BY <1>7, HandlerBlock
  <2> QED
    BY <1>4, <2>1 DEF SupplyDone
<1>11. SupplyInv'
  BY <1>4, <1>5, <1>8, <1>10, SuppliesKept DEF SupplyKept, SuppliesInv
<1>12. ToSupplyInv'
  <2>1. job'["block"].pc \notin {"supply", "supplied"}
    BY <1>7, <1>9, HandlerBlock
  <2> QED
    BY <2>1 DEF ToSupplyInv
<1>13. c \notin Dgp
  BY <1>3 DEF SuppliesInv, RowInv
<1>14. ToldInv'
  <2> SUFFICES ASSUME NEW v \in Handler, job'[v].pc \in {"save", "detail", "supplied"}
               PROVE  LET e == Head(job'[v].todo).contract IN
                      /\ \E t \in Block : Recent(t, v)' /\ e \in Existing(t) /\ job'[v].answer = Supply(t, e)
                      /\ job'[v].pc = "detail" => db'.contracts[e] = Standard[e] /\ e \notin Dgp
    BY DEF ToldInv
  <2>1. v = w
    BY <1>7, <1>9
  <2>2. \A t : Recent(t, w)' <=> Recent(t, w)
    BY <1>4 DEF Recent
  <2>3. \E t \in Block : Recent(t, w) /\ c \in Existing(t) /\ job[w].answer = Supply(t, c)
    BY <1>1 DEF SuppliesInv, ToldInv
  <2> QED
    BY <1>6, <1>7, <1>13, <2>1, <2>2, <2>3
<1>15. RowInv'
  <2>1. \A x \in Known : TokenKind(x)' <=> TokenKind(x)
    BY <1>6 DEF TokenKind
  <2>2. \A v \in Handler : job[v].pc # "detail"
    BY <1>1, <1>7, <1>9
  <2>3. /\ Dgp \cup DOMAIN db.supplies \subseteq Known
        /\ \A x \in DOMAIN db.supplies : TokenKind(x)
        /\ \A x \in Known : TokenKind(x) => x \in DOMAIN db.supplies \/ LostSupply(x)
    BY <2>2 DEF SuppliesInv, RowInv
  <2>4. job'[w].pc = "detail" /\ Head(job'[w].todo).contract = c
    BY <1>7
  <2> HIDE DEF c
  <2> QED
    BY <1>5, <1>6, <1>8, <2>1, <2>3, <2>4 DEF RowInv
<1> QED
  BY <1>11, <1>12, <1>14, <1>15 DEF SuppliesInv

\* The node's answer is of a block no lower than those asked about.
LEMMA RecentSupply ==
  ASSUME ContractInv, BalancesInv, NEW w \in Handler, phase # "down", job[w].pc # "none",
         NEW t, Recent(t, w)
  PROVE  /\ t \in Block /\ OnBranch(t, nodeTip) /\ nodeTip \in Block
         /\ Depth[SupplyDone] <= Depth[t]
         /\ block # NoBlock => Depth[block] <= Depth[t]
<1>1. t \in Block /\ OnBranch(t, nodeTip) /\ nodeTip \in Block
  BY DonePlace DEF Recent
<1>2. /\ w = "sync" => block = NoBlock
      /\ w = "sync" \/ w = "block"
  BY OneHandler DEF ContractInv, Handler
<1>3. CASE block = NoBlock
  <2>1. SupplyDone = storedTip
    BY <1>3 DEF SupplyDone
  <2> QED
    BY <1>1, <1>3, <2>1 DEF Recent
<1>4. CASE block # NoBlock
  <2>1. Depth[block] <= Depth[t]
    BY <1>2, <1>4 DEF Recent
  <2>2. block \in Block /\ storedTip \in Block /\ Depth[block] = Depth[storedTip] + 1
    BY <1>4, BlockPlace
  <2>3. Depth[SupplyDone] <= Depth[block]
    BY <2>2, SupplyPlace, DepthNat
  <2> QED
    BY <1>1, <2>1, <2>2, <2>3, SupplyPlace, DepthNat
<1> QED
  BY <1>3, <1>4

\* A new supply is the node's, or a block that is still to come changes it.
LEMMA DetailsSupplies ==
  ASSUME ContractInv, BalancesInv, SuppliesInv, NEW w \in Handler, CreateDetails(w)
  PROVE  SuppliesInv'
<1> DEFINE c == Head(job[w].todo).contract
<1>1. phase # "down" /\ job[w].pc = "detail" /\ job[w].pc \in Creating /\ job[w].pc # "none"
  BY DEF CreateDetails, At, Creating
<1>2. /\ DOMAIN job = Handler /\ DOMAIN job[w] = DOMAIN NoJob
      /\ DOMAIN db = {"contracts", "supplies", "balances", "holders"}
  BY DEF ContractInv, ShapeInv
<1>3. /\ Goes(w, "owner") /\ lost' = lost \ {<<"supply", c>>}
      /\ UNCHANGED <<nodeTip, storedTip, logged, phase, block>>
  BY DEF CreateDetails, Writes, node, tips, process
<1>4. /\ db'.contracts = db.contracts
      /\ db'.supplies = IF Standard[c] = "none" THEN db.supplies
                        ELSE Written([x \in {c} |-> job[w].answer], db.supplies)
  BY <1>2 DEF CreateDetails
<1>5. c \in Known
  BY <1>1 DEF ContractInv, CreateInv
<1>6. /\ db.contracts[c] = Standard[c]
      /\ \E t \in Block : Recent(t, w) /\ c \in Existing(t) /\ job[w].answer = Supply(t, c)
  BY <1>1 DEF SuppliesInv, ToldInv
<1>7. PICK t \in Block : Recent(t, w) /\ c \in Existing(t) /\ job[w].answer = Supply(t, c)
  BY <1>6
<1>8. Standard[c] \in {"qrc20", "qrc721", "none"}
  BY <1>7, ExistingContracts, ContractAssumption
<1>9. /\ \A v \in Handler : v # w => job'[v] = job[v] /\ job[v] = NoJob
      /\ job'[w].pc = "owner" /\ job'[w].stage = job[w].stage /\ job'[w].todo = job[w].todo
  BY <1>1, <1>2, <1>3, OneHandler DEF NoJob, Goes, ContractInv
<1>10. NoJob.pc = "none" /\ NoJob.stage = "none"
  BY DEF NoJob
<1>11. SupplyDone' = SupplyDone
  <2>1. job'["block"].stage = job["block"].stage
    BY <1>9, HandlerBlock
  <2> QED
    BY <1>3, <2>1 DEF SupplyDone
<1>12. /\ \A x : x # c => (LostSupply(x)' <=> LostSupply(x))
       /\ TokenKind(c) <=> Standard[c] # "none"
       /\ \A x : TokenKind(x)' <=> TokenKind(x)
       /\ Known' = Known
  <2> HIDE DEF c
  <2>1. \A x : x # c => (LostSupply(x)' <=> LostSupply(x))
    BY <1>3 DEF LostSupply
  <2> QED
    BY <1>4, <1>6, <1>8, <2>1 DEF TokenKind, Known
<1>13. c \in DOMAIN db'.supplies <=> Standard[c] # "none"
  <2>1. Standard[c] = "none" => c \notin DOMAIN db.supplies
    BY <1>12 DEF SuppliesInv, RowInv
  <2> QED
    BY <1>4, <2>1 DEF Written
<1>14. \A x \in DOMAIN db'.supplies : x # c => x \in DOMAIN db.supplies /\ db'.supplies[x] = db.supplies[x]
  BY <1>4 DEF Written
<1>15. c \in DOMAIN db'.supplies => db'.supplies[c] = Supply(t, c)
  BY <1>4, <1>7, <1>13 DEF Written
<1>16. SupplyInv'
  <2> SUFFICES ASSUME NEW a \in Block, OnBranch(a, SupplyDone), OnBranch(a, nodeTip),
                      NEW x \in DOMAIN db'.supplies
               PROVE  Supplied(a, x)' \/ x \in Minting(a, logged)
    BY <1>3, <1>11 DEF SupplyInv
  <2>1. CASE x = c
    <3>1. /\ OnBranch(t, nodeTip) /\ nodeTip \in Block /\ Depth[SupplyDone] <= Depth[t]
      BY <1>1, <1>7, RecentSupply
    <3>2. Depth[a] <= Depth[t]
      BY <3>1, SupplyPlace, DepthNat DEF OnBranch
    <3>3. Supply(t, c) = Total(nodeTip, c) \/ c \in Minting(a, nodeTip)
      BY <1>7, <3>1, <3>2, ToldHolds
    <3> QED
      BY <1>3, <1>15, <2>1, <3>3 DEF Supplied
  <2>2. CASE x # c
    <3>1. x \in DOMAIN db.supplies /\ db'.supplies[x] = db.supplies[x]
      BY <1>14, <2>2
    <3>2. Supplied(a, x) \/ x \in Minting(a, logged)
      BY <3>1 DEF SuppliesInv, SupplyInv
    <3> QED
      BY <1>3, <1>12, <2>2, <3>1, <3>2 DEF Supplied
  <2> QED
    BY <2>1, <2>2
<1>17. RowInv'
  <2>1. DOMAIN db'.supplies \subseteq DOMAIN db.supplies \cup {c} /\ DOMAIN db.supplies \subseteq DOMAIN db'.supplies
    BY <1>4 DEF Written
  <2>2. Dgp \cup DOMAIN db'.supplies \subseteq Known
    BY <1>5, <2>1 DEF SuppliesInv, RowInv
  <2>3. \A x \in DOMAIN db'.supplies : TokenKind(x)
    BY <1>12, <1>13, <2>1 DEF SuppliesInv, RowInv
  <2>4. ASSUME NEW x \in Known, TokenKind(x)
        PROVE  x \in DOMAIN db'.supplies \/ LostSupply(x)'
    <3>1. CASE x = c
      BY <1>12, <1>13, <2>4, <3>1
    <3>2. CASE x # c
      <4>1. x \in DOMAIN db.supplies \/ LostSupply(x)
            \/ \E v \in Handler : job[v].pc = "detail" /\ Head(job[v].todo).contract = x
        BY <2>4 DEF SuppliesInv, RowInv
      <4>2. \A v \in Handler : job[v].pc = "detail" => Head(job[v].todo).contract # x
        BY <1>9, <1>10, <3>2
      <4> QED
        BY <1>12, <2>1, <3>2, <4>1, <4>2
    <3> QED
      BY <3>1, <3>2
  <2> HIDE DEF c
  <2> QED
    BY <1>12, <2>2, <2>3, <2>4 DEF RowInv
<1>18. \A v \in Handler : job'[v].pc \notin {"save", "detail", "supply", "supplied"}
  BY <1>9, <1>10
<1> QED
  BY <1>16, <1>17, <1>18, NothingTold

LEMMA AskOwnerSupplies ==
  ASSUME ContractInv, BalancesInv, SuppliesInv, NEW w \in Handler, AskOwner(w)
  PROVE  SuppliesInv'
<1>1. /\ phase # "down" /\ job[w].pc = "owner"
      /\ UNCHANGED <<nodeTip, storedTip, logged, phase, block, db, lost>>
  BY DEF AskOwner, At, Reads, node, tips, process
<1>2. DOMAIN job = Handler /\ DOMAIN job[w] = DOMAIN NoJob
  BY DEF ContractInv, ShapeInv
<1>3. /\ \A v \in Handler : v # w => job'[v] = job[v]
      /\ job'[w].pc \in {"read", "find"} /\ job'[w].stage = job[w].stage
  BY <1>1, <1>2 DEF AskOwner, NoJob
<1>4. \A x : LostSupply(x)' <=> LostSupply(x)
  BY <1>1 DEF LostSupply
<1>5. w = "block" => SupplyDone' = SupplyDone
  BY <1>1, <1>3 DEF SupplyDone
<1> QED
  BY <1>1, <1>3, <1>4, <1>5, SuppliesQuiet

-----------------------------------------------------------------------------
(* _syncContracts.                                                         *)

LEMMA ListSupplies ==
  ASSUME ContractInv, BalancesInv, SuppliesInv, NEW w \in Handler, ListContracts(w)
  PROVE  SuppliesInv'
<1>1. /\ phase # "down" /\ job[w].pc = "list"
      /\ UNCHANGED <<nodeTip, storedTip, logged, phase, block, db, lost>>
      /\ job' = [job EXCEPT ![w].pc = "compare", ![w].listed = Existing(nodeTip)]
  BY DEF ListContracts, At, Reads, node, tips, process
<1>2. DOMAIN job = Handler /\ DOMAIN job[w] = DOMAIN NoJob
  BY DEF ContractInv, ShapeInv
<1>3. /\ \A v \in Handler : v # w => job'[v] = job[v]
      /\ job'[w].pc = "compare" /\ job'[w].stage = job[w].stage
  BY <1>1, <1>2 DEF NoJob
<1>4. \A x : LostSupply(x)' <=> LostSupply(x)
  BY <1>1 DEF LostSupply
<1>5. w = "block" => SupplyDone' = SupplyDone
  BY <1>1, <1>3 DEF SupplyDone
<1> QED
  BY <1>1, <1>3, <1>4, <1>5, SuppliesQuiet

LEMMA EndSyncSupplies ==
  ASSUME ContractInv, BalancesInv, SuppliesInv, NEW w \in Handler, EndSync(w)
  PROVE  SuppliesInv'
<1>1. /\ phase # "down" /\ job[w].pc = "find" /\ job[w].stage = "sync"
      /\ UNCHANGED <<nodeTip, storedTip, logged, phase, block, db, lost>>
      /\ job' = [job EXCEPT ![w] = IF w = "block" THEN [NoJob EXCEPT !.pc = "tip"] ELSE NoJob]
  BY DEF EndSync, At, Reads, node, tips, process
<1>2. DOMAIN job = Handler
  BY DEF ContractInv, ShapeInv
<1>3. /\ \A v \in Handler : v # w => job'[v] = job[v]
      /\ job'[w].pc \in {"tip", "none"} /\ job'[w].stage = "none"
  BY <1>1, <1>2 DEF NoJob
<1>4. \A x : LostSupply(x)' <=> LostSupply(x)
  BY <1>1 DEF LostSupply
<1>5. w = "block" => SupplyDone' = SupplyDone
  BY <1>1, <1>3 DEF SupplyDone
<1> QED
  BY <1>1, <1>3, <1>4, <1>5, SuppliesQuiet

\* The supplies that a comparison removes go with their contracts.
LEMMA CompareSupplies ==
  ASSUME ContractInv, BalancesInv, SuppliesInv, NEW w \in Handler, Compare(w)
  PROVE  SuppliesInv'
<1> DEFINE gone == Removable(w)
<1>1. /\ phase # "down" /\ job[w].pc = "compare" /\ job[w].pc # "none"
      /\ UNCHANGED <<nodeTip, storedTip, logged, phase, block>>
  BY DEF Compare, At, Writes, node, tips, process
<1>2. DOMAIN job = Handler /\ DOMAIN job[w] = DOMAIN NoJob
  BY DEF ContractInv, ShapeInv
<1>3. /\ \A v \in Handler : v # w => job'[v] = job[v] /\ job[v] = NoJob
      /\ job'[w].pc = "find" /\ job'[w].stage = job[w].stage
  BY <1>1, <1>2, OneHandler DEF NoJob, Compare, ContractInv
<1>4. NoJob.pc = "none" /\ NoJob.stage = "none"
  BY DEF NoJob
<1>5. /\ db'.contracts = [c \in Known \ gone |-> db.contracts[c]]
      /\ db'.supplies = [c \in DOMAIN db.supplies \ gone |-> db.supplies[c]]
  BY DEF Compare, Known
<1>6. ASSUME NEW c, c \notin gone, LostSupply(c)
      PROVE  LostSupply(c)'
  <2>1. lost' = {y \in lost : IF y[1] = "supply" THEN y[2] \notin gone ELSE y[2][1] \notin gone}
    BY DEF Compare
  <2>2. <<"supply", c>>[1] = "supply" /\ <<"supply", c>>[2] = c
    OBVIOUS
  <2> QED
    BY <1>6, <2>1, <2>2 DEF LostSupply
<1>7. SupplyDone' = SupplyDone
  <2>1. job'["block"].stage = job["block"].stage
    BY <1>3, HandlerBlock
  <2> QED
    BY <1>1, <2>1 DEF SupplyDone
<1>8. SupplyInv'
  <2>1. \A c \in DOMAIN db'.supplies : SupplyKept(c)
    BY <1>5, <1>6 DEF SupplyKept
  <2> QED
    BY <1>1, <1>7, <2>1, SuppliesKept DEF SuppliesInv
<1>9. gone \cap Dgp = {}
  <2>1. PICK t \in Block : Recent(t, w) /\ job[w].listed = Existing(t)
    BY <1>1 DEF BalancesInv, ComparedInv
  <2> QED
    BY <2>1 DEF Removable, Existing
<1>10. RowInv'
  <2>1. Known' = Known \ gone /\ \A c \in Known \ gone : TokenKind(c)' <=> TokenKind(c)
    BY <1>5 DEF Known, TokenKind
  <2>2. DOMAIN db'.supplies = DOMAIN db.supplies \ gone
    BY <1>5
  <2>3. \A v \in Handler : job[v].pc # "detail"
    BY <1>1, <1>3, <1>4
  <2>4. /\ Dgp \cup DOMAIN db.supplies \subseteq Known
        /\ \A x \in DOMAIN db.supplies : TokenKind(x)
        /\ \A x \in Known : TokenKind(x) => x \in DOMAIN db.supplies \/ LostSupply(x)
    BY <2>3 DEF SuppliesInv, RowInv
  <2> HIDE DEF gone
  <2> QED
    BY <1>6, <1>9, <2>1, <2>2, <2>4 DEF RowInv
<1>11. \A v \in Handler : job'[v].pc \notin {"save", "detail", "supply", "supplied"}
  BY <1>3, <1>4
<1> QED
  BY <1>8, <1>10, <1>11, NothingTold

-----------------------------------------------------------------------------
(* onBlock.                                                                *)

LEMMA BeginBlockSupplies ==
  ASSUME ContractInv, BalancesInv, SuppliesInv, CalmSync, NEW b \in Block, BeginBlock(b)
  PROVE  SuppliesInv'
<1>1. /\ phase = "run" /\ block = NoBlock /\ Parent[b] = storedTip /\ OnBranch(b, nodeTip)
      /\ block' = b /\ logged' = b /\ job["sync"].pc = "none"
      /\ job' = [job EXCEPT !["block"] = [NoJob EXCEPT !.pc = "find", !.stage = "creations",
                                                       !.todo = Creations[b]]]
      /\ UNCHANGED <<nodeTip, storedTip, phase, db, lost>>
  BY DEF BeginBlock, node, tips
<1>2. DOMAIN job = Handler /\ storedTip \in Block /\ nodeTip \in Block /\ job["block"] = NoJob
  BY <1>1 DEF ContractInv, ShapeInv, JobInv
<1>3. logged = storedTip
  BY <1>1 DEF ContractInv, TipInv
<1>4. /\ job'["block"].pc = "find" /\ job'["block"].stage = "creations"
      /\ job'["sync"] = job["sync"] /\ job["block"].pc = "none"
  BY <1>1, <1>2 DEF NoJob, Handler
<1>5. OnBranch(storedTip, b) /\ b # NoBlock
  BY <1>1, <1>2, OnBranchParent, TreeAssumption
<1>6. SupplyDone = storedTip /\ SupplyDone' = storedTip
  BY <1>1, <1>4 DEF SupplyDone
<1>7. \A x : LostSupply(x)' <=> LostSupply(x)
  BY <1>1 DEF LostSupply
<1>8. SupplyInv'
  <2> SUFFICES ASSUME NEW a \in Block, OnBranch(a, storedTip), OnBranch(a, nodeTip),
                      NEW c \in DOMAIN db.supplies
               PROVE  Supplied(a, c)' \/ c \in Minting(a, b)
    BY <1>1, <1>6 DEF SupplyInv
  <2>1. Supplied(a, c) \/ c \in Minting(a, storedTip)
    BY <1>3, <1>6 DEF SuppliesInv, SupplyInv
  <2>2. Minting(a, storedTip) \subseteq Minting(a, b)
    BY <1>2, <1>5, MintingSplits
  <2>3. Supplied(a, c) => Supplied(a, c)'
    BY <1>1, <1>7 DEF Supplied
  <2> QED
    BY <2>1, <2>2, <2>3
<1>9. \A w \in Handler : job[w].pc = "none"
  BY <1>1, <1>4 DEF Handler
<1>10. RowInv'
  BY <1>1, <1>7, <1>9, RowsKept DEF SuppliesInv
<1>11. \A w \in Handler : job'[w].pc \notin {"save", "detail", "supply", "supplied"}
  BY <1>1, <1>4 DEF Handler
<1> QED
  BY <1>8, <1>10, <1>11, NothingTold

LEMMA BeginReceiptsSupplies ==
  ASSUME ContractInv, BalancesInv, SuppliesInv, BeginReceipts
  PROVE  SuppliesInv'
<1>1. /\ phase # "down" /\ job["block"].pc = "find" /\ job["block"].stage = "creations"
      /\ UNCHANGED <<nodeTip, storedTip, logged, phase, block, db, lost>>
  BY DEF BeginReceipts, At, Reads, node, tips, process
<1>2. DOMAIN job = Handler /\ DOMAIN job["block"] = DOMAIN NoJob
  BY HandlerBlock DEF ContractInv, ShapeInv
<1>3. /\ \A v \in Handler : v # "block" => job'[v] = job[v]
      /\ job'["block"].pc = "read" /\ job'["block"].stage = "receipts"
  BY <1>2, HandlerBlock DEF BeginReceipts, NoJob
<1>4. \A x : LostSupply(x)' <=> LostSupply(x)
  BY <1>1 DEF LostSupply
<1>5. SupplyDone' = SupplyDone
  BY <1>1, <1>3 DEF SupplyDone
<1> QED
  BY <1>1, <1>3, <1>4, <1>5, HandlerBlock, SuppliesQuiet

LEMMA ReadBalancesSupplies ==
  ASSUME ContractInv, BalancesInv, SuppliesInv, ReadBalances
  PROVE  SuppliesInv'
<1>1. /\ phase # "down" /\ job["block"].pc = "read"
      /\ UNCHANGED <<nodeTip, storedTip, logged, phase, block, db>>
      /\ lost \subseteq lost'
  BY DEF ReadBalances, At, node, tips, process
<1>2. DOMAIN job = Handler /\ DOMAIN job["block"] = DOMAIN NoJob
  BY HandlerBlock DEF ContractInv, ShapeInv
<1>3. /\ \A v \in Handler : v # "block" => job'[v] = job[v]
      /\ job'["block"].pc = "write" /\ job'["block"].stage = job["block"].stage
  BY <1>2, HandlerBlock DEF ReadBalances, NoJob
<1>4. \A x : LostSupply(x) => LostSupply(x)'
  BY <1>1 DEF LostSupply
<1>5. SupplyDone' = SupplyDone
  BY <1>1, <1>3 DEF SupplyDone
<1> QED
  BY <1>1, <1>3, <1>4, <1>5, HandlerBlock, SuppliesQuiet

LEMMA WriteBalancesSupplies ==
  ASSUME ContractInv, BalancesInv, SuppliesInv, WriteBalances
  PROVE  SuppliesInv'
<1> DEFINE j == job["block"]
<1>1. /\ phase # "down" /\ j.pc = "write"
      /\ UNCHANGED <<nodeTip, storedTip, logged, phase, block>>
      /\ lost' = lost \ {<<"balance", x>> : x \in DOMAIN j.answer}
      /\ job' = [job EXCEPT !["block"] =
           CASE j.stage = "creations" -> [j EXCEPT !.pc = "find", !.todo = Tail(@)]
             [] j.stage = "receipts" -> [j EXCEPT !.pc = "holders"]
             [] j.stage = "reorg" -> [j EXCEPT !.pc = "tokens"]]
  BY DEF WriteBalances, At, Writes, node, tips, process
<1>2. /\ DOMAIN job = Handler /\ DOMAIN j = DOMAIN NoJob
      /\ DOMAIN db = {"contracts", "supplies", "balances", "holders"}
  BY HandlerBlock DEF ContractInv, ShapeInv
<1>3. j.stage \in {"creations", "receipts", "reorg"}
  BY <1>1, HandlerBlock, OneHandler DEF ContractInv, ReorgJob, BlockJob, Creating, ShapeInv
<1>4. /\ \A v \in Handler : v # "block" => job'[v] = job[v]
      /\ job'["block"].pc \in {"find", "holders", "tokens"} /\ job'["block"].stage = j.stage
  <2>1. \A v \in Handler : v # "block" => job'[v] = job[v]
    BY <1>1, <1>2, HandlerBlock
  <2>2. job'["block"] = CASE j.stage = "creations" -> [j EXCEPT !.pc = "find", !.todo = Tail(@)]
                          [] j.stage = "receipts" -> [j EXCEPT !.pc = "holders"]
                          [] j.stage = "reorg" -> [j EXCEPT !.pc = "tokens"]
    BY <1>1, <1>2, HandlerBlock
  <2> HIDE DEF j
  <2> QED
    BY <1>2, <1>3, <2>1, <2>2 DEF NoJob
<1>5. db'.contracts = db.contracts /\ db'.supplies = db.supplies
  BY <1>2 DEF WriteBalances
<1>6. \A x : LostSupply(x) => LostSupply(x)'
  <2>1. \A x, y : <<"supply", x>> # <<"balance", y>>
    OBVIOUS
  <2> HIDE DEF j
  <2> QED
    BY <1>1, <2>1 DEF LostSupply
<1>7. SupplyDone' = SupplyDone
  BY <1>1, <1>4 DEF SupplyDone
<1> QED
  BY <1>1, <1>4, <1>5, <1>6, <1>7, HandlerBlock, SuppliesQuiet

\* All the contracts that the block mints or burns tokens of are to be asked for.
LEMMA WriteHoldersSupplies ==
  ASSUME ContractInv, BalancesInv, SuppliesInv, WriteHolders
  PROVE  SuppliesInv'
<1> DEFINE minted == SupplyChanges(ToSet(Logs[block]))
           items == {[contract |-> c] : c \in minted}
<1>1. /\ phase # "down" /\ job["block"].pc = "holders"
      /\ UNCHANGED <<nodeTip, storedTip, logged, phase, block>>
      /\ job' = [job EXCEPT !["block"].pc = "supply", !["block"].todo = SetToSeq(items)]
  BY DEF WriteHolders, At, Writes, node, tips, process
<1>2. /\ DOMAIN job = Handler /\ DOMAIN job["block"] = DOMAIN NoJob
      /\ DOMAIN db = {"contracts", "supplies", "balances", "holders"}
  BY HandlerBlock DEF ContractInv, ShapeInv
<1>3. block \in Block
  <2>1. block # NoBlock
    BY <1>1, HandlerBlock, OneHandler DEF ContractInv, ReorgJob, ShapeInv
  <2> QED
    BY <2>1, BlockPlace
<1>4. /\ \A v \in Handler : v # "block" => job'[v] = job[v]
      /\ job'["block"].pc = "supply" /\ job'["block"].stage = job["block"].stage
      /\ job'["block"].todo = SetToSeq(items)
  BY <1>1, <1>2, HandlerBlock DEF NoJob
<1>5. db'.contracts = db.contracts /\ db'.supplies = db.supplies
  BY <1>2 DEF WriteHolders
<1>6. \A x : LostSupply(x) => LostSupply(x)'
  <2>1. lost' = lost \ {<<"token", x>> : x \in DOMAIN TokenHolders(block)}
    BY DEF WriteHolders
  <2>2. \A x, y : <<"supply", x>> # <<"token", y>>
    OBVIOUS
  <2> QED
    BY <2>1, <2>2 DEF LostSupply
<1>7. SupplyDone' = SupplyDone
  BY <1>1, <1>4 DEF SupplyDone
<1>8. minted \in SUBSET Contract
  BY <1>3, MintedContracts
<1>9. IsFiniteSet(items) /\ items \subseteq Items
  <2>1. IsFiniteSet(minted)
    BY <1>8, ContractAssumption, FS_Subset
  <2> HIDE DEF minted
  <2>2. [c \in minted |-> [contract |-> c]] \in Surjection(minted, items)
    BY DEF Surjection
  <2>3. IsFiniteSet(items)
    BY <2>1, <2>2, FS_Surjection
  <2> QED
    BY <1>8, <2>3 DEF Items
<1> HIDE DEF items
<1>10. SetToSeq(items) \in Seq(items) /\ {SetToSeq(items)[n] : n \in DOMAIN SetToSeq(items)} = items
  BY <1>9, Listing
<1>11. SetToSeq(items) \in Seq(Items)
  BY <1>9, <1>10
<1>12. ToDo("block")' = minted
  <2>1. ToDo("block")' = {SetToSeq(items)[n].contract : n \in DOMAIN SetToSeq(items)}
    BY <1>4 DEF ToDo
  <2>2. ToDo("block")' = {x.contract : x \in items}
    BY <1>10, <2>1
  <2> HIDE DEF minted
  <2>3. \A c \in minted : \E x \in items : x.contract = c
    <3> SUFFICES ASSUME NEW c \in minted PROVE \E x \in items : x.contract = c
      OBVIOUS
    <3>1. [contract |-> c] \in items
      BY DEF items
    <3> QED
      BY <3>1
  <2>4. \A x \in items : x.contract \in minted
    BY DEF items
  <2> QED
    BY <2>2, <2>3, <2>4
<1>13. ToSupplyInv'
  BY <1>1, <1>4, <1>11, <1>12 DEF ToSupplyInv
<1> HIDE DEF minted
<1> QED
  BY <1>1, <1>4, <1>5, <1>6, <1>7, <1>13, HandlerBlock, SuppliesQuiet

\* The contract that is asked about is one that the block changes.
LEMMA SupplyHead ==
  ASSUME ContractInv, SuppliesInv, phase # "down", job["block"].pc \in {"supply", "supplied"},
         job["block"].todo # <<>>
  PROVE  /\ Head(job["block"].todo).contract \in SupplyChanges(ToSet(Logs[block]))
         /\ Tail(job["block"].todo) \in Seq(Items)
         /\ ToDo("block") = {Head(job["block"].todo).contract}
                            \cup {Tail(job["block"].todo)[n].contract : n \in DOMAIN Tail(job["block"].todo)}
         /\ block \in Block /\ OnBranch(block, nodeTip) /\ nodeTip \in Block
         /\ SupplyChanges(ToSet(Logs[block])) \subseteq Existing(nodeTip)
<1>1. /\ job["block"].todo \in Seq(Items)
      /\ ToDo("block") \subseteq SupplyChanges(ToSet(Logs[block]))
  BY DEF SuppliesInv, ToSupplyInv
<1>2. /\ Tail(job["block"].todo) \in Seq(Items)
      /\ ToDo("block") = {Head(job["block"].todo).contract}
                         \cup {Tail(job["block"].todo)[n].contract : n \in DOMAIN Tail(job["block"].todo)}
  BY <1>1, HeadAndTail DEF ToDo
<1>3. block \in Block /\ OnBranch(block, nodeTip)
  BY SupplyStage, BlockPlace
<1>4. nodeTip \in Block
  BY DEF ContractInv, ShapeInv
<1>5. SupplyChanges(ToSet(Logs[block])) \subseteq Existing(nodeTip)
  BY <1>3, <1>4, MintedContracts, ExistingGrows
<1> QED
  BY <1>1, <1>2, <1>3, <1>4, <1>5

\* Only a contract without a supply is passed over.
LEMMA AskSupplySupplies ==
  ASSUME ContractInv, BalancesInv, SuppliesInv, AskSupply
  PROVE  SuppliesInv'
<1> DEFINE j == job["block"]
           c == Head(j.todo).contract
           minted == SupplyChanges(ToSet(Logs[block]))
           asks == TokenKind(c) /\ c \in Known /\ c \in Existing(nodeTip)
<1>1. /\ phase # "down" /\ j.pc = "supply" /\ j.todo # <<>>
      /\ UNCHANGED <<nodeTip, storedTip, logged, phase, block, db, lost>>
      /\ job' = IF asks THEN [job EXCEPT !["block"].pc = "supplied", !["block"].answer = Supply(nodeTip, c)]
                ELSE [job EXCEPT !["block"].todo = Tail(@)]
  BY DEF AskSupply, At, Reads, node, tips, process, TokenKind, Known
<1>2. DOMAIN job = Handler /\ DOMAIN j = DOMAIN NoJob
  BY HandlerBlock, <1>1 DEF ContractInv, ShapeInv
<1>3. /\ c \in minted /\ Tail(j.todo) \in Seq(Items)
      /\ ToDo("block") = {c} \cup {Tail(j.todo)[n].contract : n \in DOMAIN Tail(j.todo)}
      /\ block \in Block /\ OnBranch(block, nodeTip) /\ nodeTip \in Block
      /\ minted \subseteq Existing(nodeTip)
  BY <1>1, SupplyHead
<1>4. /\ j.todo \in Seq(Items) /\ ToDo("block") \subseteq minted
      /\ \A x \in DOMAIN db.supplies \cap minted : x \in ToDo("block") \/ Supplied(block, x)
  BY <1>1 DEF SuppliesInv, ToSupplyInv
<1>5. \A v \in Handler : v # "block" => job'[v] = job[v]
  BY <1>1, <1>2
<1>6. asks => /\ job'["block"].pc = "supplied" /\ job'["block"].stage = j.stage
              /\ job'["block"].todo = j.todo /\ job'["block"].answer = Supply(nodeTip, c)
  BY <1>1, <1>2, HandlerBlock DEF NoJob
<1>7. ~asks => /\ job'["block"].pc = "supply" /\ job'["block"].stage = j.stage
               /\ job'["block"].todo = Tail(j.todo)
  BY <1>1, <1>2, HandlerBlock DEF NoJob
<1>8. \A x : LostSupply(x)' <=> LostSupply(x)
  BY <1>1 DEF LostSupply
<1>9. SupplyDone' = SupplyDone
  BY <1>1, <1>6, <1>7 DEF SupplyDone
<1>10. ~asks => c \notin DOMAIN db.supplies
  BY <1>3 DEF SuppliesInv, RowInv
<1>11. Recent(nodeTip, "block")
  BY <1>1, <1>3, SupplyStage, OnBranchSelf DEF Recent, OnBranch
<1>12. \A x : Supplied(block, x) => Supplied(block, x)'
  BY <1>1, <1>8 DEF Supplied
<1>13. ToSupplyInv'
  <2> DEFINE left == {Tail(j.todo)[n].contract : n \in DOMAIN Tail(j.todo)}
  <2>1. asks => ToDo("block")' = ToDo("block")
    BY <1>6 DEF ToDo
  <2>2. ~asks => ToDo("block")' = left
    BY <1>7 DEF ToDo
  <2>3. ToDo("block") = {c} \cup left
    BY <1>3
  <2>4. asks => Head(job'["block"].todo).contract = c /\ TokenKind(c)
    BY <1>1, <1>6
  <2>7. \A x : TokenKind(x)' <=> TokenKind(x)
    BY <1>1 DEF TokenKind
  <2> HIDE DEF left, minted, c
  <2>5. CASE asks
    <3>1. /\ job'["block"].todo \in Seq(Items) /\ job'["block"].todo # <<>>
          /\ ToDo("block")' \subseteq minted
          /\ \A x \in DOMAIN db.supplies \cap minted : x \in ToDo("block")' \/ Supplied(block, x)'
      BY <1>1, <1>4, <1>6, <1>12, <2>1, <2>5
    <3>2. \A x : x = Head(job'["block"].todo).contract => TokenKind(x)'
      BY <2>4, <2>5, <2>7
    <3> HIDE DEF j
    <3> QED
      BY <1>1, <3>1, <3>2 DEF ToSupplyInv, minted
  <2>6. CASE ~asks
    <3>1. /\ job'["block"].todo \in Seq(Items) /\ job'["block"].pc = "supply"
          /\ ToDo("block")' \subseteq minted
      BY <1>3, <1>4, <1>7, <2>2, <2>3, <2>6
    <3>2. \A x \in DOMAIN db.supplies \cap minted : x \in ToDo("block")' \/ Supplied(block, x)'
      BY <1>4, <1>10, <1>12, <2>2, <2>3, <2>6
    <3> HIDE DEF j
    <3> QED
      BY <1>1, <3>1, <3>2 DEF ToSupplyInv, minted
  <2> QED
    BY <2>5, <2>6
<1>14. job'["block"].pc = "supplied" =>
         \E t \in Block : /\ Recent(t, "block") /\ Head(job'["block"].todo).contract \in Existing(t)
                          /\ job'["block"].answer = Supply(t, Head(job'["block"].todo).contract)
  BY <1>3, <1>6, <1>7, <1>11
<1>15. job'["block"].pc \in {"supply", "supplied"}
  BY <1>6, <1>7
<1> HIDE DEF asks, c, minted
<1> QED
  BY <1>1, <1>5, <1>8, <1>9, <1>13, <1>14, <1>15, HandlerBlock, SuppliesQuiet

\* A supply that is written is the node's, or a later block changes it.
LEMMA WriteSupplySupplies ==
  ASSUME ContractInv, BalancesInv, SuppliesInv, WriteSupply
  PROVE  SuppliesInv'
<1> DEFINE j == job["block"]
           c == Head(j.todo).contract
           minted == SupplyChanges(ToSet(Logs[block]))
<1>1. /\ phase # "down" /\ j.pc = "supplied" /\ j.pc # "none"
      /\ UNCHANGED <<nodeTip, storedTip, logged, phase, block>>
      /\ job' = [job EXCEPT !["block"].pc = "supply", !["block"].todo = Tail(@)]
      /\ db' = IF c \in DOMAIN db.supplies THEN [db EXCEPT !.supplies[c] = j.answer] ELSE db
      /\ lost' = IF c \in DOMAIN db.supplies THEN lost \ {<<"supply", c>>} ELSE lost
  BY DEF WriteSupply, At, Writes, node, tips, process
<1>2. /\ DOMAIN job = Handler /\ DOMAIN j = DOMAIN NoJob
      /\ DOMAIN db = {"contracts", "supplies", "balances", "holders"}
  BY HandlerBlock DEF ContractInv, ShapeInv
<1>3. j.todo # <<>>
  BY <1>1 DEF SuppliesInv, ToSupplyInv
<1>4. /\ Tail(j.todo) \in Seq(Items)
      /\ ToDo("block") = {c} \cup {Tail(j.todo)[n].contract : n \in DOMAIN Tail(j.todo)}
      /\ block \in Block /\ OnBranch(block, nodeTip) /\ nodeTip \in Block
  BY <1>1, <1>3, SupplyHead
<1>5. /\ ToDo("block") \subseteq minted
      /\ \A x \in DOMAIN db.supplies \cap minted : x \in ToDo("block") \/ Supplied(block, x)
  BY <1>1 DEF SuppliesInv, ToSupplyInv
<1>6. PICK t \in Block : Recent(t, "block") /\ c \in Existing(t) /\ j.answer = Supply(t, c)
  BY <1>1, HandlerBlock DEF SuppliesInv, ToldInv
<1>7. /\ \A v \in Handler : v # "block" => job'[v] = job[v] /\ job[v] = NoJob
      /\ job'["block"].pc = "supply" /\ job'["block"].stage = j.stage
      /\ job'["block"].todo = Tail(j.todo)
  <2>1. \A v \in Handler : v # "block" => job[v] = NoJob
    BY <1>1, HandlerBlock, OneHandler DEF ContractInv
  <2> QED
    BY <1>1, <1>2, <2>1, HandlerBlock DEF NoJob
<1>8. NoJob.pc = "none" /\ NoJob.stage = "none"
  BY DEF NoJob
<1>9. SupplyDone' = SupplyDone
  BY <1>1, <1>7 DEF SupplyDone
<1>10. /\ db'.contracts = db.contracts /\ DOMAIN db'.supplies = DOMAIN db.supplies
       /\ \A x \in DOMAIN db.supplies : x # c => db'.supplies[x] = db.supplies[x]
       /\ c \in DOMAIN db.supplies => db'.supplies[c] = j.answer
  <2>1. CASE c \in DOMAIN db.supplies
    <3> HIDE DEF c, j
    <3> QED
      BY <1>1, <1>2, <2>1
  <2>2. CASE c \notin DOMAIN db.supplies
    BY <1>1, <2>2
  <2> QED
    BY <2>1, <2>2
<1>11. \A x : x # c \/ c \notin DOMAIN db.supplies => (LostSupply(x)' <=> LostSupply(x))
  <2> HIDE DEF c
  <2> QED
    BY <1>1 DEF LostSupply
<1>12. /\ OnBranch(t, nodeTip) /\ Depth[SupplyDone] <= Depth[t] /\ Depth[block] <= Depth[t]
  <2>1. block # NoBlock
    BY <1>4, TreeAssumption
  <2> QED
    BY <1>1, <1>6, <2>1, HandlerBlock, RecentSupply
<1>13. ASSUME NEW a \in Block, OnBranch(a, nodeTip), Depth[a] <= Depth[t],
              NEW x \in DOMAIN db.supplies, x = c
       PROVE  Supplied(a, x)'
  <2>1. Supply(t, c) = Total(nodeTip, c) \/ c \in Minting(a, nodeTip)
    BY <1>4, <1>6, <1>12, <1>13, ToldHolds
  <2> QED
    BY <1>1, <1>6, <1>10, <1>13, <2>1 DEF Supplied
<1>14. ASSUME NEW a, NEW x \in DOMAIN db.supplies, x # c, Supplied(a, x)
       PROVE  Supplied(a, x)'
  <2>1. db'.supplies[x] = db.supplies[x] /\ (LostSupply(x)' <=> LostSupply(x))
    BY <1>10, <1>11, <1>14
  <2> QED
    BY <1>1, <1>14, <2>1 DEF Supplied
<1>15. SupplyInv'
  <2> SUFFICES ASSUME NEW a \in Block, OnBranch(a, SupplyDone), OnBranch(a, nodeTip),
                      NEW x \in DOMAIN db.supplies
               PROVE  Supplied(a, x)' \/ x \in Minting(a, logged)
    BY <1>1, <1>9, <1>10 DEF SupplyInv
  <2>1. CASE x = c
    <3>1. Depth[a] <= Depth[t]
      BY <1>12, SupplyPlace, DepthNat DEF OnBranch
    <3> QED
      BY <1>13, <2>1, <3>1
  <2>2. CASE x # c
    BY <1>14, <2>2 DEF SuppliesInv, SupplyInv
  <2> QED
    BY <2>1, <2>2
<1>16. RowInv'
  <2>1. \A x : TokenKind(x)' <=> TokenKind(x)
    BY <1>10 DEF TokenKind
  <2>2. Known' = Known
    BY <1>10 DEF Known
  <2>3. \A v \in Handler : job[v].pc # "detail"
    BY <1>1, <1>7, <1>8
  <2>4. /\ Dgp \cup DOMAIN db.supplies \subseteq Known
        /\ \A x \in DOMAIN db.supplies : TokenKind(x)
        /\ \A x \in Known : TokenKind(x) => x \in DOMAIN db.supplies \/ LostSupply(x)
    BY <2>3 DEF SuppliesInv, RowInv
  <2> HIDE DEF c
  <2> QED
    BY <1>10, <1>11, <2>1, <2>2, <2>4 DEF RowInv
<1>17. ToSupplyInv'
  <2> DEFINE left == {Tail(j.todo)[n].contract : n \in DOMAIN Tail(j.todo)}
  <2>1. ToDo("block")' = left
    BY <1>7 DEF ToDo
  <2>2. ToDo("block") = {c} \cup left
    BY <1>4
  <2> HIDE DEF left
  <2>3. ASSUME NEW a, a = block, NEW x \in DOMAIN db.supplies \cap minted
        PROVE  x \in left \/ Supplied(a, x)'
    <3>1. CASE x = c
      BY <1>4, <1>12, <1>13, <2>3, <3>1
    <3>2. CASE x # c
      BY <1>5, <1>14, <2>2, <2>3, <3>2
    <3> QED
      BY <3>1, <3>2
  <2>4. /\ job'["block"].todo \in Seq(Items) /\ job'["block"].pc = "supply"
        /\ ToDo("block")' \subseteq minted
    BY <1>4, <1>5, <1>7, <2>1, <2>2
  <2>5. \A x \in DOMAIN db'.supplies \cap minted : x \in ToDo("block")' \/ Supplied(block, x)'
    BY <1>1, <1>10, <2>1, <2>3
  <2> HIDE DEF j, c
  <2> QED
    BY <1>1, <2>4, <2>5 DEF ToSupplyInv
<1>18. \A v \in Handler : job'[v].pc \notin {"save", "detail", "supplied"}
  BY <1>7, <1>8
<1>19. ToldInv'
  BY <1>18 DEF ToldInv
<1> QED
  BY <1>15, <1>16, <1>17, <1>19 DEF SuppliesInv

\* The supplies of the block are as those of the one before.
LEMMA EndReceiptsSupplies ==
  ASSUME ContractInv, BalancesInv, SuppliesInv, EndReceipts
  PROVE  SuppliesInv'
<1> DEFINE minted == SupplyChanges(ToSet(Logs[block]))
<1>1. /\ phase # "down" /\ job["block"].pc = "supply" /\ job["block"].todo = <<>>
      /\ UNCHANGED <<nodeTip, storedTip, logged, phase, block, db, lost>>
  BY DEF EndReceipts, At, Reads, node, tips, process
<1>2. DOMAIN job = Handler /\ DOMAIN job["block"] = DOMAIN NoJob
  BY HandlerBlock DEF ContractInv, ShapeInv
<1>3. /\ \A v \in Handler : v # "block" => job'[v] = job[v] /\ job[v] = NoJob
      /\ job'["block"].pc \in {"list", "tip"} /\ job'["block"].stage = "sync"
  <2>1. \A v \in Handler : v # "block" => job[v] = NoJob
    BY <1>1, HandlerBlock, OneHandler DEF ContractInv
  <2> QED
    BY <1>2, <2>1, HandlerBlock DEF EndReceipts, NoJob
<1>4. NoJob.pc = "none" /\ NoJob.stage = "none"
  BY DEF NoJob
<1>5. block # NoBlock /\ job["block"].stage = "receipts"
  BY <1>1, SupplyStage
<1>6. /\ block \in Block /\ logged = block /\ Parent[block] = storedTip /\ Parent[block] \in Block
      /\ OnBranch(block, nodeTip) /\ OnBranch(storedTip, block) /\ OnBranch(storedTip, nodeTip)
      /\ Depth[block] = Depth[storedTip] + 1
  BY <1>5, BlockPlace
<1>7. nodeTip \in Block
  BY DEF ContractInv, ShapeInv
<1>8. SupplyDone = storedTip /\ SupplyDone' = block
  BY <1>1, <1>3, <1>5 DEF SupplyDone
<1>9. \A x : LostSupply(x)' <=> LostSupply(x)
  BY <1>1 DEF LostSupply
<1>10. \A a, x : Supplied(a, x)' <=> Supplied(a, x)
  BY <1>1, <1>9 DEF Supplied
<1>11. \A x \in DOMAIN db.supplies \cap minted : Supplied(block, x)
  <2>1. ToDo("block") = {}
    BY <1>1 DEF ToDo
  <2> QED
    BY <1>1, <2>1 DEF SuppliesInv, ToSupplyInv
<1>12. Minting(storedTip, block) = minted
  BY <1>6, MintingParent
<1>13. ASSUME NEW x \in DOMAIN db.supplies
       PROVE  Supplied(block, x)
  <2>1. CASE x \in minted
    BY <1>11, <2>1
  <2>2. CASE x \notin minted
    <3>1. storedTip \in Block /\ OnBranch(storedTip, storedTip)
      BY <1>6, OnBranchSelf
    <3>2. Supplied(storedTip, x) \/ x \in Minting(storedTip, block)
      BY <1>6, <1>8, <3>1 DEF SuppliesInv, SupplyInv
    <3>3. Minting(storedTip, nodeTip) = Minting(storedTip, block) \cup Minting(block, nodeTip)
      BY <1>6, <1>7, <3>1, MintingSplits
    <3> QED
      BY <1>12, <2>2, <3>2, <3>3 DEF Supplied
  <2> QED
    BY <2>1, <2>2
<1>14. SupplyInv'
  <2> SUFFICES ASSUME NEW a \in Block, OnBranch(a, block), OnBranch(a, nodeTip),
                      NEW x \in DOMAIN db.supplies
               PROVE  Supplied(a, x)
    BY <1>1, <1>8, <1>10 DEF SupplyInv
  <2>1. Minting(a, nodeTip) = Minting(a, block) \cup Minting(block, nodeTip)
    BY <1>6, <1>7, MintingSplits
  <2> QED
    BY <1>13, <2>1 DEF Supplied
<1>15. RowInv'
  <2>1. \A v \in Handler : job[v].pc # "detail"
    BY <1>1, <1>3, <1>4
  <2> QED
    BY <1>1, <1>9, <2>1, RowsKept DEF SuppliesInv
<1>16. \A v \in Handler : job'[v].pc \notin {"save", "detail", "supply", "supplied"}
  BY <1>3, <1>4
<1> QED
  BY <1>14, <1>15, <1>16, NothingTold

LEMMA StoreTipSupplies ==
  ASSUME ContractInv, BalancesInv, SuppliesInv, StoreTip
  PROVE  SuppliesInv'
<1>1. /\ phase # "down" /\ job["block"].pc = "tip"
      /\ UNCHANGED <<nodeTip, storedTip, logged, phase, block, db, lost>>
  BY DEF StoreTip, At, node, process
<1>2. DOMAIN job = Handler /\ DOMAIN job["block"] = DOMAIN NoJob
  BY HandlerBlock DEF ContractInv, ShapeInv
<1>3. /\ \A v \in Handler : v # "block" => job'[v] = job[v]
      /\ job'["block"].pc = "commit" /\ job'["block"].stage = job["block"].stage
  BY <1>1, <1>2, HandlerBlock DEF StoreTip, Goes, NoJob
<1>4. \A x : LostSupply(x)' <=> LostSupply(x)
  BY <1>1 DEF LostSupply
<1>5. SupplyDone' = SupplyDone
  BY <1>1, <1>3 DEF SupplyDone
<1> QED
  BY <1>1, <1>3, <1>4, <1>5, HandlerBlock, SuppliesQuiet

LEMMA CommitSupplies ==
  ASSUME ContractInv, BalancesInv, SuppliesInv, Commit
  PROVE  SuppliesInv'
<1>1. /\ phase # "down" /\ job["block"].pc = "commit"
      /\ storedTip' = block /\ block' = NoBlock
      /\ job' = [job EXCEPT !["block"] = NoJob]
      /\ UNCHANGED <<nodeTip, logged, phase, db, lost>>
  BY DEF Commit, At, node
<1>2. DOMAIN job = Handler
  BY DEF ContractInv, ShapeInv
<1>3. phase = "run" /\ block # NoBlock /\ job["block"].stage \in {"sync", "none"}
  BY <1>1, HandlerBlock, OneHandler DEF ContractInv, ReorgJob, BlockJob, Creating, ShapeInv
<1>4. job'["block"] = NoJob /\ job'["sync"] = job["sync"] /\ job["sync"] = NoJob
  BY <1>1, <1>2, HandlerBlock, OneHandler DEF ContractInv
<1>5. NoJob.pc = "none" /\ NoJob.stage = "none"
  BY DEF NoJob
<1>6. SupplyDone = block /\ SupplyDone' = block
  BY <1>1, <1>3 DEF SupplyDone
<1>7. \A x : LostSupply(x)' <=> LostSupply(x)
  BY <1>1 DEF LostSupply
<1>8. SupplyInv'
  BY <1>1, <1>6, <1>7, SuppliesKept DEF SuppliesInv, SupplyKept
<1>9. RowInv'
  <2>1. \A v \in Handler : job[v].pc # "detail"
    BY <1>1, <1>4, <1>5 DEF Handler
  <2> QED
    BY <1>1, <1>7, <2>1, RowsKept DEF SuppliesInv
<1>10. \A v \in Handler : job'[v].pc \notin {"save", "detail", "supply", "supplied"}
  BY <1>4, <1>5 DEF Handler
<1> QED
  BY <1>8, <1>9, <1>10, NothingTold

-----------------------------------------------------------------------------
(* The process, and onReorg.                                               *)

LEMMA StartSupplies ==
  ASSUME ContractInv, BalancesInv, SuppliesInv, Start
  PROVE  SuppliesInv'
<1>1. /\ phase = "down" /\ phase' = "start" /\ logged' = storedTip
      /\ lost' = lost \cup Changed(LogsOf(Above(storedTip, logged)))
      /\ job' = [job EXCEPT !["block"] = [NoJob EXCEPT !.pc = "logs", !.stage = "reorg"]]
      /\ UNCHANGED <<nodeTip, storedTip, block, db>>
  BY DEF Start, node, tips
<1>2. /\ block = NoBlock /\ storedTip \in Block /\ logged \in Block /\ DOMAIN job = Handler
      /\ job["sync"].pc = "none" /\ job["block"].pc = "none" /\ OnBranch(storedTip, logged)
  BY <1>1 DEF ContractInv, ShapeInv, JobInv, BalancesInv, Handler, NoJob
<1>3. job'["block"].stage = "reorg" /\ job'["block"].pc = "logs" /\ job'["sync"].pc = "none"
  BY <1>1, <1>2 DEF Handler, NoJob
<1>4. SupplyDone = storedTip /\ SupplyDone' = storedTip
  BY <1>1, <1>2 DEF SupplyDone
<1>5. \A c \in Minting(storedTip, logged) : LostSupply(c)'
  BY <1>1 DEF LostSupply, Changed, Minting
<1>6. \A c : LostSupply(c) => LostSupply(c)'
  BY <1>1 DEF LostSupply
<1>7. SupplyInv'
  <2> SUFFICES ASSUME NEW a \in Block, OnBranch(a, storedTip), OnBranch(a, nodeTip),
                      NEW c \in DOMAIN db.supplies
               PROVE  Supplied(a, c)' \/ c \in Minting(a, storedTip)
    BY <1>1, <1>4 DEF SupplyInv
  <2>1. Supplied(a, c) \/ c \in Minting(a, logged)
    BY <1>4 DEF SuppliesInv, SupplyInv
  <2>2. Minting(a, logged) = Minting(a, storedTip) \cup Minting(storedTip, logged)
    BY <1>2, MintingSplits
  <2> QED
    BY <1>1, <1>5, <1>6, <2>1, <2>2 DEF Supplied
<1>8. RowInv'
  BY <1>1, <1>2, <1>6, RowsKept DEF Handler, SuppliesInv
<1>9. \A w \in Handler : job'[w].pc \notin {"save", "detail", "supply", "supplied"}
  BY <1>3 DEF Handler
<1> QED
  BY <1>7, <1>8, <1>9, NothingTold

LEMMA SyncedSupplies ==
  ASSUME ContractInv, BalancesInv, SuppliesInv, OnSynced
  PROVE  SuppliesInv'
<1>1. /\ phase = "run" /\ block = NoBlock
      /\ job' = [job EXCEPT !["sync"] = [NoJob EXCEPT !.pc = "list", !.stage = "sync"]]
      /\ UNCHANGED <<nodeTip, storedTip, logged, phase, block, db, lost>>
  BY DEF OnSynced, node, tips
<1>2. DOMAIN job = Handler /\ job["block"] = NoJob /\ NoJob.pc = "none"
  BY <1>1 DEF ContractInv, ShapeInv, JobInv, NoJob
<1>3. job'["block"] = NoJob /\ job'["sync"].pc = "list"
  BY <1>1, <1>2 DEF Handler, NoJob
<1>4. SupplyDone = storedTip /\ SupplyDone' = storedTip
  BY <1>1 DEF SupplyDone
<1>5. \A c : LostSupply(c)' <=> LostSupply(c)
  BY <1>1 DEF LostSupply
<1>6. SupplyInv'
  BY <1>1, <1>4, <1>5, SuppliesKept DEF SuppliesInv, SupplyKept
<1>7. job["sync"].pc # "detail"
  <2>1. job["sync"] = NoJob \/ synced
    BY DEF ContractInv, JobInv
  <2>2. ~synced
    BY DEF OnSynced
  <2> QED
    BY <1>2, <2>1, <2>2
<1>8. RowInv'
  BY <1>1, <1>2, <1>5, <1>7, RowsKept DEF Handler, SuppliesInv
<1>9. \A w \in Handler : job'[w].pc \notin {"save", "detail", "supply", "supplied"}
  BY <1>2, <1>3 DEF Handler
<1> QED
  BY <1>6, <1>8, <1>9, NothingTold

\* A contract whose supply will not be written is lost.
LEMMA StopSupplies ==
  ASSUME ContractInv, BalancesInv, SuppliesInv, NEW reason, Stop(reason)
  PROVE  SuppliesInv'
<1>1. /\ phase' = "down" /\ block' = NoBlock /\ job' = [w \in Handler |-> NoJob]
      /\ lost' = lost \cup {<<"supply", Head(job[w].todo).contract>> :
                              w \in {v \in Handler : job[v].pc = "detail"}}
      /\ UNCHANGED <<nodeTip, storedTip, logged, db>>
  BY DEF Stop, node, tips
<1>2. \A w \in Handler : job'[w].pc \notin {"save", "detail", "supply", "supplied"}
  BY <1>1 DEF NoJob
<1>3. SupplyDone' = storedTip
  BY <1>1 DEF SupplyDone
<1>4. \A a \in Block : OnBranch(a, storedTip) => OnBranch(a, SupplyDone)
  BY DonePlace, SupplyPlace, OnBranchTrans
<1>5. \A c : LostSupply(c) => LostSupply(c)'
  BY <1>1 DEF LostSupply
<1>6. \A c : \A w \in Handler : job[w].pc = "detail" /\ Head(job[w].todo).contract = c => LostSupply(c)'
  BY <1>1 DEF LostSupply
<1>7. SupplyInv'
  BY <1>1, <1>3, <1>4, <1>5, SuppliesKept DEF SuppliesInv, SupplyKept
<1>8. RowInv'
  BY <1>1, <1>5, <1>6, RowsKept DEF SuppliesInv
<1> QED
  BY <1>2, <1>7, <1>8, NothingTold

LEMMA GoBackSupplies ==
  ASSUME ContractInv, BalancesInv, SuppliesInv, CalmSync, NEW a \in Block, GoBack(a)
  PROVE  SuppliesInv'
<1>1. /\ phase = "run" /\ block = NoBlock /\ storedTip' = a
      /\ OnBranch(a, storedTip) /\ job["sync"].pc = "none"
      /\ job' = [job EXCEPT !["block"] = [NoJob EXCEPT !.pc = "logs", !.stage = "reorg"]]
      /\ UNCHANGED <<nodeTip, logged, block, db, lost>>
  BY DEF GoBack, node
<1>2. DOMAIN job = Handler /\ storedTip \in Block /\ job["block"].pc = "none"
  BY <1>1 DEF ContractInv, ShapeInv, JobInv, NoJob
<1>3. job'["block"].pc = "logs" /\ job'["sync"].pc = "none"
  BY <1>1, <1>2 DEF Handler, NoJob
<1>4. SupplyDone = storedTip /\ SupplyDone' = a
  BY <1>1 DEF SupplyDone
<1>5. \A c \in Block : OnBranch(c, a) => OnBranch(c, storedTip)
  BY <1>1, <1>2, OnBranchTrans
<1>6. \A c : LostSupply(c)' <=> LostSupply(c)
  BY <1>1 DEF LostSupply
<1>7. SupplyInv'
  BY <1>1, <1>4, <1>5, <1>6, SuppliesKept DEF SuppliesInv, SupplyKept
<1>8. RowInv'
  BY <1>1, <1>2, <1>6, RowsKept DEF Handler, SuppliesInv
<1>9. \A w \in Handler : job'[w].pc \notin {"save", "detail", "supply", "supplied"}
  BY <1>3 DEF Handler
<1> QED
  BY <1>7, <1>8, <1>9, NothingTold

LEMMA FindLogsSupplies ==
  ASSUME ContractInv, BalancesInv, SuppliesInv, FindLogs
  PROVE  SuppliesInv'
<1>1. /\ phase # "down" /\ job["block"].pc = "logs"
      /\ UNCHANGED <<nodeTip, storedTip, logged, phase, block, db, lost>>
      /\ job' = [job EXCEPT !["block"].pc = "read", !["block"].changes = Undone(ReorgTip)]
  BY DEF FindLogs, At, Reads, node, tips, process
<1>2. DOMAIN job = Handler /\ DOMAIN job["block"] = DOMAIN NoJob
  BY HandlerBlock DEF ContractInv, ShapeInv
<1>3. /\ \A v \in Handler : v # "block" => job'[v] = job[v]
      /\ job'["block"].pc = "read" /\ job'["block"].stage = job["block"].stage
  BY <1>1, <1>2, HandlerBlock DEF NoJob
<1>4. \A x : LostSupply(x)' <=> LostSupply(x)
  BY <1>1 DEF LostSupply
<1>5. SupplyDone' = SupplyDone
  BY <1>1, <1>3 DEF SupplyDone
<1> QED
  BY <1>1, <1>3, <1>4, <1>5, HandlerBlock, SuppliesQuiet

LEMMA RestoreTokensSupplies ==
  ASSUME ContractInv, BalancesInv, SuppliesInv, RestoreTokens
  PROVE  SuppliesInv'
<1>1. /\ phase # "down" /\ job["block"].pc = "tokens"
      /\ UNCHANGED <<nodeTip, storedTip, logged, phase, block, lost>>
      /\ db' = [db EXCEPT !.holders = Written(Restored(ReorgTip), @)]
      /\ Goes("block", "forget")
  BY DEF RestoreTokens, At, Writes, node, tips, process
<1>2. /\ DOMAIN job = Handler /\ DOMAIN job["block"] = DOMAIN NoJob
      /\ DOMAIN db = {"contracts", "supplies", "balances", "holders"}
  BY HandlerBlock DEF ContractInv, ShapeInv
<1>3. /\ \A v \in Handler : v # "block" => job'[v] = job[v]
      /\ job'["block"].pc = "forget" /\ job'["block"].stage = job["block"].stage
  BY <1>1, <1>2, HandlerBlock DEF NoJob, Goes
<1>4. db'.contracts = db.contracts /\ db'.supplies = db.supplies
  BY <1>1, <1>2
<1>5. \A x : LostSupply(x)' <=> LostSupply(x)
  BY <1>1 DEF LostSupply
<1>6. SupplyDone' = SupplyDone
  BY <1>1, <1>3 DEF SupplyDone
<1> QED
  BY <1>1, <1>3, <1>4, <1>5, <1>6, HandlerBlock, SuppliesQuiet

\* The supplies that removed blocks have changed are lost.
LEMMA EndReorgSupplies ==
  ASSUME ContractInv, BalancesInv, SuppliesInv, EndReorg
  PROVE  SuppliesInv'
<1>1. /\ phase # "down" /\ job["block"].pc = "forget"
      /\ logged' = storedTip
      /\ lost \subseteq lost'
      /\ {<<"supply", c>> : c \in Minting(storedTip, logged)} \subseteq lost'
      /\ job' = [job EXCEPT !["block"] = NoJob]
      /\ UNCHANGED <<nodeTip, db, storedTip, block>>
  BY DEF EndReorg, At, node, Minting
<1>2. /\ DOMAIN job = Handler /\ storedTip \in Block /\ logged \in Block /\ OnBranch(storedTip, logged)
  BY DEF ContractInv, ShapeInv, BalancesInv
<1>3. block = NoBlock /\ phase \in {"start", "undo"}
  BY <1>1, HandlerBlock, OneHandler DEF ContractInv, BlockJob, Creating, ShapeInv
<1>4. job["sync"].pc = "none"
  BY <1>3 DEF ContractInv, JobInv
<1>5. job'["block"].pc = "none" /\ job'["sync"].pc = "none"
  BY <1>1, <1>2, <1>4 DEF Handler, NoJob
<1>6. SupplyDone = storedTip /\ SupplyDone' = storedTip
  BY <1>1, <1>3 DEF SupplyDone
<1>7. \A c : LostSupply(c) => LostSupply(c)'
  BY <1>1 DEF LostSupply
<1>8. \A c \in Minting(storedTip, logged) : LostSupply(c)'
  BY <1>1 DEF LostSupply
<1>9. SupplyInv'
  <2> SUFFICES ASSUME NEW a \in Block, OnBranch(a, storedTip), OnBranch(a, nodeTip),
                      NEW c \in DOMAIN db.supplies
               PROVE  Supplied(a, c)' \/ c \in Minting(a, storedTip)
    BY <1>1, <1>6 DEF SupplyInv
  <2>1. Supplied(a, c) \/ c \in Minting(a, logged)
    BY <1>6 DEF SuppliesInv, SupplyInv
  <2>2. Minting(a, logged) = Minting(a, storedTip) \cup Minting(storedTip, logged)
    BY <1>2, MintingSplits
  <2> QED
    BY <1>1, <1>7, <1>8, <2>1, <2>2 DEF Supplied
<1>10. RowInv'
  BY <1>1, <1>4, <1>7, RowsKept DEF Handler, SuppliesInv
<1>11. \A w \in Handler : job'[w].pc \notin {"save", "detail", "supply", "supplied"}
  BY <1>5 DEF Handler
<1> QED
  BY <1>9, <1>10, <1>11, NothingTold

-----------------------------------------------------------------------------
(* The node.                                                               *)

LEMMA GrowSupplies ==
  ASSUME ContractInv, BalancesInv, SuppliesInv, NEW b \in Block, Parent[b] = nodeTip, nodeTip' = b,
         UNCHANGED <<db, logged, tips, process, job, lost>>
  PROVE  SuppliesInv'
<1>1. UNCHANGED <<storedTip, logged, phase, block, job, db, lost>>
  BY DEF tips, process
<1>2. /\ nodeTip \in Block /\ SupplyDone \in Block /\ Depth[SupplyDone] <= Depth[nodeTip]
      /\ OnBranch(nodeTip, b) /\ Depth[b] = Depth[nodeTip] + 1
  BY DonePlace, SupplyPlace, OnBranchParent
<1>3. SupplyDone' = SupplyDone
  BY <1>1 DEF SupplyDone
<1>4. \A c : LostSupply(c)' <=> LostSupply(c)
  BY <1>1 DEF LostSupply
<1>5. ASSUME NEW a \in Block, OnBranch(a, nodeTip), NEW c, Supplied(a, c)
      PROVE  Supplied(a, c)'
  <2>1. Minting(a, b) = Minting(a, nodeTip) \cup Minting(nodeTip, b)
    BY <1>2, <1>5, MintingSplits
  <2>2. Total(nodeTip, c) = Total(b, c) \/ c \in Minting(nodeTip, b)
    BY <1>2, TotalStays
  <2> QED
    BY <1>1, <1>4, <1>5, <2>1, <2>2 DEF Supplied
<1>6. SupplyInv'
  <2> SUFFICES ASSUME NEW a \in Block, OnBranch(a, SupplyDone), OnBranch(a, b),
                      NEW c \in DOMAIN db.supplies
               PROVE  Supplied(a, c)' \/ c \in Minting(a, logged)
    BY <1>1, <1>3 DEF SupplyInv
  <2>1. Depth[a] <= Depth[nodeTip]
    BY <1>2, DepthNat DEF OnBranch
  <2>2. OnBranch(a, nodeTip)
    BY <1>2, <2>1, OnBranchBetween
  <2> QED
    BY <1>5, <2>2 DEF SuppliesInv, SupplyInv
<1>7. ToSupplyInv'
  <2> SUFFICES ASSUME job["block"].pc \in {"supply", "supplied"} PROVE ToSupplyInv'
    BY <1>1 DEF ToSupplyInv
  <2>1. phase # "down"
    BY HandlerBlock DEF ContractInv, JobInv, NoJob
  <2>2. block \in Block /\ OnBranch(block, nodeTip)
    BY <2>1, SupplyStage, BlockPlace
  <2>3. \A c : Supplied(block, c) => \A a : a = block => Supplied(a, c)'
    BY <1>5, <2>2
  <2>4. \A c : TokenKind(c)' <=> TokenKind(c)
    BY <1>1 DEF TokenKind
  <2>5. ToDo("block")' = ToDo("block")
    BY <1>1 DEF ToDo
  <2> QED
    BY <1>1, <2>3, <2>4, <2>5 DEF SuppliesInv, ToSupplyInv
<1>8. ASSUME NEW t, NEW w, Recent(t, w)
      PROVE  Recent(t, w)'
  <2>1. OnBranch(t, b)
    BY <1>2, <1>8, OnBranchTrans DEF Recent
  <2> QED
    BY <1>1, <1>8, <2>1 DEF Recent
<1>9. ToldInv'
  BY <1>1, <1>8 DEF SuppliesInv, ToldInv
<1>10. RowInv'
  BY <1>1, <1>4, RowsKept DEF SuppliesInv
<1> QED
  BY <1>6, <1>7, <1>9, <1>10 DEF SuppliesInv

\* A supply of the old branch is that of a common block, or a block minted or burnt.
LEMMA ForkSupplies ==
  ASSUME ContractInv, BalancesInv, SuppliesInv, CaughtUp, NEW b \in Block, nodeTip' = b,
         UNCHANGED <<db, logged, tips, process, job, lost>>
  PROVE  SuppliesInv'
<1>1. UNCHANGED <<storedTip, logged, phase, block, job, db, lost>>
  BY DEF tips, process
<1>2. /\ phase = "run" /\ block = NoBlock /\ storedTip = nodeTip
      /\ \A w \in Handler : job[w].pc = "none"
  BY DEF CaughtUp, Idle
<1>3. logged = nodeTip /\ nodeTip \in Block
  BY <1>2 DEF ContractInv, ShapeInv, TipInv
<1>4. SupplyDone = nodeTip /\ SupplyDone' = nodeTip
  BY <1>1, <1>2 DEF SupplyDone
<1>5. \A c : LostSupply(c)' <=> LostSupply(c)
  BY <1>1 DEF LostSupply
<1>6. ASSUME NEW c \in DOMAIN db.supplies
      PROVE  LostSupply(c) \/ db.supplies[c] = Total(nodeTip, c)
  <2>1. OnBranch(nodeTip, nodeTip) /\ Minting(nodeTip, nodeTip) = {}
    BY <1>3, OnBranchSelf, MintingNothing
  <2> QED
    BY <1>3, <1>4, <2>1 DEF SuppliesInv, SupplyInv, Supplied
<1>7. SupplyInv'
  <2> SUFFICES ASSUME NEW a \in Block, OnBranch(a, nodeTip), OnBranch(a, b),
                      NEW c \in DOMAIN db.supplies, ~LostSupply(c)
               PROVE  \/ db.supplies[c] = Total(b, c) \/ c \in Minting(a, b)
                      \/ c \in Minting(a, nodeTip)
    BY <1>1, <1>3, <1>4, <1>5 DEF SupplyInv, Supplied
  <2>1. db.supplies[c] = Total(nodeTip, c)
    BY <1>6
  <2>2. Total(a, c) = Total(nodeTip, c) \/ c \in Minting(a, nodeTip)
    BY <1>3, TotalStays
  <2>3. Total(a, c) = Total(b, c) \/ c \in Minting(a, b)
    BY TotalStays
  <2> QED
    BY <2>1, <2>2, <2>3
<1>8. RowInv'
  BY <1>1, <1>5, RowsKept DEF SuppliesInv
<1>9. \A w \in Handler : job'[w].pc \notin {"save", "detail", "supply", "supplied"}
  BY <1>1, <1>2
<1> QED
  BY <1>7, <1>8, <1>9, NothingTold

LEMMA MoveSupplies ==
  ASSUME ContractInv, BalancesInv, SuppliesInv, Steady, NEW b \in Block, NodeMoves(b)
  PROVE  SuppliesInv'
<1>1. nodeTip' = b /\ UNCHANGED <<db, logged, tips, process, job, lost>>
  BY DEF NodeMoves
<1>2. Parent[b] = nodeTip \/ CaughtUp
  BY DEF NodeMoves
<1> QED
  BY <1>1, <1>2, GrowSupplies, ForkSupplies

-----------------------------------------------------------------------------
(* The theorem.                                                            *)

LEMMA SuppliesInit == Init => SuppliesInv
<1> SUFFICES ASSUME Init PROVE SuppliesInv
  OBVIOUS
<1>1. /\ \A w \in Handler : job[w] = NoJob
      /\ db.contracts = [c \in Dgp |-> "dgp"] /\ db.supplies = <<>>
  BY DEF Init
<1>2. \A w \in Handler : job[w].pc = "none"
  BY <1>1 DEF NoJob
<1>3. DOMAIN db.supplies = {}
  BY <1>1
<1>4. SupplyInv
  BY <1>3 DEF SupplyInv
<1>5. ToSupplyInv /\ ToldInv
  BY <1>2, HandlerBlock DEF ToSupplyInv, ToldInv
<1>6. Known = Dgp /\ \A c \in Known : ~TokenKind(c)
  BY <1>1 DEF Known, TokenKind
<1>7. RowInv
  BY <1>3, <1>6 DEF RowInv
<1> QED
  BY <1>4, <1>5, <1>7 DEF SuppliesInv

LEMMA SuppliesStutter ==
  ASSUME SuppliesInv, UNCHANGED vars
  PROVE  SuppliesInv'
<1>1. UNCHANGED <<nodeTip, storedTip, logged, phase, block, job, db, lost>>
  BY DEF vars, node, tips, process
<1>2. SupplyDone' = SupplyDone /\ ToDo("block")' = ToDo("block")
  BY <1>1 DEF SupplyDone, ToDo
<1>3. \A c : LostSupply(c)' <=> LostSupply(c)
  BY <1>1 DEF LostSupply
<1>4. \A a, c : Supplied(a, c)' <=> Supplied(a, c)
  BY <1>1, <1>3 DEF Supplied
<1>5. \A c : TokenKind(c)' <=> TokenKind(c)
  BY <1>1 DEF TokenKind
<1>6. SupplyInv'
  BY <1>1, <1>2, <1>3, SuppliesKept DEF SuppliesInv, SupplyKept
<1>7. ToSupplyInv'
  BY <1>1, <1>2, <1>4, <1>5 DEF SuppliesInv, ToSupplyInv
<1>8. \A t, w : Recent(t, w)' <=> Recent(t, w)
  BY <1>1 DEF Recent
<1>9. ToldInv'
  BY <1>1, <1>8 DEF SuppliesInv, ToldInv
<1>10. RowInv'
  BY <1>1, <1>3, RowsKept DEF SuppliesInv
<1> QED
  BY <1>6, <1>7, <1>9, <1>10 DEF SuppliesInv

LEMMA SuppliesNext ==
  ASSUME ContractInv, BalancesInv, SuppliesInv, Calm, [Next]_vars
  PROVE  SuppliesInv'
<1>1. CASE Start \/ OnSynced \/ Crash
  BY <1>1, StartSupplies, SyncedSupplies, StopSupplies DEF Crash
<1>2. ASSUME NEW b \in Block, NodeMoves(b) \/ BeginBlock(b) \/ GoBack(b)
      PROVE  SuppliesInv'
  BY <1>2, MoveSupplies, BeginBlockSupplies, GoBackSupplies DEF Calm
<1>3. ASSUME NEW w \in Handler, Sync(w)
      PROVE  SuppliesInv'
  BY <1>3, ListSupplies, CompareSupplies, EndSyncSupplies, FindSupplies, SaveSupplies,
     DetailsSupplies, AskOwnerSupplies DEF Sync
<1>4. CASE BeginReceipts \/ ReadBalances \/ WriteBalances \/ WriteHolders
  BY <1>4, BeginReceiptsSupplies, ReadBalancesSupplies, WriteBalancesSupplies,
     WriteHoldersSupplies
<1>5. CASE AskSupply \/ WriteSupply \/ EndReceipts \/ StoreTip \/ Commit
  BY <1>5, AskSupplySupplies, WriteSupplySupplies, EndReceiptsSupplies, StoreTipSupplies,
     CommitSupplies
<1>6. CASE FindLogs \/ RestoreTokens \/ EndReorg
  BY <1>6, FindLogsSupplies, RestoreTokensSupplies, EndReorgSupplies
<1>7. CASE UNCHANGED vars
  BY <1>7, SuppliesStutter
<1> QED
  BY <1>1, <1>2, <1>3, <1>4, <1>5, <1>6, <1>7 DEF Next

LEMMA SuppliesImply ==
  ASSUME ContractInv, BalancesInv, SuppliesInv
  PROVE  SuppliesCurrent
<1> SUFFICES ASSUME CaughtUp PROVE SuppliesCurrent
  BY DEF SuppliesCurrent
<1>1. /\ phase = "run" /\ block = NoBlock /\ synced /\ storedTip = nodeTip
      /\ \A w \in Handler : job[w].pc = "none"
  BY DEF CaughtUp, Idle
<1>2. logged = nodeTip /\ nodeTip \in Block
  BY <1>1 DEF ContractInv, ShapeInv, TipInv
<1>3. SupplyDone = nodeTip
  BY <1>1 DEF SupplyDone
<1>4. Known = Existing(nodeTip)
  <2>1. job["sync"].pc = "none"
    BY <1>1 DEF Handler
  <2> QED
    BY <1>1, <2>1 DEF ContractInv, ExactInv
<1>5. OnBranch(nodeTip, nodeTip) /\ Minting(nodeTip, nodeTip) = {}
  BY <1>2, OnBranchSelf, MintingNothing
<1>6. ASSUME NEW c \in DOMAIN db.supplies, <<"supply", c>> \notin lost
      PROVE  db.supplies[c] = Supply(storedTip, c)
  <2>1. db.supplies[c] = Total(nodeTip, c)
    BY <1>2, <1>3, <1>5, <1>6 DEF SuppliesInv, SupplyInv, Supplied, LostSupply
  <2>2. c \in Existing(nodeTip)
    BY <1>4 DEF SuppliesInv, RowInv
  <2> QED
    BY <1>1, <1>2, <2>1, <2>2, SupplyTotal
<1>7. ASSUME NEW c \in Known, TokenKind(c), <<"supply", c>> \notin lost
      PROVE  c \in DOMAIN db.supplies
  BY <1>1, <1>7 DEF SuppliesInv, RowInv, LostSupply
<1> QED
  BY <1>6, <1>7 DEF SuppliesCurrent, Known, TokenKind

\* SuppliesCurrent: whenever the index has caught up with the node, every supply
\* it shows is the node's, and no token contract is without one, but for those
\* that a removed block had changed and for a contract whose details a crash has
\* prevented: for every block tree, whatever the blocks mint and burn, after any
\* crashes, and however far the node was ahead on its branch of the block for
\* which it was asked; under CalmSync, and for the reorganizations that Steady
\* allows, as in ContractsTheorem.
THEOREM SuppliesTheorem ==
  ASSUME CalmSync, Steady
  PROVE  Spec => []SuppliesCurrent
<1> USE DEF Calm
<1>1. Init => ContractInv /\ BalancesInv /\ SuppliesInv
  BY ContractInit, BalancesInit, SuppliesInit
<1>2. ContractInv /\ BalancesInv /\ SuppliesInv /\ [Next]_vars
        => ContractInv' /\ BalancesInv' /\ SuppliesInv'
  BY ContractNext, BalancesNext, SuppliesNext
<1>3. ContractInv /\ BalancesInv /\ SuppliesInv => SuppliesCurrent
  BY SuppliesImply
<1> QED
  BY <1>1, <1>2, <1>3, PTL DEF Spec
==============================================================================
