------------------------------- MODULE PeerPool -------------------------------
(***************************************************************************)
(* The peers of the node: src/p2p/pool.js opens connections to the         *)
(* configured addresses and again after the other side has ended one,      *)
(* src/p2p/peer.js goes through the handshake, and                         *)
(* src/node/services/p2p.js keeps the peers that are ready, asks the best  *)
(* one for blocks and asks each announced block of one peer only.  The     *)
(* block service asks for the block after its tip, five seconds at a time. *)
(*                                                                         *)
(* A peer is a Peer object: a connection to an address, never used twice.  *)
(* Messages of a connection keep their order.  Blocks are their heights:   *)
(* BlockService has the branches.  Headers need no answer here, and        *)
(* transactions pass through.                                              *)
(***************************************************************************)
EXTENDS Integers, Sequences, SequencesExt, FiniteSets

CONSTANTS
  Address,         \* the configured peers
  InventoryLimit,  \* 1000
  MaxHeight, MaxEnds, MaxLate  \* bounds: on the chain, on the connections that
                               \* the other side ends, on answers after 5 s

ASSUME PoolAssumption ==
  /\ IsFiniteSet(Address) /\ Address # {}
  /\ InventoryLimit \in Nat \ {0}
  /\ MaxHeight \in Nat /\ MaxEnds \in Nat /\ MaxLate \in Nat

VARIABLES
  remote,   \* by address: the height of its chain
  pool,     \* keepAlive, connected (#connectedPeers), waiting (the addresses
            \* whose retryTime is not over) and every peer there has been
  service,  \* peers (#peers), best (#peer), retry (whether #retryInterval is
            \* on) and inventories, the most recent first
  node,     \* "starting", "running", "stopping"
  caller    \* the block service: tip, pending (whether it listens for the next
            \* block) and late, the number of answers it did not wait for

vars == <<remote, pool, service, node, caller>>

-----------------------------------------------------------------------------
(* The pool.                                                               *)

NoPeer == 0
PeerId == 1 .. 2 * Cardinality(Address) + MaxEnds  \* a stopping node may connect again
Peer == DOMAIN pool.peer

NewPeer(a) == [address |-> a, status |-> "connecting", met |-> FALSE, bestHeight |-> 0,
               sent |-> <<>>, received |-> <<>>]

Live(p) == pool.peer[p].status # "disconnected"

\* The limit compares a length that a Map does not have, and is never reached.
Wanted(l) == {a \in Address \ l.waiting : l.connected[a] = NoPeer}

\* fillConnections.
Filled(l) ==
  LET old == Cardinality(DOMAIN l.peer)
      new == SetToSeq(Wanted(l))
  IN  [l EXCEPT
         !.peer = [p \in 1 .. old + Cardinality(Wanted(l)) |->
                     IF p \in DOMAIN @ THEN @[p] ELSE NewPeer(new[p - old])],
         !.connected = [a \in Address |->
                          IF a \in Wanted(l) THEN old + CHOOSE i \in DOMAIN new : new[i] = a
                          ELSE @[a]]]

Connected(l) == Filled([l EXCEPT !.keepAlive = TRUE])

\* The pool's own handler of peerdisconnect.
Dropped(l, p) ==
  LET a == l.peer[p].address
      rest == [l EXCEPT !.peer[p].status = "disconnected", !.peer[p].sent = <<>>,
                        !.peer[p].received = <<>>, !.connected[a] = NoPeer,
                        !.waiting = @ \cup {a}]
  IN  IF l.keepAlive THEN Filled(rest) ELSE rest

\* What is written to a destroyed socket is lost.
Sent(l, p, message) ==
  IF l.peer[p].status = "disconnected" THEN l
  ELSE [l EXCEPT !.peer[p].sent = Append(@, message)]

-----------------------------------------------------------------------------
(* The service.                                                            *)

\* Mutation: the oldest peer goes.
Removed_Oldest(s, p) == IF s = <<>> THEN s ELSE Tail(s)

\* _removePeer: indexOf is -1 for a peer that never was ready, and splice(-1, 1)
\* removes the last one.
Position(s, p) == IF Contains(s, p) THEN CHOOSE i \in DOMAIN s : s[i] = p ELSE Len(s)

Removed(s, p) == IF s = <<>> THEN s ELSE RemoveAt(s, Position(s, p))

\* Mutation: the peer that goes still counts.
Left_Before(v, p) ==
  [v EXCEPT !.peers = Removed(@, p), !.retry = @ \/ (v.peers = <<>> /\ node = "running")]

\* _onPeerDisconnect.
Left(v, p) ==
  LET rest == Removed(v.peers, p)
  IN  [v EXCEPT !.peers = rest, !.retry = @ \/ (rest = <<>> /\ node = "running")]

\* Mutation: the height of the best peer is above 0.
Best_Above(s, l, old) ==
  LET heights == {l.peer[s[i]].bestHeight : i \in DOMAIN s}
      top == SelectInSeq(s, LAMBDA p : \A h \in heights : h <= l.peer[p].bestHeight)
  IN  IF l.peer[s[top]].bestHeight = 0 THEN old ELSE s[top]

\* _getBestHeight: the first of the highest.
Best(s, l, old) ==
  LET heights == {l.peer[s[i]].bestHeight : i \in DOMAIN s}
  IN  s[SelectInSeq(s, LAMBDA p : \A h \in heights : h <= l.peer[p].bestHeight)]

\* The inventories that were not seen are asked for; all become the most recent.
Seen(x, block) ==
  [inventories |-> SubSeq(<<block>> \o Remove(x.inventories, block), 1, InventoryLimit),
   needed |-> IF Contains(x.inventories, block) THEN x.needed ELSE Append(x.needed, block)]

\* A peer's end reaches the pool first and then the service.
Disconnected(x, p) == [pool |-> Dropped(x.pool, p), service |-> Left(x.service, p)]

-----------------------------------------------------------------------------
(* The node starts and stops.                                              *)

Init ==
  /\ remote = [a \in Address |-> 0]
  /\ pool = [keepAlive |-> FALSE, connected |-> [a \in Address |-> NoPeer], waiting |-> {},
             peer |-> <<>>]
  /\ service = [peers |-> <<>>, best |-> NoPeer, retry |-> FALSE, inventories |-> <<>>]
  /\ node = "starting"
  /\ caller = [tip |-> 0, pending |-> FALSE, late |-> 0]

\* _connect.
NodeReady ==
  /\ node = "starting"
  /\ node' = "running"
  /\ pool' = Connected(pool)
  /\ service' = [service EXCEPT !.retry = TRUE]
  /\ UNCHANGED <<remote, caller>>

\* A signal, or a connection that is refused or reset: the error event of a peer
\* has no listener.  The pool disconnects its peers one after the other, each of
\* them goes as in Disconnected, and since those in #peers are among them none is
\* left there at the end.
NodeStops ==
  /\ node = "running"
  /\ node' = "stopping"
  /\ pool' = [pool EXCEPT
       !.keepAlive = FALSE,
       !.connected = [a \in Address |-> NoPeer],
       !.waiting = @ \cup {a \in Address : pool.connected[a] # NoPeer},
       !.peer = [p \in Peer |-> [@[p] EXCEPT !.status = "disconnected", !.sent = <<>>,
                                             !.received = <<>>]]]
  /\ service' = [service EXCEPT !.peers = <<>>]
  /\ UNCHANGED <<remote, caller>>

\* The timer of the service, which nothing clears when the node stops.
RetryTick ==
  /\ service.retry
  /\ pool' = Connected(pool)
  /\ UNCHANGED <<remote, service, node, caller>>

\* 30 s after a disconnection.
RetryTimePasses(a) ==
  /\ a \in pool.waiting
  /\ pool' = [pool EXCEPT !.waiting = @ \ {a}]
  /\ UNCHANGED <<remote, service, node, caller>>

-----------------------------------------------------------------------------
(* A connection.                                                           *)

Accepted(p) ==
  /\ p \in Peer /\ pool.peer[p].status = "connecting"
  /\ pool' = [pool EXCEPT !.peer[p].status = "connected"]
  /\ UNCHANGED <<remote, service, node, caller>>

\* version, verack, and _onPeerReady.
Handshake(p) ==
  LET ready == [pool EXCEPT !.peer[p].status = "ready", !.peer[p].met = TRUE,
                            !.peer[p].bestHeight = remote[pool.peer[p].address]]
      peers == Append(service.peers, p)
  IN
  /\ p \in Peer /\ pool.peer[p].status = "connected"
  /\ pool' = ready
  /\ service' = [service EXCEPT !.retry = FALSE, !.peers = peers,
                                !.best = Best(peers, ready, @)]
  /\ UNCHANGED <<remote, node, caller>>

\* The other side ends the connection, or sends more than the buffer holds.
Ends(p) ==
  LET x == Disconnected([pool |-> pool, service |-> service], p) IN
  /\ p \in Peer /\ pool.peer[p].status \in {"connected", "ready"}
  /\ Cardinality({q \in Peer : ~Live(q)}) < MaxEnds
  /\ pool' = x.pool /\ service' = x.service
  /\ UNCHANGED <<remote, node, caller>>

\* A peer gets its next block and announces it.
Grows(a) ==
  /\ remote[a] < MaxHeight /\ node # "stopping"
  /\ remote' = [remote EXCEPT ![a] = @ + 1]
  /\ pool' = [pool EXCEPT !.peer = [p \in Peer |->
       IF pool.peer[p].address = a /\ pool.peer[p].status = "ready"
       THEN [pool.peer[p] EXCEPT
               !.received = Append(@, [type |-> "inv", blocks |-> <<remote[a] + 1>>])]
       ELSE pool.peer[p]]]
  /\ UNCHANGED <<service, node, caller>>

\* A peer answers with the inventories after the block asked for, if it has any,
\* and with the blocks whose data are asked for.
Answers(p) ==
  LET m == Head(pool.peer[p].sent)
      height == remote[pool.peer[p].address]
      answer == IF m.type = "getdata"
                THEN [i \in DOMAIN m.blocks |-> [type |-> "block", block |-> m.blocks[i]]]
                ELSE IF m.start >= height THEN <<>>
                ELSE <<[type |-> "inv", blocks |-> [i \in 1 .. height - m.start |-> m.start + i]]>>
  IN
  /\ p \in Peer /\ pool.peer[p].sent # <<>>
  /\ pool' = [pool EXCEPT !.peer[p].sent = Tail(@), !.peer[p].received = @ \o answer]
  /\ UNCHANGED <<remote, service, node, caller>>

\* _onPeerInventories.
ReceiveInventories(p) ==
  LET x == FoldLeft(Seen, [inventories |-> service.inventories, needed |-> <<>>],
                    Head(pool.peer[p].received).blocks)
      read == [pool EXCEPT !.peer[p].received = Tail(@)]
  IN
  /\ p \in Peer /\ pool.peer[p].received # <<>>
  /\ Head(pool.peer[p].received).type = "inv"
  /\ service' = [service EXCEPT !.inventories = x.inventories]
  /\ pool' = IF x.needed = <<>> THEN read
             ELSE Sent(read, p, [type |-> "getdata", blocks |-> x.needed])
  /\ UNCHANGED <<remote, node, caller>>

\* _onPeerBlock: whoever waits for this block has it.
ReceiveBlock(p) ==
  LET expected == caller.pending /\ Head(pool.peer[p].received).block = caller.tip + 1 IN
  /\ p \in Peer /\ pool.peer[p].received # <<>>
  /\ Head(pool.peer[p].received).type = "block"
  /\ caller' = IF expected THEN [caller EXCEPT !.tip = @ + 1, !.pending = FALSE] ELSE caller
  /\ pool' = [pool EXCEPT !.peer[p].received = Tail(@)]
  /\ UNCHANGED <<remote, service, node>>

-----------------------------------------------------------------------------
(* The block service.                                                      *)

\* Mutation: the inventories are kept.
Forgotten_Never(v) == v

Forgotten(v) == [v EXCEPT !.inventories = <<>>]  \* clearInventoryCache

\* A block is asked of the best peer, whether or not that one is still there;
\* the cache of blocks is keyed by the Buffer object and never has it.
Ask ==
  /\ node = "running"
  /\ service.best # NoPeer
  /\ ~caller.pending
  /\ \E a \in Address : remote[a] > caller.tip
  /\ caller' = [caller EXCEPT !.pending = TRUE]
  /\ service' = Forgotten(service)
  /\ pool' = Sent(pool, service.best, [type |-> "getblocks", start |-> caller.tip])
  /\ UNCHANGED <<remote, node>>

\* 5 s have gone by: either there is no answer under way, or it is late.
TimesOut ==
  LET underWay == pool.peer[service.best].sent \o pool.peer[service.best].received # <<>> IN
  /\ caller.pending
  /\ underWay => caller.late < MaxLate
  /\ caller' = [caller EXCEPT !.pending = FALSE, !.late = IF underWay THEN @ + 1 ELSE @]
  /\ UNCHANGED <<remote, pool, service, node>>

-----------------------------------------------------------------------------
Next ==
  \/ NodeReady \/ NodeStops \/ RetryTick
  \/ \E a \in Address : RetryTimePasses(a) \/ Grows(a)
  \/ \E p \in PeerId : \/ Accepted(p) \/ Handshake(p) \/ Ends(p)
                       \/ Answers(p) \/ ReceiveInventories(p) \/ ReceiveBlock(p)
  \/ Ask \/ TimesOut

\* The timers go off, the other side answers as long as it does not end the
\* connection, and every peer gets every block.  Nothing has to stop or to end.
Fairness ==
  /\ WF_vars(NodeReady) /\ WF_vars(RetryTick) /\ WF_vars(Ask) /\ WF_vars(TimesOut)
  /\ \A a \in Address : WF_vars(RetryTimePasses(a)) /\ WF_vars(Grows(a))
  /\ \A p \in PeerId : WF_vars(Accepted(p) \/ Handshake(p) \/ Answers(p)
                                \/ ReceiveInventories(p) \/ ReceiveBlock(p))

Spec == Init /\ [][Next]_vars /\ Fairness

-----------------------------------------------------------------------------
(* Properties.                                                             *)

PeerRecord ==
  [address : Address, status : {"connecting", "connected", "ready", "disconnected"},
   met : BOOLEAN, bestHeight : 0 .. MaxHeight]

\* An address has one open connection at most, the one that the pool knows.
OneConnection ==
  \A a \in Address, p \in Peer :
    pool.connected[a] = p <=> pool.peer[p].address = a /\ Live(p)

\* The types, and requests go to a peer as soon as there has been one.
TypeOK ==
  /\ remote \in [Address -> 0 .. MaxHeight]
  /\ pool.keepAlive \in BOOLEAN /\ pool.waiting \subseteq Address
  /\ \A p \in Peer : [f \in DOMAIN pool.peer[p] \ {"sent", "received"} |-> pool.peer[p][f]]
                     \in PeerRecord
  /\ OneConnection
  /\ ToSet(service.peers) \subseteq Peer /\ service.best \in Peer \cup {NoPeer}
  /\ service.best # NoPeer <=> \E p \in Peer : pool.peer[p].met
  /\ service.retry \in BOOLEAN
  /\ ToSet(service.inventories) \subseteq 1 .. MaxHeight
  /\ Len(service.inventories) <= InventoryLimit
  /\ node \in {"starting", "running", "stopping"}
  /\ caller.tip \in 0 .. MaxHeight /\ caller.pending \in BOOLEAN /\ caller.late \in 0 .. MaxLate

\* No peer that has gone stays in #peers, in whatever order peers become ready and
\* go; one that is ready is missing only if splice(-1, 1) has removed it in the
\* place of a peer that went before it was ready; and none is better than #peer.
PeersAlive ==
  /\ IsInjective(service.peers)
  /\ \A p \in ToSet(service.peers) :
       /\ pool.peer[p].status = "ready"
       /\ pool.peer[p].bestHeight <= pool.peer[service.best].bestHeight
  /\ \A p \in Peer : pool.peer[p].status = "ready" /\ ~Contains(service.peers, p) =>
       \E q \in Peer : ~Live(q) /\ ~pool.peer[q].met

\* While the node runs, connections are retried as soon as no peer is ready; and
\* beside a ready peer only if splice(-1, 1) has emptied #peers of it in the place
\* of a peer that went before it was ready.
RetryWhenAlone ==
  LET ready == {p \in Peer : pool.peer[p].status = "ready"}
  IN  node = "running" =>
        /\ ready = {} => service.retry
        /\ service.retry /\ ready # {} => \E q \in Peer : ~Live(q) /\ ~pool.peer[q].met

\* #peer has gone, and since other peers are ready nothing looks for a new one.
Deserted == service.best # NoPeer /\ ~Live(service.best) /\ service.peers # <<>>

\* The block service gets every block, over connections that end, answers that
\* are late and blocks that are announced by one peer and asked of another,
\* unless the requests go to a peer that has gone for ever.
BlockArrives == <>(caller.tip = MaxHeight \/ node = "stopping") \/ <>[]Deserted
=============================================================================
