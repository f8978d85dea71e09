--------------------------- MODULE PeerPool_proofs ---------------------------
(***************************************************************************)
(* PeersAlive and RetryWhenAlone hold in every execution of PeerPool, for  *)
(* any set of addresses, and an address has one open connection at most.   *)
(* PoolInv is about the pool alone; ServiceInv relates #peers and #peer to *)
(* it; both say of an arbitrary pool and service what holds of the two, so *)
(* that each operator has a lemma of its own.                              *)
(***************************************************************************)
EXTENDS PeerPool, FiniteSetTheorems, SequenceTheorems, WellFoundedInduction, TLAPS

-----------------------------------------------------------------------------
(* The inductive invariant.                                                *)

\* A Peer object: one whose handshake is not over has not been met.
PeerInv(r) ==
  /\ DOMAIN r = {"address", "status", "met", "bestHeight", "sent", "received"}
  /\ r.address \in Address
  /\ r.status \in {"connecting", "connected", "ready", "disconnected"}
  /\ r.met \in BOOLEAN
  /\ r.bestHeight \in 0 .. MaxHeight
  /\ r.status \in {"connecting", "connected"} => ~r.met

\* The peers are numbered from 1, and #connectedPeers names the open ones.
PoolInv(l) ==
  /\ DOMAIN l = {"keepAlive", "connected", "waiting", "peer"}
  /\ \E n \in Nat : DOMAIN l.peer = 1 .. n
  /\ \A p \in DOMAIN l.peer : PeerInv(l.peer[p])
  /\ l.connected \in [Address -> {NoPeer} \cup DOMAIN l.peer]
  /\ \A a \in Address, p \in DOMAIN l.peer :
       l.connected[a] = p <=> l.peer[p].address = a /\ l.peer[p].status # "disconnected"

\* #peers: ready ones, once each, none better than #peer.  A ready one is missing
\* only after one has gone that never was ready.
ServiceInv(l, v) ==
  /\ DOMAIN v = {"peers", "best", "retry", "inventories"}
  /\ v.retry \in BOOLEAN
  /\ v.peers \in Seq(Nat) /\ IsInjective(v.peers)
  /\ \A i \in DOMAIN v.peers :
       /\ v.peers[i] \in DOMAIN l.peer /\ v.best \in DOMAIN l.peer
       /\ l.peer[v.peers[i]].status = "ready"
       /\ l.peer[v.peers[i]].bestHeight <= l.peer[v.best].bestHeight
  /\ \A p \in DOMAIN l.peer :
       l.peer[p].status = "ready" /\ (\A i \in DOMAIN v.peers : v.peers[i] # p) =>
       \E q \in DOMAIN l.peer : l.peer[q].status = "disconnected" /\ ~l.peer[q].met

PeersInv ==
  /\ remote \in [Address -> 0 .. MaxHeight]
  /\ PoolInv(pool)
  /\ ServiceInv(pool, service)

\* While the node runs the timer is on exactly when #peers is empty.
RetryInv == node = "running" => (service.retry <=> service.peers = <<>>)

\* Before the node is ready there are no peers, and the timer is off.
StartInv ==
  node = "starting" => Peer = {} /\ service.peers = <<>> /\ ~service.retry

-----------------------------------------------------------------------------
(* Sequences and sets.                                                     *)

LEMMA Heights == MaxHeight \in Nat
  BY PoolAssumption

\* A finite set has a sequence of its members.
LEMMA SetToSeqMembers ==
  ASSUME NEW S, IsFiniteSet(S)
  PROVE  /\ Cardinality(S) \in Nat
         /\ SetToSeq(S) \in [1 .. Cardinality(S) -> S]
         /\ \A i, j \in 1 .. Cardinality(S) : SetToSeq(S)[i] = SetToSeq(S)[j] => i = j
         /\ \A x \in S : \E i \in 1 .. Cardinality(S) : SetToSeq(S)[i] = x
<1> DEFINE n == Cardinality(S)
<1>1. n \in Nat /\ ExistsBijection(1 .. n, S)
  BY FS_CardinalityType
<1>2. PICK f \in Bijection(1 .. n, S) : TRUE
  BY <1>1 DEF ExistsBijection
<1>3. f \in [1 .. n -> S] /\ IsInjective(f)
  BY <1>2 DEF Bijection, Injection, IsInjective
<1>4. SetToSeq(S) \in [1 .. n -> S] /\ IsInjective(SetToSeq(S))
  BY <1>3 DEF SetToSeq
<1>5. ASSUME NEW x \in S
      PROVE  \E i \in 1 .. n : SetToSeq(S)[i] = x
  <2> DEFINE s == SetToSeq(S)
             T == {s[i] : i \in 1 .. n}
  <2>1. s \in Bijection(1 .. n, T)
    BY <1>4 DEF Bijection, Injection, Surjection, IsInjective
  <2>2. IsFiniteSet(1 .. n) /\ Cardinality(1 .. n) = n
    BY <1>1, FS_Interval
  <2>3. IsFiniteSet(T) /\ Cardinality(T) = n
    BY <2>1, <2>2, FS_Bijection DEF ExistsBijection
  <2>4. T \in SUBSET S
    BY <1>4
  <2>5. T = S
    BY <2>3, <2>4, FS_Subset
  <2> QED
    BY <2>5
<1> QED
  BY <1>1, <1>4, <1>5 DEF IsInjective

\* What splice takes out of a sequence without repetitions.
LEMMA RemovedMembers ==
  ASSUME NEW s \in Seq(Nat), IsInjective(s), NEW p
  PROVE  /\ Removed(s, p) \in Seq(Nat)
         /\ IsInjective(Removed(s, p))
         /\ \A k \in DOMAIN Removed(s, p) :
              \E i \in DOMAIN s : Removed(s, p)[k] = s[i]
         /\ Contains(s, p) => \A k \in DOMAIN Removed(s, p) : Removed(s, p)[k] # p
         /\ Contains(s, p) =>
              \A i \in DOMAIN s : s[i] # p =>
                \E k \in DOMAIN Removed(s, p) : Removed(s, p)[k] = s[i]
<1>1. CASE s = <<>>
  BY <1>1 DEF Removed, Contains, IsInjective
<1>2. CASE s # <<>>
  <2> DEFINE n == Len(s)
             x == Position(s, p)
             a == SubSeq(s, 1, x - 1)
             b == SubSeq(s, x + 1, n)
             r == a \o b
  <2>1. n \in Nat /\ n >= 1 /\ DOMAIN s = 1 .. n /\ \A i \in 1 .. n : s[i] \in Nat
    BY <1>2, LenProperties
  <2>2. x \in 1 .. n /\ (Contains(s, p) => s[x] = p)
    BY <2>1 DEF Position, Contains
  <2>3. /\ a \in Seq(Nat) /\ Len(a) = x - 1
        /\ \A i \in 1 .. x - 1 : a[i] = s[i]
    <3>1. \A i \in 1 .. x - 1 : s[i] \in Nat
      BY <2>1, <2>2
    <3> HIDE DEF x
    <3> QED
      BY <3>1, <2>1, <2>2, SubSeqProperties
  <2>4. /\ b \in Seq(Nat) /\ Len(b) = n - x
        /\ \A i \in 1 .. n - x : b[i] = s[x + i]
    <3>1. \A i \in x + 1 .. n : s[i] \in Nat
      BY <2>1, <2>2
    <3> HIDE DEF x, n
    <3>2. /\ SubSeq(s, x + 1, n) \in Seq(Nat)
          /\ Len(SubSeq(s, x + 1, n)) = IF x + 1 <= n THEN n - (x + 1) + 1 ELSE 0
          /\ \A i \in 1 .. n - (x + 1) + 1 : SubSeq(s, x + 1, n)[i] = s[x + 1 + i - 1]
      BY <3>1, <2>1, <2>2, SubSeqProperties
    <3> QED
      BY <3>2, <2>1, <2>2
  <2>5. /\ r \in Seq(Nat) /\ Len(r) = n - 1
        /\ \A i \in 1 .. n - 1 : r[i] = IF i < x THEN s[i] ELSE s[i + 1]
    <3> HIDE DEF a, b, x, n
    <3>1. /\ a \o b \in Seq(Nat) /\ Len(a \o b) = Len(a) + Len(b)
          /\ \A i \in 1 .. Len(a) + Len(b) :
               (a \o b)[i] = IF i <= Len(a) THEN a[i] ELSE b[i - Len(a)]
      BY <2>3, <2>4, ConcatProperties
    <3>2. Len(a) + Len(b) = n - 1
      BY <2>1, <2>2, <2>3, <2>4
    <3>3. ASSUME NEW i \in 1 .. n - 1
          PROVE  r[i] = IF i < x THEN s[i] ELSE s[i + 1]
      <4>1. CASE i < x
        BY <4>1, <3>1, <3>2, <2>1, <2>2, <2>3
      <4>2. CASE ~(i < x)
        <5>1. i - (x - 1) \in 1 .. n - x /\ x + (i - (x - 1)) = i + 1
          BY <4>2, <2>1, <2>2
        <5>2. b[i - (x - 1)] = s[i + 1]
          BY <5>1, <2>4
        <5>3. ~(i <= Len(a)) /\ i - Len(a) = i - (x - 1)
          BY <4>2, <2>1, <2>2, <2>3
        <5>4. r[i] = b[i - Len(a)]
          BY <5>3, <3>1, <3>2
        <5> QED
          BY <4>2, <5>2, <5>3, <5>4
      <4> QED
        BY <4>1, <4>2
    <3> QED
      BY <3>1, <3>2, <3>3
  <2>6. Removed(s, p) = r
    BY <1>2 DEF Removed, RemoveAt
  <2>7. DOMAIN r = 1 .. n - 1
    BY <2>5, LenProperties
  <2>8. \A i, j \in 1 .. n : s[i] = s[j] => i = j
    BY <2>1 DEF IsInjective
  <2> HIDE DEF r, x, n
  <2> DEFINE at(k) == IF k < x THEN k ELSE k + 1
  <2>9. \A k \in 1 .. n - 1 : at(k) \in 1 .. n /\ at(k) # x
    BY <2>1, <2>2
  <2>10. \A k, m \in 1 .. n - 1 : at(k) = at(m) => k = m
    BY <2>1, <2>2
  <2>11. \A k \in 1 .. n - 1 : r[k] = s[at(k)]
    BY <2>5
  <2> HIDE DEF at
  <2>12. IsInjective(r)
    <3>1. \A k, m \in 1 .. n - 1 : r[k] = r[m] => k = m
      BY <2>8, <2>9, <2>10, <2>11
    <3> QED
      BY <3>1, <2>7 DEF IsInjective
  <2>13. \A k \in DOMAIN r : \E i \in DOMAIN s : r[k] = s[i] /\ i # x
    BY <2>1, <2>7, <2>9, <2>11
  <2>14. ASSUME NEW i \in 1 .. n, i # x
         PROVE  \E k \in 1 .. n - 1 : r[k] = s[i]
    <3>1. CASE i < x
      BY <3>1, <2>1, <2>2, <2>5
    <3>2. CASE i > x
      <4>1. i - 1 \in 1 .. n - 1 /\ ~(i - 1 < x) /\ i - 1 + 1 = i
        BY <3>2, <2>1, <2>2
      <4> QED
        BY <4>1, <2>5
    <3> QED
      BY <2>1, <2>2, <2>14, <3>1, <3>2
  <2>15. Contains(s, p) => \A k \in DOMAIN r : r[k] # p
    BY <2>1, <2>2, <2>8, <2>13
  <2>16. Contains(s, p) => \A i \in DOMAIN s : s[i] # p => \E k \in DOMAIN r : r[k] = s[i]
    BY <2>1, <2>2, <2>7, <2>14
  <2> QED
    BY <2>5, <2>6, <2>12, <2>13, <2>15, <2>16
<1> QED
  BY <1>1, <1>2

\* _getBestHeight finds a peer that none of the others is better than.
LEMMA BestMember ==
  ASSUME NEW s \in Seq(Nat), s # <<>>, NEW l, NEW old,
         \A i \in DOMAIN s : l.peer[s[i]].bestHeight \in 0 .. MaxHeight
  PROVE  \E i \in DOMAIN s :
           /\ Best(s, l, old) = s[i]
           /\ \A j \in DOMAIN s : l.peer[s[j]].bestHeight <= l.peer[s[i]].bestHeight
<1> DEFINE heights == {l.peer[s[i]].bestHeight : i \in DOMAIN s}
           below == {MaxHeight - h : h \in heights}
           top == {i \in 1 .. Len(s) : \A h \in heights : h <= l.peer[s[i]].bestHeight}
<1>1. Len(s) \in Nat /\ Len(s) >= 1 /\ DOMAIN s = 1 .. Len(s)
  BY LenProperties
<1>2. below \subseteq Nat /\ below # {} /\ heights \subseteq Int
  BY <1>1, Heights
<1>3. \E x \in below : \A y \in below : ~(<<y, x>> \in OpToRel(<, Nat))
  BY <1>2, NatLessThanWellFounded, WFMin
<1>4. PICK x \in below : \A y \in below : ~(<<y, x>> \in OpToRel(<, Nat))
  BY <1>3
<1>5. PICK i \in DOMAIN s : x = MaxHeight - l.peer[s[i]].bestHeight
  OBVIOUS
<1>6. ASSUME NEW h \in heights
      PROVE  h <= l.peer[s[i]].bestHeight
  <2>1. MaxHeight - h \in below
    OBVIOUS
  <2>2. ~(<<MaxHeight - h, x>> \in OpToRel(<, Nat))
    BY <1>4, <2>1
  <2>3. MaxHeight - h \in Nat /\ x \in Nat
    BY <1>2, <2>1
  <2>4. ~(MaxHeight - h < x)
    BY <2>2, <2>3 DEF OpToRel
  <2> DEFINE best == l.peer[s[i]].bestHeight
  <2>5. best \in Int /\ h \in Int
    BY <1>2
  <2>6. ~(MaxHeight - h < MaxHeight - best)
    BY <1>5, <2>4
  <2> HIDE DEF best, heights, below, top
  <2>7. h <= best
    BY <2>5, <2>6, Heights
  <2> QED
    BY <2>7 DEF best
<1>7. top \subseteq Nat /\ top # {}
  <2>1. i \in top
    BY <1>1, <1>6
  <2>2. top \subseteq Nat
    BY <1>1
  <2> HIDE DEF top
  <2> QED
    BY <2>1, <2>2
<1>8. Min(top) \in top
  <2>1. \E m \in top : \A y \in top : ~(<<y, m>> \in OpToRel(<, Nat))
    BY <1>7, NatLessThanWellFounded, WFMin
  <2>2. PICK m \in top : \A y \in top : ~(<<y, m>> \in OpToRel(<, Nat))
    BY <2>1
  <2>3. ASSUME NEW y \in top
        PROVE  m <= y
    <3>1. m \in Nat /\ y \in Nat
      BY <1>7
    <3>2. ~(y < m)
      BY <2>2, <3>1 DEF OpToRel
    <3> QED
      BY <3>1, <3>2
  <2> HIDE DEF top
  <2> QED
    BY <2>3 DEF Min
<1>9. Best(s, l, old) = s[Min(top)]
  BY <1>7 DEF Best, SelectInSeq
<1>10. \A j \in DOMAIN s : l.peer[s[j]].bestHeight \in heights
  OBVIOUS
<1> QED
  BY <1>1, <1>8, <1>9, <1>10

-----------------------------------------------------------------------------
(* The pool.                                                               *)

\* The pool goes from l to m: of the peers that were there, those that were not
\* met are not, the ready ones stay ready at their height, and none becomes ready
\* but by a handshake.
Follows(l, m) ==
  /\ DOMAIN l.peer \subseteq DOMAIN m.peer
  /\ \A p \in DOMAIN l.peer :
       /\ m.peer[p].status = l.peer[p].status
       /\ m.peer[p].met = l.peer[p].met
       /\ m.peer[p].bestHeight = l.peer[p].bestHeight
  /\ \A p \in DOMAIN m.peer \ DOMAIN l.peer : m.peer[p].status # "ready"

\* fillConnections opens at most one connection to an address.
LEMMA FilledPool ==
  ASSUME NEW l, PoolInv(l)
  PROVE  PoolInv(Filled(l)) /\ Follows(l, Filled(l))
<1> DEFINE W == Wanted(l)
           new == SetToSeq(W)
           m == Filled(l)
           c == Cardinality(W)
           at(a) == CHOOSE i \in DOMAIN new : new[i] = a
<1>1. PICK n \in Nat : DOMAIN l.peer = 1 .. n
  BY DEF PoolInv
<1>2. Cardinality(DOMAIN l.peer) = n
  BY <1>1, FS_Interval
<1>3. W \subseteq Address /\ IsFiniteSet(W) /\ \A a \in W : l.connected[a] = NoPeer
  BY PoolAssumption, FS_Subset DEF Wanted
<1>4. /\ c \in Nat /\ new \in [1 .. c -> W]
      /\ \A i, j \in 1 .. c : new[i] = new[j] => i = j
      /\ \A a \in W : \E i \in 1 .. c : new[i] = a
  BY <1>3, SetToSeqMembers
<1>5. \A a \in W : at(a) \in 1 .. c /\ new[at(a)] = a
  BY <1>4
<1>6. /\ DOMAIN l = {"keepAlive", "connected", "waiting", "peer"}
      /\ l.connected \in [Address -> {NoPeer} \cup 1 .. n]
      /\ \A p \in 1 .. n : PeerInv(l.peer[p])
      /\ \A a \in Address, p \in 1 .. n :
           l.connected[a] = p <=> l.peer[p].address = a /\ l.peer[p].status # "disconnected"
  BY <1>1 DEF PoolInv
<1>7. /\ DOMAIN m = DOMAIN l
      /\ m.peer = [p \in 1 .. n + c |-> IF p \in 1 .. n THEN l.peer[p] ELSE NewPeer(new[p - n])]
      /\ m.connected = [a \in Address |-> IF a \in W THEN n + at(a) ELSE l.connected[a]]
  BY <1>1, <1>2, <1>6 DEF Filled
<1> HIDE DEF W, new, m, c, at
<1>8. DOMAIN m.peer = 1 .. n + c /\ n + c \in Nat
  BY <1>4, <1>7
<1>9. \A p \in 1 .. n : p \in 1 .. n + c /\ m.peer[p] = l.peer[p]
  BY <1>4, <1>7
<1>10. ASSUME NEW p \in 1 .. n + c, p \notin 1 .. n
       PROVE  /\ p - n \in 1 .. c
              /\ m.peer[p] = NewPeer(new[p - n])
              /\ new[p - n] \in W
              /\ m.peer[p].address = new[p - n] /\ m.peer[p].status = "connecting"
  <2>1. p - n \in 1 .. c /\ new[p - n] \in W /\ m.peer[p] = NewPeer(new[p - n])
    BY <1>4, <1>7, <1>10
  <2>2. \A a : NewPeer(a).address = a /\ NewPeer(a).status = "connecting"
    BY DEF NewPeer
  <2> QED
    BY <2>1, <2>2
<1>11. \A p \in 1 .. n + c : PeerInv(m.peer[p])
  <2>1. \A a \in Address : PeerInv(NewPeer(a))
    BY Heights DEF PeerInv, NewPeer
  <2> QED
    BY <1>3, <1>6, <1>9, <1>10, <2>1
<1>12. m.connected \in [Address -> {NoPeer} \cup 1 .. n + c]
  BY <1>4, <1>5, <1>6, <1>7
<1>13. ASSUME NEW a \in Address, NEW p \in 1 .. n + c
       PROVE  m.connected[a] = p <=> m.peer[p].address = a /\ m.peer[p].status # "disconnected"
  <2>1. CASE p \in 1 .. n
    <3>1. CASE a \in W
      <4>1. m.connected[a] # p
        BY <1>4, <1>5, <1>7, <2>1, <3>1
      <4>2. l.connected[a] # p
        BY <1>3, <2>1, <3>1 DEF NoPeer
      <4> QED
        BY <1>6, <1>9, <2>1, <4>1, <4>2
    <3>2. CASE a \notin W
      BY <1>6, <1>7, <1>9, <2>1, <3>2
    <3> QED
      BY <3>1, <3>2
  <2>2. CASE p \notin 1 .. n
    <3>1. /\ p - n \in 1 .. c /\ new[p - n] \in W
          /\ m.peer[p].address = new[p - n] /\ m.peer[p].status = "connecting"
      BY <1>10, <2>2
    <3>2. CASE a \in W
      <4>1. m.connected[a] = p <=> at(a) = p - n
        BY <1>4, <1>5, <1>7, <3>2
      <4>2. at(a) = p - n <=> new[p - n] = a
        BY <1>4, <1>5, <3>1, <3>2
      <4> QED
        BY <3>1, <4>1, <4>2
    <3>3. CASE a \notin W
      <4>1. m.connected[a] \in {NoPeer} \cup 1 .. n
        BY <1>6, <1>7, <3>3
      <4>2. m.connected[a] # p
        BY <1>4, <2>2, <4>1 DEF NoPeer
      <4> QED
        BY <3>1, <3>3, <4>2
    <3> QED
      BY <3>2, <3>3
  <2> QED
    BY <2>1, <2>2
<1>14. PoolInv(m)
  BY <1>6, <1>7, <1>8, <1>11, <1>12, <1>13 DEF PoolInv
<1>15. Follows(l, m)
  BY <1>1, <1>4, <1>8, <1>9, <1>10 DEF Follows
<1> QED
  BY <1>14, <1>15 DEF m
\* The pool loses a peer whose connection was open.
Lost(l, m, p) ==
  /\ DOMAIN l.peer \subseteq DOMAIN m.peer
  /\ m.peer[p].status = "disconnected" /\ m.peer[p].met = l.peer[p].met
  /\ m.peer[p].bestHeight = l.peer[p].bestHeight
  /\ \A q \in DOMAIN l.peer \ {p} :
       /\ m.peer[q].status = l.peer[q].status
       /\ m.peer[q].met = l.peer[q].met
       /\ m.peer[q].bestHeight = l.peer[q].bestHeight
  /\ \A q \in DOMAIN m.peer \ DOMAIN l.peer : m.peer[q].status # "ready"

LEMMA DroppedPool ==
  ASSUME NEW l, PoolInv(l), NEW p \in DOMAIN l.peer, l.peer[p].status # "disconnected"
  PROVE  PoolInv(Dropped(l, p)) /\ Lost(l, Dropped(l, p), p)
<1> DEFINE a == l.peer[p].address
           r == [l.peer[p] EXCEPT !.status = "disconnected", !.sent = <<>>, !.received = <<>>]
           rest == [l EXCEPT !.peer[p].status = "disconnected", !.peer[p].sent = <<>>,
                             !.peer[p].received = <<>>, !.connected[a] = NoPeer,
                             !.waiting = @ \cup {a}]
<1>1. PICK n \in Nat : DOMAIN l.peer = 1 .. n
  BY DEF PoolInv
<1>2. /\ DOMAIN l = {"keepAlive", "connected", "waiting", "peer"}
      /\ l.connected \in [Address -> {NoPeer} \cup 1 .. n]
      /\ \A q \in 1 .. n : PeerInv(l.peer[q])
      /\ \A b \in Address, q \in 1 .. n :
           l.connected[b] = q <=> l.peer[q].address = b /\ l.peer[q].status # "disconnected"
  BY <1>1 DEF PoolInv
<1>3. /\ DOMAIN rest = DOMAIN l
      /\ DOMAIN rest.peer = 1 .. n
      /\ rest.peer[p] = r
      /\ \A q \in 1 .. n : q # p => rest.peer[q] = l.peer[q]
      /\ rest.connected = [l.connected EXCEPT ![a] = NoPeer]
  BY <1>1, <1>2
<1>4. /\ PeerInv(r) /\ r.address = a /\ r.status = "disconnected"
      /\ r.met = l.peer[p].met /\ r.bestHeight = l.peer[p].bestHeight
  BY <1>1, <1>2 DEF PeerInv
<1> HIDE DEF rest, r, a
<1>5. a \in Address /\ l.connected[a] = p /\ p \in Nat /\ p # NoPeer
  BY <1>1, <1>2 DEF PeerInv, NoPeer, a
<1>6. ASSUME NEW b \in Address, NEW q \in 1 .. n
      PROVE  rest.connected[b] = q <=>
               rest.peer[q].address = b /\ rest.peer[q].status # "disconnected"
  <2>1. CASE b = a
    <3>1. rest.connected[b] = NoPeer /\ NoPeer # q
      BY <1>2, <1>3, <2>1 DEF NoPeer
    <3>2. CASE q = p
      BY <1>3, <1>4, <3>1, <3>2
    <3>3. CASE q # p
      BY <1>2, <1>3, <1>5, <2>1, <3>1, <3>3
    <3> QED
      BY <3>2, <3>3
  <2>2. CASE b # a
    <3>1. rest.connected[b] = l.connected[b]
      BY <1>2, <1>3, <2>2
    <3>2. CASE q = p
      BY <1>2, <1>3, <1>4, <2>2, <3>1, <3>2 DEF a
    <3>3. CASE q # p
      <4>1. rest.peer[q] = l.peer[q]
        BY <1>3, <3>3
      <4>2. l.connected[b] = q <=> l.peer[q].address = b /\ l.peer[q].status # "disconnected"
        BY <1>2
      <4> QED
        BY <3>1, <4>1, <4>2
    <3> QED
      BY <3>2, <3>3
  <2> QED
    BY <2>1, <2>2
<1>7. PoolInv(rest)
  <2>1. rest.connected \in [Address -> {NoPeer} \cup 1 .. n]
    <3>1. NoPeer \in {NoPeer} \cup 1 .. n
      OBVIOUS
    <3> HIDE DEF NoPeer
    <3> QED
      BY <1>2, <1>3, <1>5, <3>1
  <2>2. \A q \in 1 .. n : PeerInv(rest.peer[q])
    BY <1>2, <1>3, <1>4
  <2> QED
    BY <1>2, <1>3, <1>6, <2>1, <2>2 DEF PoolInv
<1>8. Dropped(l, p) = IF l.keepAlive THEN Filled(rest) ELSE rest
  BY DEF Dropped, rest, a
<1>9. CASE l.keepAlive
  <2>1. PoolInv(Filled(rest)) /\ Follows(rest, Filled(rest))
    BY <1>7, FilledPool
  <2>2. Lost(l, Filled(rest), p)
    BY <1>1, <1>3, <1>4, <2>1 DEF Follows, Lost
  <2> QED
    BY <1>8, <1>9, <2>1, <2>2
<1>10. CASE ~l.keepAlive
  <2>1. Lost(l, rest, p)
    BY <1>1, <1>3, <1>4 DEF Lost
  <2> QED
    BY <1>7, <1>8, <1>10, <2>1
<1> QED
  BY <1>9, <1>10

\* Messages that are written or read leave the rest of the pool as it is.
LEMMA WrittenPool ==
  ASSUME NEW l, PoolInv(l), NEW m,
         DOMAIN m = DOMAIN l, m.connected = l.connected,
         DOMAIN m.peer = DOMAIN l.peer,
         \A p \in DOMAIN l.peer :
           /\ DOMAIN m.peer[p] = DOMAIN l.peer[p]
           /\ m.peer[p].address = l.peer[p].address
           /\ m.peer[p].status = l.peer[p].status
           /\ m.peer[p].met = l.peer[p].met
           /\ m.peer[p].bestHeight = l.peer[p].bestHeight
  PROVE  PoolInv(m) /\ Follows(l, m)
<1>1. \A p \in DOMAIN m.peer : PeerInv(m.peer[p])
  BY DEF PoolInv, PeerInv
<1>2. PoolInv(m)
  BY <1>1 DEF PoolInv
<1> QED
  BY <1>2 DEF Follows

LEMMA SentPool ==
  ASSUME NEW l, PoolInv(l), NEW p, NEW message
  PROVE  PoolInv(Sent(l, p, message)) /\ Follows(l, Sent(l, p, message))
<1> DEFINE m == [l EXCEPT !.peer[p].sent = Append(@, message)]
<1>1. DOMAIN l = {"keepAlive", "connected", "waiting", "peer"}
  BY DEF PoolInv
<1>2. \A q \in DOMAIN l.peer :
        DOMAIN l.peer[q] = {"address", "status", "met", "bestHeight", "sent", "received"}
  BY DEF PoolInv, PeerInv
<1>3. DOMAIN m = DOMAIN l /\ m.connected = l.connected /\ DOMAIN m.peer = DOMAIN l.peer
  BY <1>1
<1>4. ASSUME NEW q \in DOMAIN l.peer
      PROVE  /\ DOMAIN m.peer[q] = DOMAIN l.peer[q]
             /\ m.peer[q].address = l.peer[q].address
             /\ m.peer[q].status = l.peer[q].status
             /\ m.peer[q].met = l.peer[q].met
             /\ m.peer[q].bestHeight = l.peer[q].bestHeight
  BY <1>1, <1>2
<1> HIDE DEF m
<1>5. PoolInv(m) /\ Follows(l, m)
  BY <1>3, <1>4, WrittenPool
<1>6. Follows(l, l)
  BY DEF Follows
<1> QED
  BY <1>5, <1>6 DEF Sent, m
-----------------------------------------------------------------------------
(* The service.                                                            *)

\* As long as no peer becomes ready or goes, #peers and #peer stay right.
LEMMA ServiceKept ==
  ASSUME NEW l, NEW m, NEW v, NEW w, ServiceInv(l, v), Follows(l, m),
         DOMAIN w = DOMAIN v, w.peers = v.peers, w.best = v.best, w.retry \in BOOLEAN
  PROVE  ServiceInv(m, w)
<1>1. \A i \in DOMAIN w.peers :
        /\ w.peers[i] \in DOMAIN m.peer /\ w.best \in DOMAIN m.peer
        /\ m.peer[w.peers[i]].status = "ready"
        /\ m.peer[w.peers[i]].bestHeight <= m.peer[w.best].bestHeight
  BY DEF ServiceInv, Follows
<1>2. ASSUME NEW p \in DOMAIN m.peer, m.peer[p].status = "ready",
             \A i \in DOMAIN w.peers : w.peers[i] # p
      PROVE  \E q \in DOMAIN m.peer : m.peer[q].status = "disconnected" /\ ~m.peer[q].met
  <2>1. p \in DOMAIN l.peer /\ l.peer[p].status = "ready"
    BY <1>2 DEF Follows
  <2>2. PICK q \in DOMAIN l.peer : l.peer[q].status = "disconnected" /\ ~l.peer[q].met
    BY <1>2, <2>1 DEF ServiceInv
  <2> QED
    BY <2>2 DEF Follows
<1> QED
  BY <1>1, <1>2 DEF ServiceInv

\* When one goes, splice takes it out of #peers, or, if it never was ready, another.
LEMMA ServiceLeft ==
  ASSUME NEW l, NEW m, NEW v, PoolInv(l), ServiceInv(l, v),
         NEW p \in DOMAIN l.peer, l.peer[p].status \in {"connected", "ready"}, Lost(l, m, p)
  PROVE  ServiceInv(m, Left(v, p))
<1> DEFINE w == Left(v, p)
           rest == Removed(v.peers, p)
<1>1. /\ DOMAIN v = {"peers", "best", "retry", "inventories"}
      /\ v.retry \in BOOLEAN /\ v.peers \in Seq(Nat) /\ IsInjective(v.peers)
      /\ DOMAIN v.peers = 1 .. Len(v.peers)
  BY LenProperties DEF ServiceInv
<1>2. /\ rest \in Seq(Nat) /\ IsInjective(rest)
      /\ \A k \in DOMAIN rest : \E i \in DOMAIN v.peers : rest[k] = v.peers[i]
      /\ Contains(v.peers, p) => \A k \in DOMAIN rest : rest[k] # p
      /\ Contains(v.peers, p) =>
           \A i \in DOMAIN v.peers : v.peers[i] # p =>
             \E k \in DOMAIN rest : rest[k] = v.peers[i]
  <2>1. v.peers \in Seq(Nat) /\ IsInjective(v.peers)
    BY <1>1
  <2> QED
    BY <2>1, RemovedMembers
<1> HIDE DEF rest
<1>3. DOMAIN w = DOMAIN v /\ w.peers = rest /\ w.best = v.best
  BY <1>1 DEF Left, rest
<1>4. w.retry \in BOOLEAN
  <2>1. w.retry = (v.retry \/ (rest = <<>> /\ node = "running"))
    BY <1>1 DEF Left, rest
  <2> HIDE DEF w
  <2> QED
    BY <1>1, <2>1
<1>5. ASSUME NEW k \in DOMAIN rest
      PROVE  /\ rest[k] \in DOMAIN m.peer /\ v.best \in DOMAIN m.peer
             /\ m.peer[rest[k]].status = "ready"
             /\ m.peer[rest[k]].bestHeight <= m.peer[v.best].bestHeight
  <2>1. PICK i \in DOMAIN v.peers : rest[k] = v.peers[i]
    BY <1>2
  <2>2. /\ rest[k] \in DOMAIN l.peer /\ v.best \in DOMAIN l.peer
        /\ l.peer[rest[k]].status = "ready"
        /\ l.peer[rest[k]].bestHeight <= l.peer[v.best].bestHeight
    BY <2>1 DEF ServiceInv
  <2>3. rest[k] # p
    <3>1. CASE Contains(v.peers, p)
      BY <1>2, <3>1
    <3>2. CASE ~Contains(v.peers, p)
      BY <1>1, <2>1, <3>2 DEF Contains
    <3> QED
      BY <3>1, <3>2
  <2>4. m.peer[v.best].bestHeight = l.peer[v.best].bestHeight
    BY <2>2 DEF Lost
  <2> QED
    BY <2>2, <2>3, <2>4 DEF Lost
<1>6. ASSUME NEW q \in DOMAIN m.peer, m.peer[q].status = "ready",
             \A k \in DOMAIN rest : rest[k] # q
      PROVE  \E d \in DOMAIN m.peer : m.peer[d].status = "disconnected" /\ ~m.peer[d].met
  <2>1. q \in DOMAIN l.peer /\ q # p /\ l.peer[q].status = "ready"
    BY <1>6 DEF Lost
  <2>2. CASE l.peer[p].status = "connected"
    <3>1. ~l.peer[p].met
      BY <2>2 DEF PoolInv, PeerInv
    <3> QED
      BY <3>1 DEF Lost
  <2>3. CASE l.peer[p].status = "ready"
    <3>1. \E d \in DOMAIN l.peer : l.peer[d].status = "disconnected" /\ ~l.peer[d].met
      <4>1. CASE Contains(v.peers, p)
        <5>1. \A i \in DOMAIN v.peers : v.peers[i] # q
          BY <1>2, <1>6, <2>1, <4>1
        <5> QED
          BY <2>1, <5>1 DEF ServiceInv
      <4>2. CASE ~Contains(v.peers, p)
        <5>1. \A i \in DOMAIN v.peers : v.peers[i] # p
          BY <1>1, <4>2 DEF Contains
        <5> QED
          BY <2>3, <5>1 DEF ServiceInv
      <4> QED
        BY <4>1, <4>2
    <3>2. PICK d \in DOMAIN l.peer : l.peer[d].status = "disconnected" /\ ~l.peer[d].met
      BY <3>1
    <3>3. d # p
      BY <2>3, <3>2
    <3> QED
      BY <3>2, <3>3 DEF Lost
  <2> QED
    BY <2>2, <2>3
<1> HIDE DEF w
<1>7. ServiceInv(m, w)
  BY <1>1, <1>2, <1>3, <1>4, <1>5, <1>6 DEF ServiceInv
<1> QED
  BY <1>7 DEF w

\* One that becomes ready is added, and #peer is chosen again.
LEMMA ServiceReady ==
  ASSUME NEW l, NEW m, NEW v, PoolInv(l), PoolInv(m), ServiceInv(l, v), NEW p \in DOMAIN l.peer,
         l.peer[p].status = "connected",
         DOMAIN m.peer = DOMAIN l.peer, m.peer[p].status = "ready",
         \A q \in DOMAIN l.peer : q # p => m.peer[q] = l.peer[q],
         NEW w, DOMAIN w = DOMAIN v, w.peers = Append(v.peers, p), w.retry = FALSE,
         w.best = Best(Append(v.peers, p), m, v.best)
  PROVE  ServiceInv(m, w)
<1> DEFINE s == Append(v.peers, p)
           n == Len(v.peers)
<1>1. PICK k \in Nat : DOMAIN l.peer = 1 .. k
  BY DEF PoolInv
<1>2. v.peers \in Seq(Nat) /\ n \in Nat /\ DOMAIN v.peers = 1 .. n /\ p \in Nat
  BY <1>1, LenProperties DEF ServiceInv
<1>3. /\ s \in Seq(Nat) /\ s # <<>> /\ Len(s) = n + 1
      /\ \A i \in 1 .. n : s[i] = v.peers[i]
      /\ s[n + 1] = p
  BY <1>2, AppendProperties
<1>4. DOMAIN s = 1 .. n + 1
  BY <1>3, LenProperties
<1> HIDE DEF s
<1>5. \A i \in 1 .. n :
        /\ v.peers[i] \in DOMAIN l.peer /\ l.peer[v.peers[i]].status = "ready"
        /\ v.peers[i] # p
  BY <1>2 DEF ServiceInv
<1> HIDE DEF n
<1>6. \A i \in 1 .. n + 1 : s[i] \in DOMAIN m.peer /\ m.peer[s[i]].status = "ready"
  <2>1. \A i \in 1 .. n + 1 : i \in 1 .. n \/ i = n + 1
    BY <1>2
  <2> QED
    BY <1>3, <1>5, <2>1
<1>7. IsInjective(s)
  <2>1. \A i \in 1 .. n + 1 : i \in 1 .. n \/ i = n + 1
    BY <1>2
  <2>2. \A i, j \in 1 .. n : v.peers[i] = v.peers[j] => i = j
    BY <1>2 DEF ServiceInv, IsInjective
  <2>3. \A i, j \in 1 .. n + 1 : s[i] = s[j] => i = j
    BY <1>3, <1>5, <2>1, <2>2
  <2> QED
    BY <1>4, <2>3 DEF IsInjective
<1>8. \A i \in DOMAIN s : m.peer[s[i]].bestHeight \in 0 .. MaxHeight
  BY <1>4, <1>6 DEF PoolInv, PeerInv
<1>9. PICK i \in DOMAIN s :
        /\ Best(s, m, v.best) = s[i]
        /\ \A j \in DOMAIN s : m.peer[s[j]].bestHeight <= m.peer[s[i]].bestHeight
  BY <1>3, <1>8, BestMember
<1>10. w.peers = s /\ w.best = s[i]
  BY <1>9 DEF s
<1>11. ASSUME NEW q \in DOMAIN m.peer, m.peer[q].status = "ready",
              \A j \in DOMAIN s : s[j] # q
       PROVE  \E d \in DOMAIN m.peer : m.peer[d].status = "disconnected" /\ ~m.peer[d].met
  <2>1. q # p /\ \A j \in 1 .. n : v.peers[j] # q
    <3>1. n + 1 \in DOMAIN s /\ \A j \in 1 .. n : j \in DOMAIN s
      BY <1>2, <1>4
    <3> QED
      BY <1>3, <1>11, <3>1
  <2>2. PICK d \in DOMAIN l.peer : l.peer[d].status = "disconnected" /\ ~l.peer[d].met
    BY <1>2, <1>11, <2>1 DEF ServiceInv
  <2>3. d # p
    BY <2>2
  <2> QED
    BY <2>2, <2>3
<1>12. DOMAIN w = {"peers", "best", "retry", "inventories"} /\ w.retry \in BOOLEAN
  BY DEF ServiceInv
<1> QED
  BY <1>3, <1>4, <1>6, <1>7, <1>9, <1>10, <1>11, <1>12 DEF ServiceInv
-----------------------------------------------------------------------------
(* The inductive invariant holds.                                          *)

LEMMA PeersInit ==
  ASSUME Init
  PROVE  PeersInv
<1>1. DOMAIN pool.peer = 1 .. 0 /\ DOMAIN service.peers = 1 .. 0
  BY DEF Init
<1>2. remote \in [Address -> 0 .. MaxHeight]
  BY Heights DEF Init
<1>3. PoolInv(pool)
  <2>1. DOMAIN pool = {"keepAlive", "connected", "waiting", "peer"}
    BY DEF Init
  <2>2. pool.connected \in [Address -> {NoPeer} \cup DOMAIN pool.peer]
    BY DEF Init
  <2> QED
    BY <1>1, <2>1, <2>2 DEF PoolInv
<1>4. ServiceInv(pool, service)
  <2>1. /\ DOMAIN service = {"peers", "best", "retry", "inventories"}
        /\ service.retry \in BOOLEAN /\ service.peers \in Seq(Nat)
    BY DEF Init
  <2>2. IsInjective(service.peers)
    BY <1>1 DEF IsInjective
  <2> QED
    BY <1>1, <2>1, <2>2 DEF ServiceInv
<1> QED
  BY <1>2, <1>3, <1>4 DEF PeersInv

\* The operations that leave #peers and #peer alone.
LEMMA PeersKept ==
  ASSUME PeersInv, PoolInv(pool'), Follows(pool, pool'),
         remote' \in [Address -> 0 .. MaxHeight],
         DOMAIN service' = DOMAIN service, service'.peers = service.peers,
         service'.best = service.best, service'.retry \in BOOLEAN
  PROVE  PeersInv'
<1>1. ServiceInv(pool', service')
  BY ServiceKept DEF PeersInv
<1> QED
  BY <1>1 DEF PeersInv

LEMMA PeersConnected ==
  ASSUME NEW l, PoolInv(l)
  PROVE  PoolInv(Connected(l)) /\ Follows(l, Connected(l))
<1> DEFINE m == [l EXCEPT !.keepAlive = TRUE]
<1>1. PoolInv(m) /\ Follows(l, m)
  BY DEF PoolInv, Follows
<1> HIDE DEF m
<1>2. PoolInv(Filled(m)) /\ Follows(m, Filled(m))
  BY <1>1, FilledPool
<1>3. Follows(l, Filled(m))
  BY <1>1, <1>2 DEF Follows
<1> QED
  BY <1>2, <1>3 DEF Connected, m

LEMMA PeersNodeReady ==
  ASSUME PeersInv, NodeReady
  PROVE  PeersInv'
<1>1. PoolInv(pool') /\ Follows(pool, pool')
  BY PeersConnected DEF NodeReady, PeersInv
<1>2. DOMAIN service = {"peers", "best", "retry", "inventories"}
  BY DEF PeersInv, ServiceInv
<1>3. /\ DOMAIN service' = DOMAIN service /\ service'.peers = service.peers
      /\ service'.best = service.best /\ service'.retry \in BOOLEAN
  BY <1>2 DEF NodeReady
<1>4. remote' = remote
  BY DEF NodeReady
<1> QED
  BY <1>1, <1>3, <1>4, PeersKept DEF PeersInv

LEMMA PeersNodeStops ==
  ASSUME PeersInv, NodeStops
  PROVE  PeersInv'
<1>1. PICK n \in Nat : DOMAIN pool.peer = 1 .. n
  BY DEF PeersInv, PoolInv
<1>2. DOMAIN pool = {"keepAlive", "connected", "waiting", "peer"}
  BY DEF PeersInv, PoolInv
<1>3. /\ DOMAIN pool' = DOMAIN pool
      /\ pool'.connected = [a \in Address |-> NoPeer]
      /\ pool'.peer = [p \in 1 .. n |->
           [pool.peer[p] EXCEPT !.status = "disconnected", !.sent = <<>>, !.received = <<>>]]
  BY <1>1, <1>2 DEF NodeStops, Peer
<1>4. \A p \in 1 .. n : PeerInv(pool'.peer[p]) /\ pool'.peer[p].status = "disconnected"
  <2>1. \A p \in 1 .. n : PeerInv(pool.peer[p])
    BY <1>1 DEF PeersInv, PoolInv
  <2>2. ASSUME NEW p \in 1 .. n
        PROVE  PeerInv(pool'.peer[p]) /\ pool'.peer[p].status = "disconnected"
    <3>1. pool'.peer[p] = [pool.peer[p] EXCEPT !.status = "disconnected", !.sent = <<>>,
                                               !.received = <<>>]
      BY <1>3
    <3>2. PeerInv(pool.peer[p])
      BY <2>1
    <3> QED
      BY <3>1, <3>2 DEF PeerInv
  <2> QED
    BY <2>2
<1>5. DOMAIN pool'.peer = 1 .. n
  BY <1>3
<1>6. PoolInv(pool')
  <2>1. pool'.connected \in [Address -> {NoPeer} \cup 1 .. n]
    BY <1>3
  <2>2. \A a \in Address, p \in 1 .. n : pool'.connected[a] # p
    <3>1. \A a \in Address : pool'.connected[a] = NoPeer
      BY <1>3
    <3> QED
      BY <3>1 DEF NoPeer
  <2> QED
    BY <1>2, <1>3, <1>4, <1>5, <2>1, <2>2 DEF PoolInv
<1>7. /\ DOMAIN service = {"peers", "best", "retry", "inventories"}
      /\ service.retry \in BOOLEAN
  BY DEF PeersInv, ServiceInv
<1>8. /\ DOMAIN service' = DOMAIN service /\ service'.peers = <<>>
      /\ service'.retry = service.retry
  BY <1>7 DEF NodeStops
<1>9. service'.peers \in Seq(Nat) /\ DOMAIN service'.peers = 1 .. 0
  BY <1>8
<1>10. IsInjective(service'.peers)
  BY <1>9 DEF IsInjective
<1>11. ServiceInv(pool', service')
  BY <1>4, <1>5, <1>7, <1>8, <1>9, <1>10 DEF ServiceInv
<1>12. remote' \in [Address -> 0 .. MaxHeight]
  BY DEF NodeStops, PeersInv
<1> QED
  BY <1>6, <1>11, <1>12 DEF PeersInv

LEMMA PeersRetries ==
  ASSUME PeersInv, RetryTick \/ \E a \in Address : RetryTimePasses(a)
  PROVE  PeersInv'
<1>1. PoolInv(pool') /\ Follows(pool, pool')
  <2>1. CASE RetryTick
    BY <2>1, PeersConnected DEF RetryTick, PeersInv
  <2>2. ASSUME NEW a \in Address, RetryTimePasses(a)
        PROVE  PoolInv(pool') /\ Follows(pool, pool')
    BY <2>2 DEF RetryTimePasses, PeersInv, PoolInv, Follows
  <2> QED
    BY <2>1, <2>2
<1>2. UNCHANGED <<remote, service>>
  BY DEF RetryTick, RetryTimePasses
<1>3. service.retry \in BOOLEAN /\ remote \in [Address -> 0 .. MaxHeight]
  BY DEF PeersInv, ServiceInv
<1> QED
  BY <1>1, <1>2, <1>3, PeersKept

LEMMA PeersAccepted ==
  ASSUME PeersInv, NEW p \in PeerId, Accepted(p)
  PROVE  PeersInv'
<1>1. /\ p \in DOMAIN pool.peer /\ pool.peer[p].status = "connecting"
      /\ pool' = [pool EXCEPT !.peer[p].status = "connected"]
  BY DEF Accepted, Peer
<1>2. /\ DOMAIN pool = {"keepAlive", "connected", "waiting", "peer"}
      /\ \A q \in DOMAIN pool.peer : PeerInv(pool.peer[q])
  BY DEF PeersInv, PoolInv
<1>3. /\ DOMAIN pool' = DOMAIN pool /\ pool'.connected = pool.connected
      /\ DOMAIN pool'.peer = DOMAIN pool.peer
      /\ pool'.peer[p] = [pool.peer[p] EXCEPT !.status = "connected"]
      /\ \A q \in DOMAIN pool.peer : q # p => pool'.peer[q] = pool.peer[q]
  BY <1>1, <1>2
<1>4. /\ PeerInv(pool'.peer[p])
      /\ pool'.peer[p].address = pool.peer[p].address /\ pool'.peer[p].status = "connected"
      /\ pool'.peer[p].met = pool.peer[p].met
      /\ pool'.peer[p].bestHeight = pool.peer[p].bestHeight
  BY <1>1, <1>2, <1>3 DEF PeerInv
<1>5. \A a \in Address, q \in DOMAIN pool.peer :
        pool'.connected[a] = q <=>
          pool'.peer[q].address = a /\ pool'.peer[q].status # "disconnected"
  BY <1>1, <1>3, <1>4 DEF PeersInv, PoolInv
<1>6. PoolInv(pool')
  BY <1>2, <1>3, <1>4, <1>5 DEF PeersInv, PoolInv
<1>7. UNCHANGED <<remote, service>>
  BY DEF Accepted
<1>8. ServiceInv(pool', service)
  <2>1. \A i \in DOMAIN service.peers :
          /\ service.peers[i] \in DOMAIN pool'.peer /\ service.best \in DOMAIN pool'.peer
          /\ pool'.peer[service.peers[i]].status = "ready"
          /\ pool'.peer[service.peers[i]].bestHeight <= pool'.peer[service.best].bestHeight
    <3>1. ASSUME NEW q \in DOMAIN pool.peer
          PROVE  /\ pool'.peer[q].bestHeight = pool.peer[q].bestHeight
                 /\ pool.peer[q].status = "ready" => pool'.peer[q].status = "ready"
      BY <1>1, <1>3, <1>4
    <3> QED
      BY <1>3, <3>1 DEF PeersInv, ServiceInv
  <2>2. ASSUME NEW q \in DOMAIN pool'.peer, pool'.peer[q].status = "ready",
               \A i \in DOMAIN service.peers : service.peers[i] # q
        PROVE  \E d \in DOMAIN pool'.peer :
                 pool'.peer[d].status = "disconnected" /\ ~pool'.peer[d].met
    <3>1. q # p
      BY <1>4, <2>2
    <3>2. PICK d \in DOMAIN pool.peer : pool.peer[d].status = "disconnected" /\ ~pool.peer[d].met
      BY <1>3, <2>2, <3>1 DEF PeersInv, ServiceInv
    <3>3. d # p
      BY <1>1, <3>2
    <3> QED
      BY <1>3, <3>2, <3>3
  <2> QED
    BY <2>1, <2>2 DEF PeersInv, ServiceInv
<1> QED
  BY <1>6, <1>7, <1>8 DEF PeersInv
LEMMA PeersHandshake ==
  ASSUME PeersInv, NEW p \in PeerId, Handshake(p)
  PROVE  PeersInv'
<1> DEFINE h == remote[pool.peer[p].address]
           ready == [pool EXCEPT !.peer[p].status = "ready", !.peer[p].met = TRUE,
                                 !.peer[p].bestHeight = h]
<1>1. /\ p \in DOMAIN pool.peer /\ pool.peer[p].status = "connected"
      /\ pool' = ready
      /\ remote' = remote
  BY DEF Handshake, Peer
<1>2. /\ DOMAIN pool = {"keepAlive", "connected", "waiting", "peer"}
      /\ \A q \in DOMAIN pool.peer : PeerInv(pool.peer[q])
  BY DEF PeersInv, PoolInv
<1>3. h \in 0 .. MaxHeight
  BY <1>1, <1>2 DEF PeersInv, PeerInv
<1> HIDE DEF h
<1>4. /\ DOMAIN pool' = DOMAIN pool /\ pool'.connected = pool.connected
      /\ DOMAIN pool'.peer = DOMAIN pool.peer
      /\ pool'.peer[p] = [pool.peer[p] EXCEPT !.status = "ready", !.met = TRUE, !.bestHeight = h]
      /\ \A q \in DOMAIN pool.peer : q # p => pool'.peer[q] = pool.peer[q]
  BY <1>1, <1>2
<1>5. /\ PeerInv(pool'.peer[p])
      /\ pool'.peer[p].address = pool.peer[p].address /\ pool'.peer[p].status = "ready"
  BY <1>1, <1>2, <1>3, <1>4 DEF PeerInv
<1>6. \A a \in Address, q \in DOMAIN pool.peer :
        pool'.connected[a] = q <=>
          pool'.peer[q].address = a /\ pool'.peer[q].status # "disconnected"
  BY <1>1, <1>4, <1>5 DEF PeersInv, PoolInv
<1>7. PoolInv(pool')
  BY <1>2, <1>4, <1>5, <1>6 DEF PeersInv, PoolInv
<1>8. service' = [service EXCEPT !.retry = FALSE, !.peers = Append(service.peers, p),
                                 !.best = Best(Append(service.peers, p), pool', @)]
  BY <1>1 DEF Handshake, h
<1>9. DOMAIN service = {"peers", "best", "retry", "inventories"}
  BY DEF PeersInv, ServiceInv
<1>10. /\ DOMAIN service' = DOMAIN service /\ service'.retry = FALSE
       /\ service'.peers = Append(service.peers, p)
       /\ service'.best = Best(Append(service.peers, p), pool', service.best)
  BY <1>8, <1>9
<1>11. ServiceInv(pool', service')
  <2>1. PoolInv(pool) /\ ServiceInv(pool, service)
    BY DEF PeersInv
  <2>2. p \in DOMAIN pool.peer /\ pool.peer[p].status = "connected"
    BY <1>1
  <2>3. DOMAIN pool'.peer = DOMAIN pool.peer /\ pool'.peer[p].status = "ready"
    BY <1>4, <1>5
  <2>4. \A q \in DOMAIN pool.peer : q # p => pool'.peer[q] = pool.peer[q]
    BY <1>4
  <2> HIDE DEF ready
  <2> QED
    BY <1>7, <1>10, <2>1, <2>2, <2>3, <2>4, ServiceReady
<1> QED
  BY <1>1, <1>7, <1>11 DEF PeersInv
LEMMA PeersEnds ==
  ASSUME PeersInv, NEW p \in PeerId, Ends(p)
  PROVE  PeersInv'
<1>1. /\ p \in DOMAIN pool.peer /\ pool.peer[p].status \in {"connected", "ready"}
      /\ pool' = Dropped(pool, p) /\ service' = Left(service, p)
      /\ remote' = remote
  BY DEF Ends, Disconnected, Peer
<1>2. PoolInv(pool) /\ ServiceInv(pool, service)
  BY DEF PeersInv
<1>3. PoolInv(pool') /\ Lost(pool, pool', p)
  BY <1>1, <1>2, DroppedPool
<1>4. ServiceInv(pool', service')
  BY <1>1, <1>2, <1>3, ServiceLeft
<1> QED
  BY <1>1, <1>3, <1>4 DEF PeersInv

\* The messages of a connection.
LEMMA PeersMessages ==
  ASSUME PeersInv, NEW l, NEW p, NEW x, NEW y,
         l = [pool EXCEPT !.peer[p].sent = x, !.peer[p].received = y]
  PROVE  PoolInv(l) /\ Follows(pool, l)
<1>1. DOMAIN pool = {"keepAlive", "connected", "waiting", "peer"} /\ PoolInv(pool)
  BY DEF PeersInv, PoolInv
<1>2. \A q \in DOMAIN pool.peer :
        DOMAIN pool.peer[q] = {"address", "status", "met", "bestHeight", "sent", "received"}
  BY DEF PeersInv, PoolInv, PeerInv
<1>3. DOMAIN l = DOMAIN pool /\ l.connected = pool.connected /\ DOMAIN l.peer = DOMAIN pool.peer
  BY <1>1
<1>4. ASSUME NEW q \in DOMAIN pool.peer
      PROVE  /\ DOMAIN l.peer[q] = DOMAIN pool.peer[q]
             /\ l.peer[q].address = pool.peer[q].address
             /\ l.peer[q].status = pool.peer[q].status
             /\ l.peer[q].met = pool.peer[q].met
             /\ l.peer[q].bestHeight = pool.peer[q].bestHeight
  BY <1>1, <1>2
<1> QED
  BY <1>1, <1>3, <1>4, WrittenPool

LEMMA PeersReads ==
  ASSUME PeersInv, NEW l, NEW p, NEW y, l = [pool EXCEPT !.peer[p].received = y]
  PROVE  PoolInv(l) /\ Follows(pool, l)
<1>1. DOMAIN pool = {"keepAlive", "connected", "waiting", "peer"} /\ PoolInv(pool)
  BY DEF PeersInv, PoolInv
<1>2. \A q \in DOMAIN pool.peer :
        DOMAIN pool.peer[q] = {"address", "status", "met", "bestHeight", "sent", "received"}
  BY DEF PeersInv, PoolInv, PeerInv
<1>3. DOMAIN l = DOMAIN pool /\ l.connected = pool.connected /\ DOMAIN l.peer = DOMAIN pool.peer
  BY <1>1
<1>4. ASSUME NEW q \in DOMAIN pool.peer
      PROVE  /\ DOMAIN l.peer[q] = DOMAIN pool.peer[q]
             /\ l.peer[q].address = pool.peer[q].address
             /\ l.peer[q].status = pool.peer[q].status
             /\ l.peer[q].met = pool.peer[q].met
             /\ l.peer[q].bestHeight = pool.peer[q].bestHeight
  BY <1>1, <1>2
<1> QED
  BY <1>1, <1>3, <1>4, WrittenPool

LEMMA PeersGrows ==
  ASSUME PeersInv, NEW a \in Address, Grows(a)
  PROVE  PeersInv'
<1> DEFINE inv == [type |-> "inv", blocks |-> <<remote[a] + 1>>]
<1>1. remote' = [remote EXCEPT ![a] = @ + 1] /\ service' = service
  BY DEF Grows
<1> HIDE DEF inv
<1>2. /\ DOMAIN pool = {"keepAlive", "connected", "waiting", "peer"} /\ PoolInv(pool)
      /\ \A q \in DOMAIN pool.peer :
           DOMAIN pool.peer[q] = {"address", "status", "met", "bestHeight", "sent", "received"}
  BY DEF PeersInv, PoolInv, PeerInv
<1> DEFINE peers == [p \in DOMAIN pool.peer |->
                       IF pool.peer[p].address = a /\ pool.peer[p].status = "ready"
                       THEN [pool.peer[p] EXCEPT !.received = Append(@, inv)] ELSE pool.peer[p]]
<1>3. /\ DOMAIN pool' = DOMAIN pool /\ pool'.connected = pool.connected
      /\ pool'.peer = peers
  <2>1. pool' = [pool EXCEPT !.peer = peers]
    BY DEF Grows, Peer, inv
  <2> HIDE DEF peers
  <2> QED
    BY <1>2, <2>1
<1>4. DOMAIN pool'.peer = DOMAIN pool.peer
  BY <1>3
<1>5. ASSUME NEW q \in DOMAIN pool.peer
      PROVE  /\ DOMAIN pool'.peer[q] = DOMAIN pool.peer[q]
             /\ pool'.peer[q].address = pool.peer[q].address
             /\ pool'.peer[q].status = pool.peer[q].status
             /\ pool'.peer[q].met = pool.peer[q].met
             /\ pool'.peer[q].bestHeight = pool.peer[q].bestHeight
  BY <1>2, <1>3
<1>6. PoolInv(pool') /\ Follows(pool, pool')
  BY <1>2, <1>3, <1>4, <1>5, WrittenPool
<1>7. remote' \in [Address -> 0 .. MaxHeight]
  <2>1. remote \in [Address -> 0 .. MaxHeight]
    BY DEF PeersInv
  <2>2. remote[a] < MaxHeight
    BY DEF Grows
  <2>3. remote[a] \in 0 .. MaxHeight
    BY <2>1
  <2>4. remote[a] + 1 \in 0 .. MaxHeight
    BY <2>2, <2>3, Heights
  <2> QED
    BY <1>1, <2>1, <2>4
<1>8. service.retry \in BOOLEAN
  BY DEF PeersInv, ServiceInv
<1> QED
  BY <1>1, <1>6, <1>7, <1>8, PeersKept

LEMMA PeersAnswers ==
  ASSUME PeersInv, NEW p \in PeerId, Answers(p)
  PROVE  PeersInv'
<1>1. \E x, y : pool' = [pool EXCEPT !.peer[p].sent = x, !.peer[p].received = y]
  BY DEF Answers
<1>2. PoolInv(pool') /\ Follows(pool, pool')
  BY <1>1, PeersMessages
<1>3. UNCHANGED <<remote, service>>
  BY DEF Answers
<1>4. service.retry \in BOOLEAN /\ remote \in [Address -> 0 .. MaxHeight]
  BY DEF PeersInv, ServiceInv
<1> QED
  BY <1>2, <1>3, <1>4, PeersKept

LEMMA PeersReceives ==
  ASSUME PeersInv, NEW p \in PeerId, ReceiveInventories(p) \/ ReceiveBlock(p)
  PROVE  PeersInv'
<1> DEFINE read == [pool EXCEPT !.peer[p].received = Tail(@)]
<1>1. PoolInv(read) /\ Follows(pool, read)
  <2>1. \E y : read = [pool EXCEPT !.peer[p].received = y]
    BY DEF PeersInv, PoolInv, PeerInv
  <2> HIDE DEF read
  <2> QED
    BY <2>1, PeersReads
<1>2. pool' = read \/ \E message : pool' = Sent(read, p, message)
  <2>1. CASE ReceiveInventories(p)
    BY <2>1 DEF ReceiveInventories
  <2>2. CASE ReceiveBlock(p)
    BY <2>2 DEF ReceiveBlock
  <2> QED
    BY <2>1, <2>2
<1> HIDE DEF read
<1>3. PoolInv(pool') /\ Follows(pool, pool')
  <2>1. CASE pool' = read
    BY <1>1, <2>1
  <2>2. ASSUME NEW message, pool' = Sent(read, p, message)
        PROVE  PoolInv(pool') /\ Follows(pool, pool')
    <3>1. PoolInv(pool') /\ Follows(read, pool')
      BY <1>1, <2>2, SentPool
    <3> QED
      BY <1>1, <3>1 DEF Follows
  <2> QED
    BY <1>2, <2>1, <2>2
<1>4. service' = service \/ \E x : service' = [service EXCEPT !.inventories = x]
  BY DEF ReceiveInventories, ReceiveBlock
<1>5. DOMAIN service = {"peers", "best", "retry", "inventories"} /\ service.retry \in BOOLEAN
  BY DEF PeersInv, ServiceInv
<1>6. /\ DOMAIN service' = DOMAIN service /\ service'.peers = service.peers
      /\ service'.best = service.best /\ service'.retry = service.retry
  BY <1>4, <1>5
<1>7. remote' = remote /\ remote \in [Address -> 0 .. MaxHeight]
  BY DEF ReceiveInventories, ReceiveBlock, PeersInv
<1> QED
  BY <1>3, <1>5, <1>6, <1>7, PeersKept

LEMMA PeersAsk ==
  ASSUME PeersInv, Ask
  PROVE  PeersInv'
<1>1. PoolInv(pool') /\ Follows(pool, pool')
  BY SentPool DEF Ask, PeersInv
<1>2. DOMAIN service = {"peers", "best", "retry", "inventories"} /\ service.retry \in BOOLEAN
  BY DEF PeersInv, ServiceInv
<1>3. /\ DOMAIN service' = DOMAIN service /\ service'.peers = service.peers
      /\ service'.best = service.best /\ service'.retry = service.retry
  BY <1>2 DEF Ask, Forgotten
<1>4. remote' = remote /\ remote \in [Address -> 0 .. MaxHeight]
  BY DEF Ask, PeersInv
<1> QED
  BY <1>1, <1>2, <1>3, <1>4, PeersKept

LEMMA PeersNext ==
  ASSUME PeersInv, [Next]_vars
  PROVE  PeersInv'
<1>1. CASE UNCHANGED vars
  BY <1>1 DEF vars, PeersInv
<1>2. CASE TimesOut
  BY <1>2 DEF TimesOut, PeersInv
<1>3. CASE NodeReady
  BY <1>3, PeersNodeReady
<1>4. CASE NodeStops
  BY <1>4, PeersNodeStops
<1>5. CASE RetryTick
  BY <1>5, PeersRetries
<1>6. ASSUME NEW a \in Address, RetryTimePasses(a) \/ Grows(a)
      PROVE  PeersInv'
  BY <1>6, PeersRetries, PeersGrows
<1>7. ASSUME NEW p \in PeerId,
             \/ Accepted(p) \/ Handshake(p) \/ Ends(p)
             \/ Answers(p) \/ ReceiveInventories(p) \/ ReceiveBlock(p)
      PROVE  PeersInv'
  BY <1>7, PeersAccepted, PeersHandshake, PeersEnds, PeersAnswers, PeersReceives
<1>8. CASE Ask
  BY <1>8, PeersAsk
<1> QED
  BY <1>1, <1>2, <1>3, <1>4, <1>5, <1>6, <1>7, <1>8 DEF Next

\* In every execution, whatever the addresses and the bounds.
LEMMA PeersInvariant == Spec => []PeersInv
<1>1. Init => PeersInv
  BY PeersInit
<1>2. PeersInv /\ [Next]_vars => PeersInv'
  BY PeersNext
<1> QED
  BY <1>1, <1>2, PTL DEF Spec
-----------------------------------------------------------------------------
(* The timer.                                                              *)

LEMMA StartNext ==
  ASSUME PeersInv, StartInv, [Next]_vars
  PROVE  StartInv'
<1> SUFFICES ASSUME node' = "starting"
             PROVE  Peer' = {} /\ service'.peers = <<>> /\ ~service'.retry
  BY DEF StartInv
<1>1. node = "starting"
  BY DEF Next, vars, NodeReady, NodeStops, RetryTick, RetryTimePasses, Grows, Accepted, Handshake,
         Ends, Answers, ReceiveInventories, ReceiveBlock, Ask, TimesOut
<1>2. Peer = {} /\ service.peers = <<>> /\ ~service.retry
  BY <1>1 DEF StartInv
<1>3. ~NodeReady /\ ~NodeStops /\ ~RetryTick /\ ~Ask
  BY <1>1, <1>2 DEF NodeReady, NodeStops, RetryTick, Ask
<1>4. \A p \in PeerId :
        /\ ~Accepted(p) /\ ~Handshake(p) /\ ~Ends(p)
        /\ ~Answers(p) /\ ~ReceiveInventories(p) /\ ~ReceiveBlock(p)
  BY <1>2 DEF Accepted, Handshake, Ends, Answers, ReceiveInventories, ReceiveBlock
<1>5. CASE \/ UNCHANGED vars
           \/ TimesOut
  BY <1>2, <1>5 DEF vars, TimesOut, Peer
<1>6. ASSUME NEW a \in Address, RetryTimePasses(a) \/ Grows(a)
      PROVE  Peer' = {} /\ service' = service
  <2>1. service' = service
    BY <1>6 DEF RetryTimePasses, Grows
  <2>2. Peer' = {}
    <3>1. "peer" \in DOMAIN pool
      BY DEF PeersInv, PoolInv
    <3> QED
      BY <1>2, <1>6, <3>1 DEF RetryTimePasses, Grows, Peer
  <2> QED
    BY <2>1, <2>2
<1> QED
  BY <1>2, <1>3, <1>4, <1>5, <1>6 DEF Next

LEMMA AloneEnds ==
  ASSUME PeersInv, RetryInv, NEW p \in PeerId, Ends(p)
  PROVE  RetryInv'
<1> SUFFICES ASSUME node' = "running"
             PROVE  service'.retry <=> service'.peers = <<>>
  BY DEF RetryInv
<1> DEFINE rest == Removed(service.peers, p)
<1>1. DOMAIN service = {"peers", "best", "retry", "inventories"} /\ service.retry \in BOOLEAN
  BY DEF PeersInv, ServiceInv
<1>2. node = "running" /\ service' = Left(service, p)
  BY DEF Ends, Disconnected
<1>3. service'.peers = rest /\ service'.retry = (service.retry \/ rest = <<>>)
  BY <1>1, <1>2 DEF Left
<1>4. service.peers = <<>> => rest = <<>>
  BY DEF Removed
<1>5. service.retry <=> service.peers = <<>>
  BY <1>2 DEF RetryInv
<1> QED
  BY <1>3, <1>4, <1>5

LEMMA AloneNext ==
  ASSUME PeersInv, StartInv, RetryInv, [Next]_vars
  PROVE  RetryInv'
<1>1. DOMAIN service = {"peers", "best", "retry", "inventories"} /\ service.retry \in BOOLEAN
  BY DEF PeersInv, ServiceInv
<1>2. CASE UNCHANGED <<service, node>>
  BY <1>2 DEF RetryInv
<1>3. CASE NodeReady
  <2>1. service.peers = <<>>
    BY <1>3 DEF NodeReady, StartInv
  <2>2. service'.peers = <<>> /\ service'.retry = TRUE
    BY <1>1, <1>3, <2>1 DEF NodeReady
  <2> QED
    BY <2>2 DEF RetryInv
<1>4. CASE NodeStops
  BY <1>4 DEF NodeStops, RetryInv
<1>5. ASSUME NEW p \in PeerId, Handshake(p)
      PROVE  RetryInv'
  <2>1. service'.retry = FALSE /\ service'.peers = Append(service.peers, p)
    BY <1>1, <1>5 DEF Handshake
  <2>2. service.peers \in Seq(Nat) /\ p \in Nat
    BY DEF PeersInv, ServiceInv, PeerId
  <2>3. Append(service.peers, p) # <<>>
    BY <2>2, AppendProperties
  <2> QED
    BY <2>1, <2>3 DEF RetryInv
<1>6. CASE \/ Ask
           \/ \E p \in PeerId : ReceiveInventories(p)
  <2>1. \E x : service' = [service EXCEPT !.inventories = x]
    BY <1>6 DEF Ask, Forgotten, ReceiveInventories
  <2>2. service'.peers = service.peers /\ service'.retry = service.retry
    BY <1>1, <2>1
  <2>3. node' = node
    BY <1>6 DEF Ask, ReceiveInventories
  <2> QED
    BY <2>2, <2>3 DEF RetryInv
<1>7. ASSUME NEW p \in PeerId, Ends(p)
      PROVE  RetryInv'
  BY <1>7, AloneEnds
<1>8. CASE \/ RetryTick \/ TimesOut
           \/ \E a \in Address : RetryTimePasses(a) \/ Grows(a)
           \/ \E p \in PeerId : Accepted(p) \/ Answers(p) \/ ReceiveBlock(p)
           \/ UNCHANGED vars
  <2>1. UNCHANGED <<service, node>>
    BY <1>8 DEF RetryTick, TimesOut, RetryTimePasses, Grows, Accepted, Answers, ReceiveBlock, vars
  <2> QED
    BY <1>2, <2>1
<1> QED
  BY <1>3, <1>4, <1>5, <1>6, <1>7, <1>8 DEF Next

\* #peers is empty when nobody is ready, and holds the ready ones but for the loss.
LEMMA AloneReady ==
  ASSUME PeersInv, RetryInv
  PROVE  RetryWhenAlone
<1> DEFINE ready == {p \in Peer : pool.peer[p].status = "ready"}
<1> SUFFICES ASSUME node = "running"
             PROVE  /\ ready = {} => service.retry
                    /\ service.retry /\ ready # {} =>
                         \E q \in Peer : ~Live(q) /\ ~pool.peer[q].met
  BY DEF RetryWhenAlone
<1>1. service.retry <=> service.peers = <<>>
  BY DEF RetryInv
<1>2. ASSUME ready = {}
      PROVE  service.peers = <<>>
  <2>1. ASSUME NEW i \in DOMAIN service.peers
        PROVE  FALSE
    BY <1>2, <2>1 DEF PeersInv, ServiceInv, Peer
  <2>2. service.peers \in Seq(Nat)
    BY DEF PeersInv, ServiceInv
  <2>3. DOMAIN service.peers = 1 .. Len(service.peers) /\ Len(service.peers) \in Nat
    BY <2>2, LenProperties
  <2>4. Len(service.peers) = 0
    BY <2>1, <2>3
  <2> QED
    BY <2>2, <2>4, EmptySeq
<1>3. ASSUME service.peers = <<>>, NEW p \in ready
      PROVE  \E q \in Peer : ~Live(q) /\ ~pool.peer[q].met
  <2>1. \A i \in DOMAIN service.peers : service.peers[i] # p
    BY <1>3
  <2>2. PICK q \in DOMAIN pool.peer : pool.peer[q].status = "disconnected" /\ ~pool.peer[q].met
    BY <1>3, <2>1 DEF PeersInv, ServiceInv, Peer
  <2> QED
    BY <2>2 DEF Live, Peer
<1> QED
  BY <1>1, <1>2, <1>3

-----------------------------------------------------------------------------
(* The theorems.                                                           *)

\* No peer that has gone stays among those of the service, each is there once, none
\* of them is better than the one that is asked, and a ready one is missing only
\* after a peer has gone before it was ready (_onPeerReady, _removePeer and
\* _getBestHeight of src/node/services/p2p.js).
THEOREM PeersAliveTheorem == Spec => []PeersAlive
<1>1. PeersInv => PeersAlive
  <2> SUFFICES ASSUME PeersInv
               PROVE  PeersAlive
    OBVIOUS
  <2>1. DOMAIN service.peers = 1 .. Len(service.peers)
    BY LenProperties DEF PeersInv, ServiceInv
  <2>2. ASSUME NEW p \in ToSet(service.peers)
        PROVE  /\ pool.peer[p].status = "ready"
               /\ pool.peer[p].bestHeight <= pool.peer[service.best].bestHeight
    BY <2>2 DEF ToSet, PeersInv, ServiceInv
  <2>3. ASSUME NEW p \in Peer, pool.peer[p].status = "ready", ~Contains(service.peers, p)
        PROVE  \E q \in Peer : ~Live(q) /\ ~pool.peer[q].met
    <3>1. \A i \in DOMAIN service.peers : service.peers[i] # p
      BY <2>1, <2>3 DEF Contains
    <3>2. PICK q \in DOMAIN pool.peer : pool.peer[q].status = "disconnected" /\ ~pool.peer[q].met
      BY <2>3, <3>1 DEF PeersInv, ServiceInv, Peer
    <3> QED
      BY <3>2 DEF Live, Peer
  <2>4. IsInjective(service.peers)
    BY DEF PeersInv, ServiceInv
  <2> QED
    BY <2>2, <2>3, <2>4 DEF PeersAlive
<1> QED
  BY <1>1, PeersInvariant, PTL

\* While the node runs, the timer that opens connections is on as soon as no peer is
\* ready, and on beside a ready peer only after a peer has gone before it was ready
\* (_onPeerReady, _onPeerDisconnect and _removePeer of src/node/services/p2p.js).
THEOREM RetryWhenAloneTheorem == Spec => []RetryWhenAlone
<1>1. Init => StartInv /\ RetryInv
  BY DEF Init, StartInv, RetryInv, Peer
<1>2. PeersInv /\ StartInv /\ RetryInv /\ [Next]_vars => StartInv' /\ RetryInv'
  BY StartNext, AloneNext
<1>3. PeersInv /\ RetryInv => RetryWhenAlone
  BY AloneReady
<1> QED
  BY <1>1, <1>2, <1>3, PeersInvariant, PTL DEF Spec

\* An address never has two open connections, whatever order connections are opened
\* and ended in: the open ones are those of #connectedPeers (fillConnections and the
\* handler of peerdisconnect of src/p2p/pool.js).
THEOREM OneConnectionTheorem == Spec => []OneConnection
<1>1. PeersInv => OneConnection
  BY DEF PeersInv, PoolInv, OneConnection, Live, Peer
<1> QED
  BY <1>1, PeersInvariant, PTL
=============================================================================
