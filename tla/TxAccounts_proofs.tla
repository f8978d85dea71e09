--------------------------- MODULE TxAccounts_proofs ---------------------------
(***************************************************************************)
(* An address of a committed output of TxIndex is never lost, under the    *)
(* hypotheses of LedgerTheorem: CalmMempool, CalmStart and Unrivalled.     *)
(***************************************************************************)
EXTENDS TxIndex_proofs

-----------------------------------------------------------------------------
(* What a statement leaves of the outputs and the inputs.                  *)

\* An output has the place and the address of one of before, an input its link too.
OutFrom(p, o) == p.id = o.id /\ p.at = o.at /\ p.address = o.address
InFrom(j, i) == SameInput(i, j) /\ j.address = i.address

\* Transaction x has the outputs and the inputs of before.
SamePlaces(x) ==
  /\ \A p \in db'.outs : p.id = x => \E o \in db.outs : OutFrom(p, o)
  /\ \A j \in db'.ins : j.id = x => \E i \in db.ins : InFrom(j, i)
  /\ \A o \in db.outs : o.id = x => \E p \in db'.outs : OutFrom(p, o)
  /\ \A i \in db.ins : i.id = x => \E j \in db'.ins : InFrom(j, i)

\* Every output is one of before, where it was or above what is committed.
OutsStay ==
  \A p \in db'.outs : \E o \in db.outs : OutFrom(p, o) /\ (p.height = o.height \/ p.height > H)

\* Every output is one of before, where it was.
OutsFixed == \A p \in db'.outs : \E o \in db.outs : OutFrom(p, o) /\ p.height = o.height

\* An id is that of the same transaction.
SameIds == \A s \in db'.tx, r \in db.tx : s.id = r.id => s.tx = r.tx

\* What a statement on other tables leaves.
LEMMA SamePlacesAll ==
  ASSUME db'.outs = db.outs, db'.ins = db.ins
  PROVE  OutsFixed /\ \A x : SamePlaces(x)
BY DEF OutsFixed, SamePlaces, OutFrom, InFrom, SameInput

\* The outputs that are freed.
LEMMA FreedPlaces ==
  ASSUME ShapeInv, NEW ins, db'.outs = Freed(db.outs, ins), db'.ins = db.ins
  PROVE  OutsFixed /\ \A x : SamePlaces(x)
<1> DEFINE freed(o) == \E i \in ins : Spends(i, o)
           new(o) == IF freed(o) THEN [o EXCEPT !.by = 0, !.byAt = 0, !.byHeight = Null] ELSE o
<1>1. db'.outs = {new(o) : o \in db.outs}
  BY DEF Freed, Update
<1>2. \A o \in db.outs : OutFrom(new(o), o) /\ new(o).height = o.height
  BY DEF ShapeInv, OutFrom
<1> HIDE DEF new, freed
<1>3. \A p \in db'.outs : \E o \in db.outs : OutFrom(p, o) /\ p.height = o.height
  BY <1>1, <1>2
<1>4. \A o \in db.outs : \E p \in db'.outs : OutFrom(p, o)
  BY <1>1, <1>2
<1>5. \A i \in db.ins : InFrom(i, i)
  BY DEF InFrom, SameInput
<1> QED
  BY <1>3, <1>4, <1>5 DEF OutsFixed, SamePlaces

\* start(): the outputs and the inputs of what is committed stay.
LEMMA CleanPlaces ==
  ASSUME LedgerInv, Clean
  PROVE  /\ OutsStay /\ SameIds
         /\ \A r \in db.tx : Committed(r) => SamePlaces(r.id)
<1> USE DEF LedgerInv, WorkInv, TableInv
<1>0. OutsFixed => OutsStay
  BY DEF OutsFixed, OutsStay
<1>1. /\ phase = "clean" /\ step \in 1 .. 5 /\ db' = Cleaned(step, db, H) /\ storedTip \in Block
  BY CleanProcess DEF Clean
<1>2. DOMAIN db = {"tx", "outs", "ins", "balances", "witness", "receipts", "logs", "spends",
                   "refunds", "addresses", "next"}
  BY DEF ShapeInv
<1>3. ASSUME NEW r \in db.tx, Committed(r), NEW x \in db.outs \cup db.ins, x.id = r.id
      PROVE  x.height <= H
  <2>1. PICK q \in db.tx : With(x, q)
    BY DEF OwnInv
  <2>2. q = r
    BY <1>3, <2>1 DEF With, KeyInv
  <2> QED
    BY <1>3, <2>1, <2>2 DEF With, Committed
<1>4. db'.tx = db.tx => SameIds
  BY DEF SameIds, KeyInv
<1>5. CASE step = 1
  <2>1. db'.outs = {o \in db.outs : o.height <= H} /\ db'.ins = db.ins /\ db'.tx = db.tx
    BY <1>1, <1>2, <1>5 DEF Cleaned
  <2>2. OutsStay
    BY <2>1 DEF OutsStay, OutFrom
  <2>3. \A r \in db.tx : Committed(r) => SamePlaces(r.id)
    BY <1>3, <2>1 DEF SamePlaces, OutFrom, InFrom, SameInput
  <2> QED
    BY <1>4, <2>1, <2>2, <2>3
<1>6. CASE step = 2
  <2> DEFINE ins == {i \in db.ins : i.height > H}
  <2>1. db'.outs = Freed(db.outs, ins) /\ db'.ins = db.ins /\ db'.tx = db.tx
    BY <1>1, <1>2, <1>6 DEF Cleaned
  <2> HIDE DEF ins
  <2> QED
    BY <1>0, <1>4, <2>1, FreedPlaces
<1>7. CASE step = 3
  <2>1. db'.outs = db.outs /\ db'.ins = {i \in db.ins : i.height <= H} /\ db'.tx = db.tx
    BY <1>1, <1>2, <1>7 DEF Cleaned
  <2>2. OutsStay
    BY <2>1 DEF OutsStay, OutFrom
  <2>3. \A r \in db.tx : Committed(r) => SamePlaces(r.id)
    BY <1>3, <2>1 DEF SamePlaces, OutFrom, InFrom, SameInput
  <2> QED
    BY <1>4, <2>1, <2>2, <2>3
<1>8. CASE step = 4
  <2> DEFINE dead == {r \in db.tx : r.height > H}
             txs == db.tx \ dead
             witness == db.witness \ {r.tx : r \in dead}
             receipts == {r \in db.receipts : r.id \notin Ids(dead)}
             logs == {l \in db.logs : l.receipt \notin Ids(dead)}
             balances == {b \in db.balances : b.id \notin Ids(dead)}
  <2>1. db' = [db EXCEPT !.tx = txs, !.witness = witness, !.receipts = receipts,
                         !.logs = logs, !.balances = balances]
    BY <1>1, <1>8 DEF Cleaned
  <2>2. txs \subseteq db.tx
    OBVIOUS
  <2> HIDE DEF txs, witness, receipts, logs, balances
  <2>3. db'.outs = db.outs /\ db'.ins = db.ins /\ db'.tx = txs
    BY <1>2, <2>1
  <2>4. SameIds
    BY <2>2, <2>3 DEF SameIds, KeyInv
  <2> QED
    BY <2>3, <2>4, <1>0, SamePlacesAll
<1>9. CASE step = 5
  <2>1. db'.outs = db.outs /\ db'.ins = db.ins /\ db'.tx = db.tx
    BY <1>1, <1>2, <1>9 DEF Cleaned
  <2> QED
    BY <1>4, <2>1, <1>0, SamePlacesAll
<1> QED
  BY <1>1, <1>5, <1>6, <1>7, <1>8, <1>9

\* onReorg(): those of what stays in the table.
LEMMA UndoPlaces ==
  ASSUME LedgerInv, Undo
  PROVE  /\ OutsStay /\ SameIds
         /\ \A s \in db'.tx : SamePlaces(s.id)
<1> USE DEF LedgerInv, WorkInv, TableInv
<1>0. OutsFixed => OutsStay
  BY DEF OutsFixed, OutsStay
<1>1. /\ phase = "undo" /\ step \in 1 .. 10 /\ db' = Undone(step, db, H) /\ storedTip \in Block
  BY UndoProcess
<1>2. DOMAIN db = {"tx", "outs", "ins", "balances", "witness", "receipts", "logs", "spends",
                   "refunds", "addresses", "next"}
  BY DEF ShapeInv
<1>3. H \in Nat /\ Unconfirmed \in Nat /\ Unconfirmed > H
  BY <1>1, Heights
<1>4. db'.tx = db.tx => SameIds
  BY DEF SameIds, KeyInv
<1>5. \A o, i : OutFrom(o, o) /\ InFrom(i, i)
  BY DEF OutFrom, InFrom, SameInput
<1>6. CASE step = 1
  <2> DEFINE ins == {i \in db.ins : i.id \in Ids(Stakes)}
  <2>1. db'.ins = db.ins /\ db'.outs = Freed(db.outs, ins) /\ db'.tx = db.tx
    BY <1>1, <1>2, <1>6 DEF Undone, Stakes, Above
  <2> HIDE DEF ins
  <2> QED
    BY <1>0, <1>4, <2>1, FreedPlaces
<1>7. CASE step = 3
  <2> DEFINE gone == Stakes \cup Coinbases
             outs == {o \in db.outs : o.id \notin Ids(gone)}
             ins == {i \in db.ins : i.id \notin Ids(gone)}
             txs == db.tx \ gone
             wit == db.witness \ {r.tx : r \in gone}
             bal == {b \in db.balances : b.id \notin Ids(gone)}
  <2>1. db' = [db EXCEPT !.tx = txs, !.witness = wit, !.outs = outs, !.ins = ins, !.balances = bal]
    BY <1>1, <1>7 DEF Undone, Stakes, Coinbases, Above
  <2>2. txs \subseteq db.tx /\ outs \subseteq db.outs /\ ins \subseteq db.ins
    OBVIOUS
  <2>3. ASSUME NEW s \in txs
        PROVE  /\ \A o \in db.outs : o.id = s.id => o \in outs
               /\ \A i \in db.ins : i.id = s.id => i \in ins
    <3>1. s \in db.tx /\ gone \subseteq db.tx
      BY DEF Stakes, Coinbases, Above
    <3>2. s \notin gone
      OBVIOUS
    <3> HIDE DEF gone
    <3>3. s.id \notin Ids(gone)
      BY <3>1, <3>2 DEF Ids, KeyInv
    <3> QED
      BY <3>3
  <2> HIDE DEF txs, outs, ins, wit, bal
  <2>4. db'.tx = txs /\ db'.outs = outs /\ db'.ins = ins
    BY <1>2, <2>1
  <2>5. SameIds
    BY <2>2, <2>4 DEF SameIds, KeyInv
  <2>6. OutsStay
    BY <1>5, <2>2, <2>4 DEF OutsStay
  <2>7. \A s \in db'.tx : SamePlaces(s.id)
    BY <1>5, <2>2, <2>3, <2>4 DEF SamePlaces
  <2> QED
    BY <2>5, <2>6, <2>7
<1>8. CASE step = 4
  <2> DEFINE new(r) == IF r \in Above THEN [r EXCEPT !.height = Unconfirmed, !.index = Unconfirmed] ELSE r
             rows == Update(db.tx, LAMBDA r : r \in Above,
                            LAMBDA r : [r EXCEPT !.height = Unconfirmed, !.index = Unconfirmed])
  <2>1. rows = {new(r) : r \in db.tx}
    BY Zenon DEF Update
  <2>2. db' = [db EXCEPT !.tx = rows]
    BY <1>1, <1>8 DEF Undone, Above
  <2>3. \A r \in db.tx : new(r).id = r.id /\ new(r).tx = r.tx
    BY DEF ShapeInv
  <2> HIDE DEF rows, new
  <2>4. db'.outs = db.outs /\ db'.ins = db.ins /\ db'.tx = {new(r) : r \in db.tx}
    BY <1>2, <2>1, <2>2
  <2>5. \A s \in db'.tx : \E r \in db.tx : s.id = r.id /\ s.tx = r.tx
    BY <2>3, <2>4
  <2>6. SameIds
    BY <2>5 DEF SameIds, KeyInv
  <2> QED
    BY <2>4, <2>6, <1>0, SamePlacesAll
<1>9. CASE step = 5
  <2> DEFINE new(o) == IF o.height > H THEN [o EXCEPT !.height = Unconfirmed] ELSE o
             outs == RaisedAbove(db.outs, H)
  <2>1. outs = {new(o) : o \in db.outs}
    BY Zenon DEF RaisedAbove, Update
  <2>2. db' = [db EXCEPT !.outs = outs]
    BY <1>1, <1>9 DEF Undone
  <2>3. \A o \in db.outs : OutFrom(new(o), o) /\ (new(o).height = o.height \/ new(o).height > H)
    BY <1>3 DEF ShapeInv, OutFrom
  <2> HIDE DEF outs, new
  <2>4. db'.outs = {new(o) : o \in db.outs} /\ db'.ins = db.ins /\ db'.tx = db.tx
    BY <1>2, <2>1, <2>2
  <2>5. OutsStay
    BY <2>3, <2>4 DEF OutsStay
  <2>6. /\ \A p \in db'.outs : \E o \in db.outs : OutFrom(p, o)
        /\ \A o \in db.outs : \E p \in db'.outs : OutFrom(p, o)
    BY <2>3, <2>4
  <2>7. \A x : SamePlaces(x)
    BY <1>5, <2>4, <2>6 DEF SamePlaces
  <2> QED
    BY <1>4, <2>4, <2>5, <2>7
<1>10. CASE step = 8
  <2> DEFINE linked == {i \in db.ins : i.height > H /\ \E o \in db.outs : Spends(i, o)}
             new(o) == IF \E i \in linked : Spends(i, o) THEN [o EXCEPT !.byHeight = Unconfirmed] ELSE o
             put(i) == IF i \in linked THEN [i EXCEPT !.height = Unconfirmed] ELSE i
             outs == Update(db.outs, LAMBDA o : \E i \in linked : Spends(i, o),
                            LAMBDA o : [o EXCEPT !.byHeight = Unconfirmed])
             ins == Update(db.ins, LAMBDA i : i \in linked,
                           LAMBDA i : [i EXCEPT !.height = Unconfirmed])
  <2>1. outs = {new(o) : o \in db.outs}
    BY Zenon DEF Update
  <2>2. ins = {put(i) : i \in db.ins}
    BY Zenon DEF Update
  <2>3. db' = [db EXCEPT !.outs = outs, !.ins = ins]
    BY <1>1, <1>10 DEF Undone
  <2>4. \A o \in db.outs : OutFrom(new(o), o) /\ new(o).height = o.height
    BY DEF ShapeInv, OutFrom
  <2>5. \A i \in db.ins : InFrom(put(i), i)
    BY DEF ShapeInv, InFrom, SameInput
  <2> HIDE DEF outs, ins, new, put
  <2>6. db'.outs = {new(o) : o \in db.outs} /\ db'.ins = {put(i) : i \in db.ins} /\ db'.tx = db.tx
    BY <1>2, <2>1, <2>2, <2>3
  <2>7. OutsStay
    BY <2>4, <2>6 DEF OutsStay
  <2>8. /\ \A p \in db'.outs : \E o \in db.outs : OutFrom(p, o)
        /\ \A o \in db.outs : \E p \in db'.outs : OutFrom(p, o)
    BY <2>4, <2>6
  <2>9. /\ \A j \in db'.ins : \E i \in db.ins : InFrom(j, i)
        /\ \A i \in db.ins : \E j \in db'.ins : InFrom(j, i)
    BY <2>5, <2>6
  <2>10. \A x : SamePlaces(x)
    BY <2>8, <2>9 DEF SamePlaces
  <2> QED
    BY <1>4, <2>6, <2>7, <2>10
<1>11. CASE step \notin {1, 3, 4, 5, 8}
  <2>1. db'.tx = db.tx /\ db'.outs = db.outs /\ db'.ins = db.ins
    BY <1>1, <1>11, UndoOther
  <2> QED
    BY <1>4, <2>1, <1>0, SamePlacesAll
<1> QED
  BY <1>6, <1>7, <1>8, <1>9, <1>10, <1>11

\* The block's rows of the mempool.
LEMMA AdoptPlaces ==
  ASSUME LedgerInv, Adopt
  PROVE  /\ OutsStay /\ SameIds /\ db'.addresses = db.addresses /\ db'.balances = db.balances
         /\ \A x : SamePlaces(x)
<1> USE DEF LedgerInv, WorkInv, TableInv
<1> DEFINE j == job["block"]
           h == Depth[block]
           outs == Update(db.outs, LAMBDA o : o.id \in j.found, LAMBDA o : [o EXCEPT !.height = h])
           ins == Update(db.ins, LAMBDA i : i.id \in j.found, LAMBDA i : [i EXCEPT !.height = h])
           d == [db EXCEPT !.outs = outs, !.ins = ins]
           move(o) == IF o.id \in j.found THEN [o EXCEPT !.height = h] ELSE o
<1>0. "block" \in Handler /\ "adopt" # "none"
  BY DEF Handler
<1>1. Statement("block", "adopt", "spend", Adopted(db, j.found, h))
  BY DEF Adopt
<1>2. Adopted(db, j.found, h) = d
  BY Zenon DEF Adopted
<1>3. outs = {move(o) : o \in db.outs} /\ ins = {move(i) : i \in db.ins}
  BY Zenon DEF Update
<1>4. \A o \in db.outs : OutFrom(move(o), o) /\ (move(o).height = o.height \/ move(o).height = h)
  BY DEF ShapeInv, OutFrom
<1>5. \A i \in db.ins : InFrom(move(i), i)
  BY DEF ShapeInv, InFrom, SameInput
<1> HIDE DEF outs, ins, move
<1>6. Handles("block") /\ j.pc = "adopt" /\ db' = Adopted(db, j.found, h)
  BY <1>0, <1>1, StatementHandles
<1>7. h = H + 1 /\ H \in Nat
  <2>1. phase \in {"run", "undo"} /\ j.pc # "none"
    BY <1>6 DEF Handles
  <2> QED
    BY <2>1, BlockFacts
<1>8. /\ db'.outs = outs /\ db'.ins = ins /\ db'.tx = db.tx
      /\ db'.addresses = db.addresses /\ db'.balances = db.balances
  BY <1>2, <1>6 DEF ShapeInv
<1> HIDE DEF d, h, j
<1>9. OutsStay
  BY <1>3, <1>4, <1>7, <1>8 DEF OutsStay
<1>10. /\ \A p \in db'.outs : \E o \in db.outs : OutFrom(p, o)
       /\ \A o \in db.outs : \E p \in db'.outs : OutFrom(p, o)
       /\ \A l \in db'.ins : \E i \in db.ins : InFrom(l, i)
       /\ \A i \in db.ins : \E l \in db'.ins : InFrom(l, i)
  BY <1>3, <1>4, <1>5, <1>8
<1>11. \A x : SamePlaces(x)
  BY <1>10 DEF SamePlaces
<1>12. SameIds
  BY <1>8 DEF SameIds, KeyInv
<1> QED
  BY <1>8, <1>9, <1>11, <1>12

\* What they spend.
LEMMA SpendPlaces ==
  ASSUME LedgerInv, Spend
  PROVE  /\ OutsFixed /\ SameIds /\ db'.addresses = db.addresses /\ db'.balances = db.balances
         /\ \A x : SamePlaces(x)
<1> USE DEF LedgerInv, WorkInv, TableInv
<1> DEFINE j == job["block"]
           h == Depth[block]
           Where(o) == \E i \in db.ins : i.id \in j.found /\ Spends(i, o)
           outs == Update(db.outs, LAMBDA o : \E i \in db.ins : i.id \in j.found /\ Spends(i, o),
                          LAMBDA o : [o EXCEPT !.byHeight = h])
           d == [db EXCEPT !.outs = outs]
           put(o) == IF Where(o) THEN [o EXCEPT !.byHeight = h] ELSE o
<1>0. "block" \in Handler /\ "spend" # "none"
  BY DEF Handler
<1>1. Statement("block", "spend", "lower", Spent(db, j.found, h))
  BY DEF Spend
<1>2. Spent(db, j.found, h) = d
  BY Zenon DEF Spent
<1>3. outs = {put(o) : o \in db.outs}
  BY Zenon DEF Update
<1>4. \A o \in db.outs : OutFrom(put(o), o) /\ put(o).height = o.height
  BY DEF ShapeInv, OutFrom
<1> HIDE DEF outs, put, Where
<1>5. db' = Spent(db, j.found, h)
  BY <1>0, <1>1, StatementHandles
<1>6. /\ db'.outs = outs /\ db'.ins = db.ins /\ db'.tx = db.tx
      /\ db'.addresses = db.addresses /\ db'.balances = db.balances
  BY <1>2, <1>5 DEF ShapeInv
<1> HIDE DEF d, h, j
<1>7. OutsFixed
  BY <1>3, <1>4, <1>6 DEF OutsFixed
<1>8. /\ \A p \in db'.outs : \E o \in db.outs : OutFrom(p, o)
      /\ \A o \in db.outs : \E p \in db'.outs : OutFrom(p, o)
  BY <1>3, <1>4, <1>6
<1>9. \A i : InFrom(i, i)
  BY DEF InFrom, SameInput
<1>10. \A x : SamePlaces(x)
  BY <1>6, <1>8, <1>9 DEF SamePlaces
<1>11. SameIds
  BY <1>6 DEF SameIds, KeyInv
<1> QED
  BY <1>6, <1>7, <1>10, <1>11

\* removeReplacedTransactions: those of the transactions that stay.
LEMMA ReplacedPlaces ==
  ASSUME LedgerInv, NEW t, db' = Replaced(db, t)
  PROVE  /\ OutsFixed /\ SameIds /\ db'.addresses = db.addresses /\ db'.tx \subseteq db.tx
         /\ \A s \in db'.tx : SamePlaces(s.id)
         /\ \A b : b \in db'.balances => b \in db.balances /\ ((\E r \in db.tx : r.id = b.id) => \E s \in db'.tx : s.id = b.id)
         /\ \A b \in db.balances : (\E s \in db'.tx : s.id = b.id) => b \in db'.balances
<1> USE DEF LedgerInv, WorkInv, TableInv
<1> DEFINE roots == {o.by : o \in Sources(db, t)} \ {0}
<1>1. db' = db \/ db' = Removed(db, roots)
  BY DEF Replaced
<1> HIDE DEF roots
<1>2. CASE db' = db
  <2>1. SameIds
    BY <1>2 DEF SameIds, KeyInv
  <2> QED
    BY <1>2, <2>1, SamePlacesAll
<1>3. CASE db' = Removed(db, roots)
  <2> DEFINE D == Descendants(db, roots)
             gone == {i \in db.ins : i.id \in D}
             dead == {r \in db.tx : r.id \in D}
             freed(o) == \E i \in gone : Spends(i, o)
             left == {o \in db.outs : o.id \notin D}
             new(o) == IF freed(o) THEN [o EXCEPT !.by = 0, !.byAt = 0] ELSE o
  <2> HIDE DEF D
  <2>1. /\ db'.outs = {new(o) : o \in left} /\ db'.ins = db.ins \ gone
        /\ db'.tx = db.tx \ dead
        /\ db'.balances = {b \in db.balances : b.id \notin D}
        /\ db'.addresses = db.addresses
    BY <1>3 DEF Removed, Update, ShapeInv, D
  <2>2. \A o \in left : o \in db.outs /\ OutFrom(new(o), o) /\ new(o).height = o.height
    BY DEF ShapeInv, OutFrom
  <2>3. \A s \in db'.tx : s \in db.tx /\ s.id \notin D
    BY <2>1
  <2>4. \A r \in db.tx : r.id \notin D => r \in db'.tx
    BY <2>1
  <2>5. /\ \A o \in db.outs : o.id \notin D => o \in left
        /\ \A i \in db'.ins : i \in db.ins
        /\ \A i \in db.ins : i.id \notin D => i \in db'.ins
    BY <2>1
  <2> HIDE DEF gone, dead, freed, left, new
  <2>6. OutsFixed
    BY <2>1, <2>2 DEF OutsFixed
  <2>7. \A i : InFrom(i, i)
    BY DEF InFrom, SameInput
  <2>8. \A p \in db'.outs : \E o \in db.outs : OutFrom(p, o)
    BY <2>1, <2>2
  <2>9. \A o \in db.outs : o.id \notin D => \E p \in db'.outs : OutFrom(p, o)
    BY <2>1, <2>2, <2>5
  <2>10. ASSUME NEW s \in db'.tx PROVE SamePlaces(s.id)
    BY <2>3, <2>5, <2>7, <2>8, <2>9 DEF SamePlaces
  <2>11. SameIds
    BY <2>3 DEF SameIds, KeyInv
  <2>12. db'.tx \subseteq db.tx
    BY <2>3
  <2>13. \A b : b \in db'.balances => b \in db.balances /\ ((\E r \in db.tx : r.id = b.id) => \E s \in db'.tx : s.id = b.id)
    BY <2>1, <2>4
  <2>14. \A b \in db.balances : (\E s \in db'.tx : s.id = b.id) => b \in db'.balances
    BY <2>1, <2>3
  <2> QED
    BY <2>1, <2>6, <2>10, <2>11, <2>12, <2>13, <2>14
<1> QED
  BY <1>1, <1>2, <1>3

\* New rows have none yet.
LEMMA CreatePlaces ==
  ASSUME LedgerInv, NEW w \in Handler, CreateTransactions(w), ~Stop("duplicate")
  PROVE  /\ OutsFixed /\ SameIds /\ \A x : SamePlaces(x)
         /\ db'.addresses = db.addresses /\ db'.balances = db.balances
         /\ \A s \in db'.tx :
              \/ s \in db.tx
              \/ (\E r \in db.tx : r.id = s.id /\ r.tx = s.tx) /\ s.tx \in BlockTx /\ w = "block"
              \/ s.id > db.next /\ s.tx \in ToSet(job[w].txs)
         /\ \A r \in db.tx : \E s \in db'.tx : s.id = r.id /\ s.tx = r.tx
                                /\ (s = r \/ (w = "block" /\ r.tx \in BlockTx))
         /\ \A r \in db.tx : r.tx \notin ToSet(job[w].txs)
<1> USE DEF LedgerInv, WorkInv, TableInv
<1> DEFINE ts == IF w = "block" THEN Contents[block] ELSE job[w].txs
           h == Height(w)
           ids == IF w = "mempool" THEN <<db.next + 1>> ELSE <<>>
           refused == Named(db, ToSet(ts)) # {} /\ ~(w = "block" /\ synced)
<1>1. ~refused
  BY DEF CreateTransactions, Refused
<1>2. /\ phase \in {"run", "undo"} /\ job[w].pc = "replace" /\ job[w].todo = <<>>
      /\ db' = Created(db, ts, h)
  BY <1>1 DEF CreateTransactions, Writing
<1>3. /\ db'.addresses = db.addresses /\ db'.balances = db.balances
      /\ db'.outs = db.outs /\ db'.ins = db.ins
  <2> HIDE DEF ts, h
  <2> DEFINE new == Picked(ts, {n \in DOMAIN ts : Named(db, {ts[n]}) = {}})
             txs == Update(db.tx, LAMBDA r : r.tx \in ToSet(ts),
                       LAMBDA r : [r EXCEPT !.height = h, !.index = IndexOf(r.tx, h)])
                \cup {[id |-> db.next + n, tx |-> new[n], height |-> h,
                       index |-> IndexOf(new[n], h)] : n \in DOMAIN new}
             next == db.next + Len(new)
  <2>1. db' = [db EXCEPT !.tx = txs, !.next = next]
    BY <1>2, Zenon DEF Created
  <2> HIDE DEF txs, next
  <2> QED
    BY <2>1 DEF ShapeInv
<1>4. OutsFixed /\ \A x : SamePlaces(x)
  BY <1>3, SamePlacesAll
<1>5. db.next \in Nat /\ \A r \in db.tx : r.id \in 1 .. db.next
  BY DEF ShapeInv
<1>6. CASE w = "mempool"
  <2>1. running # NoTx
    BY <1>2, <1>6 DEF ProcessInv
  <2>2. job["mempool"].txs = <<running>> /\ running \in Tx
    BY <2>1, QueuedType DEF MempoolInv
  <2>3. ToSet(<<running>>) = {running}
    BY DEF ToSet
  <2>4. ts = <<running>> /\ h = Unconfirmed
    BY <1>6, <2>2 DEF Height
  <2>5. Named(db, {running}) = {}
    BY <1>1, <1>6, <2>3, <2>4
  <2>6. db' = Created(db, <<running>>, Unconfirmed)
    BY <1>2, <2>4
  <2>7. /\ db'.tx = db.tx \cup {[id |-> db.next + 1, tx |-> running, height |-> Unconfirmed, index |-> Unconfirmed]}
        /\ \A r \in db.tx : r.tx # running
    BY <2>2, <2>5, <2>6, MempoolCreated
  <2>8. \A s \in db'.tx : s \in db.tx \/ (s.id > db.next /\ s.tx \in ToSet(job[w].txs))
    BY <1>5, <1>6, <2>2, <2>3, <2>7
  <2>9. \A r \in db.tx : r \in db'.tx
    BY <2>7
  <2>10. \A r \in db.tx : r.tx \notin ToSet(job[w].txs)
    BY <1>6, <2>2, <2>3, <2>7
  <2>11. SameIds
    BY <1>5, <2>8 DEF SameIds, KeyInv
  <2> QED
    BY <1>3, <1>4, <2>8, <2>9, <2>10, <2>11
<1>7. CASE w = "block"
  <2>1. job["block"].pc = "replace" /\ db' = Created(db, Contents[block], Depth[block])
    BY <1>2, <1>7 DEF Height
  <2>2. synced \/ Named(db, BlockTx) = {}
    BY <1>1, <1>7 DEF BlockTx
  <2>3. phase = "run" /\ block # NoBlock
    <3>1. job["block"].pc # "none"
      BY <2>1
    <3> QED
      BY <1>2, <3>1, BlockFacts
  <2>4. /\ \A s \in db'.tx :
             \/ s \in db.tx
             \/ s.tx \in BlockTx /\ \E r \in db.tx : s.id = r.id /\ s.tx = r.tx
             \/ s.id > db.next /\ s.tx \in ToSet(job["block"].txs)
        /\ \A r \in db.tx : \E s \in db'.tx :
             s.id = r.id /\ s.tx = r.tx /\ (r.tx \notin BlockTx => s = r)
    BY <2>1, <2>2, <2>3, CreatedRows
  <2>5. \A r \in db.tx : r.tx \notin ToSet(job["block"].txs)
    BY <2>1, <2>2, <2>3, NewOnes DEF ToSet
  <2>6. SameIds
    BY <1>5, <2>4 DEF SameIds, KeyInv
  <2> QED
    BY <1>3, <1>4, <1>7, <2>4, <2>5, <2>6
<1> QED
  BY <1>6, <1>7 DEF Handler

\* New outputs and inputs are of the transactions of the handler.
LEMMA InsertPlaces ==
  ASSUME LedgerInv, NEW j, NEW h, IdsRight(j), db' = Inserted(db, j, h)
  PROVE  /\ SameIds /\ db'.tx = db.tx /\ db'.addresses = db.addresses /\ db'.balances = db.balances
         /\ \A r \in db.tx : r.tx \notin ToSet(j.txs) => SamePlaces(r.id)
<1> USE DEF LedgerInv, WorkInv, TableInv
<1>1. /\ db'.tx = db.tx /\ db.outs \subseteq db'.outs /\ db.ins \subseteq db'.ins
      /\ \A p \in db'.outs : p \in db.outs \/ \E n \in DOMAIN j.txs : p.id = j.ids[n]
      /\ \A i \in db'.ins : i \in db.ins \/ \E n \in DOMAIN j.txs : i.id = j.ids[n]
  <2>1. /\ db'.tx = db.tx /\ db.outs \subseteq db'.outs /\ db.ins \subseteq db'.ins
        /\ \A p \in db'.outs : p \in db.outs \/ \E n \in DOMAIN j.txs : \E m \in DOMAIN Pays[j.txs[n]] :
             p = [id |-> j.ids[n], at |-> m, height |-> h,
                  address |-> (CHOOSE r \in db.addresses : r.address = Pays[j.txs[n]][m]).id,
                  by |-> 0, byAt |-> 0, byHeight |-> Null]
        /\ \A i \in db'.ins : i \in db.ins \/ \E n \in DOMAIN j.txs : \E m \in DOMAIN Inputs[j.txs[n]] :
             i = [id |-> j.ids[n], at |-> m, height |-> h, address |-> 0, from |-> 0, fromAt |-> 0]
    BY InsertedRows
  <2> QED
    BY <2>1
<1>2. \A n \in DOMAIN j.txs : \E r \in db.tx : r.id = j.ids[n] /\ r.tx \in ToSet(j.txs)
  BY DEF IdsRight, ToSet
<1>3. ASSUME NEW r \in db.tx, r.tx \notin ToSet(j.txs) PROVE SamePlaces(r.id)
  <2>1. \A n \in DOMAIN j.txs : j.ids[n] # r.id
    BY <1>2, <1>3 DEF KeyInv
  <2> QED
    BY <1>1, <2>1 DEF SamePlaces, OutFrom, InFrom, SameInput
<1>4. db'.addresses = db.addresses /\ db'.balances = db.balances
  <2>1. \A x, y : /\ [db EXCEPT !.outs = x, !.ins = y].addresses = db.addresses
                  /\ [db EXCEPT !.outs = x, !.ins = y].balances = db.balances
    BY DEF ShapeInv
  <2> QED
    BY <2>1, Zenon DEF Inserted
<1>5. SameIds
  BY <1>1 DEF SameIds, KeyInv
<1> QED
  BY <1>1, <1>3, <1>4, <1>5

\* Only inputs of the transactions of the handler are linked.
LEMMA LinkPlaces ==
  ASSUME LedgerInv, NEW ts, db' = Linked(db, ts)
  PROVE  /\ OutsFixed /\ SameIds /\ db'.tx = db.tx
         /\ db'.addresses = db.addresses /\ db'.balances = db.balances
         /\ \A r \in db.tx : r.tx \notin ToSet(ts) => SamePlaces(r.id)
<1> USE DEF LedgerInv, WorkInv, TableInv
<1> DEFINE J(i, o) == Joined(db, ts, i, o)
<1>1. /\ \A i \in db.ins : \A o \in db.outs : J(i, o) => OutputBy(o, i) \in db'.outs
      /\ \A i \in db.ins : (\A o \in db.outs : ~J(i, o)) => i \in db'.ins
      /\ \A o \in db.outs : (\A i \in db.ins : ~J(i, o)) => o \in db'.outs
      /\ \A l \in db'.ins : \E i \in db.ins :
              IF \E o \in db.outs : J(i, o) THEN \E o \in db.outs : J(i, o) /\ l = InputOf(i, o)
              ELSE l = i
      /\ \A p \in db'.outs : \E o \in db.outs :
              IF \E i \in db.ins : J(i, o) THEN \E i \in db.ins : J(i, o) /\ p = OutputBy(o, i)
              ELSE p = o
  <2>1. \A i \in db.ins : \A o \in db.outs : J(i, o) => OutputBy(o, i) \in db'.outs
    BY LinkedRows DEF J
  <2>2. \A i \in db.ins : (\A o \in db.outs : ~J(i, o)) => i \in db'.ins
    BY LinkedRows DEF J
  <2>3. \A o \in db.outs : (\A i \in db.ins : ~J(i, o)) => o \in db'.outs
    BY LinkedRows DEF J
  <2>4. \A l \in db'.ins : \E i \in db.ins :
              IF \E o \in db.outs : J(i, o) THEN \E o \in db.outs : J(i, o) /\ l = InputOf(i, o)
              ELSE l = i
    BY LinkedRows DEF J
  <2>5. \A p \in db'.outs : \E o \in db.outs :
              IF \E i \in db.ins : J(i, o) THEN \E i \in db.ins : J(i, o) /\ p = OutputBy(o, i)
              ELSE p = o
    BY LinkedRows DEF J
  <2> HIDE DEF J
  <2> QED
    BY <2>1, <2>2, <2>3, <2>4, <2>5
<1>2. \A i \in db.ins, o \in db.outs : J(i, o) => \E r \in db.tx : r.tx \in ToSet(ts) /\ r.id = i.id
  <2> SUFFICES ASSUME NEW i \in db.ins, NEW o \in db.outs, J(i, o)
               PROVE  \E r \in db.tx : r.tx \in ToSet(ts) /\ r.id = i.id
    OBVIOUS
  <2>1. Joined(db, ts, i, o)
    BY DEF J
  <2> HIDE DEF J
  <2>2. \E t \in ToSet(ts) : i.id \in Ids(Named(db, {t}))
    BY <2>1 DEF Joined
  <2> QED
    BY <2>2 DEF Ids, Named
<1>3. \A i \in db.ins : \A o : InputOf(i, o).id = i.id
  BY DEF InputOf, ShapeInv
<1>4. \A o \in db.outs : \A i : OutFrom(OutputBy(o, i), o) /\ OutputBy(o, i).height = o.height
  BY DEF OutputBy, ShapeInv, OutFrom
<1> HIDE DEF J
<1>5. \A o, i : OutFrom(o, o) /\ InFrom(i, i)
  BY DEF OutFrom, InFrom, SameInput
<1>6. \A p \in db'.outs : \E o \in db.outs : OutFrom(p, o) /\ p.height = o.height
  BY <1>1, <1>4, <1>5
<1>7. \A o \in db.outs : \E p \in db'.outs : OutFrom(p, o)
  BY <1>1, <1>4, <1>5
<1>8. ASSUME NEW r \in db.tx, r.tx \notin ToSet(ts) PROVE SamePlaces(r.id)
  <2>1. \A i \in db.ins, o \in db.outs : i.id = r.id => ~J(i, o)
    BY <1>2, <1>8 DEF KeyInv
  <2>2. ASSUME NEW l \in db'.ins, l.id = r.id PROVE \E i \in db.ins : InFrom(l, i)
    <3>1. PICK i \in db.ins :
              IF \E o \in db.outs : J(i, o) THEN \E o \in db.outs : J(i, o) /\ l = InputOf(i, o)
              ELSE l = i
      BY <1>1
    <3>2. i.id = l.id
      BY <1>3, <3>1
    <3>3. l = i
      BY <2>1, <2>2, <3>1, <3>2
    <3> QED
      BY <1>5, <3>3
  <2>3. \A i \in db.ins : i.id = r.id => \E l \in db'.ins : InFrom(l, i)
    BY <1>1, <1>5, <2>1
  <2> QED
    BY <1>6, <1>7, <2>2, <2>3 DEF SamePlaces
<1>9. db'.tx = db.tx /\ db'.addresses = db.addresses /\ db'.balances = db.balances
  <2>1. \A x, y : /\ [db EXCEPT !.ins = x, !.outs = y].addresses = db.addresses
                  /\ [db EXCEPT !.ins = x, !.outs = y].balances = db.balances
                  /\ [db EXCEPT !.ins = x, !.outs = y].tx = db.tx
    BY DEF ShapeInv
  <2> QED
    BY <2>1, Zenon DEF Linked
<1>10. SameIds
  BY <1>9 DEF SameIds, KeyInv
<1> QED
  BY <1>6, <1>8, <1>9, <1>10 DEF OutsFixed

-----------------------------------------------------------------------------
(* The addresses stay.                                                     *)

\* Before a block lowers the addresses of the mempool.
Early == {"find", "adopt", "spend", "lower"}

\* Address row b stands for a.
StandsFor(b, a) == b.id = a.id /\ b.address = a.address

\* An output that was there keeps its address as long as the row stays, at no greater
\* a height, or at one above what the outputs need.
LEMMA KeptStill ==
  ASSUME LedgerInv, LedgerInv', KeptInv, AddressShape', SameIds,
         overlooked \subseteq overlooked',
         phase' \in {"run", "undo"} => phase \in {"run", "undo"},
         \A a \in db.addresses :
           \/ \E b \in db'.addresses : StandsFor(b, a) /\ b.create <= a.create
           \/ /\ a.create > H' /\ \A p \in db'.outs : Lasting(p)' => Committed(p)'
              /\ phase' \in {"run", "undo"} => \E b \in db'.addresses : StandsFor(b, a),
         \A p \in db'.outs :
           \/ \E o \in db.outs : OutFrom(p, o) /\ (Lasting(p)' => Lasting(o) /\ p.height = o.height)
           \/ \A s \in db'.tx : s.id = p.id => Findable(p, s)'
  PROVE  KeptInv'
<1> SUFFICES ASSUME NEW p \in db'.outs, NEW s \in db'.tx, s.id = p.id, ~Findable(p, s)'
             PROVE  FALSE
  BY DEF KeptInv
<1>1. PICK o \in db.outs : OutFrom(p, o) /\ (Lasting(p)' => Lasting(o) /\ p.height = o.height)
  OBVIOUS
<1>2. PICK r \in db.tx : r.id = o.id
  BY DEF LedgerInv, TableInv, OwnInv, With
<1>3. s.tx = r.tx
  BY <1>1, <1>2 DEF SameIds, OutFrom
<1>4. Findable(o, r)
  BY <1>2 DEF KeptInv
<1>5. p.height \in Nat /\ H' \in Nat /\ Unconfirmed \in Nat
  <2>1. ShapeInv' /\ (storedTip \in Block)'
    BY DEF LedgerInv, TableInv, WorkInv, ProcessInv
  <2>2. p.height \in 0 .. Unconfirmed
    BY <2>1 DEF ShapeInv
  <2>3. H' \in Nat
    BY <2>1, ContentsType DEF H
  <2> QED
    BY <2>2, <2>3, LedgerAssumption
<1>6. /\ \A a \in db.addresses : a.create \in Nat
      /\ \A b \in db'.addresses : b.create \in Nat /\ b.create <= Unconfirmed
  BY <1>5 DEF KeptInv, AddressShape
<1>7. ASSUME p.address \notin overlooked', Lasting(p)' PROVE Known(p, s, p.height)'
  <2>1. Known(o, r, o.height)
    BY <1>1, <1>4, <1>7 DEF Findable, OutFrom
  <2>2. PICK a \in db.addresses : a.id = o.address /\ a.address = Pays[r.tx][o.at] /\ a.create <= o.height
    BY <2>1 DEF Known
  <2>3. PICK b \in db'.addresses : StandsFor(b, a) /\ b.create <= a.create
    <3>1. ~(a.create > H' /\ Committed(p)')
      BY <1>1, <1>5, <1>6, <1>7, <2>2 DEF Committed
    <3> QED
      BY <1>7, <3>1
  <2> QED
    BY <1>1, <1>3, <1>5, <1>6, <1>7, <2>2, <2>3 DEF Known, StandsFor, OutFrom
<1>8. ASSUME p.address \notin overlooked', phase' \in {"run", "undo"} PROVE Known(p, s, Unconfirmed)'
  <2>1. Known(o, r, Unconfirmed)
    BY <1>1, <1>4, <1>8 DEF Findable, OutFrom
  <2>2. PICK a \in db.addresses : a.id = o.address /\ a.address = Pays[r.tx][o.at]
    BY <2>1 DEF Known
  <2>3. PICK b \in db'.addresses : StandsFor(b, a)
    BY <1>8
  <2> QED
    BY <1>1, <1>3, <1>6, <2>2, <2>3 DEF Known, StandsFor, OutFrom
<1> QED
  BY <1>7, <1>8 DEF Findable

\* Rows that are as before.
LEMMA AddressesSame ==
  ASSUME KeptInv, db'.addresses = db.addresses
  PROVE  /\ AddressShape' /\ Names' = Names
         /\ \A a \in db.addresses : \E b \in db'.addresses : StandsFor(b, a) /\ b.create <= a.create
<1>1. \A a \in db.addresses : a.create \in Nat
  BY LedgerAssumption DEF KeptInv, AddressShape
<1> QED
  BY <1>1 DEF KeptInv, AddressShape, Names, StandsFor

\* A step of a handler.
LEMMA KeptHandle ==
  ASSUME LedgerInv, LedgerInv', KeptInv, SameIds, AddressShape',
         UNCHANGED <<storedTip, phase, block>>, phase \in {"run", "undo"},
         overlooked \subseteq overlooked',
         \A a \in db.addresses : \E b \in db'.addresses : StandsFor(b, a) /\ b.create <= a.create,
         \/ OutsFixed /\ (job["block"].pc \in Early => job'["block"].pc \in Early)
         \/ OutsStay /\ job'["block"].pc \in Early
  PROVE  KeptInv'
<1>1. ASSUME NEW p \in db'.outs
      PROVE  \E o \in db.outs : OutFrom(p, o) /\ (Lasting(p)' => Lasting(o) /\ p.height = o.height)
  <2>1. CASE OutsFixed /\ (job["block"].pc \in Early => job'["block"].pc \in Early)
    <3>1. PICK o \in db.outs : OutFrom(p, o) /\ p.height = o.height
      BY <2>1 DEF OutsFixed
    <3>2. Lasting(p)' => Lasting(o)
      BY <2>1, <3>1 DEF Lasting, Committed, Early, H
    <3> QED
      BY <3>1, <3>2
  <2>2. CASE OutsStay /\ job'["block"].pc \in Early
    <3>1. PICK o \in db.outs : OutFrom(p, o) /\ (p.height = o.height \/ p.height > H)
      BY <2>2 DEF OutsStay
    <3>2. Lasting(p)' => p.height <= H
      BY <2>2 DEF Lasting, Committed, Early, H
    <3>3. p.height \in Nat /\ H \in Nat
      <4>1. ShapeInv' /\ ShapeInv /\ storedTip \in Block
        BY DEF LedgerInv, TableInv, WorkInv, ProcessInv
      <4>2. p.height \in 0 .. Unconfirmed
        BY <4>1 DEF ShapeInv
      <4> QED
        BY <4>1, <4>2, Heights
    <3>4. Lasting(p)' => p.height = o.height
      BY <3>1, <3>2, <3>3
    <3> QED
      BY <3>1, <3>2, <3>4 DEF Lasting, Committed
  <2> QED
    BY <2>1, <2>2
<1> QED
  BY <1>1, KeptStill

\* What the handlers have found stays.
LEMMA PaidStill ==
  ASSUME PaidInv, Names \subseteq Names',
         \A w \in Handler :
           \/ job'[w].pc \in {"new", "insert"} =>
                job'[w].pc = job[w].pc /\ job'[w].known = job[w].known /\ job'[w].txs = job[w].txs
           \/ job'[w].pc = "new" /\ job'[w].known \subseteq Names'
           \/ job'[w].pc = "insert" /\ Paid(job'[w].txs) \subseteq Names'
  PROVE  PaidInv'
<1> SUFFICES ASSUME NEW w \in Handler
             PROVE  /\ job'[w].pc = "new" => job'[w].known \subseteq Names'
                    /\ job'[w].pc = "insert" => Paid(job'[w].txs) \subseteq Names'
  BY DEF PaidInv
<1>1. CASE job'[w].pc = "new"
  BY <1>1 DEF PaidInv
<1>2. CASE job'[w].pc = "insert"
  BY <1>2 DEF PaidInv
<1> QED
  BY <1>1, <1>2

\* The tables are as before, and nothing lasts that did not.
LEMMA AddressesIdle ==
  ASSUME LedgerInv, LedgerInv', AddressesInv, db' = db, overlooked' = overlooked,
         phase' \in {"run", "undo"} => phase \in {"run", "undo"},
         \A o \in db.outs : Lasting(o)' => Lasting(o),
         \A w \in Handler :
           \/ job'[w].pc \in {"new", "insert"} => job'[w] = job[w]
           \/ job'[w].pc = "new" /\ job'[w].known \subseteq Names
  PROVE  AddressesInv'
<1>1. SameIds
  BY DEF SameIds, LedgerInv, TableInv, KeyInv
<1>2. KeptInv'
  <2>1. \A o \in db.outs : OutFrom(o, o)
    BY DEF OutFrom
  <2>2. KeptInv
    BY DEF AddressesInv
  <2> QED
    BY <1>1, <2>1, <2>2, AddressesSame, KeptStill
<1>3. PaidInv'
  <2>1. Names' = Names
    BY DEF Names
  <2> QED
    BY <2>1, PaidStill DEF AddressesInv
<1> QED
  BY <1>2, <1>3 DEF AddressesInv

\* A step of a handler that leaves the addresses alone.
LEMMA AddressesHandle ==
  ASSUME LedgerInv, LedgerInv', AddressesInv, SameIds, NEW w \in Handler,
         UNCHANGED <<storedTip, phase, block>>, phase \in {"run", "undo"},
         overlooked' = overlooked, db'.addresses = db.addresses,
         \A v \in Handler : v # w => job'[v] = job[v],
         job'[w].pc \notin {"new", "insert"},
         \/ OutsFixed /\ (w = "block" /\ job[w].pc \in Early => job'[w].pc \in Early)
         \/ OutsStay /\ w = "block" /\ job'[w].pc \in Early
  PROVE  AddressesInv'
<1>1. KeptInv'
  <2>1. KeptInv
    BY DEF AddressesInv
  <2>2. \/ OutsFixed /\ (job["block"].pc \in Early => job'["block"].pc \in Early)
        \/ OutsStay /\ job'["block"].pc \in Early
    BY DEF Handler
  <2> QED
    BY <2>1, <2>2, AddressesSame, KeptHandle
<1>2. PaidInv'
  <2>1. Names' = Names
    BY DEF Names
  <2> QED
    BY <2>1, PaidStill DEF AddressesInv
<1> QED
  BY <1>1, <1>2 DEF AddressesInv

-----------------------------------------------------------------------------
(* The steps of the handlers that write nothing.                           *)

\* What such a step does to the job of handler w.
Turned(w) ==
  \/ job'[w] = job[w]
  \/ w = "block" /\ job[w].pc = "find" /\ job'[w].pc \in {"replace", "adopt"}
  \/ /\ w = "block" /\ job[w].pc = "number" /\ job'[w].pc = "addresses"
     /\ job'[w].txs = job[w].txs /\ job'[w].found = job[w].found
     /\ job'[w].ids = Numbered(db, job[w].txs)
  \/ w = "block" /\ job[w].pc = "tip" /\ job'[w].pc = "commit" /\ job'[w].found = job[w].found
  \/ /\ job[w].pc = "addresses" /\ job'[w].pc = "new"
     /\ job'[w].txs = job[w].txs /\ job'[w].found = job[w].found /\ job'[w].ids = job[w].ids
     /\ job'[w].known = Paid(job[w].txs) \cap Names
  \/ /\ w = "mempool" /\ job[w].pc \in {"none", "validate", "done"}
     /\ job'[w].pc \in {"none", "validate", "replace", "done"}

\* One handler goes on, and the tables stay.
LEMMA TurnStep ==
  ASSUME LedgerInv,
         \/ FindUnconfirmed \/ Number \/ StoreTxTip
         \/ \E w \in Handler : FindAddresses(w)
         \/ \E t \in Relayed : Deliver(t)
         \/ Validate \/ FinishTransaction
  PROVE  /\ db' = db /\ overlooked' = overlooked /\ UNCHANGED <<storedTip, process>>
         /\ phase \in {"run", "undo"}
         /\ \E w \in Handler : Turned(w) /\ \A v \in Handler : v # w => job'[v] = job[v]
<1> USE DEF LedgerInv, WorkInv, TableInv
<1>2. DOMAIN job = Handler /\ "block" \in Handler /\ "mempool" \in Handler
  BY DEF ProcessInv, Handler
<1>3. \A w \in Handler : DOMAIN job[w] = JobFields
  BY DEF ProcessInv, JobFields
<1>4. /\ db' = db /\ overlooked' = overlooked /\ UNCHANGED <<storedTip, process>>
      /\ phase \in {"run", "undo"}
  BY DEF FindUnconfirmed, Number, StoreTxTip, FindAddresses, Deliver, Validate, FinishTransaction,
         Writing, tips
<1>5. CASE FindUnconfirmed
  <2> DEFINE txs == Contents[block]
             found == Named(db, {txs[n] : n \in Generated(block) + 1 .. Len(txs)})
             new == {n \in DOMAIN txs : \A r \in found : r.tx # txs[n]}
             j == [job["block"] EXCEPT !.pc = IF found = {} THEN "replace" ELSE "adopt",
                     !.found = Ids(found), !.txs = Picked(txs, new), !.todo = Picked(txs, new \ {1})]
  <2>1. job["block"].pc = "find" /\ job' = [job EXCEPT !["block"] = j]
    BY <1>5 DEF FindUnconfirmed, Writing
  <2>2. j.pc \in {"replace", "adopt"}
    BY <1>2, <1>3 DEF JobFields
  <2> HIDE DEF j
  <2>3. job'["block"] = j /\ job'["mempool"] = job["mempool"]
    BY <1>2, <2>1
  <2> QED
    BY <1>2, <1>4, <2>1, <2>2, <2>3 DEF Turned, Handler
<1>6. CASE Number
  <2> DEFINE ids == Numbered(db, job["block"].txs)
  <2>1. /\ job["block"].pc = "number"
        /\ job' = [job EXCEPT !["block"].pc = "addresses", !["block"].ids = ids]
    BY <1>6 DEF Number, Writing
  <2> HIDE DEF ids
  <2>2. /\ job'["block"].pc = "addresses" /\ job'["block"].txs = job["block"].txs
        /\ job'["block"].found = job["block"].found /\ job'["block"].ids = ids
        /\ job'["mempool"] = job["mempool"]
    BY <1>2, <1>3, <2>1 DEF JobFields
  <2> QED
    BY <1>2, <1>4, <2>1, <2>2 DEF Turned, Handler, ids
<1>7. CASE StoreTxTip
  <2>1. job["block"].pc = "tip" /\ job' = [job EXCEPT !["block"].pc = "commit"]
    BY <1>7 DEF StoreTxTip, Writing, Goes
  <2>2. /\ job'["block"].pc = "commit" /\ job'["mempool"] = job["mempool"]
        /\ job'["block"].found = job["block"].found
    BY <1>2, <1>3, <2>1 DEF JobFields
  <2> QED
    BY <1>2, <1>4, <2>1, <2>2 DEF Turned, Handler
<1>8. CASE \E w \in Handler : FindAddresses(w)
  <2>1. PICK w \in Handler : FindAddresses(w)
    BY <1>8
  <2> DEFINE known == Paid(job[w].txs) \cap Names
  <2>2. job[w].pc = "addresses" /\ job' = [job EXCEPT ![w].pc = "new", ![w].known = known]
    BY <2>1 DEF FindAddresses, Writing, Names
  <2> HIDE DEF known
  <2>3. /\ job'[w].pc = "new" /\ job'[w].txs = job[w].txs /\ job'[w].found = job[w].found
        /\ job'[w].ids = job[w].ids /\ job'[w].known = known
        /\ \A v \in Handler : v # w => job'[v] = job[v]
    BY <1>2, <1>3, <2>2 DEF JobFields
  <2>4. Turned(w)
    BY <2>2, <2>3 DEF Turned, known
  <2> QED
    BY <1>4, <2>3, <2>4
<1>9. CASE Validate
  <2>1. PICK pc \in {"replace", "done"} : Goes("mempool", pc)
    BY <1>9 DEF Validate
  <2>2. job["mempool"].pc = "validate" /\ job' = [job EXCEPT !["mempool"].pc = pc]
    BY <1>9, <2>1 DEF Validate, Writing, Goes
  <2>3. job'["mempool"].pc = pc /\ job'["block"] = job["block"]
    BY <1>2, <1>3, <2>2 DEF JobFields
  <2> QED
    BY <1>2, <1>4, <2>2, <2>3 DEF Turned, Handler
<1>10. CASE FinishTransaction
  <2> DEFINE j == IF waiting = <<>> THEN NoJob ELSE Begin(Last(waiting))
  <2>1. job' = [job EXCEPT !["mempool"] = j]
    BY <1>10 DEF FinishTransaction
  <2>2. j.pc \in {"none", "validate"}
    <3>1. NoJob.pc = "none" /\ Begin(Last(waiting)).pc = "validate"
      BY DEF NoJob, Begin
    <3> QED
      BY <3>1
  <2> HIDE DEF j
  <2>3. job["mempool"].pc = "done"
    BY <1>10 DEF FinishTransaction, Writing
  <2>4. job'["mempool"] = j /\ job'["block"] = job["block"]
    BY <1>2, <2>1
  <2> QED
    BY <1>2, <1>4, <2>2, <2>3, <2>4 DEF Turned, Handler
<1>11. CASE \E t \in Relayed : Deliver(t)
  <2>1. PICK t \in Relayed : Deliver(t)
    BY <1>11
  <2>2. CASE running = NoTx
    <3>1. job["mempool"].pc = "none"
      BY <2>2 DEF ProcessInv
    <3>2. job' = [job EXCEPT !["mempool"] = Begin(t)] /\ Begin(t).pc = "validate"
      BY <2>1, <2>2 DEF Deliver, Begin, NoJob
    <3>3. job'["mempool"] = Begin(t) /\ job'["block"] = job["block"]
      BY <1>2, <3>2
    <3> QED
      BY <1>2, <1>4, <3>1, <3>2, <3>3 DEF Turned, Handler
  <2>3. CASE running # NoTx
    <3>1. job' = job
      BY <2>1, <2>3 DEF Deliver
    <3> QED
      BY <1>2, <1>4, <3>1 DEF Turned
  <2> QED
    BY <2>2, <2>3
<1> QED
  BY <1>5, <1>6, <1>7, <1>8, <1>9, <1>10, <1>11

\* A statement leaves the rest of the job.
LEMMA StatementFields ==
  ASSUME ProcessInv, NEW w \in Handler, NEW pc, NEW next, NEW d, Statement(w, pc, next, d)
  PROVE  /\ phase \in {"run", "undo"} /\ job[w].pc = pc /\ job'[w].pc = next /\ db' = d
         /\ job'[w].known = job[w].known /\ job'[w].txs = job[w].txs
         /\ job'[w].ids = job[w].ids /\ job'[w].found = job[w].found /\ job'[w].todo = job[w].todo
         /\ \A v \in Handler : v # w => job'[v] = job[v]
         /\ UNCHANGED <<storedTip, process>>
         /\ overlooked' = IF w = "block" /\ pc = "insert" THEN overlooked \cup Overlooking ELSE overlooked
<1>1. DOMAIN job = Handler /\ DOMAIN job[w] = JobFields
  BY DEF ProcessInv, JobFields
<1>2. /\ phase \in {"run", "undo"} /\ job[w].pc = pc /\ db' = d
      /\ job' = [job EXCEPT ![w].pc = next]
      /\ UNCHANGED <<storedTip, process>>
      /\ overlooked' = IF w = "block" /\ pc = "insert" THEN overlooked \cup Overlooking ELSE overlooked
  BY DEF Statement, Writing, Goes, tips
<1> QED
  BY <1>1, <1>2 DEF JobFields

-----------------------------------------------------------------------------
(* Every step keeps the addresses.                                         *)

\* While a block is looked for, no output is at its height.
LEMMA LookingHeights ==
  ASSUME LedgerInv, phase = "run", job["block"].pc \in {"none", "find"}, NEW b \in Block, Parent[b] = storedTip
  PROVE  \A o \in db.outs : Committed(o) \/ o.height # Depth[b]
<1> USE DEF LedgerInv, WorkInv, TableInv
<1>1. Depth[b] = H + 1 /\ Depth[b] < Unconfirmed /\ H \in Nat /\ Unconfirmed \in Nat
  <2>1. Parent[b] \in Block /\ storedTip \in Block
    BY DEF ProcessInv
  <2> QED
    BY <2>1, ContentsType, ChainUp, LedgerAssumption DEF H
<1>2. ASSUME NEW o \in db.outs PROVE Committed(o) \/ o.height = Unconfirmed
  <2>1. PICK r \in db.tx : r.id = o.id
    BY DEF OwnInv, With
  <2>2. o.height = r.height
    BY <2>1 DEF HeightInv
  <2> QED
    BY <2>1, <2>2 DEF HeightInv, Looking, Committed
<1> QED
  BY <1>1, <1>2

\* The steps of the process that leave the tables alone.
LEMMA AddressesPlain ==
  ASSUME LedgerInv, LedgerInv', AddressesInv,
         \/ Start \/ StoreStartTip \/ OnSynced
         \/ \E reason : Stop(reason)
         \/ \E b \in Block : GoBack(b) \/ BeginBlock(b)
         \/ Commit \/ UNCHANGED vars
  PROVE  AddressesInv'
<1> USE DEF LedgerInv, WorkInv, TableInv
<1>1. DOMAIN job = Handler /\ "block" \in Handler /\ "mempool" \in Handler
  BY DEF ProcessInv, Handler
<1>2. NoJob.pc = "none"
  BY DEF NoJob
<1>3. H \in Nat /\ storedTip \in Block /\ \A o \in db.outs : o.height \in Nat
  <2>1. storedTip \in Block
    BY DEF ProcessInv
  <2> QED
    BY <2>1, Heights
<1>4. CASE Start
  BY <1>4, AddressesIdle DEF Start, tips, Lasting, Committed, H
<1>5. CASE StoreStartTip
  <2>1. /\ db' = db /\ overlooked' = overlooked /\ storedTip' = storedTip /\ job' = job
        /\ block' = block /\ phase = "clean" /\ phase' = "run" /\ step > 5
    BY <1>5 DEF StoreStartTip, CleanStatements
  <2>2. \A o \in db.outs : Committed(o)
    <3>1. step \in 1 .. 6
      BY <2>1 DEF ProcessInv, CleanStatements
    <3>2. step > 1
      BY <2>1, <3>1
    <3> QED
      BY <2>1, <3>2 DEF CleanInv
  <2>3. block = NoBlock /\ \A w \in Handler : job[w].pc = "none"
    BY <2>1 DEF ProcessInv
  <2>4. KeptInv
    BY DEF AddressesInv
  <2>5. SameIds
    BY <2>1 DEF SameIds, KeyInv
  <2>6. ASSUME NEW p \in db'.outs, NEW s \in db'.tx, s.id = p.id PROVE Findable(p, s)'
    <3>1. p \in db.outs /\ s \in db.tx /\ Findable(p, s) /\ Lasting(p)
      BY <2>1, <2>2, <2>4, <2>6 DEF KeptInv, Lasting
    <3>2. p.address \notin overlooked' => Known(p, s, p.height)
      BY <2>1, <3>1 DEF Findable
    <3>3. p.height <= Unconfirmed /\ p.height \in Nat /\ Unconfirmed \in Nat /\ \A a \in db.addresses : a.create \in Nat
      BY <2>4, <3>1, LedgerAssumption DEF ShapeInv, KeptInv, AddressShape
    <3>4. p.address \notin overlooked' => Known(p, s, Unconfirmed)
      BY <3>2, <3>3 DEF Known
    <3> QED
      BY <2>1, <3>2, <3>4 DEF Findable, Known
  <2>7. KeptInv'
    <3>1. \A p \in db'.outs : \A s \in db'.tx : s.id = p.id => Findable(p, s)'
      BY <2>6
    <3> QED
      BY <2>1, <2>4, <3>1 DEF KeptInv, AddressShape
  <2>8. PaidInv'
    BY <2>1, <2>3 DEF PaidInv
  <2> QED
    BY <2>7, <2>8 DEF AddressesInv
<1>6. CASE OnSynced
  BY <1>6, AddressesIdle DEF OnSynced, tips, Lasting, Committed, H
<1>7. CASE UNCHANGED vars
  BY <1>7, AddressesIdle DEF vars, tips, process, Lasting, Committed, H
<1>8. CASE \E reason : Stop(reason)
  <2>1. /\ db' = db /\ overlooked' = overlooked /\ storedTip' = storedTip
        /\ phase' = "down" /\ job' = [w \in Handler |-> NoJob]
    BY <1>8 DEF Stop, tips
  <2>2. \A w \in Handler : job'[w].pc = "none"
    BY <1>2, <2>1
  <2> QED
    BY <2>1, <2>2, AddressesIdle DEF Lasting, Committed, H
<1>9. CASE \E b \in Block : GoBack(b)
  <2>1. PICK a \in Block : GoBack(a)
    BY <1>9
  <2>2. /\ db' = db /\ overlooked' = overlooked /\ storedTip' = a /\ phase = "run" /\ phase' = "undo"
        /\ job' = job /\ OnBranch(a, tip)
    BY <2>1 DEF GoBack
  <2>3. H' <= H /\ H' \in Nat
    <3>1. tip = storedTip
      BY DEF ProcessInv
    <3>2. OnBranch(a, storedTip)
      BY <2>2, <3>1
    <3> QED
      BY <1>3, <2>1, <2>2, <3>2, ContentsType DEF H, OnBranch
  <2>4. \A o \in db.outs : Lasting(o)' => Lasting(o)
    BY <1>3, <2>2, <2>3 DEF Lasting, Committed
  <2> QED
    BY <2>2, <2>4, AddressesIdle
<1>10. CASE \E b \in Block : BeginBlock(b)
  <2>1. PICK b \in Block : BeginBlock(b)
    BY <1>10
  <2> DEFINE j == [NoJob EXCEPT !.pc = IF synced THEN "find" ELSE "replace", !.txs = Contents[b]]
  <2>2. /\ phase = "run" /\ block = NoBlock /\ db' = db /\ phase' = phase
        /\ job' = [job EXCEPT !["block"] = j] /\ overlooked' = overlooked /\ storedTip' = storedTip
        /\ block' = b /\ Parent[b] = storedTip
    BY <2>1 DEF BeginBlock, tips, ProcessInv
  <2>3. job["block"].pc = "none"
    BY <2>2 DEF ProcessInv
  <2>4. j.pc \in {"find", "replace"}
    BY DEF NoJob
  <2> HIDE DEF j
  <2>5. job'["mempool"] = job["mempool"] /\ job'["block"] = j
    BY <1>1, <2>2
  <2>6. \A w \in Handler : job'[w].pc \in {"new", "insert"} => job'[w] = job[w]
    BY <2>4, <2>5 DEF Handler
  <2>7. Depth[b] = H + 1 /\ H' = H
    <3>1. Parent[b] \in Block
      BY <1>3, <2>2
    <3> QED
      BY <2>2, <3>1, ChainUp DEF H
  <2>8. \A o \in db.outs : Committed(o) \/ o.height # Depth[b]
    BY <2>2, <2>3, LookingHeights
  <2>9. \A o \in db.outs : Lasting(o)' => Lasting(o)
    BY <2>7, <2>8 DEF Lasting, Committed
  <2> QED
    BY <2>2, <2>6, <2>9, AddressesIdle
<1>11. CASE Commit
  <2>1. /\ phase \in {"run", "undo"} /\ job["block"].pc = "commit" /\ db' = db /\ phase' = phase
        /\ job' = [job EXCEPT !["block"] = NoJob] /\ block' = NoBlock /\ storedTip' = block
        /\ overlooked' = overlooked
    BY <1>11 DEF Commit, Writing
  <2>2. phase = "run" /\ block # NoBlock /\ Depth[block] = H + 1
    <3>1. job["block"].pc # "none"
      BY <2>1
    <3> QED
      BY <2>1, <3>1, BlockFacts
  <2>3. job'["mempool"] = job["mempool"] /\ job'["block"] = NoJob
    BY <1>1, <2>1
  <2>4. \A w \in Handler : job'[w].pc \in {"new", "insert"} => job'[w] = job[w]
    BY <1>2, <2>3 DEF Handler
  <2>5. H' = H + 1
    BY <2>1, <2>2 DEF H
  <2>6. ASSUME NEW o \in db.outs, Lasting(o)' PROVE Lasting(o)
    <3>1. o.height <= H + 1
      BY <2>1, <2>5, <2>6 DEF Lasting, Committed
    <3>2. o.height <= H \/ o.height = H + 1
      BY <1>3, <3>1
    <3> QED
      BY <2>1, <2>2, <3>2 DEF Lasting, Committed
  <2> QED
    BY <2>1, <2>4, <2>6, AddressesIdle
<1> QED
  BY <1>4, <1>5, <1>6, <1>7, <1>8, <1>9, <1>10, <1>11

\* The steps of the handlers that write nothing.
LEMMA AddressesTurn ==
  ASSUME LedgerInv, LedgerInv', AddressesInv,
         \/ FindUnconfirmed \/ Number \/ StoreTxTip
         \/ \E w \in Handler : FindAddresses(w)
         \/ \E t \in Relayed : Deliver(t)
         \/ Validate \/ FinishTransaction
  PROVE  AddressesInv'
<1>1. /\ db' = db /\ overlooked' = overlooked /\ UNCHANGED <<storedTip, phase, block>>
      /\ phase \in {"run", "undo"}
  BY TurnStep DEF process
<1>2. PICK w \in Handler : Turned(w) /\ \A v \in Handler : v # w => job'[v] = job[v]
  BY TurnStep
<1>3. \A v \in Handler :
        \/ job'[v].pc \in {"new", "insert"} => job'[v] = job[v]
        \/ job'[v].pc = "new" /\ job'[v].known \subseteq Names
  BY <1>2 DEF Turned
<1>4. job["block"].pc \in Early => \/ job'["block"].pc \in Early \cup {"none"}
                                   \/ job["block"].pc = "find"
  BY <1>2 DEF Turned, Early, Handler
<1>5. ASSUME NEW o \in db.outs, Lasting(o)' PROVE Lasting(o)
  <2>1. CASE job["block"].pc = "find"
    <3>1. phase = "run" /\ block \in Block /\ Parent[block] = storedTip /\ Depth[block] = H + 1
      <4>1. job["block"].pc # "none"
        BY <2>1
      <4> QED
        BY <1>1, <4>1, BlockFacts
    <3>2. Committed(o) \/ o.height # Depth[block]
      BY <2>1, <3>1, LookingHeights
    <3> QED
      BY <1>1, <1>5, <3>1, <3>2 DEF Lasting, Committed, H
  <2>2. CASE job["block"].pc # "find"
    <3>1. job["block"].pc \in Early => job'["block"].pc \in Early
      BY <1>2, <2>2 DEF Turned, Early, Handler
    <3> QED
      BY <1>1, <1>5, <3>1 DEF Lasting, Committed, H, Early
  <2> QED
    BY <2>1, <2>2
<1> QED
  BY <1>1, <1>3, <1>5, AddressesIdle

\* Statement d on the other tables.
SameAddresses(d) == d.addresses = db.addresses /\ d.tx = db.tx

\* Those that are.
LEMMA OtherAddresses ==
  ASSUME ShapeInv
  PROVE  /\ \A ts : SameAddresses(WithWitness(db, ts))
         /\ \A h : SameAddresses(Adjusted(db, h))
         /\ \A rows : SameAddresses([db EXCEPT !.balances = @ \cup rows])
         /\ \A j, h : SameAddresses(WithReceipts(db, j, h))
         /\ \A b : SameAddresses(WithContracts(db, b))
<1>1. DOMAIN db = {"tx", "outs", "ins", "balances", "witness", "receipts", "logs", "spends",
                   "refunds", "addresses", "next"}
  BY DEF ShapeInv
<1>2. \A x : /\ SameAddresses([db EXCEPT !.witness = x])
             /\ SameAddresses([db EXCEPT !.balances = x])
             /\ SameAddresses([db EXCEPT !.receipts = x])
  BY <1>1 DEF SameAddresses
<1>3. \A s, f, r, l : SameAddresses([db EXCEPT !.spends = s, !.refunds = f, !.receipts = r, !.logs = l])
  BY <1>1 DEF SameAddresses
<1>4. \A ts : SameAddresses(WithWitness(db, ts))
  BY <1>2, Zenon DEF WithWitness
<1>5. \A h : SameAddresses(Adjusted(db, h))
  BY <1>2, Zenon DEF Adjusted
<1>6. \A rows : SameAddresses([db EXCEPT !.balances = @ \cup rows])
  BY <1>2, Zenon
<1>7. \A j, h : SameAddresses(WithReceipts(db, j, h))
  BY <1>2, Zenon DEF WithReceipts
<1>8. \A b : SameAddresses(WithContracts(db, b))
  BY <1>3, Zenon DEF WithContracts
<1> QED
  BY <1>4, <1>5, <1>6, <1>7, <1>8

\* They keep the addresses.
LEMMA AddressesStatement ==
  ASSUME LedgerInv, LedgerInv', AddressesInv, SameIds, NEW w \in Handler, NEW pc, NEW next, NEW d,
         Statement(w, pc, next, d), d.addresses = db.addresses, pc # "insert",
         next \notin {"new", "insert"},
         \/ OutsFixed /\ (w = "block" /\ pc \in Early => next \in Early)
         \/ OutsStay /\ w = "block" /\ next \in Early
  PROVE  AddressesInv'
<1>1. ProcessInv
  BY DEF LedgerInv, WorkInv
<1>2. /\ phase \in {"run", "undo"} /\ job[w].pc = pc /\ job'[w].pc = next /\ db' = d
      /\ \A v \in Handler : v # w => job'[v] = job[v]
      /\ UNCHANGED <<storedTip, phase, block>> /\ overlooked' = overlooked
  BY <1>1, StatementFields DEF process
<1> QED
  BY <1>2, AddressesHandle

\* The statements that write no address.
LEMMA AddressesTables ==
  ASSUME LedgerInv, LedgerInv', AddressesInv, NEW w \in Handler,
         Adopt \/ Spend \/ Adjust \/ ProcessContracts \/ CreateWitnesses(w) \/ Link(w)
         \/ CreateBalances(w) \/ CreateReceipts(w)
  PROVE  AddressesInv'
<1>1. "block" \in Handler /\ ShapeInv
  BY DEF Handler, LedgerInv, TableInv
<1>2. CASE \E reason : Stop(reason)
  BY <1>2, AddressesPlain
<1>3. CASE \E v \in Handler : \E pc, next, d :
             /\ Statement(v, pc, next, d) /\ SameLinks(d) /\ SameAddresses(d)
             /\ pc \notin Early \cup {"insert"} /\ next \notin {"new", "insert"}
  <2>1. PICK v \in Handler : \E pc, next, d :
             /\ Statement(v, pc, next, d) /\ SameLinks(d) /\ SameAddresses(d)
             /\ pc \notin Early \cup {"insert"} /\ next \notin {"new", "insert"}
    BY <1>3
  <2>0. PICK pc, next, d :
             /\ Statement(v, pc, next, d) /\ SameLinks(d) /\ SameAddresses(d)
             /\ pc \notin Early \cup {"insert"} /\ next \notin {"new", "insert"}
    BY <2>1
  <2>2. db' = d
    BY <2>0 DEF Statement
  <2>3. OutsFixed
    BY <2>0, <2>2, SamePlacesAll DEF SameLinks
  <2>4. SameIds
    BY <2>0, <2>2 DEF SameIds, SameAddresses, LedgerInv, TableInv, KeyInv
  <2> QED
    BY <2>0, <2>3, <2>4, AddressesStatement DEF SameAddresses
<1>4. CASE Adopt
  <2>1. OutsStay /\ SameIds /\ db'.addresses = db.addresses
    BY <1>4, AdoptPlaces
  <2>2. PICK d : Statement("block", "adopt", "spend", d)
    BY <1>4 DEF Adopt
  <2>3. db' = d
    BY <2>2 DEF Statement
  <2>4. "spend" \in Early /\ "adopt" # "insert" /\ "spend" \notin {"new", "insert"}
    BY DEF Early
  <2> QED
    BY <1>1, <2>1, <2>2, <2>3, <2>4, AddressesStatement
<1>5. CASE Spend
  <2>1. OutsFixed /\ SameIds /\ db'.addresses = db.addresses
    BY <1>5, SpendPlaces
  <2>2. PICK d : Statement("block", "spend", "lower", d)
    BY <1>5 DEF Spend
  <2>3. db' = d
    BY <2>2 DEF Statement
  <2>4. "lower" \in Early /\ "spend" # "insert" /\ "lower" \notin {"new", "insert"}
    BY DEF Early
  <2> QED
    BY <1>1, <2>1, <2>2, <2>3, <2>4, AddressesStatement
<1>6. CASE Adjust
  BY <1>1, <1>3, <1>6, OtherTables, OtherAddresses DEF Adjust, Early
<1>7. CASE ProcessContracts
  BY <1>1, <1>3, <1>7, OtherTables, OtherAddresses DEF ProcessContracts, Early
<1>8. CASE CreateWitnesses(w)
  BY <1>1, <1>2, <1>3, <1>8, OtherTables, OtherAddresses DEF CreateWitnesses, Refused, Early
<1>9. CASE Link(w)
  <2>1. PICK next \in {"adjust", "balances"} : Statement(w, "link", next, Linked(db, job[w].txs))
    BY <1>9 DEF Link
  <2>2. db' = Linked(db, job[w].txs)
    BY <2>1 DEF Statement
  <2>3. OutsFixed /\ SameIds /\ db'.addresses = db.addresses
    BY <2>2, LinkPlaces
  <2>4. "link" \notin Early \cup {"insert"} /\ next \notin {"new", "insert"}
    BY DEF Early
  <2> QED
    BY <2>1, <2>2, <2>3, <2>4, AddressesStatement
<1>10. CASE CreateBalances(w)
  <2> DEFINE new == BalanceRows(db, Balanced(w))
             d == [db EXCEPT !.balances = @ \cup new]
  <2>1. (\E reason : Stop(reason)) \/ Statement(w, "balances", "receipts", d)
    BY <1>10 DEF CreateBalances, Refused
  <2>2. SameLinks(d) /\ SameAddresses(d)
    BY <1>1, OtherTables, OtherAddresses
  <2> HIDE DEF d
  <2> QED
    BY <1>2, <1>3, <2>1, <2>2 DEF Early
<1>11. CASE CreateReceipts(w)
  BY <1>1, <1>2, <1>3, <1>11, OtherTables, OtherAddresses DEF CreateReceipts, Refused, Early
<1> QED
  BY <1>4, <1>5, <1>6, <1>7, <1>8, <1>9, <1>10, <1>11

\* A start removes addresses of what is not committed.
LEMMA AddressesClean ==
  ASSUME LedgerInv, LedgerInv', AddressesInv, Clean
  PROVE  AddressesInv'
<1>1. /\ phase = "clean" /\ phase' = "clean" /\ step \in 1 .. 5 /\ storedTip' = storedTip
      /\ db' = Cleaned(step, db, H) /\ storedTip \in Block
      /\ job' = job /\ overlooked' = overlooked
  BY CleanProcess DEF Clean, LedgerInv, WorkInv
<1>2. \A w \in Handler : job[w].pc = "none"
  BY <1>1 DEF LedgerInv, WorkInv, ProcessInv
<1>3. KeptInv /\ ShapeInv /\ ShapeInv'
  BY DEF AddressesInv, LedgerInv, TableInv
<1>4. H \in Nat /\ H' = H /\ \A p \in db'.outs : p.height \in Nat
  <2>1. \A p \in db'.outs : p.height \in 0 .. Unconfirmed
    BY <1>3 DEF ShapeInv
  <2> QED
    BY <1>1, <1>3, <2>1, Heights DEF H
<1>5. \A p : Lasting(p)' <=> Committed(p)'
  BY <1>1 DEF Lasting
<1>6. \A a \in db.addresses : a.create \in Nat
  BY <1>3, LedgerAssumption DEF KeptInv, AddressShape
<1>7. AddressShape' /\ \A a \in db.addresses : a \in db'.addresses \/ a.create > H
  <2>1. DOMAIN db = {"tx", "outs", "ins", "balances", "witness", "receipts", "logs", "spends",
                     "refunds", "addresses", "next"}
    BY <1>3 DEF ShapeInv
  <2>2. CASE step = 5
    <3>1. db'.addresses = {a \in db.addresses : a.create <= H}
      BY <1>1, <2>1, <2>2 DEF Cleaned
    <3> QED
      BY <1>3, <1>4, <1>6, <3>1 DEF KeptInv, AddressShape
  <2>3. CASE step = 4
    <3> DEFINE dead == {r \in db.tx : r.height > H}
               txs == db.tx \ dead
               witness == db.witness \ {r.tx : r \in dead}
               receipts == {r \in db.receipts : r.id \notin Ids(dead)}
               logs == {l \in db.logs : l.receipt \notin Ids(dead)}
               balances == {b \in db.balances : b.id \notin Ids(dead)}
    <3>1. db' = [db EXCEPT !.tx = txs, !.witness = witness, !.receipts = receipts,
                           !.logs = logs, !.balances = balances]
      BY <1>1, <2>3 DEF Cleaned
    <3> HIDE DEF txs, witness, receipts, logs, balances
    <3>2. db'.addresses = db.addresses
      BY <2>1, <3>1
    <3> QED
      BY <1>3, <3>2 DEF KeptInv, AddressShape
  <2>4. CASE step \in {1, 2, 3}
    <3>1. db'.addresses = db.addresses
      BY <1>1, <2>1, <2>4 DEF Cleaned
    <3> QED
      BY <1>3, <3>1 DEF KeptInv, AddressShape
  <2> QED
    BY <1>1, <2>2, <2>3, <2>4
<1>8. ASSUME NEW p \in db'.outs
      PROVE  \E o \in db.outs : OutFrom(p, o) /\ (Lasting(p)' => Lasting(o) /\ p.height = o.height)
  <2>1. PICK o \in db.outs : OutFrom(p, o) /\ (p.height = o.height \/ p.height > H)
    BY CleanPlaces DEF OutsStay
  <2>2. Committed(p)' => p.height <= H
    BY <1>4 DEF Committed
  <2>3. Committed(p)' => p.height = o.height
    BY <1>4, <2>1, <2>2
  <2> QED
    BY <1>5, <2>1, <2>2, <2>3 DEF Lasting, Committed
<1>9. KeptInv'
  <2>1. SameIds
    BY CleanPlaces
  <2>2. \A a \in db.addresses :
           \/ \E b \in db'.addresses : StandsFor(b, a) /\ b.create <= a.create
           \/ /\ a.create > H' /\ \A p \in db'.outs : Lasting(p)' => Committed(p)'
              /\ phase' \in {"run", "undo"} => \E b \in db'.addresses : StandsFor(b, a)
    BY <1>1, <1>4, <1>5, <1>6, <1>7 DEF StandsFor
  <2> QED
    BY <1>1, <1>3, <1>7, <1>8, <2>1, <2>2, KeptStill
<1>10. PaidInv'
  BY <1>1, <1>2 DEF PaidInv
<1> QED
  BY <1>9, <1>10 DEF AddressesInv

\* A reorganization raises addresses that nothing committed is paid to.
LEMMA AddressesUndo ==
  ASSUME LedgerInv, LedgerInv', AddressesInv, Undo
  PROVE  AddressesInv'
<1>1. /\ phase = "undo" /\ phase' \in {"run", "undo"} /\ step \in 1 .. 10 /\ storedTip' = storedTip
      /\ db' = Undone(step, db, H) /\ storedTip \in Block
      /\ job' = job /\ overlooked' = overlooked
      /\ phase' = "run" => block' = NoBlock
  BY UndoProcess DEF Undo, tips, UndoStatements, LedgerInv, WorkInv
<1>2. KeptInv /\ PaidInv /\ ShapeInv /\ ShapeInv'
  BY DEF AddressesInv, LedgerInv, TableInv
<1>3. H \in Nat /\ H' = H /\ Unconfirmed \in Nat /\ \A p \in db'.outs : p.height \in Nat
  <2>1. \A p \in db'.outs : p.height \in 0 .. Unconfirmed
    BY <1>2 DEF ShapeInv
  <2> QED
    BY <1>1, <1>2, <2>1, Heights DEF H
<1>4. \A p : Lasting(p)' <=> Committed(p)'
  BY <1>1 DEF Lasting
<1>5. \A a \in db.addresses : /\ a.create \in 0 .. Unconfirmed
                              /\ DOMAIN a = {"id", "address", "create"}
  BY <1>2 DEF KeptInv, AddressShape
<1>6. /\ AddressShape'
      /\ \A a \in db.addresses : \E b \in db'.addresses :
           StandsFor(b, a) /\ (b.create <= a.create \/ a.create > H)
      /\ Names' = Names
  <2>1. DOMAIN db = {"tx", "outs", "ins", "balances", "witness", "receipts", "logs", "spends",
                     "refunds", "addresses", "next"}
    BY <1>2 DEF ShapeInv
  <2>2. CASE step = 10
    <3> DEFINE new(a) == IF a.create > H THEN [a EXCEPT !.create = Unconfirmed] ELSE a
               rows == Update(db.addresses, LAMBDA a : a.create > H,
                              LAMBDA a : [a EXCEPT !.create = Unconfirmed])
    <3>1. rows = {new(a) : a \in db.addresses}
      BY Zenon DEF Update
    <3>2. db' = [db EXCEPT !.addresses = rows]
      BY <1>1, <2>2 DEF Undone
    <3>3. \A a \in db.addresses :
            /\ DOMAIN new(a) = {"id", "address", "create"} /\ new(a).create \in 0 .. Unconfirmed
            /\ new(a).id = a.id /\ new(a).address = a.address
            /\ new(a).create <= a.create \/ a.create > H
      BY <1>3, <1>5
    <3> HIDE DEF rows, new
    <3>4. db'.addresses = {new(a) : a \in db.addresses}
      BY <2>1, <3>1, <3>2
    <3>5. Names' = Names
      BY <3>3, <3>4 DEF Names
    <3> QED
      BY <3>3, <3>4, <3>5 DEF AddressShape, StandsFor
  <2>3. CASE step # 10
    <3>1. db'.addresses = db.addresses
      <4>1. CASE step = 3
        <5> DEFINE gone == Stakes \cup Coinbases
                   outs == {o \in db.outs : o.id \notin Ids(gone)}
                   ins == {i \in db.ins : i.id \notin Ids(gone)}
                   txs == db.tx \ gone
                   wit == db.witness \ {r.tx : r \in gone}
                   bal == {b \in db.balances : b.id \notin Ids(gone)}
        <5>1. db' = [db EXCEPT !.tx = txs, !.witness = wit, !.outs = outs, !.ins = ins, !.balances = bal]
          BY <1>1, <4>1 DEF Undone, Stakes, Coinbases, Above
        <5> HIDE DEF txs, outs, ins, wit, bal
        <5> QED
          BY <2>1, <5>1
      <4>2. CASE step = 8
        <5> DEFINE linked == {i \in db.ins : i.height > H /\ \E o \in db.outs : Spends(i, o)}
                   outs == Update(db.outs, LAMBDA o : \E i \in linked : Spends(i, o),
                                  LAMBDA o : [o EXCEPT !.byHeight = Unconfirmed])
                   ins == Update(db.ins, LAMBDA i : i \in linked,
                                 LAMBDA i : [i EXCEPT !.height = Unconfirmed])
        <5>1. db' = [db EXCEPT !.outs = outs, !.ins = ins]
          BY <1>1, <4>2 DEF Undone
        <5> HIDE DEF outs, ins
        <5> QED
          BY <2>1, <5>1
      <4>3. \A x, y : /\ [db EXCEPT !.outs = x].addresses = db.addresses
                      /\ [db EXCEPT !.refunds = x, !.spends = y].addresses = db.addresses
                      /\ [db EXCEPT !.tx = x].addresses = db.addresses
                      /\ [db EXCEPT !.receipts = x].addresses = db.addresses
                      /\ [db EXCEPT !.logs = x].addresses = db.addresses
                      /\ [db EXCEPT !.balances = x].addresses = db.addresses
        BY <2>1
      <4>4. CASE step = 1
        <5> DEFINE outs == Freed(db.outs, {i \in db.ins : i.id \in Ids(Stakes)})
        <5>1. db' = [db EXCEPT !.outs = outs]
          BY <1>1, <4>4 DEF Undone, Stakes, Above
        <5> HIDE DEF outs
        <5> QED
          BY <4>3, <5>1
      <4>5. CASE step = 2
        <5> DEFINE above == Ids({r \in db.tx : r.height > H})
                   refunds == {r \in db.refunds : r[1] \notin above}
                   spends == {s \in db.spends : s[1] \notin above}
        <5>1. db' = [db EXCEPT !.refunds = refunds, !.spends = spends]
          BY <1>1, <4>5 DEF Undone, Stakes, Above
        <5> HIDE DEF refunds, spends
        <5> QED
          BY <4>3, <5>1
      <4>6. CASE step = 4
        <5> DEFINE rows == Update(db.tx, LAMBDA r : r \in Above,
                                  LAMBDA r : [r EXCEPT !.height = Unconfirmed, !.index = Unconfirmed])
        <5>1. db' = [db EXCEPT !.tx = rows]
          BY <1>1, <4>6 DEF Undone, Stakes, Above
        <5> HIDE DEF rows
        <5> QED
          BY <4>3, <5>1
      <4>7. CASE step = 5
        <5> DEFINE outs == RaisedAbove(db.outs, H)
        <5>1. db' = [db EXCEPT !.outs = outs]
          BY <1>1, <4>7 DEF Undone, Stakes, Above
        <5> HIDE DEF outs
        <5> QED
          BY <4>3, <5>1
      <4>8. CASE step = 6
        <5> DEFINE rows == Update(db.receipts, LAMBDA r : r.height > H,
                                  LAMBDA r : [r EXCEPT !.height = Unconfirmed, !.index = Unconfirmed])
        <5>1. db' = [db EXCEPT !.receipts = rows]
          BY <1>1, <4>8 DEF Undone, Stakes, Above
        <5> HIDE DEF rows
        <5> QED
          BY <4>3, <5>1
      <4>9. CASE step = 7
        <5> DEFINE rows == {l \in db.logs : l.height <= H}
        <5>1. db' = [db EXCEPT !.logs = rows]
          BY <1>1, <4>9 DEF Undone, Stakes, Above
        <5> HIDE DEF rows
        <5> QED
          BY <4>3, <5>1
      <4>10. CASE step = 9
        <5> DEFINE rows == Update(db.balances, LAMBDA b : b.id \in Ids(Above),
                                  LAMBDA b : [b EXCEPT !.height = Unconfirmed, !.index = Unconfirmed])
        <5>1. db' = [db EXCEPT !.balances = rows]
          BY <1>1, <4>10 DEF Undone, Stakes, Above
        <5> HIDE DEF rows
        <5> QED
          BY <4>3, <5>1
      <4> QED
        BY <1>1, <2>3, <4>1, <4>2, <4>4, <4>5, <4>6, <4>7, <4>8, <4>9, <4>10
    <3> QED
      BY <1>2, <3>1, AddressesSame
  <2> QED
    BY <2>2, <2>3
<1>7. ASSUME NEW p \in db'.outs
      PROVE  \E o \in db.outs : OutFrom(p, o) /\ (Lasting(p)' => Lasting(o) /\ p.height = o.height)
  <2>1. PICK o \in db.outs : OutFrom(p, o) /\ (p.height = o.height \/ p.height > H)
    BY UndoPlaces DEF OutsStay
  <2>2. Committed(p)' => p.height <= H
    BY <1>3 DEF Committed
  <2>3. Committed(p)' => p.height = o.height
    BY <1>3, <2>1, <2>2
  <2> QED
    BY <1>4, <2>1, <2>2, <2>3 DEF Lasting, Committed
<1>8. KeptInv'
  <2>1. SameIds
    BY UndoPlaces
  <2>2. \A a \in db.addresses :
           \/ \E b \in db'.addresses : StandsFor(b, a) /\ b.create <= a.create
           \/ /\ a.create > H' /\ \A p \in db'.outs : Lasting(p)' => Committed(p)'
              /\ phase' \in {"run", "undo"} => \E b \in db'.addresses : StandsFor(b, a)
    BY <1>1, <1>3, <1>4, <1>6
  <2> QED
    BY <1>1, <1>2, <1>6, <1>7, <2>1, <2>2, KeptStill
<1>9. PaidInv'
  BY <1>1, <1>2, <1>6, PaidStill
<1> QED
  BY <1>8, <1>9 DEF AddressesInv

\* removeReplacedTransactions.
LEMMA AddressesReplace ==
  ASSUME LedgerInv, LedgerInv', AddressesInv, NEW w \in Handler, Replace(w)
  PROVE  AddressesInv'
<1>1. DOMAIN job = Handler /\ DOMAIN job[w] = JobFields
  BY DEF LedgerInv, WorkInv, ProcessInv, JobFields
<1>2. /\ phase \in {"run", "undo"} /\ job[w].pc = "replace" /\ UNCHANGED <<storedTip, phase, block>>
      /\ overlooked' = overlooked /\ db' = Replaced(db, Head(job[w].todo))
      /\ job' = [job EXCEPT ![w].todo = Tail(@)]
  BY DEF Replace, Writing, tips, process
<1>3. job'[w].pc = "replace" /\ \A v \in Handler : v # w => job'[v] = job[v]
  BY <1>1, <1>2 DEF JobFields
<1>4. OutsFixed /\ SameIds /\ db'.addresses = db.addresses
  BY <1>2, ReplacedPlaces
<1> QED
  BY <1>2, <1>3, <1>4, AddressesHandle DEF Early

\* The rows of the transactions.
LEMMA AddressesCreate ==
  ASSUME LedgerInv, LedgerInv', AddressesInv, NEW w \in Handler, CreateTransactions(w)
  PROVE  AddressesInv'
<1>1. CASE Stop("duplicate")
  BY <1>1, AddressesPlain
<1>2. CASE ~Stop("duplicate")
  <2> DEFINE ids == IF w = "mempool" THEN <<db.next + 1>> ELSE <<>>
  <2>1. DOMAIN job = Handler /\ DOMAIN job[w] = JobFields
    BY DEF LedgerInv, WorkInv, ProcessInv, JobFields
  <2>2. /\ phase \in {"run", "undo"} /\ job[w].pc = "replace" /\ UNCHANGED <<storedTip, phase, block>>
        /\ overlooked' = overlooked
        /\ job' = [job EXCEPT ![w].pc = "witness", ![w].ids = ids]
    BY <1>2 DEF CreateTransactions, Refused, Writing, tips, process
  <2> HIDE DEF ids
  <2>3. job'[w].pc = "witness" /\ \A v \in Handler : v # w => job'[v] = job[v]
    BY <2>1, <2>2 DEF JobFields
  <2>4. OutsFixed /\ SameIds /\ db'.addresses = db.addresses
    BY <1>2, CreatePlaces
  <2> QED
    BY <2>2, <2>3, <2>4, AddressesHandle DEF Early
<1> QED
  BY <1>1, <1>2

\* The height a handler writes.
LEMMA HeightOf ==
  ASSUME LedgerInv, NEW w \in Handler, phase \in {"run", "undo"}, job[w].pc # "none"
  PROVE  /\ Height(w) \in 0 .. Unconfirmed /\ H \in Nat /\ Unconfirmed \in Nat /\ Height(w) > H
         /\ w = "block" => phase = "run" /\ block # NoBlock /\ Height(w) = H + 1
         /\ w = "mempool" => Height(w) = Unconfirmed
<1>1. CASE w = "block"
  <2>1. /\ phase = "run" /\ block # NoBlock /\ Depth[block] = H + 1 /\ H \in Nat
        /\ Unconfirmed \in Nat /\ H + 1 < Unconfirmed
    BY <1>1, BlockFacts
  <2> QED
    BY <1>1, <2>1 DEF Height
<1>2. CASE w = "mempool"
  <2>1. ShapeInv /\ storedTip \in Block
    BY DEF LedgerInv, TableInv, WorkInv, ProcessInv
  <2>2. H \in Nat /\ H < Unconfirmed /\ Unconfirmed \in Nat
    BY <2>1, Heights
  <2> QED
    BY <1>2, <2>2 DEF Height
<1> QED
  BY <1>1, <1>2 DEF Handler

\* A block lowers the addresses that the mempool has brought.
LEMMA AddressesLower ==
  ASSUME LedgerInv, LedgerInv', AddressesInv, Lower
  PROVE  AddressesInv'
<1> USE DEF LedgerInv, WorkInv, TableInv
<1> DEFINE j == job["block"]
           h == Depth[block]
           Where(a) == a.create > h /\ \E o \in db.outs : o.id \in j.found /\ o.address = a.id
           new(a) == IF Where(a) THEN [a EXCEPT !.create = h] ELSE a
           rows == Update(db.addresses,
                     LAMBDA a : a.create > h /\ \E o \in db.outs : o.id \in j.found /\ o.address = a.id,
                     LAMBDA a : [a EXCEPT !.create = h])
<1>0. "block" \in Handler /\ KeptInv /\ PaidInv
  BY DEF Handler, AddressesInv
<1>1. /\ phase \in {"run", "undo"} /\ j.pc = "lower" /\ job'["block"].pc = "replace"
      /\ db' = Lowered(db, j.found, h)
      /\ \A v \in Handler : v # "block" => job'[v] = job[v]
      /\ UNCHANGED <<storedTip, phase, block>> /\ overlooked' = overlooked
  <2>1. Statement("block", "lower", "replace", Lowered(db, j.found, h))
    BY DEF Lower
  <2> HIDE DEF j, h
  <2>2. "lower" # "insert"
    OBVIOUS
  <2> QED
    BY <1>0, <2>1, <2>2, StatementFields DEF process, j
<1>2. phase = "run" /\ block # NoBlock /\ h = H + 1 /\ H \in Nat /\ Unconfirmed \in Nat /\ H + 1 < Unconfirmed
  <2>1. j.pc # "none"
    BY <1>1
  <2> QED
    BY <1>1, <2>1, BlockFacts
<1>3. db'.outs = db.outs /\ db'.ins = db.ins /\ db'.tx = db.tx
  BY <1>1, OtherTables, OtherRows DEF SameLinks, SameRows
<1>4. rows = {new(a) : a \in db.addresses}
  BY Zenon DEF Update
<1>5. Lowered(db, j.found, h) = [db EXCEPT !.addresses = rows]
  BY Zenon DEF Lowered
<1>6. \A a \in db.addresses : a.create \in 0 .. Unconfirmed /\ DOMAIN a = {"id", "address", "create"}
  BY <1>0 DEF KeptInv, AddressShape
<1>7. \A a \in db.addresses :
        /\ DOMAIN new(a) = {"id", "address", "create"} /\ new(a).create \in 0 .. Unconfirmed
        /\ StandsFor(new(a), a) /\ new(a).create <= a.create
        /\ (\E o \in db.outs : o.id \in j.found /\ o.address = a.id) => new(a).create <= h
  BY <1>2, <1>6 DEF StandsFor
<1> HIDE DEF rows, new, Where
<1>8. db'.addresses = {new(a) : a \in db.addresses}
  BY <1>1, <1>4, <1>5 DEF ShapeInv
<1> HIDE DEF h
<1>9. AddressShape' /\ \A a \in db.addresses : \E b \in db'.addresses : StandsFor(b, a) /\ b.create <= a.create
  BY <1>7, <1>8 DEF AddressShape
<1>10. SameIds
  BY <1>3 DEF SameIds, KeyInv
<1>11. ASSUME NEW p \in db'.outs
       PROVE  \/ \E o \in db.outs : OutFrom(p, o) /\ (Lasting(p)' => Lasting(o) /\ p.height = o.height)
              \/ \A s \in db'.tx : s.id = p.id => Findable(p, s)'
  <2>1. p \in db.outs
    BY <1>3
  <2>2. CASE p.height # H + 1
    <3>1. Lasting(p)' => Lasting(p)
      BY <1>1, <2>2 DEF Lasting, Committed, H
    <3> QED
      BY <2>1, <3>1 DEF OutFrom
  <2>3. CASE p.height = H + 1
    <3>1. ASSUME NEW s \in db'.tx, s.id = p.id PROVE Findable(p, s)'
      <4>1. s \in db.tx
        BY <1>3
      <4>2. p.id \in j.found
        <5>1. p.id \notin j.found => s.height = H + 1
          BY <1>1, <1>2, <2>1, <2>3, <3>1, <4>1 DEF HeightInv
        <5>2. s.height # H + 1
          <6>1. Looking
            BY <1>1 DEF Looking
          <6> QED
            BY <1>2, <4>1, <6>1 DEF HeightInv, Committed
        <5> QED
          BY <5>1, <5>2
      <4>3. p.address \notin overlooked => Known(p, s, Unconfirmed)
        BY <1>0, <1>2, <2>1, <3>1, <4>1 DEF KeptInv, Findable
      <4>4. ASSUME p.address \notin overlooked PROVE Known(p, s, p.height)'
        <5>1. PICK a \in db.addresses : a.id = p.address /\ a.address = Pays[s.tx][p.at]
          BY <4>3, <4>4 DEF Known
        <5>2. new(a) \in db'.addresses /\ StandsFor(new(a), a) /\ new(a).create <= h
          BY <1>7, <1>8, <2>1, <4>2, <5>1
        <5> QED
          BY <1>2, <2>3, <5>1, <5>2 DEF Known, StandsFor
      <4>5. ASSUME p.address \notin overlooked PROVE Known(p, s, Unconfirmed)'
        <5>1. PICK b \in db'.addresses : b.id = p.address /\ b.address = Pays[s.tx][p.at]
          BY <4>4, <4>5 DEF Known
        <5>2. b.create <= Unconfirmed
          BY <1>2, <1>9 DEF AddressShape
        <5> QED
          BY <5>1, <5>2 DEF Known
      <4> QED
        BY <1>1, <4>4, <4>5 DEF Findable
    <3> QED
      BY <3>1
  <2> QED
    BY <2>2, <2>3
<1>12. KeptInv'
  <2>1. phase' \in {"run", "undo"} => phase \in {"run", "undo"}
    BY <1>1
  <2>2. overlooked \subseteq overlooked'
    BY <1>1
  <2> QED
    BY <1>0, <1>9, <1>10, <1>11, <2>1, <2>2, KeptStill
<1>13. PaidInv'
  <2>1. Names \subseteq Names'
    BY <1>9 DEF Names, StandsFor
  <2> QED
    BY <1>0, <1>1, <2>1, PaidStill DEF Handler
<1> QED
  BY <1>12, <1>13 DEF AddressesInv

\* SetToSeq lists every element of a finite set.
LEMMA Listed ==
  ASSUME NEW S, IsFiniteSet(S)
  PROVE  /\ DOMAIN SetToSeq(S) = 1 .. Len(SetToSeq(S)) /\ Len(SetToSeq(S)) \in Nat
         /\ {SetToSeq(S)[n] : n \in DOMAIN SetToSeq(S)} = S
<1>1. Cardinality(S) \in Nat /\ ExistsBijection(1 .. Cardinality(S), S)
  BY FS_CardinalityType
<1>2. PICK f \in Bijection(1 .. Cardinality(S), S) : TRUE
  BY <1>1 DEF ExistsBijection
<1>3. f \in [1 .. Cardinality(S) -> S] /\ IsInjective(f)
  BY <1>2 DEF Bijection, Injection, IsInjective
<1>4. SetToSeq(S) \in [1 .. Cardinality(S) -> S] /\ IsInjective(SetToSeq(S))
  BY <1>3 DEF SetToSeq
<1> DEFINE s == SetToSeq(S)
<1>5. s \in Injection(1 .. Cardinality(S), S)
  BY <1>4 DEF Injection, IsInjective
<1>6. IsFiniteSet(1 .. Cardinality(S)) /\ Cardinality(1 .. Cardinality(S)) = Cardinality(S)
  BY <1>1, FS_Interval
<1>7. s \in Surjection(1 .. Cardinality(S), S)
  BY <1>5, <1>6, FS_Injection
<1>8. \A x \in S : \E n \in 1 .. Cardinality(S) : s[n] = x
  BY <1>7 DEF Surjection
<1>9. s \in Seq(S)
  BY <1>1, <1>4
<1>10. DOMAIN s = 1 .. Cardinality(S) /\ \A n \in DOMAIN s : s[n] \in S
  BY <1>4
<1> HIDE DEF s
<1>11. {s[n] : n \in DOMAIN s} = S
  BY <1>8, <1>10
<1> QED
  BY <1>9, <1>11 DEF s

\* The rows of new addresses.
LEMMA AddedAddresses ==
  ASSUME ShapeInv, NEW new, NEW h, IsFiniteSet(new), db' = WithAddresses(db, new, h)
  PROVE  /\ db.addresses \subseteq db'.addresses
         /\ \A b \in db'.addresses : b \in db.addresses \/
              \E n \in Nat : b = [id |-> db.next + n, address |-> b.address, create |-> h] /\ b.address \in new
         /\ \A x \in new : \E b \in db'.addresses : b.address = x
<1> DEFINE list == SetToSeq(new)
           added == {[id |-> db.next + n, address |-> list[n], create |-> h] : n \in DOMAIN list}
           rows == db.addresses \cup added
           next == db.next + Len(list)
<1>1. DOMAIN list = 1 .. Len(list) /\ Len(list) \in Nat /\ {list[n] : n \in DOMAIN list} = new
  BY Listed
<1>2. db' = [db EXCEPT !.addresses = rows, !.next = next]
  BY Zenon DEF WithAddresses
<1> HIDE DEF list
<1>3. ASSUME NEW b \in added
      PROVE  \E n \in Nat : b = [id |-> db.next + n, address |-> b.address, create |-> h] /\ b.address \in new
  <2>1. PICK n \in DOMAIN list : b = [id |-> db.next + n, address |-> list[n], create |-> h]
    BY <1>3
  <2>2. n \in Nat /\ list[n] \in new
    BY <1>1
  <2>3. b.address = list[n]
    BY <2>1
  <2> QED
    BY <2>1, <2>2, <2>3
<1>4. ASSUME NEW x \in new
      PROVE  \E b \in added : b.address = x
  <2>1. PICK n \in DOMAIN list : list[n] = x
    BY <1>1
  <2>2. [id |-> db.next + n, address |-> list[n], create |-> h] \in added
    OBVIOUS
  <2>3. [id |-> db.next + n, address |-> list[n], create |-> h].address = x
    BY <2>1
  <2> QED
    BY <2>2, <2>3
<1> HIDE DEF added, next
<1>5. db'.addresses = rows
  BY <1>2 DEF ShapeInv
<1> QED
  BY <1>3, <1>4, <1>5

\* The new addresses of the transactions of a handler.
LEMMA AddressesAdd ==
  ASSUME LedgerInv, LedgerInv', AddressesInv, NEW w \in Handler, CreateAddresses(w)
  PROVE  AddressesInv'
<1> USE DEF LedgerInv, WorkInv, TableInv
<1> DEFINE new == Paid(job[w].txs) \ job[w].known
           h == Height(w)
<1>1. CASE \E reason : Stop(reason)
  BY <1>1, AddressesPlain
<1>2. CASE Statement(w, "new", "insert", WithAddresses(db, new, h))
  <2>1. /\ phase \in {"run", "undo"} /\ job[w].pc = "new" /\ job'[w].pc = "insert"
        /\ db' = WithAddresses(db, new, h)
        /\ job'[w].txs = job[w].txs
        /\ \A v \in Handler : v # w => job'[v] = job[v]
        /\ UNCHANGED <<storedTip, phase, block>> /\ overlooked' = overlooked
    <3> HIDE DEF new, h
    <3>1. "new" # "insert"
      OBVIOUS
    <3> QED
      BY <1>2, <3>1, StatementFields DEF process
  <2>2. IsFiniteSet(new)
    <3>1. job[w].txs \in Seq(Tx)
      BY <2>1, JobTxs
    <3> QED
      BY <3>1, PaidFinite, FS_Subset
  <2>3. h \in 0 .. Unconfirmed
    BY <2>1, HeightOf
  <2>4. KeptInv /\ PaidInv
    BY DEF AddressesInv
  <2>5. job[w].known \subseteq Names
    BY <2>1, <2>4 DEF PaidInv
  <2>6. Paid(job[w].txs) \subseteq new \cup Names
    BY <2>5
  <2> HIDE DEF new, h
  <2>7. /\ db.addresses \subseteq db'.addresses
        /\ \A b \in db'.addresses : b \in db.addresses \/
              \E n \in Nat : b = [id |-> db.next + n, address |-> b.address, create |-> h] /\ b.address \in new
        /\ \A x \in new : \E b \in db'.addresses : b.address = x
    BY <2>1, <2>2, AddedAddresses
  <2>8. AddressShape'
    BY <2>3, <2>4, <2>7 DEF AddressShape, KeptInv
  <2>9. \A a \in db.addresses : \E b \in db'.addresses : StandsFor(b, a) /\ b.create <= a.create
    <3>1. \A a \in db.addresses : a.create \in Nat
      BY <2>4, LedgerAssumption DEF AddressShape, KeptInv
    <3> QED
      BY <2>7, <3>1 DEF StandsFor
  <2>10. OutsFixed /\ SameIds
    <3>1. db'.outs = db.outs /\ db'.ins = db.ins /\ db'.tx = db.tx
      BY <2>1, <2>2, OtherTables, OtherRows DEF SameLinks, SameRows
    <3> QED
      BY <3>1, SamePlacesAll DEF SameIds, KeyInv
  <2>11. KeptInv'
    <3>1. job["block"].pc \in Early => job'["block"].pc \in Early
      BY <2>1 DEF Early, Handler
    <3>2. overlooked \subseteq overlooked'
      BY <2>1
    <3> QED
      BY <2>1, <2>4, <2>8, <2>9, <2>10, <3>1, <3>2, KeptHandle
  <2>12. PaidInv'
    <3>1. Names \subseteq Names' /\ new \subseteq Names'
      BY <2>7 DEF Names
    <3>2. Paid(job'[w].txs) \subseteq Names'
      BY <2>1, <2>6, <3>1
    <3> QED
      BY <2>1, <2>4, <3>1, <3>2, PaidStill
  <2> QED
    BY <2>11, <2>12 DEF AddressesInv
<1> QED
  BY <1>1, <1>2 DEF CreateAddresses, Refused

\* The outputs of a handler name the rows of their addresses.
LEMMA AddressesInsert ==
  ASSUME LedgerInv, LedgerInv', AddressesInv, NEW w \in Handler, Insert(w)
  PROVE  AddressesInv'
<1> USE DEF LedgerInv, WorkInv, TableInv
<1> DEFINE j == job[w]
           h == Height(w)
<1>1. CASE \E reason : Stop(reason)
  BY <1>1, AddressesPlain
<1>2. CASE Statement(w, "insert", "link", Inserted(db, j, h))
  <2>1. /\ phase \in {"run", "undo"} /\ j.pc = "insert" /\ job'[w].pc = "link"
        /\ db' = Inserted(db, j, h)
        /\ \A v \in Handler : v # w => job'[v] = job[v]
        /\ UNCHANGED <<storedTip, phase, block>>
        /\ overlooked' = IF w = "block" THEN overlooked \cup Overlooking ELSE overlooked
    <3> HIDE DEF j, h
    <3>1. Statement(w, "insert", "link", Inserted(db, j, h))
      BY <1>2
    <3>2. ProcessInv
      OBVIOUS
    <3> QED
      BY <3>1, <3>2, StatementFields DEF process, j
  <2>2. KeptInv /\ PaidInv
    BY DEF AddressesInv
  <2>3. IdsRight(j)
    BY <2>1 DEF WriteInv
  <2>4. /\ h \in 0 .. Unconfirmed /\ H \in Nat /\ Unconfirmed \in Nat /\ h > H
        /\ w = "block" => phase = "run" /\ block # NoBlock /\ h = H + 1
        /\ w = "mempool" => h = Unconfirmed
    <3>1. j.pc # "none"
      BY <2>1
    <3> QED
      BY <2>1, <3>1, HeightOf
  <2>5. Paid(j.txs) \subseteq Names
    BY <2>1, <2>2 DEF PaidInv
  <2>6. SameIds /\ db'.addresses = db.addresses
    BY <2>1, <2>3, InsertPlaces
  <2>7. /\ db'.tx = db.tx
        /\ \A p \in db'.outs : p \in db.outs \/ \E n \in DOMAIN j.txs : \E m \in DOMAIN Pays[j.txs[n]] :
             p = [id |-> j.ids[n], at |-> m, height |-> h,
                  address |-> (CHOOSE r \in db.addresses : r.address = Pays[j.txs[n]][m]).id,
                  by |-> 0, byAt |-> 0, byHeight |-> Null]
    BY <2>1, <2>3, InsertedRows
  <2>8. AddressShape' /\ Names' = Names
        /\ \A a \in db.addresses : \E b \in db'.addresses : StandsFor(b, a) /\ b.create <= a.create
    BY <2>2, <2>6, AddressesSame
  <2>9. overlooked \subseteq overlooked'
    BY <2>1
  <2>10. \A o \in db.outs : Lasting(o)' => Lasting(o)
    <3>1. CASE w = "block"
      <4>1. job["block"].pc \notin {"find", "adopt", "spend", "lower"}
        BY <2>1, <3>1
      <4> QED
        BY <2>1, <2>4, <3>1, <4>1 DEF Lasting, Committed, H
    <3>2. CASE w = "mempool"
      <4>1. job'["block"] = job["block"]
        BY <2>1, <3>2 DEF Handler
      <4> QED
        BY <2>1, <4>1 DEF Lasting, Committed, H
    <3> QED
      BY <3>1, <3>2 DEF Handler
  <2>11. ASSUME NEW p \in db'.outs, p \notin db.outs, NEW s \in db'.tx, s.id = p.id
         PROVE  Findable(p, s)'
    <3>1. PICK n \in DOMAIN j.txs : \E m \in DOMAIN Pays[j.txs[n]] :
             p = [id |-> j.ids[n], at |-> m, height |-> h,
                  address |-> (CHOOSE r \in db.addresses : r.address = Pays[j.txs[n]][m]).id,
                  by |-> 0, byAt |-> 0, byHeight |-> Null]
      BY <2>7, <2>11
    <3>2. PICK m \in DOMAIN Pays[j.txs[n]] :
             p = [id |-> j.ids[n], at |-> m, height |-> h,
                  address |-> (CHOOSE r \in db.addresses : r.address = Pays[j.txs[n]][m]).id,
                  by |-> 0, byAt |-> 0, byHeight |-> Null]
      BY <3>1
    <3> DEFINE x == Pays[j.txs[n]][m]
               a == CHOOSE r \in db.addresses : r.address = x
    <3>3. p.id = j.ids[n] /\ p.at = m /\ p.height = h /\ p.address = a.id
      BY <3>2
    <3>4. s.tx = j.txs[n]
      <4>1. PICK r \in db.tx : r.id = j.ids[n] /\ r.tx = j.txs[n]
        BY <2>3 DEF IdsRight
      <4>2. r = s
        BY <2>7, <2>11, <3>3, <4>1 DEF KeyInv
      <4> QED
        BY <4>1, <4>2
    <3>5. x \in Paid(j.txs)
      BY DEF Paid, ToSet
    <3>6. a \in db.addresses /\ a.address = x
      <4>1. \E r \in db.addresses : r.address = x
        BY <2>5, <3>5 DEF Names
      <4> HIDE DEF x
      <4> QED
        BY <4>1
    <3>7. a.create \in 0 .. Unconfirmed
      BY <2>2, <3>6 DEF KeptInv, AddressShape
    <3>8. x = Pays[s.tx][p.at]
      BY <3>3, <3>4
    <3> HIDE DEF a, x, j, h
    <3>9. Known(p, s, Unconfirmed)'
      <4>1. a \in db'.addresses /\ a.create <= Unconfirmed
        BY <2>4, <2>6, <3>6, <3>7
      <4> QED
        BY <3>3, <3>6, <3>8, <4>1 DEF Known
    <3>10. ASSUME p.address \notin overlooked', Lasting(p)'
           PROVE  Known(p, s, p.height)'
      <4>1. CASE w = "block"
        <5>1. p.address \notin Overlooking
          BY <2>1, <3>10, <4>1
        <5>2. h = Depth[block]
          BY <4>1 DEF h, Height
        <5>3. ~(a.create > h /\ a.address \in Paid(job["block"].txs))
          BY <3>3, <3>6, <5>1, <5>2 DEF Overlooking
        <5>4. x \in Paid(job["block"].txs)
          BY <3>5, <4>1 DEF j
        <5>5. a.create <= h
          BY <2>4, <3>6, <3>7, <5>3, <5>4
        <5> QED
          BY <2>6, <3>3, <3>6, <3>8, <5>5 DEF Known
      <4>2. CASE w = "mempool"
        <5>1. p.height = Unconfirmed
          BY <2>4, <3>3, <4>2
        <5> QED
          BY <3>9, <5>1 DEF Known
      <4> QED
        BY <4>1, <4>2 DEF Handler
    <3> QED
      BY <3>9, <3>10 DEF Findable
  <2>12. KeptInv'
    <3>1. \A o \in db.outs : OutFrom(o, o)
      BY DEF OutFrom
    <3>2. \A p \in db'.outs :
            \/ \E o \in db.outs : OutFrom(p, o) /\ (Lasting(p)' => Lasting(o) /\ p.height = o.height)
            \/ \A s \in db'.tx : s.id = p.id => Findable(p, s)'
      BY <2>10, <2>11, <3>1
    <3>3. phase' \in {"run", "undo"} => phase \in {"run", "undo"}
      BY <2>1
    <3> QED
      BY <2>2, <2>6, <2>8, <2>9, <3>2, <3>3, KeptStill
  <2>13. PaidInv'
    <3>1. job'[w].pc \notin {"new", "insert"}
      BY <2>1
    <3> QED
      BY <2>1, <2>2, <2>8, <3>1, PaidStill
  <2> QED
    BY <2>12, <2>13 DEF AddressesInv
<1> QED
  BY <1>1, <1>2 DEF Insert, Refused

\* Every step keeps the addresses.
LEMMA AddressesNext ==
  ASSUME LedgerInv, LedgerInv', AddressesInv, [Next]_vars
  PROVE  AddressesInv'
<1>0. "block" \in Handler
  BY DEF Handler
<1>1. ASSUME NEW w \in Handler, WriteTransactions(w) PROVE AddressesInv'
  <2>1. CASE Replace(w) \/ CreateTransactions(w)
    BY <2>1, AddressesReplace, AddressesCreate
  <2>2. CASE CreateWitnesses(w) \/ Link(w) \/ CreateBalances(w) \/ CreateReceipts(w)
    BY <2>2, AddressesTables
  <2>3. CASE FindAddresses(w)
    BY <2>3, AddressesTurn
  <2>4. CASE CreateAddresses(w) \/ Insert(w)
    BY <2>4, AddressesAdd, AddressesInsert
  <2> QED
    BY <1>1, <2>1, <2>2, <2>3, <2>4 DEF WriteTransactions
<1>2. CASE Clean \/ Undo \/ Lower
  BY <1>2, AddressesClean, AddressesUndo, AddressesLower
<1>3. CASE Adopt \/ Spend \/ Adjust \/ ProcessContracts
  BY <1>0, <1>3, AddressesTables
<1>4. CASE Crash
  <2>1. \E reason : Stop(reason)
    BY <1>4 DEF Crash
  <2> QED
    BY <2>1, AddressesPlain
<1>5. CASE \/ Start \/ StoreStartTip \/ OnSynced
           \/ \E b \in Block : GoBack(b) \/ BeginBlock(b)
           \/ Commit \/ UNCHANGED vars
  BY <1>5, AddressesPlain
<1>6. CASE \/ FindUnconfirmed \/ Number \/ StoreTxTip
           \/ \E t \in Relayed : Deliver(t)
           \/ Validate \/ FinishTransaction
  BY <1>6, AddressesTurn
<1> QED
  BY <1>1, <1>2, <1>3, <1>4, <1>5, <1>6 DEF Next

\* The genesis block pays one address.
LEMMA AddressesInit ==
  ASSUME Init
  PROVE  AddressesInv
<1>1. PICK t \in Tx : Contents[Genesis] = <<t>>
  BY GenesisAssumption
<1>2. Contents[Genesis][1] = t
  BY <1>1
<1>3. /\ db.tx = {[id |-> 1, tx |-> t, height |-> 0, index |-> 0]}
      /\ db.outs = {[id |-> 1, at |-> 1, height |-> 0, address |-> 2, by |-> 0, byAt |-> 0,
                     byHeight |-> Null]}
      /\ db.addresses = {[id |-> 2, address |-> Pays[t][1], create |-> 0]}
  BY <1>2 DEF Init, GenesisTables
<1>4. Unconfirmed \in Nat
  BY LedgerAssumption
<1>5. ASSUME NEW o \in db.outs, NEW r \in db.tx, NEW h \in Nat
      PROVE  Known(o, r, h)
  <2>1. o.at = 1 /\ o.address = 2 /\ r.tx = t
    BY <1>3
  <2>2. \E a \in db.addresses : a.id = 2 /\ a.address = Pays[t][1] /\ a.create = 0
    BY <1>3
  <2> QED
    BY <2>1, <2>2 DEF Known
<1>6. \A o \in db.outs : o.height = 0
  BY <1>3
<1>7. KeptInv
  <2>1. AddressShape
    BY <1>3, <1>4 DEF AddressShape
  <2>2. \A o \in db.outs, r \in db.tx : Findable(o, r)
    BY <1>4, <1>5, <1>6 DEF Findable
  <2> QED
    BY <2>1, <2>2 DEF KeptInv
<1>8. \A w \in Handler : job[w].pc = "none"
  BY DEF Init, NoJob
<1> QED
  BY <1>7, <1>8 DEF AddressesInv, PaidInv

\* What they say of what is committed.
LEMMA AddressesImplied ==
  ASSUME LedgerInv, AddressesInv
  PROVE  AddressesKept
<1> USE DEF LedgerInv, WorkInv, TableInv
<1> SUFFICES ASSUME NEW o \in db.outs, UpTo(Depth[storedTip], o.height), o.address \notin overlooked
             PROVE  \E a \in db.addresses : a.id = o.address /\ a.create <= o.height
                                             /\ a.address = Pays[TxOf(o.id)][o.at]
  BY DEF AddressesKept
<1>1. Lasting(o)
  BY DEF Lasting, Committed, UpTo, H
<1>2. PICK r \in db.tx : r.id = o.id
  BY DEF OwnInv, With
<1>3. TxOf(o.id) = r.tx
  <2>1. \A q \in db.tx : q.id = o.id => q = r
    BY <1>2 DEF KeyInv
  <2> QED
    BY <1>2, <2>1 DEF TxOf
<1>4. Known(o, r, o.height)
  BY <1>1, <1>2 DEF AddressesInv, KeptInv, Findable
<1> QED
  BY <1>3, <1>4 DEF Known

\* The ledger and its addresses, in every state, if peers are calm (CalmMempool),
\* no block comes during onSynced() (CalmStart), and no transaction that spends
\* another of its block has a rival for a coin (Unrivalled).
THEOREM AddressesInvariant ==
  ASSUME CalmMempool, CalmStart, Unrivalled
  PROVE  Spec => [](LedgerInv /\ AddressesInv)
<1> USE DEF Calm
<1>1. Init => LedgerInv /\ AddressesInv
  BY LedgerInit, AddressesInit
<1>2. LedgerInv /\ AddressesInv /\ [Next]_vars => (LedgerInv /\ AddressesInv)'
  BY LedgerNext, AddressesNext
<1> QED
  BY <1>1, <1>2, PTL DEF Spec

\* AddressesKept: after any blocks, replacements, reorganizations, stops and starts
\* that the three hypotheses allow, the address of a committed output is in the
\* table from the height of the output on, unless a block has found it at a
\* greater height and left it there.
THEOREM AddressesTheorem ==
  ASSUME CalmMempool, CalmStart, Unrivalled
  PROVE  Spec => []AddressesKept
<1> USE DEF Calm
<1>1. LedgerInv /\ AddressesInv => AddressesKept
  BY AddressesImplied
<1> QED
  BY <1>1, AddressesInvariant, PTL
===============================================================================
