----------------------------- MODULE AsyncQueue -----------------------------
(***************************************************************************)
(* The work queue of src/node/utils.js, through which the header, block    *)
(* and mempool services feed what the peers send to one handler at a time. *)
(* The module is meant to be instantiated by a service, which supplies the *)
(* handler: Push and Resolve say what the queue itself does around it.     *)
(*                                                                         *)
(* waiting is the array of the entries pushed and not started.  process()  *)
(* takes its entries with Array.pop(), from the end: the newest entry is   *)
(* started first.                                                          *)
(*                                                                         *)
(* running is the entry whose promise is pending, NoItem when #running is  *)
(* false, and Stalled after a rejection: only the callback is called then, *)
(* so #running stays true and nothing takes an entry any more.             *)
(***************************************************************************)
EXTENDS Sequences, SequencesExt

CONSTANTS Item, NoItem, Stalled

VARIABLES waiting, running

Init ==
  /\ waiting = <<>>
  /\ running = NoItem

\* process(): start the entry at the end of w.
Process(w) ==
  /\ running' = Last(w)
  /\ waiting' = Front(w)

Push(data) ==
  LET w == Append(waiting, data)
  IN  IF running = NoItem THEN Process(w)
      ELSE waiting' = w /\ UNCHANGED running

\* The promise of the running entry is fulfilled: its callback is called and
\* the next entry, if there is one, is started.
Resolve ==
  /\ running \in Item
  /\ IF waiting # <<>> THEN Process(waiting)
     ELSE running' = NoItem /\ UNCHANGED waiting

\* It is rejected: its callback gets the error.
Reject ==
  /\ running \in Item
  /\ running' = Stalled
  /\ UNCHANGED waiting

TypeOK ==
  /\ waiting \in Seq(Item)
  /\ running \in Item \cup {NoItem, Stalled}
=============================================================================
