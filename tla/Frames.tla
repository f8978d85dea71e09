--------------------------------- MODULE Frames ---------------------------------
(***************************************************************************)
(* How a peer cuts what it receives into messages: the receive buffer of   *)
(* p2p/peer.js and parseBuffer() of p2p/commands/messages.js.              *)
(*                                                                         *)
(* A stream is a sequence of frames: messages of a known command or of     *)
(* another one, intact or with a wrong checksum, and runs of bytes that    *)
(* begin no message.  The four magic bytes occur nowhere but at the start  *)
(* of a message.  It arrives in pieces that end anywhere.                  *)
(***************************************************************************)
EXTENDS Integers, Sequences, SequencesExt

CONSTANTS
  Streams,     \* sequences of frames to look at
  MaxPieces,   \* how many pieces one arrives in (bound)
  MAX_RECEIVE_BUFFER

MINIMUM_LENGTH == 20
HeaderLength == 24

Frame == [size : Nat, magic : BOOLEAN, known : BOOLEAN, intact : BOOLEAN]

IsRead(f) == f.magic /\ f.known /\ f.intact

\* The position at which frame i begins; the frames that begin at a position.
Start(s, i) == FoldLeft(LAMBDA n, f : n + f.size, 0, SubSeq(s, 1, i - 1))
Total(s) == Start(s, Len(s) + 1)
FramesAt(s, pos) == {i \in DOMAIN s : s[i].magic /\ Start(s, i) = pos}

\* Mutation: nothing of the piece is kept.
Discard_All(pos, end) == end

\* _discardUntilNextMessage: it looks at the same four bytes again and again, and
\* when they are not the magic ones skips all but three bytes of what there is.
Discard(pos, end) == end - 3

\* parseBuffer: where the buffer begins afterwards, and the message it returns.
ParseBuffer(s, pos, end) ==
  LET returns(p, i) == [pos |-> p, message |-> i] IN
  IF end - pos < MINIMUM_LENGTH THEN returns(pos, 0)
  ELSE IF FramesAt(s, pos) = {} THEN returns(Discard(pos, end), 0)
  ELSE LET i == CHOOSE i \in FramesAt(s, pos) : TRUE IN
       IF end - pos < s[i].size THEN returns(pos, 0)
       ELSE returns(pos + s[i].size, IF IsRead(s[i]) THEN i ELSE 0)

\* readMessage: as long as there is a message.
ReadMessages(s, pos, end) ==
  LET from[p \in 0 .. end] ==
        LET r == ParseBuffer(s, p, end) IN
        IF r.message = 0 THEN [pos |-> r.pos, emitted |-> <<>>]
        ELSE [pos |-> from[r.pos].pos, emitted |-> <<r.message>> \o from[r.pos].emitted]
  IN  from[pos]

\* The 'data' handler: the stream has arrived up to end.
Receive(s, peer, end) ==
  IF ~peer.open THEN peer
  ELSE IF end - peer.pos > MAX_RECEIVE_BUFFER THEN [peer EXCEPT !.open = FALSE]
  ELSE LET r == ReadMessages(s, peer.pos, end) IN
       [peer EXCEPT !.pos = r.pos, !.emitted = @ \o r.emitted]

\* The peer after pieces that end at the positions of ends.
Received(s, ends) ==
  FoldLeft(LAMBDA peer, end : Receive(s, peer, end),
           [pos |-> 0, emitted |-> <<>>, open |-> TRUE], SetToSortSeq(ends, <))

-----------------------------------------------------------------------------
\* However a stream is cut, no message is emitted twice, out of order or in part.
\* As long as every frame is a message, each one that is read is emitted by the end, but
\* for those that wait behind one that is not for a further piece.  After bytes
\* that begin no message, nothing is emitted again unless a piece ends three bytes
\* into a message (messages.js:45).
FramesExact ==
  \A s \in Streams :
  \A pieces \in [1 .. MaxPieces - 1 -> 1 .. Total(s)] :
    LET ends == ToSet(pieces) \cup {Total(s)}
        peer == Received(s, ends)
        emitted == ToSet(peer.emitted)
        bad == {i \in DOMAIN s : ~s[i].magic}
    IN
    /\ \A k \in 1 .. Len(peer.emitted) - 1 : peer.emitted[k] < peer.emitted[k + 1]
    /\ \A i \in emitted : IsRead(s[i])
    /\ peer.open /\ bad = {} =>
         /\ emitted = {i \in DOMAIN s : IsRead(s[i]) /\ Start(s, i) < peer.pos}
         /\ peer.pos = Total(s) \/ \E i \in DOMAIN s : ~IsRead(s[i]) /\ Start(s, i + 1) = peer.pos
    /\ \A b \in bad, i \in emitted :
         b < i => \E j \in b + 1 .. i : Start(s, j) + 3 \in ends
    /\ Total(s) <= MAX_RECEIVE_BUFFER => peer.open
=============================================================================
