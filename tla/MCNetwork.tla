------------------------------- MODULE MCNetwork -------------------------------
EXTENDS PeerPool, Addresses, Frames

MCKeyVerify(d) == Len(d) = 33 /\ d[1] \in {2, 3}
MCKey == <<2>> \o [i \in 1 .. 32 |-> 7]
MCHash == [i \in 1 .. 20 |-> i]
MCHash32 == [i \in 1 .. 32 |-> i]
MCAmount == {0, 1, 16, 17, 127, 128, 255, 256, 32767, 32768, 65535, 65536, 8388607, 8388608,
             16777215, 16777216, 2147483647}
MCScript == UNION {[1 .. n -> {0, 1, 2, 76, 77, 106, 172}] : n \in 0 .. 4}
            \cup {Write(<<Chunk([i \in 1 .. n |-> 1])>>) : n \in {75, 76, 255, 256, 65535, 65536}}
MCByteCode == {[i \in 1 .. n |-> 106] : n \in {0, 1, 2, 75, 76, 255, 256, 600}}

MCMessage(n, known, intact) == [size |-> HeaderLength + n, magic |-> TRUE, known |-> known, intact |-> intact]
MCGarbage == [size |-> 19, magic |-> FALSE, known |-> FALSE, intact |-> FALSE]
MCFrame == {MCMessage(0, TRUE, TRUE), MCMessage(2, TRUE, TRUE), MCMessage(1, FALSE, TRUE),
            MCMessage(1, TRUE, FALSE), MCGarbage}
MCStreams == UNION {[1 .. n -> MCFrame] : n \in 1 .. 2} \cup
             {<<MCMessage(1, FALSE, TRUE), MCMessage(0, TRUE, TRUE), MCMessage(2, TRUE, TRUE)>>,
              <<MCGarbage, MCMessage(0, TRUE, TRUE), MCMessage(2, TRUE, TRUE)>>,
              <<MCMessage(2, TRUE, TRUE), MCMessage(0, TRUE, TRUE), MCMessage(0, TRUE, TRUE)>>}

MCChain == {[pubkeyhash |-> 58, scripthash |-> 50, evm |-> 33, witnesshrp |-> <<113, 99>>],
            [pubkeyhash |-> 120, scripthash |-> 110, evm |-> 92, witnesshrp |-> <<116, 113>>]}
MCChecksum(d) ==
  LET sum == FoldLeft(LAMBDA n, x : (3 * n + x + 1) % 65536, 1, d)
  IN  <<sum % 256, sum \div 256, Len(d), 0>>
MCKeyHash(d) == [i \in 1 .. 20 |-> (Len(d) * i) % 256]
MCPayload == {MCHash, MCHash32, [i \in 1 .. 20 |-> IF i < 4 THEN 0 ELSE 255], Zeros(20)} \cup
             UNION {[1 .. n -> {0, 1, 57, 58, 255}] : n \in 0 .. 3}

(* The conversions do not depend on the state: TLC evaluates them in the first one. *)

\* A script that is read is written as it was, unless it is cut short; it is of one kind at
\* most; and what build() returns is of the kind it is built for, for numbers and data at
\* the boundaries of their encodings (script/index.js, output.js).
ScriptsRead == Init => ScriptsExact

\* A stream of messages cut into packets anywhere emits no message twice, out of order or
\* in part, and loses none while every frame is a message (messages.js:32-74).
FramesRead == Init => FramesExact

\* The string of an address is read as that address, leading zeros included, on another
\* network as that address or as none, and with one wrong character as none when it is a
\* witness address (address.js:30-178, base58.js, bech32.js, segwit-address.js).
AddressesRead == Init => AddressesExact
=============================================================================
