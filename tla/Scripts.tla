-------------------------------- MODULE Scripts --------------------------------
(***************************************************************************)
(* src/lib/script: a script as bytes, as chunks, and as an output of one   *)
(* of the known kinds.  The id of a transaction is the hash of its outputs *)
(* as they are written again (lib/transaction/index.js), so what has been  *)
(* read must be written as it was.                                         *)
(*                                                                         *)
(* A chunk is an opcode, or pushes data.  How a script is shown is not     *)
(* modelled.                                                               *)
(***************************************************************************)
EXTENDS Integers, Sequences, SequencesExt

CONSTANTS
  KeyVerify(_),  \* secp256k1.publicKeyVerify
  Script,        \* the bytes of scripts to look at
  ByteCode,      \* data for a contract
  Amount,        \* numbers, as gas limits and prices are
  Key, Hash, Hash32  \* a public key and hashes of 20 and 32 bytes

PushData1 == 76
PushData2 == 77
PushData4 == 78
Op == [zero |-> 0, one |-> 81, four |-> 84, sixteen |-> 96, return |-> 106, dup |-> 118,
       equal |-> 135, equalVerify |-> 136, hash160 |-> 169, checkSig |-> 172,
       checkMultiSig |-> 174, create |-> 193, call |-> 194, sender |-> 196]

Code(c) == [code |-> c, pushes |-> FALSE, data |-> <<>>]
Push(c, d) == [code |-> c, pushes |-> TRUE, data |-> d]

\* Little endian; the bytes of n, w of them, and back.
Bytes(n, w) == [i \in 1 .. w |-> (n \div 256^(i-1)) % 256]
Number(d) == FoldRight(LAMBDA x, n : x + 256 * n, d, 0)

\* The bytes that say how much is pushed.
LengthBytes(c) == IF c = PushData1 THEN 1 ELSE IF c = PushData2 THEN 2
                  ELSE IF c = PushData4 THEN 4 ELSE 0
IsPush(c) == 0 < c /\ c <= PushData4

-----------------------------------------------------------------------------
(* Reading and writing.                                                    *)

Invalid == <<Code(-1)>>

\* parseBuffer: data that end early are taken as they are, a length that does is
\* an error.
Parse(b) ==
  LET from[i \in 1 .. Len(b) + 1] ==
        IF i = Len(b) + 1 THEN <<>>
        ELSE
          LET w == LengthBytes(b[i])
              size == IF w = 0 THEN b[i] ELSE Number(SubSeq(b, i + 1, i + w))
              last == IF i + w + size > Len(b) THEN Len(b) ELSE i + w + size
              chunk == IF IsPush(b[i]) THEN Push(b[i], SubSeq(b, i + w + 1, last)) ELSE Code(b[i])
              rest == from[IF IsPush(b[i]) THEN last + 1 ELSE i + 1]
          IN  IF i + w > Len(b) THEN Invalid
              ELSE IF rest = Invalid THEN Invalid ELSE <<chunk>> \o rest
  IN  from[1]

\* Mutation: the shortest way to push the data.
Write_Shortest(s) ==
  FlattenSeq([i \in DOMAIN s |->
    <<IF s[i].pushes THEN Len(s[i].data) ELSE s[i].code>> \o s[i].data])

\* toBufferWriter.
Write(s) ==
  FlattenSeq([i \in DOMAIN s |->
    <<s[i].code>> \o (IF s[i].pushes THEN Bytes(Len(s[i].data), LengthBytes(s[i].code)) ELSE <<>>)
    \o s[i].data])

\* buildChunk.
Chunk(d) ==
  Push(IF Len(d) < PushData1 THEN Len(d) ELSE IF Len(d) <= 255 THEN PushData1
       ELSE IF Len(d) <= 65535 THEN PushData2 ELSE PushData4, d)

-----------------------------------------------------------------------------
(* Numbers in chunks.                                                      *)

SmallInt(c) == c = Op.zero \/ (c >= Op.one /\ c <= Op.sixteen)
ToSmallInt(c) == IF c = Op.zero THEN 0 ELSE c - Op.one + 1

\* parseNumberChunk; -1 for undefined and NaN.
ParseNumber(c) ==
  IF SmallInt(c.code) THEN ToSmallInt(c.code)
  ELSE IF c.pushes /\ c.data # <<>> THEN Number(c.data) ELSE -1

\* buildNumberChunk: as many bytes as it takes, and one more for the sign.
BuildNumber(n) ==
  LET w == IF n <= 255 THEN 1 ELSE IF n <= 65535 THEN 2 ELSE IF n <= 16777215 THEN 3 ELSE 4
      d == Bytes(n, w)
  IN  Chunk(IF d[w] >= 128 THEN Append(d, 0) ELSE d)

-----------------------------------------------------------------------------
(* The kinds of outputs: build and isValid.                                *)

HasData(c, n) == c.pushes /\ Len(c.data) = n
IsOp(c, op) == c = Code(op)
EVM(s, i) == ParseNumber(s[i]) = 4

IsPubKey(s) == Len(s) = 2 /\ s[1].pushes /\ KeyVerify(s[1].data) /\ IsOp(s[2], Op.checkSig)
IsPubKeyHash(s) ==
  /\ Len(s) = 5
  /\ IsOp(s[1], Op.dup) /\ IsOp(s[2], Op.hash160) /\ HasData(s[3], 20)
  /\ IsOp(s[4], Op.equalVerify) /\ IsOp(s[5], Op.checkSig)
IsScriptHash(s) ==
  Len(s) = 3 /\ IsOp(s[1], Op.hash160) /\ HasData(s[2], 20) /\ IsOp(s[3], Op.equal)
IsMultiSig(s) ==
  /\ Len(s) > 3
  /\ SmallInt(s[1].code)
  /\ \A i \in 2 .. Len(s) - 2 : s[i].pushes /\ KeyVerify(s[i].data)
  /\ SmallInt(s[Len(s) - 1].code) /\ ToSmallInt(s[Len(s) - 1].code) = Len(s) - 3
  /\ IsOp(s[Len(s)], Op.checkMultiSig)
IsWitnessKeyHash(s) == Len(s) = 2 /\ IsOp(s[1], Op.zero) /\ HasData(s[2], 20)
IsWitnessScriptHash(s) == Len(s) = 2 /\ IsOp(s[1], Op.zero) /\ HasData(s[2], 32)
IsCreate(s) == Len(s) = 5 /\ EVM(s, 1) /\ IsOp(s[5], Op.create)
IsCreateBySender(s) == Len(s) = 9 /\ IsOp(s[4], Op.sender) /\ EVM(s, 5) /\ IsOp(s[9], Op.create)
IsCall(s) == Len(s) = 6 /\ EVM(s, 1) /\ IsOp(s[6], Op.call)
IsCallBySender(s) == Len(s) = 10 /\ IsOp(s[4], Op.sender) /\ EVM(s, 5) /\ IsOp(s[10], Op.call)
IsContract(s) == Len(s) = 6 /\ ParseNumber(s[1]) = 0 /\ IsOp(s[6], Op.call)

\* Every class a script is valid for, in the order fromBuffer tries them.
Kinds(s) ==
  LET tried == <<<<"pubkey", IsPubKey(s)>>, <<"pubkeyhash", IsPubKeyHash(s)>>,
                 <<"scripthash", IsScriptHash(s)>>, <<"multisig", IsMultiSig(s)>>,
                 <<"witness_v0_keyhash", IsWitnessKeyHash(s)>>,
                 <<"witness_v0_scripthash", IsWitnessScriptHash(s)>>,
                 <<"evm_create", IsCreate(s)>>, <<"evm_create_sender", IsCreateBySender(s)>>,
                 <<"evm_call", IsCall(s)>>, <<"evm_call_sender", IsCallBySender(s)>>,
                 <<"call", IsContract(s)>>>>
      valid == SelectSeq(tried, LAMBDA x : x[2])
  IN  [i \in DOMAIN valid |-> valid[i][1]]

\* fromBuffer.
Kind(b) ==
  IF b # <<>> /\ b[1] = Op.return THEN "nulldata"
  ELSE IF Kinds(Parse(b)) = <<>> THEN "nonstandard" ELSE Head(Kinds(Parse(b)))
FromBuffer(b) ==
  IF b # <<>> /\ b[1] = Op.return THEN <<Push(Op.return, Tail(b))>> ELSE Parse(b)

\* The scripts that build() returns; those of the classes of multisig and of
\* internal calls throw, whatever they are given.
EVMChunks(gasLimit, gasPrice, byteCode) ==
  <<BuildNumber(4), BuildNumber(gasLimit), BuildNumber(gasPrice), Chunk(byteCode)>>
SenderChunks(type, data, signature) ==
  <<BuildNumber(type), Chunk(data), Chunk(signature), Code(Op.sender)>>
Builds(gas, byteCode) ==
  LET evm == EVMChunks(gas, gas, byteCode)
      sender == SenderChunks(1, Hash, byteCode)
  IN
  [pubkey |-> <<Chunk(Key), Code(Op.checkSig)>>,
   pubkeyhash |-> <<Code(Op.dup), Code(Op.hash160), Chunk(Hash), Code(Op.equalVerify),
                    Code(Op.checkSig)>>,
   scripthash |-> <<Code(Op.hash160), Chunk(Hash), Code(Op.checkSig)>>,
   witness_v0_keyhash |-> <<Code(Op.zero), Chunk(Hash)>>,
   witness_v0_scripthash |-> <<Code(Op.zero), Chunk(Hash32)>>,
   evm_create |-> Append(evm, Code(Op.create)),
   evm_create_sender |-> sender \o Append(evm, Code(Op.create)),
   evm_call |-> evm \o <<Chunk(Hash), Code(Op.call)>>,
   evm_call_sender |-> sender \o evm \o <<Chunk(Hash), Code(Op.call)>>]

-----------------------------------------------------------------------------
\* A script whose last push says that it is longer than it is.
CutShort(b) ==
  LET c == Last(Parse(b))
      w == LengthBytes(c.code)
      at == Len(b) - Len(c.data)
  IN  b # <<>> /\ w > 0 /\ Number(SubSeq(b, at - w + 1, at)) > Len(c.data)

\* What is read is written as it was, unless it is cut short; no script is of two
\* kinds; a number is read as it was written; and what build() returns is of the
\* kind it is built for and is read as it was built.  Two things are not so: the
\* hash of a script, which build() ends with OP_CHECKSIG and isValid() with
\* OP_EQUAL, and empty data, which are read as OP_0 (script/index.js, output.js).
ScriptsExact ==
  /\ \A b \in Script :
       FromBuffer(b) # Invalid =>
         /\ Write(FromBuffer(b)) = b <=> Kind(b) = "nulldata" \/ ~CutShort(b)
         /\ Len(Kinds(Parse(b))) <= 1
  /\ \A n \in Amount : ParseNumber(BuildNumber(n)) = n
  /\ \A n \in Amount, b \in ByteCode :
       LET builds == Builds(n, b) IN
       \A k \in DOMAIN builds :
         /\ b # <<>> => Parse(Write(builds[k])) = builds[k]
         /\ Kind(Write(builds[k])) = IF k = "scripthash" THEN "nonstandard" ELSE k
=============================================================================
