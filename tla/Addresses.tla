------------------------------- MODULE Addresses -------------------------------
(***************************************************************************)
(* src/lib/address.js and src/lib/encoding: base58 with a checksum, bech32 *)
(* and segwit addresses.                                                   *)
(*                                                                         *)
(* A string is the encoding it was made with, and its digits: the indexes  *)
(* in the alphabet of that encoding.  A decoder of another encoding finds  *)
(* characters that are not its own, or a wrong checksum.  Upper case is    *)
(* not modelled.                                                           *)
(***************************************************************************)
EXTENDS Scripts

CONSTANTS
  Chain,        \* the networks: their version bytes and the prefix of witness addresses
  Checksum(_),  \* the first four bytes of the double hash
  KeyHash(_),   \* Hash.sha256ripemd160
  Payload       \* hashes of 20 and 32 bytes, and other bytes to encode

None == [type |-> "none"]

-----------------------------------------------------------------------------
(* base58.js                                                               *)

LeadingZeros(d) ==
  LET others == {i \in DOMAIN d : d[i] # 0}
  IN  IF others = {} THEN Len(d) ELSE (CHOOSE i \in others : \A j \in others : i <= j) - 1

\* The number with these digits, written in another base.
Digits(n, base) ==
  LET from[k \in 0 .. n] == IF k = 0 THEN <<>> ELSE from[k \div base] \o <<k % base>> IN from[n]
Rebase(d, base, to) ==
  LET add(acc, x) ==
        LET carry[i \in 1 .. Len(acc) + 1] ==
              IF i > Len(acc) THEN x ELSE (acc[i] * base + carry[i + 1]) \div to
        IN  Digits(carry[1], to) \o
            [i \in 1 .. Len(acc) |-> (acc[i] * base + carry[i + 1]) % to]
  IN  FoldLeft(add, <<>>, d)

Zeros(n) == [i \in 1 .. n |-> 0]

\* Mutation: the zeros in front, which no number shows, are not kept.
Base58_NoZeros(b) == Rebase(b, 256, 58)

Base58(b) == Zeros(LeadingZeros(b)) \o Rebase(b, 256, 58)
FromBase58(s) == Zeros(LeadingZeros(s)) \o Rebase(s, 58, 256)

Base58Check(b) == Base58(b \o Checksum(b))
\* The data, or <<-1>> when the checksum is not theirs.
FromBase58Check(s) ==
  LET b == FromBase58(s)
      n == IF Len(b) < 4 THEN 0 ELSE Len(b) - 4
      data == SubSeq(b, 1, n)
  IN  IF SubSeq(b, n + 1, Len(b)) = Checksum(data) THEN data ELSE <<-1>>

-----------------------------------------------------------------------------
(* segwit-address.js: convertBits().                                       *)

BitsOf(d, w) ==
  FlattenSeq([i \in DOMAIN d |-> [j \in 1 .. w |-> (d[i] \div 2^(w - j)) % 2]])
Value(bits) == FoldLeft(LAMBDA n, b : 2 * n + b, 0, bits)
Groups(bits, w) == [i \in 1 .. Len(bits) \div w |-> Value(SubSeq(bits, (i - 1) * w + 1, i * w))]

Pad(d) ==
  LET bits == BitsOf(d, 8) IN Groups(bits \o Zeros((5 - (Len(bits) % 5)) % 5), 5)
\* <<-1>> for null: more bits are left than a group has, or not all of them are 0.
Unpad(d) ==
  LET bits == BitsOf(d, 5)
      rest == SubSeq(bits, Len(bits) - (Len(bits) % 8) + 1, Len(bits))
  IN  IF Len(rest) >= 5 \/ rest # Zeros(Len(rest)) THEN <<-1>> ELSE Groups(bits, 8)

-----------------------------------------------------------------------------
(* bech32.js.  A number is the set of its bits, so xor is what is in one   *)
(* of the two.                                                             *)

Bits(n) == {b \in 0 .. 29 : (n \div 2^b) % 2 = 1}
Xor(m, n) == (m \ n) \cup (n \ m)
Shift(m, k) == {b + k : b \in m}

GENERATOR == <<Bits(\h3b6a57b2), Bits(\h26508e6d), Bits(\h1ea119fa), Bits(\h3d4233dd), Bits(\h2a1462b3)>>

Polymod(values) ==
  LET step(mod, x) ==
        FoldLeft(LAMBDA m, i : IF 24 + i \in mod THEN Xor(m, GENERATOR[i]) ELSE m,
                 Shift({b \in mod : b < 25}, 5) \cup Bits(x), <<1, 2, 3, 4, 5>>)
  IN  FoldLeft(step, {0}, values)

\* The prefix, a sequence of character codes, is part of what is checked.
HrpExpand(hrp) ==
  [i \in DOMAIN hrp |-> hrp[i] \div 32] \o <<0>> \o [i \in DOMAIN hrp |-> hrp[i] % 32]
VerifyChecksum(hrp, data) == Polymod(HrpExpand(hrp) \o data) = {0}
CreateChecksum(hrp, data) ==
  LET mod == Xor(Polymod(HrpExpand(hrp) \o data \o Zeros(6)), {0})
  IN  [p \in 1 .. 6 |-> Value([j \in 1 .. 5 |-> IF 5 * (6 - p) + 5 - j \in mod THEN 1 ELSE 0])]

Bech32(hrp, data) == data \o CreateChecksum(hrp, data)
\* <<-1>> for InvalidBech32StringError.
FromBech32(hrp, s) ==
  IF hrp = <<>> \/ Len(s) < 6 \/ Len(hrp) + 1 + Len(s) > 90 \/ ~VerifyChecksum(hrp, s)
  THEN <<-1>> ELSE SubSeq(s, 1, Len(s) - 6)

-----------------------------------------------------------------------------
(* address.js                                                              *)

\* toString().
AddressString(a, chain) ==
  LET check(version) == [as |-> "base58", hrp |-> <<>>, digits |-> Base58Check(<<version>> \o a.data)]
  IN
  CASE a.type = "pubkeyhash" -> check(chain.pubkeyhash)
    [] a.type = "scripthash" -> check(chain.scripthash)
    [] a.type = "evm_contract" -> check(chain.evm)
    [] a.type \in {"witness_v0_keyhash", "witness_v0_scripthash"} ->
         [as |-> "bech32", hrp |-> chain.witnesshrp,
          digits |-> Bech32(chain.witnesshrp, <<0>> \o Pad(a.data))]
    [] a.type = "contract" -> [as |-> "hex", hrp |-> <<>>, digits |-> a.data]

\* SegwitAddress.decode and what fromString makes of it; null is taken apart there,
\* which is an error of its own.
FromSegwit(hrp, s, chain) ==
  LET data == FromBech32(hrp, s)
      program == Unpad(Tail(data))
  IN
  IF data = <<-1>> \/ data = <<>> \/ data[1] > 16 THEN None
  ELSE IF \/ program = <<-1>> \/ Len(program) \notin 2 .. 40
          \/ data[1] = 0 /\ Len(program) \notin {20, 32}
  THEN [type |-> "TypeError"]
  ELSE IF hrp = chain.witnesshrp /\ data[1] = 0
  THEN [type |-> IF Len(program) = 20 THEN "witness_v0_keyhash" ELSE "witness_v0_scripthash",
        data |-> program]
  ELSE None

\* fromString.
FromString(string, chain) ==
  LET d == FromBase58Check(string.digits)
      version == [v \in {chain.pubkeyhash, chain.scripthash, chain.evm} |->
                   IF v = chain.pubkeyhash THEN "pubkeyhash"
                   ELSE IF v = chain.scripthash THEN "scripthash" ELSE "evm_contract"]
  IN
  CASE string.as = "hex" ->
         IF Len(string.digits) = 20 THEN [type |-> "contract", data |-> string.digits] ELSE None
    [] string.as = "base58" ->
         IF Len(d) = 21 /\ d[1] \in DOMAIN version
         THEN [type |-> version[d[1]], data |-> Tail(d)] ELSE None
    [] string.as = "bech32" -> FromSegwit(string.hrp, string.digits, chain)

\* fromScript: the address that a script pays, in output number index of
\* transaction id.
FromScript(b, id, index) ==
  LET s == FromBuffer(b)
      address(type, data) == [type |-> type, data |-> data]
      kind == Kind(b)
  IN
  CASE kind = "pubkey" -> address("pubkeyhash", KeyHash(s[1].data))
    [] kind = "pubkeyhash" -> address("pubkeyhash", s[3].data)
    [] kind \in {"scripthash", "witness_v0_keyhash", "witness_v0_scripthash"} ->
         address(kind, s[2].data)
    [] kind \in {"evm_create", "evm_create_sender"} ->
         address("evm_contract", KeyHash(Reverse(id) \o Bytes(index, 4)))
    [] kind = "evm_call" -> address("evm_contract", s[5].data)
    [] kind = "evm_call_sender" -> address("evm_contract", s[9].data)
    [] kind = "call" -> address("contract", s[5].data)
    [] kind \in {"multisig", "nulldata", "nonstandard"} -> None

-----------------------------------------------------------------------------
Types == [pubkeyhash |-> 20, scripthash |-> 20, evm_contract |-> 20, contract |-> 20,
          witness_v0_keyhash |-> 20, witness_v0_scripthash |-> 32]

\* What is encoded is decoded as it was, with the zeros in front; the string of an
\* address is read as that address, on another network as that address or as none;
\* a witness address with one wrong character is none; and the address shown for a
\* script that build() returned is one that can be read again (base58.js:22-60,
\* segwit-address.js:14-68, bech32.js:15-97, address.js:30-178).
AddressesExact ==
  /\ \A d \in Payload : FromBase58(Base58(d)) = d /\ Unpad(Pad(d)) = d
  /\ \A chain, other \in Chain, t \in DOMAIN Types, d \in Payload :
       Len(d) = Types[t] =>
         LET a == [type |-> t, data |-> d]
             s == AddressString(a, chain)
         IN
         /\ FromString(s, chain) = a
         /\ FromString(s, other) \in {a, None}
         /\ s.as = "bech32" /\ d \in {Hash, Hash32} =>
              \A i \in DOMAIN s.digits, c \in 0 .. 31 :
                c # s.digits[i] => FromString([s EXCEPT !.digits[i] = c], chain) = None
  /\ \A chain \in Chain, n \in Amount :
       LET builds == Builds(n, Hash) IN
       \A k \in DOMAIN builds \ {"scripthash"} :
         LET a == FromScript(Write(builds[k]), Hash32, n) IN
         a # None /\ FromString(AddressString(a, chain), chain) = a
=============================================================================
