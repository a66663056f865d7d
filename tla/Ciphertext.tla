---- MODULE Ciphertext ----
(***************************************************************************)
(* The ciphertext ids of an order (sdk/src/encrypt.ts): what the Encrypt   *)
(* network is asked, the mock id that carries its plaintext, and what the  *)
(* keeper and the debug CLI read from an id.                               *)
(*                                                                         *)
(* An id is a sequence of bytes; the code's have 14 of salt, 8 of zeros    *)
(* and 8 of value.  An id of the network is any sequence as long.          *)
(***************************************************************************)
EXTENDS Bytes, Sequences

CONSTANTS SaltLen, ZeroLen, ValueLen

ASSUME CiphertextAssumption ==
    SaltLen \in Nat /\ ZeroLen \in Nat /\ ValueLen \in Nat \ {0}

ValueAt == 2 + SaltLen + ZeroLen
CtIdLen == ValueAt + ValueLen

MockTag == 227
EBool == 0
EUint64 == 4

U64 == 0..Largest(ValueLen)
Salts == [1..SaltLen -> Byte]
CtIds == [1..CtIdLen -> Byte]

-----------------------------------------------------------------------------
(* The mock *)

MockEncrypt(value, fheType, salt) ==
    [i \in 1..CtIdLen |->
       CASE i = 1 -> MockTag
         [] i = 2 -> fheType
         [] i \in 3..(2 + SaltLen) -> salt[i - 2]
         [] i > ValueAt -> LittleEndian(value, ValueLen)[i - ValueAt]
         [] OTHER -> 0]

\* Only ids of this shape are unpacked.
IsMock(ct) == Len(ct) = CtIdLen /\ ct[1] = MockTag

MockUnpack(ct) ==
    [fheType |-> ct[2],
     value |-> FromLittleEndian([i \in 1..ValueLen |-> ct[ValueAt + i]], ValueLen)]

-----------------------------------------------------------------------------
(* encryptOrder: the three inputs go one way *)

Input(value, fheType) == [value |-> value, fheType |-> fheType]

SideValue(side) == IF side = "bid" THEN 0 ELSE 1

OrderInputs(side, price, size) ==
    <<Input(SideValue(side), EBool), Input(price, EUint64), Input(size, EUint64)>>

InRange(price, size) == price \in U64 /\ size \in U64

\* The one request that carries them all, to be read by the program alone
\* and under the placeholder of the network's key.
CreateInput(inputs, program) ==
    [chain |-> 0, authorized |-> program, networkKey |-> 0,
     inputs |-> [i \in 1..Len(inputs) |->
                   [ciphertextBytes |-> LittleEndian(inputs[i].value, ValueLen),
                    fheType |-> inputs[i].fheType]]]

Blob(cts) == [side_ct |-> cts[1], price_ct |-> cts[2], size_ct |-> cts[3]]

\* One input alone.  id is the network's answer.
EncryptSide(via, side, id, salt) ==
    IF via = "real" THEN id ELSE MockEncrypt(SideValue(side), EBool, salt)

EncryptU64(via, value, id, salt) ==
    IF via = "real" THEN id ELSE MockEncrypt(value, EUint64, salt)

\* ids is the network's answer; it is not counted.
OrderBlob(via, side, price, size, ids, salts) ==
    LET in == OrderInputs(side, price, size)
    IN  IF via = "real" THEN Blob(ids)
        ELSE Blob([i \in 1..3 |-> MockEncrypt(in[i].value, in[i].fheType, salts[i])])

-----------------------------------------------------------------------------
(* What is read from an id *)

\* requestThresholdDecrypt
Decryptable(mode, ct) == mode # "real" /\ IsMock(ct)

ThresholdDecrypt(ct) == MockUnpack(ct).value

\* keeperDecryptSide: an id that is not decrypted tells its side by a byte.
KeeperReadsAsk(mode, ct) ==
    IF Decryptable(mode, ct) THEN ThresholdDecrypt(ct) = 1 ELSE ct[ValueAt + 1] = 1

DescribeCiphertext(ct) ==
    CASE Len(ct) # CtIdLen -> <<"unknown-shape", Len(ct)>>
      [] IsMock(ct) -> <<"mock", ct[2]>>
      [] OTHER -> <<"real-or-foreign">>
====
