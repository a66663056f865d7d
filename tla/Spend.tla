---- MODULE Spend ----
(***************************************************************************)
(* The Bitcoin transaction that pays a match, as bytes and satoshis        *)
(* (sdk/src/btc.ts): what buildSpendTx takes from the inputs, and what     *)
(* makes of a signature of the Ika network one that Bitcoin's nodes        *)
(* accept.                                                                 *)
(*                                                                         *)
(* A signature is a record of two Words, big-endian sequences of bytes;    *)
(* the code's are 32 bytes long, and the order that of secp256k1.  A fee   *)
(* rate, a floating-point number of the keeper's environment, is a         *)
(* multiple of one thousandth of a satoshi.  Of a script only its kind and *)
(* the hash it pays to are kept.                                           *)
(*                                                                         *)
(* What the code computes in a loop is a function of the number of         *)
(* iterations.                                                             *)
(***************************************************************************)
EXTENDS Bytes, Sequences

CONSTANTS
    WordLen,     \* bytes of r and of s
    OrderWord    \* the order of the curve's group

Words == ByteStrings(WordLen)
Signatures == [r : Words, s : Words]

ASSUME SpendAssumption ==
    /\ WordLen \in Nat \ {0} /\ WordLen <= 32
    /\ OrderWord \in Words

-----------------------------------------------------------------------------
(* buildSpendTx *)

Milli == 1000

CeilDiv(a, b) == (a + b - 1) \div b

EstVBytes(n) == 68 * n + 2 * 31 + 11

Fee(rate, n) == CeilDiv(rate * EstVBytes(n), Milli)

Sums(values) ==
    LET sum[i \in 0..Len(values)] == IF i = 0 THEN 0 ELSE sum[i - 1] + values[i]
    IN  sum

TotalIn(values) == Sums(values)[Len(values)]

Spendable(values, amount, rate) ==
    /\ amount > 0 /\ rate > 0 /\ values # <<>>
    /\ TotalIn(values) >= amount + Fee(rate, Len(values))

\* Change of any size is paid, one satoshi included.
SpendOutputs(values, amount, rate) ==
    LET change == TotalIn(values) - amount - Fee(rate, Len(values))
    IN  IF change > 0 THEN <<amount, change>> ELSE <<amount>>

-----------------------------------------------------------------------------
(* The signature of an external signer *)

SighashAll == 1

Order == Number(OrderWord, WordLen)

IsLowS(rs) == Number(rs.s, WordLen) <= Order \div 2

NormaliseLowS(rs) ==
    IF IsLowS(rs) THEN rs ELSE [rs EXCEPT !.s = BigEndian(Order - Number(rs.s, WordLen), WordLen)]

\* The first byte that is not zero, or the last.
Lead(w) ==
    CHOOSE i \in 1..Len(w) : /\ w[i] # 0 \/ i = Len(w)
                             /\ \A j \in 1..(i - 1) : w[j] = 0

TrimAndPad(w) ==
    LET trimmed == SubSeq(w, Lead(w), Len(w))
    IN  IF trimmed[1] >= 128 THEN <<0>> \o trimmed ELSE trimmed

Der(r, s) ==
    <<48, 4 + Len(r) + Len(s), 2, Len(r)>> \o r \o <<2, Len(s)>> \o s \o <<SighashAll>>

DerEncode(rs) == Der(TrimAndPad(rs.r), TrimAndPad(rs.s))

-----------------------------------------------------------------------------
(* The transaction on its way to the network: its inputs, with the output  *)
(* each spends, its outputs, and the signatures attached so far            *)

Psbt(inputs, outputs) == [ins |-> inputs, outs |-> outputs, sigs |-> {}]

\* The digest of an input commits to the whole transaction.
Signable(psbt, i) == i \in DOMAIN psbt.ins /\ psbt.ins[i].kind = "p2wpkh"

Sighash(psbt, i) ==
    [tx |-> <<psbt.ins, psbt.outs>>, input |-> i, hash |-> psbt.ins[i].hash,
     value |-> psbt.ins[i].value, type |-> SighashAll]

\* valid holds what the library's ECDSA check accepts.
Attachable(psbt, i, pub, rs, valid) ==
    Signable(psbt, i) /\ <<Sighash(psbt, i), pub, NormaliseLowS(rs)>> \in valid

AttachSig(psbt, i, pub, rs) ==
    [psbt EXCEPT !.sigs =
       {p \in @ : p.input # i}
         \cup {[input |-> i, pub |-> pub, sig |-> DerEncode(NormaliseLowS(rs))]}]

\* signAndFinalize: a key of the mock store signs every input, and throws at
\* one that does not pay to it.
PaysTo(psbt, key) == \A i \in DOMAIN psbt.ins : psbt.ins[i].hash = key.hash

SignAll(psbt, key) ==
    [psbt EXCEPT !.sigs =
       {[input |-> i, pub |-> key.pub, sig |-> key.sign[Sighash(psbt, i)]] : i \in DOMAIN psbt.ins}]

Finalizable(psbt) ==
    \A i \in DOMAIN psbt.ins : \E p \in psbt.sigs : p.input = i

-----------------------------------------------------------------------------
(* What the Bitcoin network makes of it: the bytes of a transaction whose  *)
(* inputs and outputs are P2WPKH, witness bytes counted once and the other *)
(* ones four times, and the strict form of a signature (BIP 66)            *)

CountLen(n) == IF n < 253 THEN 1 ELSE 3

WitnessLen(sigs) == TotalIn([i \in 1..Len(sigs) |-> 36 + Len(sigs[i])])

VSize(sigs, outs) ==
    LET n == Len(sigs)
        base == 4 + CountLen(n) + 41 * n + 1 + 31 * outs + 4
    IN  CeilDiv(4 * base + 2 + WitnessLen(sigs), 4)

\* A positive number in as few bytes as it takes.
StrictInt(w) ==
    /\ Len(w) > 0 /\ w[1] < 128
    /\ Len(w) > 1 /\ w[1] = 0 => w[2] >= 128
====
