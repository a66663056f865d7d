---- MODULE Bytes ----
(***************************************************************************)
(* Numbers as bytes, the way the code's loops and DataView calls write and *)
(* read them.  A loop is a function of the number of its iterations.       *)
(***************************************************************************)
EXTENDS Integers

Byte == 0..255

ByteStrings(n) == [1..n -> Byte]

\* The number that the first i bytes of w are.
Read(w, n) ==
    LET value[i \in 0..n] == IF i = 0 THEN 0 ELSE 256 * value[i - 1] + w[i]
    IN  value

Number(w, n) == Read(w, n)[n]

\* v after i shifts by eight bits; a negative one stays negative.
Shifts(v, n) ==
    LET rest[i \in 0..n] == IF i = 0 THEN v ELSE rest[i - 1] \div 256
    IN  rest

BigEndian(v, n) == [i \in 1..n |-> Shifts(v, n)[n - i] % 256]

LittleEndian(v, n) == [i \in 1..n |-> Shifts(v, n)[i - 1] % 256]

Backwards(w, n) == [i \in 1..n |-> w[n + 1 - i]]

FromLittleEndian(w, n) == Number(Backwards(w, n), n)

Largest(n) == Number([i \in 1..n |-> 255], n)
====
