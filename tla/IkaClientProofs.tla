---- MODULE IkaClientProofs ----
(***************************************************************************)
(* Proofs about the SDK's clients: IkaClient, for any number of calls,     *)
(* dWallets and wallets and with no assumption on the constants, and the   *)
(* functions of Spend and Ciphertext, for words, salts and values of any   *)
(* length (a signature's words have at most 32 bytes), and the guard of    *)
(* Boot, for any settings.                                                 *)
(***************************************************************************)
EXTENDS IkaClient, Spend, Ciphertext, Boot, Induction, SequenceTheorems, TLAPS

\* The kind of key an id of that length has.
KeyOf(id) == IF id[1] = 33 THEN "mpc" ELSE "wif"

StoreTypeOK  == store \in [Ids -> Entries]
KeysByLength == \A id \in Ids : Exists(id) => store[id].key = KeyOf(id)

\* A signing call works with the key its dWallet has.
SignsWithKey(r) ==
    r.op = "requestSign" /\ r.pc \in {"real", "mock", "returned"} =>
        r.id \in Ids /\ r.key = KeyOf(r.id)

\* The network is not tried in mock mode.  The mock branch is not reached in
\* real mode, and by a signature in auto mode only with a key of the network.
MockReached(r) ==
    /\ r.pc = "real" => r.mode # "mock"
    /\ r.pc = "mock" => /\ r.mode # "real"
                        /\ r.op = "requestSign" /\ r.mode = "auto" => r.key = "mpc"

\* Where the result of a call that returned came from.
ViaRight(r) ==
    r.pc = "returned" =>
        \/ r.via = "real-ok" /\ r.mode # "mock" /\ (r.op = "requestSign" => r.key = "mpc")
        \/ r.via = "mock" /\ r.mode = "mock" /\ (r.op = "requestSign" => r.key = "wif")
        \/ r.via = "real-failed-fallback" /\ r.mode = "auto" /\ r.op # "requestSign"

CallOK(r) == r \in CallRecs /\ SignsWithKey(r) /\ MockReached(r) /\ ViaRight(r)
CallsOK   == call \in [Calls -> CallRecs] /\ \A c \in Calls : CallOK(call[c])

IInv == StoreTypeOK /\ KeysByLength /\ CallsOK

-----------------------------------------------------------------------------

LEMMA IdParts ==
    ASSUME NEW id \in Ids
    PROVE  /\ id[1] \in {32, 33} /\ id[2] \in Draws
           /\ OnChain(id) \in Ids /\ OnChain(id)[1] = 32
BY DEF Ids, OnChain

LEMMA IdsMade ==
    ASSUME NEW n \in {32, 33}, NEW d \in Draws
    PROVE  <<n, d>> \in Ids /\ <<n, d>>[1] = n
BY DEF Ids

\* createDWallet stores a key of the kind that the id says.
LEMMA SetKeeps ==
    ASSUME StoreTypeOK, KeysByLength, NEW id \in Ids, NEW w \in Wallets \cup {None},
           Set(id, KeyOf(id), w)
    PROVE  StoreTypeOK' /\ KeysByLength'
<1>1. KeyOf(id) \in {"wif", "mpc"}
  BY DEF KeyOf
<1>2. StoreTypeOK'
  BY <1>1 DEF Set, StoreTypeOK, Entries
<1>3. KeysByLength'
  BY <1>1 DEF Set, StoreTypeOK, Entries, KeysByLength, Exists, KeyOf
<1> QED BY <1>2, <1>3

LEMMA StoreKept ==
    ASSUME StoreTypeOK, KeysByLength, UNCHANGED store
    PROVE  StoreTypeOK' /\ KeysByLength'
BY DEF StoreTypeOK, KeysByLength, Exists, KeyOf

\* A step that gives one call a sound record keeps the others.
LEMMA CallKept ==
    ASSUME CallsOK, NEW c \in Calls, NEW r, CallOK(r), call' = [call EXCEPT ![c] = r]
    PROVE  CallsOK'
<1>1. call' \in [Calls -> CallRecs]
  BY DEF CallsOK, CallOK
<1>2. ASSUME NEW x \in Calls PROVE CallOK(call'[x])
  <2>1. CASE x = c
    BY <2>1 DEF CallsOK
  <2>2. CASE x # c
    <3>1. call'[x] = call[x]
      BY <2>2 DEF CallsOK
    <3> QED BY <3>1 DEF CallsOK
  <2> QED BY <2>1, <2>2
<1>3. \A x \in Calls : CallOK(call[x])'
  BY <1>2 DEF CallOK, SignsWithKey, MockReached, ViaRight, CallRecs, Ids, KeyOf, Modes, Ops
<1> QED BY <1>1, <1>3 DEF CallsOK

\* A call that throws owes nothing.
LEMMA ThrowKeeps ==
    ASSUME CallsOK, NEW c \in Calls, Throw(c)
    PROVE  CallsOK'
<1> DEFINE r == [call[c] EXCEPT !.pc = "threw", !.timer = "off", !.via = "none"]
<1>1. call[c] \in CallRecs
  BY DEF CallsOK
<1>2. CallOK(r)
  BY <1>1 DEF CallOK, CallRecs, SignsWithKey, MockReached, ViaRight
<1>3. call' = [call EXCEPT ![c] = r]
  BY <1>1 DEF Throw, End, CallsOK, CallRecs
<1> HIDE DEF r
<1> QED BY <1>2, <1>3, CallKept

\* A call begins with what it will work on.
LEMMA TryRealKeeps ==
    ASSUME CallsOK, NEW c \in Calls, NEW op \in Ops, NEW m \in Modes,
           NEW w \in Wallets \cup {None}, NEW id \in Ids \cup {None},
           NEW key \in {"none", "wif", "mpc"},
           op = "requestSign" => id \in Ids /\ key = KeyOf(id),
           TryReal(c, op, m, w, id, key)
    PROVE  CallsOK'
<1> DEFINE r == [op |-> op, mode |-> m, by |-> w, id |-> id, key |-> key, via |-> "none",
                 pc |-> IF m = "mock" THEN "mock" ELSE "real",
                 timer |-> IF m = "mock" THEN "off" ELSE "armed"]
<1>1. r \in CallRecs
  BY DEF CallRecs
<1>2. CallOK(r)
  BY <1>1 DEF CallOK, SignsWithKey, MockReached, ViaRight
<1>3. call' = [call EXCEPT ![c] = r]
  BY DEF TryReal
<1> HIDE DEF r
<1> QED BY <1>2, <1>3, CallKept

-----------------------------------------------------------------------------
(* One lemma per kind of step *)

LEMMA BeginsStep ==
    ASSUME IInv, NEW c \in Calls, NEW m \in Modes, Begins(c, m)
    PROVE  IInv'
<1>1. CallsOK /\ StoreTypeOK /\ KeysByLength
  BY DEF IInv
<1>2. CASE \E w \in Wallets : CreateDWallet(c, m, w)
  <2>1. UNCHANGED store
    BY <1>2 DEF CreateDWallet
  <2>2. CallsOK'
    BY <1>1, <1>2, TryRealKeeps DEF CreateDWallet, Ops
  <2> QED BY <1>1, <2>1, <2>2, StoreKept DEF IInv
<1>3. ASSUME NEW id \in Ids, RequestSign(c, m, id) PROVE IInv'
  <2>1. UNCHANGED store
    BY <1>3 DEF RequestSign
  <2>2. CASE Exists(id) /\ store[id].locked
    <3>1. store[id].key = KeyOf(id) /\ KeyOf(id) \in {"none", "wif", "mpc"}
      BY <1>1, <2>2 DEF KeysByLength, KeyOf
    <3>2. TryReal(c, "requestSign", m, None, id, store[id].key)
      BY <1>3, <2>2 DEF RequestSign
    <3>3. CallsOK'
      BY <1>1, <3>1, <3>2, TryRealKeeps DEF Ops
    <3> QED BY <1>1, <2>1, <3>3, StoreKept DEF IInv
  <2>3. CASE ~ (Exists(id) /\ store[id].locked)
    <3> DEFINE r == [call[c] EXCEPT !.op = "requestSign", !.id = id, !.pc = "threw"]
    <3>1. call[c] \in CallRecs
      BY <1>1 DEF CallsOK
    <3>2. CallOK(r)
      BY <3>1 DEF CallOK, CallRecs, SignsWithKey, MockReached, ViaRight, Ops
    <3>3. call' = [call EXCEPT ![c] = r]
      BY <1>1, <1>3, <2>3, <3>1 DEF RequestSign, CallsOK, CallRecs
    <3> HIDE DEF r
    <3> QED BY <1>1, <2>1, <3>2, <3>3, CallKept, StoreKept DEF IInv
  <2> QED BY <2>2, <2>3
<1>4. CASE EncryptOrder(c, m) \/ GetAddressUtxos(c, m) \/ BroadcastTx(c, m)
  <2>1. UNCHANGED store
    BY <1>4 DEF EncryptOrder, GetAddressUtxos, BroadcastTx
  <2>2. \E op \in Ops \ {"requestSign"} : TryReal(c, op, m, None, None, "none")
    BY <1>4 DEF EncryptOrder, GetAddressUtxos, BroadcastTx, Ops
  <2>3. CallsOK'
    BY <1>1, <2>2, TryRealKeeps
  <2> QED BY <1>1, <2>1, <2>3, StoreKept DEF IInv
<1> QED BY <1>2, <1>3, <1>4 DEF Begins

LEMMA AnswerStep ==
    ASSUME IInv, NEW c \in Calls, Answer(c)
    PROVE  IInv'
<1> DEFINE r == [call[c] EXCEPT !.pc = "returned", !.timer = "off", !.via = "real-ok"]
<1>1. CallsOK /\ StoreTypeOK /\ KeysByLength
  BY DEF IInv
<1>2. call[c] \in CallRecs /\ SignsWithKey(call[c]) /\ MockReached(call[c])
  BY <1>1 DEF CallsOK, CallOK
<1>3. call[c].pc = "real" /\ (call[c].op = "requestSign" => call[c].key = "mpc")
  BY DEF Answer, Asked
<1>4. CallOK(r)
  BY <1>2, <1>3 DEF CallOK, CallRecs, SignsWithKey, MockReached, ViaRight
<1>5. call' = [call EXCEPT ![c] = r]
  BY <1>1, <1>2 DEF Answer, End, CallsOK, CallRecs
<1> HIDE DEF r
<1>6. CallsOK'
  BY <1>1, <1>4, <1>5, CallKept
<1>7. StoreTypeOK' /\ KeysByLength'
  <2>1. CASE call[c].op = "createDWallet"
    <3>1. PICK d \in Draws : Set(<<33, d>>, "mpc", call[c].by)
      BY <2>1 DEF Answer
    <3>2. <<33, d>> \in Ids /\ KeyOf(<<33, d>>) = "mpc" /\ call[c].by \in Wallets \cup {None}
      BY <1>2, IdsMade DEF KeyOf, CallRecs
    <3> QED BY <1>1, <3>1, <3>2, SetKeeps
  <2>2. CASE call[c].op # "createDWallet"
    BY <1>1, <2>2, StoreKept DEF Answer
  <2> QED BY <2>1, <2>2
<1> QED BY <1>6, <1>7 DEF IInv

LEMMA FailStep ==
    ASSUME IInv, NEW c \in Calls, NEW transient \in BOOLEAN, Fail(c, transient)
    PROVE  IInv'
<1> DEFINE r == [call[c] EXCEPT !.pc = "mock", !.timer = "off"]
<1>1. CallsOK /\ StoreTypeOK /\ KeysByLength
  BY DEF IInv
<1>2. call[c] \in CallRecs /\ SignsWithKey(call[c])
  BY <1>1 DEF CallsOK, CallOK
<1>3. CallsOK'
  <2>1. CASE transient /\ call[c].mode = "auto"
    <3>1. call[c].pc = "real" /\ (call[c].op = "requestSign" => call[c].key = "mpc")
      BY DEF Fail, Asked
    <3>2. CallOK(r)
      BY <1>2, <2>1, <3>1 DEF CallOK, CallRecs, SignsWithKey, MockReached, ViaRight
    <3>3. call' = [call EXCEPT ![c] = r]
      BY <1>1, <1>2, <2>1 DEF Fail, CallsOK, CallRecs
    <3> HIDE DEF r
    <3> QED BY <1>1, <3>2, <3>3, CallKept
  <2>2. CASE ~ (transient /\ call[c].mode = "auto")
    BY <1>1, <2>2, ThrowKeeps DEF Fail
  <2> QED BY <2>1, <2>2
<1> QED BY <1>1, <1>3, StoreKept DEF Fail, IInv

LEMMA TimeoutStep ==
    ASSUME IInv, NEW c \in Calls, Timeout(c)
    PROVE  IInv'
<1> DEFINE r == [call[c] EXCEPT !.timer = "fired"]
<1>1. CallsOK /\ StoreTypeOK /\ KeysByLength
  BY DEF IInv
<1>2. CallOK(call[c])
  BY <1>1 DEF CallsOK
<1>3. CallsOK'
  <2>1. CASE call[c].op \in Heeds
    BY <1>1, <2>1, ThrowKeeps DEF Timeout
  <2>2. CASE call[c].op \notin Heeds
    <3>1. CallOK(r)
      BY <1>2 DEF CallOK, CallRecs, SignsWithKey, MockReached, ViaRight
    <3>2. call' = [call EXCEPT ![c] = r]
      BY <1>1, <1>2, <2>2 DEF Timeout, CallsOK, CallRecs
    <3> HIDE DEF r
    <3> QED BY <1>1, <3>1, <3>2, CallKept
  <2> QED BY <2>1, <2>2
<1> QED BY <1>1, <1>3, StoreKept DEF Timeout, IInv

LEMMA MockStep ==
    ASSUME IInv, NEW c \in Calls, Mock(c)
    PROVE  IInv'
<1> DEFINE r == [call[c] EXCEPT !.pc = "returned", !.timer = "off", !.via = Via(c)]
<1>1. CallsOK /\ StoreTypeOK /\ KeysByLength
  BY DEF IInv
<1>2. call[c] \in CallRecs /\ SignsWithKey(call[c]) /\ MockReached(call[c])
  BY <1>1 DEF CallsOK, CallOK
<1>3. call[c].pc = "mock"
  BY DEF Mock
<1>4. CallsOK'
  <2>1. CASE call[c].op = "requestSign" /\ call[c].key # "wif"
    BY <1>1, <2>1, ThrowKeeps DEF Mock
  <2>2. CASE ~ (call[c].op = "requestSign" /\ call[c].key # "wif")
    <3>1. call[c].mode \in {"mock", "auto"}
      BY <1>2, <1>3 DEF CallRecs, Modes, MockReached
    <3>2. call[c].op = "requestSign" => call[c].mode = "mock"
      BY <1>2, <1>3, <2>2, <3>1 DEF MockReached
    <3>3. CallOK(r)
      BY <1>2, <1>3, <2>2, <3>1, <3>2 DEF CallOK, CallRecs, SignsWithKey, MockReached, ViaRight, Via
    <3>4. call' = [call EXCEPT ![c] = r]
      BY <1>1, <1>2, <2>2 DEF Mock, End, CallsOK, CallRecs
    <3> HIDE DEF r
    <3> QED BY <1>1, <3>3, <3>4, CallKept
  <2> QED BY <2>1, <2>2
<1>5. StoreTypeOK' /\ KeysByLength'
  <2>1. CASE call[c].op = "createDWallet"
    <3>1. PICK d \in Draws : Set(<<32, d>>, "wif", call[c].by)
      BY <2>1 DEF Mock
    <3>2. <<32, d>> \in Ids /\ KeyOf(<<32, d>>) = "wif" /\ call[c].by \in Wallets \cup {None}
      BY <1>2, IdsMade DEF KeyOf, CallRecs
    <3> QED BY <1>1, <3>1, <3>2, SetKeeps
  <2>2. CASE call[c].op # "createDWallet"
    BY <1>1, <2>2, StoreKept DEF Mock
  <2> QED BY <2>1, <2>2
<1> QED BY <1>4, <1>5 DEF IInv

LEMMA LockPolicyStep ==
    ASSUME IInv, NEW id \in Ids, NEW w \in Wallets, LockPolicy(id, w)
    PROVE  IInv'
<1>1. StoreTypeOK'
  BY DEF IInv, StoreTypeOK, LockPolicy, Entries
<1>2. KeysByLength'
  BY DEF IInv, StoreTypeOK, KeysByLength, LockPolicy, Exists, Entries, KeyOf
<1>3. CallsOK'
  BY DEF IInv, LockPolicy, CallsOK, CallOK, SignsWithKey, MockReached, ViaRight, KeyOf
<1> QED BY <1>1, <1>2, <1>3 DEF IInv

LEMMA InitInv == Init => IInv
BY DEF Init, IInv, StoreTypeOK, Entries, CallRecs, NoEntry, NoCall, Modes, Ops, KeysByLength,
       CallsOK, CallOK, SignsWithKey, MockReached, ViaRight, Exists

LEMMA StepInv == IInv /\ [Next]_ikaVars => IInv'
<1> SUFFICES ASSUME IInv, [Next]_ikaVars PROVE IInv'
  OBVIOUS
<1>1. ASSUME NEW c \in Calls, Refuse(c) PROVE IInv'
  BY <1>1, ThrowKeeps, StoreKept DEF Refuse, IInv
<1>2. CASE UNCHANGED ikaVars
  BY <1>2 DEF ikaVars, IInv, StoreTypeOK, KeysByLength, Exists, KeyOf, CallsOK, CallOK,
              SignsWithKey, MockReached, ViaRight
<1> QED BY <1>1, <1>2, BeginsStep, AnswerStep, FailStep, TimeoutStep, MockStep, LockPolicyStep
        DEF Next, Network, Code

-----------------------------------------------------------------------------
(* The theorems *)

\* The inductive invariant: what kind of key an id has, what key a signing
\* call works with, and which endings a call in each mode can come to.
THEOREM Invariance == Spec => []IInv
BY InitInv, StepInv, PTL DEF Spec

\* The store and every call keep their types.
THEOREM IkaTypeCorrect == Spec => []IkaTypeOK
<1>1. IInv => IkaTypeOK
  BY DEF IInv, IkaTypeOK, StoreTypeOK, CallsOK
<1> QED BY <1>1, Invariance, PTL

\* tryReal: what was made up was asked for.
THEOREM MadeUpOnRequest == Spec => []NothingMadeUp
<1>1. IInv => NothingMadeUp
  BY DEF IInv, NothingMadeUp, CallsOK, CallOK, ViaRight, CallRecs
<1> QED BY <1>1, Invariance, PTL

\* requestSign: in auto mode the network signs or nobody does, against ika.ts:295
\* and docs/gaps.md:313-316, which have the mock key sign instead.
THEOREM SignaturesNotFallback == Spec => []NoFallbackSignature
<1>1. IInv => NoFallbackSignature
  BY DEF IInv, NoFallbackSignature, CallsOK, CallOK, ViaRight, CallRecs, Modes
<1> QED BY <1>1, Invariance, PTL

\* The keeper's signatures are those of mock mode, with a key of the file:
\* this is what Settlement takes for granted of requestSign.
THEOREM KeeperSignatures == Spec => []KeeperSignsByFile
<1>1. IInv => KeeperSignsByFile
  <2> SUFFICES ASSUME IInv, NEW c \in Calls, call[c].op = "requestSign",
                      call[c].pc = "returned", NEW id \in Ids, call[c].id = OnChain(id)
               PROVE  call[c].mode = "mock" /\ call[c].via = "mock" /\ call[c].key = "wif"
    BY DEF KeeperSignsByFile
  <2>1. call[c].key = "wif"
    BY IdParts DEF IInv, CallsOK, CallOK, SignsWithKey, KeyOf
  <2> QED BY <2>1 DEF IInv, CallsOK, CallOK, ViaRight
<1> QED BY <1>1, Invariance, PTL

-----------------------------------------------------------------------------
(* Spend: what its loops compute, signatures, and the fee *)

LEMMA SumsStep ==
    ASSUME NEW values \in Seq(Nat)
    PROVE  /\ Sums(values) \in [0..Len(values) -> Nat]
           /\ Sums(values)[0] = 0
           /\ \A k \in 1..Len(values) : Sums(values)[k] = Sums(values)[k - 1] + values[k]
<1> DEFINE N == Len(values)
           Step(f) == [i \in 0..N |-> IF i = 0 THEN 0 ELSE f[i - 1] + values[i]]
           G == [p \in (1..N) \X Nat |-> p[2] + values[p[1]]]
           D == Nat
<1>1. N \in Nat /\ 0 \in Nat /\ \A i \in 1..N : values[i] \in Nat
  BY SpendAssumption DEF Words, Byte
<1>2. G \in [(1..N) \X D -> D] /\ 0 \in D
  BY <1>1
<1>3. \A k \in 1..N, y \in Nat : G[<<k, y>>] = y + values[k]
  OBVIOUS
<1>4. PICK f \in [0..N -> D] : Iterates(f, N, 0, G)
  <2> HIDE DEF G, N, D
  <2> QED  BY <1>1, <1>2, Iterated
<1> HIDE DEF G, N
<1>5. \A k \in 1..N : k - 1 \in 0..N /\ f[k - 1] \in Nat
  BY <1>1
<1>6. \A k \in 1..N : f[k] = f[k - 1] + values[k]
  BY <1>3, <1>4, <1>5 DEF Iterates
<1>7. f = Step(f)
  BY <1>1, <1>4, <1>6 DEF Iterates
<1>8. Sums(values) = CHOOSE h : h = Step(h)
  BY DEF Sums, N
<1>9. Sums(values) = Step(Sums(values))
  <2> HIDE DEF Step
  <2> QED  BY <1>7, <1>8
<1> DEFINE S == Sums(values)
<1> HIDE DEF S
<1>10. S[0] = 0 /\ \A k \in 1..N : S[k] = S[k - 1] + values[k]
  BY <1>1, <1>9 DEF S
<1>11. S = [i \in 0..N |-> S[i]]
  BY <1>9 DEF S
<1>12. S \in [0..N -> D]
  <2>1. S[0] \in D /\ \A k \in 1..N : S[k - 1] \in D => S[k] \in D
    <3> SUFFICES ASSUME NEW k \in 1..N, S[k - 1] \in Nat PROVE S[k] \in Nat
      BY <1>1, <1>10
    <3>1. S[k] = S[k - 1] + values[k] /\ values[k] \in Nat
      BY <1>1, <1>10
    <3> QED  BY <3>1
  <2> HIDE DEF D
  <2> QED  BY <2>1, <1>1, <1>11, StepwiseIn
<1> QED  BY <1>10, <1>12 DEF S, N

LEMMA ReadStep ==
    ASSUME NEW n \in Nat, NEW w \in ByteStrings(n)
    PROVE  /\ Read(w, n) \in [0..n -> Nat]
           /\ Read(w, n)[0] = 0
           /\ \A k \in 1..n : Read(w, n)[k] = 256 * Read(w, n)[k - 1] + w[k]
<1> DEFINE N == n
           Step(f) == [i \in 0..N |-> IF i = 0 THEN 0 ELSE 256 * f[i - 1] + w[i]]
           G == [p \in (1..N) \X Nat |-> 256 * p[2] + w[p[1]]]
           D == Nat
<1>1. N \in Nat /\ 0 \in Nat /\ \A i \in 1..N : w[i] \in Nat
  <2>1. w \in [1..N -> Byte] /\ n \in Nat
    BY DEF ByteStrings
  <2>2. \A i \in 1..N : w[i] \in Byte
    BY <2>1
  <2>3. \A i \in 1..N : w[i] \in Nat
    BY <2>2 DEF Byte
  <2> QED  BY <2>1, <2>3
<1>2. G \in [(1..N) \X D -> D] /\ 0 \in D
  BY <1>1
<1>3. \A k \in 1..N, y \in Nat : G[<<k, y>>] = 256 * y + w[k]
  OBVIOUS
<1>4. PICK f \in [0..N -> D] : Iterates(f, N, 0, G)
  <2> HIDE DEF G, N, D
  <2> QED  BY <1>1, <1>2, Iterated
<1> HIDE DEF G, N
<1>5. \A k \in 1..N : k - 1 \in 0..N /\ f[k - 1] \in Nat
  BY <1>1
<1>6. \A k \in 1..N : f[k] = 256 * f[k - 1] + w[k]
  BY <1>3, <1>4, <1>5 DEF Iterates
<1>7. f = Step(f)
  BY <1>1, <1>4, <1>6 DEF Iterates
<1>8. Read(w, n) = CHOOSE h : h = Step(h)
  BY DEF Read, N
<1>9. Read(w, n) = Step(Read(w, n))
  <2> HIDE DEF Step
  <2> QED  BY <1>7, <1>8
<1> DEFINE S == Read(w, n)
<1> HIDE DEF S
<1>10. S[0] = 0 /\ \A k \in 1..N : S[k] = 256 * S[k - 1] + w[k]
  BY <1>1, <1>9 DEF S
<1>11. S = [i \in 0..N |-> S[i]]
  BY <1>9 DEF S
<1>12. S \in [0..N -> D]
  <2>1. S[0] \in D /\ \A k \in 1..N : S[k - 1] \in D => S[k] \in D
    <3> SUFFICES ASSUME NEW k \in 1..N, S[k - 1] \in Nat PROVE S[k] \in Nat
      BY <1>1, <1>10
    <3>1. S[k] = 256 * S[k - 1] + w[k] /\ w[k] \in Nat
      BY <1>1, <1>10
    <3> QED  BY <3>1
  <2> HIDE DEF D
  <2> QED  BY <2>1, <1>1, <1>11, StepwiseIn
<1> QED  BY <1>10, <1>12 DEF S, N

Shifting(R, v, n) ==
    /\ R \in [0..n -> Int] /\ R[0] = v
    /\ \A k \in 1..n : R[k] = R[k - 1] \div 256

LEMMA ShiftsStep ==
    ASSUME NEW n \in Nat, NEW v \in Int
    PROVE  Shifting(Shifts(v, n), v, n)
<1> DEFINE N == n
           Step(f) == [i \in 0..N |-> IF i = 0 THEN v ELSE f[i - 1] \div 256]
           G == [p \in (1..N) \X Int |-> p[2] \div 256]
           D == Int
<1>1. N \in Nat /\ v \in Int
  OBVIOUS
<1>2. G \in [(1..N) \X D -> D] /\ v \in D
  BY <1>1
<1>3. \A k \in 1..N, y \in Int : G[<<k, y>>] = y \div 256
  OBVIOUS
<1>4. PICK f \in [0..N -> D] : Iterates(f, N, v, G)
  <2> HIDE DEF G, N, D
  <2> QED  BY <1>1, <1>2, Iterated
<1> HIDE DEF G, N
<1>5. \A k \in 1..N : k - 1 \in 0..N /\ f[k - 1] \in Int
  BY <1>1
<1>6. \A k \in 1..N : f[k] = f[k - 1] \div 256
  <2> SUFFICES ASSUME NEW k \in 1..N PROVE f[k] = f[k - 1] \div 256
    OBVIOUS
  <2>1. f[k] = G[<<k, f[k - 1]>>]
    BY <1>4 DEF Iterates
  <2> QED BY <1>3, <1>5, <2>1
<1>7. f = Step(f)
  BY <1>1, <1>4, <1>6 DEF Iterates
<1>8. Shifts(v, n) = CHOOSE h : h = Step(h)
  BY DEF Shifts, N
<1>9. Shifts(v, n) = Step(Shifts(v, n))
  <2> HIDE DEF Step
  <2> QED  BY <1>7, <1>8
<1> DEFINE S == Shifts(v, n)
<1> HIDE DEF S
<1>10. S[0] = v /\ \A k \in 1..N : S[k] = S[k - 1] \div 256
  BY <1>1, <1>9 DEF S
<1>11. S = [i \in 0..N |-> S[i]]
  BY <1>9 DEF S
<1>12. S \in [0..N -> D]
  <2>1. S[0] \in D /\ \A k \in 1..N : S[k - 1] \in D => S[k] \in D
    <3> SUFFICES ASSUME NEW k \in 1..N, S[k - 1] \in Int PROVE S[k] \in Int
      BY <1>1, <1>10
    <3>1. S[k] = S[k - 1] \div 256
      BY <1>1, <1>10
    <3> QED  BY <3>1
  <2> HIDE DEF D
  <2> QED  BY <2>1, <1>1, <1>11, StepwiseIn
<1> QED  BY <1>10, <1>12 DEF S, N, Shifting

LEMMA WordByte ==
    ASSUME NEW n \in Nat \ {0}, NEW w \in ByteStrings(n)
    PROVE  /\ n \in Nat \ {0} /\ 1 \in 1..n
           /\ \A i \in 1..n : w[i] \in 0..255
<1>1. w \in [1..n -> Byte] /\ n \in Nat \ {0}
  BY DEF ByteStrings
<1>2. \A i \in 1..n : w[i] \in Byte
  BY <1>1
<1> QED  BY <1>1, <1>2 DEF Byte

\* A number that a word holds is what its bytes are read back as.
LEMMA Writable ==
    ASSUME NEW n \in Nat, NEW v \in Nat, NEW w \in ByteStrings(n), v <= Number(w, n)
    PROVE  BigEndian(v, n) \in ByteStrings(n) /\ Number(BigEndian(v, n), n) = v
<1> DEFINE N == n
           R == Shifts(v, n)
           W == Read(w, n)
           b == BigEndian(v, n)
           B == Read(b, n)
<1>1. N \in Nat
  OBVIOUS
<1>2. R \in [0..N -> Int] /\ R[0] = v /\ \A k \in 1..N : R[k] = R[k - 1] \div 256
  <2>1. v \in Int
    OBVIOUS
  <2> HIDE DEF N, R
  <2>2. Shifting(Shifts(v, n), v, n)
    BY <2>1, ShiftsStep
  <2> QED  BY <2>2 DEF N, R, Shifting
<1>3. W \in [0..N -> Nat] /\ W[0] = 0 /\ \A k \in 1..N : W[k] = 256 * W[k - 1] + w[k]
  BY ReadStep
<1>4. \A k \in 1..N : w[k] \in 0..255
  <2>1. w \in [1..N -> Byte]
    BY DEF ByteStrings
  <2>2. \A k \in 1..N : w[k] \in Byte
    BY <2>1
  <2> QED  BY <2>2 DEF Byte
<1>5. v <= W[N]
  BY DEF Number
<1>6. b = [i \in 1..N |-> R[N - i] % 256]
  BY DEF BigEndian
<1> HIDE DEF R, W, b
<1>7. \A i \in 0..N : R[i] \in Int
  BY <1>2
<1>8. b \in ByteStrings(n)
  <2> SUFFICES ASSUME NEW i \in 1..N PROVE R[N - i] % 256 \in Byte
    BY <1>6 DEF ByteStrings
  <2>1. R[N - i] \in Int
    BY <1>1, <1>7
  <2> HIDE DEF N
  <2> QED  BY <2>1 DEF Byte
<1>9. B \in [0..N -> Nat] /\ B[0] = 0 /\ \A k \in 1..N : B[k] = 256 * B[k - 1] + b[k]
  BY <1>8, ReadStep
<1>10. Number(b, n) = B[N]
  BY DEF Number
<1> HIDE DEF B, N
\* After i shifts no more is left than i bytes of w less hold.
<1>11. \A i \in 0..N : 0 <= R[i] /\ R[i] <= W[N - i]
  <2> DEFINE T == {i \in Nat : i <= N => 0 <= R[i] /\ R[i] <= W[N - i]}
  <2>1. 0 \in T
    BY <1>1, <1>2, <1>5
  <2>2. ASSUME NEW i \in Nat, i \in T PROVE i + 1 \in T
    <3> SUFFICES ASSUME i + 1 <= N PROVE 0 <= R[i + 1] /\ R[i + 1] <= W[N - (i + 1)]
      OBVIOUS
    <3>1. 0 <= R[i] /\ R[i] <= W[N - i]
      BY <1>1, <2>2
    <3>2. i + 1 \in 1..N /\ (i + 1) - 1 = i /\ i \in 0..N
      BY <1>1
    <3>3. R[i + 1] = R[i] \div 256 /\ R[i] \in Int
      BY <3>2, <1>2, <1>7
    <3>4. N - i \in 1..N /\ (N - i) - 1 = N - (i + 1) /\ N - (i + 1) \in 0..N
      BY <1>1
    <3>5. W[N - i] = 256 * W[N - (i + 1)] + w[N - i] /\ w[N - i] \in 0..255
      BY <3>4, <1>3, <1>4
    <3>6. W[N - (i + 1)] \in Nat
      BY <3>4, <1>3
    <3> QED  BY <3>1, <3>3, <3>5, <3>6
  <2> HIDE DEF T
  <2>3. Nat \subseteq T
    BY <2>1, <2>2, SetInduction
  <2> QED  BY <2>3 DEF T
<1>12. R[N] = 0
  <2>1. N \in 0..N /\ N - N = 0
    BY <1>1
  <2> QED  BY <2>1, <1>11, <1>3, <1>7
<1>13. \A k \in 0..N : B[k] = R[N - k]
  <2> DEFINE T == {k \in Nat : k <= N => B[k] = R[N - k]}
  <2>1. 0 \in T
    BY <1>1, <1>9, <1>12
  <2>2. ASSUME NEW k \in Nat, k \in T PROVE k + 1 \in T
    <3> SUFFICES ASSUME k + 1 <= N PROVE B[k + 1] = R[N - (k + 1)]
      OBVIOUS
    <3>1. k + 1 \in 1..N /\ (k + 1) - 1 = k /\ N - (k + 1) \in 0..N
      BY <1>1
    <3>2. B[k + 1] = 256 * B[k] + b[k + 1]
      BY <3>1, <1>9
    <3>3. b[k + 1] = R[N - (k + 1)] % 256
      BY <3>1, <1>6
    <3>4. N - k \in 1..N /\ (N - k) - 1 = N - (k + 1)
      BY <1>1
    <3>5. R[N - k] = R[N - (k + 1)] \div 256
      BY <3>4, <1>2
    <3>6. B[k] = R[N - k]
      BY <1>1, <2>2
    <3>7. R[N - (k + 1)] \in Int
      BY <3>1, <1>7
    <3> QED  BY <3>2, <3>3, <3>5, <3>6, <3>7
  <2> HIDE DEF T
  <2>3. Nat \subseteq T
    BY <2>1, <2>2, SetInduction
  <2> QED  BY <2>3 DEF T
<1>14. B[N] = v
  <2>1. N \in 0..N /\ N - N = 0
    BY <1>1
  <2> QED  BY <2>1, <1>13, <1>2
<1> QED  BY <1>8, <1>10, <1>14 DEF b

LEMMA NumberNat ==
    ASSUME NEW n \in Nat, NEW w \in ByteStrings(n)
    PROVE  Number(w, n) \in Nat
<1>1. Read(w, n) \in [0..n -> Nat]
  BY ReadStep
<1>2. n \in 0..n
  OBVIOUS
<1> QED  BY <1>1, <1>2 DEF Number

LEMMA OneByteMore ==
    \A a, b \in Nat : \A c, d \in 0..255 :
        a < 2 * b => 256 * a + c < 2 * (256 * b + d)
  OBVIOUS

\* A number whose highest bit is set is more than half of any other.
LEMMA HighBit ==
    ASSUME NEW n \in Nat \ {0}, NEW s \in ByteStrings(n), NEW w \in ByteStrings(n), s[1] >= 128
    PROVE  Number(w, n) < 2 * Number(s, n)
<1> DEFINE N == n
           A == Read(s, n)
           W == Read(w, n)
           T == {k \in Nat : k + 1 <= N => W[k + 1] < 2 * A[k + 1]}
<1>1. N \in Nat \ {0} /\ \A k \in 1..N : w[k] \in 0..255 /\ s[k] \in 0..255
  BY WordByte
<1>2. W \in [0..N -> Nat] /\ W[0] = 0 /\ \A k \in 1..N : W[k] = 256 * W[k - 1] + w[k]
  BY ReadStep
<1>3. A \in [0..N -> Nat] /\ A[0] = 0 /\ \A k \in 1..N : A[k] = 256 * A[k - 1] + s[k]
  BY ReadStep
<1>4. Number(w, n) = W[N] /\ Number(s, n) = A[N]
  BY DEF Number
<1> HIDE DEF N, A, W
<1>5. \A k \in 0..N : W[k] \in Nat /\ A[k] \in Nat
  BY <1>2, <1>3
<1>6. 0 \in T
  <2>1. 1 \in 1..N /\ 1 - 1 = 0
    BY <1>1
  <2>2. W[1] = 256 * W[0] + w[1] /\ A[1] = 256 * A[0] + s[1]
    BY <2>1, <1>2, <1>3
  <2>3. w[1] \in 0..255 /\ s[1] \in 0..255 /\ W[0] = 0 /\ A[0] = 0
    BY <2>1, <1>1, <1>2, <1>3
  <2>4. W[1] \in Nat /\ A[1] \in Nat
    BY <2>1, <1>5
  <2>5. W[1] <= 255 /\ A[1] >= 128
    BY <2>2, <2>3
  <2>6. W[1] < 2 * A[1]
    BY <2>4, <2>5
  <2> QED  BY <2>6
<1>7. ASSUME NEW k \in Nat, k \in T PROVE k + 1 \in T
  <2> SUFFICES ASSUME (k + 1) + 1 <= N PROVE W[(k + 1) + 1] < 2 * A[(k + 1) + 1]
    OBVIOUS
  <2> DEFINE j == (k + 1) + 1
  <2>1. j \in 1..N /\ j - 1 = k + 1 /\ k + 1 \in 0..N
    BY <1>1
  <2>2. W[k + 1] < 2 * A[k + 1] /\ W[k + 1] \in Nat /\ A[k + 1] \in Nat
    BY <1>1, <1>5, <1>7, <2>1
  <2> HIDE DEF j
  <2>3. W[j] = 256 * W[k + 1] + w[j] /\ w[j] \in 0..255
    BY <2>1, <1>1, <1>2
  <2>4. A[j] = 256 * A[k + 1] + s[j] /\ s[j] \in 0..255
    BY <2>1, <1>1, <1>3
  <2>5. 256 * W[k + 1] + w[j] < 2 * (256 * A[k + 1] + s[j])
    <3> DEFINE a == W[k + 1]
               b == A[k + 1]
               c == w[j]
               d == s[j]
    <3>1. a \in Nat /\ b \in Nat /\ c \in 0..255 /\ d \in 0..255 /\ a < 2 * b
      BY <2>2, <2>3, <2>4
    <3> HIDE DEF a, b, c, d
    <3>2. 256 * a + c < 2 * (256 * b + d)
      BY <3>1, OneByteMore
    <3> QED  BY <3>2 DEF a, b, c, d
  <2>6. W[j] < 2 * A[j]
    BY <2>3, <2>4, <2>5
  <2> QED  BY <2>6 DEF j
<1> HIDE DEF T
<1>8. Nat \subseteq T
  BY <1>6, <1>7, SetInduction
<1>9. N - 1 \in Nat /\ (N - 1) + 1 = N
  BY <1>1
<1>10. W[N] < 2 * A[N]
  BY <1>8, <1>9 DEF T
<1> QED  BY <1>4, <1>10

\* The signature that is attached has an s in the lower half of the group,
\* and it is the signer's s or its negative.
THEOREM LowS ==
    ASSUME NEW rs \in Signatures, Number(rs.s, WordLen) < Order
    PROVE  LET low == NormaliseLowS(rs)
           IN  /\ low \in Signatures /\ low.r = rs.r /\ IsLowS(low)
               /\ Number(low.s, WordLen) \in {Number(rs.s, WordLen), Order - Number(rs.s, WordLen)}
<1> DEFINE n == Number(rs.s, WordLen)
           m == Order - n
<1>1. rs.s \in Words /\ rs.r \in Words /\ OrderWord \in Words
  BY SpendAssumption DEF Signatures
<1>2. n \in Nat /\ Order \in Nat
  <2>1. WordLen \in Nat /\ rs.s \in ByteStrings(WordLen) /\ OrderWord \in ByteStrings(WordLen)
    BY <1>1, SpendAssumption DEF Words
  <2> QED  BY <2>1, NumberNat DEF Order
<1>3. CASE IsLowS(rs)
  BY <1>3 DEF NormaliseLowS
<1>4. CASE ~ IsLowS(rs)
  <2>1. m \in Nat /\ m <= Number(OrderWord, WordLen) /\ n > Order \div 2
    BY <1>2, <1>4 DEF IsLowS, Order
  <2>2. m <= Order \div 2
    <3> HIDE DEF n
    <3> QED  BY <2>1, <1>2
  <2> HIDE DEF m
  <2>3. BigEndian(m, WordLen) \in Words /\ Number(BigEndian(m, WordLen), WordLen) = m
    <3>1. WordLen \in Nat /\ OrderWord \in ByteStrings(WordLen)
      BY <1>1, SpendAssumption DEF Words
    <3> QED  BY <2>1, <3>1, Writable DEF Words
  <2>4. NormaliseLowS(rs) = [rs EXCEPT !.s = BigEndian(m, WordLen)]
    BY <1>4 DEF NormaliseLowS, m
  <2>5. NormaliseLowS(rs) = [r |-> rs.r, s |-> BigEndian(m, WordLen)]
    BY <2>4 DEF Signatures
  <2>6. NormaliseLowS(rs) \in Signatures /\ NormaliseLowS(rs).r = rs.r
    BY <2>5, <2>3, <1>1 DEF Signatures
  <2>7. NormaliseLowS(rs).s = BigEndian(m, WordLen)
    BY <2>5
  <2> QED  BY <2>2, <2>3, <2>6, <2>7 DEF IsLowS, m
<1> QED  BY <1>3, <1>4

LEMMA Prepend ==
    ASSUME NEW u \in Seq(Nat), Len(u) # 0
    PROVE  /\ <<0>> \o u \in Seq(Nat) /\ Len(<<0>> \o u) = Len(u) + 1
           /\ (<<0>> \o u)[1] = 0 /\ (<<0>> \o u)[2] = u[1]
  OBVIOUS

LEMMA Trimmed ==
    ASSUME NEW w \in Words
    PROVE  LET t == TrimAndPad(w)
           IN  /\ t \in Seq(Nat) /\ StrictInt(t)
               /\ Len(t) <= WordLen + 1
               /\ w[1] < 128 => Len(t) <= WordLen
<1> DEFINE N == WordLen
           L == {i \in 1..N : w[i] # 0 \/ i = N}
           l == Lead(w)
           u == SubSeq(w, l, N)
<1>1. N \in Nat \ {0} /\ w \in [1..N -> Byte]
  BY SpendAssumption DEF Words, ByteStrings
<1>2. w \in Seq(Nat) /\ Len(w) = N
  <2>1. Byte \subseteq Nat /\ w \in [1..N -> Byte]
    BY <1>1 DEF Byte
  <2>2. w \in [1..N -> Nat]
    BY <2>1
  <2> QED  BY <2>2, <1>1
<1> HIDE DEF N
<1>3. L \subseteq Nat /\ L # {}
  <2>1. N \in L
    BY <1>1
  <2> QED  BY <2>1
<1>4. PICK i \in L : \A j \in L : i <= j
  <2> HIDE DEF L
  <2> QED  BY <1>3, NatLeast
<1>5. \A j \in 1..(i - 1) : w[j] = 0
  <2> SUFFICES ASSUME NEW j \in 1..(i - 1), w[j] # 0 PROVE FALSE
    OBVIOUS
  <2>1. j \in 1..N /\ j < i
    BY <1>1, <1>4
  <2>2. j \in L
    BY <2>1
  <2> QED  BY <2>1, <2>2, <1>4
<1>6. l \in 1..N /\ (w[l] # 0 \/ l = N) /\ \A j \in 1..(l - 1) : w[j] = 0
  <2>1. i \in 1..N /\ (w[i] # 0 \/ i = N)
    BY <1>4
  <2> QED  BY <1>2, <1>5, <2>1 DEF Lead
<1> HIDE DEF l, L
<1>7. u \in Seq(Nat) /\ Len(u) = N - l + 1 /\ \A k \in 1..(N - l + 1) : u[k] = w[l + k - 1]
  <2>1. l \in 1..N + 1 /\ N \in l - 1..N
    BY <1>1, <1>6
  <2>2. w \in Seq(Nat)
    BY <1>2
  <2>3. l \in 1..Len(w) + 1 /\ N \in l - 1..Len(w)
    BY <2>1, <1>2
  <2> HIDE DEF l, N
  <2> QED  BY <2>2, <2>3, SubSeqProperties
<1>8. u[1] = w[l] /\ u[1] \in 0..255
  <2>1. 1 \in 1..(N - l + 1) /\ l + 1 - 1 = l /\ N - l + 1 \in 1..N
    BY <1>1, <1>6
  <2>2. w[l] \in Byte
    BY <1>1, <1>6
  <2>3. u[1] = w[l]
    BY <1>7, <2>1
  <2> QED  BY <2>2, <2>3 DEF Byte
<1>8b. Len(u) \in 1..N /\ Len(u) = N - l + 1
  <2>1. N - l + 1 \in 1..N
    BY <1>1, <1>6
  <2> QED  BY <1>7, <2>1
<1>8c. u \in Seq(Nat)
  BY <1>7
<1>9. TrimAndPad(w) = IF u[1] >= 128 THEN <<0>> \o u ELSE u
  BY <1>2 DEF TrimAndPad, l
<1> HIDE DEF u
<1>10. CASE u[1] >= 128
  <2> DEFINE t == <<0>> \o u
  <2>1. t \in Seq(Nat) /\ Len(t) = Len(u) + 1 /\ t[1] = 0 /\ t[2] = u[1]
    BY <1>8b, <1>8c, Prepend
  <2>2. w[1] < 128 => l # 1
    <3> SUFFICES ASSUME l = 1 PROVE ~ (w[1] < 128)
      OBVIOUS
    <3>1. w[1] = u[1]
      BY <1>8
    <3> QED  BY <3>1, <1>8, <1>10
  <2>3. w[1] < 128 => Len(u) <= N - 1
    BY <2>2, <1>1, <1>6, <1>8b
  <2>4. TrimAndPad(w) = t
    BY <1>9, <1>10
  <2> HIDE DEF t
  <2>5. t[1] < 128 /\ t[2] >= 128
    BY <2>1, <1>10
  <2>6. Len(t) > 0
    BY <2>1, <1>8b
  <2>7. StrictInt(t)
    BY <2>5, <2>6 DEF StrictInt
  <2> QED  BY <2>1, <2>3, <2>4, <2>7, <1>1, <1>8b DEF N
<1>11. CASE ~ (u[1] >= 128)
  <2>1. TrimAndPad(w) = u
    BY <1>9, <1>11
  <2>2. Len(u) > 1 => u[1] # 0
    BY <1>1, <1>6, <1>8, <1>8b
  <2>3. u[1] < 128
    BY <1>8, <1>11
  <2>4. Len(u) > 0
    BY <1>8b
  <2>5. StrictInt(u)
    BY <2>2, <2>3, <2>4 DEF StrictInt
  <2> QED  BY <2>1, <2>5, <1>1, <1>8b, <1>8c DEF N
<1> QED  BY <1>10, <1>11

LEMMA FiveLengths ==
    ASSUME NEW h \in Seq(Nat), NEW r \in Seq(Nat), NEW m \in Seq(Nat),
           NEW s \in Seq(Nat), NEW e \in Seq(Nat)
    PROVE  Len((((h \o r) \o m) \o s) \o e) = Len(h) + Len(r) + Len(m) + Len(s) + Len(e)
<1>1. h \o r \in Seq(Nat) /\ Len(h \o r) = Len(h) + Len(r)
  OBVIOUS
<1>2. (h \o r) \o m \in Seq(Nat) /\ Len((h \o r) \o m) = Len(h \o r) + Len(m)
  BY <1>1
<1>3. /\ ((h \o r) \o m) \o s \in Seq(Nat)
      /\ Len(((h \o r) \o m) \o s) = Len((h \o r) \o m) + Len(s)
  BY <1>2
<1>4. Len((((h \o r) \o m) \o s) \o e) = Len(((h \o r) \o m) \o s) + Len(e)
  BY <1>3
<1> QED  BY <1>1, <1>2, <1>3, <1>4

LEMMA DerLength ==
    ASSUME NEW r \in Seq(Nat), NEW s \in Seq(Nat)
    PROVE  Len(Der(r, s)) = Len(r) + Len(s) + 7
<1> DEFINE h == <<48, 4 + Len(r) + Len(s), 2, Len(r)>>
           m == <<2, Len(s)>>
           e == <<SighashAll>>
<1>1. h \in Seq(Nat) /\ m \in Seq(Nat) /\ Len(h) = 4 /\ Len(m) = 2
  OBVIOUS
<1>2. e \in Seq(Nat) /\ Len(e) = 1
  BY DEF SighashAll
<1>3. Der(r, s) = (((h \o r) \o m) \o s) \o e
  BY DEF Der
<1> HIDE DEF h, m, e
<1>4. Len((((h \o r) \o m) \o s) \o e) = Len(h) + Len(r) + Len(m) + Len(s) + Len(e)
  <2>1. /\ h \in Seq(Nat) /\ m \in Seq(Nat) /\ e \in Seq(Nat)
        /\ r \in Seq(Nat) /\ s \in Seq(Nat)
    BY <1>1, <1>2
  <2> QED  BY <2>1, FiveLengths
<1>5. Len(r) \in Nat /\ Len(s) \in Nat
  OBVIOUS
<1> QED  BY <1>1, <1>2, <1>3, <1>4, <1>5

\* The signature that is attached is one a Bitcoin node accepts: both of its
\* integers are positive and in as few bytes as they take, and no length
\* takes a second byte.  It is at most as long as buildSpendTx allows for.
THEOREM StrictSignature ==
    ASSUME NEW rs \in Signatures, Number(rs.s, WordLen) < Order
    PROVE  LET low == NormaliseLowS(rs)
               r   == TrimAndPad(low.r)
               s   == TrimAndPad(low.s)
           IN  /\ DerEncode(low) = Der(r, s)
               /\ StrictInt(r) /\ StrictInt(s)
               /\ 4 + Len(r) + Len(s) < 128
               /\ Len(DerEncode(low)) <= 2 * WordLen + 8
<1> DEFINE low == NormaliseLowS(rs)
           r   == TrimAndPad(low.r)
           s   == TrimAndPad(low.s)
<1>1. low \in Signatures /\ IsLowS(low)
  BY LowS
<1>2. low.r \in Words /\ low.s \in Words /\ OrderWord \in Words
  BY <1>1, SpendAssumption DEF Signatures
<1>3. low.s[1] < 128
  <2> SUFFICES ASSUME ~ (low.s[1] < 128) PROVE FALSE
    OBVIOUS
  <2>0. /\ WordLen \in Nat \ {0}
        /\ low.s \in ByteStrings(WordLen) /\ OrderWord \in ByteStrings(WordLen)
    BY <1>2, SpendAssumption DEF Words
  <2>1. low.s[1] \in 0..255
    <3> HIDE DEF low
    <3> QED  BY <2>0, WordByte
  <2>2. low.s[1] >= 128
    BY <2>1
  <2> HIDE DEF low
  <2>3. Number(OrderWord, WordLen) < 2 * Number(low.s, WordLen)
    BY <2>0, <2>2, HighBit
  <2>4. Number(low.s, WordLen) <= Number(OrderWord, WordLen) \div 2
    BY <1>1 DEF IsLowS, Order
  <2>5. Number(low.s, WordLen) \in Nat /\ Number(OrderWord, WordLen) \in Nat
    BY <2>0, NumberNat
  <2> QED  BY <2>3, <2>4, <2>5
<1>4. DerEncode(low) = Der(r, s)
  BY DEF DerEncode
<1> HIDE DEF low
<1>5. r \in Seq(Nat) /\ StrictInt(r) /\ Len(r) <= WordLen + 1
  BY <1>2, Trimmed
<1>6. s \in Seq(Nat) /\ StrictInt(s) /\ Len(s) <= WordLen
  BY <1>2, <1>3, Trimmed
<1> HIDE DEF r, s
<1>7. Len(r) \in Nat /\ Len(s) \in Nat /\ WordLen \in Nat /\ WordLen <= 32
  BY <1>5, <1>6, SpendAssumption
<1>8. Len(Der(r, s)) = Len(r) + Len(s) + 7
  BY <1>5, <1>6, DerLength
<1>9. 4 + Len(r) + Len(s) < 128 /\ Len(Der(r, s)) <= 2 * WordLen + 8
  BY <1>5, <1>6, <1>7, <1>8
<1> QED  BY <1>4, <1>5, <1>6, <1>9 DEF low, r, s

LEMMA SumBound ==
    ASSUME NEW values \in Seq(Nat), NEW c \in Nat, \A i \in 1..Len(values) : values[i] <= c
    PROVE  TotalIn(values) \in Nat /\ TotalIn(values) <= Len(values) * c
<1> DEFINE N == Len(values)
           S == Sums(values)
           T == {k \in Nat : k <= N => S[k] <= k * c}
<1>1. N \in Nat /\ \A i \in 1..N : values[i] \in Nat /\ values[i] <= c
  OBVIOUS
<1>2. S \in [0..N -> Nat] /\ S[0] = 0 /\ \A k \in 1..N : S[k] = S[k - 1] + values[k]
  BY SumsStep
<1>3. TotalIn(values) = S[N]
  BY DEF TotalIn
<1> HIDE DEF N, S
<1>4. \A k \in 0..N : S[k] \in Nat
  BY <1>2
<1>5. 0 \in T
  BY <1>2
<1>6. ASSUME NEW k \in Nat, k \in T PROVE k + 1 \in T
  <2> SUFFICES ASSUME k + 1 <= N PROVE S[k + 1] <= (k + 1) * c
    OBVIOUS
  <2>1. k + 1 \in 1..N /\ (k + 1) - 1 = k /\ k \in 0..N
    BY <1>1
  <2>2. S[k + 1] = S[k] + values[k + 1] /\ values[k + 1] \in Nat /\ values[k + 1] <= c
    BY <2>1, <1>1, <1>2
  <2>3. S[k] \in Nat /\ S[k] <= k * c
    BY <2>1, <1>4, <1>6, <1>1
  <2>4. (k + 1) * c = k * c + c /\ k * c \in Nat
    OBVIOUS
  <2> QED  BY <2>2, <2>3, <2>4
<1> HIDE DEF T
<1>7. Nat \subseteq T
  BY <1>5, <1>6, SetInduction
<1>8. S[N] \in Nat /\ S[N] <= N * c
  BY <1>1, <1>4, <1>7 DEF T
<1> QED  BY <1>3, <1>8 DEF N

LEMMA CeilDivides ==
    /\ \A a \in Nat : CeilDiv(a, Milli) \in Nat /\ a <= Milli * CeilDiv(a, Milli)
    /\ \A a \in Nat, b \in Nat : a <= 4 * b => CeilDiv(a, 4) <= b
<1>1. ASSUME NEW a \in Nat
      PROVE  (a + 1000 - 1) \div 1000 \in Nat /\ a <= 1000 * ((a + 1000 - 1) \div 1000)
  OBVIOUS
<1>2. ASSUME NEW a \in Nat, NEW b \in Nat, a <= 4 * b
      PROVE  (a + 4 - 1) \div 4 <= b
  BY <1>2
<1> QED  BY <1>1, <1>2 DEF CeilDiv, Milli

LEMMA Times ==
    ASSUME NEW a \in Nat, NEW b \in Nat, NEW c \in Nat, a <= b
    PROVE  c * a <= c * b
  OBVIOUS

\* The fee pays the keeper's rate for every virtual byte of the transaction
\* that is broadcast, whatever the signatures of its inputs: the estimate made
\* before they are known is as large as they can be.  The count of the inputs
\* takes one byte of it, so there are fewer than 253.
THEOREM FeeCovers ==
    ASSUME NEW n \in 1..252, NEW outs \in 1..2, NEW rate \in Nat,
           NEW rs \in [1..n -> Signatures], \A i \in 1..n : Number(rs[i].s, WordLen) < Order
    PROVE  rate * VSize([i \in 1..n |-> DerEncode(NormaliseLowS(rs[i]))], outs)
             <= Milli * Fee(rate, n)
<1> DEFINE sig(i) == DerEncode(NormaliseLowS(rs[i]))
           sigs == [i \in 1..n |-> sig(i)]
           values == [i \in 1..n |-> 36 + Len(sig(i))]
           W == WitnessLen(sigs)
           c == 108
<1>1. \A i \in 1..n : 36 + Len(sig(i)) \in Nat /\ 36 + Len(sig(i)) <= c
  <2> SUFFICES ASSUME NEW i \in 1..n PROVE 36 + Len(sig(i)) \in Nat /\ 36 + Len(sig(i)) <= c
    OBVIOUS
  <2> DEFINE r == TrimAndPad(NormaliseLowS(rs[i]).r)
             s == TrimAndPad(NormaliseLowS(rs[i]).s)
  <2>1. rs[i] \in Signatures /\ Number(rs[i].s, WordLen) < Order
    OBVIOUS
  <2>2. NormaliseLowS(rs[i]) \in Signatures
    BY <2>1, LowS
  <2>3. r \in Seq(Nat) /\ s \in Seq(Nat)
    BY <2>2, Trimmed DEF Signatures
  <2>4. sig(i) = Der(r, s) /\ Len(sig(i)) <= 2 * WordLen + 8
    BY <2>1, StrictSignature
  <2> HIDE DEF r, s, sig
  <2>5. Len(sig(i)) = Len(r) + Len(s) + 7
    BY <2>3, <2>4, DerLength
  <2>6. Len(r) \in Nat /\ Len(s) \in Nat
    BY <2>3
  <2>7. WordLen \in Nat /\ WordLen <= 32
    BY SpendAssumption
  <2> QED  BY <2>4, <2>5, <2>6, <2>7
<1> HIDE DEF sig
<1>2. values \in Seq(Nat) /\ Len(values) = n /\ \A i \in 1..n : values[i] <= c
  BY <1>1
<1>3. Len(sigs) = n
  OBVIOUS
<1>4. W = TotalIn(values)
  <2>1. [i \in 1..Len(sigs) |-> 36 + Len(sigs[i])] = values
    BY <1>3
  <2> QED  BY <2>1 DEF WitnessLen
<1> HIDE DEF values, sigs
<1>5. W \in Nat /\ W <= n * c
  <2> HIDE DEF W, c
  <2>1. c \in Nat
    BY DEF c
  <2> QED  BY <1>2, <1>4, <2>1, SumBound
<1> HIDE DEF W
<1> DEFINE base == 4 + 1 + 41 * n + 1 + 31 * outs + 4
           size == 4 * base + 2 + W
<1>6. VSize(sigs, outs) = CeilDiv(size, 4)
  BY <1>3 DEF VSize, CountLen, W
<1>7. size \in Nat /\ size <= 4 * EstVBytes(n) /\ EstVBytes(n) \in Nat
  BY <1>5 DEF EstVBytes
<1> HIDE DEF size
<1>8. CeilDiv(size, 4) <= EstVBytes(n)
  BY <1>7, CeilDivides
<1>9. CeilDiv(size, 4) \in Nat
  BY <1>7 DEF CeilDiv
<1>10. rate * CeilDiv(size, 4) <= rate * EstVBytes(n)
  BY <1>7, <1>8, <1>9, Times
<1>11. rate * EstVBytes(n) \in Nat /\ rate * CeilDiv(size, 4) \in Nat
  BY <1>7, <1>9
<1>12. Fee(rate, n) = CeilDiv(rate * EstVBytes(n), Milli)
  BY DEF Fee
<1>13. rate * EstVBytes(n) <= Milli * Fee(rate, n) /\ Milli * Fee(rate, n) \in Nat
  <2> DEFINE x == rate * EstVBytes(n)
             y == CeilDiv(x, Milli)
  <2>1. x \in Nat
    BY <1>11
  <2> HIDE DEF x
  <2>2. y \in Nat /\ x <= Milli * y
    BY <2>1, CeilDivides
  <2> HIDE DEF y
  <2>3. Milli * y \in Nat
    BY <2>2 DEF Milli
  <2> QED  BY <1>12, <2>2, <2>3 DEF x, y
<1> QED  BY <1>6, <1>10, <1>11, <1>13 DEF sigs, sig

\* Nothing is lost: the inputs of a transaction that buildSpendTx makes are
\* worth its outputs and the fee, and each output is worth something.
THEOREM Balanced ==
    ASSUME NEW values \in Seq(Nat), NEW amount \in Nat, NEW rate \in Nat,
           Spendable(values, amount, rate)
    PROVE  LET outs == SpendOutputs(values, amount, rate)
           IN  /\ TotalIn(values) = TotalIn(outs) + Fee(rate, Len(values))
               /\ Len(outs) \in 1..2 /\ \A i \in 1..Len(outs) : outs[i] > 0
               /\ outs[1] = amount
<1> DEFINE n == Len(values)
           t == TotalIn(values)
           fee == Fee(rate, n)
           change == t - amount - fee
<1>1. n \in Nat /\ t \in Nat
  <2>1. Sums(values) \in [0..n -> Nat]
    BY SumsStep
  <2> QED  BY <2>1 DEF TotalIn
<1>2. fee \in Nat
  <2> DEFINE x == rate * EstVBytes(n)
  <2>1. EstVBytes(n) \in Nat
    BY <1>1 DEF EstVBytes
  <2>2. x \in Nat
    BY <2>1
  <2> HIDE DEF x
  <2>3. CeilDiv(x, Milli) \in Nat
    BY <2>2, CeilDivides
  <2> QED  BY <2>3 DEF Fee, x
<1>3. amount > 0 /\ change \in Nat
  <2> HIDE DEF t, fee
  <2>1. t >= amount + fee /\ amount > 0
    BY DEF Spendable, t, fee
  <2> QED  BY <2>1, <1>1, <1>2
<1>4. SpendOutputs(values, amount, rate) = IF change > 0 THEN <<amount, change>> ELSE <<amount>>
  BY DEF SpendOutputs
<1>5. t = amount + change + fee
  <2> HIDE DEF t, fee
  <2> QED  BY <1>1, <1>2, <1>3
<1> HIDE DEF change
<1>6. CASE change > 0
  <2> DEFINE outs == <<amount, change>>
  <2>1. outs \in Seq(Nat) /\ Len(outs) = 2 /\ outs[1] = amount /\ outs[2] = change
    BY <1>3
  <2> HIDE DEF outs
  <2>2. /\ Sums(outs)[0] = 0
        /\ \A k \in 1..2 : Sums(outs)[k] = Sums(outs)[k - 1] + outs[k]
    BY <2>1, SumsStep
  <2>3. Sums(outs)[1] = Sums(outs)[0] + outs[1] /\ Sums(outs)[2] = Sums(outs)[1] + outs[2]
    <3>1. 1 \in 1..2 /\ 2 \in 1..2 /\ 1 - 1 = 0 /\ 2 - 1 = 1
      OBVIOUS
    <3> QED  BY <2>2, <3>1
  <2>4. TotalIn(outs) = amount + change
    BY <2>1, <2>2, <2>3, <1>3 DEF TotalIn
  <2>5. \A i \in 1..2 : outs[i] > 0
    BY <2>1, <1>3, <1>6
  <2>6. SpendOutputs(values, amount, rate) = outs
    BY <1>4, <1>6 DEF outs
  <2>7. TotalIn(values) = TotalIn(outs) + Fee(rate, Len(values))
    <3> HIDE DEF t, fee
    <3>1. t = TotalIn(outs) + fee
      BY <1>5, <2>4
    <3> QED  BY <3>1 DEF t, fee
  <2>8. Len(outs) \in 1..2 /\ \A i \in 1..Len(outs) : outs[i] > 0
    BY <2>1, <2>5
  <2>9. outs[1] = amount
    BY <2>1
  <2> QED  BY <2>6, <2>7, <2>8, <2>9
<1>7. CASE ~ (change > 0)
  <2> DEFINE outs == <<amount>>
  <2>1. outs \in Seq(Nat) /\ Len(outs) = 1 /\ outs[1] = amount
    BY <1>3
  <2> HIDE DEF outs
  <2>2. /\ Sums(outs)[0] = 0
        /\ \A k \in 1..1 : Sums(outs)[k] = Sums(outs)[k - 1] + outs[k]
    BY <2>1, SumsStep
  <2>3. Sums(outs)[1] = Sums(outs)[0] + outs[1]
    <3>1. 1 \in 1..1 /\ 1 - 1 = 0
      OBVIOUS
    <3> QED  BY <2>2, <3>1
  <2>4. TotalIn(outs) = amount + change
    BY <2>1, <2>2, <2>3, <1>3, <1>7 DEF TotalIn
  <2>5. \A i \in 1..1 : outs[i] > 0
    BY <2>1, <1>3
  <2>6. SpendOutputs(values, amount, rate) = outs
    BY <1>4, <1>7 DEF outs
  <2>7. TotalIn(values) = TotalIn(outs) + Fee(rate, Len(values))
    <3> HIDE DEF t, fee
    <3>1. t = TotalIn(outs) + fee
      BY <1>5, <2>4
    <3> QED  BY <3>1 DEF t, fee
  <2>8. Len(outs) \in 1..2 /\ \A i \in 1..Len(outs) : outs[i] > 0
    BY <2>1, <2>5
  <2>9. outs[1] = amount
    BY <2>1
  <2> QED  BY <2>6, <2>7, <2>8, <2>9
<1> QED  BY <1>6, <1>7

\* requestSign attaches one signature, to the first input: what it makes can
\* be finalized if buildSpendTx was given one input, and not if it was given
\* more, as the keeper does with every payment that a dWallet holds.
THEOREM OneInput ==
    ASSUME NEW ins \in Seq([kind : STRING, hash : Words, value : Nat]), ins # <<>>,
           NEW outs, NEW pub, NEW rs
    PROVE  Finalizable(AttachSig(Psbt(ins, outs), 1, pub, rs)) <=> Len(ins) = 1
<1> DEFINE before == Psbt(ins, outs)
           made == [input |-> 1, pub |-> pub, sig |-> DerEncode(NormaliseLowS(rs))]
           psbt == AttachSig(before, 1, pub, rs)
<1>1. psbt.ins = ins /\ psbt.sigs = {made}
  BY DEF AttachSig, Psbt
<1>2. DOMAIN ins = 1..Len(ins) /\ Len(ins) \in Nat \ {0}
  OBVIOUS
<1>3. made.input = 1
  OBVIOUS
<1> HIDE DEF made, psbt
<1>4. Finalizable(psbt) <=> \A i \in 1..Len(ins) : i = 1
  BY <1>1, <1>2, <1>3 DEF Finalizable
<1>5. (\A i \in 1..Len(ins) : i = 1) <=> Len(ins) = 1
  BY <1>2
<1> QED  BY <1>4, <1>5 DEF psbt

-----------------------------------------------------------------------------
(* Ciphertext: the mock id and what is read from one *)

LEMMA LittleIsBackwards ==
    ASSUME NEW n \in Nat, NEW v \in Nat
    PROVE  /\ LittleEndian(v, n) = Backwards(BigEndian(v, n), n)
           /\ Backwards(LittleEndian(v, n), n) = BigEndian(v, n)
<1> DEFINE R == Shifts(v, n)
           L == LittleEndian(v, n)
           B == BigEndian(v, n)
<1>1. L = [i \in 1..n |-> R[i - 1] % 256]
  BY DEF LittleEndian
<1>2. B = [i \in 1..n |-> R[n - i] % 256]
  BY DEF BigEndian
<1> HIDE DEF R, L, B
<1>3. \A i \in 1..n : /\ n + 1 - i \in 1..n
                      /\ n - (n + 1 - i) = i - 1 /\ (n + 1 - i) - 1 = n - i
  OBVIOUS
<1>4. \A i \in 1..n : L[i] = B[n + 1 - i] /\ B[i] = L[n + 1 - i]
  BY <1>1, <1>2, <1>3
<1>5. L = [i \in 1..n |-> B[n + 1 - i]]
  BY <1>1, <1>4
<1>6. B = [i \in 1..n |-> L[n + 1 - i]]
  BY <1>2, <1>4
<1> QED  BY <1>5, <1>6 DEF Backwards, L, B

LEMMA LittleRoundTrip ==
    ASSUME NEW n \in Nat, NEW v \in Nat, v <= Largest(n)
    PROVE  LittleEndian(v, n) \in ByteStrings(n) /\ FromLittleEndian(LittleEndian(v, n), n) = v
<1> DEFINE w == [i \in 1..n |-> 255]
<1>1. w \in ByteStrings(n) /\ v <= Number(w, n)
  BY DEF ByteStrings, Byte, Largest
<1> HIDE DEF w
<1>2. BigEndian(v, n) \in ByteStrings(n) /\ Number(BigEndian(v, n), n) = v
  BY <1>1, Writable
<1>3. FromLittleEndian(LittleEndian(v, n), n) = v
  BY <1>2, LittleIsBackwards DEF FromLittleEndian
<1>4. LittleEndian(v, n) \in ByteStrings(n)
  <2> DEFINE B == BigEndian(v, n)
  <2>1. B \in [1..n -> Byte] /\ LittleEndian(v, n) = [i \in 1..n |-> B[n + 1 - i]]
    BY <1>2, LittleIsBackwards DEF Backwards, ByteStrings
  <2> HIDE DEF B
  <2>2. \A i \in 1..n : n + 1 - i \in 1..n
    OBVIOUS
  <2> QED  BY <2>1, <2>2 DEF ByteStrings
<1> QED  BY <1>3, <1>4

LEMMA LargestByte ==
    ASSUME NEW n \in Nat \ {0}
    PROVE  Largest(n) \in Nat /\ 255 <= Largest(n)
<1> DEFINE w == [i \in 1..n |-> 255]
           W == Read(w, n)
<1>1. w \in ByteStrings(n) /\ w[n] = 255
  BY DEF ByteStrings, Byte
<1>2. Largest(n) = W[n]
  BY DEF Largest, Number
<1> HIDE DEF w
<1>3. W \in [0..n -> Nat] /\ \A k \in 1..n : W[k] = 256 * W[k - 1] + w[k]
  BY <1>1, ReadStep
<1> HIDE DEF W
<1>4. n \in 1..n /\ n - 1 \in 0..n /\ n \in 0..n
  OBVIOUS
<1>5. W[n] = 256 * W[n - 1] + w[n] /\ W[n - 1] \in Nat /\ W[n] \in Nat
  BY <1>3, <1>4
<1> QED  BY <1>1, <1>2, <1>5

LEMMA MockShape ==
    ASSUME NEW v \in U64, NEW t \in Byte, NEW salt \in Salts
    PROVE  LET ct == MockEncrypt(v, t, salt)
           IN  /\ Len(ct) = CtIdLen /\ ct \in CtIds
               /\ ct[1] = MockTag /\ ct[2] = t
               /\ \A i \in 1..ValueLen : ct[ValueAt + i] = LittleEndian(v, ValueLen)[i]
<1> DEFINE ct == MockEncrypt(v, t, salt)
           L == LittleEndian(v, ValueLen)
           h == ValueAt
           e == CtIdLen
<1>1. /\ ValueLen \in Nat \ {0} /\ SaltLen \in Nat /\ h \in Nat /\ e \in Nat
      /\ h >= SaltLen + 2 /\ e = h + ValueLen
  BY CiphertextAssumption DEF ValueAt, CtIdLen
<1>2. ct = [i \in 1..e |->
              CASE i = 1 -> MockTag
                [] i = 2 -> t
                [] i \in 3..(2 + SaltLen) -> salt[i - 2]
                [] i > h -> L[i - h]
                [] OTHER -> 0]
  BY DEF MockEncrypt
<1>3. L \in [1..ValueLen -> Byte]
  <2>1. ValueLen \in Nat /\ v \in Nat /\ v <= Largest(ValueLen)
    BY <1>1, LargestByte DEF U64
  <2> QED  BY <2>1, LittleRoundTrip DEF ByteStrings
<1>4. salt \in [1..SaltLen -> Byte]
  BY DEF Salts
<1>5. MockTag \in Byte /\ 0 \in Byte
  BY DEF MockTag, Byte
<1> HIDE DEF ct, L, h, e
<1>6. ct \in [1..e -> Byte]
  <2> SUFFICES ASSUME NEW i \in 1..e
               PROVE (CASE i = 1 -> MockTag
                        [] i = 2 -> t
                        [] i \in 3..(2 + SaltLen) -> salt[i - 2]
                        [] i > h -> L[i - h]
                        [] OTHER -> 0) \in Byte
    BY <1>2
  <2>1. CASE i = 1 \/ i = 2
    <3>1. i \notin 3..(2 + SaltLen) /\ ~ (i > h)
      BY <2>1, <1>1
    <3> QED  BY <2>1, <3>1, <1>5
  <2>2. CASE i \in 3..(2 + SaltLen)
    <3>1. i - 2 \in 1..SaltLen
      BY <2>2, <1>1
    <3>2. salt[i - 2] \in Byte
      BY <3>1, <1>4
    <3>3. i # 1 /\ i # 2 /\ ~ (i > h)
      BY <2>2, <1>1
    <3> QED  BY <2>2, <3>2, <3>3
  <2>3. CASE i \notin 3..(2 + SaltLen) /\ i # 1 /\ i # 2 /\ i > h
    <3>1. i - h \in 1..ValueLen
      BY <2>3, <1>1
    <3>2. L[i - h] \in Byte
      BY <3>1, <1>3
    <3> QED  BY <2>3, <3>2
  <2>4. CASE i \notin 3..(2 + SaltLen) /\ i # 1 /\ i # 2 /\ ~ (i > h)
    BY <2>4, <1>5
  <2> QED  BY <2>1, <2>2, <2>3, <2>4
<1>7. Len(ct) = e
  <2>1. ct \in Seq(Byte) /\ DOMAIN ct = 1..e
    BY <1>1, <1>6
  <2> QED  BY <2>1, <1>1
<1>8. ct[1] = MockTag /\ ct[2] = t
  <2>1. /\ 1 \in 1..e /\ 2 \in 1..e /\ ~ (1 > h) /\ ~ (2 > h)
        /\ 1 \notin 3..(2 + SaltLen) /\ 2 \notin 3..(2 + SaltLen)
    BY <1>1
  <2> QED  BY <2>1, <1>2
<1>9. ASSUME NEW j \in 1..ValueLen PROVE ct[h + j] = L[j]
  <2> DEFINE i == h + j
  <2>1. /\ i \in 1..e /\ i # 1 /\ i # 2 /\ i \notin 3..(2 + SaltLen)
        /\ i > h /\ i - h = j
    BY <1>1
  <2> HIDE DEF i
  <2>2. ct[i] = L[i - h]
    BY <1>2, <2>1
  <2> QED  BY <2>1, <2>2 DEF i
<1> QED  BY <1>6, <1>7, <1>8, <1>9 DEF ct, L, h, e, CtIds

\* What the mock packs, requestThresholdDecrypt unpacks, for every 64-bit
\* value and whatever the salt.
THEOREM MockRoundTrip ==
    ASSUME NEW v \in U64, NEW t \in Byte, NEW salt \in Salts
    PROVE  /\ IsMock(MockEncrypt(v, t, salt))
           /\ MockUnpack(MockEncrypt(v, t, salt)) = [fheType |-> t, value |-> v]
<1> DEFINE ct == MockEncrypt(v, t, salt)
           L == LittleEndian(v, ValueLen)
<1>1. /\ Len(ct) = CtIdLen /\ ct[1] = MockTag /\ ct[2] = t
      /\ \A i \in 1..ValueLen : ct[ValueAt + i] = L[i]
  BY MockShape
<1>2. ValueLen \in Nat /\ v \in Nat /\ v <= Largest(ValueLen)
  <2>1. ValueLen \in Nat \ {0}
    BY CiphertextAssumption
  <2> QED  BY <2>1, LargestByte DEF U64
<1>3. L \in ByteStrings(ValueLen) /\ FromLittleEndian(L, ValueLen) = v
  BY <1>2, LittleRoundTrip
<1>4. L = [i \in 1..ValueLen |-> L[i]]
  BY DEF LittleEndian
<1> HIDE DEF ct, L
<1>5. [i \in 1..ValueLen |-> ct[ValueAt + i]] = L
  BY <1>1, <1>4
<1>6. MockUnpack(ct) = [fheType |-> t, value |-> v]
  BY <1>1, <1>3, <1>5 DEF MockUnpack
<1> QED  BY <1>1, <1>6 DEF IsMock, ct

\* An order that encryptOrder mocks is mocked whole, and its three ids are
\* read back as its side, its price and its size.
THEOREM MockOrderRead ==
    ASSUME NEW side \in {"bid", "ask"}, NEW price, NEW size, InRange(price, size),
           NEW ids, NEW salts \in [1..3 -> Salts]
    PROVE  LET blob == OrderBlob("mock", side, price, size, ids, salts)
           IN  /\ IsMock(blob.side_ct) /\ IsMock(blob.price_ct) /\ IsMock(blob.size_ct)
               /\ ThresholdDecrypt(blob.side_ct) = SideValue(side)
               /\ ThresholdDecrypt(blob.price_ct) = price
               /\ ThresholdDecrypt(blob.size_ct) = size
<1> DEFINE ct(v, t, k) == MockEncrypt(v, t, salts[k])
           blob == OrderBlob("mock", side, price, size, ids, salts)
<1>1. SideValue(side) \in U64 /\ price \in U64 /\ size \in U64
  <2>1. Largest(ValueLen) \in Nat /\ 255 <= Largest(ValueLen)
    BY CiphertextAssumption, LargestByte
  <2> QED  BY <2>1 DEF SideValue, U64, InRange
<1>2. EBool \in Byte /\ EUint64 \in Byte
  BY DEF EBool, EUint64, Byte
<1>3. \A k \in 1..3 : salts[k] \in Salts
  OBVIOUS
<1>4. /\ blob.side_ct = ct(SideValue(side), EBool, 1)
      /\ blob.price_ct = ct(price, EUint64, 2)
      /\ blob.size_ct = ct(size, EUint64, 3)
  BY DEF OrderBlob, OrderInputs, Input, Blob
<1>5. \A v \in U64, t \in Byte, k \in 1..3 : IsMock(ct(v, t, k)) /\ ThresholdDecrypt(ct(v, t, k)) = v
  <2> SUFFICES ASSUME NEW v \in U64, NEW t \in Byte, NEW k \in 1..3
               PROVE  IsMock(ct(v, t, k)) /\ ThresholdDecrypt(ct(v, t, k)) = v
    OBVIOUS
  <2>1. IsMock(ct(v, t, k)) /\ MockUnpack(ct(v, t, k)) = [fheType |-> t, value |-> v]
    BY <1>3, MockRoundTrip
  <2> QED  BY <2>1 DEF ThresholdDecrypt
<1> HIDE DEF ct, blob
<1>6. 1 \in 1..3 /\ 2 \in 1..3 /\ 3 \in 1..3
  OBVIOUS
<1> QED  BY <1>1, <1>2, <1>4, <1>5, <1>6 DEF blob

\* The keeper reads the side of a mocked order right in every mode: in real
\* mode, where it may not decrypt, it looks at the byte where a side's is.
THEOREM SideRead ==
    ASSUME NEW side \in {"bid", "ask"}, NEW salt \in Salts, NEW mode
    PROVE  KeeperReadsAsk(mode, MockEncrypt(SideValue(side), EBool, salt)) <=> side = "ask"
<1> DEFINE v == SideValue(side)
           ct == MockEncrypt(v, EBool, salt)
<1>1. v \in 0..1 /\ v \in U64 /\ (v = 1 <=> side = "ask")
  <2>1. Largest(ValueLen) \in Nat /\ 255 <= Largest(ValueLen)
    BY CiphertextAssumption, LargestByte
  <2> QED  BY <2>1 DEF SideValue, U64
<1>2. EBool \in Byte
  BY DEF EBool, Byte
<1> HIDE DEF v
<1>3. IsMock(ct) /\ ThresholdDecrypt(ct) = v
  BY <1>1, <1>2, MockRoundTrip DEF ThresholdDecrypt
<1>4. ct[ValueAt + 1] = v
  <2>1. 1 \in 1..ValueLen /\ ValueLen \in Nat
    BY CiphertextAssumption
  <2>2. ct[ValueAt + 1] = LittleEndian(v, ValueLen)[1]
    BY <1>1, <1>2, <2>1, MockShape
  <2>3. LittleEndian(v, ValueLen)[1] = Shifts(v, ValueLen)[1 - 1] % 256
    BY <2>1 DEF LittleEndian
  <2>4. Shifting(Shifts(v, ValueLen), v, ValueLen)
    <3>1. v \in Int
      BY <1>1
    <3> QED  BY <2>1, <3>1, ShiftsStep
  <2>5. Shifts(v, ValueLen)[1 - 1] = v
    BY <2>4 DEF Shifting
  <2>6. v % 256 = v
    BY <1>1
  <2> QED  BY <2>2, <2>3, <2>5, <2>6
<1> HIDE DEF ct
<1>5. KeeperReadsAsk(mode, ct) <=> v = 1
  BY <1>3, <1>4 DEF KeeperReadsAsk
<1> QED  BY <1>1, <1>5 DEF v, ct

\* What the debug CLI prints of a mock id does not depend on its plaintext.
THEOREM DescribedBlind ==
    ASSUME NEW v \in U64, NEW u \in U64, NEW t \in Byte, NEW salt \in Salts, NEW other \in Salts
    PROVE  DescribeCiphertext(MockEncrypt(v, t, salt)) = DescribeCiphertext(MockEncrypt(u, t, other))
<1>1. ASSUME NEW x \in U64, NEW s \in Salts
      PROVE  DescribeCiphertext(MockEncrypt(x, t, s)) = <<"mock", t>>
  <2> DEFINE ct == MockEncrypt(x, t, s)
  <2>1. Len(ct) = CtIdLen /\ ct[1] = MockTag /\ ct[2] = t
    BY MockShape
  <2> HIDE DEF ct
  <2>2. IsMock(ct)
    BY <2>1 DEF IsMock
  <2>3. DescribeCiphertext(ct) = <<"mock", t>>
    BY <2>1, <2>2 DEF DescribeCiphertext
  <2> QED  BY <2>3 DEF ct
<1> QED  BY <1>1

-----------------------------------------------------------------------------
(* Boot: what the guard against mock modes is worth *)

\* Without a mode that may be mocked: a keeper that starts with an endpoint or
\* a network of mainnet resolves both modes of the guard to real, whatever its
\* variables are set to.
THEOREM KeeperGuarded ==
    ASSUME NEW env \in Envs, NEW readable, NEW idl, NEW address, NEW onChain,
           NEW reached, NEW transient,
           Boots(env, readable, idl, address, onChain, reached, transient),
           KeeperRpc(env) \in Mainnet \/ env.network \in Mainnet
    PROVE  ResolveMode(env.encryptMode) = "real" /\ ResolveMode(env.ikaMode) = "real"
<1>1. env.encryptMode = "real" /\ env.ikaMode = "real"
  BY DEF Boots, KeeperTrips, Trips, IsRiskyMode
<1>2. "real" \in Texts /\ Lower["real"] = "real" /\ "real" \in Forms
  BY BootAssumption DEF Forms
<1>3. "real" # Unset
  BY <1>2, BootAssumption
<1> QED  BY <1>1, <1>2, <1>3 DEF ResolveMode

\* The same of the app: a server that made a ciphertext or a dWallet for a
\* browser whose wallet is connected to mainnet made it in real mode.
THEOREM BrowserGuarded ==
    ASSUME NEW env \in Envs, ~ AppTrips(env), BrowserRpc(env) \in Mainnet
    PROVE  ResolveMode(env.encryptMode) = "real" /\ ResolveMode(env.ikaMode) = "real"
<1>1. env.publicRpc # Unset /\ env.publicRpc \in Mainnet
  BY BootAssumption DEF BrowserRpc, Or
<1>2. env.encryptMode = "real" /\ env.ikaMode = "real"
  BY <1>1 DEF AppTrips, AppGuardRpc, Or, Trips, IsRiskyMode
<1>3. "real" \in Texts /\ Lower["real"] = "real" /\ "real" \in Forms
  BY BootAssumption DEF Forms
<1>4. "real" # Unset
  BY <1>3, BootAssumption
<1> QED  BY <1>2, <1>3, <1>4 DEF ResolveMode
====
