---- MODULE MCIkaClient ----
(***************************************************************************)
(* Two or three calls, of any kind and mode, and two dWallets.  The        *)
(* functions of Spend and Ciphertext are evaluated on words of two bytes   *)
(* and on ids of five, against what they are meant to compute, and those   *)
(* of Boot on every setting of the variables it reads.                     *)
(***************************************************************************)
EXTENDS IkaClient, Spend, Ciphertext, Boot, TLC

Sym == Permutations(Calls) \cup Permutations(Wallets)

-----------------------------------------------------------------------------
\* An odd order with the high bit set, as the curve's.
SmallOrder == <<253, 153>>

SmallWords == [1..WordLen -> {0, 1, 127, 128, 200, 255}]

BelowOrder(w) == Number(w, WordLen) < Order

ASSUME WordsRoundTrip ==
    \A w \in SmallWords : BigEndian(Number(w, WordLen), WordLen) = w

\* BIP 62 and 66, of what DerEncode(NormaliseLowS(_)) returns.
ASSUME SignaturesAccepted ==
    \A r, s \in SmallWords :
        LET low == NormaliseLowS([r |-> r, s |-> s])
        IN  BelowOrder(s) =>
              /\ IsLowS(low)
              /\ Number(low.s, WordLen) \in {Number(s, WordLen), Order - Number(s, WordLen)}
              /\ StrictInt(TrimAndPad(low.r)) /\ StrictInt(TrimAndPad(low.s))
              /\ Len(TrimAndPad(low.s)) <= WordLen
              /\ Len(DerEncode(low)) <= 2 * WordLen + 8

\* An s that is no scalar is not made one.
ASSUME NotAScalar ==
    \E s \in SmallWords : ~ BelowOrder(s) /\ ~ IsLowS(NormaliseLowS([r |-> s, s |-> s]))

\* The estimate covers the longest signatures, and spares fewer bytes than the
\* longer count of 253 inputs would take.
ASSUME EstimateCovers ==
    \A n \in 1..40 :
        LET size == VSize([i \in 1..n |-> [k \in 1..72 |-> 0]], 2)
        IN  size <= EstVBytes(n) /\ EstVBytes(n) < size + CountLen(253) - CountLen(1)

ASSUME MockRead ==
    \A v \in U64, salt \in [1..SaltLen -> {0, MockTag}] :
        LET ct == MockEncrypt(v, EUint64, salt)
        IN  /\ ct \in CtIds /\ IsMock(ct)
            /\ MockUnpack(ct) = [fheType |-> EUint64, value |-> v]

ASSUME AskRead ==
    \A side \in {"bid", "ask"}, mode \in Modes, salt \in Salts :
        KeeperReadsAsk(mode, MockEncrypt(SideValue(side), EBool, salt)) <=> side = "ask"

-----------------------------------------------------------------------------
LowerOf ==
    [text \in Texts |-> IF text = "REAL" THEN "real" ELSE text]

\* The spelling that resolveMode takes for real does not pass the guard.
ASSUME GuardIsExact ==
    \E env \in Envs : /\ ResolveMode(env.encryptMode) = "real"
                      /\ ResolveMode(env.ikaMode) = "real"
                      /\ KeeperTrips(env)

\* The guard of the app is not about the endpoint its actions read from.
ASSUME ReadsUnguarded ==
    \E env \in Envs : /\ ~ AppTrips(env) /\ AppRpc(env) \in Mainnet
                      /\ ResolveMode(env.encryptMode) = "mock"

\* The Bitcoin mode is not the guard's business.
ASSUME BtcUnguarded ==
    \E env \in Envs : /\ ~ KeeperTrips(env) /\ KeeperRpc(env) \in Mainnet
                      /\ ResolveMode(env.btcMode) = "mock"

\* A keeper starts with records that it cannot decode.
ASSUME DriftUnseen ==
    LET accounts == {"MarketState", "MatchRecord"}
        idl == {[name |-> name, discriminator |-> TRUE, layout |-> name = "MarketState"] :
                  name \in accounts}
    IN  \E env \in Envs : Boots(env, TRUE, idl, "local", TRUE, TRUE, FALSE)
====
