---- MODULE IkaClient ----
(***************************************************************************)
(* What a call of the SDK to one of its networks comes to: tryReal         *)
(* (sdk/src/mode.ts) with the calls that go through it, createDWallet and  *)
(* requestSign (sdk/src/ika.ts, ika-vendor/grpc.ts), encryptOrder          *)
(* (encrypt.ts), and the two requests to esplora (btc.ts).                 *)
(*                                                                         *)
(* A call tries the network, unless the mode is mock; if that throws, auto *)
(* mode may fall back.  The network answers when it likes, or never.  Each *)
(* call takes its mode from the environment of its process, so that calls  *)
(* of different modes share one store.                                     *)
(*                                                                         *)
(* A dWallet id is its length in bytes and a number: 33 bytes for a public *)
(* key of the network, 32 random ones for a key in the file.  Ids do not   *)
(* collide.                                                                *)
(*                                                                         *)
(* Bounds: Calls and Draws.                                                *)
(***************************************************************************)
EXTENDS Naturals

CONSTANTS
    Calls,
    Draws,      \* numbers of dWallets
    Wallets,    \* Solana wallets
    None

VARIABLES
    store,      \* dWallet id -> entry of the mock store
    call        \* call -> how far it is

ikaVars == <<store, call>>

Modes == {"mock", "real", "auto"}
Ops   == {"createDWallet", "requestSign", "encryptOrder", "getAddressUtxos", "broadcastTx"}
Ids   == {32, 33} \X Draws

NoEntry == [key |-> "none", creator |-> None, locked |-> FALSE]
NoCall  == [op |-> "none", mode |-> "mock", by |-> None, id |-> None, key |-> "none",
            pc |-> "idle", timer |-> "off", via |-> "none"]

Init ==
    /\ store = [id \in Ids |-> NoEntry]
    /\ call = [c \in Calls |-> NoCall]

-----------------------------------------------------------------------------
(* The store *)

Exists(id) == store[id].key # "none"
Drawn(d)   == \E n \in {32, 33} : Exists(<<n, d>>)

Set(id, key, creator) ==
    store' = [store EXCEPT ![id] = [key |-> key, creator |-> creator, locked |-> FALSE]]

\* dwalletHexToPubkey: the order on chain has room for 32 bytes.
OnChain(id) == <<32, id[2]>>

\* Only the wallet an entry was created for may lock its policy.
LockPolicy(id, w) ==
    /\ Exists(id) /\ store[id].creator = w
    /\ store' = [store EXCEPT ![id].locked = TRUE]
    /\ UNCHANGED call

-----------------------------------------------------------------------------
(* A call begins *)

TryReal(c, op, m, w, id, key) ==
    call' = [call EXCEPT ![c] =
        [op |-> op, mode |-> m, by |-> w, id |-> id, key |-> key, via |-> "none",
         pc |-> IF m = "mock" THEN "mock" ELSE "real",
         timer |-> IF m = "mock" THEN "off" ELSE "armed"]]

Idle(c) == call[c].pc = "idle"

CreateDWallet(c, m, w) ==
    /\ Idle(c)
    /\ TryReal(c, "createDWallet", m, w, None, "none")
    /\ UNCHANGED store

\* It works on the entry as it is now.
RequestSign(c, m, id) ==
    /\ Idle(c)
    /\ IF Exists(id) /\ store[id].locked
       THEN TryReal(c, "requestSign", m, None, id, store[id].key)
       ELSE call' = [call EXCEPT ![c].op = "requestSign", ![c].id = id, ![c].pc = "threw"]
    /\ UNCHANGED store

EncryptOrder(c, m)    == Idle(c) /\ TryReal(c, "encryptOrder", m, None, None, "none") /\ UNCHANGED store
GetAddressUtxos(c, m) == Idle(c) /\ TryReal(c, "getAddressUtxos", m, None, None, "none") /\ UNCHANGED store
BroadcastTx(c, m)     == Idle(c) /\ TryReal(c, "broadcastTx", m, None, None, "none") /\ UNCHANGED store

-----------------------------------------------------------------------------
(* It ends *)

End(c, pc, via) == call' = [call EXCEPT ![c].pc = pc, ![c].timer = "off", ![c].via = via]
Throw(c) == End(c, "threw", "none")

\* MUTANT: the network is asked for signatures of any dWallet.
MutAsked(c) == call[c].pc = "real"
\* Without a public key of the network a signature is refused here.
Asked(c) == call[c].pc = "real" /\ (call[c].op = "requestSign" => call[c].key = "mpc")

Refuse(c) ==
    /\ call[c].pc = "real" /\ ~ Asked(c)
    /\ Throw(c)
    /\ UNCHANGED store

Answer(c) ==
    /\ Asked(c)
    /\ End(c, "returned", "real-ok")
    /\ IF call[c].op = "createDWallet"
       THEN \E d \in Draws : ~ Drawn(d) /\ Set(<<33, d>>, "mpc", call[c].by)
       ELSE UNCHANGED store

\* isTransientError tells the two kinds of failure apart.
Fail(c, transient) ==
    /\ Asked(c)
    /\ IF transient /\ call[c].mode = "auto"
       THEN call' = [call EXCEPT ![c].pc = "mock", ![c].timer = "off"]
       ELSE Throw(c)
    /\ UNCHANGED store

\* The timer aborts a signal that only the two requests to esplora look at.
\* They fail with its reason, a plain Error, which is not a transient one.
Heeds == {"getAddressUtxos", "broadcastTx"}
Timeout(c) ==
    /\ call[c].pc = "real" /\ call[c].timer = "armed"
    /\ IF call[c].op \in Heeds THEN Throw(c) ELSE call' = [call EXCEPT ![c].timer = "fired"]
    /\ UNCHANGED store

\* In mock mode, or as the fallback.
Via(c) == IF call[c].mode = "mock" THEN "mock" ELSE "real-failed-fallback"
Mock(c) ==
    /\ call[c].pc = "mock"
    /\ IF call[c].op = "requestSign" /\ call[c].key # "wif"
       THEN Throw(c)
       ELSE End(c, "returned", Via(c))
    /\ IF call[c].op = "createDWallet"
       THEN \E d \in Draws : ~ Drawn(d) /\ Set(<<32, d>>, "wif", call[c].by)
       ELSE UNCHANGED store

Begins(c, m) ==
    \/ \E w \in Wallets : CreateDWallet(c, m, w)
    \/ \E id \in Ids : RequestSign(c, m, id)
    \/ EncryptOrder(c, m) \/ GetAddressUtxos(c, m) \/ BroadcastTx(c, m)

Network(c) == Answer(c) \/ \E transient \in BOOLEAN : Fail(c, transient)
Code(c)    == Refuse(c) \/ Timeout(c) \/ Mock(c)

Next ==
    \/ \E c \in Calls : Network(c) \/ Code(c) \/ \E m \in Modes : Begins(c, m)
    \/ \E id \in Ids, w \in Wallets : LockPolicy(id, w)

Spec == Init /\ [][Next]_ikaVars

\* The code runs and timers fire.  Nothing is assumed of the network.
FairSpec == Spec /\ \A c \in Calls : WF_ikaVars(Code(c))

-----------------------------------------------------------------------------
(* Properties *)

Entries == [key : {"none", "wif", "mpc"}, creator : Wallets \cup {None}, locked : BOOLEAN]
CallRecs == [op : Ops \cup {"none"}, mode : Modes, by : Wallets \cup {None}, id : Ids \cup {None},
             key : {"none", "wif", "mpc"}, pc : {"idle", "real", "mock", "returned", "threw"},
             timer : {"off", "armed", "fired"}, via : {"none", "real-ok", "real-failed-fallback", "mock"}]

IkaTypeOK == store \in [Ids -> Entries] /\ call \in [Calls -> CallRecs]

\* A real call never returns a made-up result, and no call returns one for a
\* failure that the network did not report: what comes from the fallback was
\* asked for in auto mode.
NothingMadeUp ==
    \A c \in Calls : call[c].pc = "returned" =>
        /\ call[c].mode = "real" => call[c].via = "real-ok"
        /\ call[c].via = "real-failed-fallback" => call[c].mode = "auto"

\* Auto mode never signs with the mock's key: a dWallet of the network is
\* signed for by the network or not at all, one of the file in mock mode or not
\* at all.  The documents say otherwise: ika.ts:295 "try real, fall back to mock
\* on transient failure", docs/gaps.md:313-316 tryReal "falls back to the mock
\* single-key path so the demo keeps running", docs/DEMO.md:27 and 254.  But
\* only an entry with a public key of the network is asked for at all, and that
\* one has no key in the file: its fallback throws.
NoFallbackSignature ==
    \A c \in Calls : call[c].op = "requestSign" /\ call[c].pc = "returned" =>
        IF call[c].mode = "mock" THEN call[c].via = "mock" /\ call[c].key = "wif"
                                 ELSE call[c].via = "real-ok" /\ call[c].key = "mpc"

\* The keeper looks dWallets up by the 32 bytes that are on chain: the only
\* signatures it ever gets are made in mock mode with a key of the file.
KeeperSignsByFile ==
    \A c \in Calls : /\ call[c].op = "requestSign" /\ call[c].pc = "returned"
                     /\ \E id \in Ids : call[c].id = OnChain(id)
        => call[c].mode = "mock" /\ call[c].via = "mock" /\ call[c].key = "wif"

\* mode.ts: "call real with an 8s timeout", "always returns".
CallsReturn == \A c \in Calls : call[c].pc = "real" ~> call[c].pc \in {"returned", "threw"}
====
