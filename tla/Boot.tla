---- MODULE Boot ----
(***************************************************************************)
(* How the keeper and the app's server decide to start: the guard against  *)
(* mock modes on mainnet (sdk/src/safety.ts), the mode a variable stands   *)
(* for (sdk/src/mode.ts), the endpoints each of them uses, and the         *)
(* keeper's check of its IDL (keeper/src/index.ts).                        *)
(*                                                                         *)
(* A text is what a variable may be set to.  Of one only its lower case    *)
(* and whether that has "mainnet" in it are kept.                          *)
(***************************************************************************)
EXTENDS Integers

CONSTANTS
    Texts, Lower,
    Mainnet,        \* the texts that isMainnetEndpoint accepts
    Unset,
    Local, Devnet   \* the default endpoints

Forms == {"mock", "real", "auto"}

ASSUME BootAssumption ==
    /\ Forms \subseteq Texts /\ Mainnet \subseteq Texts
    /\ Lower \in [Texts -> Texts]
    /\ \A text \in Forms : Lower[text] = text
    /\ Unset \notin Texts
    /\ {Local, Devnet} \subseteq Texts \ Mainnet

Values == Texts \cup {Unset}
Envs == [encryptMode : Values, ikaMode : Values, btcMode : Values,
         provider : Values, rpc : Values, publicRpc : Values, network : Values]

\* a ?? b
Or(a, b) == IF a = Unset THEN b ELSE a

-----------------------------------------------------------------------------

\* A text that is no mode is auto.
ResolveMode(value) ==
    IF value # Unset /\ Lower[value] \in Forms THEN Lower[value] ELSE "auto"

\* The guard wants the exact text.
IsRiskyMode(value) == value # "real"

Trips(env, rpc) ==
    /\ env.network \in Mainnet \/ rpc \in Mainnet
    /\ IsRiskyMode(env.encryptMode) \/ IsRiskyMode(env.ikaMode)

KeeperRpc(env) == Or(env.provider, Local)

\* What the actions of /trade and /positions read from.
AppRpc(env) == Or(env.rpc, Or(env.publicRpc, Devnet))

\* The wallet's connection, which orders are submitted through.
BrowserRpc(env) == Or(env.publicRpc, Local)

\* The guard of the pages that make ciphertexts and dWallets.
AppGuardRpc(env) == Or(env.publicRpc, env.rpc)

KeeperTrips(env) == Trips(env, KeeperRpc(env))
AppTrips(env) == Trips(env, AppGuardRpc(env))

-----------------------------------------------------------------------------
(* verifyIdlAlignment.  Of an IDL it matters which accounts it names, and  *)
(* of each whether its discriminator is the one of its name and its layout *)
(* the deployed program's.                                                 *)

Consistent(idl) == \A account \in idl : account.discriminator

Market(idl) == {account \in idl : account.name = "MarketState"}

\* The market's account is decoded, and no other.
Decodes(idl, onChain) == onChain /\ \A account \in Market(idl) : account.layout

Verified(idl, address, onChain, reached) ==
    /\ Consistent(idl)
    /\ address # Unset /\ Market(idl) # {}
    /\ reached /\ Decodes(idl, onChain)

\* What an error is is told by its text; some network errors, and a decode
\* error that happens to have 503 in it, pass for a network that is down.
Skipped(idl, address, onChain, reached, transient) ==
    /\ Consistent(idl)
    /\ \/ address = Unset
       \/ /\ Market(idl) # {}
          /\ \/ ~ reached /\ transient
             \/ reached /\ ~ onChain
             \/ reached /\ onChain /\ ~ Decodes(idl, onChain) /\ transient

Aligned(idl, address, onChain, reached, transient) ==
    \/ Verified(idl, address, onChain, reached)
    \/ Skipped(idl, address, onChain, reached, transient)

\* main, up to its first poll; readable says that the key, the IDL and the
\* addresses could be read.
Boots(env, readable, idl, address, onChain, reached, transient) ==
    /\ ~ KeeperTrips(env)
    /\ readable
    /\ Aligned(idl, address, onChain, reached, transient)

-----------------------------------------------------------------------------
(* The counters behind /status *)

Counter(mode) ==
    CASE mode = "real-ok" -> "realOk"
      [] mode = "real-failed-fallback" -> "realFailedFallback"
      [] mode = "real-failed" -> "realFailed"
      [] OTHER -> "mock"

Counted(counts, event) == [counts EXCEPT ![event.surface][Counter(event.mode)] = @ + 1]
====
