---- MODULE MCCoreMatch ----
(***************************************************************************)
(* One market whose three orders compete for two matches: intents that     *)
(* share an order, cancellations between try_match and                     *)
(* finalize_decryption, expiry, and outputs committed in any order.        *)
(***************************************************************************)
EXTENDS ObsidianCore, MatchGraph, TLC

Sym == Permutations(Nonces) \cup Permutations(DWallets) \cup Permutations(Cts)
         \cup Permutations(Outputs)

\* The comparator of those intents, for every two orders of three-bit words.
ASSUME ComparatorChecked ==
    \A a, b \in Inputs : /\ MatchIffWilling(a, b) /\ FairUnlessWrapped(a, b)
                         /\ FillExhaustsOne(a, b) /\ OrderIrrelevant(a, b)
====
