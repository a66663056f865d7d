---- MODULE MCCoreApprove ----
(***************************************************************************)
(* One market at its order limit, with two wallets, expiring orders,       *)
(* orders that carry different ciphertexts, and approvals given, expired   *)
(* and consumed at any point of an order's life.                           *)
(***************************************************************************)
EXTENDS ObsidianCore, TLC

Sym == Permutations(Nonces) \cup Permutations(Traders) \cup Permutations(Cts)
====
