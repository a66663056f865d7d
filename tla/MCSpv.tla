---- MODULE MCSpv ----
(***************************************************************************)
(* Blocks of one to five transactions, with the payment at any place of    *)
(* them or absent: trees of every shape up to depth three.                 *)
(***************************************************************************)
EXTENDS Spv, TLC

Sym == Permutations(Txids \ {Payment})
====
