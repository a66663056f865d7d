---- MODULE MCSettlement ----
(***************************************************************************)
(* Two matches of one market that sell from two dWallets, or from one.     *)
(***************************************************************************)
EXTENDS Settlement, TLC

CONSTANTS d1, d2, d3
OneSeller  == [i \in 1..MaxMatches |-> d1]
TwoSellers == [i \in 1..MaxMatches |-> IF i = 1 THEN d1 ELSE d2]
FundsOne == <<<<d1, 7>>>>
FundsTwo == <<<<d1, 7>>, <<d2, 3>>, <<d2, 4>>>>
Ample == [d \in DWallets |-> 100]
OrderNonces == 1..(2 * MaxMatches)
====
