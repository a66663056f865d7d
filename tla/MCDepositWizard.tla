---- MODULE MCDepositWizard ----
(***************************************************************************)
(* One browser with two wallets in turn, a second process that writes the  *)
(* file for another user, and two dWallets, so that the user may go back,  *)
(* generate again, and meet the answers of the calls made before.          *)
(***************************************************************************)
EXTENDS DepositWizard

\* A deposit to the first dWallet, and none to the second.
FirstFunded == [d \in DWallets |-> IF d = 1 THEN 1 ELSE 0]
====
