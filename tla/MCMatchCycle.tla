---- MODULE MCMatchCycle ----
(***************************************************************************)
(* Two runs of match-pair whose pairs share the middle one of three        *)
(* orders.                                                                 *)
(***************************************************************************)
EXTENDS MatchCycle, TLC

CONSTANTS m1, cA, cB

Overlapping == cA :> <<<<m1, 1>>, <<m1, 2>>>> @@ cB :> <<<<m1, 2>>, <<m1, 3>>>>
====
