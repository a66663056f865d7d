---- MODULE MatchGraph ----
(***************************************************************************)
(* match_orders_graph (programs/obsidian-core/src/lib.rs): the comparator  *)
(* that the Encrypt executor runs on the ciphertexts of two orders.        *)
(*                                                                         *)
(* It has no state and no failure: it is a function of the plaintexts,     *)
(* which nobody sees.  Numbers are unsigned words, of 64 bits in the code, *)
(* and their sum wraps.  What try_match hands to it is in ObsidianCore,    *)
(* what the keeper makes of its outputs in MatchCycle.                     *)
(***************************************************************************)
EXTENDS Integers

CONSTANT Modulus    \* 2^64

ASSUME ModulusAssumption == Modulus \in Nat \ {0}

Words  == 0..(Modulus - 1)
\* Of an order: side 0 is a bid, side 1 an ask.
Inputs == [side : {0, 1}, price : Words, size : Words]

Opposite(a, b) == a.side # b.side
BidPrice(a, b) == IF a.side = 0 THEN a.price ELSE b.price
AskPrice(a, b) == IF a.side = 0 THEN b.price ELSE a.price

CanMatch(a, b) == Opposite(a, b) /\ BidPrice(a, b) >= AskPrice(a, b)
FillSize(a, b) == IF a.size <= b.size THEN a.size ELSE b.size
ClearingPrice(a, b) == ((a.price + b.price) % Modulus) \div 2

MatchOrdersGraph(a, b) == <<CanMatch(a, b), FillSize(a, b), ClearingPrice(a, b)>>

-----------------------------------------------------------------------------
(* What it is for *)

\* At which prices an order would trade.
Willing(o, p) == IF o.side = 0 THEN p <= o.price ELSE p >= o.price

\* Two orders match exactly if they are a bid and an ask and there is a price
\* at which both would trade.
MatchIffWilling(a, b) ==
    CanMatch(a, b) <=> Opposite(a, b) /\ \E p \in Words : Willing(a, p) /\ Willing(b, p)

\* The midpoint is such a price, unless the sum of the prices wraps.  Then it
\* is below both of them, and the seller is given less than the ask.
FairUnlessWrapped(a, b) ==
    CanMatch(a, b) =>
        (Willing(a, ClearingPrice(a, b)) /\ Willing(b, ClearingPrice(a, b))
            <=> a.price + b.price < Modulus)

\* No order trades more than its size, and one of the two trades all of it:
\* finalize_decryption may close it, but what is left of the other is lost.
FillExhaustsOne(a, b) ==
    /\ FillSize(a, b) <= a.size /\ FillSize(a, b) <= b.size
    /\ FillSize(a, b) \in {a.size, b.size}

\* The keeper may pass the two orders either way round.
OrderIrrelevant(a, b) == MatchOrdersGraph(a, b) = MatchOrdersGraph(b, a)
====
