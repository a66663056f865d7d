---- MODULE DarkPool ----
(***************************************************************************)
(* What the order book promises, without accounts, ciphertexts, keepers or *)
(* counters: an order trades at most once and only with one other order of *)
(* its market, it can be withdrawn until it trades, and a trade is         *)
(* concluded once.                                                         *)
(***************************************************************************)
CONSTANTS Orders, Trades

VARIABLES
    book,   \* order -> what became of it
    trade   \* trade -> its two orders, and how it ended

\* Orders and trades are pairs whose first component is their market.
TwoOf(p, m) == \E a, b \in Orders : a # b /\ p = {a, b} /\ a[1] = m /\ b[1] = m

Init ==
    /\ book = [o \in Orders |-> "Absent"]
    /\ trade = [id \in Trades |-> [parties |-> {}, outcome |-> "Absent"]]

Place(o) ==
    /\ book[o] = "Absent"
    /\ book' = [book EXCEPT ![o] = "Active"]
    /\ UNCHANGED trade

Withdraw(o) ==
    /\ book[o] = "Active"
    /\ book' = [book EXCEPT ![o] = "Cancelled"]
    /\ UNCHANGED trade

Trade(id, p) ==
    /\ TwoOf(p, id[1])
    /\ \A o \in p : book[o] = "Active"
    /\ trade[id].outcome = "Absent"
    /\ book' = [o \in Orders |-> IF o \in p THEN "Matched" ELSE book[o]]
    /\ trade' = [trade EXCEPT ![id] = [parties |-> p, outcome |-> "Pending"]]

Conclude(id, outcome) ==
    /\ trade[id].outcome = "Pending"
    /\ trade' = [trade EXCEPT ![id].outcome = outcome]
    /\ UNCHANGED book

Next ==
    \/ \E o \in Orders : Place(o) \/ Withdraw(o)
    \/ \E id \in Trades, p \in SUBSET Orders : Trade(id, p)
    \/ \E id \in Trades, outcome \in {"Settled", "SettleFailed"} : Conclude(id, outcome)

Spec == Init /\ [][Next]_<<book, trade>>
====
