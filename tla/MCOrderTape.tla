---- MODULE MCOrderTape ----
(***************************************************************************)
(* Two wallets take turns in one browser with two orders between them, one *)
(* hydration read at a time, and a tape that is full with two rows.  The   *)
(* functions of Views are evaluated on two records and a feed of two.      *)
(***************************************************************************)
EXTENDS OrderTape, Views

OneTrade == {<<Market, 1>>}

-----------------------------------------------------------------------------
SettleStatuses == {"Pending", "Settled", "SettleFailed", "Cancelled"}

Sample ==
    [id : {0}, matchId : 1..2, status : SettleStatuses, proof : [txid : {7}, len : {0, 32, 145}]]

\* Of any records, in any order, there is one listing.
ASSUME OneListing ==
    \A records \in [1..2 -> Sample] :
        LET unsorted == Unsorted(records, Nothing)
            sorted == {from \in Shuffles(2) :
                         SortedFrom([i \in 1..2 |-> unsorted[from[i]]], unsorted, from)}
        IN  Cardinality(sorted) = 1

\* A settlement of another market lends its badge to one with its number.
ASSUME BadgeOfAnother ==
    LET Settled(mode) == [matchId |-> 1, mode |-> mode]
    IN  Badge(Recent(<<Settled("mock")>>, <<Settled("real-ok")>>), 1) = "mock"

\* A match that failed is shown as pending, and a payment that was proved to
\* be in a block is the one without a link.
ASSUME FailuresHidden ==
    \A record \in Sample :
        LET view == ViewOf(record, <<>>)
        IN  /\ view.status # "failed"
            /\ record.proof.len > 32 => view.txid = Nothing

\* The panel's first error stays, whatever is read after it, and the orders
\* of the wallet before stay until those of the next are read.
ASSUME PanelStale ==
    LET full == Loaded(Opened(NewPanel), <<1>>)
    IN  /\ Panel(Polled(LoadFailed(Opened(NewPanel)), <<1>>), TRUE) = "error"
        /\ Panel(Opened(full), TRUE) = "orders"

\* Until the setup has answered, and when it cannot read the program's IDL,
\* an order stays in the browser although no banner says so.
ASSUME SilentStub ==
    /\ \A answered \in {"no", "failed"} :
         ~ OnChainReady("whole", "mine", Setup(answered, "idl", Market), TRUE)
    /\ ~ OnChainReady("whole", "mine", Setup("yes", LoadIdl(Nothing, <<"a">>, <<>>), Market), TRUE)
    /\ Banners("whole", "mine") = {}

\* A settled match the feed has forgotten shows a dash, one that failed nothing.
ASSUME ModeForgotten ==
    /\ Cells(ViewOf([id |-> 0, matchId |-> 1, status |-> "Settled",
                     proof |-> [txid |-> 7, len |-> 32]], <<>>)) = [link |-> TRUE, mode |-> "dash"]
    /\ Cells(ViewOf([id |-> 0, matchId |-> 1, status |-> "SettleFailed",
                     proof |-> [txid |-> 7, len |-> 0]], <<>>)) = [link |-> FALSE, mode |-> "blank"]

\* When the form is reset, its timers have fired.
ASSUME FormResetLast == ResetAfter > ShootAt
====
