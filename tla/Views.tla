---- MODULE Views ----
(***************************************************************************)
(* What is shown of matches and orders: the keeper's status feed           *)
(* (keeper/src/index.ts), the positions page that joins it with the        *)
(* records of the chain, the panel of a wallet's orders on it, and the     *)
(* setup, the banners and the order form of the trade page.                *)
(*                                                                         *)
(* A record is [id, matchId, status, proof], its id an account's address   *)
(* and its proof a txid and the number of its bytes.                       *)
(***************************************************************************)
EXTENDS Integers, Sequences, FiniteSets

CONSTANTS
    RecentWindow,   \* settlements the feed keeps: 20
    Nothing         \* null

ASSUME ViewsAssumption == RecentWindow \in Nat

-----------------------------------------------------------------------------
(* bumpMetrics: each settlement goes to the front of the feed *)

Reversed(s) == [i \in 1..Len(s) |-> s[Len(s) + 1 - i]]

Newest(s, n) == IF Len(s) > n THEN SubSeq(s, 1, n) ELSE s

Recent(recent, settled) == Newest(Reversed(settled) \o recent, RecentWindow)

\* An error stays the last one until there is another.
BumpMetrics(metrics, report, error) ==
    [ticks     |-> metrics.ticks + 1,
     attempted |-> metrics.attempted + Len(report.attempted),
     settled   |-> metrics.settled + Len(report.settled),
     failed    |-> metrics.failed + Len(report.failed),
     lastError |-> IF error = Nothing THEN metrics.lastError ELSE error,
     recent    |-> Recent(metrics.recent, report.settled)]

-----------------------------------------------------------------------------
(* listMatches *)

\* A keeper that cannot be asked is one that has settled nothing.
KeeperRecent(answer) == IF answer = Nothing THEN <<>> ELSE answer

\* The entry that was put into the map last: the oldest.  The map's keys are
\* match ids, and every market has a first match.
Entry(feed, matchId) ==
    CHOOSE i \in DOMAIN feed :
        /\ feed[i].matchId = matchId
        /\ \A j \in DOMAIN feed : feed[j].matchId = matchId => j <= i

Badge(feed, matchId) ==
    IF \E i \in DOMAIN feed : feed[i].matchId = matchId
    THEN feed[Entry(feed, matchId)].mode ELSE Nothing

\* How Anchor's client spells the statuses of the program.
Key(status) ==
    CASE status = "Settled" -> "settled"
      [] status = "SettleFailed" -> "settleFailed"
      [] status = "Cancelled" -> "cancelled"
      [] OTHER -> "pending"

\* The page looks for a key that the program does not have.
RowStatus(key) == IF key \in {"settled", "failed"} THEN key ELSE "pending"

\* A proof with a merkle path has no txid to link to.
BtcTxid(record) ==
    IF RowStatus(Key(record.status)) = "settled" /\ record.proof.len = 32
    THEN record.proof.txid ELSE Nothing

ViewOf(record, feed) ==
    [id |-> record.id, matchId |-> record.matchId, status |-> RowStatus(Key(record.status)),
     txid |-> BtcTxid(record), mode |-> Badge(feed, record.matchId)]

Unsorted(records, answer) ==
    [i \in 1..Len(records) |-> ViewOf(records[i], KeeperRecent(answer))]

Before(a, b) ==
    IF (a.status = "settled") = (b.status = "settled") THEN a.matchId > b.matchId
    ELSE a.status = "settled"

\* rows is what the sort makes of the unsorted ones: from holds where each
\* was, and those that compare equal stay in order.
SortedFrom(rows, unsorted, from) ==
    /\ \A i \in DOMAIN rows : rows[i] = unsorted[from[i]]
    /\ \A i, j \in DOMAIN rows :
         i < j => /\ ~ Before(rows[j], rows[i])
                  /\ Before(rows[i], rows[j]) \/ from[i] < from[j]

Shuffles(n) == {f \in [1..n -> 1..n] : \A i, j \in 1..n : f[i] = f[j] => i = j}

ListMatches(rows, records, answer) ==
    /\ DOMAIN rows = 1..Len(records)
    /\ \E from \in Shuffles(Len(records)) :
          SortedFrom(rows, Unsorted(records, answer), from)

\* The page, and the line that counts.
Page(rows) ==
    IF rows = Nothing THEN "error" ELSE IF rows = <<>> THEN "empty" ELSE "table"

Count(rows, status) == Cardinality({i \in DOMAIN rows : rows[i].status = status})

\* A row's link, and its badge of the way the payment went.
Cells(view) ==
    [link |-> view.txid # Nothing,
     mode |-> IF view.mode # Nothing THEN view.mode
              ELSE IF view.status = "settled" THEN "dash" ELSE "blank"]

-----------------------------------------------------------------------------
(* OpenOrders: its state, after each thing that may happen to it *)

NewPanel == [rows |-> Nothing, loading |-> FALSE, error |-> FALSE]

Opened(panel) == [panel EXCEPT !.loading = TRUE, !.error = FALSE]
Closed(panel) == [panel EXCEPT !.rows = Nothing]
Loaded(panel, rows) == [panel EXCEPT !.rows = rows, !.loading = FALSE]
LoadFailed(panel) == [panel EXCEPT !.loading = FALSE, !.error = TRUE]
Polled(panel, rows) == [panel EXCEPT !.rows = rows]

Panel(panel, connected) ==
    IF ~ connected THEN "connect"
    ELSE IF panel.loading /\ panel.rows = Nothing THEN "loading"
    ELSE IF panel.error THEN "error"
    ELSE IF panel.rows \in {Nothing, <<>>} THEN "none"
    ELSE "orders"

-----------------------------------------------------------------------------
(* getProgramSetupAction, and what the trade page makes of it *)

\* The first of the candidates that can be read, and from then on that one:
\* files maps the readable ones to what is in them.  The positions page has
\* a reader of its own, which fails where this one goes without.
LoadIdl(cache, candidates, files) ==
    LET readable == {i \in DOMAIN candidates : candidates[i] \in DOMAIN files}
    IN  IF cache # Nothing THEN cache
        ELSE IF readable = {} THEN Nothing
        ELSE files[candidates[CHOOSE i \in readable : \A j \in readable : i <= j]]

\* programSetup: null until the action answers, and empty if it fails.
NoSetup == [market |-> Nothing, idl |-> Nothing]
Setup(answered, idl, market) ==
    CASE answered = "no" -> Nothing
      [] answered = "failed" -> NoSetup
      [] answered = "yes" -> [market |-> market, idl |-> idl]

\* dwalletIdValid: the id of the stored dWallet is a whole one.
OnChainReady(id, ownership, setup, signer) ==
    /\ signer /\ id = "whole" /\ ownership = "mine"
    /\ setup # Nothing /\ setup.idl # Nothing /\ setup.market # Nothing

Banners(id, ownership) ==
    (IF id = "broken" THEN {"recreate"} ELSE {}) \cup ({ownership} \cap {"foreign", "orphan"})

-----------------------------------------------------------------------------
(* OrderForm *)

\* A number that parseFloat cannot read, or an infinite one, is Nothing.
Positive(number) == number # Nothing /\ number > 0

MaySubmit(form, price, size, disabled) ==
    Positive(price) /\ Positive(size) /\ form = "idle" /\ ~ disabled

\* Milliseconds after the button was pressed: the timers of the animation,
\* the answer of the submission, and the reset that follows a good one.
EnvelopeAt == 800
ShootAt == 1200
ResetAfter == 1800

Phase(now, answered, ok) ==
    LET idleAt == IF ok THEN answered + ResetAfter ELSE answered
    IN  IF answered # Nothing /\ now >= idleAt THEN "idle"
        ELSE IF now >= ShootAt THEN "shoot"
        ELSE IF now >= EnvelopeAt THEN "envelope"
        ELSE "scramble"
====
