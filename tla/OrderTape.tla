---- MODULE OrderTape ----
(***************************************************************************)
(* The order tape of the trade page (app/lib/order-state.ts): the rows a   *)
(* browser shows as the user's orders.  It is written by the order form,   *)
(* by the cancel button, by the timers of the match demo and, every twenty *)
(* seconds, by what a read of the chain answers.  The chain is the pool of *)
(* DarkPool, which ObsidianCore implements.                                *)
(*                                                                         *)
(* Orders are numbered as their nonces are drawn.  A row whose order never *)
(* reaches the chain is called a stub.                                     *)
(*                                                                         *)
(* Bounds: MaxOrders nonces, MaxFaults failed reads and lost confirmations,*)
(* MaxChanges wallet changes, page reloads, resets, and orders from another *)
(* device.                                                                 *)
(***************************************************************************)
EXTENDS Naturals, FiniteSets, Sequences

CONSTANTS
    Market,     \* NEXT_PUBLIC_OBSIDIAN_MARKET
    MaxOrders,
    Trades,     \* its matches
    Wallets,    \* wallets that connect to this browser
    None,
    Polls,      \* hydration reads that may be under way together
    TapeSize,   \* rows the tape keeps: 50
    MaxFaults,
    MaxChanges

VARIABLES
    book, trade, \* the pool
    owner,       \* order -> wallet that signed it
    tx,          \* order -> fate of the transaction that submits it
    minted,      \* nonces drawn so far
    wallet,      \* the connected wallet
    tape,        \* yourOrders, newest first
    reads,       \* hydration reads under way
    form,        \* the order whose confirmation handleSubmit awaits
    modal,       \* the order whose match the modal plays
    queue,       \* matchQueueRef
    pend,        \* the order startMatch is about to be called for
    timers,      \* status changes the demo has scheduled
    faults, changes

Orders == {Market} \X (1..MaxOrders)

Pool == INSTANCE DarkPool

poolVars == <<book, trade, owner, tx>>
demoVars == <<modal, queue, pend, timers>>
tapeVars == <<book, trade, owner, tx, minted, wallet, tape, reads, form,
              modal, queue, pend, timers, faults, changes>>

Statuses == {"sealed", "matched", "settling", "settled", "cancelled"}
Rows == [id : Orders, status : Statuses, sent : BOOLEAN, encrypted : BOOLEAN]

ASSUME TapeAssumption ==
    /\ MaxOrders \in Nat /\ TapeSize \in Nat /\ MaxFaults \in Nat /\ MaxChanges \in Nat
    /\ Wallets # {}
    /\ None \notin Wallets /\ None \notin Orders /\ None \notin Statuses

NoRead == [under |-> FALSE, live |-> FALSE, failed |-> FALSE, rows |-> <<>>]

Fresh == <<Market, minted + 1>>
Mint  == minted < MaxOrders /\ minted' = minted + 1
Fault == faults < MaxFaults /\ faults' = faults + 1
Change == changes < MaxChanges /\ changes' = changes + 1

Init ==
    /\ Pool!Init
    /\ owner = [o \in Orders |-> None]
    /\ tx = [o \in Orders |-> "none"]
    /\ minted = 0
    /\ wallet = CHOOSE w \in Wallets : TRUE
    /\ tape = <<>>
    /\ reads = [i \in Polls |-> NoRead]
    /\ form = None
    /\ modal = None /\ queue = <<>> /\ pend = None /\ timers = {}
    /\ faults = 0 /\ changes = 0

-----------------------------------------------------------------------------
(* The store *)

\* A set of numbers as an increasing sequence.
Enumerate(S) ==
    CHOOSE f \in [1..Cardinality(S) -> S] : \A i, j \in DOMAIN f : i < j => f[i] < f[j]

\* The rows at the places S.
At(rows, S) == LET places == Enumerate(S) IN [k \in DOMAIN places |-> rows[places[k]]]

\* MUTANT: the tape is not cut.
MutKeep(rows) == rows
Keep(rows) == SubSeq(rows, 1, IF Len(rows) < TapeSize THEN Len(rows) ELSE TapeSize)

\* MUTANT: pushed at the end.
MutPushOrder(row) == tape' = Keep(tape \o <<row>>)
PushOrder(row) == tape' = Keep(<<row>> \o tape)

SetStatus(rows, o, status) ==
    [i \in DOMAIN rows |->
        IF rows[i].id = o THEN [rows[i] EXCEPT !.status = status] ELSE rows[i]]

\* MUTANT: the demo's status wins over any status of the chain.
MutMergeStatus(local, chain) ==
    IF local \in {"settling", "settled"} THEN local
    ELSE CASE chain = "Active" -> "sealed" [] chain = "Matched" -> "matched" [] OTHER -> "cancelled"

MergeStatus(local, chain) ==
    CASE chain = "Active"  -> "sealed"
      [] chain = "Matched" -> IF local \in {"settling", "settled"} THEN local ELSE "matched"
      [] OTHER -> "cancelled"

\* MUTANT: the last row of an order takes its chain row.
MutClaims(rows, chain, i) ==
    rows[i].id \in DOMAIN chain /\ \A j \in (i + 1)..Len(rows) : rows[j].id # rows[i].id
\* The first row of an order takes its chain row, whatever it is.  Of the
\* other rows only stubs stay.
Claims(rows, chain, i) ==
    rows[i].id \in DOMAIN chain /\ \A j \in 1..(i - 1) : rows[j].id # rows[i].id
Stays(rows, chain, i) ==
    Claims(rows, chain, i) \/ (~ rows[i].sent /\ ~ rows[i].encrypted)

Ids(rows) == {rows[i].id : i \in DOMAIN rows}

Placeholder(o, chain) ==
    [id |-> o, status |-> MergeStatus("sealed", chain[o]), sent |-> FALSE, encrypted |-> TRUE]

Merged(rows, chain, i) ==
    IF Claims(rows, chain, i)
    THEN [rows[i] EXCEPT !.status = MergeStatus(rows[i].status, chain[rows[i].id])]
    ELSE rows[i]

\* Chain rows without a row of their own come first, as placeholders: in the
\* order of the answer, here by nonce, which matters only to what is cut.
HydrateFromChain(rows, chain) ==
    LET kept  == Enumerate({i \in DOMAIN rows : Stays(rows, chain, i)})
        fresh == Enumerate({o[2] : o \in DOMAIN chain \ Ids(rows)})
    IN Keep([k \in DOMAIN fresh |-> Placeholder(<<Market, fresh[k]>>, chain)]
            \o [k \in DOMAIN kept |-> Merged(rows, chain, kept[k])])

\* The table of the user's orders, empty while no wallet is connected.
Visible == IF wallet = None THEN <<>> ELSE tape

\* What the order book highlights as the user's.
BookView ==
    LET active == {i \in DOMAIN Visible :
                      Visible[i].status \in {"sealed", "matched"} /\ ~ Visible[i].encrypted}
    IN {Visible[i].id : i \in {j \in active : Cardinality({k \in active : k < j}) < 3}}

First(rows, o) == CHOOSE i \in DOMAIN rows : rows[i].id = o /\ \A j \in 1..(i - 1) : rows[j].id # o
StatusOf(rows, o) == IF o \in Ids(rows) THEN rows[First(rows, o)].status ELSE None

-----------------------------------------------------------------------------
(* Hydration: one effect per connected wallet, a read at once and then     *)
(* every twenty seconds, whether or not the one before it has answered     *)

OwnRows(w) == [o \in {x \in Orders : owner[x] = w /\ book[x] # "Absent"} |-> book[o]]

Read(i, failed, rows) ==
    reads' = [reads EXCEPT ![i] = [under |-> TRUE, live |-> TRUE, failed |-> failed, rows |-> rows]]

\* listMyEncryptedOrdersAction answers with an empty list when its RPC fails.
Tick(i) ==
    /\ wallet # None /\ ~ reads[i].under
    /\ \/ Read(i, FALSE, OwnRows(wallet)) /\ UNCHANGED faults
       \/ Read(i, TRUE, <<>>) /\ Fault
    /\ UNCHANGED <<poolVars, minted, wallet, tape, form, demoVars, changes>>

\* MUTANT: hydrates whatever wallet is connected by now.
MutCurrent(i) == TRUE
\* The effect of a wallet that is gone was cancelled.
Current(i) == reads[i].live

Hydrate(i) ==
    /\ reads[i].under
    /\ tape' = IF Current(i) THEN HydrateFromChain(tape, reads[i].rows) ELSE tape
    /\ reads' = [reads EXCEPT ![i] = NoRead]
    /\ UNCHANGED <<poolVars, minted, wallet, form, demoVars, faults, changes>>

Cancelled == [i \in Polls |-> [reads[i] EXCEPT !.live = FALSE]]

Connect(w) ==
    /\ wallet # w
    /\ wallet' = w
    /\ reads' = Cancelled
    /\ Change
    /\ UNCHANGED <<poolVars, minted, tape, form, demoVars, faults>>

-----------------------------------------------------------------------------
(* The order form *)

Row(o, signed) == [id |-> o, status |-> "sealed", sent |-> signed, encrypted |-> FALSE]

SubmitLocal == Mint /\ PushOrder(Row(Fresh, FALSE))

\* The form is there for a connected wallet, and idle.
CanSubmit == wallet # None /\ form = None

\* Both instructions in one transaction, signed by w and sent.
SubmitOrderOnChain(o, w) ==
    /\ tx' = [tx EXCEPT ![o] = "flying"]
    /\ owner' = [owner EXCEPT ![o] = w]

\* Something is missing for a submission on chain, or the encryption, the
\* wallet or the preflight throws: the form is kept as a stub.
SubmitStub ==
    /\ CanSubmit
    /\ SubmitLocal
    /\ UNCHANGED <<poolVars, wallet, reads, form, demoVars, faults, changes>>

\* By the wallet of the render it was submitted in.
Send ==
    /\ CanSubmit
    /\ Mint
    /\ SubmitOrderOnChain(Fresh, wallet)
    /\ form' = Fresh
    /\ UNCHANGED <<book, trade, wallet, tape, reads, demoVars, faults, changes>>

\* The status that confirmTransaction returns is not looked at.
Processed(o) == tx[o] \in {"landed", "refused"}

Confirm ==
    /\ form # None /\ Processed(form)
    /\ PushOrder(Row(form, TRUE))
    /\ form' = None
    /\ UNCHANGED <<poolVars, minted, wallet, reads, demoVars, faults, changes>>

\* It throws: the transaction may still land, or has, or never will.  The
\* form is kept as a stub under a nonce of its own.
ConfirmThrows ==
    /\ form # None /\ Fault
    /\ SubmitLocal
    /\ form' = None
    /\ UNCHANGED <<poolVars, wallet, reads, demoVars, changes>>

\* MUTANT: any row with plaintext has a cancel button.
MutCancellable(row) == ~ row.encrypted
Cancellable(row) == row.status = "sealed" /\ ~ row.encrypted

\* On the tape only: nothing is sent.
Cancel(o) ==
    /\ \E i \in DOMAIN Visible : Visible[i].id = o /\ Cancellable(Visible[i])
    /\ tape' = SetStatus(tape, o, "cancelled")
    /\ UNCHANGED <<poolVars, minted, wallet, reads, form, demoVars, faults, changes>>

-----------------------------------------------------------------------------
(* The match demo *)

Schedule(o) == timers' = timers \cup {<<o, "settling">>, <<o, "settled">>}

StartMatch(o) ==
    /\ tape' = SetStatus(tape, o, "matched")
    /\ modal' = o
    /\ Schedule(o)

\* Its target must be sealed in the rows of the render it was made in.
MayStart(o) == StatusOf(tape, o) = "sealed"

DemoCandidates == At(tape, {i \in DOMAIN tape : tape[i].status = "sealed" /\ ~ tape[i].encrypted})

TryMatch ==
    /\ modal = None /\ DemoCandidates # <<>>
    /\ MayStart(DemoCandidates[1].id) /\ StartMatch(DemoCandidates[1].id)
    /\ UNCHANGED <<poolVars, minted, wallet, reads, form, queue, pend, faults, changes>>

MatchAll ==
    /\ modal = None /\ DemoCandidates # <<>>
    /\ queue' = [k \in 1..(Len(DemoCandidates) - 1) |-> DemoCandidates[k + 1].id]
    /\ MayStart(DemoCandidates[1].id) /\ StartMatch(DemoCandidates[1].id)
    /\ UNCHANGED <<poolVars, minted, wallet, reads, form, pend, faults, changes>>

Fire(o, status) ==
    /\ <<o, status>> \in timers
    /\ status = "settled" => <<o, "settling">> \notin timers
    /\ timers' = timers \ {<<o, status>>}
    /\ tape' = SetStatus(tape, o, status)
    /\ UNCHANGED <<poolVars, minted, wallet, reads, form, modal, queue, pend, faults, changes>>

\* The modal's last timer.  Every render of the page starts it again, so the
\* badge timers, started with it, are over by then; the Fast button lies under
\* the modal and is not pressed.  The next match of the queue follows 150 ms
\* later, if its order is sealed now.
MatchComplete ==
    /\ modal # None /\ pend = None
    /\ \A status \in Statuses : <<modal, status>> \notin timers
    /\ modal' = None
    /\ IF queue = <<>> THEN UNCHANGED <<queue, pend>>
       ELSE /\ queue' = Tail(queue)
            /\ pend' = IF MayStart(Head(queue)) THEN Head(queue) ELSE pend
    /\ UNCHANGED <<poolVars, minted, wallet, tape, reads, form, timers, faults, changes>>

StartPending ==
    /\ pend # None
    /\ StartMatch(pend)
    /\ pend' = None
    /\ UNCHANGED <<poolVars, minted, wallet, reads, form, queue, faults, changes>>

-----------------------------------------------------------------------------
(* The page and the chain *)

\* Only the tape is in localStorage.  To leave the page and come back without a
\* reload, with awaits and timers of the old page still out, is no step here.
Reload ==
    /\ Change
    /\ reads' = [i \in Polls |-> NoRead]
    /\ form' = None
    /\ modal' = None /\ queue' = <<>> /\ pend' = None /\ timers' = {}
    /\ UNCHANGED <<poolVars, minted, wallet, tape, faults>>

\* On the deposit page, with the timers and the form's awaits still running.
Reset ==
    /\ Change
    /\ tape' = <<>>
    /\ reads' = Cancelled
    /\ modal' = None /\ queue' = <<>> /\ pend' = None
    /\ UNCHANGED <<poolVars, minted, wallet, form, timers, faults>>

browserVars == <<minted, wallet, tape, reads, form, demoVars, faults, changes>>

Land(o) ==
    /\ tx[o] = "flying"
    /\ Pool!Place(o)
    /\ tx' = [tx EXCEPT ![o] = "landed"]
    /\ UNCHANGED <<owner, browserVars>>

\* Processed, and refused: the market changed after the preflight.
Refuse(o) ==
    /\ tx[o] = "flying"
    /\ tx' = [tx EXCEPT ![o] = "refused"]
    /\ UNCHANGED <<book, trade, owner, browserVars>>

\* From another device.
Elsewhere(w) ==
    /\ Mint /\ Change
    /\ Pool!Place(Fresh)
    /\ owner' = [owner EXCEPT ![Fresh] = w]
    /\ tx' = [tx EXCEPT ![Fresh] = "landed"]
    /\ UNCHANGED <<trade, wallet, tape, reads, form, demoVars, faults>>

Withdraw(o) == Pool!Withdraw(o) /\ UNCHANGED <<owner, tx, browserVars>>

\* How a trade is concluded is nothing the tape reads.
Match ==
    /\ \E id \in Trades, p \in SUBSET Orders : Pool!Trade(id, p)
    /\ UNCHANGED <<owner, tx, browserVars>>

TimerStep == \/ \E o \in Orders, status \in {"settling", "settled"} : Fire(o, status)
             \/ MatchComplete
             \/ StartPending

Next ==
    \/ \E i \in Polls : Tick(i) \/ Hydrate(i)
    \/ \E w \in Wallets \cup {None} : Connect(w)
    \/ SubmitStub \/ Send \/ Confirm \/ ConfirmThrows
    \/ \E o \in Orders : Cancel(o)
    \/ TryMatch \/ MatchAll \/ TimerStep
    \/ Reload \/ Reset
    \/ \E o \in Orders : Land(o) \/ Refuse(o) \/ Withdraw(o)
    \/ \E w \in Wallets : Elsewhere(w)
    \/ Match

Spec == Init /\ [][Next]_tapeVars

\* The interval fires, reads answer, and timers run down.
FairSpec == /\ Spec
            /\ WF_tapeVars(\E i \in Polls : Tick(i))
            /\ \A i \in Polls : WF_tapeVars(Hydrate(i))
            /\ WF_tapeVars(TimerStep)

-----------------------------------------------------------------------------
(* Properties *)

TapeTypeOK ==
    /\ book \in [Orders -> {"Absent", "Active", "Matched", "Cancelled"}]
    /\ owner \in [Orders -> Wallets \cup {None}]
    /\ tx \in [Orders -> {"none", "flying", "landed", "refused"}]
    /\ minted \in 0..MaxOrders
    /\ wallet \in Wallets \cup {None}
    /\ tape \in Seq(Rows) /\ Len(tape) <= TapeSize
    /\ form \in Orders \cup {None}
    /\ modal \in Orders \cup {None} /\ pend \in Orders \cup {None}
    /\ queue \in Seq(Orders)
    /\ timers \subseteq Orders \X {"settling", "settled"}
    /\ faults \in 0..MaxFaults /\ changes \in 0..MaxChanges

\* While a submission waits for its confirmation, a hydration may already
\* show its order as a placeholder: then the order has two rows.  The row
\* with the plaintext is always the first of them, the one that keeps its
\* place at the next hydration.
TwinIsPlaceholder ==
    \A i, j \in DOMAIN tape : i < j /\ tape[i].id = tape[j].id =>
        ~ tape[i].encrypted /\ tape[j].encrypted

\* A tape is hydrated for the wallet that is connected then: of the orders
\* on chain it shows that wallet's and no others, however the wallet changed
\* while the read was out, and the book highlights none of them that the
\* read saw cancelled.
HydrationOwns ==
    [][\A i \in Polls : Hydrate(i) /\ tape' # tape =>
        /\ \A k \in DOMAIN tape' : tape'[k].sent \/ tape'[k].encrypted =>
             owner[tape'[k].id] = wallet /\ book[tape'[k].id] # "Absent"
        /\ \A o \in BookView' : tx[o] # "none" =>
             o \in DOMAIN reads[i].rows /\ reads[i].rows[o] # "Cancelled"]_tapeVars

HasPlaintext(rows, o) == \E i \in DOMAIN rows : rows[i].id = o /\ ~ rows[i].encrypted

\* What the user typed exists in the tape alone.  It is lost by a reset, when
\* the tape is full, and for a submitted order also by a hydration that does
\* not show it: one of another wallet, one whose read failed, or one that was
\* read before the order landed.  A hydration that shows the order keeps it,
\* also when it had become a placeholder in between; a stub outlives them all.
PlaintextKept ==
    [][\A o \in Orders : HasPlaintext(tape, o) /\ ~ HasPlaintext(tape', o) =>
        \/ tape' = <<>> /\ changes' > changes
        \/ Len(tape') = TapeSize
        \/ tx[o] # "none" /\ \E i \in Polls : Hydrate(i) /\ o \notin DOMAIN reads[i].rows]_tapeVars

\* A stub only moves on: no hydration touches it, and what was cancelled or
\* settled stays so, except for a stub cancelled in the 150 ms before its turn
\* in the queue, which the stale render still believes sealed.
Rank(status) == CASE status = "sealed" -> 0 [] status = "matched" -> 1
                  [] status = "settling" -> 2 [] OTHER -> 3
StubForward ==
    [][\A o \in Orders : tx[o] = "none" /\ StatusOf(tape, o) # None /\ StatusOf(tape', o) # None =>
        \/ StatusOf(tape', o) = StatusOf(tape, o)
        \/ Rank(StatusOf(tape', o)) > Rank(StatusOf(tape, o))
        \/ pend = o]_tapeVars

\* Whatever was lost before, again and again all orders on chain of the
\* connected wallet have a row with the chain's status, or with the demo's
\* finer one.
Shown(o) == StatusOf(tape, o) \in
    CASE book[o] = "Active"  -> {"sealed"}
      [] book[o] = "Matched" -> {"matched", "settling", "settled"}
      [] OTHER -> {"cancelled"}
Surfaces == []<>(wallet # None =>
    \A o \in Orders : book[o] # "Absent" /\ owner[o] = wallet => Shown(o))
====
