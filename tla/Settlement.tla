---- MODULE Settlement ----
(***************************************************************************)
(* The keeper's settlement loop (keeper/src/poll.ts) between two chains:   *)
(* the Solana program, whose own actions are taken here, and Bitcoin.      *)
(*                                                                         *)
(* pollOnce is a sequence of awaits.  Each action of the keeper runs to    *)
(* the next await, and everything else moves in between: transactions that *)
(* the keeper gave up on land later or are dropped, Bitcoin confirms, an   *)
(* approval is given or expires, the keeper is killed and started again.   *)
(*                                                                         *)
(* Matching is over when this module starts: match i pairs the orders      *)
(* numbered 2i-1 and 2i, the odd matches sold by the first of the two, the *)
(* even ones by the second.                                                *)
(*                                                                         *)
(* Bounds: MaxFaults crashes, failed calls and reorganisations; MaxCoins   *)
(* coins.                                                                  *)
(***************************************************************************)
EXTENDS ObsidianCore, FiniteSetsExt

CONSTANTS
    Self,       \* the key this keeper signs with
    Store,      \* dWallets in the keeper's mock store
    Seller,     \* match number -> the selling order's dWallet
    Buyer,      \* the buying orders' dWallet
    Policy,     \* dWallet -> maxAmountSats of its locked policy
    Funding,    \* the sellers' first coins: a sequence of <<dWallet, value>>
    Fee,        \* the fee buildSpendTx sets aside
    LateApprovals, \* whether sellers may approve after they were matched
    BtcMode,    \* OBSIDIAN_BTC_MODE: mock, real or auto
    MaxCoins, MaxFaults

VARIABLES
    k,          \* the pollOnce in progress
    flight,     \* Solana transactions the keeper gave up waiting for
    coin,       \* Bitcoin outputs that belong to the sellers
    payments,   \* transactions the relay accepted, and what let them through
    confirmed,  \* those that are in a block
    faults      \* failures so far

keeperVars == <<k, flight, faults>>
btcVars    == <<coin, payments, confirmed>>
allVars    == <<vars, keeperVars, btcVars>>

Ids   == MatchIds
Coins == 1..MaxCoins
\* synthesizeUtxo: a coin that no chain knows, worth more than any fill.
Synthetic == 0
SyntheticValue == 100

\* An unsigned spend.  Inputs, outputs and fee fix its sighash and its txid,
\* so the transaction itself stands for both.
Txs == [match : Ids, ins : SUBSET (Coins \cup {Synthetic})]
NoCoin == [owner |-> None, value |-> 0, from |-> None]
Idle == [pc |-> "idle", todo |-> {}, cur |-> None, tx |-> None, order |-> None,
         gate |-> "none", proof |-> "txid"]

Msgs == [kind : {"consume", "finalize", "fail"}, match : Ids, order : Orders \cup {None},
         tx : Txs \cup {None}, proof : TxProofs]

\* The buyer sells nothing, and a digest is the sighash of a spend.
ASSUME SettlementAssumption ==
    /\ MaxMatches >= 1 /\ Nonces = 1..(2 * MaxMatches)
    /\ Self \in Keepers
    /\ Seller \in [1..MaxMatches -> DWallets] /\ Buyer \in DWallets
    /\ \A i \in 1..MaxMatches : Seller[i] # Buyer
    /\ \E n \in 0..MaxCoins : DOMAIN Funding = 1..n
    /\ \A i \in DOMAIN Funding : Funding[i][1] \in DWallets
    /\ \A tx \in Txs : tx \in Digests
    /\ MaxCoins \in Nat /\ MaxFaults \in Nat
    /\ None \notin TxProofs

SettlementTypeOK ==
    /\ TypeOK
    /\ k.pc \in {"idle", "next", "utxos", "find", "sign", "probe", "consume",
                 "broadcast", "spv", "finalize", "fail"}
    /\ k.todo \subseteq Ids /\ k.cur \in Ids \cup {None}
    /\ k.tx \in Txs \cup {None} /\ k.order \in Orders \cup {None}
    /\ k.gate \in {"none", "consumed", "missing"} /\ k.proof \in TxProofs
    /\ k.pc \in {"find", "sign", "probe", "consume", "broadcast", "spv"} => k.tx # None
    /\ k.pc \in {"probe", "consume"} => k.order # None
    /\ k.pc = "broadcast" => k.gate # "none"
    /\ flight \subseteq Msgs
    /\ \A c \in Coins : coin[c].owner \in DWallets \cup {None}
    /\ \A p \in payments : p.tx \in Txs
    /\ confirmed \subseteq Txs
    /\ faults \in 0..MaxFaults

-----------------------------------------------------------------------------
(* The program's state when settlement starts *)

MatchOf(n) == (n + 1) \div 2
Sells(n) == (n % 2 = 1) = (MatchOf(n) % 2 = 1)
DWalletOf(n) == IF Sells(n) THEN Seller[MatchOf(n)] ELSE Buyer

\* Orders 1, 2, ... were submitted in that order, and matched in pairs.
Init0(s, key) ==
    /\ slot = FirstSlot
    /\ keeper = [m \in Markets |-> key]
    /\ head = [m \in Markets |-> <<m, 2 * MaxMatches>>]
    /\ matchCount = [m \in Markets |-> MaxMatches]
    /\ activeCount = [m \in Markets |-> 0]
    /\ \E c \in Cts :
         order = [o \in Orders |->
             [owner |-> s, dwallet |-> DWalletOf(o[2]), ct |-> c, expiry |-> LastSlot,
              next |-> IF o[2] = 1 THEN None ELSE <<o[1], o[2] - 1>>, status |-> "Matched"]]
    /\ committed = [id \in Ids |-> Outputs]
    /\ intent = [id \in Ids |-> NoIntent]
    /\ \E fill \in [Ids -> Fills] :
         record = [id \in Ids |->
             [a |-> <<id[1], 2 * id[2] - 1>>, b |-> <<id[1], 2 * id[2]>>,
              seller |-> Seller[id[2]], buyer |-> Buyer, fill |-> fill[id], proof |-> None,
              status |-> "Pending"]]
    /\ \E given \in SUBSET {o \in Orders : Sells(o[2])} :
         \E max \in [given -> Caps], e \in [given -> Expiries] :
           approval = [o \in Orders |-> IF o \notin given THEN NoApproval ELSE
               [approver |-> s, dwallet |-> DWalletOf(o[2]), max |-> max[o],
                expiry |-> e[o], consumedAt |-> 0, digest |-> None]]

SettlementInit ==
    /\ \E s \in Traders : Init0(s, Self)
    /\ k = Idle
    /\ flight = {}
    /\ coin = [c \in Coins |-> IF c > Cardinality(DOMAIN Funding) THEN NoCoin
                  ELSE [owner |-> Funding[c][1], value |-> Funding[c][2], from |-> None]]
    /\ payments = {}
    /\ confirmed = {}
    /\ faults = 0

-----------------------------------------------------------------------------
(* Bitcoin, as the esplora relay shows it *)

\* getAddressUtxos: confirmed, and unspent as far as the mempool knows.
Unspent(c)  == \A p \in payments : c \notin p.tx.ins
InBlock(c)  == coin[c].from = None \/ coin[c].from \in confirmed
Utxos(d)    == {c \in Coins : coin[c].owner = d /\ InBlock(c) /\ Unspent(c)}
Value(c)    == IF c = Synthetic THEN SyntheticValue ELSE coin[c].value
TotalIn(ins) == MapThenSumSet(Value, ins)

\* What goes back to the seller: the fee is set aside whatever it amounts to.
Change(tx) == TotalIn(tx.ins) - record[tx.match].fill - Fee

\* POST /tx: inputs must exist and be unspent; a transaction the relay
\* already has is refused too.
Acceptable(tx) == \A c \in tx.ins : c \in Coins /\ Unspent(c)

FreshCoin == CHOOSE c \in Coins : coin[c] = NoCoin /\ \A d \in 1..(c - 1) : coin[d] # NoCoin
\* The bound MaxCoins; the runs never reach it.
HasFreshCoin == \E c \in Coins : coin[c] = NoCoin

Relay(tx, gate) ==
    /\ Acceptable(tx)
    /\ HasFreshCoin
    /\ payments' = payments \cup {[tx |-> tx, gate |-> gate]}
    /\ coin' = IF Change(tx) = 0 THEN coin
               ELSE [coin EXCEPT ![FreshCoin] = [owner |-> record[tx.match].seller,
                                                 value |-> Change(tx), from |-> tx]]
    /\ UNCHANGED confirmed

Confirm(tx) ==
    /\ \E p \in payments : p.tx = tx
    /\ tx \notin confirmed
    /\ confirmed' = confirmed \cup {tx}
    /\ UNCHANGED <<vars, keeperVars, coin, payments>>

-----------------------------------------------------------------------------
(* The keeper *)

\* The catch block is entered.
Throw == k' = [k EXCEPT !.pc = "fail"]
Goto(pc) == k' = [k EXCEPT !.pc = pc]
Fault == faults < MaxFaults /\ faults' = faults + 1
Msg(kind) == [kind |-> kind, match |-> k.cur, order |-> k.order, tx |-> k.tx,
              proof |-> k.proof]
\* rpc() throws: the transaction was sent, and may or may not land later.
GiveUp(kind) == Fault /\ flight' = flight \cup {Msg(kind)}

\* MUTANT: the status filter of getProgramAccounts misses.
MutPendingIds == {id \in Ids : record[id].status # "Absent"}
PendingIds == {id \in Ids : record[id].status = "Pending"}

Poll ==
    /\ k.pc = "idle"
    /\ PendingIds # {}
    /\ k' = [Idle EXCEPT !.pc = "next", !.todo = PendingIds]
    /\ UNCHANGED <<vars, flight, faults, btcVars>>

\* Records come in no particular order, as they were when the poll began.
Take(id) ==
    /\ k.pc = "next"
    /\ id \in k.todo
    /\ k' = [Idle EXCEPT !.todo = k.todo \ {id}, !.cur = id,
                 !.pc = IF {record[id].seller, record[id].buyer} \subseteq Store
                        THEN "utxos" ELSE "fail"]
    /\ UNCHANGED <<vars, flight, faults, btcVars>>

PollDone ==
    /\ k.pc = "next"
    /\ k.todo = {}
    /\ k' = Idle
    /\ UNCHANGED <<vars, flight, faults, btcVars>>

\* buildSpendTx spends every input it is given.
Build(ins) ==
    LET fill == record[k.cur].fill IN
    IF ins = {} \/ fill = 0 \/ TotalIn(ins) < fill + Fee
    THEN Throw
    ELSE k' = [k EXCEPT !.tx = [match |-> k.cur, ins |-> ins], !.pc = "find"]

FetchUtxos ==
    /\ k.pc = "utxos"
    /\ \/ BtcMode = "mock" /\ Build({Synthetic}) /\ UNCHANGED faults
       \/ BtcMode # "mock" /\ Build(Utxos(record[k.cur].seller)) /\ UNCHANGED faults
       \/ BtcMode = "real" /\ Fault /\ Throw
       \/ BtcMode = "auto" /\ Fault /\ (Build({Synthetic}) \/ Throw)
    /\ UNCHANGED <<vars, flight, btcVars>>

\* A fetch that fails is skipped, and no order at all means no approval.
SellerOrder(id, readable) ==
    LET sells(o) == o \in readable /\ order[o].dwallet = record[id].seller
        a == record[id].a
        b == record[id].b
    IN  CASE sells(a) -> a [] ~ sells(a) /\ sells(b) -> b [] OTHER -> None

FindSellerOrder ==
    /\ k.pc = "find"
    /\ \E readable \in SUBSET {record[k.cur].a, record[k.cur].b} :
         /\ IF readable = {record[k.cur].a, record[k.cur].b} THEN UNCHANGED faults ELSE Fault
         /\ k' = [k EXCEPT !.order = SellerOrder(k.cur, readable), !.pc = "sign"]
    /\ UNCHANGED <<vars, flight, btcVars>>

\* The policy bounds every output, the change included.  The key is one of
\* the store file, which signs every input: module IkaClient shows that the
\* keeper gets no other signatures.
Signable(tx) ==
    {record[tx.match].fill, Change(tx)} \subseteq 0..Policy[record[tx.match].seller]

Unguarded == k' = [k EXCEPT !.pc = "broadcast", !.gate = "missing"]

\* MUTANT: the seller's order is used without looking whether it was found.
MutSigned == Goto("probe")
\* if (sellerOrder) { ... }: without an order there is no approval to ask for.
Signed == IF k.order = None THEN Unguarded ELSE Goto("probe")

RequestSign ==
    /\ k.pc = "sign"
    /\ \/ Signable(k.tx) /\ Signed
       \/ ~ Signable(k.tx) /\ Throw
    /\ UNCHANGED <<vars, flight, faults, btcVars>>

\* getAccountInfo of the approval: without one the keeper settles anyway.
ProbeApproval ==
    /\ k.pc = "probe"
    /\ \/ approval[k.order].approver = None /\ Unguarded /\ UNCHANGED faults
       \/ approval[k.order].approver # None /\ Goto("consume") /\ UNCHANGED faults
       \/ Fault /\ Throw
    /\ UNCHANGED <<vars, flight, btcVars>>

Consents == Consumable(k.cur[1], k.order, Self, record[k.cur].fill)
Consumed == k' = [k EXCEPT !.pc = "broadcast", !.gate = "consumed"]

\* MUTANT: a refused approval is logged, and the payment goes on.
MutRefused == Consumed
\* consume_btc_approval fails, for whatever reason: the payment is not made.
Refused == Throw

\* An error that calls the instruction "not found" would pass for a missing
\* approval; with an approval account there, the program has the instruction.
TryConsume ==
    /\ k.pc = "consume"
    /\ UNCHANGED btcVars
    /\ \/ /\ ConsumeBtcApproval(k.cur[1], k.order, Self, k.tx, record[k.cur].fill)
          /\ Consumed
          /\ UNCHANGED <<flight, faults>>
       \/ ~ Consents /\ Refused /\ UNCHANGED <<vars, flight, faults>>
       \/ GiveUp("consume") /\ Refused /\ UNCHANGED vars

\* MUTANT: real mode falls back as auto mode does.
MutNoAnswer == Fault /\ (Throw \/ Goto("finalize"))
\* tryReal's three endings of a call that did not answer: real mode throws;
\* auto mode makes up a txid if the error looks transient, else throws.
NoAnswer ==
    /\ Fault
    /\ \/ Throw
       \/ BtcMode = "auto" /\ Goto("finalize")

\* A refusal (4xx) is a logical error, unless its text happens to contain
\* 502, 503 or 504: then auto mode takes it for a failing proxy.
BroadcastTx ==
    /\ k.pc = "broadcast"
    /\ UNCHANGED <<vars, flight>>
    /\ \/ BtcMode = "mock" /\ Goto("finalize") /\ UNCHANGED <<faults, btcVars>>
       \/ /\ BtcMode # "mock"
          /\ \/ /\ Relay(k.tx, k.gate)
                /\ \/ Goto("spv") /\ UNCHANGED faults
                   \/ NoAnswer
             \/ /\ ~ Acceptable(k.tx)
                /\ Throw \/ (BtcMode = "auto" /\ Goto("finalize"))
                /\ UNCHANGED <<faults, btcVars>>
             \/ NoAnswer /\ UNCHANGED btcVars

\* MUTANT: any confirmed transaction yields a proof.
MutHasProof(tx) == confirmed # {}
HasProof(tx) == tx \in confirmed

\* MUTANT: a proof that is not there yet counts as an error.
MutNoProof == Throw
\* fetchSpvProof returns null while the transaction is unconfirmed and on any
\* error, and the bare txid is recorded.
NoProof == Goto("finalize")

WithProof(proof) == k' = [k EXCEPT !.pc = "finalize", !.proof = proof]

\* The path, the block of that height and its header are three reads: when
\* the block was replaced in between, path and header do not fit.
FetchSpvProof ==
    /\ k.pc = "spv"
    /\ \/ HasProof(k.tx) /\ WithProof("spv") /\ UNCHANGED faults
       \/ HasProof(k.tx) /\ Fault /\ WithProof("invalid")
       \/ NoProof /\ UNCHANGED faults
    /\ UNCHANGED <<vars, flight, btcVars>>

Decidable(id) == SettlePending(id) /\ KeeperSigned(id[1], Self)

CallFinalize ==
    /\ k.pc = "finalize"
    /\ UNCHANGED btcVars
    /\ \/ FinalizeSettlement(k.cur, k.proof, Self) /\ Goto("next") /\ UNCHANGED <<flight, faults>>
       \/ ~ (Decidable(k.cur) /\ ProofAccepted(k.proof)) /\ Throw
          /\ UNCHANGED <<vars, flight, faults>>
       \/ GiveUp("finalize") /\ Throw /\ UNCHANGED vars

\* MUTANT: an exception is logged, and the record is left for later.
MutGiveUpOn(id) == UNCHANGED vars
\* The catch block: reason 0, whatever happened.
GiveUpOn(id) == FailSettlement(id, Self)

CallFail ==
    /\ k.pc = "fail"
    /\ Goto("next")
    /\ UNCHANGED btcVars
    /\ \/ GiveUpOn(k.cur) /\ UNCHANGED <<flight, faults>>
       \/ ~ Decidable(k.cur) /\ UNCHANGED <<vars, flight, faults>>
       \/ GiveUp("fail") /\ UNCHANGED vars

KeeperStep ==
    \/ Poll \/ PollDone \/ \E id \in Ids : Take(id)
    \/ FetchUtxos \/ FindSellerOrder \/ RequestSign \/ ProbeApproval \/ TryConsume
    \/ BroadcastTx \/ FetchSpvProof \/ CallFinalize \/ CallFail

\* SIGTERM, a crash, a new container: what pollOnce knew is gone, what it
\* sent is not.
Crash ==
    /\ k.pc # "idle"
    /\ Fault
    /\ k' = Idle
    /\ UNCHANGED <<vars, flight, btcVars>>

-----------------------------------------------------------------------------
(* The rest of the world *)

\* A transaction the keeper gave up on reaches the program after all.  If
\* the program refuses it, it is as if it was dropped.
Land(msg) ==
    /\ msg \in flight
    /\ flight' = flight \ {msg}
    /\ UNCHANGED <<k, faults, btcVars>>
    /\ CASE msg.kind = "consume" ->
              ConsumeBtcApproval(msg.match[1], msg.order, Self, msg.tx, record[msg.match].fill)
         [] msg.kind = "finalize" -> FinalizeSettlement(msg.match, msg.proof, Self)
         [] msg.kind = "fail" -> FailSettlement(msg.match, Self)

\* Its blockhash expired.
Drop(msg) ==
    /\ msg \in flight
    /\ flight' = flight \ {msg}
    /\ UNCHANGED <<vars, k, faults, btcVars>>

\* A matched order can still be approved.
LateApproval(o, max, e) ==
    /\ LateApprovals
    /\ Sells(o[2])
    /\ ApproveBtcSettlement(o, order[o].owner, max, e)
    /\ UNCHANGED <<keeperVars, btcVars>>

Clock == Tick /\ UNCHANGED <<keeperVars, btcVars>>

SettlementNext ==
    \/ KeeperStep
    \/ Crash
    \/ \E msg \in flight : Land(msg) \/ Drop(msg)
    \/ \E p \in payments : Confirm(p.tx)
    \/ \E o \in Orders, max \in Caps, e \in Expiries : LateApproval(o, max, e)
    \/ Clock

SettlementSpec == SettlementInit /\ [][SettlementNext]_allVars

\* The container restarts a keeper that stopped (restart: always), and its
\* loop runs pollOnce again and again.  Failures are finitely many.
FairSpec == SettlementSpec /\ WF_allVars(KeeperStep)

-----------------------------------------------------------------------------
(* Properties *)

PaymentsOf(id) == {p \in payments : p.tx.match = id}
OrderOf(id) == SellerOrder(id, {record[id].a, record[id].b})

\* An auditor can match what Bitcoin shows with what the seller allowed:
\* every payment made under an approval is the one whose sighash the
\* approval recorded, within its amount.  As the approval is one-shot, a
\* retry after a crash or a lost answer never pays a second time under it.
AuditTrail ==
    \A p \in payments : p.gate = "consumed" =>
        LET id == p.tx.match IN
        /\ approval[OrderOf(id)].digest = p.tx
        /\ record[id].fill <= approval[OrderOf(id)].max

\* With no failure, a match that is SettleFailed has moved no bitcoin: every
\* throw of pollOnce comes before the broadcast.
HonestFailure ==
    faults = 0 => \A id \in Ids : record[id].status = "SettleFailed" => PaymentsOf(id) = {}

\* In real mode a match is Settled only after the relay took its payment:
\* no failure leads to a made-up txid.
SettledPaid ==
    BtcMode = "real" => \A id \in Ids : record[id].status = "Settled" => PaymentsOf(id) # {}

\* Every payment of a match beyond its first costs a crash or a lost call:
\* polling again by itself never pays twice.
PaymentsBounded == \A id \in Ids : Cardinality(PaymentsOf(id)) <= 1 + faults

\* Whatever order failures come in, an spv_verified record is of a payment
\* that is in a block.
SpvConfirmed ==
    \A id \in Ids : record[id].proof = "spv" => \E p \in PaymentsOf(id) : p.tx \in confirmed

\* No record stays Pending for ever: a poll settles it or gives it up.
EveryMatchDecided ==
    \A id \in Ids : record[id].status = "Pending" ~> record[id].status # "Pending"

-----------------------------------------------------------------------------
(* What the documents say, and the code does not do *)

\* docs/gaps.md on I4: "If the gate fails (no approval / consumed / expired /
\* amount exceeded), the match is marked failed - no unauthorised settle."
NoUnauthorisedSettle ==
    \A id \in Ids : record[id].status = "Settled" => approval[OrderOf(id)].consumedAt # 0
====
