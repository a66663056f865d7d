---- MODULE ObsidianCore ----
(***************************************************************************)
(* The Solana program obsidian-core: an encrypted limit order book whose   *)
(* matches settle in Bitcoin.                                              *)
(*                                                                         *)
(* One instruction is one action: a Solana transaction is atomic, and the  *)
(* runtime serialises transactions that write one account.  An action's    *)
(* guard holds the account constraints of the instruction's Accounts       *)
(* struct and the require! lines of its handler; a guard that is false is  *)
(* a transaction that fails and changes nothing.                           *)
(*                                                                         *)
(* Program-derived accounts are functions of their seeds: an order is      *)
(* <<market, nonce>>, a MatchIntent and a MatchRecord are                  *)
(* <<market, match_id>>, an approval is its order.  "Absent" is an account *)
(* that does not exist, which is what Anchor's init requires.              *)
(*                                                                         *)
(* Abstracted: prices, the encrypted volume, timestamps, bumps, events and *)
(* rent.  An order's three input ciphertext refs are one value of Cts, and *)
(* a digest is abstracted to whether it is non-zero.                       *)
(***************************************************************************)
EXTENDS Integers, FiniteSets

CONSTANTS
    Markets,     \* (base_mint, quote_mint) pairs
    Nonces,      \* order nonces
    Traders,     \* wallets that own orders
    Keepers,     \* keys a market can name as its keeper_authority
    DWallets,    \* Ika dWallet ids
    Cts,         \* ciphertext-account refs of an order's inputs
    Outputs,     \* the comparator's outputs: can_match, fill_size, clearing_price
    Fills,       \* decrypted fill sizes, in sats
    Caps,        \* max_amount_sats a seller may authorise
    Digests,     \* BIP-143 sighashes
    MaxActive,   \* MAX_ACTIVE_ORDERS
    MaxMatches,  \* the largest match_count (u64::MAX in the program)
    FirstSlot,   \* the slot at deployment
    LastSlot,    \* bound: the clock stops here
    None

\* FirstSlot > 0: consumed_at_slot = 0 encodes "not consumed", so the
\* program relies on the clock being past the genesis slot.  MaxActive fits
\* the u8 active_order_count, so that its checked_add cannot fail.
ASSUME CoreAssumption ==
    /\ IsFiniteSet(Nonces)
    /\ MaxActive \in 1..255
    /\ MaxMatches \in Nat
    /\ FirstSlot \in Nat \ {0}
    /\ LastSlot \in Nat /\ FirstSlot <= LastSlot
    /\ Fills \subseteq Nat /\ Caps \subseteq Nat
    /\ None \notin Traders \cup Keepers \cup DWallets \cup Cts \cup Digests
    /\ None \notin Markets \X Nonces

VARIABLES
    slot,        \* Clock::get().slot
    keeper,      \* market -> keeper_authority, None until initialize_market
    head,        \* market -> orderbook_head
    matchCount,  \* market -> match_count
    activeCount, \* market -> active_order_count
    order,       \* order PDA -> EncryptedOrder
    committed,   \* match -> outputs the Encrypt executor has committed
    intent,      \* match -> MatchIntent
    record,      \* match -> MatchRecord
    approval     \* order PDA -> BtcSettleApproval

marketVars == <<keeper, head, matchCount, activeCount>>
vars == <<slot, marketVars, order, committed, intent, record, approval>>

Orders   == Markets \X Nonces
MatchIds == Markets \X (1..MaxMatches)
Slots    == FirstSlot..LastSlot
Expiries == FirstSlot..(LastSlot + 1)
Signers  == Traders \cup Keepers

\* OrderStatus::Expired and SettleStatus::Cancelled exist in the program's
\* enums, and no instruction assigns them.
OrderStatus  == {"Absent", "Active", "Matched", "Cancelled"}
SettleStatus == {"Absent", "Pending", "Settled", "SettleFailed"}
\* btc_tx_proof: a bare 32-byte txid, or a txid and an SPV blob that proves
\* its inclusion in a block (spv_verified).  What is neither is "invalid".
Proofs == {"txid", "spv"}
TxProofs == Proofs \cup {"invalid"}

NoOrder == [owner |-> None, dwallet |-> None, ct |-> None, expiry |-> FirstSlot,
            next |-> None, status |-> "Absent"]
NoIntent == [open |-> FALSE, a |-> None, b |-> None, inputs |-> <<None, None>>,
             snapshot |-> {}]
NoRecord == [a |-> None, b |-> None, seller |-> None, buyer |-> None, fill |-> 0,
             proof |-> None, status |-> "Absent"]
NoApproval == [approver |-> None, dwallet |-> None, max |-> 0, expiry |-> FirstSlot,
               consumedAt |-> 0, digest |-> None]

OrderRec == [owner : Traders \cup {None}, dwallet : DWallets \cup {None},
             ct : Cts \cup {None}, expiry : Expiries,
             next : Orders \cup {None}, status : OrderStatus]
IntentRec == [open : BOOLEAN, a : Orders \cup {None}, b : Orders \cup {None},
              inputs : (Cts \cup {None}) \X (Cts \cup {None}),
              snapshot : SUBSET Outputs]
RecordRec == [a : Orders \cup {None}, b : Orders \cup {None},
              seller : DWallets \cup {None}, buyer : DWallets \cup {None},
              fill : Fills \cup {0}, proof : Proofs \cup {None},
              status : SettleStatus]
ApprovalRec == [approver : Traders \cup {None}, dwallet : DWallets \cup {None},
                max : Caps \cup {0}, expiry : Expiries,
                consumedAt : Slots \cup {0}, digest : Digests \cup {None}]

TypeOK ==
    /\ slot \in Slots
    /\ keeper \in [Markets -> Keepers \cup {None}]
    /\ head \in [Markets -> Orders \cup {None}]
    /\ matchCount \in [Markets -> 0..MaxMatches]
    /\ activeCount \in [Markets -> 0..MaxActive]
    /\ order \in [Orders -> OrderRec]
    /\ committed \in [MatchIds -> SUBSET Outputs]
    /\ intent \in [MatchIds -> IntentRec]
    /\ record \in [MatchIds -> RecordRec]
    /\ approval \in [Orders -> ApprovalRec]

Init ==
    /\ slot = FirstSlot
    /\ keeper = [m \in Markets |-> None]
    /\ head = [m \in Markets |-> None]
    /\ matchCount = [m \in Markets |-> 0]
    /\ activeCount = [m \in Markets |-> 0]
    /\ order = [o \in Orders |-> NoOrder]
    /\ committed = [id \in MatchIds |-> {}]
    /\ intent = [id \in MatchIds |-> NoIntent]
    /\ record = [id \in MatchIds |-> NoRecord]
    /\ approval = [o \in Orders |-> NoApproval]

-----------------------------------------------------------------------------
(* Guards the instructions share, each preceded by the slips of the code    *)
(* that the checks must notice (Mut...).                                    *)

\* MUTANT: subtracts one order where two leave the book.
MutSaturatingSub(x, n) == IF x >= n THEN x - 1 ELSE 0
\* u8::saturating_sub
SaturatingSub(x, n) == IF x >= n THEN x - n ELSE 0

\* has_one = keeper_authority, with keeper_authority a Signer.
KeeperSigned(m, s) == keeper[m] # None /\ s = keeper[m]

\* MUTANT: off by one at the limit.
MutBookHasRoom(m) == activeCount[m] <= MaxActive
BookHasRoom(m) == activeCount[m] < MaxActive

\* MUTANT: the market's head is moved before the new order reads it.
MutNextInBook(o) == o
NextInBook(o) == head[o[1]]

\* MUTANT: only the first order is looked at.
MutBothActive(a, b) == order[a].status = "Active"
BothActive(a, b) == order[a].status = "Active" /\ order[b].status = "Active"

\* MUTANT: no self-match check.
MutDistinct(a, b) == TRUE
Distinct(a, b) == a # b

\* MUTANT: the second order is left in the book.
MutMatched(a, b) == [order EXCEPT ![a].status = "Matched"]
Matched(a, b) == [order EXCEPT ![a].status = "Matched", ![b].status = "Matched"]

\* MUTANT: the second order's ciphertexts go unchecked.
MutCiphertextsMatch(a, ca, b, cb) == ca = order[a].ct
CiphertextsMatch(a, ca, b, cb) == ca = order[a].ct /\ cb = order[b].ct

\* MUTANT: any digest non-zero, as the handler's comment has it.
MutDecryptionRequested(id) == intent[id].snapshot # {}
DecryptionRequested(id) == intent[id].snapshot = Outputs

\* MUTANT: only the expiry protects the approval.
MutUnconsumed(o) == slot < approval[o].expiry
Unconsumed(o) == approval[o].consumedAt = 0

\* has_one = market ties the approval to the market whose keeper signs.
Consumable(m, o, s, amount) ==
    /\ approval[o].approver # None
    /\ o[1] = m
    /\ KeeperSigned(m, s)
    /\ Unconsumed(o)
    /\ slot < approval[o].expiry
    /\ amount <= approval[o].max

\* MUTANT: any signer may approve.
MutApproverOwns(o, s) == s \in Traders
ApproverOwns(o, s) == s = order[o].owner

\* MUTANT: any record can be abandoned.
MutSettlePending(id) == record[id].status # "Absent"
SettlePending(id) == record[id].status = "Pending"

\* Sizes, and verify_merkle_inclusion of what follows the txid.
ProofAccepted(proof) == proof # "invalid"

\* MUTANT: the intent is kept after its match is finalised.
MutClosedIntent(id) == intent[id]
ClosedIntent(id) == NoIntent

-----------------------------------------------------------------------------
(* Orders *)

\* The market PDA is init-once: a second call fails, so keeper_authority
\* never changes and the counters are never reset.
InitializeMarket(m, k) ==
    /\ keeper[m] = None
    /\ keeper' = [keeper EXCEPT ![m] = k]
    /\ head' = [head EXCEPT ![m] = None]
    /\ matchCount' = [matchCount EXCEPT ![m] = 0]
    /\ activeCount' = [activeCount EXCEPT ![m] = 0]
    /\ UNCHANGED <<slot, order, committed, intent, record, approval>>

\* The new order becomes the head of the market's linked list.
SubmitOrder(o, s, d, c, e) ==
    LET m == o[1] IN
    /\ keeper[m] # None
    /\ order[o].status = "Absent"
    /\ e > slot
    /\ BookHasRoom(m)
    /\ order' = [order EXCEPT ![o] =
                    [owner |-> s, dwallet |-> d, ct |-> c, expiry |-> e,
                     next |-> NextInBook(o), status |-> "Active"]]
    /\ head' = [head EXCEPT ![m] = o]
    /\ activeCount' = [activeCount EXCEPT ![m] = @ + 1]
    /\ UNCHANGED <<slot, keeper, matchCount, committed, intent, record, approval>>

\* A cancelled order stays in the list, and an order past its expiry or
\* named by an open MatchIntent can still be cancelled.
CancelOrder(o, s) ==
    LET m == o[1] IN
    /\ order[o].status = "Active"
    /\ s = order[o].owner
    /\ order' = [order EXCEPT ![o].status = "Cancelled"]
    /\ activeCount' = [activeCount EXCEPT ![m] = SaturatingSub(@, 1)]
    /\ UNCHANGED <<slot, keeper, head, matchCount, committed, intent, record, approval>>

-----------------------------------------------------------------------------
(* Settlement approvals *)

\* The order's status is not looked at: its owner may approve at any time,
\* once.
ApproveBtcSettlement(o, s, max, e) ==
    /\ order[o].status # "Absent"
    /\ approval[o].approver = None
    /\ e > slot
    /\ ApproverOwns(o, s)
    /\ approval' = [approval EXCEPT ![o] =
                       [approver |-> s, dwallet |-> order[o].dwallet, max |-> max,
                        expiry |-> e, consumedAt |-> 0, digest |-> None]]
    /\ UNCHANGED <<slot, marketVars, order, committed, intent, record>>

ConsumeBtcApproval(m, o, s, digest, amount) ==
    /\ Consumable(m, o, s, amount)
    /\ approval' = [approval EXCEPT ![o].consumedAt = slot, ![o].digest = digest]
    /\ UNCHANGED <<slot, marketVars, order, committed, intent, record>>

-----------------------------------------------------------------------------
(* Matching *)

\* ca and cb are the input ciphertext accounts the caller passes.  The FHE
\* comparator runs inside execute_graph: its three output accounts are
\* created here, with a zero digest until the executor commits them.
TryMatch(m, i, a, b, ca, cb, s) ==
    LET id == <<m, i>> IN
    /\ KeeperSigned(m, s)
    /\ matchCount[m] < MaxMatches
    /\ i = matchCount[m] + 1
    /\ a[1] = m /\ b[1] = m
    /\ Distinct(a, b)
    /\ BothActive(a, b)
    /\ order[a].expiry > slot /\ order[b].expiry > slot
    /\ CiphertextsMatch(a, ca, b, cb)
    /\ matchCount' = [matchCount EXCEPT ![m] = i]
    /\ intent' = [intent EXCEPT ![id] =
                    [open |-> TRUE, a |-> a, b |-> b, inputs |-> <<ca, cb>>,
                     snapshot |-> {}]]
    /\ UNCHANGED <<slot, keeper, head, activeCount, order, committed, record, approval>>

\* The Encrypt executor commits one output of a match: its digest becomes
\* non-zero and its status VERIFIED.
ExecutorCommit(id, out) ==
    /\ id[2] <= matchCount[id[1]]
    /\ out \notin committed[id]
    /\ committed' = [committed EXCEPT ![id] = @ \cup {out}]
    /\ UNCHANGED <<slot, marketVars, order, intent, record, approval>>

\* Digests are copied as they are, zero ones too, and the call can be made
\* again.
RequestDecryption(id, s) ==
    /\ KeeperSigned(id[1], s)
    /\ intent[id].open
    /\ intent' = [intent EXCEPT ![id].snapshot = committed[id]]
    /\ UNCHANGED <<slot, marketVars, order, committed, record, approval>>

\* The plaintexts (fill, and which order sells) are the keeper's word: the
\* handler only requires that no snapshot digest is zero.  There is no
\* expiry check here.
FinalizeDecryption(id, fill, sellerIsA, s) ==
    LET m == id[1]
        a == intent[id].a
        b == intent[id].b
    IN
    /\ KeeperSigned(m, s)
    /\ intent[id].open
    /\ record[id].status = "Absent"
    /\ BothActive(a, b)
    /\ DecryptionRequested(id)
    /\ record' = [record EXCEPT ![id] =
                    [a |-> a, b |-> b,
                     seller |-> IF sellerIsA THEN order[a].dwallet ELSE order[b].dwallet,
                     buyer |-> IF sellerIsA THEN order[b].dwallet ELSE order[a].dwallet,
                     fill |-> fill, proof |-> None, status |-> "Pending"]]
    /\ order' = Matched(a, b)
    /\ activeCount' = [activeCount EXCEPT ![m] = SaturatingSub(@, 2)]
    /\ intent' = [intent EXCEPT ![id] = ClosedIntent(id)]
    /\ UNCHANGED <<slot, keeper, head, matchCount, committed, approval>>

-----------------------------------------------------------------------------
(* Settlement *)

FinalizeSettlement(id, proof, s) ==
    /\ KeeperSigned(id[1], s)
    /\ ProofAccepted(proof)
    /\ SettlePending(id)
    /\ record' = [record EXCEPT ![id].status = "Settled", ![id].proof = proof]
    /\ UNCHANGED <<slot, marketVars, order, committed, intent, approval>>

\* The two orders stay Matched.
FailSettlement(id, s) ==
    /\ KeeperSigned(id[1], s)
    /\ SettlePending(id)
    /\ record' = [record EXCEPT ![id].status = "SettleFailed"]
    /\ UNCHANGED <<slot, marketVars, order, committed, intent, approval>>

-----------------------------------------------------------------------------
Tick ==
    /\ slot < LastSlot
    /\ slot' = slot + 1
    /\ UNCHANGED <<marketVars, order, committed, intent, record, approval>>

OrderStep ==
    \/ \E m \in Markets, k \in Keepers : InitializeMarket(m, k)
    \/ \E o \in Orders, s \in Traders, d \in DWallets, c \in Cts, e \in Expiries :
            SubmitOrder(o, s, d, c, e)
    \/ \E o \in Orders, s \in Traders : CancelOrder(o, s)

ApprovalStep ==
    \/ \E o \in Orders, s \in Traders, max \in Caps, e \in Expiries :
            ApproveBtcSettlement(o, s, max, e)
    \/ \E m \in Markets, o \in Orders, s \in Keepers, g \in Digests, n \in Fills :
            ConsumeBtcApproval(m, o, s, g, n)

MatchStep ==
    \/ \E m \in Markets, i \in 1..MaxMatches, a, b \in Orders, ca, cb \in Cts,
          s \in Keepers : TryMatch(m, i, a, b, ca, cb, s)
    \/ \E id \in MatchIds, out \in Outputs : ExecutorCommit(id, out)
    \/ \E id \in MatchIds, s \in Keepers : RequestDecryption(id, s)
    \/ \E id \in MatchIds, n \in Fills, sellerIsA \in BOOLEAN, s \in Keepers :
            FinalizeDecryption(id, n, sellerIsA, s)

SettleStep ==
    \/ \E id \in MatchIds, proof \in TxProofs, s \in Keepers :
            FinalizeSettlement(id, proof, s)
    \/ \E id \in MatchIds, s \in Keepers : FailSettlement(id, s)

Next == OrderStep \/ ApprovalStep \/ MatchStep \/ SettleStep \/ Tick

Spec == Init /\ [][Next]_vars

-----------------------------------------------------------------------------
(* Safety *)

Submitted(m) == {o \in Orders : o[1] = m /\ order[o].status # "Absent"}
Active(m)    == {o \in Orders : o[1] = m /\ order[o].status = "Active"}
Names(r, o)  == o = r.a \/ o = r.b

\* active_order_count, which four handlers move by hand with a saturating
\* subtraction, is the number of Active orders of the market; so the limit
\* of MAX_ACTIVE_ORDERS is one on live orders and the book never jams.
CountExact == \A m \in Markets : activeCount[m] = Cardinality(Active(m))

\* Walking orderbook_head and next visits every order ever submitted to the
\* market, each once, and ends: submit_order relinks the list, cancelling
\* and matching leave it alone.
BookComplete ==
    \A m \in Markets :
        LET n == Cardinality(Submitted(m))
            walk[k \in 0..n] == IF k = 0 THEN head[m] ELSE order[walk[k - 1]].next
        IN  {walk[k] : k \in 0..(n - 1)} = Submitted(m) /\ walk[n] = None

\* An order trades at most once, whatever intents name it: it is Matched if
\* and only if it is in a record, and two records never share an order.
MatchExclusive ==
    /\ \A o \in Orders :
            order[o].status = "Matched" <=> \E id \in MatchIds : Names(record[id], o)
    /\ \A i, j \in MatchIds :
            i # j => ~ \E o \in Orders : Names(record[i], o) /\ Names(record[j], o)

\* Each match id that try_match handed out is either an open intent or a
\* record, never both and never neither, and no other id is used: a match is
\* not lost and cannot be finalised twice.
MatchLedger ==
    \A id \in MatchIds :
        /\ ~ (intent[id].open /\ record[id].status # "Absent")
        /\ (intent[id].open \/ record[id].status # "Absent")
                <=> id[2] <= matchCount[id[1]]

\* What an intent or a record says of its orders stays true of them: two
\* orders of its own market, their own ciphertexts as the comparator's
\* inputs, and their dWallets, one each, as seller and buyer.
MatchBinds ==
    \A id \in MatchIds :
        /\ intent[id].open =>
             LET a == intent[id].a  b == intent[id].b IN
             /\ {a, b} \subseteq Submitted(id[1]) /\ a # b
             /\ intent[id].inputs = <<order[a].ct, order[b].ct>>
        /\ record[id].status # "Absent" =>
             LET a == record[id].a  b == record[id].b IN
             /\ {a, b} \subseteq Submitted(id[1]) /\ a # b
             /\ <<record[id].seller, record[id].buyer>> \in
                    {<<order[a].dwallet, order[b].dwallet>>,
                     <<order[b].dwallet, order[a].dwallet>>}

\* No record exists before the executor committed all three outputs of its
\* match, although request_decryption copies whatever is there and can be
\* called at any time.
RecordAfterCommit ==
    \A id \in MatchIds : record[id].status # "Absent" => committed[id] = Outputs

\* An approval is its order's owner's, for the order's dWallet, and once
\* consumed it was so before its expiry.
ApprovalBinds ==
    \A o \in Orders : approval[o].approver # None =>
        /\ order[o].status # "Absent"
        /\ approval[o].approver = order[o].owner
        /\ approval[o].dwallet = order[o].dwallet
        /\ approval[o].consumedAt < approval[o].expiry

-----------------------------------------------------------------------------
(* The inductive invariant *)

\* An account that does not exist holds nothing.
BlankAccounts ==
    /\ \A m \in Markets : keeper[m] = None =>
            head[m] = None /\ matchCount[m] = 0 /\ activeCount[m] = 0
    /\ \A id \in MatchIds : record[id].status = "Absent" => record[id] = NoRecord
    /\ \A o \in Orders : approval[o].approver = None => approval[o] = NoApproval

\* A digest is copied only after the executor committed it.
SnapshotCommitted == \A id \in MatchIds : intent[id].snapshot \subseteq committed[id]

MatchInv == MatchExclusive /\ MatchLedger /\ MatchBinds
IInv == /\ TypeOK /\ BlankAccounts /\ CountExact /\ MatchInv
        /\ SnapshotCommitted /\ RecordAfterCommit /\ ApprovalBinds

-----------------------------------------------------------------------------
(* What no step does *)

\* A Matched or Cancelled order stays so: an intent that outlived one of its
\* orders cannot revive it.
OrderFinal ==
    [][\A o \in Orders : order[o].status \in {"Matched", "Cancelled"}
            => order'[o] = order[o]]_vars

\* A match settles or fails once: finalize_settlement and fail_settlement
\* leave a decided record, its proof included, as it is.
SettlementFinal ==
    [][\A id \in MatchIds : record[id].status \in {"Settled", "SettleFailed"}
            => record'[id] = record[id]]_vars

\* An approval is consumed once: the recorded slot and digest are never
\* overwritten.  It relies on the clock never reading 0.
ApprovalOneShot ==
    [][\A o \in Orders : approval[o].consumedAt # 0 => approval'[o] = approval[o]]_vars

-----------------------------------------------------------------------------
(* What the book promises *)

PoolBook  == [o \in Orders |-> order[o].status]
PoolTrade == [id \in MatchIds |-> [parties |-> {o \in Orders : Names(record[id], o)},
                                   outcome |-> record[id].status]]

Pool == INSTANCE DarkPool WITH Trades <- MatchIds, book <- PoolBook, trade <- PoolTrade

\* The program's instructions, in any order and by any signers, are those of
\* the plain pool: two distinct live orders of one market trade, once, and
\* the trade is concluded once.  Intents, snapshots and approvals are
\* invisible in it.
ImplementsDarkPool == Pool!Spec
====
