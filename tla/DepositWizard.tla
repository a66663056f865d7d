---- MODULE DepositWizard ----
(***************************************************************************)
(* The deposit page (app/(authenticated)/deposit) and the dWallet store of *)
(* one browser (app/stores/dwallet.ts), over the key file.  The wizard     *)
(* creates a dWallet, waits for funds, and locks a policy: two calls of    *)
(* server actions whose answers come back to a page on which the user has  *)
(* meanwhile gone back, changed wallet, started over or reloaded.  A       *)
(* poller keeps the balance of the stored dWallet.                         *)
(*                                                                         *)
(* A button is disabled while its call is out, but a page left and opened  *)
(* again has a new button.                                                 *)
(*                                                                         *)
(* An address receives deposits, and settlements of the keeper spend from  *)
(* it: while one waits for its block, less is left than is confirmed.      *)
(* Amounts are counted in coins of one size.                               *)
(*                                                                         *)
(* Bounds: one call of each kind and one read of the balance at a time,    *)
(* Funded deposits to each address, MaxFaults calls and reads that fail,   *)
(* MaxChanges wallet changes, reloads and resets.                          *)
(***************************************************************************)
EXTENDS MockStore, Integers

CONSTANTS Funded, OneBtc, MaxFaults, MaxChanges

VARIABLES
    chain,    \* dWallet -> what its address got and gave, in blocks and in the mempool
    wallet,   \* the connected wallet
    dwallet,  \* the dWallet of the store: its id and creator, or NoDwallet
    balance,  \* balanceSats and totalSats
    locked,   \* policyLocked
    step,     \* the wizard's cursor
    poll,     \* the read of the balance that is under way
    crossed,  \* a lock was answered to another dWallet than it was asked for (history)
    faults, changes

browserVars == <<wallet, dwallet, balance, locked, step>>
boundVars   == <<faults, changes>>
wizardVars  == <<storeVars, call, chain, browserVars, poll, crossed, boundVars>>

Entries == [creator : Wallets \cup {Stranger}, policy : Nat]

ASSUME DepositAssumption ==
    /\ MaxDwallets \in Nat /\ MaxFaults \in Nat /\ MaxChanges \in Nat
    /\ Funded \in [DWallets -> Nat]
    /\ OneBtc \in Nat /\ OneBtc > 0
    /\ Wallets # {}
    /\ None \notin Wallets \cup Kinds /\ None \notin Entries
    /\ Stranger \notin Wallets

NoDwallet == [id |-> 0, creator |-> None]
Zero   == [confirmed |-> 0, total |-> 0]
Unused == [funded |-> 0, spent |-> 0, poolFunded |-> 0, poolSpent |-> 0]
NoPoll == [id |-> 0, live |-> FALSE, answer |-> Zero]

Fault  == faults < MaxFaults /\ faults' = faults + 1
Change == changes < MaxChanges /\ changes' = changes + 1

Init ==
    /\ StoreInit
    /\ call = [k \in Kinds |-> NoCall]
    /\ chain = [d \in DWallets |-> Unused]
    /\ wallet = CHOOSE w \in Wallets : TRUE
    /\ dwallet = NoDwallet /\ balance = Zero /\ locked = FALSE /\ step = "create"
    /\ poll = NoPoll
    /\ crossed = FALSE
    /\ faults = 0 /\ changes = 0

-----------------------------------------------------------------------------
(* What the pages show *)

\* Legacy entries without a creator are not stored any more.
Ownership ==
    IF dwallet = NoDwallet THEN "none"
    ELSE IF wallet = None THEN "disconnected"
    ELSE IF dwallet.creator = wallet THEN "mine" ELSE "foreign"

\* MUTANT: the wizard goes on whoever is connected.
MutPage == IF locked /\ dwallet # NoDwallet THEN "done" ELSE "wizard"
Page == IF Ownership = "foreign" THEN "banner"
        ELSE IF locked /\ dwallet # NoDwallet THEN "done" ELSE "wizard"

\* A step shows its buttons until it is completed, also while it is pending.
CreateOpen == Page = "wizard" /\ (step = "create" \/ dwallet = NoDwallet)
FundOpen   == Page = "wizard" /\ step \in {"create", "fund"} /\ dwallet # NoDwallet
LockOpen   == Page = "wizard" /\ step # "done"

\* The header's chip and the trade page's balances are the owner's alone; the
\* deposit page also shows a dWallet to nobody in particular.
Chip         == Ownership = "mine"
Balances     == wallet # None /\ Ownership = "mine"
AddressShown == Chip \/ Balances \/ (Page # "banner" /\ dwallet # NoDwallet)

-----------------------------------------------------------------------------
(* The wizard's buttons *)

SetStep(to) == /\ step' = to
               /\ UNCHANGED <<storeVars, call, chain, wallet, dwallet, balance, locked, poll, crossed, boundVars>>

Proceed == FundOpen /\ balance.total > 0 /\ SetStep("lock")
Back    == \/ FundOpen /\ SetStep("create")
           \/ LockOpen /\ SetStep("fund")

Ask(kind, id, max) ==
    /\ wallet # None /\ call[kind] = NoCall
    /\ call' = [call EXCEPT ![kind] = [by |-> wallet, id |-> id, max |-> max, at |-> "asked"]]
    /\ UNCHANGED <<storeVars, chain, browserVars, poll, crossed, boundVars>>

Generate == CreateOpen /\ Ask("create", 0, 0)

\* MUTANT: also when there is none.
MutMaxAmount == balance.confirmed
\* The policy's cap is the confirmed balance, if there is any.
MaxAmount == IF balance.confirmed > 0 THEN balance.confirmed ELSE OneBtc
Lock == LockOpen /\ dwallet # NoDwallet /\ Ask("lock", dwallet.id, MaxAmount)

-----------------------------------------------------------------------------
(* Answers *)

Answered(kind) ==
    /\ call[kind].at = "answered"
    /\ call' = [call EXCEPT ![kind] = NoCall]

\* A new object in the store restarts the poller.
Unpoll == poll' = [poll EXCEPT !.live = FALSE]

\* MUTANT: bound to the wallet that is connected when the answer comes.
MutBoundTo(asked) == wallet
BoundTo(asked) == asked.by

\* MUTANT: a new dWallet keeps the lock of the one before.
MutUnlock == UNCHANGED locked
Unlock == locked' = FALSE

\* The balance is the one of the dWallet before, until the poller answers.
SetDwallet ==
    /\ Answered("create")
    /\ dwallet' = [id |-> call["create"].id, creator |-> BoundTo(call["create"])]
    /\ step' = "fund"
    /\ Unlock
    /\ Unpoll
    /\ UNCHANGED <<storeVars, chain, wallet, balance, crossed, boundVars>>

\* Whatever dWallet is in the store by now.
SetPolicy ==
    /\ Answered("lock")
    /\ locked' = TRUE
    /\ step' = "done"
    /\ crossed' = (crossed \/ dwallet.id # call["lock"].id)
    /\ UNCHANGED <<storeVars, chain, wallet, dwallet, balance, poll, boundVars>>

\* The action throws, or its answer is lost after the file was written.
Fails(kind) ==
    /\ \/ call[kind].at = "failed" /\ UNCHANGED faults
       \/ call[kind].at \in {"asked", "served", "answered"} /\ Fault
    /\ Abandon({kind})
    /\ UNCHANGED <<chain, browserVars, poll, crossed, changes>>

-----------------------------------------------------------------------------
(* The poller: at once for a new dWallet, then every fifteen seconds *)

\* What is unconfirmed may be less than nothing.
Balance(d) ==
    LET confirmed   == chain[d].funded - chain[d].spent
        unconfirmed == chain[d].poolFunded - chain[d].poolSpent
    IN  [confirmed |-> confirmed, total |-> confirmed + unconfirmed]

\* getAddressBalanceAction answers zero when esplora does not.
Tick ==
    /\ dwallet # NoDwallet /\ poll.id = 0
    /\ \/ poll' = [id |-> dwallet.id, live |-> TRUE, answer |-> Balance(dwallet.id)] /\ UNCHANGED faults
       \/ poll' = [id |-> dwallet.id, live |-> TRUE, answer |-> Zero] /\ Fault
    /\ UNCHANGED <<storeVars, call, chain, browserVars, crossed, changes>>

\* MUTANT: a stopped poller still writes its last answer.
MutPollCurrent == TRUE
\* MUTANT: an answer of zero is taken for a failure.
MutAnswered == poll.live /\ poll.answer.total > 0
PollCurrent == poll.live

SetBalance ==
    /\ poll.id # 0
    /\ balance' = IF PollCurrent THEN poll.answer ELSE balance
    /\ poll' = NoPoll
    /\ UNCHANGED <<storeVars, call, chain, wallet, dwallet, locked, step, crossed, boundVars>>

-----------------------------------------------------------------------------
(* The rest *)

\* On the banner and on the last page.
Reset ==
    /\ Page # "wizard"
    /\ Change
    /\ dwallet' = NoDwallet /\ balance' = Zero /\ locked' = FALSE /\ step' = "create"
    /\ Unpoll
    /\ UNCHANGED <<storeVars, call, chain, wallet, crossed, faults>>

Connect(w) ==
    /\ wallet # w
    /\ wallet' = w
    /\ Change
    /\ UNCHANGED <<storeVars, call, chain, dwallet, balance, locked, step, poll, crossed, faults>>

\* The store is in localStorage; what was called goes on without the page.
Reload ==
    /\ Change
    /\ Abandon(Kinds)
    /\ poll' = NoPoll
    /\ UNCHANGED <<chain, browserVars, crossed, faults>>

\* Bitcoin moves on and nobody here notices.
Chain(d, address) ==
    /\ chain' = [chain EXCEPT ![d] = address]
    /\ UNCHANGED <<storeVars, call, browserVars, poll, crossed, boundVars>>

Deposit(d) ==
    /\ d <= created
    /\ chain[d].funded + chain[d].poolFunded < Funded[d]
    /\ Chain(d, [chain[d] EXCEPT !.poolFunded = @ + 1])

\* A settlement.  The keeper gets a signature only under a locked policy.
Spend(d) ==
    /\ file[d] # None /\ file[d].policy > 0
    /\ Balance(d).total > 0
    /\ Chain(d, [chain[d] EXCEPT !.poolSpent = @ + 1])

\* A block takes in a deposit, or a spend of coins that are in blocks.
Mine(d) ==
    \/ /\ chain[d].poolFunded > 0
       /\ Chain(d, [chain[d] EXCEPT !.poolFunded = @ - 1, !.funded = @ + 1])
    \/ /\ chain[d].poolSpent > 0 /\ Balance(d).confirmed > 0
       /\ Chain(d, [chain[d] EXCEPT !.poolSpent = @ - 1, !.spent = @ + 1])

Server == StoreStep /\ UNCHANGED <<chain, browserVars, poll, crossed, boundVars>>

Next ==
    \/ Proceed \/ Back
    \/ Generate \/ Lock \/ SetDwallet \/ SetPolicy
    \/ \E kind \in Kinds : Fails(kind)
    \/ Tick \/ SetBalance
    \/ Reset \/ Reload
    \/ \E w \in Wallets \cup {None} : Connect(w)
    \/ \E d \in DWallets : Deposit(d) \/ Spend(d) \/ Mine(d)
    \/ Server

Spec == Init /\ [][Next]_wizardVars

\* The interval fires and reads answer.
FairSpec == Spec /\ WF_wizardVars(Tick) /\ WF_wizardVars(SetBalance)

-----------------------------------------------------------------------------
(* Properties *)

DepositTypeOK ==
    /\ file \in [DWallets -> Entries \cup {None}]
    /\ created \in 0..MaxDwallets
    /\ wallet \in Wallets \cup {None}
    /\ dwallet \in [id : DWallets, creator : Wallets] \cup {NoDwallet}
    /\ balance \in [confirmed : Nat, total : Nat]
    /\ step \in {"create", "fund", "lock", "done"}
    /\ call["lock"] # NoCall => call["lock"].id \in 1..created /\ call["lock"].max > 0
    /\ faults \in 0..MaxFaults /\ changes \in 0..MaxChanges

\* The dWallet of the browser is the one the server created, for the wallet
\* that asked for it, however wallets change while the key is generated; and
\* whichever wallet is connected, a page that shows a dWallet shows it to its
\* creator.  The exception is an entry lost to concurrent writers of the file.
ShownToCreator ==
    dwallet # NoDwallet /\ ~ clobbered =>
        /\ file[dwallet.id] # None /\ file[dwallet.id].creator = dwallet.creator
        /\ AddressShown /\ wallet # None => file[dwallet.id].creator = wallet

\* "Ready to trade" is shown of a dWallet the keeper can sign for: the lock
\* of a dWallet never survives into the next one.  A lock answered after the
\* user has gone on to another dWallet, and concurrent writers of the file,
\* are the two exceptions.
ReadyMeansPolicy ==
    Page = "done" /\ ~ crossed /\ ~ clobbered =>
        file[dwallet.id] # None /\ file[dwallet.id].policy > 0

\* The wizard never asks for a lock that the server refuses for its caller:
\* of an entry that was not lost, the creator is who asks.
LockByCreator ==
    call["lock"] # NoCall /\ ~ clobbered => MayLock(call["lock"])

\* The poller writes only what it read of the stored dWallet's own address,
\* across resets and regenerations.
BalanceIsOwn ==
    [][SetBalance /\ balance' # balance => poll.id = dwallet.id]_wizardVars

\* Whatever failed before, again and again the balance shown is the balance
\* of the dWallet that is stored then, up or down.
BalanceCatchesUp == []<>(dwallet # NoDwallet => balance = Balance(dwallet.id))
====
