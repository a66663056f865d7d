# Obsidian Desk in TLA+

Obsidian Desk is an order book whose orders are encrypted, kept by a Solana
program, and whose matches are paid in Bitcoin from wallets (dWallets) that
the Ika network co-signs for.  This directory holds a TLA+ model of it, the
TLC configurations that check the model on small instances, and proofs that
the TLA+ proof system checks.  Paths below are relative to `src/`.

## 1. Inventory

### Components, their state and operations

| Component | State | Operations | Status |
|---|---|---|---|
| **obsidian-core** `programs/obsidian-core/src/lib.rs`, `state.rs` | accounts: `MarketState` (authority, list head, match count, active count), `EncryptedOrder`, `MatchIntent`, `MatchRecord`, `BtcSettleApproval` | `initialize_market`, `submit_order`, `cancel_order`, `approve_btc_settlement`, `consume_btc_approval`, `try_match`, `request_decryption`, `finalize_decryption`, `finalize_settlement`, `fail_settlement` | modelled |
| **SPV verifier** `spv.rs` | none | `verify_merkle_inclusion`, called by `finalize_settlement` | modelled |
| **FHE comparator** `lib.rs:68-86` | none | `match_orders_graph` under encryption | modelled |
| **keeper daemon** `keeper/src/poll.ts`, `index.ts` | none that survives a restart; metrics | `pollOnce` every few seconds: read Pending records, build, sign, consume the approval, broadcast, prove, finalise or fail | modelled |
| **matching cycle** `keeper/src/matching.ts`, `scripts/match-pair.ts` | none | `ensureEncryptDeposit`, then `runMatchCycle` for one pair of orders: `try_match`, wait for the executor, `request_decryption`, decrypt, `finalize_decryption` | modelled |
| **SDK** `sdk/src/` | `mock-store.ts`: a JSON file of keys and policies | `mode.ts` (mock, real, auto with fallback), `ika.ts` (create, lock, sign), `btc.ts` (coins, spends, broadcast, SPV proofs), `encrypt.ts` (orders, decryption) | modelled, but for what section 7 names |
| **order tape** `app/lib/order-state.ts`, `trade-terminal.tsx`, `submit-on-chain.ts` | `yourOrders` in localStorage; the page's queue, modal and timers | submit, cancel, hydrate from chain, match demo | modelled but for what section 7 names |
| **deposit wizard** `deposit/`, `stores/dwallet.ts` | dWallet, balance, lock and step in localStorage | generate, fund, lock, poll, reset | modelled |
| **positions view** `positions/actions.ts`, `page.tsx`, `open-orders.tsx` | none but the panel's rows | join records with the keeper's feed, list, count; poll the wallet's orders | modelled, as operators |
| **start-up** `keeper/src/index.ts`, `sdk/src/safety.ts`, `mode.ts` | environment, IDL file | guard against mock modes, resolve modes, check the IDL | modelled, as operators |
| landing, pitch, shell | presentation only | | not modelled |
| vendored crates, generated stubs, scripts | | | not modelled |

### How they interact

    trader/app --submit, cancel, approve--> program
    match-pair --try_match, request, finalize--> program
        match-pair --waits for commits of--> Encrypt executor
    keeper --reads Pending records of--> program
    keeper --consume, finalize_settlement, fail--> program
        keeper --sign--> Ika
        keeper --coins, POST /tx, proofs--> esplora relay / Bitcoin

    browser --server actions--> app process --createDWallet, lockPolicy--> Ika
       |                             +--- set() --> key file <--- other processes
       +--- reads its orders every 20 s, its balance every 15 s

A Solana instruction is atomic, and two that write one account are
serialised.  Everything else is a chain of awaits: between two of them the
other actors move, and a call that failed for its caller may have taken effect
or may take effect later.

### What is hard here

* `active_order_count` is kept by hand in four handlers, downwards by a
  saturating subtraction.
* Several intents may compete for an order, and orders are cancelled or expire
  while they are open; `finalize_decryption` checks no expiry.
* Digests are copied from the executor's accounts at any time, zeros included.
* An approval's "unconsumed" is a zero slot.
* Paying in Bitcoin and recording it on Solana are two systems: a crash or a
  lost answer between the two, late transactions, a second payment.
* The approval gate is a read followed by a call, and read errors skip it.
* An SPV proof is put together from three reads of a chain that may be
  reorganised between them.
* The modes decide which failures are replaced by made-up results.
* Matching cycles choose their match id in one call and use it in another.
* A timeout only helps where the call listens to it.
* The app merges chain reads that answer late, local pushes, demo timers and
  closures of old renders, while the user changes wallet or reloads.
* The answer of a server action meets a page that has moved on.
* Processes share a file that each of them rewrites as a whole.

`PROJECT.json` lists each of these as a hazard, at its line, with the
properties that watch it, or with the reason why none does.

### What makes each component correct

* *Program*: an order trades at most once; counts are exact; records say what
  the comparator ran on; intents and records account for every match id;
  decided orders, records and approvals do not change.
* *Keeper*: every match is decided; a gated payment is the one its approval
  recorded; one payment per match unless something failed; a failed match
  moved no coin unless something failed; proofs are of confirmed payments.
* *SPV*: an accepted proof shows that the payment is in the block; a proof of one
  block is never refused.
* *Matching cycle*: racing cycles never share an intent; a cycle asks for
  plaintexts only with a complete snapshot; every cycle ends.
* *SDK*: nothing made up is returned unasked; in auto mode the network signs or
  nobody does.
* *Comparator*: it matches exactly the pairs that could agree on a price.
* *Order tape*: it shows the connected wallet's orders with the chain's status or
  a finer one; what the user typed is not lost but in the named cases.
* *Deposit*: a dWallet belongs to the wallet that asked for it and is shown to no
  other; "ready" means that there is a policy; the balance is its own and current.

## 2. Plan

Order of work, the most important behaviour first.

1. **Done.** `DarkPool`, `ObsidianCore`, their runs and `ObsidianCoreProofs`.
2. **Done.** `Settlement`: the keeper between two chains; three disagreements
   with the documentation shown as violations.
3. **Done.** `MatchCycle`: concurrent `match-pair` runs; one disagreement shown.
4. **Done.** `Spv`: proofs of inclusion, from the relay to the program, and
   `SpvProofs`.
5. **Done.** `MatchGraph`: the comparator. `OrderTape`: tape, hydration,
   submission and the match demo over `DarkPool`.
6. **Done.** `MockStore`, `DepositWizard`, `DepositProofs`: the deposit page over
   the shared file. `IkaClient`, `IkaClientProofs`: where a call's result comes
   from and when it ends, replacing a constant of `Settlement` that let the keeper
   have signatures it cannot get.
7. **Done.** `MatchCycleProofs`, `SettlementProofs`: the safety properties of both,
   on top of the program's invariant.
8. **Done.** `Induction`, and with it the proofs that need one: the list of
   orders (`BookListed`), the walk of an SPV proof in a block of any size,
   `OrderTapeProofs`.
9. **Done.** `Bytes`, `Spend`, `Ciphertext`, `Boot`, `Views`: the pure functions
   of the SDK, of start-up and of what the pages show, with their theorems.
10. Left: abstract settlement ("an approved match is paid at most once")
    implemented by `Settlement` while no failure happens; a market of another
    authority.

| Module | Extends | Composed with |
|---|---|---|
| `DarkPool` | | abstract specification |
| `ObsidianCore` | | implements `DarkPool` through `INSTANCE ... WITH` |
| `ObsidianCoreProofs` | `ObsidianCore`, `MatchGraph`, `Induction`, TLAPS | |
| `Settlement` | `ObsidianCore` | takes the program's own actions as its calls |
| `SettlementProofs` | `Settlement`, `ObsidianCoreProofs` | uses the program's step lemma |
| `MatchCycle` | `ObsidianCore` | takes the program's own actions as its calls |
| `MatchCycleProofs` | `MatchCycle`, `ObsidianCoreProofs` | uses the program's step lemma |
| `Spv` | | stands alone: `Settlement` knows its outcomes as proof values |
| `SpvProofs` | `Spv`, `Induction`, TLAPS | |
| `MatchGraph` | | stands alone: a function, evaluated by `MCCoreMatch` |
| `Induction` | TLAPS | lemmas about naturals, used by the proofs |
| `IkaClient` | | stands alone: says which signatures `Settlement` may assume |
| `Bytes` | | byte strings and the numbers they stand for |
| `Spend` | `Bytes` | functions of the Bitcoin client: outputs and fee, signatures |
| `Ciphertext` | `Bytes` | functions of the Encrypt client |
| `Boot` | | functions of the start of keeper and server |
| `IkaClientProofs` | `IkaClient`, `Spend`, `Ciphertext`, `Boot`, `Induction`, TLAPS | |
| `OrderTape` | | `INSTANCE DarkPool`: its chain takes the pool's steps |
| `Views` | | functions: the keeper's feed, the positions page, the setup and form of the trade page |
| `OrderTapeProofs` | `OrderTape`, `Views`, `Induction` | |
| `MockStore` | | the file, under `DepositWizard` |
| `DepositWizard` | `MockStore` | takes the file's steps as the server's |
| `DepositProofs` | `DepositWizard`, TLAPS | |
| `MCCoreMatch` | `ObsidianCore`, `MatchGraph` | instance for TLC |
| `MCCoreApprove` | `ObsidianCore` | instance for TLC |
| `MCIkaClient` | `IkaClient`, `Spend`, `Ciphertext`, `Boot` | instance for TLC |
| `MCOrderTape` | `OrderTape`, `Views` | instance for TLC |
| `MCSettlement`, `MCMatchCycle`, `MCSpv`, `MCDepositWizard` | their module | instances for TLC |

## 3. The modules

### ObsidianCore

One instruction, one action.  The guard is the `Accounts` struct's constraints
(`has_one`, `seeds`, `init`, `close`, `Signer`) and the handler's `require!`
lines; an instruction that fails changes nothing, so a false guard is enough.
Program-derived addresses are functions of their seeds, so accounts are
functions: `order` on `<<market, nonce>>`, `intent` and `record` on
`<<market, match_id>>`, `approval` on its order.  `"Absent"`, `open = FALSE` and
`approver = None` are accounts that do not exist.

| Variable | Account field |
|---|---|
| `slot` | `Clock::get().slot` |
| `keeper`, `head`, `matchCount`, `activeCount` | `MarketState` |
| `order` | `EncryptedOrder`: owner, dWallet, input refs, expiry, next, status |
| `intent` | `MatchIntent`: orders, input refs, which digests are non-zero |
| `record` | `MatchRecord`: orders, dWallets, fill, proof, status |
| `approval` | `BtcSettleApproval` |
| `committed` | the executor's output accounts: which have a digest |

Abstracted: prices, sides and the encrypted volume (the program never branches
on them), timestamps, bumps, rent, events.  The three input refs of an order are
one value, because `try_match` compares them all.  A digest is non-zero or zero.
What the keeper claims it decrypted (fill and side) is a free choice, as the
handler has nothing to compare it with; `can_match = false` is a failed guard.
A `btc_tx_proof` is one of three values: the bare txid, a blob that the verifier
accepts, a blob that it refuses; module `Spv` looks inside.

### DarkPool

The book without accounts, ciphertexts, keepers and counters: place, withdraw,
trade two live orders of one market, conclude a trade.  `ObsidianCore` maps its
orders' statuses and the parties and outcome of its records to it.

### Settlement

`pollOnce`, one action from one await to the next.  `k` holds its locals (what a
crash forgets): `pc`, the records still to do, the current one, the unsigned
transaction, the seller's order, what the gate said, the proof.  `flight` holds
Solana transactions the keeper stopped waiting for: each may still land or be
dropped.  `coin`, `payments` and `confirmed` are Bitcoin as the relay shows it;
`payments` also remembers what let a payment through.  A transaction's inputs,
outputs and fee fix its sighash and txid, so the transaction stands for both.
The program's actions (`ConsumeBtcApproval`, `FinalizeSettlement`,
`FailSettlement`, `ApproveBtcSettlement`, `Tick`) are taken as they are.

The mode is a constant: `BtcMode` decides what a call without an answer turns
into (`NoAnswer`, `FetchUtxos`).  In auto mode a failure that looks transient is
replaced by a made-up result, any other is thrown; the model lets either happen.
`requestSign` either signs every input, with a key of the file, or fails on the
policy (`Signable`): that the keeper gets no other signature is
`KeeperSignsByFile` of `IkaClient`.

A proof is `"spv"` if the payment is confirmed, and `"invalid"`, at the price of
a fault, if the chain was reorganised between the relay's answers; the program
refuses that one and the keeper goes to its catch block.

The module starts where matching ends, in every market: orders matched in pairs,
records Pending, approvals given or not, as the program leaves them (`Init0`
satisfies the program's invariant, see section 5).

### MatchCycle

`ensureEncryptDeposit` and `runMatchCycle` for several runs of the CLI at the same
time, `cyc` holding what each knows: its place, the match id it chose, the
ciphertext refs it read, whether its output keys happen to begin with
`MOCK_TAG`, and what it decrypted.  The runs share a wallet, hence `deposited`:
each looks for the deposit account and creates it later, and the second to try is
refused.  `sent` holds transactions whose confirmation was not seen.  The
executor, cancellations and the clock move in between.  A cycle that throws is
over, and no code takes up what it left.

### Spv

`fetchSpvProof` read by read (`FetchPath`, `FetchHeader`, `BuildBlob`, and
`GiveUp` for each `return null`), a reorganisation of the chain between the reads,
and `verify_merkle_inclusion` on the result.  The relay's answers come from a
merkle tree written as Bitcoin defines it (the last node of an odd level is
its own sibling), independently of both sides that the module models.

`sha256d` is a constructor of terms, so nodes are equal only if built alike: hash
collisions are out of the model.  A header is its merkle root.  The length
prefix is kept byte by byte, a step of the path is one element, and byte order is
left out.  Nobody but the keeper builds a blob here.

### MatchGraph

The comparator as a function of two orders, on words modulo `Modulus`, and four
statements about it over what each order is *willing* to trade at, a definition
that does not mention midpoints.  In the code the sum is halved after it has
wrapped, so the price is fair exactly for sums below 2^64
(`FairUnlessWrapped`), which prices in the units of the app stay far under.

### IkaClient

`tryReal` with everything that goes through it.  `store` is the entries of the
mock store: what kind of key, whose, whether locked.  `call` holds each call: its
mode, the entry it read when it began, whether its timer runs.  `Answer` and
`Fail` are the network's, `Refuse`, `Timeout` and `Mock` the code's.  A dWallet id
is a length and a number, so that `OnChain` (`dwalletHexToPubkey`) can lose the
first of 33 bytes.  Calls carry their own mode because processes with different
environments share the file.

### OrderTape

`yourOrders` and all that writes it.  A row is its order, its status, whether it
has a transaction and whether it is a placeholder without plaintext; prices and
sizes are the plaintext it has or has not.  `book`, `trade`, `owner` and `tx` are
the chain, which takes steps of `DarkPool`.  `reads` holds hydration reads with
the rows they were answered, from the read to the `set`; `live` is the effect's
`cancelled` flag.  `form`, `modal`, `queue`, `pend` and `timers` are the page's
awaits and timeouts: `pend` is the 150 ms between two matches of the queue, in
which the closure still believes what its render showed.  A reload forgets all of
these, a reset on the deposit page only some.

### MockStore and DepositWizard

`file` is the key file; `proc` holds the `set()` a process is in, with the file
as it read it, so that a rename puts back what others have changed meanwhile
(`clobbered` remembers that it did).  `call` holds the two server actions the
page waits for: asked, served, answered or failed.  `DepositWizard` adds the
store of the browser (`dwallet`, `balance`, `locked`, `step`), the connected
wallet, the poller's read and, in `chain`, what each address got and gave, in
blocks and in the mempool.  `Balance` subtracts as `getAddressBalanceAction` does:
while a settlement (`Spend`) waits for its block the unconfirmed part is
negative and the total below the confirmed balance, a case that
deposit-wizard.tsx:290 and 481 and trade-terminal.tsx:565 guard against.  `Spend`
needs a locked policy, as `requestSign` does.  Which step shows
its buttons and what is shown of a foreign dWallet are operators (`Page`,
`CreateOpen`, `AddressShown`).  `crossed` remembers that a lock was answered after
the store had moved on to another dWallet.

### Bytes, Spend, Ciphertext

What the SDK computes without an await in between.  A byte string is a function
of 1..n; `Number` reads one, first byte first, and `BigEndian` and `LittleEndian`
write one.  `Spend` has `buildSpendTx` (what it refuses, the fee, the outputs) and
the way of an external signature into a spend: `NormaliseLowS`, `DerEncode`,
`AttachSig`, `Finalizable`, and what `Sighash` commits to.  A word has `WordLen`
bytes (32 in the code, 1 in the run), and `OrderWord` stands for the order of the
curve's group; scripts, keys and hashes are values.  `CountLen`, `WitnessLen`,
`VSize` and `StrictInt` are Bitcoin's own rules, written from its definitions and
only there to be compared with.  `Ciphertext` has the ids of the mock, the inputs
of a real order, and what each reader makes of an id.

### Boot

What keeper and server do before they serve anyone: the mode a variable stands
for, the guard, the endpoints (every reader takes the variables in its own
order) and the keeper's check of its IDL.  A variable's text is a model value
of which only the lower case, and whether it looks like mainnet, are kept.

### Views

The functions between the records of the chain and what is shown: the feed of
the last settlements (`Recent`), the join of the positions page (`ViewOf`), its
sort (any arrangement in which equal rows keep their order: `ListMatches`), cells
and counts; the panel of open orders as a record with one operator for each
thing that may happen to it; and of the trade page the setup, the banners, the
validation and the phases of the form.

## 4. The runs

| Run | Instance | Shows |
|---|---|---|
| `core_match` | 3 orders, 2 match ids, 2 dWallets, 2 ciphertexts, 2 outputs, fixed clock; comparator on 3-bit words | counts, list, exclusive trading, ledger, bindings, finality, refinement of `DarkPool`; the comparator's four statements for all pairs of orders |
| `core_approve` | 3 orders for 2 places, 2 wallets, 2 slots | typing at the limit, approvals bound and one-shot |
| `settle_real` | 2 matches of 2 sellers (one with two coins), 2 faults, late approvals, real relay | audit trail, payments per failure, no made-up settlement, proofs of confirmed payments |
| `settle_auto` | 2 matches of 1 seller with 1 coin, fills 0 and 2, 1 fault, auto relay | every match decided; failed matches moved no coin |
| `match_cycle` | 2 cycles whose pairs share an order, 2 match ids, 1 fault, 2 slots | deposit account before `try_match`, own intent, complete snapshot, termination |
| `spv` | blocks of 1 to 5 of 5 transactions, 1 reorganisation | accepted proofs are of the payment's block; a refusal needs a reorganisation |
| `trade` | 2 wallets, 2 orders, a tape of 2 rows, 1 read at a time, 1 fault, 1 change | hydration is for the connected wallet; plaintext is lost only as named; stubs move forward; the chain's orders surface; seven facts about `Views` |
| `deposit` | 2 wallets, 2 dWallets, a deposit to the first and its spending, 2 processes and a stranger, 1 fault, 1 change | answers reach the right dWallet and wallet; ready means a policy; the balance is its own and catches up |
| `ika` | 3 calls, 2 numbers of dWallets, 2 wallets | in auto mode no signature by the mock key, against the documents (section 6); the keeper signs with file keys in mock mode; ten facts about `Spend`, `Ciphertext` and `Boot` |
| `gap_gate` | as `settle_real`, no faults | *violated*: "no approval ... the match is marked failed" (docs/gaps.md:353) |
| `gap_abandoned` | as `match_cycle`, no faults, ordinary keys | *violated*: match-pair drives the cycle to `finalize_decryption` (README.md:222) |
| `gap_timeout` | 2 calls, 1 wallet | *violated*: "call real with an 8s timeout", "always returns" (mode.ts:10, 164) |

**Bounds, and why they are enough.**  Three orders are the fewest of which two
pairs share one; two match ids let both pairs hold an intent; two outputs are
the fewest with a partial snapshot (the program has three, treated alike).
`core_match` fixes the clock, since no matching guard but the expiry reads it,
and leaves approvals out; `core_approve` brings both back with one match.
Settlement needs two matches for one poll to hold a stale list and for a
second spend to meet the first one's change; two faults let a crash follow a
lost call.  `MaxCoins` is above what the runs can create.  The clock has two
slots: an approval or order is live and then expired.  Blocks of five have
three levels, with odd widths on two of them.  The tape needs two orders for a
queue, for a full tape and for a stub beside the
order it stands for, and two wallets for a read to answer the wrong one; with one
change a wallet switch, a reload, a reset and an order from elsewhere are
explored each by itself.  The run `trade` has as many orders as the tape has rows (`MaxOrders = TapeSize`)
and one read at a time (`Polls = {1}`): with more orders than rows the tape is
cut, and `Surfaces` cannot hold of what was cut; reads that overlap are not
explored by TLC, but the proofs of the safety properties are for any number of
both.  The deposit page needs two dWallets for an answer to cross over, two
processes for a write to be lost, and one address whose balance goes up and
down again (`FirstFunded`) for a read to differ from the other's and from the next.  Three calls let one
create, one lock-dependent signature and one interfering call overlap.  Words of
three bits have sums on both sides of the modulus.  The facts about functions are
`ASSUME`s of `MCIkaClient` and `MCOrderTape`, evaluated before the run, on words of two
bytes (where high bits, leading zeros and both sides of half the group occur), on
every setting of the environment that the guards tell apart, and on two records;
the theorems of section 5 are about all sizes.  Symmetry is used for orders,
wallets, ciphertexts, calls and the other transactions of a block, in runs that
check no liveness.

`CHECK_DEADLOCK FALSE` is set throughout: the book stops when every order is
decided and every id used, the keeper is idle when nothing is Pending and
nothing moves, the cycles end.

**Fairness.**  `FairSpec` assumes weak fairness of the keeper's steps: the
container restarts a keeper that stopped (`restart: always`) and its loop runs
`pollOnce` for ever; failures are finitely many (`MaxFaults`).  Nothing is
assumed of Bitcoin or of transactions in flight.  `CycleFairSpec` assumes it
of each cycle: every await returns, throws or reaches its deadline.  Nothing is
assumed of the executor.  For the keeper this means that the Ika call answers
or fails, which `gap_timeout` shows the code does not see to.  `FairSpec` of
`OrderTape` and `DepositWizard` assumes that the interval fires, its read
answers (or fails, finitely often), and timers run down; of `IkaClient`, that code
runs and timers fire, and nothing of the network.

## 5. Proofs

`ObsidianCoreProofs` proves, from `CoreAssumption` alone (finitely many nonces,
an order limit in 1..255, a first slot above 0, `None` no value), for any number of
markets, orders, wallets, outputs and matches:

* `Invariance`: `IInv` is invariant.  The conjuncts need each other:
  exclusive trading needs intents to name existing orders (`MatchBinds`) and the
  order of a record to be Matched; the exact count needs the two orders of a
  finalised match to be distinct and Active, or one would be subtracted twice;
  `RecordAfterCommit` needs `SnapshotCommitted` (a copied digest had been
  committed); `BlankAccounts` says that what does not exist holds nothing, so that
  creating it overwrites nothing.  Each conjunct has a step lemma with one step
  per action that can disturb it.
* From it, one theorem for each invariant of the core runs,
  the three action properties, and `Implementation`: the program
  implements `DarkPool`, where a step of the program is a step of the pool
  (submit, cancel, finalise a decryption, conclude) or leaves it alone.

* `BookListed`: from the head, the list of a market reaches each of its orders.  It
  has an invariant of its own, `BookWalked`: a walk from the head that ends after as
  many steps as the market has orders and meets each of them.  `submit_order` puts
  one step before it, and no other instruction touches it.

`FirstSlot > 0` is what `ApprovalOneShot` rests on: an approval consumed in slot
0 would count as unconsumed.

**Induction.**  The library states induction for a predicate, which the installed
provers cannot instantiate.  `Induction` states it for a set (`SetInduction`: a
set with 0 and with every successor has all naturals), proves it from the
well-foundedness of `<`, and derives what the other modules need: the sequence
that lists a finite set of naturals (`ListExists`), and that a function with a
given start and step exists (`Iterated`) and stays in its set (`StepwiseIn`).
Functions defined by recursion are written with a bound (a function of `0..N`), so
that these lemmas give their values.

`SpvProofs` proves, for blocks of every size up to `MaxTxs`, which
`SpvAssumption` bounds by 65535 (the depth of such a tree, and the length prefix
of every blob built for it, are far within the code's two bytes; Bitcoin's
blocks hold fewer transactions):

* `VarintRoundTrip`, `BlobParsed`: what the keeper's encoder writes, the
  program's parser splits at the same places, in the one-byte and in the
  three-byte form; its verdict is then the walk's.
* `PathAccepted`: the walk along the path of any transaction of a block ends in
  the block's root.  The induction is over the levels: the node reached is the
  one whose place is the position shifted by as many bits (`ClimbStep`), where
  `Doubling` and `LevelWidths` say how wide a level is and that the last of an
  odd one has itself as its sibling.
* `AcceptedIncluded`: the converse.  A walk that ends in a root went down the same
  tree, so it began at one of its leaves, whatever path and position were given.
  It needs that unlike terms are unlike nodes: no collisions.
* `SpvInvariant`, and from it the three invariants of the run: `SpvTyped`,
  `SpvIncluded` (by `AcceptedIncluded`), `SpvAccepted` (by `PathAccepted`, when all
  three reads were of one block).

`IkaClientProofs` proves, for any number of calls, wallets and ids, an invariant
that ties each id's length to the kind of its key, a signing call's key to the
entry it read, and each ending to the modes it is reached from.  From it:
`SignaturesNotFallback` (the fallback needs a file key, but a call with a file key
has been refused before it could fall back), `KeeperSignatures` (32-byte ids have
file keys only) and `MadeUpOnRequest`.

It also holds the theorems about the SDK's functions and the start:

* `LowS`, `StrictSignature`: an external signature is attached in its low form, with
  an encoding that strict DER accepts, at most 72 bytes long (for words of up to
  32 bytes, and a signer whose s is below the group's order: `NormaliseLowS` of a
  larger one wraps and is another word).
* `FeeCovers`: so the fee, computed before any signature exists, pays the rate for
  every virtual byte of the signed transaction.  Up to 252 inputs (beyond, their
  count takes more than the byte the estimate has for it) and outputs of P2WPKH,
  which is what dWallets have.  `Balanced`: inputs are outputs plus fee.
* `OneInput`: what `requestSign` attaches finalises exactly the spends with one
  input.  The keeper passes every coin of the seller.
* `MockRoundTrip`, `MockOrderRead`, `SideRead`, `DescribedBlind`: mock ids give back
  what was put in, for all 64-bit values and every salt; the keeper's shortcut for
  the side reads the right byte; the debug text does not depend on the plaintext.
* `KeeperGuarded`, `BrowserGuarded`: past the guard, on mainnet, the Encrypt and Ika
  modes resolve to real, for every setting of the environment.  Assumed: server
  and browser see the same `NEXT_PUBLIC_SOLANA_RPC`, which is fixed when the app
  is built.

`DepositProofs` proves the deposit page's safety properties for any number of
wallets, processes, dWallets, changes and faults.  The invariant follows a
dWallet's creator through its four places: the process about to write it, the
file, the answer on its way, the browser's store.  Each process's copy of the
file agrees with what was created, an entry never changes its creator, a lock in
the store means a policy in the file, all of this while no write was lost
(`clobbered`).  An address never gives more than it got (`Addresses`), so that
balances stay natural numbers although the unconfirmed part need not.  One step lemma per action; the server's steps, which leave the
page alone, share theirs.  Assumed: `DepositAssumption` (bounds are naturals, a
default cap above 0, `None` no value, the stranger is no wallet of the browser).

`MatchCycleProofs` proves the safety properties of racing `match-pair` runs,
from `CycleAssumption` (nonces are numbered from 1 up to at most the order
limit, the operator's key is a keeper's, each run has a pair of orders).  A step
of a run is a step of the program or leaves it alone, so the program's `InvStep`
keeps `IInv`.  What is added says who owns a match id: the run that chose it,
from `try_match` on, also when the confirmation was lost and the transaction may
land after the run gave up.  A new id is one above `match_count`, and so above
every owned one; that is why two runs that read the same count cannot both
succeed, and why `OwnIntents` holds for any number of them.

`SettlementProofs` proves all of `Settlement`'s safety properties, from
`SettlementAssumption` (nonces are numbered two to a match, sellers are not the
buyer, the initial coins are numbered from 1 and owned by dWallets, transactions
serve as digests, bounds are naturals, `None` no proof).  `SettleIInv` adds to
`IInv`:

* `AllMatched`: orders and records stay the matched pairs they started as;
* `KeeperInv`: what the keeper's locals say of the record at hand in each place,
  so that `gate = "consumed"` means the approval recorded this very transaction;
* `FlightInv`: what a `finalize_settlement` still under way says (proof, payment) is
  so, as it may land when the keeper has long forgotten it;
* `PaymentInv`: a gated payment is recorded in its approval, and `Settled` and
  `"spv"` records have their payments;
* `Calm`: with no failure yet nobody but the keeper decides, and a payment is
  followed by its record;
* `Budget`: a match has at most as many payments as there were failures, and one
  more only when it was paid in this poll or is decided and out of the keeper's
  hands: what it may still pay for is always one short of the bound.

`Calm` gives `FailuresHonest`, `Budget` gives `PaymentsPerFailure`, the rest
follows from `PaymentInv`.

`OrderTapeProofs` proves all the safety and action properties of `OrderTape`,
for any number of orders, wallets and reads under way and a tape of any length,
from `TapeAssumption`.  `TapeInv` adds to the run's invariants which rows are
stubs (`Origins`), that a submitted order has at most a placeholder before it is
confirmed (`FormOnce`), that what a live read saw belongs to the wallet that is
connected (`ReadsOwn`), and that the demo's timers find the status the timer
before them set (`TimersInStep`).  `TwinsArePlaceholders` needs what a hydration
does to the tape (`Hydrated`): it filters the rows, then lists those of the
chain that are missing, and the second part is a sorted set, for which
`Enumerated` uses `ListExists`. `HydrationOwned`, `PlaintextSurvives` and
`StubsForward` are its action properties. The theorems about `Views` are there
too: `PageShowsAll` (the sort loses and doubles nothing: an injection of a
finite set into itself is onto it), `CountsAddUp`, `SettlementBadged`.

The comparator's four statements, for words of any width, are in
`ObsidianCoreProofs`.  `WrapOnce` (a sum of two words wraps at most once) is all
the arithmetic; `Fair` then has a case for each side of the modulus.

**Only model-checked.**  Liveness (`EveryMatchDecided`, `CyclesEnd`, `Surfaces`,
`BalanceCatchesUp`), which is out of the prover's reach, the three violation runs,
and the facts about functions that section 6 tells as disagreements.  Every
invariant and every action property of a passing run is a theorem.

## 6. Where code and documents disagree

Shown by the three violation runs, see `findings` in `PROJECT.json`.

One is shown by a run that passes.  ika.ts:295 says of `requestSign` in auto mode
"try real, fall back to mock on transient failure"; docs/gaps.md:313-316 that
`tryReal` "falls back to the mock single-key path so the demo keeps running" when
the network is unreachable or its signature fails verification; docs/DEMO.md:27
repeats it and line 254 shows the log of such a signature.  In the code no call
of `requestSign` ever ends that way: an entry made by the network has a public key
and no key in the file, so its fallback throws (ika.ts:402-407); one made by the
mock has no public key, so the real branch throws an error that is not transient
(334-341); a signature that fails verification is not transient either.
`NoFallbackSignature` states this, the run `ika` checks it and
`SignaturesNotFallback` proves it: in auto mode the network signs or nobody does.

Met while reading, without a run of their own:

* README.md:93 has the daemon drive `try_match`; `index.ts` only runs `pollOnce`.
* docs/gaps.md:349 describes consume before sign; `poll.ts` signs first.
* lib.rs:453 speaks of any digest being non-zero; the code requires all three.
* docs/gaps.md:379 says the mock store survives concurrent writers;
  `MockStore.set` is a read, a change and a write of the whole file.
* ika.ts:352-354 assumes a single-input PSBT; `buildSpendTx` attaches every coin.
* `OrderStatus::Expired` and `SettleStatus::Cancelled` are never assigned.
* lib.rs:190 calls `max_amount_sats` the upper bound of "any single output value
  the keeper may sign"; the gate compares it with the fill alone, and a change
  output may be larger (poll.ts:287-291, btc.ts:111-113).
* lib.rs:505-507 has `finalize_settlement` called after one confirmation; the
  keeper calls it right after the broadcast, with the bare txid if there is no
  proof yet (poll.ts:337-371).
* docs/DEPLOYMENT.md:214 calls settlement "idempotent at the per-MatchRecord
  level"; after a crash between broadcast and finalisation a record without an
  approval is paid again.  `PaymentsBounded` states what does hold.
* trade-terminal.tsx:100-103 expects that for a shortened dWallet id
  "settlement-side lookups still work"; poll.ts:203-219 looks up the 64 digits,
  and an entry of the network is stored under 66.  Such a match fails, and with
  it real signing by the keeper, against docs/DEMO.md:27 and
  docs/gaps.md:313-315: `KeeperSignsByFile` states what does hold.
* deposit-wizard.tsx:406-407 caps the policy "at the on-chain balance so the policy
  never authorizes more than what's actually been funded".  The cap is one bitcoin
  when no balance is confirmed or the read failed (408), that of the dWallet
  before when the poller has not answered for a new one (dwallet.ts:72-73 keeps
  the balance), and what a waiting settlement spends is still counted.
  `MaxAmount` and `SetDwallet` are as in the code; no property holds of the cap.
* state.rs:150 rejects an approval "if now > this"; lib.rs:249, like
  docs/gaps.md:343, rejects it from the slot on that is equal.
* trade-terminal.tsx:146 says the "local tape stays as-is on transient failures";
  the action answers an empty list instead of throwing
  (trade/actions.ts:228-233), and hydration drops every submitted row.
* Positions: a failed settlement has the key `settleFailed`, the view looks for
  `failed` and shows it as pending (positions/actions.ts:167-171); a proof that
  is longer than 32 bytes, which is the better one, has no link (173-181):
  `FailuresHidden`.  Relay modes are looked up by match id without the market,
  older entries replacing newer ones (163-165): `BadgeOfAnother`.  The badge "live
  Ika MPC + signet relay" (page.tsx:66-67) is about the relay alone.
* The panel of open orders keeps showing its first error after reads that
  succeed, and the previous wallet's rows until the next wallet's are read
  (open-orders.tsx:37-68): `PanelStale`.
* Before the setup has answered, and when the server finds no IDL or market,
  an order is kept in the browser only, and neither banner is shown
  (trade-terminal.tsx:161-179, 233-257, 407-456): `SilentStub`.
* order-form.tsx:87 resets "after the full 1.8s arc"; the reset comes 1.8 s after
  the answer, whenever that is.
* match-settle-modal.tsx:41-45 keeps badges "in lockstep" with the modal;
  `onComplete` is a new function in every render, so each render of the page
  starts the modal's timers again (69-91) while the badges' go on.
* The guard wants the exact text `real`, `resolveMode` lower-cases: `GuardIsExact`.
  It knows two modes of three, so a mocked relay passes on mainnet:
  `BtcUnguarded`.  The pages' reads take `SOLANA_RPC` first, their guard
  `NEXT_PUBLIC_SOLANA_RPC`: `ReadsUnguarded`; what is written goes through the
  browser's endpoint, which is the guarded one: `BrowserGuarded`.
* index.ts:112-118 wants a drifted IDL to stop the keeper; it decodes a
  `MarketState` only, so one that drifted in another account goes unseen
  (172-177): `DriftUnseen`.  An error counts as transient by its text, in which
  503 and 504 may mean anything (193).
* `KEEPER_FEERATE` is not checked at start (index.ts:48); with 0 or no number
  `buildSpendTx` throws for each match (btc.ts:76-78), and each is marked failed.
* A change of 1 to 293 sats is put into the transaction (btc.ts:106-113), which
  relays refuse as dust.
* `lastError` in the keeper's status is never cleared (index.ts:245).
* scripts/seed-demo.ts:87 calls `readFileSync`, which it does not import.

## 7. Not modelled, and why

* Cryptography (FHE, threshold signatures, hashes, encodings): external, or
  abstracted to equality.
* The HTTP server of the keeper's status, the event log of `tryReal` but for what
  it counts: no effect on the state modelled here.
* Of the pages: how amounts, hashes and dates are written, the price feed, the
  realised total, the stages the modal draws, and the Fast button, which lies under
  the modal while a match plays.
* Of the deposit page: entries without a creator, which are not made any more; a
  second tab, which would share localStorage but not its store in memory; reads of
  the balance that overlap because one is slower than the interval
  (dwallet.ts:177: each still writes only while its own effect lives); the ten
  seconds for which the server answers from its cache (deposit/actions.ts:166);
  reorganisations and replaced transactions under the balance.
* Of the trade page: leaving it and coming back without a reload, while the form's
  await and the timers of the old page still run; the order in which new
  placeholders come from the RPC (the model sorts them), which only matters to
  what a full tape drops.
* Of the keeper: an error of `consume_btc_approval` whose text says that the
  instruction is "not found" (poll.ts:510-517) passes for a missing approval; there
  is an approval account by then, so the program has the instruction.  A call to
  Ika that fails: in mock mode, the only one in which the keeper gets signatures,
  it makes none.
* Of the mock store: a file that cannot be parsed; `delete` and `reset`, which only
  tests and the seed script use.
* Records of a market with another authority: `Settlement` assumes that its own
  key is the authority.
* Landing page, pitch deck, shell: presentation.
* Vendored crates and generated stubs: third-party.
* Demo and deployment scripts: sequences of instructions that `ObsidianCore`
  takes in every order.

## Running

    tlc -workers 2 -config MCCoreMatch.cfg MCCoreMatch
    tlapm ObsidianCoreProofs.tla
    tlapm SpvProofs.tla
    tlapm IkaClientProofs.tla
    tlapm DepositProofs.tla
    tlapm MatchCycleProofs.tla
    tlapm SettlementProofs.tla
    tlapm OrderTapeProofs.tla
    tlapm Induction.tla
