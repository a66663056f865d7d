---- MODULE MatchCycle ----
(***************************************************************************)
(* ensureEncryptDeposit and runMatchCycle (keeper/src/matching.ts), which  *)
(* the match-pair CLI runs once for the pair of orders it is given, as     *)
(* several operators may do at the same time, against the Solana program   *)
(* whose actions are taken here.                                           *)
(*                                                                         *)
(* A cycle is a sequence of awaits, and each action runs to the next one.  *)
(* In between, other cycles move, orders are cancelled or expire, and the  *)
(* Encrypt executor commits the comparator's outputs or does not.  A cycle *)
(* that throws is over: nothing is undone, and nobody takes up its match.  *)
(*                                                                         *)
(* The matching starts from markets whose orders, numbered 1, 2, ... as    *)
(* they were submitted, are all live.                                      *)
(*                                                                         *)
(* Bounds: MaxFaults failed or lost calls.                                 *)
(***************************************************************************)
EXTENDS ObsidianCore

CONSTANTS
    Self,      \* the wallet of the CLI: keeper authority and payer
    Cycles,    \* runs of the CLI
    Pair,      \* the orders each of them was given
    KeyTags,   \* whether the fresh output keys may begin with MOCK_TAG
    MaxFaults

ASSUME CycleAssumption ==
    /\ \E n \in 1..MaxActive : Nonces = 1..n
    /\ Self \in Keepers
    /\ Pair \in [Cycles -> Orders \X Orders]
    /\ KeyTags \subseteq BOOLEAN /\ MaxFaults \in Nat

VARIABLES
    cyc,       \* what each cycle knows
    deposited, \* the wallet has an encrypt_deposit account
    sent,      \* transactions whose confirmation a cycle did not see
    faults     \* failed calls so far

cycleVars == <<cyc, deposited, sent, faults>>
matchVars == <<vars, cycleVars>>

Setup   == {"setup", "deposit"}
Working == {"await", "request", "decrypt", "finalize"}
Steps   == {"orders", "market", "match", "done", "failed"} \cup Setup \cup Working

NewCycle == [pc |-> "setup", mid |-> 0, cts |-> <<None, None>>, tagged |-> FALSE,
             fill |-> 0, sellerIsA |-> FALSE]
Msgs == [kind : {"deposit", "match", "request", "finalize"}, cycle : Cycles]

CycleTypeOK ==
    /\ TypeOK
    /\ deposited \in BOOLEAN
    /\ DOMAIN cyc = Cycles
    /\ \A c \in Cycles :
         /\ cyc[c].pc \in Steps
         /\ cyc[c].mid \in 0..(MaxMatches + 1)
         /\ cyc[c].pc \in Working \cup {"match", "done"} => cyc[c].mid # 0
         /\ cyc[c].pc \in Working \cup {"orders", "market", "match", "done"} => deposited
         /\ cyc[c].fill \in Fills \cup {0}
    /\ sent \subseteq Msgs
    /\ faults \in 0..MaxFaults

-----------------------------------------------------------------------------
(* Markets of live orders *)

LiveMarkets(s, e) ==
    LET last == CHOOSE n \in Nonces : \A x \in Nonces : x <= n IN
    /\ slot = FirstSlot
    /\ keeper = [m \in Markets |-> Self]
    /\ head = [m \in Markets |-> <<m, last>>]
    /\ matchCount = [m \in Markets |-> 0]
    /\ activeCount = [m \in Markets |-> Cardinality(Nonces)]
    /\ \E d \in DWallets, c \in Cts :
         order = [o \in Orders |->
             [owner |-> s, dwallet |-> d, ct |-> c, expiry |-> e,
              next |-> IF o[2] = 1 THEN None ELSE <<o[1], o[2] - 1>>, status |-> "Active"]]
    /\ committed = [id \in MatchIds |-> {}]
    /\ intent = [id \in MatchIds |-> NoIntent]
    /\ record = [id \in MatchIds |-> NoRecord]
    /\ approval = [o \in Orders |-> NoApproval]

CycleInit ==
    /\ \E s \in Traders, e \in Expiries : e > FirstSlot /\ LiveMarkets(s, e)
    /\ cyc = [c \in Cycles |-> NewCycle]
    /\ deposited \in BOOLEAN
    /\ sent = {}
    /\ faults = 0

-----------------------------------------------------------------------------
(* The calls a cycle makes *)

Market(c)  == Pair[c][1][1]
MatchId(c) == <<Market(c), cyc[c].mid>>
CallMatch(c) ==
    /\ cyc[c].mid \in 1..MaxMatches
    /\ TryMatch(Market(c), cyc[c].mid, Pair[c][1], Pair[c][2],
                cyc[c].cts[1], cyc[c].cts[2], Self)
CallRequest(c)  == RequestDecryption(MatchId(c), Self)
CallFinalize(c) == FinalizeDecryption(MatchId(c), cyc[c].fill, cyc[c].sellerIsA, Self)

\* What the program would answer.
MatchAccepted(c) ==
    LET a == Pair[c][1]  b == Pair[c][2] IN
    /\ KeeperSigned(Market(c), Self) /\ cyc[c].mid = matchCount[Market(c)] + 1
    /\ Distinct(a, b) /\ BothActive(a, b)
    /\ order[a].expiry > slot /\ order[b].expiry > slot
    /\ CiphertextsMatch(a, cyc[c].cts[1], b, cyc[c].cts[2])
RequestAccepted(c) == KeeperSigned(Market(c), Self) /\ intent[MatchId(c)].open
FinalizeAccepted(c) ==
    /\ RequestAccepted(c)
    /\ record[MatchId(c)].status = "Absent"
    /\ BothActive(Pair[c][1], Pair[c][2])
    /\ DecryptionRequested(MatchId(c))

Goto(c, pc) == cyc' = [cyc EXCEPT ![c].pc = pc]
\* Any exception leaves runMatchCycle, and the CLI exits.
Throw(c) == Goto(c, "failed")
Fault == faults < MaxFaults /\ faults' = faults + 1
\* The confirmation does not come: the transaction may still land.
GiveUp(c, kind) ==
    /\ Fault
    /\ sent' = sent \cup {[kind |-> kind, cycle |-> c]}
    /\ Throw(c)
    /\ UNCHANGED <<vars, deposited>>

-----------------------------------------------------------------------------
(* The cycle *)

\* MUTANT: takes a new wallet to have its account.
MutDepositExists == TRUE
\* getAccountInfo(pdas.deposit).
DepositExists == deposited

\* ensureEncryptDeposit: looks first, ...
ReadDeposit(c) ==
    /\ cyc[c].pc = "setup"
    /\ UNCHANGED <<vars, deposited, sent>>
    /\ \/ Goto(c, IF DepositExists THEN "orders" ELSE "deposit") /\ UNCHANGED faults
       \/ Fault /\ Throw(c)

\* ... and creates the account in a later transaction, which is refused if
\* another run of the same wallet has been faster.
CreateDeposit(c) ==
    /\ cyc[c].pc = "deposit"
    /\ \/ ~ deposited /\ deposited' = TRUE /\ Goto(c, "orders") /\ UNCHANGED <<vars, sent, faults>>
       \/ deposited /\ Throw(c) /\ UNCHANGED <<vars, deposited, sent, faults>>
       \/ GiveUp(c, "deposit")

\* fetchOrder for both: the ciphertext refs never change afterwards.
ReadOrders(c) ==
    /\ cyc[c].pc = "orders"
    /\ UNCHANGED <<vars, deposited, sent>>
    /\ \/ /\ cyc' = [cyc EXCEPT ![c].pc = "market",
                        ![c].cts = <<order[Pair[c][1]].ct, order[Pair[c][2]].ct>>]
          /\ UNCHANGED faults
       \/ Fault /\ Throw(c)

NextMatch(m) == matchCount[m] + 1

\* match_id is chosen here and used in a later transaction: two cycles may
\* choose the same.  The keys of the outputs are fresh.
ReadMarket(c) ==
    /\ cyc[c].pc = "market"
    /\ UNCHANGED <<vars, deposited, sent>>
    /\ \/ /\ \E t \in KeyTags :
                cyc' = [cyc EXCEPT ![c].pc = "match", ![c].tagged = t,
                                   ![c].mid = NextMatch(Market(c))]
          /\ UNCHANGED faults
       \/ Fault /\ Throw(c)

\* MUTANT: a try_match that fails counts as done by someone else.
MutTurnedDown(c) == Goto(c, "await")
TurnedDown(c) == Throw(c)

\* The bound MaxMatches is no refusal of the program: no cycle goes there.
SendMatch(c) ==
    /\ cyc[c].pc = "match"
    /\ cyc[c].mid <= MaxMatches
    /\ \/ CallMatch(c) /\ Goto(c, "await") /\ UNCHANGED <<deposited, sent, faults>>
       \/ ~ MatchAccepted(c) /\ TurnedDown(c) /\ UNCHANGED <<vars, deposited, sent, faults>>
       \/ GiveUp(c, "match")

\* MUTANT: waits for the first output only.
MutVerified(c) == committed[MatchId(c)] # {}
\* waitForVerified, three times: a commitment is never taken back, so the
\* third wait is over when all three are there.
Verified(c) == committed[MatchId(c)] = Outputs

\* MUTANT: no deadline.
MutDeadline(c) == FALSE
\* executorTimeoutMs may pass at any time before.
Deadline(c) == ~ Verified(c)

AwaitExecutor(c) ==
    /\ cyc[c].pc = "await"
    /\ \/ Verified(c) /\ Goto(c, "request") /\ UNCHANGED faults
       \/ Deadline(c) /\ Throw(c) /\ UNCHANGED faults
       \/ Fault /\ Throw(c)
    /\ UNCHANGED <<vars, deposited, sent>>

SendRequest(c) ==
    /\ cyc[c].pc = "request"
    /\ \/ CallRequest(c) /\ Goto(c, "decrypt") /\ UNCHANGED <<deposited, sent, faults>>
       \/ ~ RequestAccepted(c) /\ Throw(c) /\ UNCHANGED <<vars, deposited, sent, faults>>
       \/ GiveUp(c, "request")

\* requestThresholdDecrypt unpacks the account's KEY, which holds a value
\* only if it begins with MOCK_TAG, and throws otherwise, in every mode.
\* The values are then whatever the key's last bytes are; so is the side,
\* which falls back to byte 24 of a ciphertext's key.  A zero can_match
\* throws too.
Decrypt(c) ==
    /\ cyc[c].pc = "decrypt"
    /\ \/ /\ cyc[c].tagged
          /\ \E n \in Fills, sellerIsA \in BOOLEAN :
                cyc' = [cyc EXCEPT ![c].pc = "finalize", ![c].fill = n,
                                   ![c].sellerIsA = sellerIsA]
       \/ Throw(c)
    /\ UNCHANGED <<vars, deposited, sent, faults>>

SendFinalize(c) ==
    /\ cyc[c].pc = "finalize"
    /\ \/ CallFinalize(c) /\ Goto(c, "done") /\ UNCHANGED <<deposited, sent, faults>>
       \/ ~ FinalizeAccepted(c) /\ Throw(c) /\ UNCHANGED <<vars, deposited, sent, faults>>
       \/ GiveUp(c, "finalize")

Cycle(c) ==
    \/ ReadDeposit(c) \/ CreateDeposit(c)
    \/ ReadOrders(c) \/ ReadMarket(c) \/ SendMatch(c) \/ AwaitExecutor(c)
    \/ SendRequest(c) \/ Decrypt(c) \/ SendFinalize(c)

-----------------------------------------------------------------------------
(* The rest of the world *)

\* A transaction nobody waits for any more is executed after all.
Land(msg) ==
    /\ msg \in sent
    /\ sent' = sent \ {msg}
    /\ \/ msg.kind = "deposit" /\ ~ deposited /\ deposited' = TRUE /\ UNCHANGED vars
       \/ /\ UNCHANGED deposited
          /\ CASE msg.kind = "match" -> CallMatch(msg.cycle)
               [] msg.kind = "request" -> CallRequest(msg.cycle)
               [] msg.kind = "finalize" -> CallFinalize(msg.cycle)
               [] OTHER -> FALSE
    /\ UNCHANGED <<cyc, faults>>

\* Its blockhash expires, or the program refuses it.
Drop(msg) ==
    /\ msg \in sent
    /\ sent' = sent \ {msg}
    /\ UNCHANGED <<vars, cyc, deposited, faults>>

Executor(id, out) == ExecutorCommit(id, out) /\ UNCHANGED cycleVars
Withdraw(o)       == CancelOrder(o, order[o].owner) /\ UNCHANGED cycleVars
Clock             == Tick /\ UNCHANGED cycleVars

CycleNext ==
    \/ \E c \in Cycles : Cycle(c)
    \/ \E msg \in sent : Land(msg) \/ Drop(msg)
    \/ \E id \in MatchIds, out \in Outputs : Executor(id, out)
    \/ \E o \in Orders : Withdraw(o)
    \/ Clock

CycleSpec == CycleInit /\ [][CycleNext]_matchVars

\* A cycle keeps running: each of its awaits returns or throws, the wait for
\* the executor at its deadline.  Nothing is assumed of the executor.
CycleFairSpec == CycleSpec /\ \A c \in Cycles : WF_matchVars(Cycle(c))

-----------------------------------------------------------------------------
(* Properties *)

\* The match ids that racing cycles choose may collide, but of the cycles
\* that got past try_match each works on an intent of its own, which is
\* open and names its pair, whatever lost transactions land meanwhile.
CycleOwnsIntent ==
    \A c \in Cycles : cyc[c].pc \in Working =>
        /\ intent[MatchId(c)].open
        /\ <<intent[MatchId(c)].a, intent[MatchId(c)].b>> = Pair[c]
        /\ \A d \in Cycles \ {c} : cyc[d].pc \in Working => MatchId(d) # MatchId(c)

\* A cycle that asks for plaintexts has a complete snapshot behind it, so
\* that its finalize_decryption is never refused for a zero digest; the
\* program itself takes a snapshot at any time.
SnapshotComplete ==
    \A c \in Cycles : cyc[c].pc \in {"decrypt", "finalize"} =>
        intent[MatchId(c)].snapshot = Outputs

\* Every run of the CLI ends, executor or not.
CyclesEnd == \A c \in Cycles : <>(cyc[c].pc \in {"done", "failed"})

-----------------------------------------------------------------------------
(* What the documents say, and the code does not do *)

\* README.md: match-pair "drives try_match -> request_decryption ->
\* finalize_decryption": with no failed call a cycle does not abandon a
\* match that finalize_decryption would accept.
NoneAbandoned ==
    faults = 0 => \A c \in Cycles : cyc[c].pc = "failed" /\ cyc[c].mid \in 1..MaxMatches
        /\ <<intent[MatchId(c)].a, intent[MatchId(c)].b>> = Pair[c]
            => ~ FinalizeAccepted(c)
====
