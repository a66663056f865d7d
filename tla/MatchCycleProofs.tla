---- MODULE MatchCycleProofs ----
(***************************************************************************)
(* Theorems about racing matching cycles, for any number of cycles, pairs, *)
(* orders and failed calls.  Each step of a cycle is a step of the program *)
(* or none, so the program's own invariant is kept; what is added says     *)
(* which match ids the cycles, and the transactions they gave up on, own.  *)
(***************************************************************************)
EXTENDS MatchCycle, ObsidianCoreProofs

\* Orders are there from the start, and signed by their traders.
OrdersReal ==
    \A o \in Orders : /\ order[o].status # "Absent"
                      /\ order[o].owner \in Traders /\ order[o].ct \in Cts

CycleRec == [pc : Steps, mid : 0..(MaxMatches + 1),
             cts : (Cts \cup {None}) \X (Cts \cup {None}),
             tagged : BOOLEAN, fill : Fills \cup {0}, sellerIsA : BOOLEAN]

CyclesTyped ==
    /\ cyc \in [Cycles -> CycleRec]
    /\ deposited \in BOOLEAN
    /\ sent \subseteq Msgs
    /\ faults \in 0..MaxFaults

Left(c, kind) == [kind |-> kind, cycle |-> c] \in sent

\* A match id belongs to the cycle whose try_match was accepted, until nothing
\* of the cycle can touch it any more.
Owns(c) ==
    cyc[c].pc \in Working \cup {"done"} \/ Left(c, "request") \/ Left(c, "finalize")

Mine(c) ==
    /\ cyc[c].pc \in Working \cup {"match", "done"} => cyc[c].mid # 0
    /\ cyc[c].pc \in Working \cup {"orders", "market", "match", "done"} => deposited
    /\ Owns(c) => cyc[c].mid \in 1..matchCount[Market(c)]
    /\ cyc[c].pc \in Working => /\ intent[MatchId(c)].open
                                /\ intent[MatchId(c)].a = Pair[c][1]
                                /\ intent[MatchId(c)].b = Pair[c][2]
    /\ cyc[c].pc \in {"request", "decrypt", "finalize"} => committed[MatchId(c)] = Outputs
    /\ cyc[c].pc \in {"decrypt", "finalize"} => intent[MatchId(c)].snapshot = Outputs
    /\ cyc[c].pc = "finalize" \/ Left(c, "finalize") => cyc[c].fill \in Fills
    /\ \A msg \in sent : msg.cycle = c => cyc[c].pc = "failed"
    /\ \A x, y \in sent : x.cycle = c /\ y.cycle = c => x = y

Apart == \A c, d \in Cycles : c # d /\ Owns(c) /\ Owns(d) => MatchId(c) # MatchId(d)

CycleIInv ==
    IInv /\ OrdersReal /\ CyclesTyped /\ (\A c \in Cycles : Mine(c)) /\ Apart

-----------------------------------------------------------------------------
(* Effects *)

LEMMA PairOrders ==
    ASSUME NEW c \in Cycles
    PROVE  /\ Pair[c][1] \in Orders /\ Pair[c][2] \in Orders
           /\ Market(c) \in Markets
BY CycleAssumption DEF Market, Orders

LEMMA GotoEffect ==
    ASSUME CyclesTyped, NEW c \in Cycles, NEW pc \in Steps, Goto(c, pc)
    PROVE  /\ cyc' \in [Cycles -> CycleRec]
           /\ cyc'[c].pc = pc /\ cyc'[c].mid = cyc[c].mid /\ cyc'[c].fill = cyc[c].fill
           /\ \A d \in Cycles : d # c => cyc'[d] = cyc[d]
<1>1. cyc[c] \in CycleRec
  BY DEF CyclesTyped
<1>2. cyc' = [cyc EXCEPT ![c] = [cyc[c] EXCEPT !.pc = pc]]
  BY DEF Goto
<1>3. [cyc[c] EXCEPT !.pc = pc] \in CycleRec
  BY <1>1 DEF CycleRec
<1> QED BY <1>1, <1>2, <1>3 DEF CyclesTyped, CycleRec

LEMMA StepsAre ==
    /\ {"setup", "deposit", "orders", "market", "match", "done", "failed"} \subseteq Steps
    /\ Working \subseteq Steps
BY DEF Steps, Setup, Working

\* Counts and commitments only grow.
LEMMA Grow ==
    IInv /\ [Next]_vars =>
        /\ \A m \in Markets : matchCount'[m] >= matchCount[m]
        /\ \A id \in MatchIds : committed[id] \subseteq committed'[id]
<1> SUFFICES ASSUME IInv, [Next]_vars
             PROVE  /\ \A m \in Markets : matchCount'[m] >= matchCount[m]
                    /\ \A id \in MatchIds : committed[id] \subseteq committed'[id]
    OBVIOUS
<1>0. /\ matchCount \in [Markets -> Nat] /\ committed \in [MatchIds -> SUBSET Outputs]
      /\ BlankAccounts
  BY CoreAssumption DEF IInv, TypeOK
<1>1. CASE UNCHANGED <<matchCount, committed>>
  BY <1>0, <1>1
<1>2. CASE OrderStep
  <2>1. ASSUME NEW m \in Markets, NEW k \in Keepers, InitializeMarket(m, k)
        PROVE  UNCHANGED <<matchCount, committed>>
    BY <1>0, <2>1 DEF InitializeMarket, BlankAccounts
  <2> QED BY <1>1, <1>2, <2>1 DEF OrderStep, SubmitOrder, CancelOrder
<1>3. CASE ApprovalStep
  BY <1>1, <1>3 DEF ApprovalStep, ApproveBtcSettlement, ConsumeBtcApproval, marketVars
<1>4. CASE MatchStep
  <2>1. ASSUME NEW m \in Markets, NEW i \in 1..MaxMatches, NEW a \in Orders, NEW b \in Orders,
               NEW ca \in Cts, NEW cb \in Cts, NEW s \in Keepers, TryMatch(m, i, a, b, ca, cb, s)
        PROVE  /\ \A x \in Markets : matchCount'[x] >= matchCount[x]
               /\ \A id \in MatchIds : committed[id] \subseteq committed'[id]
    BY <1>0, <2>1 DEF TryMatch
  <2>2. ASSUME NEW id \in MatchIds, NEW out \in Outputs, ExecutorCommit(id, out)
        PROVE  /\ \A x \in Markets : matchCount'[x] >= matchCount[x]
               /\ \A y \in MatchIds : committed[y] \subseteq committed'[y]
    BY <1>0, <2>2 DEF ExecutorCommit, marketVars
  <2>3. CASE \E id \in MatchIds, s \in Keepers : RequestDecryption(id, s)
    BY <1>1, <2>3 DEF RequestDecryption, marketVars
  <2>4. CASE \E id \in MatchIds, n \in Fills, sellerIsA \in BOOLEAN, s \in Keepers :
                 FinalizeDecryption(id, n, sellerIsA, s)
    BY <1>1, <2>4 DEF FinalizeDecryption
  <2> QED BY <1>4, <2>1, <2>2, <2>3, <2>4 DEF MatchStep
<1>5. CASE SettleStep
  BY <1>1, <1>5 DEF SettleStep, FinalizeSettlement, FailSettlement, marketVars
<1>6. CASE Tick \/ UNCHANGED vars
  BY <1>1, <1>6 DEF Tick, vars, marketVars
<1> QED BY <1>2, <1>3, <1>4, <1>5, <1>6 DEF Next

\* try_match, as the cycles see it.
LEMMA MatchEffect ==
    ASSUME CycleIInv, NEW c \in Cycles, CallMatch(c)
    PROVE  /\ Next /\ MatchId(c) \in MatchIds
           /\ cyc[c].mid = matchCount[Market(c)] + 1
           /\ matchCount'[Market(c)] = cyc[c].mid
           /\ intent'[MatchId(c)].open
           /\ intent'[MatchId(c)].a = Pair[c][1] /\ intent'[MatchId(c)].b = Pair[c][2]
           /\ \A id \in MatchIds : id # MatchId(c) => intent'[id] = intent[id]
<1> DEFINE a == Pair[c][1]
           b == Pair[c][2]
<1>1. /\ a \in Orders /\ b \in Orders /\ Market(c) \in Markets /\ Self \in Keepers
      /\ cyc[c].mid \in 1..MaxMatches
  BY PairOrders, CycleAssumption DEF CallMatch
<1>2. TryMatch(Market(c), cyc[c].mid, a, b, cyc[c].cts[1], cyc[c].cts[2], Self)
  BY DEF CallMatch
<1>3. cyc[c].cts[1] \in Cts /\ cyc[c].cts[2] \in Cts
  BY <1>1, <1>2 DEF TryMatch, CiphertextsMatch, CycleIInv, OrdersReal
<1>4. Next
  BY <1>1, <1>2, <1>3 DEF Next, MatchStep
<1>5. MatchId(c) \in MatchIds
  BY <1>1 DEF MatchId, MatchIds
<1> QED BY <1>1, <1>2, <1>4, <1>5 DEF TryMatch, MatchId, CycleIInv, IInv, TypeOK

LEMMA OwnId ==
    ASSUME CycleIInv, NEW c \in Cycles, Owns(c)
    PROVE  MatchId(c) \in MatchIds /\ MatchId(c)[1] \in Markets
           /\ MatchId(c)[2] <= matchCount[Market(c)]
<1>1. cyc[c].mid \in 1..matchCount[Market(c)] /\ Market(c) \in Markets
  BY PairOrders DEF CycleIInv, Mine
<1>2. matchCount[Market(c)] \in 0..MaxMatches
  BY <1>1 DEF CycleIInv, IInv, TypeOK
<1>3. cyc[c].mid \in 1..MaxMatches
  BY <1>1, <1>2, CoreAssumption
<1> QED BY <1>1, <1>3 DEF MatchId, MatchIds

\* request_decryption.
LEMMA RequestEffect ==
    ASSUME CycleIInv, NEW c \in Cycles, Owns(c), CallRequest(c)
    PROVE  /\ Next
           /\ UNCHANGED <<matchCount, committed>>
           /\ intent'[MatchId(c)] = [intent[MatchId(c)] EXCEPT !.snapshot = committed[MatchId(c)]]
           /\ \A id \in MatchIds : id # MatchId(c) => intent'[id] = intent[id]
<1>1. MatchId(c) \in MatchIds /\ Self \in Keepers
  BY OwnId, CycleAssumption
<1>2. Next
  BY <1>1 DEF CallRequest, Next, MatchStep
<1> QED BY <1>1, <1>2 DEF CallRequest, RequestDecryption, CycleIInv, IInv, TypeOK, marketVars

\* finalize_decryption.
LEMMA FinalEffect ==
    ASSUME CycleIInv, NEW c \in Cycles, Owns(c), cyc[c].fill \in Fills, CallFinalize(c)
    PROVE  /\ Next
           /\ UNCHANGED <<matchCount, committed>>
           /\ \A id \in MatchIds : id # MatchId(c) => intent'[id] = intent[id]
<1>1. MatchId(c) \in MatchIds /\ Self \in Keepers
  BY OwnId, CycleAssumption
<1>2. cyc[c].sellerIsA \in BOOLEAN
  BY DEF CycleIInv, CyclesTyped, CycleRec
<1>3. Next
  BY <1>1, <1>2 DEF CallFinalize, Next, MatchStep
<1> QED BY <1>1, <1>3 DEF CallFinalize, FinalizeDecryption, CycleIInv, IInv, TypeOK

-----------------------------------------------------------------------------
(* What a step leaves alone *)

Still(d) ==
    /\ cyc'[d] = cyc[d]
    /\ \A msg \in sent' : msg.cycle = d => msg \in sent
    /\ Owns(d) => intent'[MatchId(d)] = intent[MatchId(d)]

Keeps(d) == Owns(d)' => Owns(d) /\ cyc'[d].mid = cyc[d].mid

LEMMA Framed ==
    ASSUME CycleIInv, IInv', [Next]_vars, deposited => deposited',
           NEW d \in Cycles, Still(d)
    PROVE  Mine(d)' /\ Keeps(d)
<1>1. Owns(d)' => Owns(d)
  BY DEF Still, Owns, Left
<1>2. MatchId(d)' = MatchId(d) /\ Market(d) \in Markets
  BY PairOrders DEF Still, MatchId, Market
<1>3. Mine(d)
  BY DEF CycleIInv
<1>4. matchCount'[Market(d)] >= matchCount[Market(d)]
  BY <1>2, Grow DEF CycleIInv
<1>5. /\ matchCount[Market(d)] \in Nat /\ matchCount'[Market(d)] \in Nat
  BY <1>2 DEF CycleIInv, IInv, TypeOK
<1>6. Owns(d)' => cyc'[d].mid \in 1..matchCount'[Market(d)]
  BY <1>1, <1>3, <1>4, <1>5 DEF Mine, Still
<1>7. ASSUME cyc'[d].pc \in {"request", "decrypt", "finalize"}
      PROVE  committed'[MatchId(d)] = Outputs
  <2>1. cyc[d].pc \in {"request", "decrypt", "finalize"}
    BY <1>7 DEF Still
  <2>2. Owns(d)
    BY <2>1 DEF Owns, Working
  <2>3. MatchId(d) \in MatchIds
    BY <2>2, OwnId
  <2>4. committed[MatchId(d)] = Outputs
    BY <1>3, <2>1 DEF Mine
  <2>5. committed'[MatchId(d)] \subseteq Outputs
    BY <2>3 DEF IInv, TypeOK
  <2> QED BY <2>3, <2>4, <2>5, Grow DEF CycleIInv
<1>8. ASSUME cyc'[d].pc \in Working
      PROVE  intent'[MatchId(d)] = intent[MatchId(d)] /\ cyc[d].pc \in Working
  BY <1>8 DEF Still, Owns
<1>9. /\ cyc'[d].pc \in Working => /\ intent'[MatchId(d)].open
                                   /\ intent'[MatchId(d)].a = Pair[d][1]
                                   /\ intent'[MatchId(d)].b = Pair[d][2]
      /\ cyc'[d].pc \in {"decrypt", "finalize"} => intent'[MatchId(d)].snapshot = Outputs
  BY <1>3, <1>8 DEF Mine, Still, Working
<1>10. /\ cyc'[d].pc = "finalize" \/ Left(d, "finalize")' => cyc'[d].fill \in Fills
       /\ \A msg \in sent' : msg.cycle = d => cyc'[d].pc = "failed"
       /\ \A x, y \in sent' : x.cycle = d /\ y.cycle = d => x = y
  BY <1>3 DEF Mine, Still, Left
<1>11. /\ cyc'[d].pc \in Working \cup {"match", "done"} => cyc'[d].mid # 0
       /\ cyc'[d].pc \in Working \cup {"orders", "market", "match", "done"} => deposited'
  BY <1>3 DEF Mine, Still
<1>12. Mine(d)'
  <2>1. Market(d)' = Market(d)
    BY DEF Market
  <2> QED BY <1>2, <1>6, <1>7, <1>9, <1>10, <1>11, <2>1 DEF Mine
<1> QED BY <1>1, <1>12 DEF Keeps, Still

\* What is left to show of a step: the cycle that took it keeps its part, and
\* any id it comes to own is the next one.
LEMMA Together ==
    ASSUME CycleIInv, [Next]_vars, CyclesTyped', \A d \in Cycles : Mine(d)', NEW c,
           \A d \in Cycles : Keeps(d) \/ (d = c /\ cyc'[d].mid = matchCount[Market(d)] + 1)
    PROVE  CycleIInv'
<1>1. IInv'
  BY InvStep DEF CycleIInv
<1>2. OrdersReal'
  <2>1. IdentityKept
    BY KeptStep DEF CycleIInv, IInv, MatchInv
  <2> QED BY <2>1 DEF IdentityKept, OrdersReal, CycleIInv
<1>3. ASSUME NEW d \in Cycles, NEW e \in Cycles, d # e, Owns(d)', Owns(e)'
      PROVE  MatchId(d)' # MatchId(e)'
  <2>1. CASE Keeps(d) /\ Keeps(e)
    BY <1>3, <2>1 DEF Keeps, CycleIInv, Apart, MatchId, Market
  <2> DEFINE Fresh(x, y) == /\ cyc'[x].mid = matchCount[Market(x)] + 1
                            /\ Owns(y) /\ cyc'[y].mid = cyc[y].mid
  <2>2. ASSUME NEW x \in Cycles, NEW y \in Cycles, Fresh(x, y)
        PROVE  MatchId(x)' # MatchId(y)'
    <3>1. /\ cyc[y].mid <= matchCount[Market(y)] /\ cyc[y].mid \in Int
          /\ matchCount[Market(y)] \in Int
      BY <2>2, PairOrders DEF CycleIInv, Mine, IInv, TypeOK
    <3> QED BY <2>2, <3>1 DEF MatchId, Market
  <2> QED BY <1>3, <2>1, <2>2 DEF Keeps
<1> QED BY <1>1, <1>2, <1>3 DEF CycleIInv, Apart

-----------------------------------------------------------------------------
(* Steps of a cycle that leave the program alone *)

LEMMA QuietStep ==
    ASSUME CycleIInv, NEW c \in Cycles, UNCHANGED vars,
           \A d \in Cycles : d # c => cyc'[d] = cyc[d],
           \A msg \in sent' : msg.cycle # c => msg \in sent,
           deposited => deposited', CyclesTyped', Mine(c)', Keeps(c)
    PROVE  CycleIInv'
<1>1. [Next]_vars /\ IInv'
  BY InvStep DEF CycleIInv
<1>2. ASSUME NEW d \in Cycles, d # c
      PROVE  Still(d)
  BY <1>2 DEF Still, vars
<1>3. \A d \in Cycles : d # c => Mine(d)' /\ Keeps(d)
  BY <1>1, <1>2, Framed
<1> QED BY <1>1, <1>3, Together

\* An exception, after which nothing of the cycle is left.
LEMMA ThrowStep ==
    ASSUME CycleIInv, NEW c \in Cycles, cyc[c].pc # "failed", Throw(c),
           UNCHANGED <<vars, deposited, sent>>, faults' \in 0..MaxFaults
    PROVE  CycleIInv'
<1>1. /\ cyc' \in [Cycles -> CycleRec] /\ cyc'[c].pc = "failed"
      /\ \A d \in Cycles : d # c => cyc'[d] = cyc[d]
  BY GotoEffect, StepsAre DEF Throw, CycleIInv
<1>2. \A msg \in sent : msg.cycle # c
  BY DEF CycleIInv, Mine
<1>3. ~ Owns(c)'
  BY <1>1, <1>2 DEF Owns, Left, Working
<1>4. Mine(c)'
  BY <1>1, <1>2, <1>3 DEF Mine, Left, Working
<1>5. CyclesTyped'
  BY <1>1 DEF CycleIInv, CyclesTyped
<1> QED BY <1>1, <1>3, <1>4, <1>5, QuietStep DEF Keeps

LEMMA FaultType ==
    ASSUME CycleIInv, Fault \/ UNCHANGED faults
    PROVE  faults' \in 0..MaxFaults
BY CycleAssumption DEF Fault, CycleIInv, CyclesTyped

\* A transaction nobody waits for any more: what the cycle owned it owns still.
LEMMA GiveUpStep ==
    ASSUME CycleIInv, NEW c \in Cycles, cyc[c].pc # "failed",
           NEW kind \in {"deposit", "match", "request", "finalize"}, GiveUp(c, kind),
           kind \in {"request", "finalize"} => Owns(c),
           kind = "finalize" => cyc[c].fill \in Fills
    PROVE  CycleIInv'
<1> DEFINE new == [kind |-> kind, cycle |-> c]
<1>1. /\ cyc' \in [Cycles -> CycleRec] /\ cyc'[c].pc = "failed"
      /\ cyc'[c].mid = cyc[c].mid /\ cyc'[c].fill = cyc[c].fill
      /\ \A d \in Cycles : d # c => cyc'[d] = cyc[d]
  BY GotoEffect, StepsAre DEF GiveUp, Throw, CycleIInv
<1>2. \A msg \in sent : msg.cycle # c
  BY DEF CycleIInv, Mine
<1>3. sent' = sent \cup {new} /\ UNCHANGED <<vars, deposited>>
  BY DEF GiveUp
<1>4. \A k \in {"request", "finalize"} : Left(c, k)' => kind = k
  BY <1>2, <1>3 DEF Left
<1>5. Owns(c)' => Owns(c)
  BY <1>1, <1>4 DEF Owns, Working
<1>6. Owns(c) => cyc[c].mid \in 1..matchCount[Market(c)]
  BY DEF CycleIInv, Mine
<1>7. Mine(c)'
  <2>1. Market(c)' = Market(c) /\ matchCount' = matchCount
    BY <1>3 DEF Market, vars, marketVars
  <2>2. \A msg \in sent' : msg.cycle = c => msg = new
    BY <1>2, <1>3
  <2> QED BY <1>1, <1>4, <1>5, <1>6, <2>1, <2>2 DEF Mine, Working
<1>8. CyclesTyped'
  <2>1. new \in Msgs
    BY DEF Msgs
  <2> QED BY <1>1, <1>3, <2>1, FaultType DEF CycleIInv, CyclesTyped, GiveUp
<1>9. \A msg \in sent' : msg.cycle # c => msg \in sent
  BY <1>3
<1> QED BY <1>1, <1>3, <1>5, <1>7, <1>8, <1>9, QuietStep DEF Keeps

\* From one await to the next.
LEMMA GotoStep ==
    ASSUME CycleIInv, NEW c \in Cycles, cyc[c].pc # "failed", NEW pc \in Steps, Goto(c, pc),
           UNCHANGED <<vars, sent, faults>>, deposited' \in BOOLEAN, deposited => deposited',
           pc \in Working \cup {"match", "done"} => cyc[c].pc \in Working,
           pc \in {"orders", "market"} => deposited',
           pc \in {"request", "decrypt", "finalize"} => committed[MatchId(c)] = Outputs,
           pc \in {"decrypt", "finalize"} => intent[MatchId(c)].snapshot = Outputs,
           pc # "finalize"
    PROVE  CycleIInv'
<1>1. /\ cyc' \in [Cycles -> CycleRec] /\ cyc'[c].pc = pc /\ cyc'[c].mid = cyc[c].mid
      /\ \A d \in Cycles : d # c => cyc'[d] = cyc[d]
  BY GotoEffect DEF CycleIInv
<1>2. \A msg \in sent : msg.cycle # c
  BY DEF CycleIInv, Mine
<1>3. Owns(c)' => Owns(c)
  BY <1>1, <1>2 DEF Owns, Left
<1>4. Mine(c)'
  <2>1. Market(c)' = Market(c) /\ MatchId(c)' = MatchId(c)
        /\ UNCHANGED <<matchCount, intent, committed>>
    BY <1>1 DEF Market, MatchId, vars, marketVars
  <2>2. Mine(c)
    BY DEF CycleIInv
  <2>3. ~ Left(c, "finalize")'
    BY <1>2 DEF Left
  <2> QED BY <1>1, <1>2, <1>3, <2>1, <2>2, <2>3 DEF Mine
<1>5. CyclesTyped'
  BY <1>1 DEF CycleIInv, CyclesTyped
<1> QED BY <1>1, <1>3, <1>4, <1>5, QuietStep DEF Keeps

LEMMA ReadDepositStep == ASSUME CycleIInv, NEW c \in Cycles, ReadDeposit(c) PROVE CycleIInv'
<1>1. CASE Goto(c, IF DepositExists THEN "orders" ELSE "deposit") /\ UNCHANGED faults
  <2> DEFINE pc == IF DepositExists THEN "orders" ELSE "deposit"
  <2>1. /\ Goto(c, pc) /\ pc \in Steps /\ pc \in {"orders", "deposit"}
        /\ pc = "orders" => deposited' /\ deposited' \in BOOLEAN
    BY <1>1, StepsAre DEF DepositExists, ReadDeposit
  <2>2. UNCHANGED <<vars, sent, faults, deposited>> /\ cyc[c].pc = "setup" /\ deposited' \in BOOLEAN
    BY <1>1 DEF ReadDeposit, CycleIInv, CyclesTyped
  <2> HIDE DEF pc
  <2> QED BY <2>1, <2>2, GotoStep DEF Working
<1>2. CASE Fault /\ Throw(c)
  BY <1>2, ThrowStep, FaultType DEF ReadDeposit
<1> QED BY <1>1, <1>2 DEF ReadDeposit

LEMMA CreateDepositStep == ASSUME CycleIInv, NEW c \in Cycles, CreateDeposit(c) PROVE CycleIInv'
<1>1. CASE deposited' = TRUE /\ Goto(c, "orders") /\ UNCHANGED <<vars, sent, faults>>
  BY <1>1, GotoStep, StepsAre DEF CreateDeposit, Working
<1>2. CASE Throw(c) /\ UNCHANGED <<vars, deposited, sent, faults>>
  BY <1>2, ThrowStep, FaultType DEF CreateDeposit
<1>3. CASE GiveUp(c, "deposit")
  BY <1>3, GiveUpStep DEF CreateDeposit
<1> QED BY <1>1, <1>2, <1>3 DEF CreateDeposit

LEMMA ReadOrdersStep == ASSUME CycleIInv, NEW c \in Cycles, ReadOrders(c) PROVE CycleIInv'
<1>0. UNCHANGED <<vars, deposited, sent>> /\ cyc[c].pc = "orders"
  BY DEF ReadOrders
<1>1. CASE /\ cyc' = [cyc EXCEPT ![c].pc = "market",
                         ![c].cts = <<order[Pair[c][1]].ct, order[Pair[c][2]].ct>>]
           /\ UNCHANGED faults
  <2>1. cyc[c] \in CycleRec /\ Mine(c)
    BY DEF CycleIInv, CyclesTyped
  <2>2. order[Pair[c][1]].ct \in Cts /\ order[Pair[c][2]].ct \in Cts
    BY PairOrders DEF CycleIInv, OrdersReal
  <2>3. /\ cyc' \in [Cycles -> CycleRec] /\ cyc'[c].pc = "market"
        /\ \A d \in Cycles : d # c => cyc'[d] = cyc[d]
    BY <1>1, <2>1, <2>2, StepsAre DEF CycleIInv, CyclesTyped, CycleRec
  <2>4. \A msg \in sent : msg.cycle # c
    BY <1>0, <2>1 DEF Mine
  <2>5. ~ Owns(c)'
    BY <1>0, <2>3, <2>4 DEF Owns, Left, Working
  <2>6. Mine(c)'
    BY <1>0, <2>1, <2>3, <2>4, <2>5 DEF Mine, Left, Working
  <2>7. CyclesTyped'
    BY <1>0, <1>1, <2>3 DEF CycleIInv, CyclesTyped
  <2> QED BY <1>0, <2>3, <2>5, <2>6, <2>7, QuietStep DEF Keeps
<1>2. CASE Fault /\ Throw(c)
  BY <1>0, <1>2, ThrowStep, FaultType
<1> QED BY <1>1, <1>2 DEF ReadOrders

LEMMA ReadMarketStep == ASSUME CycleIInv, NEW c \in Cycles, ReadMarket(c) PROVE CycleIInv'
<1>0. UNCHANGED <<vars, deposited, sent>> /\ cyc[c].pc = "market"
  BY DEF ReadMarket
<1>1. ASSUME NEW t \in KeyTags,
             cyc' = [cyc EXCEPT ![c].pc = "match", ![c].tagged = t,
                                ![c].mid = NextMatch(Market(c))],
             UNCHANGED faults
      PROVE  CycleIInv'
  <2>1. cyc[c] \in CycleRec /\ Mine(c) /\ t \in BOOLEAN
    BY CycleAssumption DEF CycleIInv, CyclesTyped
  <2>2. NextMatch(Market(c)) \in 1..(MaxMatches + 1)
    BY PairOrders, CoreAssumption DEF NextMatch, CycleIInv, IInv, TypeOK
  <2>3. /\ cyc' \in [Cycles -> CycleRec] /\ cyc'[c].pc = "match" /\ cyc'[c].mid # 0
        /\ \A d \in Cycles : d # c => cyc'[d] = cyc[d]
    <3> DEFINE mid == NextMatch(Market(c))
               new == [cyc[c] EXCEPT !.pc = "match", !.tagged = t, !.mid = mid]
    <3>1. cyc' = [cyc EXCEPT ![c] = new]
      BY <1>1
    <3>2. mid \in 0..(MaxMatches + 1) /\ mid # 0
      BY <2>2, CoreAssumption
    <3> HIDE DEF mid
    <3>3. new \in CycleRec /\ new.pc = "match" /\ new.mid = mid
      BY <2>1, <3>2, StepsAre DEF CycleRec
    <3> HIDE DEF new
    <3> QED BY <3>1, <3>2, <3>3 DEF CycleIInv, CyclesTyped
  <2>4. \A msg \in sent : msg.cycle # c
    BY <1>0, <2>1 DEF Mine
  <2>5. ~ Owns(c)'
    BY <1>0, <2>3, <2>4 DEF Owns, Left, Working
  <2>6. Mine(c)'
    BY <1>0, <2>1, <2>3, <2>4, <2>5 DEF Mine, Left, Working
  <2>7. CyclesTyped'
    BY <1>0, <1>1, <2>3 DEF CycleIInv, CyclesTyped
  <2> QED BY <1>0, <2>3, <2>5, <2>6, <2>7, QuietStep DEF Keeps
<1>2. CASE Fault /\ Throw(c)
  BY <1>0, <1>2, ThrowStep, FaultType
<1> QED BY <1>1, <1>2 DEF ReadMarket

LEMMA AwaitStep == ASSUME CycleIInv, NEW c \in Cycles, AwaitExecutor(c) PROVE CycleIInv'
<1>0. UNCHANGED <<vars, deposited, sent>> /\ cyc[c].pc = "await"
  BY DEF AwaitExecutor
<1>1. CASE Verified(c) /\ Goto(c, "request") /\ UNCHANGED faults
  <2>1. deposited' \in BOOLEAN
    BY <1>0 DEF CycleIInv, CyclesTyped
  <2> QED BY <1>0, <1>1, <2>1, GotoStep, StepsAre DEF Verified, Working
<1>2. CASE Throw(c) /\ (Fault \/ UNCHANGED faults)
  BY <1>0, <1>2, ThrowStep, FaultType
<1> QED BY <1>1, <1>2 DEF AwaitExecutor

LEMMA DecryptStep == ASSUME CycleIInv, NEW c \in Cycles, Decrypt(c) PROVE CycleIInv'
<1>0. UNCHANGED <<vars, deposited, sent, faults>> /\ cyc[c].pc = "decrypt"
  BY DEF Decrypt
<1>1. ASSUME NEW n \in Fills, NEW sellerIsA \in BOOLEAN,
             cyc' = [cyc EXCEPT ![c].pc = "finalize", ![c].fill = n, ![c].sellerIsA = sellerIsA]
      PROVE  CycleIInv'
  <2>1. cyc[c] \in CycleRec /\ Mine(c)
    BY DEF CycleIInv, CyclesTyped
  <2>2. /\ cyc' \in [Cycles -> CycleRec] /\ cyc'[c].pc = "finalize" /\ cyc'[c].fill \in Fills
        /\ cyc'[c].mid = cyc[c].mid
        /\ \A d \in Cycles : d # c => cyc'[d] = cyc[d]
    <3> DEFINE new == [cyc[c] EXCEPT !.pc = "finalize", !.fill = n, !.sellerIsA = sellerIsA]
    <3>1. cyc' = [cyc EXCEPT ![c] = new]
      BY <1>1
    <3>2. new \in CycleRec /\ new.pc = "finalize" /\ new.fill \in Fills /\ new.mid = cyc[c].mid
      BY <2>1, StepsAre DEF CycleRec, Working
    <3> HIDE DEF new
    <3> QED BY <3>1, <3>2 DEF CycleIInv, CyclesTyped
  <2>3. \A msg \in sent : msg.cycle # c
    BY <1>0, <2>1 DEF Mine
  <2>4. Owns(c)
    BY <1>0 DEF Owns, Working
  <2>5. Mine(c)'
    <3>1. Market(c)' = Market(c) /\ MatchId(c)' = MatchId(c)
          /\ UNCHANGED <<matchCount, intent, committed>>
      BY <1>0, <2>2 DEF Market, MatchId, vars, marketVars
    <3> QED BY <1>0, <2>1, <2>2, <2>3, <2>4, <3>1 DEF Mine, Left, Working
  <2>6. CyclesTyped'
    BY <1>0, <2>2 DEF CycleIInv, CyclesTyped
  <2> QED BY <1>0, <2>2, <2>4, <2>5, <2>6, QuietStep DEF Keeps
<1>2. CASE Throw(c)
  BY <1>0, <1>2, ThrowStep, FaultType
<1> QED BY <1>0, <1>1, <1>2 DEF Decrypt

-----------------------------------------------------------------------------
(* Steps of a cycle, and of the transactions it left behind, that are       *)
(* instructions of the program                                              *)

\* An instruction about the intent of c, or about the next one, leaves the
\* other cycles' alone.
LEMMA OthersStill ==
    ASSUME CycleIInv, NEW c \in Cycles, Owns(c) \/ cyc[c].mid = matchCount[Market(c)] + 1,
           \A id \in MatchIds : id # MatchId(c) => intent'[id] = intent[id],
           \A d \in Cycles : d # c => cyc'[d] = cyc[d],
           \A msg \in sent' : msg.cycle # c => msg \in sent
    PROVE  \A d \in Cycles : d # c => Still(d)
<1> SUFFICES ASSUME NEW d \in Cycles, d # c PROVE Still(d)
    OBVIOUS
<1>1. ASSUME Owns(d) PROVE MatchId(d) \in MatchIds /\ MatchId(d) # MatchId(c)
  <2>1. CASE Owns(c)
    BY <1>1, <2>1, OwnId DEF CycleIInv, Apart
  <2>2. CASE cyc[c].mid = matchCount[Market(c)] + 1
    <3>1. /\ cyc[d].mid <= matchCount[Market(d)] /\ cyc[d].mid \in Int
          /\ matchCount[Market(d)] \in Int
      BY <1>1, PairOrders DEF CycleIInv, Mine, IInv, TypeOK
    <3> QED BY <1>1, <2>2, <3>1, OwnId DEF MatchId
  <2> QED BY <2>1, <2>2
<1> QED BY <1>1 DEF Still

LEMMA SendMatchStep == ASSUME CycleIInv, NEW c \in Cycles, SendMatch(c) PROVE CycleIInv'
<1>0. cyc[c].pc = "match"
  BY DEF SendMatch
<1>1. CASE CallMatch(c) /\ Goto(c, "await") /\ UNCHANGED <<deposited, sent, faults>>
  <2>1. /\ cyc' \in [Cycles -> CycleRec] /\ cyc'[c].pc = "await" /\ cyc'[c].mid = cyc[c].mid
        /\ \A d \in Cycles : d # c => cyc'[d] = cyc[d]
    BY <1>1, GotoEffect, StepsAre DEF CycleIInv, Working
  <2>2. /\ Next /\ cyc[c].mid = matchCount[Market(c)] + 1
        /\ matchCount'[Market(c)] = cyc[c].mid
        /\ intent'[MatchId(c)].open
        /\ intent'[MatchId(c)].a = Pair[c][1] /\ intent'[MatchId(c)].b = Pair[c][2]
        /\ \A id \in MatchIds : id # MatchId(c) => intent'[id] = intent[id]
    BY <1>1, MatchEffect
  <2>3. IInv'
    BY <2>2, InvStep DEF CycleIInv
  <2>4. \A d \in Cycles : d # c => Still(d)
    BY <1>1, <2>1, <2>2, OthersStill
  <2>5. Mine(c)'
    <3>1. \A msg \in sent : msg.cycle # c
      BY <1>0 DEF CycleIInv, Mine
    <3>2. Market(c)' = Market(c) /\ MatchId(c)' = MatchId(c)
      BY <2>1 DEF Market, MatchId
    <3>3. cyc[c].mid \in 1..matchCount'[Market(c)] /\ cyc[c].mid # 0
      BY <1>1, <2>2, CoreAssumption DEF CallMatch
    <3>4. deposited
      BY <1>0 DEF CycleIInv, Mine
    <3> QED BY <1>1, <2>1, <2>2, <3>1, <3>2, <3>3, <3>4 DEF Mine, Left
  <2>6. CyclesTyped'
    BY <1>1, <2>1 DEF CycleIInv, CyclesTyped
  <2>7. \A d \in Cycles : d # c => Mine(d)' /\ Keeps(d)
    BY <1>1, <2>2, <2>3, <2>4, Framed
  <2>8. cyc'[c].mid = matchCount[Market(c)] + 1
    BY <2>1, <2>2
  <2> QED BY <2>2, <2>5, <2>6, <2>7, <2>8, Together
<1>2. CASE TurnedDown(c) /\ UNCHANGED <<vars, deposited, sent, faults>>
  BY <1>0, <1>2, ThrowStep, FaultType DEF TurnedDown
<1>3. CASE GiveUp(c, "match")
  BY <1>0, <1>3, GiveUpStep
<1> QED BY <1>1, <1>2, <1>3 DEF SendMatch

\* The cycle's part after an instruction about the intent it owns.
LEMMA OwnStep ==
    ASSUME CycleIInv, NEW c \in Cycles, Owns(c), Next,
           \A id \in MatchIds : id # MatchId(c) => intent'[id] = intent[id],
           \A d \in Cycles : d # c => cyc'[d] = cyc[d],
           \A msg \in sent' : msg.cycle # c => msg \in sent,
           deposited => deposited', CyclesTyped', Mine(c)', cyc'[c].mid = cyc[c].mid
    PROVE  CycleIInv'
<1>1. IInv'
  BY InvStep DEF CycleIInv
<1>2. \A d \in Cycles : d # c => Still(d)
  BY OthersStill
<1>3. \A d \in Cycles : d # c => Mine(d)' /\ Keeps(d)
  BY <1>1, <1>2, Framed
<1> QED BY <1>3, Together DEF Keeps

LEMMA SendRequestStep == ASSUME CycleIInv, NEW c \in Cycles, SendRequest(c) PROVE CycleIInv'
<1>0. cyc[c].pc = "request" /\ Owns(c) /\ Mine(c)
  BY DEF SendRequest, Owns, Working, CycleIInv
<1>1. CASE CallRequest(c) /\ Goto(c, "decrypt") /\ UNCHANGED <<deposited, sent, faults>>
  <2>1. /\ cyc' \in [Cycles -> CycleRec] /\ cyc'[c].pc = "decrypt" /\ cyc'[c].mid = cyc[c].mid
        /\ \A d \in Cycles : d # c => cyc'[d] = cyc[d]
    BY <1>1, GotoEffect, StepsAre DEF CycleIInv, Working
  <2>2. /\ Next /\ UNCHANGED <<matchCount, committed>>
        /\ intent'[MatchId(c)] = [intent[MatchId(c)] EXCEPT !.snapshot = committed[MatchId(c)]]
        /\ \A id \in MatchIds : id # MatchId(c) => intent'[id] = intent[id]
    BY <1>0, <1>1, RequestEffect
  <2>3. /\ intent'[MatchId(c)].open = intent[MatchId(c)].open
        /\ intent'[MatchId(c)].a = intent[MatchId(c)].a
        /\ intent'[MatchId(c)].b = intent[MatchId(c)].b
        /\ intent'[MatchId(c)].snapshot = committed[MatchId(c)]
    <3>1. intent[MatchId(c)] \in IntentRec
      BY <1>0, OwnId DEF CycleIInv, IInv, TypeOK
    <3> QED BY <2>2, <3>1 DEF IntentRec
  <2>4. Mine(c)'
    <3>1. \A msg \in sent : msg.cycle # c
      BY <1>0 DEF Mine
    <3>2. Market(c)' = Market(c) /\ MatchId(c)' = MatchId(c)
      BY <2>1 DEF Market, MatchId
    <3> QED BY <1>0, <1>1, <2>1, <2>2, <2>3, <3>1, <3>2 DEF Mine, Left, Working
  <2>5. CyclesTyped'
    BY <1>1, <2>1 DEF CycleIInv, CyclesTyped
  <2> QED BY <1>0, <1>1, <2>1, <2>2, <2>4, <2>5, OwnStep
<1>2. CASE Throw(c) /\ UNCHANGED <<vars, deposited, sent, faults>>
  BY <1>0, <1>2, ThrowStep, FaultType
<1>3. CASE GiveUp(c, "request")
  BY <1>0, <1>3, GiveUpStep
<1> QED BY <1>1, <1>2, <1>3 DEF SendRequest

LEMMA SendFinalizeStep == ASSUME CycleIInv, NEW c \in Cycles, SendFinalize(c) PROVE CycleIInv'
<1>0. cyc[c].pc = "finalize" /\ Owns(c) /\ Mine(c) /\ cyc[c].fill \in Fills
  BY DEF SendFinalize, Owns, Working, CycleIInv, Mine
<1>1. CASE CallFinalize(c) /\ Goto(c, "done") /\ UNCHANGED <<deposited, sent, faults>>
  <2>1. /\ cyc' \in [Cycles -> CycleRec] /\ cyc'[c].pc = "done" /\ cyc'[c].mid = cyc[c].mid
        /\ \A d \in Cycles : d # c => cyc'[d] = cyc[d]
    BY <1>1, GotoEffect, StepsAre DEF CycleIInv
  <2>2. /\ Next /\ UNCHANGED <<matchCount, committed>>
        /\ \A id \in MatchIds : id # MatchId(c) => intent'[id] = intent[id]
    BY <1>0, <1>1, FinalEffect
  <2>3. Mine(c)'
    <3>1. \A msg \in sent : msg.cycle # c
      BY <1>0 DEF Mine
    <3>2. Market(c)' = Market(c)
      BY DEF Market
    <3> QED BY <1>0, <1>1, <2>1, <2>2, <3>1, <3>2 DEF Mine, Left, Working
  <2>4. CyclesTyped'
    BY <1>1, <2>1 DEF CycleIInv, CyclesTyped
  <2> QED BY <1>0, <1>1, <2>1, <2>2, <2>3, <2>4, OwnStep
<1>2. CASE Throw(c) /\ UNCHANGED <<vars, deposited, sent, faults>>
  BY <1>0, <1>2, ThrowStep, FaultType
<1>3. CASE GiveUp(c, "finalize")
  BY <1>0, <1>3, GiveUpStep
<1> QED BY <1>1, <1>2, <1>3 DEF SendFinalize

LEMMA LandStep == ASSUME CycleIInv, NEW msg \in sent, Land(msg) PROVE CycleIInv'
<1> DEFINE c == msg.cycle
<1>0. /\ c \in Cycles /\ msg = [kind |-> msg.kind, cycle |-> c] /\ Mine(c)
      /\ sent' = sent \ {msg} /\ UNCHANGED <<cyc, faults>>
  BY DEF Land, CycleIInv, CyclesTyped, Msgs
<1>1. cyc[c].pc = "failed" /\ \A x \in sent' : x.cycle # c
  BY <1>0 DEF Mine
<1>2. ~ Owns(c)'
  BY <1>0, <1>1 DEF Owns, Left, Working
<1>3. Mine(c)' /\ Keeps(c)
  BY <1>0, <1>1, <1>2 DEF Mine, Left, Keeps, Working
<1> DEFINE Fits == /\ [Next]_vars /\ deposited' \in BOOLEAN /\ (deposited => deposited')
                   /\ \A d \in Cycles : d # c => Still(d)
<1>4. ASSUME Fits PROVE CycleIInv'
  <2>1. [Next]_vars /\ IInv' /\ \A d \in Cycles : d # c => Still(d)
    BY <1>4, InvStep DEF CycleIInv
  <2>2. \A d \in Cycles : d # c => Mine(d)' /\ Keeps(d)
    BY <1>4, <2>1, Framed
  <2>3. CyclesTyped'
    BY <1>0, <1>4 DEF CycleIInv, CyclesTyped
  <2> QED BY <1>3, <2>1, <2>2, <2>3, Together
<1>5. ASSUME deposited' = TRUE, UNCHANGED vars PROVE Fits
  BY <1>0, <1>5 DEF Still, vars
<1>6. ASSUME UNCHANGED deposited, Next, Owns(c) \/ cyc[c].mid = matchCount[Market(c)] + 1,
             \A id \in MatchIds : id # MatchId(c) => intent'[id] = intent[id]
      PROVE  Fits
  <2>1. \A d \in Cycles : d # c => Still(d)
    BY <1>0, <1>6, OthersStill
  <2> QED BY <1>6, <2>1 DEF CycleIInv, CyclesTyped
<1>7. ASSUME CallMatch(c), UNCHANGED deposited PROVE Fits
  BY <1>0, <1>6, <1>7, MatchEffect
<1>8. ASSUME msg.kind = "request", CallRequest(c), UNCHANGED deposited PROVE Fits
  <2>1. Owns(c)
    BY <1>0, <1>8 DEF Owns, Left
  <2> QED BY <1>0, <1>6, <1>8, <2>1, RequestEffect
<1>9. ASSUME msg.kind = "finalize", CallFinalize(c), UNCHANGED deposited PROVE Fits
  <2>1. Owns(c) /\ cyc[c].fill \in Fills
    BY <1>0, <1>9 DEF Owns, Left, Mine
  <2> QED BY <1>0, <1>6, <1>9, <2>1, FinalEffect
<1>10. Fits
  <2> HIDE DEF Fits
  <2> QED BY <1>5, <1>7, <1>8, <1>9 DEF Land
<1> QED BY <1>4, <1>10

\* What the cycles and their intents do not notice.
LEMMA WorldStep ==
    ASSUME CycleIInv, [Next]_vars, UNCHANGED <<intent, cyc, deposited, faults>>, sent' \subseteq sent
    PROVE  CycleIInv'
<1>1. IInv' /\ \A d \in Cycles : Still(d)
  BY InvStep DEF CycleIInv, Still
<1>2. \A d \in Cycles : Mine(d)' /\ Keeps(d)
  BY <1>1, Framed
<1>3. CyclesTyped'
  BY DEF CycleIInv, CyclesTyped
<1> QED BY <1>2, <1>3, Together

LEMMA CycleInvStep == CycleIInv /\ [CycleNext]_matchVars => CycleIInv'
<1> SUFFICES ASSUME CycleIInv, [CycleNext]_matchVars PROVE CycleIInv'
    OBVIOUS
<1>1. ASSUME NEW c \in Cycles, Cycle(c) PROVE CycleIInv'
  BY <1>1, ReadDepositStep, CreateDepositStep, ReadOrdersStep, ReadMarketStep, SendMatchStep,
     AwaitStep, SendRequestStep, DecryptStep, SendFinalizeStep
  DEF Cycle
<1>2. ASSUME NEW msg \in sent, Land(msg) PROVE CycleIInv'
  BY <1>2, LandStep
<1>3. ASSUME NEW msg \in sent, Drop(msg) PROVE CycleIInv'
  BY <1>3, WorldStep DEF Drop, vars
<1>4. ASSUME NEW id \in MatchIds, NEW out \in Outputs, Executor(id, out) PROVE CycleIInv'
  <2>1. Next
    BY <1>4 DEF Executor, Next, MatchStep
  <2> QED BY <1>4, <2>1, WorldStep DEF Executor, ExecutorCommit, cycleVars
<1>5. ASSUME NEW o \in Orders, Withdraw(o) PROVE CycleIInv'
  <2>1. Next
    BY <1>5 DEF Withdraw, Next, OrderStep, CycleIInv, OrdersReal
  <2> QED BY <1>5, <2>1, WorldStep DEF Withdraw, CancelOrder, cycleVars
<1>6. CASE Clock
  BY <1>6, WorldStep DEF Clock, Tick, Next, cycleVars
<1>7. CASE UNCHANGED matchVars
  BY <1>7, WorldStep DEF matchVars, cycleVars, vars
<1> QED BY <1>1, <1>2, <1>3, <1>4, <1>5, <1>6, <1>7 DEF CycleNext

-----------------------------------------------------------------------------
(* The start *)

LEMMA LiveInit ==
    ASSUME NEW s \in Traders, NEW e \in Expiries, e > FirstSlot, LiveMarkets(s, e)
    PROVE  IInv /\ OrdersReal /\ \A m \in Markets : matchCount[m] = 0
<1> DEFINE last == CHOOSE n \in Nonces : \A x \in Nonces : x <= n
<1>1. PICK n \in 1..MaxActive : Nonces = 1..n
  BY CycleAssumption
<1>2. last \in Nonces /\ n \in Nat
  <2>1. n \in Nonces /\ (\A x \in Nonces : x <= n) /\ n \in Nat
    BY <1>1, CoreAssumption
  <2>2. \E y \in Nonces : \A x \in Nonces : x <= y
    BY <2>1
  <2> QED BY <2>1, <2>2, Zenon
<1>3. Cardinality(Nonces) = n
  BY <1>1, <1>2, FS_Interval
<1>4. /\ keeper = [m \in Markets |-> Self] /\ head = [m \in Markets |-> <<m, last>>]
      /\ matchCount = [m \in Markets |-> 0] /\ activeCount = [m \in Markets |-> n]
      /\ slot = FirstSlot
      /\ committed = [id \in MatchIds |-> {}] /\ intent = [id \in MatchIds |-> NoIntent]
      /\ record = [id \in MatchIds |-> NoRecord] /\ approval = [o \in Orders |-> NoApproval]
  BY <1>3 DEF LiveMarkets
<1> HIDE DEF last
<1>5. PICK d \in DWallets, c \in Cts :
          order = [o \in Orders |->
             [owner |-> s, dwallet |-> d, ct |-> c, expiry |-> e,
              next |-> IF o[2] = 1 THEN None ELSE <<o[1], o[2] - 1>>, status |-> "Active"]]
  BY DEF LiveMarkets
<1>6. order \in [Orders -> OrderRec]
  <2> SUFFICES ASSUME NEW o \in Orders PROVE order[o] \in OrderRec
      BY <1>5
  <2>1. (IF o[2] = 1 THEN None ELSE <<o[1], o[2] - 1>>) \in Orders \cup {None}
    BY <1>1, <1>2 DEF Orders
  <2> QED BY <1>5, <2>1 DEF OrderRec, OrderStatus
<1>7. TypeOK
  <2>1. head \in [Markets -> Orders \cup {None}]
    BY <1>2, <1>4 DEF Orders
  <2>2. /\ matchCount \in [Markets -> 0..MaxMatches] /\ activeCount \in [Markets -> 0..MaxActive]
        /\ slot \in Slots /\ keeper \in [Markets -> Keepers \cup {None}]
    BY <1>1, <1>4, CoreAssumption, CycleAssumption DEF Slots
  <2> QED BY <1>4, <1>6, <2>1, <2>2, BlankTyped DEF TypeOK
<1>8. BlankAccounts
  BY <1>4, CoreAssumption, CycleAssumption DEF BlankAccounts
<1>9. CountExact
  <2> SUFFICES ASSUME NEW m \in Markets PROVE activeCount[m] = Cardinality(Active(m))
      BY DEF CountExact
  <2>1. Active(m) = {m} \X Nonces
    BY <1>5 DEF Active, Orders
  <2>2. IsFiniteSet({m}) /\ Cardinality({m}) = 1
    BY FS_Singleton
  <2>3. Cardinality({m} \X Nonces) = Cardinality({m}) * Cardinality(Nonces)
    BY <2>2, CoreAssumption, FS_Product
  <2> QED BY <1>2, <1>3, <1>4, <2>1, <2>2, <2>3
<1>10. \A id \in MatchIds : id[2] > matchCount[id[1]] /\ id[2] \in Nat /\ matchCount[id[1]] = 0
  BY <1>4 DEF MatchIds
<1>11. MatchInv
  <2>1. \A o \in Orders : o # None
    BY CoreAssumption DEF Orders
  <2>2. \A id \in MatchIds : intent[id] = NoIntent /\ record[id] = NoRecord
    BY <1>4
  <2>3. \A id \in MatchIds : /\ ~ intent[id].open /\ record[id].status = "Absent"
                             /\ record[id].a = None /\ record[id].b = None
    BY <2>2 DEF NoIntent, NoRecord
  <2>4. \A id \in MatchIds : ~ id[2] <= matchCount[id[1]]
    BY <1>10
  <2>5. MatchExclusive
    BY <1>5, <2>1, <2>3 DEF MatchExclusive, Names
  <2> QED BY <2>3, <2>4, <2>5 DEF MatchInv, MatchLedger, MatchBinds
<1>12. SnapshotCommitted /\ RecordAfterCommit /\ ApprovalBinds
  BY <1>4 DEF SnapshotCommitted, RecordAfterCommit, ApprovalBinds, NoIntent, NoRecord, NoApproval
<1>13. OrdersReal
  BY <1>5 DEF OrdersReal
<1> QED BY <1>4, <1>7, <1>8, <1>9, <1>11, <1>12, <1>13 DEF IInv

LEMMA CycleInvInit == CycleInit => CycleIInv
<1> SUFFICES ASSUME CycleInit PROVE CycleIInv
    OBVIOUS
<1>1. IInv /\ OrdersReal
  BY LiveInit DEF CycleInit
<1>2. NewCycle \in CycleRec
  BY CoreAssumption, StepsAre DEF NewCycle, CycleRec
<1>3. CyclesTyped
  BY <1>2, CycleAssumption DEF CycleInit, CyclesTyped
<1>4. \A c \in Cycles : cyc[c].pc = "setup" /\ ~ Owns(c)
  BY DEF CycleInit, NewCycle, Owns, Left, Working
<1>5. \A c \in Cycles : Mine(c)
  BY <1>4 DEF CycleInit, Mine, Left, Working
<1> QED BY <1>1, <1>3, <1>4, <1>5 DEF CycleIInv, Apart

-----------------------------------------------------------------------------
(* Theorems *)

\* The program's invariant, and which match ids the cycles own, hold of any
\* number of racing cycles.
THEOREM CycleInvariance == CycleSpec => []CycleIInv
BY CycleInvInit, CycleInvStep, PTL DEF CycleSpec

\* Types; a cycle that got past ensureEncryptDeposit has the deposit account,
\* one that got past the market has a match id.
THEOREM CycleTypeCorrect == CycleSpec => []CycleTypeOK
<1>1. CycleIInv => CycleTypeOK
  <2> SUFFICES ASSUME CycleIInv PROVE CycleTypeOK
      OBVIOUS
  <2>1. TypeOK /\ CyclesTyped /\ \A c \in Cycles : Mine(c) /\ cyc[c] \in CycleRec
    BY DEF CycleIInv, IInv, CyclesTyped
  <2> QED BY <2>1 DEF CyclesTyped, CycleTypeOK, CycleRec, Mine
<1> QED BY <1>1, CycleInvariance, PTL

\* Racing cycles that got past try_match never work on one intent, and each
\* finds its own as it left it, whatever abandoned transactions land.
THEOREM OwnIntents == CycleSpec => []CycleOwnsIntent
<1>1. CycleIInv => CycleOwnsIntent
  <2> SUFFICES ASSUME CycleIInv, NEW c \in Cycles, cyc[c].pc \in Working
               PROVE  /\ intent[MatchId(c)].open
                      /\ <<intent[MatchId(c)].a, intent[MatchId(c)].b>> = Pair[c]
                      /\ \A d \in Cycles \ {c} : cyc[d].pc \in Working => MatchId(d) # MatchId(c)
      BY DEF CycleOwnsIntent
  <2>1. Pair[c] = <<Pair[c][1], Pair[c][2]>>
    BY CycleAssumption
  <2> QED BY <2>1 DEF CycleIInv, Mine, Apart, Owns
<1> QED BY <1>1, CycleInvariance, PTL

\* A cycle asks for plaintexts only of a snapshot that is complete, and no
\* later request, its own or another cycle's, takes anything out of it.
THEOREM SnapshotsComplete == CycleSpec => []SnapshotComplete
<1>1. CycleIInv => SnapshotComplete
  BY DEF CycleIInv, Mine, SnapshotComplete
<1> QED BY <1>1, CycleInvariance, PTL
====
