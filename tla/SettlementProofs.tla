---- MODULE SettlementProofs ----
(***************************************************************************)
(* Theorems about the keeper between two chains, for any number of         *)
(* matches, sellers, coins and failures, and in each Bitcoin mode.  Every   *)
(* step is an instruction of the program or none, so the program's own     *)
(* invariant is kept; what is added follows a match from the poll that     *)
(* takes it up to its payments and its record.                             *)
(***************************************************************************)
EXTENDS Settlement, ObsidianCoreProofs

After   == {"utxos", "find", "sign", "probe", "consume", "broadcast", "spv", "finalize", "fail"}
Early   == {"utxos", "find", "sign", "probe", "consume", "broadcast"}
Holding == {"find", "sign", "probe", "consume", "broadcast", "spv"}

KRec == [pc : {"idle", "next"} \cup After, todo : SUBSET Ids, cur : Ids \cup {None},
         tx : Txs \cup {None}, order : Orders \cup {None},
         gate : {"none", "consumed", "missing"}, proof : TxProofs]

Typed ==
    /\ k \in KRec
    /\ flight \subseteq Msgs
    /\ DOMAIN coin = Coins /\ \A c \in Coins : coin[c].owner \in DWallets \cup {None}
    /\ IsFiniteSet(payments) /\ \A p \in payments : p.tx \in Txs
    /\ confirmed \subseteq Txs
    /\ faults \in 0..MaxFaults

\* What matching left behind, and settlement does not change.
AllMatched ==
    /\ \A m \in Markets : keeper[m] = Self
    /\ \A o \in Orders : order[o].status # "Absent" /\ order[o].owner \in Traders
    /\ \A id \in Ids :
         /\ record[id].status # "Absent"
         /\ record[id].fill \in Fills
         /\ order[record[id].a].dwallet # order[record[id].b].dwallet

Recorded(id, tx) ==
    /\ approval[OrderOf(id)].consumedAt # 0
    /\ approval[OrderOf(id)].digest = tx
    /\ record[id].fill <= approval[OrderOf(id)].max
Paid(id)        == \E p \in payments : p.tx.match = id
PaidInBlock(id) == \E p \in payments : p.tx.match = id /\ p.tx \in confirmed

\* What the keeper knows is so.
KeeperInv ==
    /\ k.pc \in After => k.cur \in Ids /\ k.cur \notin k.todo
    /\ k.pc \in Holding => k.tx \in Txs /\ k.tx.match = k.cur
    /\ k.order # None => k.cur \in Ids /\ k.order = OrderOf(k.cur)
    /\ k.pc \in {"probe", "consume"} => k.order # None
    /\ k.pc = "broadcast" => k.gate # "none"
    /\ k.pc = "broadcast" /\ k.gate = "consumed" => Recorded(k.cur, k.tx)
    /\ k.pc \in Early \cup {"spv"} => k.proof = "txid"
    /\ k.pc = "spv" => \E p \in payments : p.tx = k.tx
    /\ k.pc = "finalize" => /\ k.proof = "spv" => PaidInBlock(k.cur)
                            /\ BtcMode = "real" => Paid(k.cur)

\* What it gave up on is still so when it lands.
FlightInv ==
    \A msg \in flight :
        /\ msg.kind = "consume" => msg.order \in Orders /\ msg.tx \in Txs
        /\ msg.kind = "finalize" => /\ msg.proof = "spv" => PaidInBlock(msg.match)
                                    /\ BtcMode = "real" => Paid(msg.match)

PaymentInv ==
    /\ \A p \in payments : p.gate = "consumed" => Recorded(p.tx.match, p.tx)
    /\ \A id \in Ids : /\ record[id].proof = "spv" => PaidInBlock(id)
                       /\ BtcMode = "real" /\ record[id].status = "Settled" => Paid(id)

\* With no failure yet, nobody but the keeper decides, and a payment is
\* followed by its record.
Calm ==
    faults = 0 =>
        /\ flight = {}
        /\ \A id \in k.todo : record[id].status = "Pending"
        /\ k.pc \in After => record[k.cur].status = "Pending"
        /\ k.proof # "invalid"
        /\ \A id \in Ids : Paid(id) =>
               record[id].status = "Settled" \/ (k.cur = id /\ k.pc \in {"spv", "finalize"})

\* A poll may still pay for a match that was decided behind its back, but the
\* transaction that decided it had cost a failure.
InWork(id) == id \in k.todo \/ (k.cur = id /\ k.pc \in Early)
Due(id) ==
    \/ k.cur = id /\ k.pc \in {"spv", "finalize"} /\ k.proof # "invalid"
    \/ record[id].status # "Pending" /\ ~ InWork(id)
Budget ==
    \A id \in Ids : Cardinality(PaymentsOf(id)) <= faults + (IF Due(id) THEN 1 ELSE 0)

SettleIInv ==
    IInv /\ Typed /\ AllMatched /\ KeeperInv /\ FlightInv /\ PaymentInv /\ Calm /\ Budget

-----------------------------------------------------------------------------
(* The program's part of a step *)

Frame ==
    /\ [Next]_vars
    /\ UNCHANGED <<order, keeper>>
    /\ \A id \in Ids : /\ record'[id].a = record[id].a /\ record'[id].b = record[id].b
                       /\ record'[id].seller = record[id].seller
                       /\ record'[id].fill = record[id].fill
                       /\ record'[id].status # "Absent"
    /\ \A o \in Orders : approval[o].consumedAt # 0 => approval'[o] = approval[o]

LEMMA OneShot ==
    SettleIInv /\ [Next]_vars =>
        \A o \in Orders : approval[o].consumedAt # 0 => approval'[o] = approval[o]
BY OneShotStep DEF SettleIInv, IInv, MatchInv

LEMMA Facts ==
    ASSUME SettleIInv
    PROVE  /\ TypeOK /\ Typed /\ AllMatched /\ KeeperInv /\ FlightInv /\ PaymentInv
           /\ Calm /\ Budget
BY DEF SettleIInv, IInv

LEMMA NoProgram ==
    ASSUME SettleIInv, UNCHANGED vars
    PROVE  Frame /\ record' = record
BY Facts, OneShot DEF Frame, vars, marketVars, AllMatched

LEMMA Consuming ==
    ASSUME SettleIInv, NEW o \in Orders, NEW tx \in Txs, NEW id \in Ids,
           ConsumeBtcApproval(id[1], o, Self, tx, record[id].fill)
    PROVE  /\ Frame /\ record' = record
           /\ approval'[o].consumedAt # 0 /\ approval'[o].digest = tx
           /\ record[id].fill <= approval'[o].max
<1>1. id[1] \in Markets /\ Self \in Keepers /\ tx \in Digests /\ record[id].fill \in Fills
  BY Facts, SettlementAssumption DEF Ids, MatchIds, AllMatched
<1>2. Next
  BY <1>1 DEF Next, ApprovalStep
<1>3. record' = record /\ order' = order /\ keeper' = keeper
  BY DEF ConsumeBtcApproval, marketVars
<1>4. approval[o] \in ApprovalRec /\ slot # 0
  BY Facts, CoreAssumption DEF TypeOK, Slots
<1>5. /\ approval'[o].consumedAt = slot /\ approval'[o].digest = tx
      /\ approval'[o].max = approval[o].max
  BY <1>4, Facts DEF ConsumeBtcApproval, TypeOK, ApprovalRec
<1> QED BY <1>2, <1>3, <1>4, <1>5, Facts, OneShot DEF Frame, ConsumeBtcApproval, Consumable, AllMatched

LEMMA Settling ==
    ASSUME SettleIInv, NEW id \in Ids, NEW proof \in TxProofs, FinalizeSettlement(id, proof, Self)
    PROVE  /\ Frame
           /\ record[id].status = "Pending" /\ record'[id].status = "Settled"
           /\ record'[id].proof = proof /\ proof # "invalid"
           /\ \A x \in Ids : x # id => record'[x] = record[x]
<1>1. Next
  BY SettlementAssumption DEF Next, SettleStep, Ids
<1>2. record[id] \in RecordRec
  BY Facts DEF TypeOK, Ids
<1>3. record' = [record EXCEPT ![id] = [record[id] EXCEPT !.status = "Settled", !.proof = proof]]
  BY DEF FinalizeSettlement
<1>4. /\ record'[id].a = record[id].a /\ record'[id].b = record[id].b
      /\ record'[id].seller = record[id].seller /\ record'[id].fill = record[id].fill
      /\ record'[id].status = "Settled" /\ record'[id].proof = proof
      /\ \A x \in Ids : x # id => record'[x] = record[x]
  BY <1>2, <1>3, Facts DEF TypeOK, Ids, RecordRec
<1>5. \A x \in Ids : /\ record'[x].a = record[x].a /\ record'[x].b = record[x].b
                     /\ record'[x].seller = record[x].seller
                     /\ record'[x].fill = record[x].fill
                     /\ record'[x].status # "Absent"
  BY <1>4, Facts DEF AllMatched
<1> QED BY <1>1, <1>4, <1>5, Facts, OneShot
        DEF Frame, FinalizeSettlement, SettlePending, ProofAccepted, marketVars

LEMMA Failing ==
    ASSUME SettleIInv, NEW id \in Ids, FailSettlement(id, Self)
    PROVE  /\ Frame
           /\ record[id].status = "Pending" /\ record'[id].status = "SettleFailed"
           /\ record'[id].proof = record[id].proof
           /\ \A x \in Ids : x # id => record'[x] = record[x]
<1>1. Next
  BY SettlementAssumption DEF Next, SettleStep, Ids
<1>2. record[id] \in RecordRec
  BY Facts DEF TypeOK, Ids
<1>3. record' = [record EXCEPT ![id] = [record[id] EXCEPT !.status = "SettleFailed"]]
  BY DEF FailSettlement
<1>4. /\ record'[id].a = record[id].a /\ record'[id].b = record[id].b
      /\ record'[id].seller = record[id].seller /\ record'[id].fill = record[id].fill
      /\ record'[id].status = "SettleFailed" /\ record'[id].proof = record[id].proof
      /\ \A x \in Ids : x # id => record'[x] = record[x]
  BY <1>2, <1>3, Facts DEF TypeOK, Ids, RecordRec
<1>5. \A x \in Ids : /\ record'[x].a = record[x].a /\ record'[x].b = record[x].b
                     /\ record'[x].seller = record[x].seller
                     /\ record'[x].fill = record[x].fill
                     /\ record'[x].status # "Absent"
  BY <1>4, Facts DEF AllMatched
<1> QED BY <1>1, <1>4, <1>5, Facts, OneShot DEF Frame, FailSettlement, SettlePending, marketVars

-----------------------------------------------------------------------------
(* What every step keeps *)

\* Exactly one of a match's two orders sells, whatever could be read of them.
LEMMA SellerFound ==
    ASSUME SettleIInv, NEW id \in Ids
    PROVE  /\ OrderOf(id) \in Orders
           /\ \A readable \in SUBSET {record[id].a, record[id].b} :
                  SellerOrder(id, readable) \in {OrderOf(id), None}
<1> DEFINE a == record[id].a
           b == record[id].b
<1>1. a \in Orders /\ b \in Orders
  BY Facts DEF SettleIInv, IInv, MatchInv, MatchBinds, Submitted, AllMatched, Ids
<1>2. record[id].seller \in {order[a].dwallet, order[b].dwallet}
  BY Facts DEF SettleIInv, IInv, MatchInv, MatchBinds, AllMatched, Ids
<1>3. order[a].dwallet # order[b].dwallet
  BY Facts DEF AllMatched
<1>4. OrderOf(id) = IF order[a].dwallet = record[id].seller THEN a ELSE b
  BY <1>1, <1>2, <1>3 DEF OrderOf, SellerOrder
<1>5. ASSUME NEW readable \in SUBSET {a, b}
      PROVE  SellerOrder(id, readable) \in {OrderOf(id), None}
  BY <1>1, <1>2, <1>3, <1>4, <1>5 DEF SellerOrder
<1> QED BY <1>1, <1>4, <1>5

LEMMA SellerKept ==
    ASSUME SettleIInv, Frame, NEW id \in Ids
    PROVE  /\ OrderOf(id)' = OrderOf(id)
           /\ \A tx : Recorded(id, tx) => Recorded(id, tx)'
<1>1. OrderOf(id)' = OrderOf(id)
  BY DEF Frame, OrderOf, SellerOrder
<1> QED BY <1>1, SellerFound DEF Recorded, Frame

LEMMA ProgramKept ==
    ASSUME SettleIInv, Frame
    PROVE  IInv' /\ AllMatched'
<1>1. IInv'
  BY InvStep DEF SettleIInv, Frame
<1> QED BY <1>1, Facts DEF Frame, AllMatched

\* Nothing is unpaid again.
LEMMA PaidKept ==
    ASSUME payments \subseteq payments', confirmed \subseteq confirmed', NEW id
    PROVE  (Paid(id) => Paid(id)') /\ (PaidInBlock(id) => PaidInBlock(id)')
BY DEF Paid, PaidInBlock

\* What is left to show of a step that pays nothing: each failure buys a
\* payment, and so does each match that gets or keeps its due.
LEMMA Unpaid ==
    ASSUME SettleIInv, Frame, payments' = payments, confirmed \subseteq confirmed',
           Typed', KeeperInv', FlightInv', Calm',
           \A id \in Ids : record'[id].proof = "spv" => PaidInBlock(id),
           \A id \in Ids : BtcMode = "real" /\ record'[id].status = "Settled" => Paid(id),
           \/ faults' = faults + 1
           \/ faults' = faults /\ \A id \in Ids : Due(id) => Due(id)'
    PROVE  SettleIInv'
<1>1. PaymentInv'
  <2>1. \A p \in payments : p.tx.match \in Ids
    BY Facts DEF Typed, Txs
  <2>2. \A p \in payments : p.gate = "consumed" => Recorded(p.tx.match, p.tx)'
    BY <2>1, Facts, SellerKept DEF PaymentInv
  <2>3. \A id \in Ids : (PaidInBlock(id) => PaidInBlock(id)') /\ (Paid(id) => Paid(id)')
    BY PaidKept
  <2> QED BY <2>2, <2>3 DEF PaymentInv
<1>2. Budget'
  <2> SUFFICES ASSUME NEW id \in Ids
               PROVE  Cardinality(PaymentsOf(id)') <= faults' + (IF Due(id)' THEN 1 ELSE 0)
      BY DEF Budget
  <2>1. PaymentsOf(id)' = PaymentsOf(id)
    BY DEF PaymentsOf
  <2>2. Cardinality(PaymentsOf(id)) <= faults + (IF Due(id) THEN 1 ELSE 0)
    BY Facts DEF Budget
  <2>3. Cardinality(PaymentsOf(id)) \in Nat /\ faults \in Nat
    <3>1. IsFiniteSet(PaymentsOf(id))
      BY Facts, FS_Subset DEF Typed, PaymentsOf
    <3> QED BY <3>1, FS_CardinalityType, Facts, SettlementAssumption DEF Typed
  <2> QED BY <2>1, <2>2, <2>3
<1> QED BY <1>1, <1>2, ProgramKept DEF SettleIInv

\* The records of a step that decides nothing stand as they did.
LEMMA RecordsStand ==
    ASSUME SettleIInv, NEW id \in Ids, record' = record
    PROVE  /\ record'[id].proof = "spv" => PaidInBlock(id)
           /\ BtcMode = "real" /\ record'[id].status = "Settled" => Paid(id)
BY Facts DEF PaymentInv

LEMMA FlightQuiet ==
    ASSUME SettleIInv, flight' \subseteq flight, payments \subseteq payments',
           confirmed \subseteq confirmed'
    PROVE  FlightInv'
BY Facts, PaidKept DEF FlightInv

LEMMA KeeperQuiet ==
    ASSUME SettleIInv, Frame, k' = k, payments \subseteq payments', confirmed \subseteq confirmed'
    PROVE  KeeperInv'
<1>1. \A id \in Ids : /\ OrderOf(id)' = OrderOf(id)
                      /\ \A tx : Recorded(id, tx) => Recorded(id, tx)'
                      /\ (PaidInBlock(id) => PaidInBlock(id)') /\ (Paid(id) => Paid(id)')
  BY SellerKept, PaidKept
<1>2. k.pc \in After => k.cur \in Ids
  BY Facts DEF KeeperInv
<1> QED BY <1>1, <1>2, Facts DEF KeeperInv, After

\* Into the catch block.
LEMMA Thrown ==
    ASSUME SettleIInv, Frame, k.pc \in After, Throw
    PROVE  /\ k' \in KRec /\ k'.pc = "fail" /\ k'.cur = k.cur /\ k'.todo = k.todo
           /\ k'.proof = k.proof
           /\ KeeperInv'
<1>1. k \in KRec
  BY Facts DEF Typed
<1>2. /\ k' \in KRec /\ k'.pc = "fail" /\ k'.cur = k.cur /\ k'.todo = k.todo
      /\ k'.proof = k.proof /\ k'.order = k.order
  BY <1>1 DEF Throw, KRec, After
<1>3. \A id \in Ids : OrderOf(id)' = OrderOf(id)
  BY SellerKept
<1>4. KeeperInv'
  BY <1>2, <1>3, Facts DEF KeeperInv, Early, Holding
<1> QED BY <1>2, <1>4

LEMMA FaultType ==
    ASSUME SettleIInv, Fault \/ UNCHANGED faults
    PROVE  /\ faults' \in 0..MaxFaults
           /\ Fault => faults' = faults + 1 /\ faults' # 0
BY Facts, SettlementAssumption DEF Fault, Typed

\* Before the payment a match is in work: to fail it needs no failure.
LEMMA EarlyStep ==
    ASSUME SettleIInv, Frame, record' = record, UNCHANGED btcVars,
           k.pc \in Early, k'.pc \in Early \cup {"fail"},
           k' \in KRec, k'.cur = k.cur, k'.todo = k.todo, k'.proof = k.proof, KeeperInv',
           flight' \subseteq Msgs, FlightInv',
           Fault \/ (UNCHANGED <<faults, flight>>)
    PROVE  SettleIInv'
<1>1. Typed'
  BY Facts, FaultType DEF Typed, btcVars
<1>2. UNCHANGED faults => \A id \in Ids : Due(id) => Due(id)'
  BY DEF Due, InWork, Early
<1>3. Calm'
  <2>1. CASE Fault
    BY <2>1, FaultType DEF Calm
  <2>2. CASE UNCHANGED <<faults, flight>>
    BY <2>2, Facts DEF Calm, Early, After, Paid, btcVars
  <2> QED BY <2>1, <2>2
<1> QED BY <1>1, <1>2, <1>3, Unpaid, RecordsStand, FaultType DEF btcVars

-----------------------------------------------------------------------------
(* The keeper before the payment *)

LEMMA EarlyThrow ==
    ASSUME SettleIInv, Frame, record' = record, UNCHANGED btcVars, k.pc \in Early, Throw,
           flight' \subseteq Msgs, FlightInv', Fault \/ (UNCHANGED <<faults, flight>>)
    PROVE  SettleIInv'
<1>1. k.pc \in After
  BY DEF Early, After
<1> QED BY <1>1, Thrown, EarlyStep

LEMMA FetchUtxosStep == ASSUME SettleIInv, FetchUtxos PROVE SettleIInv'
<1>1. /\ k.pc = "utxos" /\ k.pc \in Early /\ k.pc \in After /\ k \in KRec /\ k.cur \in Ids
      /\ k.proof = "txid" /\ k.cur \notin k.todo
      /\ k.order # None => k.order = OrderOf(k.cur)
  BY Facts DEF FetchUtxos, Early, After, Typed, KeeperInv
<1>2. /\ Frame /\ record' = record /\ UNCHANGED btcVars /\ flight' = flight
      /\ flight' \subseteq Msgs /\ FlightInv'
  BY Facts, NoProgram, FlightQuiet DEF FetchUtxos, Typed, btcVars
<1>3. Fault \/ UNCHANGED faults
  BY DEF FetchUtxos
<1>4. CASE Throw
  BY <1>1, <1>2, <1>3, <1>4, EarlyThrow
<1>5. ASSUME NEW ins \in SUBSET (Coins \cup {Synthetic}), Build(ins)
      PROVE  SettleIInv'
  <2> DEFINE tx == [match |-> k.cur, ins |-> ins]
  <2>1. CASE k' = [k EXCEPT !.tx = tx, !.pc = "find"]
    <3>1. tx \in Txs /\ tx.match = k.cur
      BY <1>1 DEF Txs
    <3> HIDE DEF tx
    <3>2. /\ k' \in KRec /\ k'.pc = "find" /\ k'.tx = tx
          /\ k'.cur = k.cur /\ k'.todo = k.todo /\ k'.order = k.order /\ k'.proof = k.proof
      BY <1>1, <2>1, <3>1 DEF KRec, After
    <3>3. KeeperInv'
      BY <1>1, <1>2, <3>1, <3>2, SellerKept DEF KeeperInv, Early
    <3> QED BY <1>1, <1>2, <1>3, <3>2, <3>3, EarlyStep DEF Early
  <2> QED BY <1>4, <1>5, <2>1 DEF Build
<1>6. Utxos(record[k.cur].seller) \subseteq Coins
  BY DEF Utxos
<1> QED BY <1>4, <1>5, <1>6 DEF FetchUtxos

LEMMA FindSellerOrderStep == ASSUME SettleIInv, FindSellerOrder PROVE SettleIInv'
<1>1. /\ k.pc = "find" /\ k.pc \in Early /\ k \in KRec /\ k.cur \in Ids
      /\ k.proof = "txid" /\ k.cur \notin k.todo /\ k.tx \in Txs /\ k.tx.match = k.cur
  BY Facts DEF FindSellerOrder, Early, After, Holding, Typed, KeeperInv
<1>2. /\ Frame /\ record' = record /\ UNCHANGED btcVars /\ flight' = flight
      /\ flight' \subseteq Msgs /\ FlightInv'
  BY Facts, NoProgram, FlightQuiet DEF FindSellerOrder, Typed, btcVars
<1>3. PICK readable \in SUBSET {record[k.cur].a, record[k.cur].b} :
          k' = [k EXCEPT !.order = SellerOrder(k.cur, readable), !.pc = "sign"]
  BY DEF FindSellerOrder
<1> DEFINE o == SellerOrder(k.cur, readable)
<1>4. o \in {OrderOf(k.cur), None} /\ OrderOf(k.cur) \in Orders
  BY <1>1, SellerFound
<1> HIDE DEF o
<1>5. /\ k' \in KRec /\ k'.pc = "sign" /\ k'.order = o
      /\ k'.cur = k.cur /\ k'.todo = k.todo /\ k'.tx = k.tx /\ k'.proof = k.proof
  BY <1>1, <1>3, <1>4 DEF KRec, After, o
<1>6. KeeperInv'
  BY <1>1, <1>2, <1>4, <1>5, SellerKept DEF KeeperInv, Early
<1>7. Fault \/ UNCHANGED <<faults, flight>>
  BY <1>2 DEF FindSellerOrder
<1> QED BY <1>1, <1>2, <1>5, <1>6, <1>7, EarlyStep DEF Early

\* To the next await, the gate unanswered or not there.
LEMMA Onward ==
    ASSUME SettleIInv, UNCHANGED <<vars, flight, btcVars>>, Fault \/ UNCHANGED faults,
           k.pc \in {"sign", "probe"},
           \/ Unguarded
           \/ k.order # None /\ (Goto("probe") \/ Goto("consume"))
    PROVE  SettleIInv'
<1>1. /\ k.pc \in Early /\ k \in KRec /\ k.cur \in Ids /\ k.proof = "txid"
      /\ k.cur \notin k.todo /\ k.tx \in Txs /\ k.tx.match = k.cur
      /\ k.order # None => k.order = OrderOf(k.cur)
  BY Facts DEF Early, After, Holding, Typed, KeeperInv
<1>2. /\ Frame /\ record' = record /\ flight' \subseteq Msgs /\ FlightInv'
  BY Facts, NoProgram, FlightQuiet DEF Typed, btcVars
<1>3. /\ k' \in KRec /\ k'.pc \in {"probe", "consume", "broadcast"}
      /\ k'.order = k.order /\ k'.cur = k.cur /\ k'.todo = k.todo /\ k'.tx = k.tx
      /\ k'.proof = k.proof
      /\ k'.pc = "broadcast" => k'.gate = "missing"
      /\ k'.pc # "broadcast" => k.order # None
  BY <1>1 DEF KRec, After, Unguarded, Goto
<1>4. KeeperInv'
  BY <1>1, <1>2, <1>3, SellerKept DEF KeeperInv, Early
<1> QED BY <1>1, <1>2, <1>3, <1>4, EarlyStep DEF Early

LEMMA RequestSignStep == ASSUME SettleIInv, RequestSign PROVE SettleIInv'
<1>1. k.pc = "sign" /\ UNCHANGED <<vars, flight, faults, btcVars>>
  BY DEF RequestSign
<1>2. CASE Throw
  BY <1>1, <1>2, Facts, NoProgram, FlightQuiet, EarlyThrow DEF Typed, btcVars, Early
<1>3. CASE Signed
  BY <1>1, <1>3, Onward DEF Signed
<1> QED BY <1>2, <1>3 DEF RequestSign

LEMMA ProbeApprovalStep == ASSUME SettleIInv, ProbeApproval PROVE SettleIInv'
<1>1. k.pc = "probe" /\ UNCHANGED <<vars, flight, btcVars>> /\ (Fault \/ UNCHANGED faults)
      /\ k.order # None
  BY Facts DEF ProbeApproval, KeeperInv
<1>2. CASE Throw
  BY <1>1, <1>2, Facts, NoProgram, FlightQuiet, EarlyThrow DEF Typed, btcVars, Early
<1>3. CASE Unguarded \/ Goto("consume")
  BY <1>1, <1>3, Onward
<1> QED BY <1>2, <1>3 DEF ProbeApproval

\* A transaction given up on says what the keeper knew.
LEMMA GivenUp ==
    ASSUME SettleIInv, NEW kind \in {"consume", "finalize", "fail"}, GiveUp(kind),
           k.pc \in After, kind = "consume" => k.pc = "consume",
           kind = "finalize" => k.pc = "finalize",
           payments' = payments, confirmed' = confirmed
    PROVE  flight' \subseteq Msgs /\ FlightInv' /\ Fault
<1>1. flight' = flight \cup {Msg(kind)} /\ Fault
  BY DEF GiveUp
<1>2. /\ Msg(kind) \in Msgs
      /\ Msg(kind).kind = kind /\ Msg(kind).match = k.cur /\ Msg(kind).order = k.order
      /\ Msg(kind).tx = k.tx /\ Msg(kind).proof = k.proof
  BY Facts DEF Msg, Msgs, Typed, KRec, KeeperInv
<1>3. /\ kind = "consume" => k.order \in Orders /\ k.tx \in Txs
      /\ kind = "finalize" => /\ k.proof = "spv" => PaidInBlock(k.cur)
                              /\ BtcMode = "real" => Paid(k.cur)
  BY Facts DEF KeeperInv, Typed, KRec, Holding
<1> HIDE DEF Msg
<1>4. FlightInv'
  <2> SUFFICES ASSUME NEW msg \in flight'
               PROVE  /\ msg.kind = "consume" => msg.order \in Orders /\ msg.tx \in Txs
                      /\ msg.kind = "finalize" => /\ msg.proof = "spv" => PaidInBlock(msg.match)'
                                                  /\ BtcMode = "real" => Paid(msg.match)'
      BY DEF FlightInv
  <2>1. (PaidInBlock(msg.match) => PaidInBlock(msg.match)') /\ (Paid(msg.match) => Paid(msg.match)')
    BY PaidKept
  <2> QED BY <1>1, <1>2, <1>3, <2>1, Facts DEF FlightInv
<1> QED BY <1>1, <1>2, <1>4, Facts DEF Typed

LEMMA TryConsumeStep == ASSUME SettleIInv, TryConsume PROVE SettleIInv'
<1>1. /\ k.pc = "consume" /\ k.pc \in Early /\ k.pc \in After /\ k \in KRec /\ k.cur \in Ids
      /\ k.proof = "txid" /\ k.cur \notin k.todo /\ k.tx \in Txs /\ k.tx.match = k.cur
      /\ k.order = OrderOf(k.cur) /\ k.order \in Orders /\ UNCHANGED btcVars
  BY Facts, SellerFound DEF TryConsume, Early, After, Holding, Typed, KeeperInv
<1>2. CASE /\ ConsumeBtcApproval(k.cur[1], k.order, Self, k.tx, record[k.cur].fill)
           /\ Consumed /\ UNCHANGED <<flight, faults>>
  <2>1. /\ Frame /\ record' = record
        /\ approval'[k.order].consumedAt # 0 /\ approval'[k.order].digest = k.tx
        /\ record[k.cur].fill <= approval'[k.order].max
    BY <1>1, <1>2, Consuming
  <2>2. /\ k' \in KRec /\ k'.pc = "broadcast" /\ k'.gate = "consumed" /\ k'.order = k.order
        /\ k'.cur = k.cur /\ k'.todo = k.todo /\ k'.tx = k.tx /\ k'.proof = k.proof
    BY <1>1, <1>2 DEF Consumed, KRec, After
  <2>3. \A id \in Ids : OrderOf(id)' = OrderOf(id)
    BY <2>1, SellerKept
  <2>4. Recorded(k.cur, k.tx)'
    BY <1>1, <2>1, <2>2, <2>3 DEF Recorded
  <2>5. KeeperInv'
    BY <1>1, <2>1, <2>2, <2>3, <2>4 DEF KeeperInv, Early
  <2> QED BY <1>1, <1>2, <2>1, <2>2, <2>5, Facts, FlightQuiet, EarlyStep DEF Early, Typed, btcVars
<1>3. CASE Throw /\ UNCHANGED <<vars, flight, faults>>
  BY <1>1, <1>3, Facts, NoProgram, FlightQuiet, EarlyThrow DEF Typed, btcVars
<1>4. CASE GiveUp("consume") /\ Throw /\ UNCHANGED vars
  BY <1>1, <1>4, NoProgram, GivenUp, EarlyThrow DEF btcVars
<1> QED BY <1>2, <1>3, <1>4 DEF TryConsume, Refused

-----------------------------------------------------------------------------
(* The payment *)

LEMMA Gone ==
    ASSUME SettleIInv, NEW pc \in {"next"} \cup After, Goto(pc)
    PROVE  /\ k' \in KRec /\ k'.pc = pc /\ k'.todo = k.todo /\ k'.cur = k.cur /\ k'.tx = k.tx
           /\ k'.order = k.order /\ k'.gate = k.gate /\ k'.proof = k.proof
<1>1. k \in KRec
  BY Facts DEF Typed
<1> QED BY <1>1 DEF KRec, Goto

LEMMA AtBroadcast ==
    ASSUME SettleIInv, k.pc = "broadcast"
    PROVE  /\ k.pc \in Early /\ k.pc \in After /\ k \in KRec /\ k.cur \in Ids
           /\ k.proof = "txid" /\ k.cur \notin k.todo /\ k.tx \in Txs /\ k.tx.match = k.cur
           /\ k.order # None => k.order = OrderOf(k.cur)
           /\ k.gate = "consumed" => Recorded(k.cur, k.tx)
BY Facts DEF Early, After, Holding, Typed, KeeperInv

\* A made-up txid, not in real mode.
LEMMA MadeUp ==
    ASSUME SettleIInv, k.pc = "broadcast", BtcMode # "real", Goto("finalize"),
           UNCHANGED <<vars, flight, btcVars>>, Fault \/ UNCHANGED faults
    PROVE  SettleIInv'
<1>1. /\ k' \in KRec /\ k'.pc = "finalize" /\ k'.todo = k.todo /\ k'.cur = k.cur
      /\ k'.order = k.order /\ k'.proof = "txid"
  BY AtBroadcast, Gone DEF After
<1>2. Frame /\ record' = record /\ UNCHANGED btcVars /\ FlightInv'
  BY NoProgram, FlightQuiet DEF btcVars
<1>3. KeeperInv'
  BY <1>1, <1>2, AtBroadcast, SellerKept DEF KeeperInv, Early, Holding
<1>4. Typed'
  BY <1>1, Facts, FaultType DEF Typed, btcVars
<1>5. \A id \in Ids : Due(id) => Due(id)'
  BY <1>1, <1>2, AtBroadcast DEF Due, InWork, Early
<1>6. Calm'
  <2>1. CASE Fault
    BY <2>1, FaultType DEF Calm
  <2>2. CASE UNCHANGED faults
    BY <1>1, <1>2, <2>2, AtBroadcast, Facts DEF Calm, After, Paid, btcVars
  <2> QED BY <2>1, <2>2
<1> QED BY <1>2, <1>3, <1>4, <1>5, <1>6, Unpaid, RecordsStand, FaultType DEF btcVars

\* The relay takes the payment, whatever the keeper hears of it.
LEMMA RelayStep ==
    ASSUME SettleIInv, k.pc = "broadcast", Relay(k.tx, k.gate), UNCHANGED <<vars, flight>>,
           (Goto("spv") /\ UNCHANGED faults) \/ NoAnswer
    PROVE  SettleIInv'
<1> DEFINE paid == [tx |-> k.tx, gate |-> k.gate]
           c == k.cur
<1>1. /\ payments' = payments \cup {paid} /\ confirmed' = confirmed
      /\ paid.tx = k.tx /\ paid.gate = k.gate
  BY DEF Relay
<1> HIDE DEF paid
<1>2. /\ k' \in KRec /\ k'.pc \in {"spv", "fail", "finalize"} /\ k'.todo = k.todo /\ k'.cur = c
      /\ k'.order = k.order /\ k'.proof = "txid" /\ k'.tx = k.tx
      /\ k'.pc = "finalize" => BtcMode = "auto"
      /\ (k'.pc = "spv" /\ UNCHANGED faults) \/ Fault
  <2>1. CASE Goto("spv") /\ UNCHANGED faults
    BY <2>1, AtBroadcast, Gone DEF After
  <2>2. CASE Fault /\ (Goto("fail") \/ (BtcMode = "auto" /\ Goto("finalize")))
    BY <2>2, AtBroadcast, Gone DEF After
  <2> QED BY <2>1, <2>2 DEF NoAnswer, Throw, Goto
<1>3. Frame /\ record' = record /\ FlightInv'
  BY <1>1, NoProgram, FlightQuiet
<1>4. KeeperInv'
  BY <1>1, <1>2, <1>3, AtBroadcast, SellerKept DEF KeeperInv, Early, Holding
<1>5. Typed'
  <2>1. DOMAIN coin' = Coins /\ \A x \in Coins : coin'[x].owner \in DWallets \cup {None}
    <3>1. record[c].seller \in DWallets \cup {None}
      BY AtBroadcast, Facts DEF TypeOK, RecordRec, Ids
    <3>2. CASE coin' = coin
      BY <3>2, Facts DEF Typed
    <3>3. CASE coin' = [coin EXCEPT ![FreshCoin] = [owner |-> record[c].seller,
                                                    value |-> Change(k.tx), from |-> k.tx]]
      BY <3>1, <3>3, Facts DEF Typed
    <3> QED BY <3>2, <3>3, AtBroadcast DEF Relay
  <2>2. IsFiniteSet(payments')
    BY <1>1, Facts, FS_AddElement DEF Typed
  <2> QED BY <1>1, <1>2, <2>1, <2>2, AtBroadcast, Facts, FaultType DEF Typed
<1>6. PaymentInv'
  <2>1. \A p \in payments' : p.tx.match \in Ids
    BY <1>1, AtBroadcast, Facts DEF Typed, Txs
  <2>2. \A p \in payments' : p.gate = "consumed" => Recorded(p.tx.match, p.tx)
    BY <1>1, AtBroadcast, Facts DEF PaymentInv
  <2>3. \A p \in payments' : p.gate = "consumed" => Recorded(p.tx.match, p.tx)'
    BY <1>3, <2>1, <2>2, SellerKept
  <2>4. \A id \in Ids : (PaidInBlock(id) => PaidInBlock(id)') /\ (Paid(id) => Paid(id)')
    BY <1>1, PaidKept
  <2> QED BY <1>3, <2>3, <2>4, Facts DEF PaymentInv
<1>7. Calm'
  <2>1. CASE Fault
    BY <2>1, FaultType DEF Calm
  <2>2. CASE k'.pc = "spv" /\ UNCHANGED faults
    <3>1. \A id \in Ids : Paid(id)' => Paid(id) \/ id = c
      BY <1>1, AtBroadcast DEF Paid
    <3> QED BY <1>2, <1>3, <2>2, <3>1, AtBroadcast, Facts DEF Calm, After
  <2> QED BY <1>2, <2>1, <2>2
<1>8. Budget'
  <2> SUFFICES ASSUME NEW id \in Ids
               PROVE  Cardinality(PaymentsOf(id)') <= faults' + (IF Due(id)' THEN 1 ELSE 0)
      BY DEF Budget
  <2> DEFINE n == Cardinality(PaymentsOf(id))
  <2>1. /\ n <= faults + (IF Due(id) THEN 1 ELSE 0)
        /\ IsFiniteSet(PaymentsOf(id)) /\ n \in Nat /\ faults \in Nat
    <3>1. IsFiniteSet(PaymentsOf(id))
      BY Facts, FS_Subset DEF Typed, PaymentsOf
    <3> QED BY <3>1, FS_CardinalityType, Facts, SettlementAssumption DEF Typed, Budget
  <2>2. Fault => faults' = faults + 1
    BY FaultType
  <2>3. CASE id = c
    <3>1. PaymentsOf(id)' = PaymentsOf(id) \cup {paid}
      BY <1>1, <2>3, AtBroadcast DEF PaymentsOf
    <3>2. Cardinality(PaymentsOf(id)') <= n + 1
      <4>1. Cardinality(PaymentsOf(id) \cup {paid})
                = IF paid \in PaymentsOf(id) THEN n ELSE n + 1
        BY <2>1, FS_AddElement
      <4>2. Cardinality(PaymentsOf(id)') \in {n, n + 1}
        BY <3>1, <4>1
      <4> QED BY <2>1, <4>2
    <3>3. Cardinality(PaymentsOf(id)') \in Nat
      BY <2>1, <3>1, FS_AddElement, FS_CardinalityType
    <3>4. ~ Due(id)
      BY <2>3, AtBroadcast DEF Due, InWork
    <3>5. k'.pc = "spv" => Due(id)'
      BY <1>2, <2>3 DEF Due
    <3> QED BY <1>2, <2>1, <2>2, <3>2, <3>3, <3>4, <3>5
  <2>4. CASE id # c
    <3>1. PaymentsOf(id)' = PaymentsOf(id)
      BY <1>1, <2>4, AtBroadcast DEF PaymentsOf
    <3>2. Due(id) => Due(id)'
      BY <1>2, <1>3, <2>4, AtBroadcast DEF Due, InWork
    <3> QED BY <1>2, <2>1, <2>2, <3>1, <3>2
  <2> QED BY <2>3, <2>4
<1> QED BY <1>3, <1>4, <1>5, <1>6, <1>7, <1>8, ProgramKept DEF SettleIInv

LEMMA BroadcastStep == ASSUME SettleIInv, BroadcastTx PROVE SettleIInv'
<1>1. k.pc = "broadcast" /\ UNCHANGED <<vars, flight>>
  BY DEF BroadcastTx
<1>2. CASE BtcMode # "real" /\ Goto("finalize") /\ UNCHANGED btcVars /\ (Fault \/ UNCHANGED faults)
  BY <1>1, <1>2, MadeUp
<1>3. CASE Relay(k.tx, k.gate) /\ ((Goto("spv") /\ UNCHANGED faults) \/ NoAnswer)
  BY <1>1, <1>3, RelayStep
<1>4. CASE Throw /\ UNCHANGED btcVars /\ (Fault \/ UNCHANGED faults)
  BY <1>1, <1>4, Facts, NoProgram, FlightQuiet, EarlyThrow DEF Typed, btcVars, Early
<1> QED BY <1>2, <1>3, <1>4 DEF BroadcastTx, NoAnswer

-----------------------------------------------------------------------------
(* After the payment *)

LEMMA FetchSpvProofStep == ASSUME SettleIInv, FetchSpvProof PROVE SettleIInv'
<1>1. /\ k.pc = "spv" /\ k \in KRec /\ k.cur \in Ids /\ k.cur \notin k.todo
      /\ k.proof = "txid" /\ k.tx \in Txs /\ k.tx.match = k.cur
      /\ k.order # None => k.order = OrderOf(k.cur)
      /\ \E p \in payments : p.tx = k.tx
      /\ UNCHANGED <<vars, flight, btcVars>>
  BY Facts DEF FetchSpvProof, After, Holding, Typed, KeeperInv
<1>2. Frame /\ record' = record /\ FlightInv'
  BY <1>1, NoProgram, FlightQuiet DEF btcVars
<1>3. /\ k' \in KRec /\ k'.pc = "finalize" /\ k'.todo = k.todo /\ k'.cur = k.cur
      /\ k'.order = k.order /\ k'.proof \in {"txid", "spv", "invalid"}
      /\ k'.proof = "spv" => k.tx \in confirmed
      /\ (k'.proof # "invalid" /\ UNCHANGED faults) \/ Fault
  BY <1>1 DEF FetchSpvProof, WithProof, NoProof, Goto, HasProof, KRec, After, TxProofs, Proofs
<1>4. KeeperInv'
  <2>1. Paid(k.cur) /\ (k'.proof = "spv" => PaidInBlock(k.cur))
    BY <1>1, <1>3 DEF Paid, PaidInBlock
  <2>2. Paid(k.cur)' /\ (k'.proof = "spv" => PaidInBlock(k.cur)')
    BY <1>1, <1>3, <2>1 DEF Paid, PaidInBlock, btcVars
  <2> QED BY <1>1, <1>2, <1>3, <2>2, SellerKept DEF KeeperInv, Early, Holding
<1>5. Typed'
  BY <1>1, <1>3, Facts, FaultType DEF Typed, btcVars
<1>6. k'.proof # "invalid" => \A id \in Ids : Due(id) => Due(id)'
  BY <1>1, <1>2, <1>3 DEF Due, InWork, Early
<1>7. Calm'
  <2>1. CASE Fault
    BY <2>1, FaultType DEF Calm
  <2>2. CASE k'.proof # "invalid" /\ UNCHANGED faults
    BY <1>1, <1>2, <1>3, <2>2, Facts DEF Calm, After, Paid, btcVars
  <2> QED BY <1>3, <2>1, <2>2
<1> QED BY <1>1, <1>2, <1>3, <1>4, <1>5, <1>6, <1>7, Unpaid, RecordsStand, FaultType DEF btcVars

\* A decision, the keeper's own or one that lands: of a Pending record, whose
\* match keeps its due or gets one.
LEMMA Decision ==
    ASSUME SettleIInv, Frame, UNCHANGED btcVars, NEW id \in Ids,
           record[id].status = "Pending", record'[id].status \in {"Settled", "SettleFailed"},
           \A x \in Ids : x # id => record'[x] = record[x],
           record'[id].proof = "spv" => PaidInBlock(id),
           BtcMode = "real" /\ record'[id].status = "Settled" => Paid(id),
           Typed', KeeperInv', FlightInv', Calm', UNCHANGED faults,
           \/ k' = k
           \/ k.pc \in {"finalize", "fail"} /\ k'.pc \notin After /\ k'.cur = id /\ k.cur = id
              /\ k'.todo = k.todo
    PROVE  SettleIInv'
<1>1. \A x \in Ids : /\ record'[x].proof = "spv" => PaidInBlock(x)
                     /\ BtcMode = "real" /\ record'[x].status = "Settled" => Paid(x)
  BY Facts DEF PaymentInv
<1>2. \A x \in Ids : Due(x) => Due(x)'
  <2>1. CASE k' = k
    BY <2>1 DEF Due, InWork
  <2>2. CASE /\ k.pc \in {"finalize", "fail"} /\ k'.pc \notin After /\ k'.cur = id /\ k.cur = id
             /\ k'.todo = k.todo
    <3>1. id \notin k.todo
      BY <2>2, Facts DEF KeeperInv, After
    <3> QED BY <2>2, <3>1 DEF Due, InWork, After, Early
  <2> QED BY <2>1, <2>2
<1> QED BY <1>1, <1>2, Unpaid DEF btcVars

\* An exception after the payment, before its record is decided.
LEMMA LateThrow ==
    ASSUME SettleIInv, k.pc = "finalize", Throw, UNCHANGED <<vars, btcVars>>,
           \/ Fault /\ flight' \subseteq Msgs /\ FlightInv'
           \/ UNCHANGED <<faults, flight>> /\ (record[k.cur].status # "Pending" \/ k.proof = "invalid")
    PROVE  SettleIInv'
<1>1. k.pc \in After /\ k.cur \in Ids /\ k.cur \notin k.todo
  BY Facts DEF After, KeeperInv
<1>2. Frame /\ record' = record
  BY NoProgram
<1>3. /\ k' \in KRec /\ k'.pc = "fail" /\ k'.cur = k.cur /\ k'.todo = k.todo
      /\ k'.proof = k.proof /\ KeeperInv'
  BY <1>1, <1>2, Thrown
<1>4. CASE Fault /\ flight' \subseteq Msgs /\ FlightInv'
  <2>1. Typed' /\ Calm' /\ faults' = faults + 1
    BY <1>3, <1>4, Facts, FaultType DEF Typed, Calm, btcVars
  <2> QED BY <1>2, <1>3, <1>4, <2>1, Unpaid, RecordsStand DEF btcVars
<1>5. CASE UNCHANGED <<faults, flight>> /\ (record[k.cur].status # "Pending" \/ k.proof = "invalid")
  <2>1. FlightInv' /\ Typed'
    BY <1>3, <1>5, Facts, FlightQuiet DEF Typed, btcVars
  <2>2. faults # 0
    BY <1>1, <1>5, Facts DEF Calm
  <2>3. Calm'
    BY <1>5, <2>2 DEF Calm
  <2>4. \A id \in Ids : Due(id) => Due(id)'
    BY <1>1, <1>2, <1>3, <1>5 DEF Due, InWork, Early
  <2> QED BY <1>2, <1>3, <1>5, <2>1, <2>3, <2>4, Unpaid, RecordsStand DEF btcVars
<1> QED BY <1>4, <1>5

LEMMA CallFinalizeStep == ASSUME SettleIInv, CallFinalize PROVE SettleIInv'
<1>1. /\ k.pc = "finalize" /\ k \in KRec /\ k.cur \in Ids /\ k.cur \notin k.todo
      /\ k.pc \in After /\ k.proof \in TxProofs /\ UNCHANGED btcVars
      /\ k.order # None => k.order = OrderOf(k.cur)
      /\ k.proof = "spv" => PaidInBlock(k.cur)
      /\ BtcMode = "real" => Paid(k.cur)
  BY Facts DEF CallFinalize, After, Typed, KeeperInv, KRec
<1>2. CASE FinalizeSettlement(k.cur, k.proof, Self) /\ Goto("next") /\ UNCHANGED <<flight, faults>>
  <2>1. /\ Frame
        /\ record[k.cur].status = "Pending" /\ record'[k.cur].status = "Settled"
        /\ record'[k.cur].proof = k.proof
        /\ \A x \in Ids : x # k.cur => record'[x] = record[x]
    BY <1>1, <1>2, Settling
  <2>2. /\ k' \in KRec /\ k'.pc = "next" /\ k'.todo = k.todo /\ k'.cur = k.cur
        /\ k'.order = k.order /\ k'.proof = k.proof
    BY <1>2, Gone
  <2>3. Typed' /\ FlightInv'
    BY <1>1, <1>2, <2>2, Facts, FlightQuiet DEF Typed, btcVars
  <2>4. KeeperInv'
    BY <1>1, <2>1, <2>2, SellerKept DEF KeeperInv, After, Early, Holding
  <2>5. Calm'
    <3>1. \A x \in Ids : Paid(x)' = Paid(x)
      BY <1>1 DEF Paid, btcVars
    <3>2. k.todo \subseteq Ids
      BY <1>1 DEF KRec
    <3> QED BY <1>1, <1>2, <2>1, <2>2, <3>1, <3>2, Facts DEF Calm, After
  <2> QED BY <1>1, <1>2, <2>1, <2>2, <2>3, <2>4, <2>5, Decision DEF After
<1>3. CASE ~ (Decidable(k.cur) /\ ProofAccepted(k.proof)) /\ Throw /\ UNCHANGED <<vars, flight, faults>>
  <2>1. KeeperSigned(k.cur[1], Self)
    BY <1>1, Facts, CoreAssumption, SettlementAssumption DEF KeeperSigned, AllMatched, Ids, MatchIds
  <2>2. record[k.cur].status # "Pending" \/ k.proof = "invalid"
    BY <1>3, <2>1 DEF Decidable, SettlePending, ProofAccepted
  <2> QED BY <1>1, <1>3, <2>2, LateThrow
<1>4. CASE GiveUp("finalize") /\ Throw /\ UNCHANGED vars
  BY <1>1, <1>4, GivenUp, LateThrow DEF btcVars
<1> QED BY <1>2, <1>3, <1>4 DEF CallFinalize

LEMMA CallFailStep == ASSUME SettleIInv, CallFail PROVE SettleIInv'
<1>1. /\ k.pc = "fail" /\ k \in KRec /\ k.cur \in Ids /\ k.cur \notin k.todo
      /\ k.pc \in After /\ UNCHANGED btcVars /\ k.todo \subseteq Ids
      /\ k.order # None => k.order = OrderOf(k.cur)
  BY Facts DEF CallFail, After, Typed, KeeperInv, KRec
<1>2. /\ k' \in KRec /\ k'.pc = "next" /\ k'.todo = k.todo /\ k'.cur = k.cur
      /\ k'.order = k.order /\ k'.proof = k.proof
  BY Gone DEF CallFail
<1>3. Frame => KeeperInv'
  BY <1>1, <1>2, SellerKept DEF KeeperInv, After, Early, Holding
<1>4. \A x \in Ids : Paid(x)' = Paid(x)
  BY <1>1 DEF Paid, btcVars
<1>5. CASE GiveUpOn(k.cur) /\ UNCHANGED <<flight, faults>>
  <2>1. /\ Frame
        /\ record[k.cur].status = "Pending" /\ record'[k.cur].status = "SettleFailed"
        /\ record'[k.cur].proof = record[k.cur].proof
        /\ \A x \in Ids : x # k.cur => record'[x] = record[x]
    BY <1>1, <1>5, Failing DEF GiveUpOn
  <2>2. Typed' /\ FlightInv'
    BY <1>1, <1>2, <1>5, Facts, FlightQuiet DEF Typed, btcVars
  <2>3. Calm'
    BY <1>1, <1>2, <1>4, <1>5, <2>1, Facts DEF Calm, After
  <2>4. record'[k.cur].proof = "spv" => PaidInBlock(k.cur)
    BY <1>1, <2>1, Facts DEF PaymentInv
  <2> QED BY <1>1, <1>2, <1>3, <1>5, <2>1, <2>2, <2>3, <2>4, Decision DEF After
<1>6. CASE ~ Decidable(k.cur) /\ UNCHANGED <<vars, flight, faults>>
  <2>1. KeeperSigned(k.cur[1], Self)
    BY <1>1, Facts, CoreAssumption, SettlementAssumption DEF KeeperSigned, AllMatched, Ids, MatchIds
  <2>2. record[k.cur].status # "Pending"
    BY <1>6, <2>1 DEF Decidable, SettlePending
  <2>3. Frame /\ record' = record /\ Typed' /\ FlightInv'
    BY <1>1, <1>2, <1>6, Facts, NoProgram, FlightQuiet DEF Typed, btcVars
  <2>4. Calm'
    BY <1>1, <1>6, <2>2, Facts DEF Calm
  <2>5. \A id \in Ids : Due(id) => Due(id)'
    BY <1>1, <1>2, <2>3 DEF Due, InWork, Early
  <2> QED BY <1>1, <1>3, <1>6, <2>3, <2>4, <2>5, Unpaid, RecordsStand DEF btcVars
<1>7. CASE GiveUp("fail") /\ UNCHANGED vars
  <2>1. Frame /\ record' = record /\ flight' \subseteq Msgs /\ FlightInv' /\ Fault
    BY <1>1, <1>7, NoProgram, GivenUp DEF btcVars
  <2>2. Typed' /\ Calm' /\ faults' = faults + 1
    BY <1>1, <1>2, <2>1, Facts, FaultType DEF Typed, Calm, btcVars
  <2> QED BY <1>1, <1>3, <2>1, <2>2, Unpaid, RecordsStand DEF btcVars
<1> QED BY <1>5, <1>6, <1>7 DEF CallFail

-----------------------------------------------------------------------------
(* From match to match *)

LEMMA IdleTyped ==
    /\ Idle \in KRec /\ Idle.pc = "idle" /\ Idle.todo = {} /\ Idle.cur = None
    /\ Idle.order = None /\ Idle.proof = "txid"
BY DEF Idle, KRec, TxProofs, Proofs

\* A match is taken up, or all of it is forgotten.
LEMMA Fresh ==
    ASSUME SettleIInv, UNCHANGED <<vars, flight, btcVars>>, k' \in KRec,
           k'.order = None, k'.proof = "txid", k'.pc \in {"idle", "next", "utxos", "fail"},
           k'.pc \in After => k'.cur \in Ids /\ k'.cur \notin k'.todo,
           \/ Fault
           \/ /\ UNCHANGED faults
              /\ k.pc \notin After
              /\ faults = 0 => /\ \A id \in k'.todo : record[id].status = "Pending"
                               /\ k'.pc \in After => record[k'.cur].status = "Pending"
              /\ \A id \in Ids : InWork(id)' => InWork(id) \/ record[id].status = "Pending"
    PROVE  SettleIInv'
<1>1. Frame /\ record' = record /\ FlightInv'
  BY NoProgram, FlightQuiet DEF btcVars
<1>2. KeeperInv'
  BY DEF KeeperInv, After, Early, Holding
<1>3. Typed'
  BY Facts, FaultType DEF Typed, btcVars
<1>4. CASE Fault
  <2>1. Calm' /\ faults' = faults + 1
    BY <1>4, FaultType DEF Calm
  <2> QED BY <1>1, <1>2, <1>3, <2>1, Unpaid, RecordsStand DEF btcVars
<1>5. CASE /\ UNCHANGED faults
           /\ k.pc \notin After
           /\ faults = 0 => /\ \A id \in k'.todo : record[id].status = "Pending"
                            /\ k'.pc \in After => record[k'.cur].status = "Pending"
           /\ \A id \in Ids : InWork(id)' => InWork(id) \/ record[id].status = "Pending"
  <2>1. \A id \in Ids : Due(id) => Due(id)'
    BY <1>1, <1>5 DEF Due, After
  <2>2. \A x \in Ids : Paid(x)' = Paid(x)
    BY DEF Paid, btcVars
  <2>3. Calm'
    BY <1>1, <1>5, <2>2, Facts DEF Calm, After
  <2> QED BY <1>1, <1>2, <1>3, <1>5, <2>1, <2>3, Unpaid, RecordsStand DEF btcVars
<1> QED BY <1>4, <1>5

LEMMA PollStep == ASSUME SettleIInv, Poll PROVE SettleIInv'
<1>1. k' = [Idle EXCEPT !.pc = "next", !.todo = PendingIds]
  BY DEF Poll
<1>2. PendingIds \subseteq Ids
  BY DEF PendingIds
<1>3. /\ k' \in KRec /\ k'.pc = "next" /\ k'.todo = PendingIds /\ k'.order = None
      /\ k'.proof = "txid"
  BY <1>1, <1>2, IdleTyped DEF KRec
<1>4. \A id \in Ids : InWork(id)' => record[id].status = "Pending"
  BY <1>3 DEF InWork, PendingIds, Early
<1>5. k.pc \notin After /\ \A id \in k'.todo : record[id].status = "Pending"
  BY <1>3 DEF Poll, After, PendingIds
<1> HIDE DEF InWork
<1> QED BY <1>3, <1>4, <1>5, Fresh DEF Poll, After

LEMMA TakeStep == ASSUME SettleIInv, NEW id \in Ids, Take(id) PROVE SettleIInv'
<1> DEFINE pc == IF {record[id].seller, record[id].buyer} \subseteq Store THEN "utxos" ELSE "fail"
<1>1. k' = [Idle EXCEPT !.todo = k.todo \ {id}, !.cur = id, !.pc = pc]
  BY DEF Take
<1>2. pc \in {"utxos", "fail"} /\ k \in KRec
  BY Facts DEF Typed
<1> HIDE DEF pc
<1>3. /\ k' \in KRec /\ k'.pc = pc /\ k'.todo = k.todo \ {id} /\ k'.cur = id
      /\ k'.order = None /\ k'.proof = "txid"
  BY <1>1, <1>2, IdleTyped DEF KRec, After
<1>4. /\ id \in k.todo /\ k.pc = "next" /\ UNCHANGED <<vars, flight, faults, btcVars>>
  BY DEF Take
<1>5. \A x \in Ids : InWork(x)' => InWork(x)
  BY <1>3, <1>4 DEF InWork
<1>6. faults = 0 => /\ \A x \in k'.todo : record[x].status = "Pending"
                   /\ record[k'.cur].status = "Pending"
  BY <1>3, <1>4, Facts DEF Calm
<1>7. k'.cur \in Ids /\ k'.cur \notin k'.todo
  BY <1>3
<1>8. k.pc \notin After /\ k'.pc \in {"idle", "next", "utxos", "fail"}
  BY <1>2, <1>3, <1>4 DEF After
<1> QED BY <1>3, <1>4, <1>5, <1>6, <1>7, <1>8, Fresh

\* The poll is over, or the process is.
LEMMA RestStep == ASSUME SettleIInv, PollDone \/ Crash PROVE SettleIInv'
<1>1. k' = Idle /\ UNCHANGED <<vars, flight, btcVars>>
  BY DEF PollDone, Crash
<1>2. \A x \in Ids : ~ InWork(x)'
  BY <1>1, IdleTyped DEF InWork, Early
<1>3. Fault \/ (UNCHANGED faults /\ k.pc \notin After)
  BY DEF PollDone, Crash, After
<1> QED BY <1>1, <1>2, <1>3, IdleTyped, Fresh DEF After

-----------------------------------------------------------------------------
(* The rest of the world *)

LEMMA Outside ==
    ASSUME SettleIInv, Frame, record' = record, UNCHANGED <<k, faults, coin, payments>>,
           flight' \subseteq flight, confirmed \subseteq confirmed', confirmed' \subseteq Txs
    PROVE  SettleIInv'
<1>1. FlightInv' /\ KeeperInv'
  BY FlightQuiet, KeeperQuiet
<1>2. Typed'
  BY Facts DEF Typed
<1>3. Calm' /\ \A id \in Ids : Due(id) => Due(id)'
  BY Facts DEF Calm, Paid, Due, InWork
<1> QED BY <1>1, <1>2, <1>3, Unpaid, RecordsStand

LEMMA LandStep == ASSUME SettleIInv, NEW msg \in flight, Land(msg) PROVE SettleIInv'
<1>1. /\ flight' = flight \ {msg} /\ UNCHANGED <<k, faults, btcVars>>
      /\ msg.match \in Ids /\ msg.proof \in TxProofs /\ faults # 0
  BY Facts DEF Land, Typed, Msgs, Calm
<1>2. FlightInv' /\ Typed' /\ Calm'
  BY <1>1, Facts, FlightQuiet DEF Typed, Calm, btcVars
<1>3. CASE /\ msg.kind = "consume"
           /\ ConsumeBtcApproval(msg.match[1], msg.order, Self, msg.tx, record[msg.match].fill)
  <2>1. Frame /\ record' = record
    BY <1>1, <1>3, Facts, Consuming DEF FlightInv
  <2> QED BY <1>1, <2>1, Facts, Outside DEF Typed, btcVars
<1>4. CASE msg.kind = "finalize" /\ FinalizeSettlement(msg.match, msg.proof, Self)
  <2>1. /\ Frame
        /\ record[msg.match].status = "Pending" /\ record'[msg.match].status = "Settled"
        /\ record'[msg.match].proof = msg.proof
        /\ \A x \in Ids : x # msg.match => record'[x] = record[x]
    BY <1>1, <1>4, Settling
  <2>2. /\ msg.proof = "spv" => PaidInBlock(msg.match)
        /\ BtcMode = "real" => Paid(msg.match)
    BY <1>4, Facts DEF FlightInv
  <2>3. KeeperInv'
    BY <1>1, <2>1, KeeperQuiet DEF btcVars
  <2> QED BY <1>1, <1>2, <2>1, <2>2, <2>3, Decision
<1>5. CASE msg.kind = "fail" /\ FailSettlement(msg.match, Self)
  <2>1. /\ Frame
        /\ record[msg.match].status = "Pending" /\ record'[msg.match].status = "SettleFailed"
        /\ record'[msg.match].proof = record[msg.match].proof
        /\ \A x \in Ids : x # msg.match => record'[x] = record[x]
    BY <1>1, <1>5, Failing
  <2>2. KeeperInv' /\ (record'[msg.match].proof = "spv" => PaidInBlock(msg.match))
    BY <1>1, <2>1, Facts, KeeperQuiet DEF btcVars, PaymentInv
  <2> QED BY <1>1, <1>2, <2>1, <2>2, Decision
<1>6. msg.kind \in {"consume", "finalize", "fail"}
  BY Facts DEF Typed, Msgs
<1> QED BY <1>3, <1>4, <1>5, <1>6 DEF Land

LEMMA LateApprovalStep ==
    ASSUME SettleIInv, NEW o \in Orders, NEW max \in Caps, NEW e \in Expiries,
           LateApproval(o, max, e)
    PROVE  SettleIInv'
<1>1. Next
  BY Facts DEF LateApproval, Next, ApprovalStep, AllMatched
<1>2. UNCHANGED <<order, keeper, record, keeperVars, btcVars>>
  BY DEF LateApproval, ApproveBtcSettlement, marketVars
<1>3. Frame
  BY <1>1, <1>2, Facts, OneShot DEF Frame, AllMatched
<1> QED BY <1>2, <1>3, Facts, Outside DEF keeperVars, btcVars, Typed

LEMMA ClockStep == ASSUME SettleIInv, Clock PROVE SettleIInv'
<1>1. Next /\ UNCHANGED <<order, keeper, record, keeperVars, btcVars>>
  BY DEF Clock, Next, Tick, marketVars
<1>2. Frame
  BY <1>1, Facts, OneShot DEF Frame, AllMatched
<1> QED BY <1>1, <1>2, Facts, Outside DEF keeperVars, btcVars, Typed

LEMMA SettleInvStep == SettleIInv /\ [SettlementNext]_allVars => SettleIInv'
<1> SUFFICES ASSUME SettleIInv, [SettlementNext]_allVars PROVE SettleIInv'
    OBVIOUS
<1>1. CASE KeeperStep
  BY <1>1, PollStep, RestStep, TakeStep, FetchUtxosStep, FindSellerOrderStep, RequestSignStep,
     ProbeApprovalStep, TryConsumeStep, BroadcastStep, FetchSpvProofStep, CallFinalizeStep,
     CallFailStep
  DEF KeeperStep
<1>2. CASE Crash
  BY <1>2, RestStep
<1>3. ASSUME NEW msg \in flight, Land(msg) \/ Drop(msg) PROVE SettleIInv'
  <2>1. CASE Drop(msg)
    <3>1. UNCHANGED <<vars, k, faults, btcVars>> /\ flight' \subseteq flight
      BY <2>1 DEF Drop
    <3> QED BY <3>1, Facts, NoProgram, Outside DEF btcVars, Typed
  <2> QED BY <1>3, <2>1, LandStep
<1>4. ASSUME NEW p \in payments, Confirm(p.tx) PROVE SettleIInv'
  <2>1. UNCHANGED <<vars, keeperVars, coin, payments>> /\ confirmed' = confirmed \cup {p.tx}
    BY <1>4 DEF Confirm
  <2>2. confirmed \subseteq confirmed' /\ confirmed' \subseteq Txs
    BY <2>1, Facts DEF Typed
  <2> QED BY <2>1, <2>2, NoProgram, Outside DEF keeperVars
<1>5. CASE \E o \in Orders, max \in Caps, e \in Expiries : LateApproval(o, max, e)
  BY <1>5, LateApprovalStep
<1>6. CASE Clock
  BY <1>6, ClockStep
<1>7. CASE UNCHANGED allVars
  <2>1. UNCHANGED <<vars, keeperVars, btcVars>>
    BY <1>7 DEF allVars
  <2> QED BY <2>1, Facts, NoProgram, Outside DEF keeperVars, btcVars, Typed
<1> QED BY <1>1, <1>2, <1>3, <1>4, <1>5, <1>6, <1>7 DEF SettlementNext

-----------------------------------------------------------------------------
(* The start *)

\* Orders 2i-1 and 2i are match i, and one of them sells.
LEMMA Halves ==
    ASSUME NEW i \in Nat \ {0}
    PROVE  /\ MatchOf(2 * i - 1) = i /\ MatchOf(2 * i) = i
           /\ Sells(2 * i - 1) <=> ~ Sells(2 * i)
<1>1. (2 * i) \div 2 = i /\ (2 * i + 1) \div 2 = i /\ (2 * i) % 2 = 0 /\ (2 * i - 1) % 2 = 1
  OBVIOUS
<1>2. MatchOf(2 * i - 1) = i /\ MatchOf(2 * i) = i
  BY <1>1 DEF MatchOf
<1> QED BY <1>1, <1>2 DEF Sells

LEMMA Whole ==
    ASSUME NEW n \in Nonces
    PROVE  /\ MatchOf(n) \in 1..MaxMatches
           /\ n = 2 * MatchOf(n) - 1 \/ n = 2 * MatchOf(n)
BY CoreAssumption, SettlementAssumption DEF MatchOf

LEMMA SettleInit0 ==
    ASSUME NEW s \in Traders, Init0(s, Self)
    PROVE  IInv /\ AllMatched /\ \A id \in Ids : record[id].status = "Pending" /\ record[id].proof = None
<1> USE CoreAssumption, SettlementAssumption
<1>1. PICK c \in Cts :
         order = [o \in Orders |->
             [owner |-> s, dwallet |-> DWalletOf(o[2]), ct |-> c, expiry |-> LastSlot,
              next |-> IF o[2] = 1 THEN None ELSE <<o[1], o[2] - 1>>, status |-> "Matched"]]
  BY DEF Init0
<1>2. PICK fill \in [Ids -> Fills] :
         record = [id \in Ids |->
             [a |-> <<id[1], 2 * id[2] - 1>>, b |-> <<id[1], 2 * id[2]>>,
              seller |-> Seller[id[2]], buyer |-> Buyer, fill |-> fill[id], proof |-> None,
              status |-> "Pending"]]
  BY DEF Init0
<1>3. PICK given \in SUBSET {o \in Orders : Sells(o[2])} :
         \E max \in [given -> Caps], e \in [given -> Expiries] :
           approval = [o \in Orders |-> IF o \notin given THEN NoApproval ELSE
               [approver |-> s, dwallet |-> DWalletOf(o[2]), max |-> max[o],
                expiry |-> e[o], consumedAt |-> 0, digest |-> None]]
  BY DEF Init0
<1>4. PICK max \in [given -> Caps], e \in [given -> Expiries] :
           approval = [o \in Orders |-> IF o \notin given THEN NoApproval ELSE
               [approver |-> s, dwallet |-> DWalletOf(o[2]), max |-> max[o],
                expiry |-> e[o], consumedAt |-> 0, digest |-> None]]
  BY <1>3
<1>5. /\ slot = FirstSlot /\ keeper = [m \in Markets |-> Self]
      /\ head = [m \in Markets |-> <<m, 2 * MaxMatches>>]
      /\ matchCount = [m \in Markets |-> MaxMatches] /\ activeCount = [m \in Markets |-> 0]
      /\ committed = [id \in Ids |-> Outputs] /\ intent = [id \in Ids |-> NoIntent]
  BY DEF Init0
<1>6. \A id \in Ids : /\ id[1] \in Markets /\ id[2] \in 1..MaxMatches /\ id[2] \in Nat \ {0}
                     /\ id = <<id[1], id[2]>>
                     /\ 2 * id[2] - 1 \in Nonces /\ 2 * id[2] \in Nonces
  BY DEF Ids, MatchIds
<1>7. \A o \in Orders : /\ o[1] \in Markets /\ o[2] \in Nonces /\ DWalletOf(o[2]) \in DWallets
                        /\ o = <<o[1], o[2]>>
  BY Whole DEF Orders, DWalletOf
<1>8. order \in [Orders -> OrderRec]
  <2> SUFFICES ASSUME NEW o \in Orders PROVE order[o] \in OrderRec
      BY <1>1
  <2>1. (IF o[2] = 1 THEN None ELSE <<o[1], o[2] - 1>>) \in Orders \cup {None}
    BY <1>7 DEF Orders
  <2> QED BY <1>1, <1>7, <2>1 DEF OrderRec, OrderStatus, Expiries
<1>9. record \in [Ids -> RecordRec]
  <2> SUFFICES ASSUME NEW id \in Ids PROVE record[id] \in RecordRec
      BY <1>2
  <2>1. <<id[1], 2 * id[2] - 1>> \in Orders /\ <<id[1], 2 * id[2]>> \in Orders
    BY <1>6 DEF Orders
  <2>2. Seller[id[2]] \in DWallets /\ fill[id] \in Fills
    BY <1>2, <1>6
  <2> QED BY <1>2, <2>1, <2>2 DEF RecordRec, SettleStatus
<1>10. approval \in [Orders -> ApprovalRec]
  <2> SUFFICES ASSUME NEW o \in Orders PROVE approval[o] \in ApprovalRec
      BY <1>4
  <2>1. CASE o \in given
    <3>1. max[o] \in Caps /\ e[o] \in Expiries
      BY <1>4, <2>1
    <3> QED BY <1>4, <1>7, <2>1, <3>1 DEF ApprovalRec
  <2> QED BY <1>4, <2>1, BlankTyped
<1>11. TypeOK
  <2>1. head \in [Markets -> Orders \cup {None}]
    BY <1>5 DEF Orders
  <2> QED BY <1>5, <1>8, <1>9, <1>10, <2>1, BlankTyped DEF TypeOK, Slots, Ids
<1>12. BlankAccounts
  BY <1>2, <1>4, <1>5 DEF BlankAccounts, Ids
<1>13. CountExact
  <2>1. \A m \in Markets : Active(m) = {}
    BY <1>1 DEF Active
  <2> QED BY <1>5, <2>1, FS_EmptySet DEF CountExact
<1>14. MatchExclusive
  <2>0. \A id \in Ids, o \in Orders :
            Names(record[id], o) <=> o = <<id[1], 2 * id[2] - 1>> \/ o = <<id[1], 2 * id[2]>>
    BY <1>2 DEF Names
  <2>1. ASSUME NEW o \in Orders
        PROVE  order[o].status = "Matched" /\ \E id \in Ids : Names(record[id], o)
    <3>1. <<o[1], MatchOf(o[2])>> \in Ids
      BY <1>7, Whole DEF Ids, MatchIds
    <3>2. o[2] = 2 * MatchOf(o[2]) - 1 \/ o[2] = 2 * MatchOf(o[2])
      BY <1>7, Whole
    <3>3. o = <<o[1], 2 * MatchOf(o[2]) - 1>> \/ o = <<o[1], 2 * MatchOf(o[2])>>
      BY <1>7, <3>2
    <3>4. Names(record[<<o[1], MatchOf(o[2])>>], o)
      BY <2>0, <3>1, <3>3
    <3> QED BY <1>1, <3>1, <3>4
  <2>2. ASSUME NEW i \in Ids, NEW j \in Ids, NEW o \in Orders,
               Names(record[i], o), Names(record[j], o)
        PROVE  i = j
    <3>1. ASSUME NEW id \in Ids, Names(record[id], o)
          PROVE  id = <<o[1], MatchOf(o[2])>>
      <4>1. o = <<id[1], 2 * id[2] - 1>> \/ o = <<id[1], 2 * id[2]>>
        BY <2>0, <3>1
      <4>2. o[1] = id[1] /\ (o[2] = 2 * id[2] - 1 \/ o[2] = 2 * id[2])
        BY <4>1
      <4>3. MatchOf(2 * id[2] - 1) = id[2] /\ MatchOf(2 * id[2]) = id[2]
        BY <1>6, Halves
      <4> QED BY <1>6, <4>2, <4>3
    <3> QED BY <2>2, <3>1
  <2> QED BY <2>1, <2>2 DEF MatchExclusive, Ids
<1>15. MatchLedger
  BY <1>2, <1>5, <1>6 DEF MatchLedger, Ids, NoIntent
<1>16. \A id \in Ids :
          LET a == record[id].a  b == record[id].b IN
          /\ a \in Orders /\ b \in Orders /\ a[1] = id[1] /\ b[1] = id[1] /\ a # b
          /\ <<record[id].seller, record[id].buyer>> \in
                {<<order[a].dwallet, order[b].dwallet>>, <<order[b].dwallet, order[a].dwallet>>}
          /\ order[a].dwallet # order[b].dwallet
          /\ record[id].fill \in Fills
  <2> SUFFICES ASSUME NEW id \in Ids
               PROVE  LET a == record[id].a  b == record[id].b IN
                      /\ a \in Orders /\ b \in Orders /\ a[1] = id[1] /\ b[1] = id[1] /\ a # b
                      /\ <<record[id].seller, record[id].buyer>> \in
                            {<<order[a].dwallet, order[b].dwallet>>,
                             <<order[b].dwallet, order[a].dwallet>>}
                      /\ order[a].dwallet # order[b].dwallet
                      /\ record[id].fill \in Fills
      OBVIOUS
  <2> DEFINE i == id[2]
             a == <<id[1], 2 * i - 1>>
             b == <<id[1], 2 * i>>
  <2>1. a \in Orders /\ b \in Orders /\ a # b /\ a[2] = 2 * i - 1 /\ b[2] = 2 * i
    BY <1>6 DEF Orders
  <2>2. /\ MatchOf(2 * i - 1) = i /\ MatchOf(2 * i) = i
        /\ Sells(2 * i - 1) <=> ~ Sells(2 * i)
    BY <1>6, Halves
  <2>3. <<DWalletOf(2 * i - 1), DWalletOf(2 * i)>> \in {<<Seller[i], Buyer>>, <<Buyer, Seller[i]>>}
    BY <2>2 DEF DWalletOf
  <2>4. order[a].dwallet = DWalletOf(2 * i - 1) /\ order[b].dwallet = DWalletOf(2 * i)
    BY <1>1, <2>1
  <2>5. Seller[i] # Buyer
    BY <1>6
  <2>6. /\ record[id].a = a /\ record[id].b = b /\ record[id].seller = Seller[i]
        /\ record[id].buyer = Buyer /\ record[id].fill \in Fills
    BY <1>2
  <2> QED BY <2>1, <2>3, <2>4, <2>5, <2>6
<1>17. MatchBinds
  BY <1>1, <1>5, <1>16 DEF MatchBinds, Submitted, Ids, NoIntent
<1>18. SnapshotCommitted /\ RecordAfterCommit
  BY <1>5 DEF SnapshotCommitted, RecordAfterCommit, NoIntent, Ids
<1>19. ApprovalBinds
  BY <1>1, <1>4, <1>10 DEF ApprovalBinds, ApprovalRec, Expiries, NoApproval
<1>20. AllMatched
  BY <1>1, <1>2, <1>5, <1>16 DEF AllMatched
<1> QED BY <1>2, <1>11, <1>12, <1>13, <1>14, <1>15, <1>17, <1>18, <1>19, <1>20 DEF IInv, MatchInv

LEMMA SettleInvInit == SettlementInit => SettleIInv
<1> SUFFICES ASSUME SettlementInit PROVE SettleIInv
    OBVIOUS
<1>1. /\ IInv /\ AllMatched
      /\ \A id \in Ids : record[id].status = "Pending" /\ record[id].proof = None
  BY SettleInit0 DEF SettlementInit
<1>2. k \in KRec /\ k.pc = "idle" /\ k.todo = {} /\ k.cur = None /\ k.order = None /\ k.proof = "txid"
  BY IdleTyped DEF SettlementInit
<1>3. payments = {} /\ flight = {} /\ confirmed = {} /\ faults = 0
  BY DEF SettlementInit
<1>4. Typed
  <2>1. ASSUME NEW c \in Coins
        PROVE  coin[c].owner \in DWallets \cup {None}
    <3>1. PICK n \in 0..MaxCoins : DOMAIN Funding = 1..n
      BY SettlementAssumption
    <3>2. Cardinality(DOMAIN Funding) = n
      BY <3>1, FS_Interval, SettlementAssumption
    <3>3. coin[c] = IF c > n THEN NoCoin
                    ELSE [owner |-> Funding[c][1], value |-> Funding[c][2], from |-> None]
      BY <3>2 DEF SettlementInit
    <3>4. ~ (c > n) => Funding[c][1] \in DWallets
      BY <3>1, SettlementAssumption DEF Coins
    <3> QED BY <3>3, <3>4 DEF NoCoin
  <2>2. DOMAIN coin = Coins
    BY DEF SettlementInit
  <2> QED BY <1>2, <1>3, <2>1, <2>2, FS_EmptySet, SettlementAssumption DEF Typed
<1>5. KeeperInv /\ FlightInv /\ Calm
  BY <1>2, <1>3 DEF KeeperInv, FlightInv, Calm, Paid, After, Early, Holding
<1>6. PaymentInv
  <2>1. \A id \in Ids : record[id].proof # "spv"
    BY <1>1, SettlementAssumption DEF TxProofs, Proofs
  <2> QED BY <1>1, <1>3, <2>1 DEF PaymentInv
<1>7. Budget
  <2>1. \A id \in Ids : PaymentsOf(id) = {}
    BY <1>3 DEF PaymentsOf
  <2> QED BY <1>3, <2>1, FS_EmptySet DEF Budget
<1> QED BY <1>1, <1>4, <1>5, <1>6, <1>7 DEF SettleIInv

-----------------------------------------------------------------------------
(* Theorems *)

\* The program's invariant, and what ties the keeper, its transactions in
\* flight, its payments and the records together.
THEOREM SettlementInvariance == SettlementSpec => []SettleIInv
BY SettleInvInit, SettleInvStep, PTL DEF SettlementSpec

\* Types; a keeper past its coins has a transaction, and one that pays has
\* heard from the gate.
THEOREM SettlementTypeCorrect == SettlementSpec => []SettlementTypeOK
<1>1. SettleIInv => SettlementTypeOK
  <2> SUFFICES ASSUME SettleIInv PROVE SettlementTypeOK
      OBVIOUS
  <2>1. None \notin Txs
    BY CoreAssumption, SettlementAssumption
  <2> QED BY <2>1, Facts DEF SettlementTypeOK, Typed, KRec, After, KeeperInv, Holding
<1> QED BY <1>1, SettlementInvariance, PTL

\* A payment made under an approval is the one its approval recorded, within
\* its amount, for ever: no crash, lost answer or late transaction makes the
\* keeper pay a second time under it.
THEOREM PaymentsAudited == SettlementSpec => []AuditTrail
<1>1. SettleIInv => AuditTrail
  BY Facts DEF PaymentInv, AuditTrail, Recorded
<1> QED BY <1>1, SettlementInvariance, PTL

\* In real mode no failure leads to a Settled match without a payment.
THEOREM SettledArePaid == SettlementSpec => []SettledPaid
<1>1. SettleIInv => SettledPaid
  BY Facts DEF PaymentInv, SettledPaid, Paid, PaymentsOf
<1> QED BY <1>1, SettlementInvariance, PTL

\* An spv_verified record has its payment in a block, whatever was lost or
\* came late in between.
THEOREM ProofsConfirmed == SettlementSpec => []SpvConfirmed
<1>1. SettleIInv => SpvConfirmed
  BY Facts DEF PaymentInv, SpvConfirmed, PaidInBlock, PaymentsOf
<1> QED BY <1>1, SettlementInvariance, PTL

\* With no failure, a failed match has moved no bitcoin.
THEOREM FailuresHonest == SettlementSpec => []HonestFailure
<1>1. SettleIInv => HonestFailure
  <2> SUFFICES ASSUME SettleIInv, faults = 0, NEW id \in Ids, record[id].status = "SettleFailed"
               PROVE  PaymentsOf(id) = {}
      BY DEF HonestFailure
  <2>1. ~ Paid(id)
    BY Facts DEF Calm, After
  <2> QED BY <2>1 DEF Paid, PaymentsOf
<1> QED BY <1>1, SettlementInvariance, PTL

\* A match is paid at most once more than there were failures.
THEOREM PaymentsPerFailure == SettlementSpec => []PaymentsBounded
<1>1. SettleIInv => PaymentsBounded
  <2> SUFFICES ASSUME SettleIInv, NEW id \in Ids PROVE Cardinality(PaymentsOf(id)) <= 1 + faults
      BY DEF PaymentsBounded
  <2>1. IsFiniteSet(PaymentsOf(id))
    BY Facts, FS_Subset DEF Typed, PaymentsOf
  <2>2. Cardinality(PaymentsOf(id)) \in Nat /\ faults \in Nat
    BY <2>1, FS_CardinalityType, Facts, SettlementAssumption DEF Typed
  <2> QED BY <2>2, Facts DEF Budget
<1> QED BY <1>1, SettlementInvariance, PTL
====
