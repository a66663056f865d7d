---- MODULE ObsidianCoreProofs ----
(***************************************************************************)
(* Theorems about the program, for any number of markets, orders, wallets  *)
(* and matches.  Each part of the inductive invariant has a step lemma     *)
(* with one step per action that can disturb it.  The comparator, which    *)
(* the program runs on ciphertexts, is at the end.                         *)
(***************************************************************************)
EXTENDS ObsidianCore, MatchGraph, Induction

-----------------------------------------------------------------------------
(* Typing *)

LEMMA BlankTyped ==
    /\ NoOrder \in OrderRec /\ NoIntent \in IntentRec
    /\ NoRecord \in RecordRec /\ NoApproval \in ApprovalRec
BY CoreAssumption
DEF NoOrder, OrderRec, NoIntent, IntentRec, NoRecord, RecordRec, NoApproval, ApprovalRec,
    Expiries, OrderStatus, SettleStatus

LEMMA TypeInit == Init => TypeOK
BY BlankTyped, CoreAssumption DEF Init, TypeOK, Slots

\* An open intent names two orders that exist.
LEMMA IntentOrders ==
    ASSUME TypeOK, MatchBinds, NEW id \in MatchIds, intent[id].open
    PROVE  /\ id[1] \in Markets
           /\ intent[id].a \in Orders /\ intent[id].b \in Orders
           /\ intent[id].a[1] = id[1] /\ intent[id].b[1] = id[1]
           /\ intent[id].a # intent[id].b
BY DEF MatchBinds, Submitted, MatchIds

LEMMA TypeStep == TypeOK /\ MatchBinds /\ [Next]_vars => TypeOK'
<1> SUFFICES ASSUME TypeOK, MatchBinds, [Next]_vars PROVE TypeOK'
    OBVIOUS
<1> USE CoreAssumption DEF TypeOK
<1>1. ASSUME NEW m \in Markets, NEW k \in Keepers, InitializeMarket(m, k)
      PROVE  TypeOK'
  BY <1>1 DEF InitializeMarket
<1>2. ASSUME NEW o \in Orders, NEW s \in Traders, NEW d \in DWallets, NEW c \in Cts,
             NEW e \in Expiries, SubmitOrder(o, s, d, c, e)
      PROVE  TypeOK'
  <2>1. o[1] \in Markets
    BY DEF Orders
  <2>2. [owner |-> s, dwallet |-> d, ct |-> c, expiry |-> e, next |-> NextInBook(o),
         status |-> "Active"] \in OrderRec
    BY <2>1 DEF OrderRec, OrderStatus, NextInBook
  <2>3. order' \in [Orders -> OrderRec]
    BY <1>2, <2>2 DEF SubmitOrder
  <2>4. /\ head' \in [Markets -> Orders \cup {None}]
        /\ activeCount' \in [Markets -> 0..MaxActive]
    BY <1>2, <2>1 DEF SubmitOrder, BookHasRoom
  <2> QED  BY <1>2, <2>3, <2>4 DEF SubmitOrder
<1>3. ASSUME NEW o \in Orders, NEW s \in Traders, CancelOrder(o, s)
      PROVE  TypeOK'
  <2>1. o[1] \in Markets
    BY DEF Orders
  <2>2. [order[o] EXCEPT !.status = "Cancelled"] \in OrderRec
    BY DEF OrderRec, OrderStatus
  <2>3. order' \in [Orders -> OrderRec]
    BY <1>3, <2>2 DEF CancelOrder
  <2>4. activeCount' \in [Markets -> 0..MaxActive]
    BY <1>3, <2>1 DEF CancelOrder, SaturatingSub
  <2> QED  BY <1>3, <2>3, <2>4 DEF CancelOrder
<1>4. ASSUME NEW o \in Orders, NEW s \in Traders, NEW max \in Caps, NEW e \in Expiries,
             ApproveBtcSettlement(o, s, max, e)
      PROVE  TypeOK'
  <2>1. [approver |-> s, dwallet |-> order[o].dwallet, max |-> max, expiry |-> e,
         consumedAt |-> 0, digest |-> None] \in ApprovalRec
    BY DEF ApprovalRec, OrderRec
  <2>2. approval' \in [Orders -> ApprovalRec]
    BY <1>4, <2>1 DEF ApproveBtcSettlement
  <2> QED  BY <1>4, <2>2 DEF ApproveBtcSettlement, marketVars
<1>5. ASSUME NEW m \in Markets, NEW o \in Orders, NEW s \in Keepers, NEW g \in Digests,
             NEW n \in Fills, ConsumeBtcApproval(m, o, s, g, n)
      PROVE  TypeOK'
  <2>0. approval[o] \in ApprovalRec
    OBVIOUS
  <2>1. [approval[o] EXCEPT !.consumedAt = slot, !.digest = g] \in ApprovalRec
    BY <2>0 DEF ApprovalRec
  <2>2. approval' \in [Orders -> ApprovalRec]
    BY <1>5, <2>1 DEF ConsumeBtcApproval
  <2> QED  BY <1>5, <2>2 DEF ConsumeBtcApproval, marketVars
<1>6. ASSUME NEW m \in Markets, NEW i \in 1..MaxMatches, NEW a \in Orders,
             NEW b \in Orders, NEW ca \in Cts, NEW cb \in Cts, NEW s \in Keepers,
             TryMatch(m, i, a, b, ca, cb, s)
      PROVE  TypeOK'
  <2>1. [open |-> TRUE, a |-> a, b |-> b, inputs |-> <<ca, cb>>, snapshot |-> {}]
            \in IntentRec
    BY DEF IntentRec
  <2>2. intent' \in [MatchIds -> IntentRec]
    BY <1>6, <2>1 DEF TryMatch
  <2>3. matchCount' \in [Markets -> 0..MaxMatches]
    BY <1>6 DEF TryMatch
  <2> QED  BY <1>6, <2>2, <2>3 DEF TryMatch
<1>7. ASSUME NEW id \in MatchIds, NEW out \in Outputs, ExecutorCommit(id, out)
      PROVE  TypeOK'
  BY <1>7 DEF ExecutorCommit, marketVars
<1>8. ASSUME NEW id \in MatchIds, NEW s \in Keepers, RequestDecryption(id, s)
      PROVE  TypeOK'
  <2>0. intent[id] \in IntentRec /\ committed[id] \subseteq Outputs
    OBVIOUS
  <2>1. [intent[id] EXCEPT !.snapshot = committed[id]] \in IntentRec
    BY <2>0 DEF IntentRec
  <2>2. intent' \in [MatchIds -> IntentRec]
    BY <1>8, <2>1 DEF RequestDecryption
  <2> QED  BY <1>8, <2>2 DEF RequestDecryption, marketVars
<1>9. ASSUME NEW id \in MatchIds, NEW n \in Fills, NEW sellerIsA \in BOOLEAN,
             NEW s \in Keepers, FinalizeDecryption(id, n, sellerIsA, s)
      PROVE  TypeOK'
  <2> DEFINE a == intent[id].a
             b == intent[id].b
  <2>0. id[1] \in Markets
    BY DEF MatchIds
  <2>1. a \in Orders /\ b \in Orders
    BY <1>9, IntentOrders DEF FinalizeDecryption
  <2>2. order' \in [Orders -> OrderRec]
    <3>1. order' = [order EXCEPT ![a].status = "Matched", ![b].status = "Matched"]
      BY <1>9 DEF FinalizeDecryption, Matched
    <3>2. \A r \in OrderRec : [r EXCEPT !.status = "Matched"] \in OrderRec
      BY DEF OrderRec, OrderStatus
    <3> QED  BY <2>1, <3>1, <3>2
  <2>3. intent' \in [MatchIds -> IntentRec]
    BY <1>9, BlankTyped DEF FinalizeDecryption, ClosedIntent
  <2>4. activeCount' \in [Markets -> 0..MaxActive]
    BY <1>9, <2>0 DEF FinalizeDecryption, SaturatingSub
  <2>5. record' \in [MatchIds -> RecordRec]
    <3>1. /\ order[a].dwallet \in DWallets \cup {None}
          /\ order[b].dwallet \in DWallets \cup {None}
      BY <2>1 DEF OrderRec
    <3>2. n \in Fills \cup {0}
      OBVIOUS
    <3>3. [a |-> a, b |-> b,
           seller |-> IF sellerIsA THEN order[a].dwallet ELSE order[b].dwallet,
           buyer |-> IF sellerIsA THEN order[b].dwallet ELSE order[a].dwallet,
           fill |-> n, proof |-> None, status |-> "Pending"] \in RecordRec
      BY <2>1, <3>1, <3>2 DEF RecordRec, SettleStatus
    <3> QED  BY <1>9, <3>3 DEF FinalizeDecryption
  <2> QED  BY <1>9, <2>2, <2>3, <2>4, <2>5 DEF FinalizeDecryption
<1>10. ASSUME NEW id \in MatchIds, NEW proof \in TxProofs, NEW s \in Keepers,
              FinalizeSettlement(id, proof, s)
       PROVE  TypeOK'
  <2>1. \A r \in RecordRec : [r EXCEPT !.status = "Settled", !.proof = proof] \in RecordRec
    BY <1>10 DEF FinalizeSettlement, ProofAccepted, TxProofs, RecordRec, SettleStatus
  <2>2. record' \in [MatchIds -> RecordRec]
    BY <1>10, <2>1 DEF FinalizeSettlement
  <2> QED  BY <1>10, <2>2 DEF FinalizeSettlement, marketVars
<1>11. ASSUME NEW id \in MatchIds, NEW s \in Keepers, FailSettlement(id, s)
       PROVE  TypeOK'
  <2>1. [record[id] EXCEPT !.status = "SettleFailed"] \in RecordRec
    BY DEF RecordRec, SettleStatus
  <2>2. record' \in [MatchIds -> RecordRec]
    BY <1>11, <2>1 DEF FailSettlement
  <2> QED  BY <1>11, <2>2 DEF FailSettlement, marketVars
<1>12. CASE Tick
  BY <1>12 DEF Tick, marketVars, Slots
<1>13. CASE UNCHANGED vars
  BY <1>13 DEF vars, marketVars
<1> QED
  BY <1>1, <1>2, <1>3, <1>4, <1>5, <1>6, <1>7, <1>8, <1>9, <1>10, <1>11, <1>12, <1>13
  DEF Next, OrderStep, ApprovalStep, MatchStep, SettleStep

-----------------------------------------------------------------------------
(* Blank accounts *)

LEMMA BlankStep ==
    TypeOK /\ MatchBinds /\ BlankAccounts /\ [Next]_vars => BlankAccounts'
<1> SUFFICES ASSUME TypeOK, MatchBinds, BlankAccounts, [Next]_vars PROVE BlankAccounts'
    OBVIOUS
<1> USE CoreAssumption DEF BlankAccounts
<1>1. ASSUME NEW m \in Markets, NEW k \in Keepers, InitializeMarket(m, k)
      PROVE  BlankAccounts'
  BY <1>1 DEF InitializeMarket, TypeOK
<1>2. ASSUME NEW o \in Orders, NEW s \in Traders, NEW d \in DWallets, NEW c \in Cts,
             NEW e \in Expiries, SubmitOrder(o, s, d, c, e)
      PROVE  BlankAccounts'
  BY <1>2 DEF SubmitOrder, TypeOK
<1>3. ASSUME NEW o \in Orders, NEW s \in Traders, CancelOrder(o, s)
      PROVE  BlankAccounts'
  BY <1>3 DEF CancelOrder, SaturatingSub, TypeOK
<1>4. ASSUME NEW o \in Orders, NEW s \in Traders, NEW max \in Caps, NEW e \in Expiries,
             ApproveBtcSettlement(o, s, max, e)
      PROVE  BlankAccounts'
  BY <1>4 DEF ApproveBtcSettlement, TypeOK, marketVars
<1>5. ASSUME NEW m \in Markets, NEW o \in Orders, NEW s \in Keepers, NEW g \in Digests,
             NEW n \in Fills, ConsumeBtcApproval(m, o, s, g, n)
      PROVE  BlankAccounts'
  <2>1. approval'[o].approver # None
    BY <1>5 DEF ConsumeBtcApproval, Consumable, TypeOK, ApprovalRec
  <2>2. \A p \in Orders : p # o => approval'[p] = approval[p]
    BY <1>5 DEF ConsumeBtcApproval, TypeOK
  <2> QED  BY <1>5, <2>1, <2>2 DEF ConsumeBtcApproval, marketVars
<1>6. ASSUME NEW m \in Markets, NEW i \in 1..MaxMatches, NEW a \in Orders,
             NEW b \in Orders, NEW ca \in Cts, NEW cb \in Cts, NEW s \in Keepers,
             TryMatch(m, i, a, b, ca, cb, s)
      PROVE  BlankAccounts'
  BY <1>6 DEF TryMatch, KeeperSigned, TypeOK
<1>7. ASSUME NEW id \in MatchIds, NEW n \in Fills, NEW sellerIsA \in BOOLEAN,
             NEW s \in Keepers, FinalizeDecryption(id, n, sellerIsA, s)
      PROVE  BlankAccounts'
  <2>1. record'[id].status # "Absent"
    BY <1>7 DEF FinalizeDecryption, TypeOK
  <2>2. \A j \in MatchIds : j # id => record'[j] = record[j]
    BY <1>7 DEF FinalizeDecryption, TypeOK
  <2>3. \A j \in MatchIds : record'[j].status = "Absent" => record'[j] = NoRecord
    BY <2>1, <2>2
  <2> QED  BY <1>7, <2>3 DEF FinalizeDecryption, KeeperSigned, TypeOK
<1>8. ASSUME NEW id \in MatchIds, NEW proof \in TxProofs, NEW s \in Keepers,
             FinalizeSettlement(id, proof, s)
      PROVE  BlankAccounts'
  <2>1. record'[id].status # "Absent"
    BY <1>8 DEF FinalizeSettlement, TypeOK, RecordRec
  <2>2. \A j \in MatchIds : j # id => record'[j] = record[j]
    BY <1>8 DEF FinalizeSettlement, TypeOK
  <2> QED  BY <1>8, <2>1, <2>2 DEF FinalizeSettlement, marketVars
<1>9. ASSUME NEW id \in MatchIds, NEW s \in Keepers, FailSettlement(id, s)
      PROVE  BlankAccounts'
  <2>1. record'[id].status # "Absent"
    BY <1>9 DEF FailSettlement, TypeOK, RecordRec
  <2>2. \A j \in MatchIds : j # id => record'[j] = record[j]
    BY <1>9 DEF FailSettlement, TypeOK
  <2> QED  BY <1>9, <2>1, <2>2 DEF FailSettlement, marketVars
<1>10. CASE UNCHANGED <<keeper, head, matchCount, activeCount, record, approval>>
  BY <1>10
<1> QED
  BY <1>1, <1>2, <1>3, <1>4, <1>5, <1>6, <1>7, <1>8, <1>9, <1>10
  DEF Next, OrderStep, ApprovalStep, MatchStep, SettleStep, vars, marketVars, Tick,
      ExecutorCommit, RequestDecryption

-----------------------------------------------------------------------------
(* active_order_count counts *)

\* The live orders of a market are at most as many as its nonces.
LEMMA ActiveFinite == \A m \in Markets : IsFiniteSet(Active(m))
<1> SUFFICES ASSUME NEW m \in Markets PROVE IsFiniteSet(Active(m))
    OBVIOUS
<1>1. IsFiniteSet({m} \X Nonces)
  BY FS_Singleton, FS_Product, CoreAssumption
<1>2. Active(m) \subseteq {m} \X Nonces
  BY DEF Active, Orders
<1> QED  BY <1>1, <1>2, FS_Subset

LEMMA CountStep ==
    TypeOK /\ MatchBinds /\ BlankAccounts /\ CountExact /\ [Next]_vars => CountExact'
<1> SUFFICES ASSUME TypeOK, MatchBinds, BlankAccounts, CountExact, [Next]_vars,
                    NEW m \in Markets
             PROVE  activeCount'[m] = Cardinality(Active(m)')
    BY DEF CountExact
<1> DEFINE n == Cardinality(Active(m))
<1>0. /\ IsFiniteSet(Active(m)) /\ n \in Nat
      /\ activeCount[m] = n /\ activeCount \in [Markets -> Nat]
  BY ActiveFinite, FS_CardinalityType DEF CountExact, TypeOK
<1>1. ASSUME NEW p \in Markets, NEW k \in Keepers, InitializeMarket(p, k)
      PROVE  activeCount'[m] = Cardinality(Active(m)')
  <2>1. Active(m)' = Active(m)
    BY <1>1 DEF InitializeMarket, Active
  <2>2. activeCount'[m] = activeCount[m]
    BY <1>0, <1>1 DEF InitializeMarket, BlankAccounts
  <2> QED  BY <1>0, <2>1, <2>2
<1>2. ASSUME NEW o \in Orders, NEW s \in Traders, NEW d \in DWallets, NEW c \in Cts,
             NEW e \in Expiries, SubmitOrder(o, s, d, c, e)
      PROVE  activeCount'[m] = Cardinality(Active(m)')
  <2>1. CASE o[1] = m
    <3>1. Active(m)' = Active(m) \cup {o}
      BY <1>2, <2>1 DEF SubmitOrder, Active, TypeOK
    <3>2. o \notin Active(m)
      BY <1>2 DEF SubmitOrder, Active
    <3>3. Cardinality(Active(m)') = n + 1
      BY <1>0, <3>1, <3>2, FS_AddElement
    <3> QED  BY <1>0, <1>2, <2>1, <3>3 DEF SubmitOrder
  <2>2. CASE o[1] # m
    <3>1. Active(m)' = Active(m)
      BY <1>2, <2>2 DEF SubmitOrder, Active, TypeOK
    <3> QED  BY <1>0, <1>2, <2>2, <3>1 DEF SubmitOrder
  <2> QED  BY <2>1, <2>2
<1>3. ASSUME NEW o \in Orders, NEW s \in Traders, CancelOrder(o, s)
      PROVE  activeCount'[m] = Cardinality(Active(m)')
  <2>1. CASE o[1] = m
    <3>1. Active(m)' = Active(m) \ {o}
      BY <1>3, <2>1 DEF CancelOrder, Active, TypeOK, OrderRec
    <3>2. o \in Active(m)
      BY <1>3, <2>1 DEF CancelOrder, Active
    <3>3. Cardinality(Active(m)') = n - 1 /\ n > 0
      BY <1>0, <3>1, <3>2, FS_RemoveElement, FS_EmptySet
    <3> QED  BY <1>0, <1>3, <2>1, <3>3 DEF CancelOrder, SaturatingSub
  <2>2. CASE o[1] # m
    <3>1. Active(m)' = Active(m)
      BY <1>3, <2>2 DEF CancelOrder, Active, TypeOK, OrderRec
    <3> QED  BY <1>0, <1>3, <2>2, <3>1 DEF CancelOrder
  <2> QED  BY <2>1, <2>2
<1>4. ASSUME NEW id \in MatchIds, NEW f \in Fills, NEW sellerIsA \in BOOLEAN,
             NEW s \in Keepers, FinalizeDecryption(id, f, sellerIsA, s)
      PROVE  activeCount'[m] = Cardinality(Active(m)')
  <2> DEFINE a == intent[id].a
             b == intent[id].b
  <2>0. /\ a \in Orders /\ b \in Orders /\ a # b
        /\ a[1] = id[1] /\ b[1] = id[1] /\ id[1] \in Markets
        /\ order[a].status = "Active" /\ order[b].status = "Active"
    BY <1>4, IntentOrders DEF FinalizeDecryption, BothActive
  <2>1. \A o \in Orders : order'[o].status =
            IF o \in {a, b} THEN "Matched" ELSE order[o].status
    BY <1>4, <2>0 DEF FinalizeDecryption, Matched, TypeOK, OrderRec
  <2>2. CASE id[1] = m
    <3>1. Active(m)' = (Active(m) \ {a}) \ {b}
      BY <2>1 DEF Active
    <3>2. a \in Active(m) /\ b \in Active(m) \ {a}
      BY <2>0, <2>2 DEF Active
    <3>3. IsFiniteSet(Active(m) \ {a}) /\ Cardinality(Active(m) \ {a}) = n - 1
      BY <1>0, <3>2, FS_RemoveElement
    <3>4. Cardinality(Active(m)') = (n - 1) - 1
      <4>1. Cardinality((Active(m) \ {a}) \ {b}) = Cardinality(Active(m) \ {a}) - 1
        BY <3>2, <3>3, FS_RemoveElement
      <4> QED  BY <3>1, <3>3, <4>1
    <3>5. n - 1 # 0
      BY <3>2, <3>3, FS_EmptySet
    <3>6. n # 0
      BY <1>0, <3>2, FS_EmptySet
    <3>7. activeCount'[m] = SaturatingSub(activeCount[m], 2)
      BY <1>0, <1>4, <2>2 DEF FinalizeDecryption
    <3> QED  BY <1>0, <3>4, <3>5, <3>6, <3>7 DEF SaturatingSub
  <2>3. CASE id[1] # m
    <3>1. Active(m)' = Active(m)
      BY <2>0, <2>1, <2>3 DEF Active
    <3> QED  BY <1>0, <1>4, <2>0, <2>3, <3>1 DEF FinalizeDecryption
  <2> QED  BY <2>2, <2>3
<1>5. CASE UNCHANGED <<order, activeCount>>
  BY <1>0, <1>5 DEF Active
<1>6. CASE OrderStep
  BY <1>1, <1>2, <1>3, <1>6 DEF OrderStep
<1>7. CASE ApprovalStep
  BY <1>5, <1>7 DEF ApprovalStep, ApproveBtcSettlement, ConsumeBtcApproval, marketVars
<1>8. CASE MatchStep
  <2>1. ASSUME NEW p \in Markets, NEW i \in 1..MaxMatches, NEW a \in Orders,
               NEW b \in Orders, NEW ca \in Cts, NEW cb \in Cts, NEW s \in Keepers,
               TryMatch(p, i, a, b, ca, cb, s)
        PROVE  activeCount'[m] = Cardinality(Active(m)')
    BY <1>5, <2>1 DEF TryMatch
  <2>2. ASSUME NEW id \in MatchIds, NEW out \in Outputs, ExecutorCommit(id, out)
        PROVE  activeCount'[m] = Cardinality(Active(m)')
    BY <1>5, <2>2 DEF ExecutorCommit, marketVars
  <2>3. ASSUME NEW id \in MatchIds, NEW s \in Keepers, RequestDecryption(id, s)
        PROVE  activeCount'[m] = Cardinality(Active(m)')
    BY <1>5, <2>3 DEF RequestDecryption, marketVars
  <2> QED  BY <1>4, <1>8, <2>1, <2>2, <2>3 DEF MatchStep
<1>9. CASE SettleStep
  BY <1>5, <1>9 DEF SettleStep, FinalizeSettlement, FailSettlement, marketVars
<1>10. CASE Tick \/ UNCHANGED vars
  BY <1>5, <1>10 DEF Tick, vars, marketVars
<1> QED  BY <1>6, <1>7, <1>8, <1>9, <1>10 DEF Next

-----------------------------------------------------------------------------
(* What the steps keep *)

\* Who an order belongs to, where it settles and what it encrypts.
IdentityKept ==
    \A o \in Orders : order[o].status # "Absent" =>
        /\ order'[o].owner = order[o].owner
        /\ order'[o].dwallet = order[o].dwallet
        /\ order'[o].ct = order[o].ct
        /\ order'[o].status # "Absent"
MatchedKept ==
    \A o \in Orders : order'[o].status = "Matched" <=> order[o].status = "Matched"
TradesKept ==
    \A id \in MatchIds :
        /\ record'[id].a = record[id].a /\ record'[id].b = record[id].b
        /\ record'[id].seller = record[id].seller /\ record'[id].buyer = record[id].buyer
        /\ record'[id].status = "Absent" <=> record[id].status = "Absent"
Finalized ==
    \E id \in MatchIds, n \in Fills, sellerIsA \in BOOLEAN, s \in Keepers :
        FinalizeDecryption(id, n, sellerIsA, s)

\* What FinalizeDecryption does, in terms of its two orders.
LEMMA FinalizeEffect ==
    ASSUME TypeOK, MatchBinds,
           NEW id \in MatchIds, NEW n \in Fills, NEW sellerIsA \in BOOLEAN,
           NEW s \in Keepers, FinalizeDecryption(id, n, sellerIsA, s),
           NEW a, a = intent[id].a, NEW b, b = intent[id].b
    PROVE  /\ a \in Submitted(id[1]) /\ b \in Submitted(id[1]) /\ a # b
           /\ order[a].status = "Active" /\ order[b].status = "Active"
           /\ record[id].status = "Absent"
           /\ \A o \in Orders : order'[o] =
                  IF o \in {a, b} THEN [order[o] EXCEPT !.status = "Matched"] ELSE order[o]
           /\ record'[id].a = a /\ record'[id].b = b
           /\ record'[id].status = "Pending"
           /\ <<record'[id].seller, record'[id].buyer>> \in
                  {<<order[a].dwallet, order[b].dwallet>>,
                   <<order[b].dwallet, order[a].dwallet>>}
           /\ \A j \in MatchIds : j # id => record'[j] = record[j]
<1>1. /\ a \in Submitted(id[1]) /\ b \in Submitted(id[1]) /\ a # b
      /\ a \in Orders /\ b \in Orders
  BY DEF FinalizeDecryption, MatchBinds, Submitted
<1>2. /\ order[a].status = "Active" /\ order[b].status = "Active"
      /\ record[id].status = "Absent"
      /\ order' = [order EXCEPT ![a].status = "Matched", ![b].status = "Matched"]
  BY DEF FinalizeDecryption, BothActive, Matched
<1>3. \A o \in Orders : order'[o] =
          IF o \in {a, b} THEN [order[o] EXCEPT !.status = "Matched"] ELSE order[o]
  BY <1>1, <1>2 DEF TypeOK
<1>4. record' = [record EXCEPT ![id] =
                    [a |-> a, b |-> b,
                     seller |-> IF sellerIsA THEN order[a].dwallet ELSE order[b].dwallet,
                     buyer |-> IF sellerIsA THEN order[b].dwallet ELSE order[a].dwallet,
                     fill |-> n, proof |-> None, status |-> "Pending"]]
  BY DEF FinalizeDecryption
<1>5. /\ record'[id].a = a /\ record'[id].b = b
      /\ record'[id].status = "Pending"
      /\ record'[id].seller = IF sellerIsA THEN order[a].dwallet ELSE order[b].dwallet
      /\ record'[id].buyer = IF sellerIsA THEN order[b].dwallet ELSE order[a].dwallet
      /\ \A j \in MatchIds : j # id => record'[j] = record[j]
  BY <1>4 DEF TypeOK
<1> QED  BY <1>1, <1>2, <1>3, <1>5

LEMMA KeptStep ==
    TypeOK /\ MatchBinds /\ [Next]_vars =>
        IdentityKept /\ ((MatchedKept /\ TradesKept) \/ Finalized)
<1> SUFFICES ASSUME TypeOK, MatchBinds, [Next]_vars
             PROVE  IdentityKept /\ ((MatchedKept /\ TradesKept) \/ Finalized)
    OBVIOUS
<1> DEFINE Goal == IdentityKept /\ ((MatchedKept /\ TradesKept) \/ Finalized)
<1>1. ASSUME UNCHANGED <<order, record>>
      PROVE  Goal
  BY <1>1 DEF IdentityKept, MatchedKept, TradesKept
<1>2. ASSUME NEW o \in Orders, NEW s \in Traders, NEW d \in DWallets, NEW c \in Cts,
             NEW e \in Expiries, SubmitOrder(o, s, d, c, e)
      PROVE  Goal
  BY <1>2 DEF SubmitOrder, IdentityKept, MatchedKept, TradesKept, TypeOK
<1>3. ASSUME NEW o \in Orders, NEW s \in Traders, CancelOrder(o, s)
      PROVE  Goal
  <2>1. \A p \in Orders : order'[p] =
            IF p = o THEN [order[p] EXCEPT !.status = "Cancelled"] ELSE order[p]
    BY <1>3 DEF CancelOrder, TypeOK
  <2>2. IdentityKept
    BY <1>3, <2>1 DEF IdentityKept, TypeOK, OrderRec
  <2>3. MatchedKept
    BY <1>3, <2>1 DEF CancelOrder, MatchedKept, TypeOK, OrderRec
  <2> QED  BY <1>3, <2>2, <2>3 DEF CancelOrder, TradesKept
<1>4. ASSUME NEW id \in MatchIds, NEW n \in Fills, NEW sellerIsA \in BOOLEAN,
             NEW s \in Keepers, FinalizeDecryption(id, n, sellerIsA, s)
      PROVE  Goal
  <2>1. Finalized
    BY <1>4 DEF Finalized
  <2>2. \A o \in Orders :
            order'[o] = order[o] \/ order'[o] = [order[o] EXCEPT !.status = "Matched"]
    BY <1>4, FinalizeEffect
  <2>3. \A r \in OrderRec :
            LET q == [r EXCEPT !.status = "Matched"] IN
            /\ q.owner = r.owner /\ q.dwallet = r.dwallet /\ q.ct = r.ct
            /\ q.status = "Matched"
    BY DEF OrderRec
  <2>4. \A o \in Orders : order[o] \in OrderRec
    BY DEF TypeOK
  <2>5. IdentityKept
    BY <2>2, <2>3, <2>4 DEF IdentityKept
  <2> QED  BY <2>1, <2>5
<1>5. ASSUME NEW id \in MatchIds, NEW proof \in TxProofs, NEW s \in Keepers,
             FinalizeSettlement(id, proof, s)
      PROVE  Goal
  <2>1. \A j \in MatchIds : j # id => record'[j] = record[j]
    BY <1>5 DEF FinalizeSettlement, TypeOK
  <2>2. /\ record'[id].a = record[id].a /\ record'[id].b = record[id].b
        /\ record'[id].seller = record[id].seller /\ record'[id].buyer = record[id].buyer
        /\ record'[id].status # "Absent" /\ record[id].status # "Absent"
    <3>1. record[id] \in RecordRec
      BY DEF TypeOK
    <3> QED  BY <1>5, <3>1 DEF FinalizeSettlement, SettlePending, TypeOK, RecordRec
  <2>3. TradesKept
    BY <2>1, <2>2 DEF TradesKept
  <2> QED  BY <1>5, <2>3 DEF FinalizeSettlement, IdentityKept, MatchedKept
<1>6. ASSUME NEW id \in MatchIds, NEW s \in Keepers, FailSettlement(id, s)
      PROVE  Goal
  <2>1. \A j \in MatchIds : j # id => record'[j] = record[j]
    BY <1>6 DEF FailSettlement, TypeOK
  <2>2. /\ record'[id].a = record[id].a /\ record'[id].b = record[id].b
        /\ record'[id].seller = record[id].seller /\ record'[id].buyer = record[id].buyer
        /\ record'[id].status # "Absent" /\ record[id].status # "Absent"
    <3>1. record[id] \in RecordRec
      BY DEF TypeOK
    <3> QED  BY <1>6, <3>1 DEF FailSettlement, SettlePending, TypeOK, RecordRec
  <2>3. TradesKept
    BY <2>1, <2>2 DEF TradesKept
  <2> QED  BY <1>6, <2>3 DEF FailSettlement, IdentityKept, MatchedKept
<1>7. CASE OrderStep
  <2>1. ASSUME NEW m \in Markets, NEW k \in Keepers, InitializeMarket(m, k)
        PROVE  Goal
    BY <1>1, <2>1 DEF InitializeMarket
  <2> QED  BY <1>2, <1>3, <1>7, <2>1 DEF OrderStep
<1>8. CASE ApprovalStep
  BY <1>1, <1>8 DEF ApprovalStep, ApproveBtcSettlement, ConsumeBtcApproval
<1>9. CASE MatchStep
  <2>1. ASSUME NEW m \in Markets, NEW i \in 1..MaxMatches, NEW a \in Orders,
               NEW b \in Orders, NEW ca \in Cts, NEW cb \in Cts, NEW s \in Keepers,
               TryMatch(m, i, a, b, ca, cb, s)
        PROVE  Goal
    BY <1>1, <2>1 DEF TryMatch
  <2>2. ASSUME NEW id \in MatchIds, NEW out \in Outputs, ExecutorCommit(id, out)
        PROVE  Goal
    BY <1>1, <2>2 DEF ExecutorCommit
  <2>3. ASSUME NEW id \in MatchIds, NEW s \in Keepers, RequestDecryption(id, s)
        PROVE  Goal
    BY <1>1, <2>3 DEF RequestDecryption
  <2> QED  BY <1>4, <1>9, <2>1, <2>2, <2>3 DEF MatchStep
<1>10. CASE SettleStep
  BY <1>5, <1>6, <1>10 DEF SettleStep
<1>11. CASE Tick \/ UNCHANGED vars
  BY <1>1, <1>11 DEF Tick, vars, marketVars
<1> QED  BY <1>7, <1>8, <1>9, <1>10, <1>11 DEF Next

-----------------------------------------------------------------------------
(* An order trades at most once *)

LEMMA ExclusiveStep ==
    TypeOK /\ MatchBinds /\ BlankAccounts /\ MatchExclusive /\ [Next]_vars => MatchExclusive'
<1> SUFFICES ASSUME TypeOK, MatchBinds, BlankAccounts, MatchExclusive, [Next]_vars
             PROVE  MatchExclusive'
    OBVIOUS
<1>1. CASE MatchedKept /\ TradesKept
  <2>1. \A id \in MatchIds, o \in Orders : Names(record'[id], o) <=> Names(record[id], o)
    BY <1>1 DEF TradesKept, Names
  <2> QED  BY <1>1, <2>1 DEF MatchedKept, MatchExclusive
<1>2. ASSUME NEW id \in MatchIds, NEW n \in Fills, NEW sellerIsA \in BOOLEAN,
             NEW s \in Keepers, FinalizeDecryption(id, n, sellerIsA, s)
      PROVE  MatchExclusive'
  <2> DEFINE a == intent[id].a
             b == intent[id].b
  <2>1. /\ a \in Orders /\ b \in Orders
        /\ order[a].status = "Active" /\ order[b].status = "Active"
        /\ record[id].status = "Absent"
        /\ record'[id].a = a /\ record'[id].b = b
        /\ \A j \in MatchIds : j # id => record'[j] = record[j]
    BY <1>2, FinalizeEffect DEF Submitted
  <2>2. \A o \in Orders : order'[o].status =
            IF o \in {a, b} THEN "Matched" ELSE order[o].status
    <3>1. \A o \in Orders : order'[o] =
              IF o \in {a, b} THEN [order[o] EXCEPT !.status = "Matched"] ELSE order[o]
      BY <1>2, FinalizeEffect
    <3>2. \A o \in Orders : order[o] \in OrderRec
      BY DEF TypeOK
    <3> QED  BY <3>1, <3>2 DEF OrderRec
  <2>3. \A o \in Orders : ~ Names(record[id], o)
    BY <2>1, CoreAssumption DEF BlankAccounts, NoRecord, Names, Orders
  <2>4. \A j \in MatchIds : ~ Names(record[j], a) /\ ~ Names(record[j], b)
    BY <2>1 DEF MatchExclusive
  <2>5. \A o \in Orders : Names(record'[id], o) <=> o \in {a, b}
    BY <2>1 DEF Names
  <2>6. \A j \in MatchIds, o \in Orders : j # id =>
            (Names(record'[j], o) <=> Names(record[j], o))
    BY <2>1
  <2>7. \A o \in Orders : order'[o].status = "Matched" <=>
            \E j \in MatchIds : Names(record'[j], o)
    BY <2>2, <2>3, <2>4, <2>5, <2>6 DEF MatchExclusive
  <2>8. ASSUME NEW i \in MatchIds, NEW j \in MatchIds, i # j, NEW o \in Orders,
               Names(record'[i], o), Names(record'[j], o)
        PROVE  FALSE
    BY <2>4, <2>5, <2>6, <2>8 DEF MatchExclusive
  <2> QED  BY <2>7, <2>8 DEF MatchExclusive
<1> QED  BY <1>1, <1>2, KeptStep DEF Finalized

-----------------------------------------------------------------------------
(* Match ids, intents and records *)

\* What an intent says, and that it is not also a record.
IntentsKept ==
    \A id \in MatchIds :
        /\ intent'[id].open <=> intent[id].open
        /\ intent'[id].a = intent[id].a /\ intent'[id].b = intent[id].b
        /\ intent'[id].inputs = intent[id].inputs

\* Three kinds of steps, as intents and match_count see them.
LEMMA IntentStep ==
    TypeOK /\ MatchBinds /\ BlankAccounts /\ [Next]_vars =>
        \/ IntentsKept /\ TradesKept /\ UNCHANGED matchCount
        \/ Finalized
        \/ \E m \in Markets, i \in 1..MaxMatches, a, b \in Orders, ca, cb \in Cts,
              s \in Keepers : TryMatch(m, i, a, b, ca, cb, s)
<1> SUFFICES ASSUME TypeOK, MatchBinds, BlankAccounts, [Next]_vars,
                    ~ Finalized,
                    ~ \E m \in Markets, i \in 1..MaxMatches, a, b \in Orders,
                         ca, cb \in Cts, s \in Keepers : TryMatch(m, i, a, b, ca, cb, s)
             PROVE  IntentsKept /\ TradesKept /\ UNCHANGED matchCount
    OBVIOUS
<1>1. TradesKept
  BY KeptStep
<1>2. CASE UNCHANGED <<matchCount, intent>>
  BY <1>1, <1>2 DEF IntentsKept
<1>3. CASE OrderStep
  <2>1. ASSUME NEW m \in Markets, NEW k \in Keepers, InitializeMarket(m, k)
        PROVE  UNCHANGED <<matchCount, intent>>
    BY <2>1 DEF InitializeMarket, BlankAccounts, TypeOK
  <2> QED  BY <1>2, <1>3, <2>1 DEF OrderStep, SubmitOrder, CancelOrder
<1>4. CASE ApprovalStep
  BY <1>2, <1>4 DEF ApprovalStep, ApproveBtcSettlement, ConsumeBtcApproval, marketVars
<1>5. CASE MatchStep
  <2>1. ASSUME NEW id \in MatchIds, NEW out \in Outputs, ExecutorCommit(id, out)
        PROVE  UNCHANGED <<matchCount, intent>>
    BY <2>1 DEF ExecutorCommit, marketVars
  <2>2. ASSUME NEW id \in MatchIds, NEW s \in Keepers, RequestDecryption(id, s)
        PROVE  IntentsKept /\ UNCHANGED matchCount
    <3>1. \A j \in MatchIds : intent[j] \in IntentRec
      BY DEF TypeOK
    <3>2. \A j \in MatchIds : j # id => intent'[j] = intent[j]
      BY <2>2 DEF RequestDecryption, TypeOK
    <3>3. intent'[id] = [intent[id] EXCEPT !.snapshot = committed[id]]
      BY <2>2 DEF RequestDecryption, TypeOK
    <3> QED  BY <2>2, <3>1, <3>2, <3>3 DEF RequestDecryption, IntentsKept, IntentRec, marketVars
  <2>3. \/ \E id \in MatchIds, out \in Outputs : ExecutorCommit(id, out)
        \/ \E id \in MatchIds, s \in Keepers : RequestDecryption(id, s)
    BY <1>5 DEF MatchStep, Finalized
  <2> QED  BY <1>1, <1>2, <2>1, <2>2, <2>3
<1>6. CASE SettleStep
  BY <1>2, <1>6 DEF SettleStep, FinalizeSettlement, FailSettlement, marketVars
<1>7. CASE Tick \/ UNCHANGED vars
  BY <1>2, <1>7 DEF Tick, vars, marketVars
<1> QED  BY <1>3, <1>4, <1>5, <1>6, <1>7 DEF Next

LEMMA LedgerStep ==
    TypeOK /\ BlankAccounts /\ MatchBinds /\ MatchLedger /\ [Next]_vars => MatchLedger'
<1> SUFFICES ASSUME TypeOK, BlankAccounts, MatchBinds, MatchLedger, [Next]_vars
             PROVE  MatchLedger'
    OBVIOUS
<1>1. CASE IntentsKept /\ TradesKept /\ UNCHANGED matchCount
  BY <1>1 DEF IntentsKept, TradesKept, MatchLedger
<1>2. ASSUME NEW id \in MatchIds, NEW n \in Fills, NEW sellerIsA \in BOOLEAN,
             NEW s \in Keepers, FinalizeDecryption(id, n, sellerIsA, s)
      PROVE  MatchLedger'
  <2>1. /\ record'[id].status = "Pending"
        /\ \A j \in MatchIds : j # id => record'[j] = record[j]
    BY <1>2, FinalizeEffect
  <2>2. /\ intent[id].open /\ ~ intent'[id].open
        /\ \A j \in MatchIds : j # id => intent'[j] = intent[j]
        /\ matchCount' = matchCount
    BY <1>2 DEF FinalizeDecryption, ClosedIntent, NoIntent, TypeOK
  <2> QED  BY <2>1, <2>2 DEF MatchLedger
<1>3. ASSUME NEW m \in Markets, NEW i \in 1..MaxMatches, NEW a \in Orders,
             NEW b \in Orders, NEW ca \in Cts, NEW cb \in Cts, NEW s \in Keepers,
             TryMatch(m, i, a, b, ca, cb, s)
      PROVE  MatchLedger'
  <2> DEFINE id == <<m, i>>
  <2>1. /\ id \in MatchIds /\ i = matchCount[m] + 1 /\ record' = record
        /\ matchCount' = [matchCount EXCEPT ![m] = i]
        /\ intent'[id].open
        /\ \A j \in MatchIds : j # id => intent'[j] = intent[j]
    BY <1>3 DEF TryMatch, TypeOK, MatchIds
  <2>2. matchCount[m] \in Nat /\ matchCount \in [Markets -> 0..MaxMatches] /\ MaxMatches \in Nat
    BY CoreAssumption DEF TypeOK
  <2>3. record[id].status = "Absent"
    BY <2>1, <2>2 DEF MatchLedger
  <2>4. \A j \in MatchIds : j # id =>
            (j[2] <= matchCount'[j[1]] <=> j[2] <= matchCount[j[1]])
    <3> SUFFICES ASSUME NEW p \in Markets, NEW k \in 1..MaxMatches, <<p, k>> # id
                 PROVE  k <= matchCount'[p] <=> k <= matchCount[p]
        BY DEF MatchIds
    <3> QED  BY <2>1, <2>2
  <2>5. id[2] <= matchCount'[id[1]]
    BY <2>1, <2>2
  <2> QED  BY <2>1, <2>3, <2>4, <2>5 DEF MatchLedger
<1> QED  BY <1>1, <1>2, <1>3, IntentStep DEF Finalized

LEMMA BindsStep ==
    TypeOK /\ BlankAccounts /\ MatchBinds /\ [Next]_vars => MatchBinds'
<1> SUFFICES ASSUME TypeOK, BlankAccounts, MatchBinds, [Next]_vars PROVE MatchBinds'
    OBVIOUS
<1>0. IdentityKept
  BY KeptStep
<1>1. \A m \in Markets : Submitted(m) \subseteq Submitted(m)'
  BY <1>0 DEF IdentityKept, Submitted
<1>2. \A m \in Markets : \A o \in Submitted(m) :
          order'[o].ct = order[o].ct /\ order'[o].dwallet = order[o].dwallet
  BY <1>0 DEF IdentityKept, Submitted
<1>3. \A id \in MatchIds : id[1] \in Markets
  BY DEF MatchIds
<1>4. CASE IntentsKept /\ TradesKept
  BY <1>1, <1>2, <1>3, <1>4 DEF IntentsKept, TradesKept, MatchBinds
<1>5. ASSUME NEW id \in MatchIds, NEW n \in Fills, NEW sellerIsA \in BOOLEAN,
             NEW s \in Keepers, FinalizeDecryption(id, n, sellerIsA, s)
      PROVE  MatchBinds'
  <2> DEFINE a == intent[id].a
             b == intent[id].b
  <2>1. /\ a \in Submitted(id[1]) /\ b \in Submitted(id[1]) /\ a # b
        /\ record'[id].a = a /\ record'[id].b = b
        /\ <<record'[id].seller, record'[id].buyer>> \in
               {<<order[a].dwallet, order[b].dwallet>>,
                <<order[b].dwallet, order[a].dwallet>>}
        /\ \A j \in MatchIds : j # id => record'[j] = record[j]
    BY <1>5, FinalizeEffect
  <2>2. /\ ~ intent'[id].open
        /\ \A j \in MatchIds : j # id => intent'[j] = intent[j]
    BY <1>5 DEF FinalizeDecryption, ClosedIntent, NoIntent, TypeOK
  <2> QED  BY <1>1, <1>2, <1>3, <2>1, <2>2 DEF MatchBinds
<1>6. ASSUME NEW m \in Markets, NEW i \in 1..MaxMatches, NEW a \in Orders,
             NEW b \in Orders, NEW ca \in Cts, NEW cb \in Cts, NEW s \in Keepers,
             TryMatch(m, i, a, b, ca, cb, s)
      PROVE  MatchBinds'
  <2> DEFINE id == <<m, i>>
  <2>1. /\ id \in MatchIds
        /\ intent'[id] = [open |-> TRUE, a |-> a, b |-> b, inputs |-> <<ca, cb>>,
                          snapshot |-> {}]
        /\ \A j \in MatchIds : j # id => intent'[j] = intent[j]
        /\ UNCHANGED <<order, record>>
    BY <1>6 DEF TryMatch, TypeOK, MatchIds
  <2>2. /\ a \in Submitted(m) /\ b \in Submitted(m) /\ a # b
        /\ ca = order[a].ct /\ cb = order[b].ct
    BY <1>6 DEF TryMatch, Distinct, BothActive, CiphertextsMatch, Submitted
  <2> QED  BY <1>1, <1>2, <1>3, <2>1, <2>2 DEF MatchBinds
<1> QED  BY <1>4, <1>5, <1>6, IntentStep DEF Finalized

-----------------------------------------------------------------------------
(* Decryption and approvals *)

\* The executor only adds outputs, and snapshots only follow it.
LEMMA CommitStep ==
    /\ TypeOK /\ MatchBinds /\ SnapshotCommitted /\ RecordAfterCommit /\ [Next]_vars
    => SnapshotCommitted' /\ RecordAfterCommit'
<1> SUFFICES ASSUME TypeOK, MatchBinds, SnapshotCommitted, RecordAfterCommit, [Next]_vars
             PROVE  SnapshotCommitted' /\ RecordAfterCommit'
    OBVIOUS
<1> DEFINE Goal == SnapshotCommitted' /\ RecordAfterCommit'
<1>1. \A id \in MatchIds : committed[id] \subseteq Outputs
  BY DEF TypeOK
<1>2. CASE UNCHANGED <<committed, intent, record>>
  BY <1>2 DEF SnapshotCommitted, RecordAfterCommit
<1>3. ASSUME NEW m \in Markets, NEW i \in 1..MaxMatches, NEW a \in Orders,
             NEW b \in Orders, NEW ca \in Cts, NEW cb \in Cts, NEW s \in Keepers,
             TryMatch(m, i, a, b, ca, cb, s)
      PROVE  Goal
  BY <1>3 DEF TryMatch, SnapshotCommitted, RecordAfterCommit, TypeOK, MatchIds
<1>4. ASSUME NEW id \in MatchIds, NEW out \in Outputs, ExecutorCommit(id, out)
      PROVE  Goal
  <2>1. \A j \in MatchIds : /\ committed[j] \subseteq committed'[j]
                            /\ committed'[j] \subseteq Outputs
    BY <1>1, <1>4 DEF ExecutorCommit, TypeOK
  <2> QED  BY <1>4, <2>1 DEF ExecutorCommit, SnapshotCommitted, RecordAfterCommit
<1>5. ASSUME NEW id \in MatchIds, NEW s \in Keepers, RequestDecryption(id, s)
      PROVE  Goal
  <2>1. \A j \in MatchIds : j # id => intent'[j] = intent[j]
    BY <1>5 DEF RequestDecryption, TypeOK
  <2>2. intent'[id].snapshot = committed[id]
    <3>1. intent[id] \in IntentRec
      BY DEF TypeOK
    <3> QED  BY <1>5, <3>1 DEF RequestDecryption, TypeOK, IntentRec
  <2> QED  BY <1>5, <2>1, <2>2 DEF RequestDecryption, SnapshotCommitted, RecordAfterCommit
<1>6. ASSUME NEW id \in MatchIds, NEW n \in Fills, NEW sellerIsA \in BOOLEAN,
             NEW s \in Keepers, FinalizeDecryption(id, n, sellerIsA, s)
      PROVE  Goal
  <2>1. /\ intent'[id].snapshot = {} /\ committed' = committed
        /\ \A j \in MatchIds : j # id => intent'[j] = intent[j]
    BY <1>6 DEF FinalizeDecryption, ClosedIntent, NoIntent, TypeOK
  <2>2. \A j \in MatchIds : j # id => record'[j] = record[j]
    BY <1>6, FinalizeEffect
  <2>3. committed[id] = Outputs
    BY <1>1, <1>6 DEF FinalizeDecryption, DecryptionRequested, SnapshotCommitted
  <2> QED  BY <2>1, <2>2, <2>3 DEF SnapshotCommitted, RecordAfterCommit
<1>7. CASE OrderStep
  BY <1>2, <1>7 DEF OrderStep, InitializeMarket, SubmitOrder, CancelOrder
<1>8. CASE ApprovalStep
  BY <1>2, <1>8 DEF ApprovalStep, ApproveBtcSettlement, ConsumeBtcApproval
<1>9. CASE MatchStep
  BY <1>3, <1>4, <1>5, <1>6, <1>9 DEF MatchStep
<1>10. CASE SettleStep
  <2>1. UNCHANGED <<committed, intent>>
    BY <1>10 DEF SettleStep, FinalizeSettlement, FailSettlement
  <2>2. TradesKept
    <3>1. ASSUME NEW id \in MatchIds, NEW n \in Fills, NEW sellerIsA \in BOOLEAN,
                 NEW s \in Keepers, FinalizeDecryption(id, n, sellerIsA, s)
          PROVE  FALSE
      BY <2>1, <3>1 DEF FinalizeDecryption, ClosedIntent, NoIntent, TypeOK
    <3> QED  BY <3>1, KeptStep DEF Finalized
  <2> QED  BY <2>1, <2>2 DEF TradesKept, SnapshotCommitted, RecordAfterCommit
<1>11. CASE Tick \/ UNCHANGED vars
  BY <1>2, <1>11 DEF Tick, vars, marketVars
<1> QED  BY <1>7, <1>8, <1>9, <1>10, <1>11 DEF Next

LEMMA ApprovalStepInv ==
    TypeOK /\ MatchBinds /\ ApprovalBinds /\ [Next]_vars => ApprovalBinds'
<1> SUFFICES ASSUME TypeOK, MatchBinds, ApprovalBinds, [Next]_vars PROVE ApprovalBinds'
    OBVIOUS
<1> USE CoreAssumption
<1>0. IdentityKept
  BY KeptStep
<1>1. ASSUME UNCHANGED approval
      PROVE  ApprovalBinds'
  BY <1>0, <1>1 DEF IdentityKept, ApprovalBinds
<1>2. ASSUME NEW o \in Orders, NEW s \in Traders, NEW max \in Caps, NEW e \in Expiries,
             ApproveBtcSettlement(o, s, max, e)
      PROVE  ApprovalBinds'
  <2>1. \A p \in Orders : p # o => approval'[p] = approval[p]
    BY <1>2 DEF ApproveBtcSettlement, TypeOK
  <2>2. /\ approval'[o].approver = s /\ approval'[o].dwallet = order[o].dwallet
        /\ approval'[o].consumedAt = 0 /\ approval'[o].expiry = e
    BY <1>2 DEF ApproveBtcSettlement, TypeOK
  <2>3. /\ order' = order /\ order[o].status # "Absent" /\ s = order[o].owner /\ 0 < e
    BY <1>2 DEF ApproveBtcSettlement, ApproverOwns, Expiries
  <2> QED  BY <2>1, <2>2, <2>3 DEF ApprovalBinds
<1>3. ASSUME NEW m \in Markets, NEW o \in Orders, NEW s \in Keepers, NEW g \in Digests,
             NEW n \in Fills, ConsumeBtcApproval(m, o, s, g, n)
      PROVE  ApprovalBinds'
  <2>1. \A p \in Orders : p # o => approval'[p] = approval[p]
    BY <1>3 DEF ConsumeBtcApproval, TypeOK
  <2>2. approval[o] \in ApprovalRec
    BY DEF TypeOK
  <2>3. approval'[o] = [approval[o] EXCEPT !.consumedAt = slot, !.digest = g]
    BY <1>3, <2>2 DEF ConsumeBtcApproval, TypeOK, ApprovalRec
  <2>4. /\ approval'[o].approver = approval[o].approver
        /\ approval'[o].dwallet = approval[o].dwallet
        /\ approval'[o].consumedAt = slot /\ approval'[o].expiry = approval[o].expiry
    BY <2>2, <2>3 DEF ApprovalRec
  <2>5. slot < approval[o].expiry /\ order' = order
    BY <1>3 DEF ConsumeBtcApproval, Consumable
  <2> QED  BY <2>1, <2>4, <2>5 DEF ApprovalBinds
<1>4. CASE OrderStep
  BY <1>1, <1>4 DEF OrderStep, InitializeMarket, SubmitOrder, CancelOrder
<1>5. CASE ApprovalStep
  BY <1>2, <1>3, <1>5 DEF ApprovalStep
<1>6. CASE MatchStep
  <2>1. ASSUME NEW m \in Markets, NEW i \in 1..MaxMatches, NEW a \in Orders,
               NEW b \in Orders, NEW ca \in Cts, NEW cb \in Cts, NEW s \in Keepers,
               TryMatch(m, i, a, b, ca, cb, s)
        PROVE  UNCHANGED approval
    BY <2>1 DEF TryMatch
  <2>2. ASSUME NEW id \in MatchIds, NEW n \in Fills, NEW sellerIsA \in BOOLEAN,
               NEW s \in Keepers, FinalizeDecryption(id, n, sellerIsA, s)
        PROVE  UNCHANGED approval
    BY <2>2 DEF FinalizeDecryption
  <2>3. ASSUME NEW id \in MatchIds, NEW out \in Outputs, ExecutorCommit(id, out)
        PROVE  UNCHANGED approval
    BY <2>3 DEF ExecutorCommit
  <2>4. ASSUME NEW id \in MatchIds, NEW s \in Keepers, RequestDecryption(id, s)
        PROVE  UNCHANGED approval
    BY <2>4 DEF RequestDecryption
  <2> QED  BY <1>1, <1>6, <2>1, <2>2, <2>3, <2>4 DEF MatchStep
<1>7. CASE SettleStep
  BY <1>1, <1>7 DEF SettleStep, FinalizeSettlement, FailSettlement
<1>8. CASE Tick \/ UNCHANGED vars
  BY <1>1, <1>8 DEF Tick, vars
<1> QED  BY <1>4, <1>5, <1>6, <1>7, <1>8 DEF Next

-----------------------------------------------------------------------------
(* Theorems *)

LEMMA InvInit == Init => IInv
<1> SUFFICES ASSUME Init PROVE IInv
    OBVIOUS
<1>1. TypeOK
  BY TypeInit
<1>2. BlankAccounts /\ SnapshotCommitted /\ RecordAfterCommit /\ ApprovalBinds
  BY DEF Init, BlankAccounts, SnapshotCommitted, RecordAfterCommit, ApprovalBinds,
         NoRecord, NoApproval, NoIntent
<1>3. CountExact
  <2>1. \A m \in Markets : Active(m) = {}
    BY DEF Init, Active, NoOrder
  <2> QED  BY <2>1, FS_EmptySet DEF Init, CountExact
<1>4. MatchInv
  BY CoreAssumption
  DEF Init, MatchInv, MatchExclusive, MatchLedger, MatchBinds, Names, NoOrder, NoIntent,
      NoRecord, MatchIds, Orders
<1> QED  BY <1>1, <1>2, <1>3, <1>4 DEF IInv

LEMMA InvStep == IInv /\ [Next]_vars => IInv'
BY TypeStep, BlankStep, CountStep, ExclusiveStep, LedgerStep, BindsStep, CommitStep,
   ApprovalStepInv
DEF IInv, MatchInv

\* The inductive invariant holds in every state the program reaches.
THEOREM Invariance == Spec => []IInv
BY InvInit, InvStep, PTL DEF Spec

\* Every account keeps its type: in particular active_order_count stays
\* within MAX_ACTIVE_ORDERS, so neither checked_add nor the u8 overflows.
THEOREM TypeCorrect == Spec => []TypeOK
BY Invariance, PTL DEF IInv

\* active_order_count is the number of live orders, so that saturating_sub
\* never saturates.
THEOREM CountCorrect == Spec => []CountExact
BY Invariance, PTL DEF IInv

\* No order is in two trades, and exactly the Matched orders are in one.
THEOREM TradesOnce == Spec => []MatchExclusive
BY Invariance, PTL DEF IInv, MatchInv

\* Every match id ever allotted is one intent or one record.
THEOREM LedgerComplete == Spec => []MatchLedger
BY Invariance, PTL DEF IInv, MatchInv

\* Intents and records keep naming the orders, ciphertexts and dWallets they
\* were made from.
THEOREM BindingsStable == Spec => []MatchBinds
BY Invariance, PTL DEF IInv, MatchInv

\* A trade needs all three outputs of its own comparison.
THEOREM CommitFirst == Spec => []RecordAfterCommit
BY Invariance, PTL DEF IInv

\* An approval speaks for its order's owner and dWallet, and is consumed in
\* time.
THEOREM ApprovalsBound == Spec => []ApprovalBinds
BY Invariance, PTL DEF IInv

-----------------------------------------------------------------------------
(* What no step does *)

LEMMA OrderFinalStep ==
    TypeOK /\ MatchBinds /\ [Next]_vars =>
        \A o \in Orders : order[o].status \in {"Matched", "Cancelled"} => order'[o] = order[o]
<1> SUFFICES ASSUME TypeOK, MatchBinds, [Next]_vars, NEW o \in Orders,
                    order[o].status \in {"Matched", "Cancelled"}
             PROVE  order'[o] = order[o]
    OBVIOUS
<1>1. CASE UNCHANGED order
  BY <1>1
<1>2. ASSUME NEW p \in Orders, NEW s \in Traders, NEW d \in DWallets, NEW c \in Cts,
             NEW e \in Expiries, SubmitOrder(p, s, d, c, e)
      PROVE  order'[o] = order[o]
  BY <1>2 DEF SubmitOrder, TypeOK
<1>3. ASSUME NEW p \in Orders, NEW s \in Traders, CancelOrder(p, s)
      PROVE  order'[o] = order[o]
  BY <1>3 DEF CancelOrder, TypeOK
<1>4. ASSUME NEW id \in MatchIds, NEW n \in Fills, NEW sellerIsA \in BOOLEAN,
             NEW s \in Keepers, FinalizeDecryption(id, n, sellerIsA, s)
      PROVE  order'[o] = order[o]
  <2> DEFINE a == intent[id].a
             b == intent[id].b
  <2>1. /\ order[a].status = "Active" /\ order[b].status = "Active"
        /\ order'[o] = IF o \in {a, b} THEN [order[o] EXCEPT !.status = "Matched"]
                       ELSE order[o]
    BY <1>4, FinalizeEffect
  <2> QED  BY <2>1
<1>5. CASE OrderStep
  BY <1>1, <1>2, <1>3, <1>5 DEF OrderStep, InitializeMarket
<1>6. CASE ApprovalStep
  BY <1>1, <1>6 DEF ApprovalStep, ApproveBtcSettlement, ConsumeBtcApproval
<1>7. CASE MatchStep
  <2>1. ASSUME NEW m \in Markets, NEW i \in 1..MaxMatches, NEW a \in Orders,
               NEW b \in Orders, NEW ca \in Cts, NEW cb \in Cts, NEW s \in Keepers,
               TryMatch(m, i, a, b, ca, cb, s)
        PROVE  UNCHANGED order
    BY <2>1 DEF TryMatch
  <2>2. ASSUME NEW id \in MatchIds, NEW out \in Outputs, ExecutorCommit(id, out)
        PROVE  UNCHANGED order
    BY <2>2 DEF ExecutorCommit
  <2>3. ASSUME NEW id \in MatchIds, NEW s \in Keepers, RequestDecryption(id, s)
        PROVE  UNCHANGED order
    BY <2>3 DEF RequestDecryption
  <2> QED  BY <1>1, <1>4, <1>7, <2>1, <2>2, <2>3 DEF MatchStep
<1>8. CASE SettleStep
  BY <1>1, <1>8 DEF SettleStep, FinalizeSettlement, FailSettlement
<1>9. CASE Tick \/ UNCHANGED vars
  BY <1>1, <1>9 DEF Tick, vars
<1> QED  BY <1>5, <1>6, <1>7, <1>8, <1>9 DEF Next

LEMMA SettlementFinalStep ==
    TypeOK /\ MatchBinds /\ [Next]_vars =>
        \A id \in MatchIds : record[id].status \in {"Settled", "SettleFailed"}
            => record'[id] = record[id]
<1> SUFFICES ASSUME TypeOK, MatchBinds, [Next]_vars, NEW id \in MatchIds,
                    record[id].status \in {"Settled", "SettleFailed"}
             PROVE  record'[id] = record[id]
    OBVIOUS
<1>1. CASE UNCHANGED record
  BY <1>1
<1>2. ASSUME NEW j \in MatchIds, NEW n \in Fills, NEW sellerIsA \in BOOLEAN,
             NEW s \in Keepers, FinalizeDecryption(j, n, sellerIsA, s)
      PROVE  record'[id] = record[id]
  BY <1>2, FinalizeEffect
<1>3. CASE SettleStep
  BY <1>3 DEF SettleStep, FinalizeSettlement, FailSettlement, SettlePending, TypeOK
<1>4. CASE OrderStep
  BY <1>1, <1>4 DEF OrderStep, InitializeMarket, SubmitOrder, CancelOrder
<1>5. CASE ApprovalStep
  BY <1>1, <1>5 DEF ApprovalStep, ApproveBtcSettlement, ConsumeBtcApproval
<1>6. CASE MatchStep
  <2>1. ASSUME NEW m \in Markets, NEW i \in 1..MaxMatches, NEW a \in Orders,
               NEW b \in Orders, NEW ca \in Cts, NEW cb \in Cts, NEW s \in Keepers,
               TryMatch(m, i, a, b, ca, cb, s)
        PROVE  UNCHANGED record
    BY <2>1 DEF TryMatch
  <2>2. ASSUME NEW j \in MatchIds, NEW out \in Outputs, ExecutorCommit(j, out)
        PROVE  UNCHANGED record
    BY <2>2 DEF ExecutorCommit
  <2>3. ASSUME NEW j \in MatchIds, NEW s \in Keepers, RequestDecryption(j, s)
        PROVE  UNCHANGED record
    BY <2>3 DEF RequestDecryption
  <2> QED  BY <1>1, <1>2, <1>6, <2>1, <2>2, <2>3 DEF MatchStep
<1>7. CASE Tick \/ UNCHANGED vars
  BY <1>1, <1>7 DEF Tick, vars
<1> QED  BY <1>3, <1>4, <1>5, <1>6, <1>7 DEF Next

LEMMA OneShotStep ==
    TypeOK /\ BlankAccounts /\ MatchBinds /\ [Next]_vars =>
        \A o \in Orders : approval[o].consumedAt # 0 => approval'[o] = approval[o]
<1> SUFFICES ASSUME TypeOK, BlankAccounts, MatchBinds, [Next]_vars, NEW o \in Orders,
                    approval[o].consumedAt # 0
             PROVE  approval'[o] = approval[o]
    OBVIOUS
<1>1. CASE UNCHANGED approval
  BY <1>1
<1>2. approval[o].approver # None
  BY DEF BlankAccounts, NoApproval
<1>3. ASSUME NEW p \in Orders, NEW s \in Traders, NEW max \in Caps, NEW e \in Expiries,
             ApproveBtcSettlement(p, s, max, e)
      PROVE  approval'[o] = approval[o]
  BY <1>2, <1>3 DEF ApproveBtcSettlement, TypeOK
<1>4. ASSUME NEW m \in Markets, NEW p \in Orders, NEW s \in Keepers, NEW g \in Digests,
             NEW n \in Fills, ConsumeBtcApproval(m, p, s, g, n)
      PROVE  approval'[o] = approval[o]
  BY <1>4 DEF ConsumeBtcApproval, Consumable, Unconsumed, TypeOK
<1>5. CASE OrderStep
  BY <1>1, <1>5 DEF OrderStep, InitializeMarket, SubmitOrder, CancelOrder
<1>6. CASE ApprovalStep
  BY <1>3, <1>4, <1>6 DEF ApprovalStep
<1>7. CASE MatchStep
  <2>1. ASSUME NEW m \in Markets, NEW i \in 1..MaxMatches, NEW a \in Orders,
               NEW b \in Orders, NEW ca \in Cts, NEW cb \in Cts, NEW s \in Keepers,
               TryMatch(m, i, a, b, ca, cb, s)
        PROVE  UNCHANGED approval
    BY <2>1 DEF TryMatch
  <2>2. ASSUME NEW id \in MatchIds, NEW n \in Fills, NEW sellerIsA \in BOOLEAN,
               NEW s \in Keepers, FinalizeDecryption(id, n, sellerIsA, s)
        PROVE  UNCHANGED approval
    BY <2>2 DEF FinalizeDecryption
  <2>3. ASSUME NEW id \in MatchIds, NEW out \in Outputs, ExecutorCommit(id, out)
        PROVE  UNCHANGED approval
    BY <2>3 DEF ExecutorCommit
  <2>4. ASSUME NEW id \in MatchIds, NEW s \in Keepers, RequestDecryption(id, s)
        PROVE  UNCHANGED approval
    BY <2>4 DEF RequestDecryption
  <2> QED  BY <1>1, <1>7, <2>1, <2>2, <2>3, <2>4 DEF MatchStep
<1>8. CASE SettleStep
  BY <1>1, <1>8 DEF SettleStep, FinalizeSettlement, FailSettlement
<1>9. CASE Tick \/ UNCHANGED vars
  BY <1>1, <1>9 DEF Tick, vars
<1> QED  BY <1>5, <1>6, <1>7, <1>8, <1>9 DEF Next

\* A stale intent never revives a Matched or Cancelled order.
THEOREM OrdersFinal == Spec => OrderFinal
BY Invariance, OrderFinalStep, PTL DEF Spec, OrderFinal, IInv, MatchInv

\* A concluded settlement, proof included, is never rewritten.
THEOREM SettlementsFinal == Spec => SettlementFinal
BY Invariance, SettlementFinalStep, PTL DEF Spec, SettlementFinal, IInv, MatchInv

\* A consumed approval, the sighash it records included, is never rewritten.
THEOREM ApprovalsOneShot == Spec => ApprovalOneShot
BY Invariance, OneShotStep, PTL DEF Spec, ApprovalOneShot, IInv, MatchInv

-----------------------------------------------------------------------------
(* The program implements the pool *)

LEMMA PoolStep == TypeOK /\ MatchBinds /\ BlankAccounts /\ [Next]_vars
                    => [Pool!Next]_<<PoolBook, PoolTrade>>
<1> SUFFICES ASSUME TypeOK, MatchBinds, BlankAccounts, [Next]_vars
             PROVE  Pool!Next \/ UNCHANGED <<PoolBook, PoolTrade>>
    OBVIOUS
<1> DEFINE Goal == Pool!Next \/ UNCHANGED <<PoolBook, PoolTrade>>
<1>0. /\ \A o \in Orders : order[o] \in OrderRec
      /\ \A id \in MatchIds : record[id] \in RecordRec
  BY DEF TypeOK
<1>1. CASE UNCHANGED <<order, record>>
  BY <1>1 DEF PoolBook, PoolTrade, Names
<1>2. ASSUME NEW o \in Orders, NEW s \in Traders, NEW d \in DWallets, NEW c \in Cts,
             NEW e \in Expiries, SubmitOrder(o, s, d, c, e)
      PROVE  Goal
  <2>1. PoolBook' = [PoolBook EXCEPT ![o] = "Active"]
    <3>1. \A p \in Orders : order'[p].status = IF p = o THEN "Active" ELSE order[p].status
      BY <1>2 DEF SubmitOrder, TypeOK
    <3> QED  BY <3>1 DEF PoolBook
  <2>2. PoolTrade' = PoolTrade /\ PoolBook[o] = "Absent"
    BY <1>2 DEF SubmitOrder, PoolTrade, PoolBook, Names
  <2>3. Pool!Place(o)
    BY <2>1, <2>2 DEF Pool!Place
  <2> QED  BY <2>3 DEF Pool!Next
<1>3. ASSUME NEW o \in Orders, NEW s \in Traders, CancelOrder(o, s)
      PROVE  Goal
  <2>1. PoolBook' = [PoolBook EXCEPT ![o] = "Cancelled"]
    <3>1. \A p \in Orders : order'[p].status = IF p = o THEN "Cancelled" ELSE order[p].status
      BY <1>0, <1>3 DEF CancelOrder, TypeOK, OrderRec
    <3> QED  BY <3>1 DEF PoolBook
  <2>2. PoolTrade' = PoolTrade /\ PoolBook[o] = "Active"
    BY <1>3 DEF CancelOrder, PoolTrade, PoolBook, Names
  <2>3. Pool!Withdraw(o)
    BY <2>1, <2>2 DEF Pool!Withdraw
  <2> QED  BY <2>3 DEF Pool!Next
<1>4. ASSUME NEW id \in MatchIds, NEW n \in Fills, NEW sellerIsA \in BOOLEAN,
             NEW s \in Keepers, FinalizeDecryption(id, n, sellerIsA, s)
      PROVE  Goal
  <2> DEFINE a == intent[id].a
             b == intent[id].b
             p == {a, b}
  <2>1. /\ a \in Orders /\ b \in Orders /\ a # b /\ a[1] = id[1] /\ b[1] = id[1]
        /\ order[a].status = "Active" /\ order[b].status = "Active"
        /\ record[id].status = "Absent"
        /\ record'[id].a = a /\ record'[id].b = b /\ record'[id].status = "Pending"
        /\ \A j \in MatchIds : j # id => record'[j] = record[j]
    BY <1>4, FinalizeEffect DEF Submitted
  <2>2. \A o \in Orders : order'[o].status = IF o \in p THEN "Matched" ELSE order[o].status
    <3>1. \A o \in Orders : order'[o] =
              IF o \in {a, b} THEN [order[o] EXCEPT !.status = "Matched"] ELSE order[o]
      BY <1>4, FinalizeEffect
    <3> QED  BY <1>0, <3>1 DEF OrderRec
  <2>3. PoolBook' = [o \in Orders |-> IF o \in p THEN "Matched" ELSE PoolBook[o]]
    BY <2>2 DEF PoolBook
  <2>4. PoolTrade' = [PoolTrade EXCEPT ![id] = [parties |-> p, outcome |-> "Pending"]]
    <3>1. {o \in Orders : Names(record'[id], o)} = p
      BY <2>1 DEF Names
    <3> QED  BY <2>1, <3>1 DEF PoolTrade, Names
  <2>5. /\ Pool!TwoOf(p, id[1])
        /\ \A o \in p : PoolBook[o] = "Active"
        /\ PoolTrade[id].outcome = "Absent"
    BY <2>1 DEF Pool!TwoOf, PoolBook, PoolTrade
  <2>6. Pool!Trade(id, p)
    BY <2>3, <2>4, <2>5 DEF Pool!Trade
  <2>7. p \in SUBSET Orders
    BY <2>1
  <2> QED  BY <2>6, <2>7 DEF Pool!Next
<1>5. ASSUME NEW id \in MatchIds, NEW outcome \in {"Settled", "SettleFailed"},
             UNCHANGED order, record[id].status = "Pending",
             record'[id].a = record[id].a, record'[id].b = record[id].b,
             record'[id].status = outcome,
             \A j \in MatchIds : j # id => record'[j] = record[j]
      PROVE  Goal
  <2>1. PoolBook' = PoolBook
    BY <1>5 DEF PoolBook
  <2>2. PoolTrade' = [PoolTrade EXCEPT ![id].outcome = outcome]
    <3>1. \A j \in MatchIds : {o \in Orders : Names(record'[j], o)}
                                 = {o \in Orders : Names(record[j], o)}
      BY <1>5 DEF Names
    <3>2. PoolTrade' = [j \in MatchIds |->
              [parties |-> {o \in Orders : Names(record[j], o)},
               outcome |-> IF j = id THEN outcome ELSE record[j].status]]
      BY <1>5, <3>1 DEF PoolTrade
    <3> QED  BY <3>2 DEF PoolTrade
  <2>3. PoolTrade[id].outcome = "Pending"
    BY <1>5 DEF PoolTrade
  <2>4. Pool!Conclude(id, outcome)
    BY <2>1, <2>2, <2>3 DEF Pool!Conclude
  <2> QED  BY <2>4 DEF Pool!Next
<1>6. CASE SettleStep
  <2>1. ASSUME NEW id \in MatchIds, NEW proof \in TxProofs, NEW s \in Keepers,
               FinalizeSettlement(id, proof, s)
        PROVE  Goal
    <3>1. /\ record'[id].a = record[id].a /\ record'[id].b = record[id].b
          /\ record'[id].status = "Settled"
      BY <1>0, <2>1 DEF FinalizeSettlement, TypeOK, RecordRec
    <3>2. /\ UNCHANGED order /\ record[id].status = "Pending"
          /\ \A j \in MatchIds : j # id => record'[j] = record[j]
      BY <2>1 DEF FinalizeSettlement, SettlePending, TypeOK
    <3> QED  BY <1>5, <3>1, <3>2
  <2>2. ASSUME NEW id \in MatchIds, NEW s \in Keepers, FailSettlement(id, s)
        PROVE  Goal
    <3>1. /\ record'[id].a = record[id].a /\ record'[id].b = record[id].b
          /\ record'[id].status = "SettleFailed"
      BY <1>0, <2>2 DEF FailSettlement, TypeOK, RecordRec
    <3>2. /\ UNCHANGED order /\ record[id].status = "Pending"
          /\ \A j \in MatchIds : j # id => record'[j] = record[j]
      BY <2>2 DEF FailSettlement, SettlePending, TypeOK
    <3> QED  BY <1>5, <3>1, <3>2
  <2> QED  BY <1>6, <2>1, <2>2 DEF SettleStep
<1>7. CASE OrderStep
  BY <1>1, <1>2, <1>3, <1>7 DEF OrderStep, InitializeMarket
<1>8. CASE ApprovalStep
  BY <1>1, <1>8 DEF ApprovalStep, ApproveBtcSettlement, ConsumeBtcApproval
<1>9. CASE MatchStep
  <2>1. ASSUME NEW m \in Markets, NEW i \in 1..MaxMatches, NEW a \in Orders,
               NEW b \in Orders, NEW ca \in Cts, NEW cb \in Cts, NEW s \in Keepers,
               TryMatch(m, i, a, b, ca, cb, s)
        PROVE  UNCHANGED <<order, record>>
    BY <2>1 DEF TryMatch
  <2>2. ASSUME NEW id \in MatchIds, NEW out \in Outputs, ExecutorCommit(id, out)
        PROVE  UNCHANGED <<order, record>>
    BY <2>2 DEF ExecutorCommit
  <2>3. ASSUME NEW id \in MatchIds, NEW s \in Keepers, RequestDecryption(id, s)
        PROVE  UNCHANGED <<order, record>>
    BY <2>3 DEF RequestDecryption
  <2> QED  BY <1>1, <1>4, <1>9, <2>1, <2>2, <2>3 DEF MatchStep
<1>10. CASE Tick \/ UNCHANGED vars
  BY <1>1, <1>10 DEF Tick, vars
<1> QED  BY <1>6, <1>7, <1>8, <1>9, <1>10 DEF Next

\* Every behaviour of the program is one of the plain pool.
THEOREM Implementation == Spec => ImplementsDarkPool
<1>1. Init => Pool!Init
  <2> SUFFICES ASSUME Init PROVE Pool!Init
      OBVIOUS
  <2>1. PoolBook = [o \in Orders |-> "Absent"]
    BY DEF Init, PoolBook, NoOrder
  <2>2. \A o \in Orders : o # None
    BY CoreAssumption DEF Orders
  <2>3. PoolTrade = [id \in MatchIds |-> [parties |-> {}, outcome |-> "Absent"]]
    BY <2>2 DEF Init, PoolTrade, Names, NoRecord
  <2> QED  BY <2>1, <2>3 DEF Pool!Init
<1> QED  BY <1>1, Invariance, PoolStep, PTL
         DEF Spec, ImplementsDarkPool, Pool!Spec, IInv, MatchInv

-----------------------------------------------------------------------------
(* The book's list *)

\* w is the walk from the market's head along next, over all its n orders.
ListWalk(m, n, w) ==
    /\ w[0] = head[m] /\ w[n] = None
    /\ \A k \in 1..n : w[k] = order[w[k - 1]].next
    /\ \A k \in 0..(n - 1) : w[k] \in Submitted(m)
    /\ \A o \in Submitted(m) : \E k \in 0..(n - 1) : w[k] = o
Walked(m, n) == \E w \in [0..n -> Orders \cup {None}] : ListWalk(m, n, w)
BookWalked == \A m \in Markets : Walked(m, Cardinality(Submitted(m)))

LEMMA SubmittedFinite ==
    ASSUME NEW m \in Markets
    PROVE  IsFiniteSet(Submitted(m)) /\ Cardinality(Submitted(m)) \in Nat
<1>1. IsFiniteSet({m} \X Nonces)
  BY FS_Singleton, FS_Product, CoreAssumption
<1>2. Submitted(m) \subseteq {m} \X Nonces
  BY DEF Submitted, Orders
<1> QED  BY <1>1, <1>2, FS_Subset, FS_CardinalityType

\* The walk of BookComplete exists and is the only one.
LEMMA WalkedComplete == BookWalked => BookComplete
<1> SUFFICES ASSUME BookWalked, NEW m \in Markets
             PROVE  LET n == Cardinality(Submitted(m))
                        walk[k \in 0..n] ==
                            IF k = 0 THEN head[m] ELSE order[walk[k - 1]].next
                    IN  {walk[k] : k \in 0..(n - 1)} = Submitted(m) /\ walk[n] = None
  BY DEF BookComplete
<1> DEFINE n == Cardinality(Submitted(m))
           Step(f) == [k \in 0..n |-> IF k = 0 THEN head[m] ELSE order[f[k - 1]].next]
           walk == CHOOSE f : f = Step(f)
<1>0. n \in Nat
  BY SubmittedFinite
<1>1. PICK w \in [0..n -> Orders \cup {None}] : ListWalk(m, n, w)
  BY DEF BookWalked, Walked
<1> HIDE DEF n
<1>2. w = Step(w)
  <2>1. \A k \in 0..n : w[k] = IF k = 0 THEN head[m] ELSE order[w[k - 1]].next
    BY <1>0, <1>1 DEF ListWalk
  <2> QED  BY <2>1
<1>3. walk = Step(walk)
  <2> HIDE DEF Step
  <2> QED  BY <1>2
<1> DEFINE Same == {k \in Nat : k <= n => walk[k] = w[k]}
<1>4. Nat \subseteq Same
  <2> HIDE DEF walk
  <2>1. 0 \in Same
    BY <1>0, <1>2, <1>3
  <2>2. ASSUME NEW k \in Nat, k \in Same PROVE k + 1 \in Same
    <3> SUFFICES ASSUME k + 1 <= n PROVE walk[k + 1] = w[k + 1]
      OBVIOUS
    <3>1. walk[k] = w[k]
      BY <1>0, <2>2
    <3>2. k + 1 \in 0..n /\ k + 1 # 0 /\ (k + 1) - 1 = k
      BY <1>0
    <3>3. Step(walk)[k + 1] = order[walk[k]].next /\ Step(w)[k + 1] = order[w[k]].next
      BY <3>2
    <3> HIDE DEF Step
    <3> QED  BY <1>2, <1>3, <3>1, <3>3
  <2> HIDE DEF Same
  <2> QED  BY <2>1, <2>2, SetInduction
<1>5. \A k \in 0..n : walk[k] = w[k]
  BY <1>0, <1>4
<1> HIDE DEF walk, Same, Step
<1>6. walk[n] = None
  BY <1>0, <1>1, <1>5 DEF ListWalk
<1>7. {walk[k] : k \in 0..(n - 1)} = {w[k] : k \in 0..(n - 1)}
  BY <1>0, <1>5
<1>8. {w[k] : k \in 0..(n - 1)} = Submitted(m)
  BY <1>0, <1>1 DEF ListWalk
<1> QED  BY <1>6, <1>7, <1>8 DEF n, walk, Step

LEMMA WalkedInit == Init => BookWalked
<1> SUFFICES ASSUME Init, NEW m \in Markets PROVE Walked(m, Cardinality(Submitted(m)))
  BY DEF BookWalked
<1>1. Submitted(m) = {} /\ head[m] = None
  BY DEF Init, Submitted, NoOrder
<1>2. Cardinality(Submitted(m)) = 0
  BY <1>1, FS_EmptySet
<1> DEFINE w == [k \in 0..0 |-> None]
<1>3. w \in [0..0 -> Orders \cup {None}] /\ ListWalk(m, 0, w)
  BY <1>1 DEF ListWalk
<1> QED  BY <1>2, <1>3 DEF Walked

\* A step that leaves the list of a market alone.
ListKept(m) ==
    /\ head'[m] = head[m]
    /\ \A o \in Orders : order'[o].status = "Absent" <=> order[o].status = "Absent"
    /\ \A o \in Orders : order'[o].next = order[o].next
LEMMA WalkKept ==
    ASSUME NEW m \in Markets, ListKept(m), Walked(m, Cardinality(Submitted(m)))
    PROVE  Walked(m, Cardinality(Submitted(m)))'
<1> DEFINE n == Cardinality(Submitted(m))
<1>1. Submitted(m)' = Submitted(m)
  BY DEF ListKept, Submitted
<1>2. n \in Nat
  BY SubmittedFinite
<1>3. PICK w \in [0..n -> Orders \cup {None}] : ListWalk(m, n, w)
  BY DEF Walked
<1>4. n' = n
  BY <1>1
<1> HIDE DEF n
<1>5. ListWalk(m, n, w)'
  <2>1. \A k \in 1..n : w[k] = order'[w[k - 1]].next
    <3> SUFFICES ASSUME NEW k \in 1..n PROVE w[k] = order'[w[k - 1]].next
      OBVIOUS
    <3>1. k - 1 \in 0..(n - 1)
      BY <1>2
    <3>2. w[k - 1] \in Submitted(m)
      BY <1>3, <3>1 DEF ListWalk
    <3>3. w[k - 1] \in Orders
      BY <3>2 DEF Submitted
    <3> QED  BY <1>3, <3>3 DEF ListWalk, ListKept
  <2> QED  BY <1>1, <1>3, <1>4, <2>1 DEF ListWalk, ListKept
<1> QED  BY <1>3, <1>4, <1>5 DEF Walked, n

\* Submitting an order puts it in front of the walk.
LEMMA WalkExtended ==
    ASSUME TypeOK, NEW o \in Orders, NEW s \in Traders, NEW d \in DWallets,
           NEW c \in Cts, NEW e \in Expiries, SubmitOrder(o, s, d, c, e),
           NEW m \in Markets, o[1] = m, Walked(m, Cardinality(Submitted(m)))
    PROVE  Walked(m, Cardinality(Submitted(m)))'
<1>0. PICK n \in Nat : n = Cardinality(Submitted(m))
  BY SubmittedFinite
<1>1. Submitted(m)' = Submitted(m) \cup {o}
  BY DEF SubmitOrder, Submitted, TypeOK
<1>2. o \notin Submitted(m)
  BY DEF SubmitOrder, Submitted
<1>3. n \in Nat /\ Cardinality(Submitted(m))' = n + 1
  BY <1>0, <1>1, <1>2, SubmittedFinite, FS_AddElement
<1>4. PICK w \in [0..n -> Orders \cup {None}] : ListWalk(m, n, w)
  BY <1>0 DEF Walked
<1>5. /\ head'[m] = o
      /\ order'[o].next = head[m]
      /\ \A p \in Orders : p # o => order'[p] = order[p]
  BY DEF SubmitOrder, NextInBook, TypeOK
<1> DEFINE v == [k \in 0..(n + 1) |-> IF k = 0 THEN o ELSE w[k - 1]]
<1>6. v \in [0..(n + 1) -> Orders \cup {None}]
  BY <1>3
<1>7. v[0] = o /\ v[n + 1] = None
  BY <1>3, <1>4 DEF ListWalk
<1>8. \A k \in 0..n : v[k + 1] = w[k]
  BY <1>3
<1>9. \A k \in 1..(n + 1) : v[k] = order'[v[k - 1]].next
  <2> SUFFICES ASSUME NEW k \in 1..(n + 1) PROVE v[k] = order'[v[k - 1]].next
    OBVIOUS
  <2>1. CASE k = 1
    BY <1>3, <1>4, <1>5, <1>7, <1>8, <2>1 DEF ListWalk
  <2>2. CASE k # 1
    <3>1. k - 1 \in 1..n /\ k - 2 \in 0..(n - 1) /\ (k - 1) - 1 = k - 2
      BY <1>3, <2>2
    <3>2. v[k] = w[k - 1] /\ v[k - 1] = w[k - 2]
      BY <1>3, <2>2
    <3>3. w[k - 1] = order[w[k - 2]].next
      BY <1>4, <3>1 DEF ListWalk
    <3>4. w[k - 2] \in Submitted(m)
      BY <1>4, <3>1 DEF ListWalk
    <3>5. w[k - 2] \in Orders /\ w[k - 2] # o
      BY <1>2, <3>4 DEF Submitted
    <3> QED  BY <1>5, <3>2, <3>3, <3>5
  <2> QED  BY <2>1, <2>2
<1>10. \A k \in 0..n : v[k] \in Submitted(m)'
  <2> SUFFICES ASSUME NEW k \in 0..n PROVE v[k] \in Submitted(m)'
    OBVIOUS
  <2>1. CASE k = 0
    BY <1>1, <1>7, <2>1
  <2>2. CASE k # 0
    <3>1. k - 1 \in 0..(n - 1) /\ v[k] = w[k - 1]
      BY <1>3, <2>2
    <3>2. w[k - 1] \in Submitted(m)
      BY <1>4, <3>1 DEF ListWalk
    <3> QED  BY <1>1, <3>1, <3>2
  <2> QED  BY <2>1, <2>2
<1>11. \A p \in Submitted(m)' : \E k \in 0..n : v[k] = p
  <2> SUFFICES ASSUME NEW p \in Submitted(m)' PROVE \E k \in 0..n : v[k] = p
    OBVIOUS
  <2>1. CASE p = o
    BY <1>3, <1>7, <2>1
  <2>2. CASE p # o
    <3>1. p \in Submitted(m)
      BY <1>1, <2>2
    <3>2. PICK k \in 0..(n - 1) : w[k] = p
      BY <1>4, <3>1 DEF ListWalk
    <3>3. k \in 0..n /\ k + 1 \in 0..n
      BY <1>3
    <3> QED  BY <1>8, <3>2, <3>3
  <2> QED  BY <2>1, <2>2
<1> HIDE DEF v
<1>12. (n + 1) - 1 = n
  BY <1>3
<1>13. ListWalk(m, n + 1, v)'
  BY <1>3, <1>5, <1>7, <1>9, <1>10, <1>11, <1>12 DEF ListWalk
<1> QED  BY <1>3, <1>6, <1>13 DEF Walked

LEMMA WalkedStep == TypeOK /\ MatchBinds /\ BlankAccounts /\ BookWalked /\ [Next]_vars => BookWalked'
<1> SUFFICES ASSUME TypeOK, MatchBinds, BlankAccounts, BookWalked, [Next]_vars,
                    NEW m \in Markets
             PROVE  Walked(m, Cardinality(Submitted(m)))'
  BY DEF BookWalked
<1>0. Walked(m, Cardinality(Submitted(m)))
  BY DEF BookWalked
<1>1. ASSUME NEW p \in Markets, NEW k \in Keepers, InitializeMarket(p, k)
      PROVE  ListKept(m)
  BY <1>1 DEF InitializeMarket, BlankAccounts, TypeOK, ListKept
<1>2. ASSUME NEW o \in Orders, NEW s \in Traders, NEW d \in DWallets, NEW c \in Cts,
             NEW e \in Expiries, SubmitOrder(o, s, d, c, e)
      PROVE  Walked(m, Cardinality(Submitted(m)))'
  <2>1. CASE o[1] = m
    BY <1>0, <1>2, <2>1, WalkExtended
  <2>2. CASE o[1] # m
    <3>1. /\ head'[m] = head[m]
          /\ \A q \in Orders : q[1] = m => order'[q] = order[q]
      BY <1>2, <2>2 DEF SubmitOrder, TypeOK
    <3>2. Submitted(m)' = Submitted(m)
      BY <3>1 DEF Submitted
    <3> DEFINE n == Cardinality(Submitted(m))
    <3>3. PICK w \in [0..n -> Orders \cup {None}] : ListWalk(m, n, w)
      BY <1>0 DEF Walked
    <3>4. n' = n /\ n \in Nat
      BY <3>2, SubmittedFinite
    <3> HIDE DEF n
    <3>5. \A k \in 1..n : w[k] = order'[w[k - 1]].next
      <4> SUFFICES ASSUME NEW k \in 1..n PROVE w[k] = order'[w[k - 1]].next
        OBVIOUS
      <4>1. k - 1 \in 0..(n - 1)
        BY <3>4
      <4>2. w[k - 1] \in Submitted(m)
        BY <3>3, <4>1 DEF ListWalk
      <4>3. w[k - 1] \in Orders /\ w[k - 1][1] = m
        BY <4>2 DEF Submitted
      <4> QED  BY <3>1, <3>3, <4>3 DEF ListWalk
    <3>6. ListWalk(m, n, w)'
      BY <3>1, <3>2, <3>3, <3>4, <3>5 DEF ListWalk
    <3> QED  BY <3>3, <3>4, <3>6 DEF Walked, n
  <2> QED  BY <2>1, <2>2
<1>3. ASSUME NEW o \in Orders, NEW s \in Traders, CancelOrder(o, s)
      PROVE  ListKept(m)
  BY <1>3 DEF CancelOrder, TypeOK, OrderRec, ListKept
<1>4. ASSUME NEW id \in MatchIds, NEW f \in Fills, NEW sellerIsA \in BOOLEAN,
             NEW s \in Keepers, FinalizeDecryption(id, f, sellerIsA, s)
      PROVE  ListKept(m)
  <2> DEFINE a == intent[id].a
             b == intent[id].b
  <2>1. order[a].status = "Active" /\ order[b].status = "Active"
    BY <1>4 DEF FinalizeDecryption, BothActive
  <2>2. \A o \in Orders : order'[o] =
            IF o \in {a, b} THEN [order[o] EXCEPT !.status = "Matched"] ELSE order[o]
    BY <1>4, FinalizeEffect
  <2>3. \A o \in Orders : [order[o] EXCEPT !.status = "Matched"].next = order[o].next
                       /\ [order[o] EXCEPT !.status = "Matched"].status = "Matched"
    BY DEF TypeOK, OrderRec
  <2>4. head' = head
    BY <1>4 DEF FinalizeDecryption
  <2> HIDE DEF a, b
  <2> QED  BY <2>1, <2>2, <2>3, <2>4 DEF ListKept
<1>5. ASSUME UNCHANGED <<order, head>>
      PROVE  ListKept(m)
  BY <1>5 DEF ListKept
<1>6. CASE OrderStep
  BY <1>0, <1>1, <1>2, <1>3, <1>6, WalkKept DEF OrderStep
<1>7. CASE ApprovalStep
  BY <1>0, <1>5, <1>7, WalkKept
  DEF ApprovalStep, ApproveBtcSettlement, ConsumeBtcApproval, marketVars
<1>8. CASE MatchStep
  <2>1. ASSUME NEW p \in Markets, NEW i \in 1..MaxMatches, NEW a \in Orders,
               NEW b \in Orders, NEW ca \in Cts, NEW cb \in Cts, NEW s \in Keepers,
               TryMatch(p, i, a, b, ca, cb, s)
        PROVE  ListKept(m)
    BY <1>5, <2>1 DEF TryMatch
  <2>2. ASSUME NEW id \in MatchIds, NEW out \in Outputs, ExecutorCommit(id, out)
        PROVE  ListKept(m)
    BY <1>5, <2>2 DEF ExecutorCommit, marketVars
  <2>3. ASSUME NEW id \in MatchIds, NEW s \in Keepers, RequestDecryption(id, s)
        PROVE  ListKept(m)
    BY <1>5, <2>3 DEF RequestDecryption, marketVars
  <2> QED  BY <1>0, <1>4, <1>8, <2>1, <2>2, <2>3, WalkKept DEF MatchStep
<1>9. CASE SettleStep
  BY <1>0, <1>5, <1>9, WalkKept DEF SettleStep, FinalizeSettlement, FailSettlement, marketVars
<1>10. CASE Tick \/ UNCHANGED vars
  BY <1>0, <1>5, <1>10, WalkKept DEF Tick, vars, marketVars
<1> QED  BY <1>6, <1>7, <1>8, <1>9, <1>10 DEF Next

\* orderbook_head and next always list every order of the market, each once.
THEOREM BookListed == Spec => []BookComplete
<1>1. Init => BookWalked
  BY WalkedInit
<1>2. IInv /\ BookWalked /\ [Next]_vars => BookWalked'
  BY WalkedStep DEF IInv, MatchInv
<1>3. BookWalked => BookComplete
  BY WalkedComplete
<1> QED  BY Invariance, <1>1, <1>2, <1>3, PTL DEF Spec

-----------------------------------------------------------------------------
(* The comparator, for words of any size *)

\* Of two words the sum wraps at most once.
LEMMA WrapOnce ==
    ASSUME NEW m \in Words, NEW n \in Words
    PROVE  /\ m + n < Modulus => (m + n) % Modulus = m + n
           /\ m + n >= Modulus => (m + n) % Modulus = m + n - Modulus
BY ModulusAssumption, Z3 DEF Words

\* The comparator finds exactly the pairs that could agree on a price.
THEOREM Crosses == \A a, b \in Inputs : MatchIffWilling(a, b)
<1> SUFFICES ASSUME NEW a \in Inputs, NEW b \in Inputs PROVE MatchIffWilling(a, b)
  OBVIOUS
<1>1. ASSUME CanMatch(a, b)
      PROVE  Opposite(a, b) /\ \E p \in Words : Willing(a, p) /\ Willing(b, p)
  <2>1. AskPrice(a, b) \in Words /\ Willing(a, AskPrice(a, b)) /\ Willing(b, AskPrice(a, b))
    BY <1>1 DEF CanMatch, Opposite, AskPrice, BidPrice, Willing, Inputs, Words
  <2> QED BY <1>1, <2>1 DEF CanMatch
<1>2. ASSUME Opposite(a, b), NEW p \in Words, Willing(a, p), Willing(b, p)
      PROVE  CanMatch(a, b)
  BY <1>2 DEF CanMatch, Opposite, AskPrice, BidPrice, Willing, Inputs, Words
<1> QED BY <1>1, <1>2 DEF MatchIffWilling

\* The price is fair exactly as long as the sum of the two prices is a word.
THEOREM Fair == \A a, b \in Inputs : FairUnlessWrapped(a, b)
<1> SUFFICES ASSUME NEW a \in Inputs, NEW b \in Inputs, CanMatch(a, b)
             PROVE  Willing(a, ClearingPrice(a, b)) /\ Willing(b, ClearingPrice(a, b))
                        <=> a.price + b.price < Modulus
  BY DEF FairUnlessWrapped
<1> DEFINE sum == a.price + b.price
<1>1. a.price \in Nat /\ b.price \in Nat /\ a.price < Modulus /\ b.price < Modulus
      /\ Modulus \in Nat
  BY ModulusAssumption DEF Inputs, Words
<1>2. CASE sum < Modulus
  <2>1. ClearingPrice(a, b) = sum \div 2
    BY <1>2, WrapOnce DEF ClearingPrice, Inputs
  <2>2. AskPrice(a, b) <= sum \div 2 /\ sum \div 2 <= BidPrice(a, b)
    BY <1>1 DEF CanMatch, AskPrice, BidPrice
  <2> HIDE DEF sum
  <2>3. Willing(a, sum \div 2) /\ Willing(b, sum \div 2)
    BY <2>2 DEF CanMatch, Opposite, AskPrice, BidPrice, Willing, Inputs
  <2> QED BY <2>1, <2>3, <1>2 DEF sum
<1>3. CASE sum >= Modulus
  <2> a.price \in Words /\ b.price \in Words
    BY DEF Inputs
  <2>0. sum % Modulus = sum - Modulus
    BY <1>1, <1>3, WrapOnce
  <2>1. ClearingPrice(a, b) = (sum - Modulus) \div 2
    BY <2>0 DEF ClearingPrice
  <2>2. (sum - Modulus) \div 2 < a.price /\ (sum - Modulus) \div 2 < b.price
    BY <1>1, <1>3
  <2>3. ~ Willing(a, ClearingPrice(a, b)) \/ ~ Willing(b, ClearingPrice(a, b))
    BY <1>1, <2>1, <2>2 DEF CanMatch, Opposite, Willing, Inputs
  <2> QED BY <1>1, <2>3, <1>3
<1> QED BY <1>1, <1>2, <1>3

\* One of the two orders is filled completely, and none more than that.
THEOREM Fill == \A a, b \in Inputs : FillExhaustsOne(a, b)
BY DEF FillExhaustsOne, FillSize, Inputs, Words

\* Which order comes first makes no difference.
THEOREM Symmetric == \A a, b \in Inputs : OrderIrrelevant(a, b)
<1> SUFFICES ASSUME NEW a \in Inputs, NEW b \in Inputs
             PROVE  MatchOrdersGraph(a, b) = MatchOrdersGraph(b, a)
  BY DEF OrderIrrelevant
<1>1. CanMatch(a, b) <=> CanMatch(b, a)
  BY DEF CanMatch, Opposite, BidPrice, AskPrice, Inputs
<1>2. FillSize(a, b) = FillSize(b, a)
  BY DEF FillSize, Inputs, Words
<1>3. ClearingPrice(a, b) = ClearingPrice(b, a)
  <2>1. a.price + b.price = b.price + a.price
    BY DEF Inputs, Words
  <2> QED BY <2>1 DEF ClearingPrice
<1> QED BY <1>1, <1>2, <1>3 DEF MatchOrdersGraph, CanMatch
====
