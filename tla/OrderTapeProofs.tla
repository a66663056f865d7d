---- MODULE OrderTapeProofs ----
(***************************************************************************)
(* Theorems about the order tape, for any number of orders, wallets and    *)
(* reads under way, and a tape of any size.                                *)
(***************************************************************************)
EXTENDS OrderTape, Views, Induction

-----------------------------------------------------------------------------
(* The helpers *)

LEMMA Enumerated ==
    ASSUME NEW S, S \subseteq Nat, IsFiniteSet(S)
    PROVE  /\ Enumerate(S) \in [1..Cardinality(S) -> S]
           /\ \A i, j \in 1..Cardinality(S) : i < j => Enumerate(S)[i] < Enumerate(S)[j]
           /\ \A x \in S : \E i \in 1..Cardinality(S) : Enumerate(S)[i] = x
<1> DEFINE n == Cardinality(S)
           Incr(f) == \A i, j \in DOMAIN f : i < j => f[i] < f[j]
           e == CHOOSE f \in [1..n -> S] : Incr(f)
<1>0. n \in Nat
  BY FS_CardinalityType
<1>1. PICK f \in [1..n -> S] : Lists(f, S)
  BY ListExists
<1>2. Incr(f)
  BY <1>1 DEF Lists
<1> HIDE DEF Incr
<1>3. e \in [1..n -> S] /\ Incr(e)
  BY <1>1, <1>2
<1>4. e = Enumerate(S)
  BY DEF Enumerate, Incr
<1> HIDE DEF e
<1>5. \A i, j \in 1..n : i < j => e[i] < e[j]
  BY <1>3 DEF Incr
<1>6. e \in Injection(1..n, S)
  <2> SUFFICES ASSUME NEW i \in 1..n, NEW j \in 1..n, e[i] = e[j] PROVE i = j
    BY <1>3 DEF Injection, IsInjective
  <2>1. e[i] \in Nat /\ e[j] \in Nat
    BY <1>3
  <2> QED  BY <1>0, <1>5, <2>1
<1>7. IsFiniteSet(1..n) /\ Cardinality(1..n) = n
  BY <1>0, FS_Interval
<1>8. e \in Surjection(1..n, S)
  BY <1>6, <1>7, FS_Injection
<1> QED  BY <1>3, <1>4, <1>5, <1>8 DEF Surjection

\* Finite sets of numbers up to n.
LEMMA UpTo == ASSUME NEW n \in Nat, NEW S, S \subseteq 1..n
              PROVE  S \subseteq Nat /\ IsFiniteSet(S) /\ Cardinality(S) \in Nat
<1>1. IsFiniteSet(1..n)
  BY FS_Interval
<1>2. IsFiniteSet(S)
  BY <1>1, FS_Subset
<1> QED  BY <1>2, FS_CardinalityType

LEMMA Kept ==
    ASSUME NEW rows \in Seq(Rows)
    PROVE  /\ Keep(rows) \in Seq(Rows)
           /\ Len(Keep(rows)) <= TapeSize /\ Len(Keep(rows)) <= Len(rows)
           /\ Len(Keep(rows)) = TapeSize \/ Len(Keep(rows)) = Len(rows)
           /\ \A k \in 1..Len(Keep(rows)) : k \in 1..Len(rows) /\ Keep(rows)[k] = rows[k]
BY TapeAssumption DEF Keep

LEMMA Pushed ==
    ASSUME NEW rows \in Seq(Rows), NEW row \in Rows,
           NEW new, new = Keep(<<row>> \o rows)
    PROVE  /\ new \in Seq(Rows) /\ Len(new) <= TapeSize
           /\ Len(new) = TapeSize \/ Len(new) = Len(rows) + 1
           /\ Len(new) <= Len(rows) + 1
           /\ \A k \in 1..Len(new) :
                IF k = 1 THEN new[k] = row ELSE k - 1 \in 1..Len(rows) /\ new[k] = rows[k - 1]
<1> DEFINE full == <<row>> \o rows
<1>1. /\ full \in Seq(Rows) /\ Len(full) = Len(rows) + 1
      /\ \A k \in 1..Len(full) :
           IF k = 1 THEN full[k] = row ELSE k - 1 \in 1..Len(rows) /\ full[k] = rows[k - 1]
  OBVIOUS
<1> HIDE DEF full
<1>2. new = Keep(full)
  BY DEF full
<1>3. full \in Seq(Rows)
  BY <1>1
<1>4. /\ new \in Seq(Rows)
      /\ Len(new) <= TapeSize /\ Len(new) <= Len(full)
      /\ Len(new) = TapeSize \/ Len(new) = Len(full)
      /\ \A k \in 1..Len(new) : k \in 1..Len(full) /\ new[k] = full[k]
  BY ONLY <1>2, <1>3, Kept
<1> QED  BY <1>1, <1>4

LEMMA StatusSet ==
    ASSUME NEW rows \in Seq(Rows), NEW o, NEW status \in Statuses,
           NEW new, new = SetStatus(rows, o, status)
    PROVE  /\ new \in Seq(Rows) /\ Len(new) = Len(rows)
           /\ \A k \in 1..Len(rows) :
                /\ new[k].id = rows[k].id /\ new[k].sent = rows[k].sent
                /\ new[k].encrypted = rows[k].encrypted
                /\ new[k].status = IF rows[k].id = o THEN status ELSE rows[k].status
                /\ rows[k].id # o => new[k] = rows[k]
<1>1. DOMAIN rows = 1..Len(rows) /\ Len(rows) \in Nat
  OBVIOUS
<1>2. \A k \in 1..Len(rows) : rows[k] \in Rows
  OBVIOUS
<1>3. \A k \in 1..Len(rows) : new[k] = IF rows[k].id = o THEN [rows[k] EXCEPT !.status = status]
                                                         ELSE rows[k]
  BY <1>1 DEF SetStatus
<1>4. \A k \in 1..Len(rows) : new[k] \in Rows
  BY <1>2, <1>3 DEF Rows
<1>5. new \in Seq(Rows) /\ Len(new) = Len(rows)
  <2>1. new = [k \in 1..Len(rows) |-> new[k]]
    BY <1>1 DEF SetStatus
  <2> QED  BY <1>1, <1>4, <2>1
<1> QED  BY <1>2, <1>3, <1>5 DEF Rows

\* What a hydration writes: n placeholders for chain rows that had no row,
\* then the rows that stay, in their order.
Rewritten(rows, chain, full, n, at) ==
    /\ \A k \in 1..n : \E o \in DOMAIN chain \ Ids(rows) : full[k] = Placeholder(o, chain)
    /\ \A j, k \in 1..n : j < k => full[j].id # full[k].id
    /\ \A k \in (n + 1)..Len(full) :
         /\ at[k] \in DOMAIN rows /\ Stays(rows, chain, at[k])
         /\ full[k] = Merged(rows, chain, at[k])
    /\ \A j, k \in (n + 1)..Len(full) : j < k => at[j] < at[k]
    /\ \A i \in DOMAIN rows : Stays(rows, chain, i) =>
         \E k \in (n + 1)..Len(full) : at[k] = i

LEMMA Hydrated ==
    ASSUME NEW rows \in Seq(Rows), NEW chain, DOMAIN chain \subseteq Orders,
           NEW new, new = HydrateFromChain(rows, chain)
    PROVE  \E full \in Seq(Rows), n \in Nat, at \in [Nat -> Nat] :
             /\ new = Keep(full) /\ n <= Len(full)
             /\ Rewritten(rows, chain, full, n, at)
<1> DEFINE K == {i \in DOMAIN rows : Stays(rows, chain, i)}
           F == {o[2] : o \in DOMAIN chain \ Ids(rows)}
           kept == Enumerate(K)
           fresh == Enumerate(F)
           c == Cardinality(K)
           n == Cardinality(F)
           left == [k \in 1..n |-> Placeholder(<<Market, fresh[k]>>, chain)]
           right == [k \in 1..c |-> Merged(rows, chain, kept[k])]
           full == left \o right
           at == [k \in Nat |-> IF k \in (n + 1)..(n + c) THEN kept[k - n] ELSE 0]
<1>1. DOMAIN rows = 1..Len(rows) /\ Len(rows) \in Nat /\ \A i \in DOMAIN rows : rows[i] \in Rows
  OBVIOUS
<1>2. K \subseteq 1..Len(rows) /\ F \subseteq 1..MaxOrders
  BY <1>1 DEF Orders
<1>3. K \subseteq Nat /\ IsFiniteSet(K) /\ c \in Nat
  BY <1>1, <1>2, UpTo
<1>4. F \subseteq Nat /\ IsFiniteSet(F) /\ n \in Nat
  BY <1>2, UpTo, TapeAssumption
<1>5. /\ kept \in [1..c -> K]
      /\ \A i, j \in 1..c : i < j => kept[i] < kept[j]
      /\ \A x \in K : \E i \in 1..c : kept[i] = x
  <2> HIDE DEF K
  <2> QED  BY <1>3, Enumerated
<1>6. /\ fresh \in [1..n -> F]
      /\ \A i, j \in 1..n : i < j => fresh[i] < fresh[j]
  <2> HIDE DEF F
  <2> QED  BY <1>4, Enumerated
<1>7. \A o \in Orders : o = <<Market, o[2]>>
  BY DEF Orders
<1>8. ASSUME NEW k \in 1..n
      PROVE  /\ <<Market, fresh[k]>> \in DOMAIN chain \ Ids(rows)
             /\ left[k] = Placeholder(<<Market, fresh[k]>>, chain)
             /\ left[k] \in Rows /\ left[k].id = <<Market, fresh[k]>>
  <2>1. PICK o \in DOMAIN chain \ Ids(rows) : fresh[k] = o[2]
    <3>1. fresh[k] \in F
      <4> HIDE DEF F, fresh, n
      <4> QED  BY <1>6
    <3> QED  BY <3>1
  <2>2. <<Market, fresh[k]>> = o
    BY <1>7, <2>1
  <2>3. left[k] = Placeholder(<<Market, fresh[k]>>, chain)
    <3> HIDE DEF n, fresh
    <3> QED  OBVIOUS
  <2>4. Placeholder(o, chain) \in Rows /\ Placeholder(o, chain).id = o
    <3>1. MergeStatus("sealed", chain[o]) \in Statuses
      BY DEF MergeStatus, Statuses
    <3>2. o \in Orders
      OBVIOUS
    <3> QED  BY <3>1, <3>2 DEF Placeholder, Rows
  <2> QED  BY <2>1, <2>2, <2>3, <2>4
<1>9. ASSUME NEW k \in 1..c
      PROVE  /\ kept[k] \in DOMAIN rows /\ Stays(rows, chain, kept[k])
             /\ right[k] = Merged(rows, chain, kept[k]) /\ right[k] \in Rows
  <2>1. kept[k] \in K
    <3> HIDE DEF K, kept, c
    <3> QED  BY <1>5
  <2>2. right[k] = Merged(rows, chain, kept[k])
    <3> HIDE DEF c, kept
    <3> QED  OBVIOUS
  <2>3. rows[kept[k]] \in Rows
    BY <1>1, <2>1
  <2>4. Merged(rows, chain, kept[k]) \in Rows
    <3> DEFINE r == rows[kept[k]]
               s == MergeStatus(r.status, chain[r.id])
    <3>1. s \in Statuses
      BY <2>3 DEF MergeStatus, Statuses, Rows
    <3> HIDE DEF s
    <3>2. [r EXCEPT !.status = s] \in Rows
      BY <3>1, <2>3 DEF Rows
    <3> QED  BY <3>2, <2>3 DEF Merged, s
  <2> QED  BY <2>1, <2>2, <2>4
<1>10. new = Keep(full)
  <2>1. DOMAIN fresh = 1..n /\ DOMAIN kept = 1..c
    <3> HIDE DEF fresh, kept, n, c, K, F
    <3> QED  BY <1>5, <1>6
  <2> QED  BY <2>1, Zenon DEF HydrateFromChain
<1> HIDE DEF n, c, fresh, kept, K, F
<1>11. left \in Seq(Rows) /\ Len(left) = n
  BY <1>4, <1>8
<1>12. right \in Seq(Rows) /\ Len(right) = c
  BY <1>3, <1>9
<1> HIDE DEF left, right
<1>13. /\ full \in Seq(Rows) /\ Len(full) = n + c
       /\ \A k \in 1..n : full[k] = left[k]
       /\ \A k \in (n + 1)..(n + c) : full[k] = right[k - n]
  BY <1>3, <1>4, <1>11, <1>12
<1>14. at \in [Nat -> Nat] /\ \A k \in (n + 1)..(n + c) : k - n \in 1..c /\ at[k] = kept[k - n]
  BY <1>1, <1>3, <1>4, <1>9
<1> HIDE DEF full, at
<1>15. \A k \in 1..n : \E o \in DOMAIN chain \ Ids(rows) : full[k] = Placeholder(o, chain)
  BY <1>8, <1>13
<1>16. \A j, k \in 1..n : j < k => full[j].id # full[k].id
  <2> SUFFICES ASSUME NEW j \in 1..n, NEW k \in 1..n, j < k PROVE full[j].id # full[k].id
    OBVIOUS
  <2>1. full[j].id = <<Market, fresh[j]>> /\ full[k].id = <<Market, fresh[k]>>
    BY <1>8, <1>13
  <2>2. fresh[j] < fresh[k] /\ fresh[j] \in Nat /\ fresh[k] \in Nat
    BY <1>4, <1>6
  <2> QED  BY <2>1, <2>2
<1>17. \A k \in (n + 1)..(n + c) :
         /\ at[k] \in DOMAIN rows /\ Stays(rows, chain, at[k])
         /\ full[k] = Merged(rows, chain, at[k])
  BY <1>9, <1>13, <1>14
<1>18. \A j, k \in (n + 1)..(n + c) : j < k => at[j] < at[k]
  BY <1>3, <1>4, <1>5, <1>14
<1>19. \A i \in DOMAIN rows : Stays(rows, chain, i) => \E k \in (n + 1)..(n + c) : at[k] = i
  <2> SUFFICES ASSUME NEW i \in DOMAIN rows, Stays(rows, chain, i)
               PROVE  \E k \in (n + 1)..(n + c) : at[k] = i
    OBVIOUS
  <2>1. PICK p \in 1..c : kept[p] = i
    BY <1>5 DEF K
  <2>2. n + p \in (n + 1)..(n + c) /\ (n + p) - n = p
    BY <1>3, <1>4
  <2> QED  BY <1>14, <2>1, <2>2
<1>20. full \in Seq(Rows)
  BY <1>13
<1>21. n \in Nat /\ c \in Nat /\ Len(full) = n + c
  BY <1>3, <1>4, <1>13
<1>22. at \in [Nat -> Nat]
  BY <1>14
<1>23. n <= Len(full)
  BY <1>21
<1>24. Rewritten(rows, chain, full, n, at)
  BY <1>15, <1>16, <1>17, <1>18, <1>19, <1>21 DEF Rewritten
<1> QED  BY <1>10, <1>20, <1>21, <1>22, <1>23, <1>24

LEMMA FirstOf == ASSUME NEW S, NEW s \in Seq(S), s # <<>>
                 PROVE  Len(s) \in Nat /\ Len(s) >= 1 /\ DOMAIN s = 1..Len(s) /\ s[1] \in S
OBVIOUS

LEMMA CandidateRows ==
    ASSUME TapeTypeOK
    PROVE  /\ DemoCandidates \in Seq(Rows)
           /\ \A k \in DOMAIN DemoCandidates : \E i \in DOMAIN tape :
                DemoCandidates[k] = tape[i] /\ tape[i].status = "sealed" /\ ~ tape[i].encrypted
<1> DEFINE S == {i \in DOMAIN tape : tape[i].status = "sealed" /\ ~ tape[i].encrypted}
           e == Enumerate(S)
           c == Cardinality(S)
<1>1. DOMAIN tape = 1..Len(tape) /\ Len(tape) \in Nat /\ \A i \in DOMAIN tape : tape[i] \in Rows
  BY DEF TapeTypeOK
<1>2. S \subseteq 1..Len(tape)
  BY <1>1
<1>3. S \subseteq Nat /\ IsFiniteSet(S) /\ c \in Nat
  BY <1>1, <1>2, UpTo
<1>4. e \in [1..c -> S]
  <2> HIDE DEF S
  <2> QED  BY <1>3, Enumerated
<1>5. DemoCandidates = [k \in 1..c |-> tape[e[k]]]
  <2>1. DOMAIN e = 1..c
    <3> HIDE DEF e, c, S
    <3> QED  BY <1>4
  <2> QED  BY <2>1, Zenon DEF DemoCandidates, At
<1>6. \A k \in 1..c : e[k] \in S
  <2> HIDE DEF e, c, S
  <2> QED  BY <1>4
<1> HIDE DEF e, c
<1> QED  BY <1>1, <1>3, <1>5, <1>6

-----------------------------------------------------------------------------
(* The inductive invariant *)

ReadRec == [under : BOOLEAN, live : BOOLEAN, failed : BOOLEAN,
            rows : UNION {[S -> {"Absent", "Active", "Matched", "Cancelled"}] : S \in SUBSET Orders}]
ReadsTyped == reads \in [Polls -> ReadRec]

\* Nothing is known of an order whose nonce is not drawn.
Drawn(o) == o[2] <= minted
OnlyDrawn ==
    /\ \A o \in Orders : tx[o] # "none" => Drawn(o)
    /\ \A i \in DOMAIN tape : Drawn(tape[i].id)
    /\ \A t \in timers : Drawn(t[1])
    /\ \A k \in DOMAIN queue : Drawn(queue[k])
    /\ pend # None => Drawn(pend)

OnChain == \A o \in Orders : book[o] # "Absent" => tx[o] = "landed"

\* A row is a stub exactly if its order was never sent.
Origins == \A i \in DOMAIN tape :
    tape[i].sent \/ tape[i].encrypted <=> tx[tape[i].id] # "none"

\* What a read that is not cancelled saw is still the connected wallet's.
ReadsOwn == \A i \in Polls : reads[i].live =>
    \A o \in DOMAIN reads[i].rows : owner[o] = wallet /\ book[o] # "Absent"

\* Until its confirmation, a submitted order has at most a placeholder.
FormOnce == form # None =>
    /\ tx[form] # "none"
    /\ \A i \in DOMAIN tape : tape[i].id = form => tape[i].encrypted

\* The timers of a stub find the status that the timer before them set.
TimersInStep == \A i \in DOMAIN tape : tx[tape[i].id] = "none" =>
    /\ <<tape[i].id, "settling">> \in timers => tape[i].status = "matched"
    /\ <<tape[i].id, "settled">> \in timers /\ <<tape[i].id, "settling">> \notin timers =>
         tape[i].status = "settling"

TapeInv == /\ TapeTypeOK /\ ReadsTyped /\ OnlyDrawn /\ OnChain /\ Origins /\ ReadsOwn
           /\ FormOnce /\ TwinIsPlaceholder /\ TimersInStep

LEMMA TapeInvInit == Init => TapeInv
<1> SUFFICES ASSUME Init PROVE TapeInv
  OBVIOUS
<1> USE TapeAssumption
<1>1. TapeTypeOK
  BY DEF Init, Pool!Init, TapeTypeOK, Statuses
<1>2. ReadsTyped
  <2>1. <<>> \in [{} -> {"Absent", "Active", "Matched", "Cancelled"}]
    OBVIOUS
  <2>2. NoRead \in ReadRec
    BY <2>1 DEF NoRead, ReadRec
  <2> QED  BY <2>2 DEF Init, ReadsTyped
<1>3. OnlyDrawn /\ OnChain /\ Origins /\ FormOnce /\ TwinIsPlaceholder /\ TimersInStep
  BY DEF Init, Pool!Init, OnlyDrawn, OnChain, Origins, FormOnce, TwinIsPlaceholder, TimersInStep
<1>4. ReadsOwn
  BY DEF Init, ReadsOwn, NoRead
<1> QED  BY <1>1, <1>2, <1>3, <1>4 DEF TapeInv

LEMMA FreshOrder ==
    ASSUME TapeTypeOK, Mint
    PROVE  /\ Fresh \in Orders /\ Fresh[2] = minted + 1 /\ minted' = minted + 1
           /\ ~ Drawn(Fresh) /\ minted' \in 0..MaxOrders
BY TapeAssumption DEF TapeTypeOK, Mint, Fresh, Orders, Drawn

LEMMA RowTyped == ASSUME NEW o \in Orders, NEW sent \in BOOLEAN PROVE Row(o, sent) \in Rows
BY DEF Row, Rows, Statuses

\* What a step may do to the tape.
TapeMove ==
    \/ UNCHANGED tape
    \/ tape' = <<>> /\ changes' > changes /\ UNCHANGED <<tx, form, timers, minted>>
    \/ \E o \in Orders, sent \in BOOLEAN :
         /\ tape' = Keep(<<Row(o, sent)>> \o tape) /\ form' = None
         /\ IF sent THEN o = form /\ form # None ELSE ~ Drawn(o) /\ minted' = o[2]
         /\ UNCHANGED <<tx, timers>>
    \/ \E o \in Orders, status \in Statuses :
         tape' = SetStatus(tape, o, status) /\ UNCHANGED <<tx, form, minted>>
    \/ \E i \in Polls :
         /\ Hydrate(i) /\ reads[i].live /\ tape' = HydrateFromChain(tape, reads[i].rows)
         /\ UNCHANGED <<tx, form, timers, minted>>

LEMMA TapeMoves == TapeTypeOK /\ [Next]_tapeVars => TapeMove
<1> SUFFICES ASSUME TapeTypeOK, [Next]_tapeVars PROVE TapeMove
  OBVIOUS
<1> USE DEF poolVars, demoVars, browserVars
<1>1. ASSUME NEW i \in Polls, Tick(i) PROVE TapeMove
  BY <1>1 DEF Tick, TapeMove
<1>2. ASSUME NEW i \in Polls, Hydrate(i) PROVE TapeMove
  <2>1. CASE reads[i].live
    BY <1>2, <2>1 DEF Hydrate, Current, TapeMove
  <2>2. CASE ~ reads[i].live
    BY <1>2, <2>2 DEF Hydrate, Current, TapeMove
  <2> QED  BY <2>1, <2>2
<1>3. ASSUME NEW w \in Wallets \cup {None}, Connect(w) PROVE TapeMove
  BY <1>3 DEF Connect, TapeMove
<1>4. CASE SubmitStub
  <2>1. /\ tape' = Keep(<<Row(Fresh, FALSE)>> \o tape) /\ Mint
        /\ form' = None /\ UNCHANGED <<tx, timers>>
    BY <1>4 DEF SubmitStub, SubmitLocal, PushOrder, CanSubmit
  <2> QED  BY <2>1, FreshOrder DEF TapeMove
<1>5. CASE Send
  BY <1>5 DEF Send, TapeMove
<1>6. CASE Confirm
  <2>1. /\ tape' = Keep(<<Row(form, TRUE)>> \o tape) /\ form # None /\ form \in Orders
        /\ form' = None /\ UNCHANGED <<tx, timers>>
    BY <1>6 DEF Confirm, PushOrder, TapeTypeOK
  <2> QED  BY <2>1 DEF TapeMove
<1>7. CASE ConfirmThrows
  <2>1. /\ tape' = Keep(<<Row(Fresh, FALSE)>> \o tape) /\ Mint
        /\ form' = None /\ UNCHANGED <<tx, timers>>
    BY <1>7 DEF ConfirmThrows, SubmitLocal, PushOrder
  <2> QED  BY <2>1, FreshOrder DEF TapeMove
<1>8. ASSUME NEW o \in Orders, NEW status \in Statuses,
             tape' = SetStatus(tape, o, status), UNCHANGED <<tx, form, minted>>
      PROVE  TapeMove
  BY <1>8 DEF TapeMove
<1>9. ASSUME NEW o \in Orders, Cancel(o) PROVE TapeMove
  BY <1>8, <1>9 DEF Cancel, Statuses
<1>10. CASE TryMatch \/ MatchAll
  <2>1. DemoCandidates \in Seq(Rows) /\ DemoCandidates # <<>>
    BY <1>10, CandidateRows DEF TryMatch, MatchAll
  <2>2. DemoCandidates[1].id \in Orders
    <3>1. DemoCandidates[1] \in Rows
      BY <2>1, FirstOf
    <3> QED  BY <3>1 DEF Rows
  <2> QED  BY <1>8, <1>10, <2>2 DEF TryMatch, MatchAll, StartMatch, Statuses
<1>11. ASSUME NEW o \in Orders, NEW status \in {"settling", "settled"}, Fire(o, status)
       PROVE  TapeMove
  BY <1>8, <1>11 DEF Fire, Statuses
<1>12. CASE StartPending
  BY <1>8, <1>12 DEF StartPending, StartMatch, Statuses, TapeTypeOK
<1>13. CASE MatchComplete
  BY <1>13 DEF MatchComplete, TapeMove
<1>14. CASE Reload
  BY <1>14 DEF Reload, TapeMove
<1>15. CASE Reset
  <2>1. changes' > changes
    BY <1>15 DEF Reset, Change, TapeTypeOK
  <2> QED  BY <1>15, <2>1 DEF Reset, TapeMove
<1>16. ASSUME NEW o \in Orders, Land(o) \/ Refuse(o) \/ Withdraw(o) PROVE TapeMove
  BY <1>16 DEF Land, Refuse, Withdraw, TapeMove
<1>17. ASSUME NEW w \in Wallets, Elsewhere(w) PROVE TapeMove
  BY <1>17 DEF Elsewhere, TapeMove
<1>18. CASE Match
  BY <1>18 DEF Match, TapeMove
<1>19. CASE UNCHANGED tapeVars
  BY <1>19 DEF tapeVars, TapeMove
<1> QED
  BY <1>1, <1>2, <1>3, <1>4, <1>5, <1>6, <1>7, <1>9, <1>10, <1>11, <1>12, <1>13, <1>14,
     <1>15, <1>16, <1>17, <1>18, <1>19 DEF Next, TimerStep

\* What a step may do to the chain.
ChainMove ==
    /\ minted' \in {minted, minted + 1} /\ minted' \in 0..MaxOrders
    /\ \A o \in Orders : tx[o] # "none" => tx'[o] # "none" /\ owner'[o] = owner[o]
    /\ \A o \in Orders : tx[o] = "none" /\ tx'[o] # "none" => ~ Drawn(o) /\ minted' = o[2]
    /\ \A o \in Orders : book[o] # "Absent" => book'[o] # "Absent"
    /\ \A o \in Orders : book'[o] # "Absent" => book[o] # "Absent" \/ tx'[o] = "landed"
    /\ \A o \in Orders : tx[o] = "landed" => tx'[o] = "landed"
    /\ book' \in [Orders -> {"Absent", "Active", "Matched", "Cancelled"}]
    /\ owner' \in [Orders -> Wallets \cup {None}]
    /\ tx' \in [Orders -> {"none", "flying", "landed", "refused"}]

LEMMA ChainMoves == TapeTypeOK /\ OnlyDrawn /\ OnChain /\ [Next]_tapeVars => ChainMove
<1> SUFFICES ASSUME TapeTypeOK, OnlyDrawn, OnChain, [Next]_tapeVars PROVE ChainMove
  OBVIOUS
<1> USE TapeAssumption DEF poolVars, demoVars, browserVars
<1>0. /\ minted \in 0..MaxOrders /\ minted \in Nat
      /\ book \in [Orders -> {"Absent", "Active", "Matched", "Cancelled"}]
      /\ owner \in [Orders -> Wallets \cup {None}]
      /\ tx \in [Orders -> {"none", "flying", "landed", "refused"}]
  BY DEF TapeTypeOK
<1>1. ASSUME UNCHANGED poolVars, minted' \in {minted, minted + 1}, minted' \in 0..MaxOrders
      PROVE  ChainMove
  BY <1>0, <1>1 DEF ChainMove
<1>2. ASSUME UNCHANGED poolVars, UNCHANGED minted \/ Mint PROVE ChainMove
  BY <1>0, <1>1, <1>2, FreshOrder
<1>3. ASSUME NEW i \in Polls, Tick(i) \/ Hydrate(i) PROVE ChainMove
  BY <1>2, <1>3 DEF Tick, Hydrate
<1>4. ASSUME NEW w \in Wallets \cup {None}, Connect(w) PROVE ChainMove
  BY <1>2, <1>4 DEF Connect
<1>5. CASE SubmitStub \/ Confirm \/ ConfirmThrows
  BY <1>2, <1>5 DEF SubmitStub, SubmitLocal, Confirm, ConfirmThrows
<1>6. CASE Send
  <2>1. /\ Fresh \in Orders /\ Fresh[2] = minted + 1 /\ minted' = minted + 1
        /\ ~ Drawn(Fresh) /\ minted' \in 0..MaxOrders
    BY <1>6, FreshOrder DEF Send
  <2>2. tx' = [tx EXCEPT ![Fresh] = "flying"] /\ owner' = [owner EXCEPT ![Fresh] = wallet]
        /\ book' = book /\ wallet \in Wallets \cup {None}
    BY <1>6 DEF Send, SubmitOrderOnChain, TapeTypeOK
  <2>3. tx[Fresh] = "none"
    BY <2>1 DEF OnlyDrawn
  <2> HIDE DEF Fresh
  <2> QED  BY <1>0, <2>1, <2>2, <2>3 DEF ChainMove
<1>7. ASSUME NEW o \in Orders, Cancel(o) PROVE ChainMove
  BY <1>2, <1>7 DEF Cancel
<1>8. CASE TryMatch \/ MatchAll \/ TimerStep
  BY <1>2, <1>8 DEF TryMatch, MatchAll, TimerStep, Fire, MatchComplete, StartPending
<1>9. CASE Reload \/ Reset
  BY <1>2, <1>9 DEF Reload, Reset
<1>10. ASSUME NEW o \in Orders, Land(o) PROVE ChainMove
  <2>1. /\ tx[o] = "flying" /\ book[o] = "Absent" /\ book' = [book EXCEPT ![o] = "Active"]
        /\ tx' = [tx EXCEPT ![o] = "landed"] /\ UNCHANGED <<owner, minted>>
    BY <1>10 DEF Land, Pool!Place
  <2> QED  BY <1>0, <2>1 DEF ChainMove
<1>11. ASSUME NEW o \in Orders, Refuse(o) PROVE ChainMove
  BY <1>0, <1>11 DEF Refuse, ChainMove
<1>12. ASSUME NEW o \in Orders, Withdraw(o) PROVE ChainMove
  <2>1. /\ book[o] = "Active" /\ book' = [book EXCEPT ![o] = "Cancelled"]
        /\ UNCHANGED <<owner, tx, minted>>
    BY <1>12 DEF Withdraw, Pool!Withdraw
  <2> QED  BY <1>0, <2>1 DEF ChainMove
<1>13. ASSUME NEW w \in Wallets, Elsewhere(w) PROVE ChainMove
  <2>1. /\ Fresh \in Orders /\ Fresh[2] = minted + 1 /\ minted' = minted + 1
        /\ ~ Drawn(Fresh) /\ minted' \in 0..MaxOrders
    BY <1>13, FreshOrder DEF Elsewhere
  <2>2. /\ tx' = [tx EXCEPT ![Fresh] = "landed"] /\ owner' = [owner EXCEPT ![Fresh] = w]
        /\ book' = [book EXCEPT ![Fresh] = "Active"]
    BY <1>13 DEF Elsewhere, Pool!Place
  <2>3. tx[Fresh] = "none"
    BY <2>1 DEF OnlyDrawn
  <2> HIDE DEF Fresh
  <2> QED  BY <1>0, <2>1, <2>2, <2>3 DEF ChainMove
<1>14. CASE Match
  <2>1. PICK p \in SUBSET Orders :
          /\ \A o \in p : book[o] = "Active"
          /\ book' = [o \in Orders |-> IF o \in p THEN "Matched" ELSE book[o]]
    BY <1>14 DEF Match, Pool!Trade
  <2>2. UNCHANGED <<owner, tx, minted>>
    BY <1>14 DEF Match
  <2> QED  BY <1>0, <2>1, <2>2 DEF ChainMove
<1>15. CASE UNCHANGED tapeVars
  BY <1>2, <1>15 DEF tapeVars
<1> QED
  BY <1>3, <1>4, <1>5, <1>6, <1>7, <1>8, <1>9, <1>10, <1>11, <1>12, <1>13, <1>14, <1>15
  DEF Next

-----------------------------------------------------------------------------
(* Each part is kept by a step *)

LEMMA TapeRowsTyped ==
    ASSUME TapeTypeOK, ReadsTyped, TapeMove
    PROVE  tape' \in Seq(Rows) /\ Len(tape') <= TapeSize
<1>0. tape \in Seq(Rows) /\ Len(tape) <= TapeSize
  BY DEF TapeTypeOK
<1>1. CASE UNCHANGED tape
  BY <1>0, <1>1
<1>5. CASE tape' = <<>>
  <2>1. <<>> \in Seq(Rows) /\ Len(<<>>) <= TapeSize
    BY TapeAssumption
  <2> QED  BY <1>5, <2>1
<1>2. ASSUME NEW o \in Orders, NEW sent \in BOOLEAN, tape' = Keep(<<Row(o, sent)>> \o tape)
      PROVE  tape' \in Seq(Rows) /\ Len(tape') <= TapeSize
  BY <1>0, <1>2, RowTyped, Pushed
<1>3. ASSUME NEW o \in Orders, NEW status \in Statuses, tape' = SetStatus(tape, o, status)
      PROVE  tape' \in Seq(Rows) /\ Len(tape') <= TapeSize
  BY <1>0, <1>3, StatusSet
<1>4. ASSUME NEW i \in Polls, tape' = HydrateFromChain(tape, reads[i].rows)
      PROVE  tape' \in Seq(Rows) /\ Len(tape') <= TapeSize
  <2>1. DOMAIN reads[i].rows \subseteq Orders
    BY DEF ReadsTyped, ReadRec
  <2>2. PICK full \in Seq(Rows) : tape' = Keep(full)
    BY <1>0, <1>4, <2>1, Hydrated
  <2> QED  BY <2>2, Kept
<1> QED  BY <1>1, <1>2, <1>3, <1>4, <1>5 DEF TapeMove

LEMMA TypeStep == TapeInv /\ [Next]_tapeVars => TapeTypeOK'
<1> SUFFICES ASSUME TapeInv, [Next]_tapeVars PROVE TapeTypeOK'
  OBVIOUS
<1> USE TapeAssumption DEF poolVars, demoVars, browserVars
<1>0. TapeTypeOK /\ ReadsTyped /\ ChainMove /\ TapeMove
  BY ChainMoves, TapeMoves DEF TapeInv
<1>1. tape' \in Seq(Rows) /\ Len(tape') <= TapeSize
  BY <1>0, TapeRowsTyped
<1>2. /\ book' \in [Orders -> {"Absent", "Active", "Matched", "Cancelled"}]
      /\ owner' \in [Orders -> Wallets \cup {None}]
      /\ tx' \in [Orders -> {"none", "flying", "landed", "refused"}]
      /\ minted' \in 0..MaxOrders
  BY <1>0 DEF ChainMove
<1>3. /\ wallet \in Wallets \cup {None} /\ form \in Orders \cup {None}
      /\ modal \in Orders \cup {None} /\ pend \in Orders \cup {None}
      /\ queue \in Seq(Orders) /\ timers \subseteq Orders \X {"settling", "settled"}
      /\ faults \in 0..MaxFaults /\ changes \in 0..MaxChanges
  BY <1>0 DEF TapeTypeOK
<1> DEFINE Rest == /\ wallet' \in Wallets \cup {None} /\ form' \in Orders \cup {None}
                   /\ modal' \in Orders \cup {None} /\ pend' \in Orders \cup {None}
                   /\ queue' \in Seq(Orders) /\ timers' \subseteq Orders \X {"settling", "settled"}
                   /\ faults' \in 0..MaxFaults /\ changes' \in 0..MaxChanges
<1> SUFFICES Rest
  BY <1>1, <1>2 DEF TapeTypeOK
<1>4. Fault => faults' \in 0..MaxFaults
  BY <1>3 DEF Fault
<1>5. Change => changes' \in 0..MaxChanges
  BY <1>3 DEF Change
<1>6. \A o \in Orders : Schedule(o) => timers' \subseteq Orders \X {"settling", "settled"}
  BY <1>3 DEF Schedule
<1>7. ASSUME NEW i \in Polls, Tick(i) \/ Hydrate(i) PROVE Rest
  BY <1>3, <1>4, <1>7 DEF Tick, Hydrate
<1>8. ASSUME NEW w \in Wallets \cup {None}, Connect(w) PROVE Rest
  BY <1>3, <1>5, <1>8 DEF Connect
<1>9. CASE SubmitStub \/ Confirm \/ ConfirmThrows
  BY <1>3, <1>4, <1>9 DEF SubmitStub, Confirm, ConfirmThrows
<1>10. CASE Send
  BY <1>0, <1>3, <1>10, FreshOrder DEF Send
<1>11. ASSUME NEW o \in Orders, Cancel(o) \/ Land(o) \/ Refuse(o) \/ Withdraw(o) PROVE Rest
  BY <1>3, <1>11 DEF Cancel, Land, Refuse, Withdraw
<1>12. CASE TryMatch \/ MatchAll
  <2>1. DemoCandidates \in Seq(Rows) /\ DemoCandidates # <<>>
    BY <1>0, <1>12, CandidateRows DEF TryMatch, MatchAll
  <2>2. Len(DemoCandidates) \in Nat
        /\ \A k \in 1..Len(DemoCandidates) : DemoCandidates[k].id \in Orders
    <3>1. \A k \in 1..Len(DemoCandidates) : DemoCandidates[k] \in Rows
      BY <2>1
    <3> QED  BY <2>1, <3>1 DEF Rows
  <2>3. DemoCandidates[1].id \in Orders
    BY <2>1, <2>2, FirstOf
  <2>4. \A k \in 1..(Len(DemoCandidates) - 1) : DemoCandidates[k + 1].id \in Orders
    BY <2>2
  <2>5. [k \in 1..(Len(DemoCandidates) - 1) |-> DemoCandidates[k + 1].id] \in Seq(Orders)
    <3>1. Len(DemoCandidates) - 1 \in Nat
      BY <2>1, FirstOf
    <3> QED  BY <2>4, <3>1
  <2> QED  BY <1>3, <1>6, <1>12, <2>3, <2>5 DEF TryMatch, MatchAll, StartMatch
<1>13. ASSUME NEW o \in Orders, NEW status \in {"settling", "settled"}, Fire(o, status)
       PROVE  Rest
  BY <1>3, <1>13 DEF Fire
<1>14. CASE MatchComplete
  <2>1. queue # <<>> => Head(queue) \in Orders /\ Tail(queue) \in Seq(Orders)
    BY <1>3
  <2> QED  BY <1>3, <1>14, <2>1 DEF MatchComplete
<1>15. CASE StartPending
  BY <1>3, <1>6, <1>15 DEF StartPending, StartMatch
<1>16. CASE Reload \/ Reset
  <2>1. /\ UNCHANGED <<wallet, faults>> /\ modal' = None /\ pend' = None /\ queue' = <<>>
        /\ form' = None \/ UNCHANGED form
        /\ timers' = {} \/ UNCHANGED timers
        /\ Change
    BY <1>16 DEF Reload, Reset
  <2>2. <<>> \in Seq(Orders)
    OBVIOUS
  <2> QED  BY <1>3, <1>5, <2>1, <2>2
<1>17. ASSUME NEW w \in Wallets, Elsewhere(w) PROVE Rest
  BY <1>3, <1>5, <1>17 DEF Elsewhere
<1>18. CASE Match \/ UNCHANGED tapeVars
  BY <1>3, <1>18 DEF Match, tapeVars
<1> QED
  BY <1>7, <1>8, <1>9, <1>10, <1>11, <1>12, <1>13, <1>14, <1>15, <1>16, <1>17, <1>18
  DEF Next, TimerStep

LEMMA ReadsStep == TapeInv /\ [Next]_tapeVars => ReadsTyped' /\ ReadsOwn'
<1> SUFFICES ASSUME TapeInv, [Next]_tapeVars PROVE ReadsTyped' /\ ReadsOwn'
  OBVIOUS
<1> USE DEF poolVars, demoVars, browserVars
<1>0. TapeTypeOK /\ ReadsTyped /\ ReadsOwn /\ OnChain /\ ChainMove
  BY ChainMoves DEF TapeInv
<1>1. NoRead \in ReadRec /\ ~ NoRead.live
  <2>1. <<>> \in [{} -> {"Absent", "Active", "Matched", "Cancelled"}]
    OBVIOUS
  <2> QED  BY <2>1 DEF NoRead, ReadRec
<1>2. CASE UNCHANGED <<reads, wallet>>
  <2>1. \A i \in Polls : \A o \in DOMAIN reads[i].rows : o \in Orders
    BY <1>0 DEF ReadsTyped, ReadRec
  <2>2. \A o \in Orders : book[o] # "Absent" => tx[o] # "none"
    BY <1>0 DEF OnChain
  <2> QED  BY <1>0, <1>2, <2>1, <2>2 DEF ReadsTyped, ReadsOwn, ChainMove
<1>3. ASSUME NEW i \in Polls, Tick(i) PROVE ReadsTyped' /\ ReadsOwn'
  <2>1. PICK f \in BOOLEAN, rows \in {OwnRows(wallet), <<>>} :
          reads' = [reads EXCEPT ![i] = [under |-> TRUE, live |-> TRUE, failed |-> f, rows |-> rows]]
    BY <1>3 DEF Tick, Read
  <2>2. UNCHANGED <<book, owner, wallet>>
    BY <1>3 DEF Tick
  <2> DEFINE r == [under |-> TRUE, live |-> TRUE, failed |-> f, rows |-> rows]
             own == {x \in Orders : owner[x] = wallet /\ book[x] # "Absent"}
  <2>3. /\ \A o \in DOMAIN rows : o \in Orders /\ owner[o] = wallet /\ book[o] # "Absent"
        /\ rows \in UNION {[S -> {"Absent", "Active", "Matched", "Cancelled"}] : S \in SUBSET Orders}
    <3>1. CASE rows = <<>>
      <4>1. rows \in [{} -> {"Absent", "Active", "Matched", "Cancelled"}] /\ {} \in SUBSET Orders
        BY <3>1
      <4> QED  BY <4>1
    <3>2. CASE rows = OwnRows(wallet)
      <4>1. rows = [o \in own |-> book[o]] /\ own \in SUBSET Orders
        BY <3>2 DEF OwnRows
      <4>2. rows \in [own -> {"Absent", "Active", "Matched", "Cancelled"}]
        BY <1>0, <4>1 DEF TapeTypeOK
      <4> QED  BY <4>1, <4>2
    <3> QED  BY <3>1, <3>2
  <2>4. r \in ReadRec
    BY <2>3 DEF ReadRec
  <2>5. reads' = [reads EXCEPT ![i] = r] /\ r.live /\ r.rows = rows
    BY <2>1
  <2> HIDE DEF r
  <2>6. ReadsTyped'
    BY <1>0, <2>4, <2>5 DEF ReadsTyped
  <2>7. ReadsOwn'
    BY <1>0, <2>2, <2>3, <2>5 DEF ReadsOwn, ReadsTyped
  <2> QED  BY <2>6, <2>7
<1>4. ASSUME NEW i \in Polls, Hydrate(i) PROVE ReadsTyped' /\ ReadsOwn'
  <2>1. reads' = [reads EXCEPT ![i] = NoRead] /\ UNCHANGED <<book, owner, wallet>>
    BY <1>4 DEF Hydrate
  <2> QED  BY <1>0, <1>1, <2>1 DEF ReadsTyped, ReadsOwn
<1>5. CASE reads' = Cancelled
  <2>1. \A i \in Polls : [reads[i] EXCEPT !.live = FALSE] \in ReadRec
                         /\ ~ [reads[i] EXCEPT !.live = FALSE].live
    BY <1>0 DEF ReadsTyped, ReadRec
  <2> QED  BY <1>5, <2>1 DEF Cancelled, ReadsTyped, ReadsOwn
<1>6. CASE reads' = [i \in Polls |-> NoRead]
  BY <1>1, <1>6 DEF ReadsTyped, ReadsOwn
<1>7. \/ UNCHANGED <<reads, wallet>>
      \/ \E i \in Polls : Tick(i) \/ Hydrate(i)
      \/ reads' = Cancelled \/ reads' = [i \in Polls |-> NoRead]
  BY DEF Next, tapeVars, TimerStep, Connect, SubmitStub, Send, Confirm, ConfirmThrows, Cancel,
         TryMatch, MatchAll, Fire, MatchComplete, StartPending, Reload, Reset, Land, Refuse,
         Withdraw, Elsewhere, Match
<1> QED  BY <1>2, <1>3, <1>4, <1>5, <1>6, <1>7

\* Where a row of the next tape comes from.
RowSource(row) ==
    \/ \E i \in DOMAIN tape : /\ row.id = tape[i].id /\ row.sent = tape[i].sent
                               /\ row.encrypted = tape[i].encrypted
    \/ /\ ~ row.sent /\ ~ row.encrypted /\ ~ Drawn(row.id)
       /\ minted' = row.id[2] /\ form' = None
    \/ /\ row.sent /\ ~ row.encrypted /\ row.id = form /\ form # None /\ form' = None
    \/ /\ row.encrypted /\ ~ row.sent /\ tx[row.id] = "landed"

LEMMA RowSources ==
    ASSUME TapeTypeOK, ReadsTyped, ReadsOwn, OnChain, TapeMove
    PROVE  \A k \in DOMAIN tape' : RowSource(tape'[k])
<1>0. /\ tape \in Seq(Rows) /\ DOMAIN tape = 1..Len(tape)
      /\ tape' \in Seq(Rows) /\ DOMAIN tape' = 1..Len(tape') /\ Len(tape') \in Nat
  <2>1. tape \in Seq(Rows) /\ tape' \in Seq(Rows)
    BY TapeRowsTyped DEF TapeTypeOK
  <2> QED  BY <2>1
<1>1. CASE UNCHANGED tape
  BY <1>1 DEF RowSource
<1>2. CASE tape' = <<>>
  BY <1>2
<1>3. ASSUME NEW o \in Orders, NEW sent \in BOOLEAN, NEW k \in DOMAIN tape',
             tape' = Keep(<<Row(o, sent)>> \o tape), form' = None,
             IF sent THEN o = form /\ form # None ELSE ~ Drawn(o) /\ minted' = o[2]
      PROVE  RowSource(tape'[k])
  <2>1. IF k = 1 THEN tape'[k] = Row(o, sent) ELSE k - 1 \in 1..Len(tape) /\ tape'[k] = tape[k - 1]
    BY <1>0, <1>3, RowTyped, Pushed
  <2>2. CASE k = 1
    <3>1. tape'[k] = [id |-> o, status |-> "sealed", sent |-> sent, encrypted |-> FALSE]
      BY <2>1, <2>2 DEF Row
    <3> QED  BY <1>3, <3>1 DEF RowSource
  <2>3. CASE k # 1
    BY <1>0, <2>1, <2>3 DEF RowSource
  <2> QED  BY <2>2, <2>3
<1>4. ASSUME NEW o \in Orders, NEW status \in Statuses, NEW k \in DOMAIN tape',
             tape' = SetStatus(tape, o, status)
      PROVE  RowSource(tape'[k])
  <2>1. /\ k \in 1..Len(tape)
        /\ tape'[k].id = tape[k].id /\ tape'[k].sent = tape[k].sent
        /\ tape'[k].encrypted = tape[k].encrypted
    BY <1>0, <1>4, StatusSet
  <2> QED  BY <1>0, <2>1 DEF RowSource
<1>5. ASSUME NEW i \in Polls, NEW k \in DOMAIN tape', reads[i].live,
             tape' = HydrateFromChain(tape, reads[i].rows)
      PROVE  RowSource(tape'[k])
  <2> DEFINE chain == reads[i].rows
  <2>1. DOMAIN chain \subseteq Orders
    BY DEF ReadsTyped, ReadRec
  <2>2. PICK full \in Seq(Rows), n \in Nat, at \in [Nat -> Nat] :
          tape' = Keep(full) /\ n <= Len(full) /\ Rewritten(tape, chain, full, n, at)
    BY <1>0, <1>5, <2>1, Hydrated
  <2>3. k \in 1..Len(full) /\ tape'[k] = full[k]
    BY <1>0, <2>2, Kept
  <2>4. CASE k \in 1..n
    <3>1. PICK o \in DOMAIN chain : full[k] = Placeholder(o, chain)
      BY <2>2, <2>4 DEF Rewritten
    <3>2. tx[o] = "landed"
      BY <1>5, <2>1, <3>1 DEF ReadsOwn, OnChain
    <3>3. full[k].id = o /\ full[k].encrypted /\ ~ full[k].sent
      BY <3>1 DEF Placeholder
    <3> QED  BY <2>3, <3>2, <3>3 DEF RowSource
  <2>5. CASE k \notin 1..n
    <3>0. k \in (n + 1)..Len(full)
      BY <2>3, <2>5
    <3>1. at[k] \in DOMAIN tape /\ full[k] = Merged(tape, chain, at[k])
      BY <2>2, <3>0 DEF Rewritten
    <3>2. tape[at[k]] \in Rows
      BY <1>0, <3>1
    <3>3. /\ full[k].id = tape[at[k]].id /\ full[k].sent = tape[at[k]].sent
          /\ full[k].encrypted = tape[at[k]].encrypted
      BY <3>1, <3>2 DEF Merged, Rows
    <3> QED  BY <2>3, <3>1, <3>3 DEF RowSource
  <2> QED  BY <2>4, <2>5
<1> QED  BY <1>1, <1>2, <1>3, <1>4, <1>5 DEF TapeMove

LEMMA OriginsStep == TapeInv /\ [Next]_tapeVars => Origins' /\ OnChain'
<1> SUFFICES ASSUME TapeInv, [Next]_tapeVars PROVE Origins' /\ OnChain'
  OBVIOUS
<1>0. /\ TapeTypeOK /\ ReadsTyped /\ ReadsOwn /\ OnlyDrawn /\ OnChain /\ Origins /\ FormOnce
      /\ ChainMove /\ TapeMove
  BY ChainMoves, TapeMoves DEF TapeInv
<1>1. OnChain'
  BY <1>0 DEF OnChain, ChainMove
<1>2. tape' # tape => UNCHANGED tx
  BY <1>0 DEF TapeMove, Hydrate, poolVars
<1>3. CASE tape' = tape
  <2>1. ASSUME NEW i \in DOMAIN tape
        PROVE  tape[i].id \in Orders /\ (tx[tape[i].id] # "none" <=> tx'[tape[i].id] # "none")
    <3>1. tape[i] \in Rows
      BY <1>0 DEF TapeTypeOK
    <3>2. tape[i].id \in Orders
      BY <3>1 DEF Rows
    <3> QED  BY <1>0, <3>2 DEF OnlyDrawn, ChainMove
  <2> QED  BY <1>0, <1>1, <1>3, <2>1 DEF Origins
<1>4. CASE tape' # tape
  <2>1. tx' = tx
    BY <1>2, <1>4
  <2>2. ASSUME NEW k \in DOMAIN tape'
        PROVE  tape'[k].sent \/ tape'[k].encrypted <=> tx[tape'[k].id] # "none"
    <3>1. tape'[k].id \in Orders /\ tape'[k] \in Rows
      <4>1. tape'[k] \in Rows
        BY <1>0, TapeRowsTyped
      <4> QED  BY <4>1 DEF Rows
    <3>2. RowSource(tape'[k])
      BY <1>0, RowSources
    <3> QED  BY <1>0, <3>1, <3>2 DEF RowSource, Origins, OnlyDrawn, FormOnce
  <2> QED  BY <1>1, <2>1, <2>2 DEF Origins
<1> QED  BY <1>3, <1>4

LEMMA FormStep == TapeInv /\ [Next]_tapeVars => FormOnce'
<1> SUFFICES ASSUME TapeInv, [Next]_tapeVars, form' # None PROVE FormOnce'
  BY DEF FormOnce
<1>0. /\ TapeTypeOK /\ ReadsTyped /\ ReadsOwn /\ OnlyDrawn /\ OnChain /\ FormOnce
      /\ ChainMove /\ TapeMove
  BY ChainMoves, TapeMoves DEF TapeInv
<1>1. CASE Send
  <2>1. /\ Fresh \in Orders /\ ~ Drawn(Fresh)
    BY <1>0, <1>1, FreshOrder DEF Send
  <2>2. form' = Fresh /\ tape' = tape /\ tx' = [tx EXCEPT ![Fresh] = "flying"]
    BY <1>1 DEF Send, SubmitOrderOnChain
  <2>3. tx'[form'] # "none"
    BY <1>0, <2>1, <2>2 DEF TapeTypeOK
  <2> QED  BY <1>0, <2>1, <2>2, <2>3 DEF FormOnce, OnlyDrawn
<1>2. CASE form' = form
  <2>1. tx'[form] # "none"
    BY <1>0, <1>2 DEF FormOnce, ChainMove, TapeTypeOK
  <2>2. ASSUME NEW k \in DOMAIN tape', tape'[k].id = form PROVE tape'[k].encrypted
    BY <1>0, <1>2, <2>2, RowSources DEF RowSource, FormOnce
  <2> QED  BY <1>2, <2>1, <2>2 DEF FormOnce
<1>3. Send \/ form' = form
  BY DEF Next, tapeVars, TimerStep, Tick, Hydrate, Connect, SubmitStub, Confirm, ConfirmThrows, Cancel,
         TryMatch, MatchAll, Fire, MatchComplete, StartPending, Reload, Reset, Land, Refuse,
         Withdraw, Elsewhere, Match, browserVars
<1> QED  BY <1>1, <1>2, <1>3

LEMMA TwinStep == TapeInv /\ [Next]_tapeVars => TwinIsPlaceholder'
<1> SUFFICES ASSUME TapeInv, [Next]_tapeVars PROVE TwinIsPlaceholder'
  OBVIOUS
<1>0. /\ TapeTypeOK /\ ReadsTyped /\ OnlyDrawn /\ FormOnce /\ TwinIsPlaceholder /\ TapeMove
  BY TapeMoves DEF TapeInv
<1>1. /\ tape \in Seq(Rows) /\ DOMAIN tape = 1..Len(tape)
      /\ tape' \in Seq(Rows) /\ DOMAIN tape' = 1..Len(tape') /\ Len(tape') \in Nat
  <2>1. tape \in Seq(Rows) /\ tape' \in Seq(Rows)
    BY <1>0, TapeRowsTyped DEF TapeTypeOK
  <2> QED  BY <2>1
<1> SUFFICES ASSUME NEW i \in 1..Len(tape'), NEW j \in 1..Len(tape'), i < j,
                    tape'[i].id = tape'[j].id
             PROVE  ~ tape'[i].encrypted /\ tape'[j].encrypted
  BY <1>1 DEF TwinIsPlaceholder
<1>2. CASE UNCHANGED tape
  BY <1>0, <1>1, <1>2 DEF TwinIsPlaceholder
<1>3. CASE tape' = <<>>
  BY <1>3
<1>4. ASSUME NEW o \in Orders, NEW sent \in BOOLEAN, tape' = Keep(<<Row(o, sent)>> \o tape),
             IF sent THEN o = form /\ form # None ELSE ~ Drawn(o)
      PROVE  ~ tape'[i].encrypted /\ tape'[j].encrypted
  <2>0. \A k \in 1..Len(tape') :
          IF k = 1 THEN tape'[k] = Row(o, sent) ELSE k - 1 \in 1..Len(tape) /\ tape'[k] = tape[k - 1]
    <3>1. tape \in Seq(Rows) /\ Row(o, sent) \in Rows
      BY <1>1, RowTyped
    <3> QED  BY ONLY <1>4, <3>1, Pushed
  <2>1. /\ IF i = 1 THEN tape'[i] = Row(o, sent) ELSE i - 1 \in 1..Len(tape) /\ tape'[i] = tape[i - 1]
        /\ j - 1 \in 1..Len(tape) /\ tape'[j] = tape[j - 1]
    BY <2>0
  <2>2. CASE i = 1
    <3>1. tape'[i].id = o /\ ~ tape'[i].encrypted
      BY <2>1, <2>2 DEF Row
    <3> QED  BY <1>0, <1>1, <1>4, <2>1, <3>1 DEF FormOnce, OnlyDrawn
  <2>3. CASE i # 1
    <3>1. i - 1 < j - 1
      OBVIOUS
    <3> QED  BY <1>0, <1>1, <2>1, <2>3, <3>1 DEF TwinIsPlaceholder
  <2> QED  BY <2>2, <2>3
<1>5. ASSUME NEW o \in Orders, NEW status \in Statuses, tape' = SetStatus(tape, o, status)
      PROVE  ~ tape'[i].encrypted /\ tape'[j].encrypted
  <2>1. /\ i \in 1..Len(tape) /\ j \in 1..Len(tape)
        /\ tape'[i].id = tape[i].id /\ tape'[i].encrypted = tape[i].encrypted
        /\ tape'[j].id = tape[j].id /\ tape'[j].encrypted = tape[j].encrypted
    BY <1>1, <1>5, StatusSet
  <2> QED  BY <1>0, <1>1, <2>1 DEF TwinIsPlaceholder
<1>6. ASSUME NEW p \in Polls, tape' = HydrateFromChain(tape, reads[p].rows)
      PROVE  ~ tape'[i].encrypted /\ tape'[j].encrypted
  <2> DEFINE chain == reads[p].rows
  <2>1. DOMAIN chain \subseteq Orders
    BY <1>0 DEF ReadsTyped, ReadRec
  <2>2. PICK full \in Seq(Rows), n \in Nat, at \in [Nat -> Nat] :
          tape' = Keep(full) /\ n <= Len(full) /\ Rewritten(tape, chain, full, n, at)
    BY <1>1, <1>6, <2>1, Hydrated
  <2>3. /\ i \in 1..Len(full) /\ tape'[i] = full[i]
        /\ j \in 1..Len(full) /\ tape'[j] = full[j]
    BY <1>1, <2>2, Kept
  <2>4. ASSUME NEW k \in (n + 1)..Len(full)
        PROVE  /\ at[k] \in DOMAIN tape
               /\ full[k].id = tape[at[k]].id /\ full[k].encrypted = tape[at[k]].encrypted
    <3>1. at[k] \in DOMAIN tape /\ full[k] = Merged(tape, chain, at[k])
      BY <2>2 DEF Rewritten
    <3>2. tape[at[k]] \in Rows
      BY <1>1, <3>1
    <3> QED  BY <3>1, <3>2 DEF Merged, Rows
  <2>5. ASSUME NEW k \in 1..n PROVE full[k].id \notin Ids(tape)
    <3>1. PICK o \in DOMAIN chain \ Ids(tape) : full[k] = Placeholder(o, chain)
      BY <2>2 DEF Rewritten
    <3>2. full[k].id = o
      BY <3>1 DEF Placeholder
    <3> QED  BY <3>1, <3>2
  <2>6. CASE j \in 1..n
    <3>1. i \in 1..n
      BY <2>6
    <3>2. full[i].id # full[j].id
      BY <2>2, <2>6, <3>1 DEF Rewritten
    <3> QED  BY <2>3, <3>2
  <2>7. CASE j \notin 1..n /\ i \in 1..n
    <3>1. j \in (n + 1)..Len(full)
      BY <2>3, <2>7
    <3> QED  BY <2>3, <2>4, <2>5, <2>7, <3>1 DEF Ids
  <2>8. CASE i \notin 1..n
    <3>1. i \in (n + 1)..Len(full) /\ j \in (n + 1)..Len(full)
      BY <2>3, <2>8
    <3>2. at[i] < at[j]
      BY <2>2, <3>1 DEF Rewritten
    <3>3. at[i] \in DOMAIN tape /\ at[j] \in DOMAIN tape /\ tape[at[i]].id = tape[at[j]].id
      BY <2>3, <2>4, <3>1
    <3>4. ~ tape[at[i]].encrypted /\ tape[at[j]].encrypted
      BY <1>0, <3>2, <3>3 DEF TwinIsPlaceholder
    <3> QED  BY <2>3, <2>4, <3>1, <3>4
  <2> QED  BY <2>6, <2>7, <2>8
<1> QED  BY <1>0, <1>2, <1>3, <1>4, <1>5, <1>6 DEF TapeMove

LEMMA DrawnStep == TapeInv /\ [Next]_tapeVars => OnlyDrawn'
<1> SUFFICES ASSUME TapeInv, [Next]_tapeVars PROVE OnlyDrawn'
  OBVIOUS
<1> USE DEF poolVars, demoVars, browserVars
<1>0. /\ TapeTypeOK /\ ReadsTyped /\ ReadsOwn /\ OnlyDrawn /\ OnChain /\ FormOnce
      /\ ChainMove /\ TapeMove
  BY ChainMoves, TapeMoves DEF TapeInv
<1>1. minted \in Nat /\ minted' \in {minted, minted + 1}
  BY <1>0, TapeAssumption DEF ChainMove, TapeTypeOK
<1>2. \A o \in Orders : o[2] \in Nat
  BY DEF Orders
<1>3. \A o \in Orders : Drawn(o) => o[2] <= minted'
  BY <1>1, <1>2 DEF Drawn
<1>4. \A o \in Orders : tx'[o] # "none" => o[2] <= minted'
  BY <1>0, <1>1, <1>2, <1>3 DEF ChainMove, OnlyDrawn
<1>5. ASSUME NEW k \in DOMAIN tape' PROVE tape'[k].id[2] <= minted'
  <2>1. tape'[k] \in Rows /\ tape'[k].id \in Orders
    <3>1. tape'[k] \in Rows
      BY <1>0, TapeRowsTyped
    <3> QED  BY <3>1 DEF Rows
  <2>2. RowSource(tape'[k])
    BY <1>0, RowSources
  <2>3. \A o \in Orders : tx[o] # "none" => Drawn(o)
    BY <1>0 DEF OnlyDrawn
  <2>4. \A i \in DOMAIN tape : Drawn(tape[i].id)
    BY <1>0 DEF OnlyDrawn
  <2>5. form # None => form \in Orders /\ tx[form] # "none"
    BY <1>0 DEF FormOnce, TapeTypeOK
  <2> QED  BY <1>1, <1>2, <1>3, <2>1, <2>2, <2>3, <2>4, <2>5 DEF RowSource
<1>6. ASSUME UNCHANGED <<timers, queue, pend>> PROVE OnlyDrawn'
  <2>1. /\ \A t \in timers : t[1] \in Orders /\ Drawn(t[1])
        /\ \A k \in DOMAIN queue : queue[k] \in Orders /\ Drawn(queue[k])
        /\ pend # None => pend \in Orders /\ Drawn(pend)
    BY <1>0 DEF OnlyDrawn, TapeTypeOK
  <2> QED  BY <1>3, <1>4, <1>5, <1>6, <2>1 DEF OnlyDrawn, Drawn
<1>7. /\ \A t \in timers : t[1] \in Orders /\ t[1][2] <= minted'
      /\ \A k \in DOMAIN queue : queue[k] \in Orders /\ queue[k][2] <= minted'
      /\ pend # None => pend \in Orders /\ pend[2] <= minted'
  BY <1>0, <1>3 DEF OnlyDrawn, TapeTypeOK
<1>8. ASSUME /\ \A t \in timers' : t[1][2] <= minted'
             /\ \A k \in DOMAIN queue' : queue'[k][2] <= minted'
             /\ pend' # None => pend'[2] <= minted'
      PROVE  OnlyDrawn'
  BY <1>4, <1>5, <1>8 DEF OnlyDrawn, Drawn
<1>9. CASE TryMatch \/ MatchAll
  <2>1. /\ DemoCandidates \in Seq(Rows) /\ DemoCandidates # <<>>
        /\ \A k \in DOMAIN DemoCandidates : \E i \in DOMAIN tape : DemoCandidates[k] = tape[i]
    BY <1>0, <1>9, CandidateRows DEF TryMatch, MatchAll
  <2>2. \A k \in DOMAIN DemoCandidates : DemoCandidates[k].id[2] <= minted'
    <3>1. \A i \in DOMAIN tape : tape[i].id \in Orders
      <4>1. \A i \in DOMAIN tape : tape[i] \in Rows
        BY <1>0 DEF TapeTypeOK
      <4> QED  BY <4>1 DEF Rows
    <3> QED  BY <1>0, <1>3, <2>1, <3>1 DEF OnlyDrawn
  <2>3. 1 \in DOMAIN DemoCandidates /\ Len(DemoCandidates) \in Nat
        /\ DOMAIN DemoCandidates = 1..Len(DemoCandidates)
    BY <2>1, FirstOf
  <2>4. \A k \in 1..(Len(DemoCandidates) - 1) : DemoCandidates[k + 1].id[2] <= minted'
    BY <2>2, <2>3
  <2> DEFINE d == DemoCandidates[1].id
  <2>5. timers' = timers \cup {<<d, "settling">>, <<d, "settled">>}
    BY <1>9 DEF TryMatch, MatchAll, StartMatch, Schedule
  <2>6. \A t \in timers' : t[1][2] <= minted'
    <3>1. d[2] <= minted'
      BY <2>2, <2>3
    <3> QED  BY <1>7, <2>5, <3>1
  <2>7. \A k \in DOMAIN queue' : queue'[k][2] <= minted'
    <3>1. CASE TryMatch
      BY <1>7, <3>1 DEF TryMatch
    <3>2. CASE MatchAll
      BY <2>4, <3>2 DEF MatchAll
    <3> QED  BY <1>9, <3>1, <3>2
  <2>8. pend' = pend
    BY <1>9 DEF TryMatch, MatchAll
  <2> QED  BY <1>7, <1>8, <2>6, <2>7, <2>8
<1>10. ASSUME NEW o \in Orders, NEW status \in {"settling", "settled"}, Fire(o, status)
       PROVE  OnlyDrawn'
  <2>1. timers' \subseteq timers /\ UNCHANGED <<queue, pend>>
    BY <1>10 DEF Fire
  <2> QED  BY <1>7, <1>8, <2>1
<1>11. CASE MatchComplete
  <2>1. timers' = timers
    BY <1>11 DEF MatchComplete
  <2>2. CASE queue = <<>>
    BY <1>6, <1>11, <2>2 DEF MatchComplete
  <2>3. CASE queue # <<>>
    <3>1. queue' = Tail(queue) /\ pend' \in {Head(queue), pend}
      BY <1>11, <2>3 DEF MatchComplete
    <3>2. queue \in Seq(Orders) /\ Len(queue) \in Nat /\ Len(queue) >= 1
          /\ DOMAIN queue = 1..Len(queue)
      BY <1>0, <2>3, FirstOf DEF TapeTypeOK
    <3>3. /\ Head(queue) = queue[1]
          /\ \A k \in DOMAIN Tail(queue) : k + 1 \in DOMAIN queue /\ Tail(queue)[k] = queue[k + 1]
      BY <3>2
    <3>4. /\ \A k \in DOMAIN queue' : queue'[k][2] <= minted'
          /\ pend' # None => pend'[2] <= minted'
      BY <1>7, <3>1, <3>2, <3>3
    <3> QED  BY <1>7, <1>8, <2>1, <3>4
  <2> QED  BY <2>2, <2>3
<1>12. CASE StartPending
  <2>1. /\ timers' = timers \cup {<<pend, "settling">>, <<pend, "settled">>} /\ pend # None
        /\ queue' = queue /\ pend' = None
    BY <1>12 DEF StartPending, StartMatch, Schedule
  <2> QED  BY <1>7, <1>8, <2>1
<1>13. CASE Reload \/ Reset
  <2>1. /\ timers' \subseteq timers /\ queue' = <<>> /\ pend' = None
    BY <1>13 DEF Reload, Reset
  <2> QED  BY <1>7, <1>8, <2>1
<1>14. \/ UNCHANGED <<timers, queue, pend>> \/ TryMatch \/ MatchAll \/ TimerStep \/ Reload \/ Reset
  BY DEF Next, tapeVars, Tick, Hydrate, Connect, SubmitStub, Send, Confirm, ConfirmThrows, Cancel,
         Land, Refuse, Withdraw, Elsewhere, Match
<1> QED  BY <1>6, <1>9, <1>10, <1>11, <1>12, <1>13, <1>14 DEF TimerStep

LEMMA TimersStep == TapeInv /\ [Next]_tapeVars => TimersInStep'
<1> SUFFICES ASSUME TapeInv, [Next]_tapeVars PROVE TimersInStep'
  OBVIOUS
<1> USE DEF poolVars, demoVars, browserVars
<1>0. /\ TapeTypeOK /\ ReadsTyped /\ ReadsOwn /\ OnlyDrawn /\ OnChain /\ FormOnce
      /\ TimersInStep /\ ChainMove /\ TapeMove
  BY ChainMoves, TapeMoves DEF TapeInv
<1>1. /\ tape \in Seq(Rows) /\ DOMAIN tape = 1..Len(tape)
      /\ tape' \in Seq(Rows) /\ DOMAIN tape' = 1..Len(tape') /\ Len(tape') \in Nat
      /\ \A i \in DOMAIN tape : tape[i] \in Rows /\ tape[i].id \in Orders
  <2>1. tape \in Seq(Rows) /\ tape' \in Seq(Rows)
    BY <1>0, TapeRowsTyped DEF TapeTypeOK
  <2>2. \A i \in 1..Len(tape) : tape[i] \in Rows
    BY <2>1
  <2>3. \A i \in 1..Len(tape) : tape[i].id \in Orders
    BY <2>2 DEF Rows
  <2> QED  BY <2>1, <2>2, <2>3
<1>2. \A o \in Orders : tx'[o] = "none" => tx[o] = "none"
  BY <1>0 DEF ChainMove
<1> DEFINE Fits(r, t) == /\ <<r.id, "settling">> \in t => r.status = "matched"
                         /\ <<r.id, "settled">> \in t /\ <<r.id, "settling">> \notin t =>
                              r.status = "settling"
<1>3. \A i \in DOMAIN tape : tx[tape[i].id] = "none" => Fits(tape[i], timers)
  BY <1>0 DEF TimersInStep
<1>4. ASSUME \A k \in DOMAIN tape' : tx'[tape'[k].id] = "none" => Fits(tape'[k], timers')
      PROVE  TimersInStep'
  BY <1>4 DEF TimersInStep
<1> HIDE DEF Fits
<1>5. CASE UNCHANGED tape /\ (UNCHANGED timers \/ timers' = {})
  <2>1. \A r \in Rows : Fits(r, {})
    BY DEF Fits
  <2> QED  BY <1>1, <1>2, <1>3, <1>4, <1>5, <2>1
<1>6. CASE tape' = <<>>
  BY <1>4, <1>6
<1>7. ASSUME NEW o \in Orders, NEW sent \in BOOLEAN, tape' = Keep(<<Row(o, sent)>> \o tape),
             IF sent THEN o = form /\ form # None ELSE ~ Drawn(o), UNCHANGED <<tx, timers>>
      PROVE  TimersInStep'
  <2>0. \A k \in 1..Len(tape') :
          IF k = 1 THEN tape'[k] = Row(o, sent) ELSE k - 1 \in 1..Len(tape) /\ tape'[k] = tape[k - 1]
    <3>1. tape \in Seq(Rows) /\ Row(o, sent) \in Rows
      BY <1>1, RowTyped
    <3> QED  BY ONLY <1>7, <3>1, Pushed
  <2>1. tx[o] = "none" => Fits(Row(o, sent), timers)
    <3>1. Row(o, sent).id = o
      BY DEF Row
    <3> QED  BY <1>0, <1>7, <3>1 DEF Fits, FormOnce, OnlyDrawn
  <2>2. Row(o, sent).id = o
    BY DEF Row
  <2>3. ASSUME NEW k \in DOMAIN tape', tx'[tape'[k].id] = "none" PROVE Fits(tape'[k], timers')
    <3>1. CASE k = 1
      <4>1. tape'[k] = Row(o, sent)
        BY <1>1, <2>0, <3>1
      <4> QED  BY <1>7, <2>1, <2>2, <2>3, <4>1
    <3>2. CASE k # 1
      <4>1. k - 1 \in DOMAIN tape /\ tape'[k] = tape[k - 1]
        BY <1>1, <2>0, <3>2
      <4> QED  BY <1>3, <1>7, <2>3, <4>1
    <3> QED  BY <3>1, <3>2
  <2> QED  BY <1>4, <2>3
<1>8. ASSUME NEW i \in Polls, reads[i].live, tape' = HydrateFromChain(tape, reads[i].rows),
             UNCHANGED <<tx, timers>>
      PROVE  TimersInStep'
  <2> DEFINE chain == reads[i].rows
  <2>1. DOMAIN chain \subseteq Orders
    BY <1>0 DEF ReadsTyped, ReadRec
  <2>2. PICK full \in Seq(Rows), n \in Nat, at \in [Nat -> Nat] :
          tape' = Keep(full) /\ n <= Len(full) /\ Rewritten(tape, chain, full, n, at)
    BY <1>1, <1>8, <2>1, Hydrated
  <2>3. ASSUME NEW o \in DOMAIN chain PROVE tx[o] # "none"
    BY <1>0, <1>8, <2>1 DEF ReadsOwn, OnChain
  <2>4. ASSUME NEW k \in DOMAIN tape', tx'[tape'[k].id] = "none" PROVE Fits(tape'[k], timers')
    <3>1. k \in 1..Len(full) /\ tape'[k] = full[k]
      BY <1>1, <2>2, Kept
    <3>2. CASE k \in 1..n
      <4>1. PICK o \in DOMAIN chain : full[k] = Placeholder(o, chain)
        BY <2>2, <3>2 DEF Rewritten
      <4>2. full[k].id = o
        BY <4>1 DEF Placeholder
      <4> QED  BY <1>8, <2>3, <2>4, <3>1, <4>2
    <3>3. CASE k \notin 1..n
      <4>0. k \in (n + 1)..Len(full)
        BY <3>1, <3>3
      <4>1. at[k] \in DOMAIN tape /\ full[k] = Merged(tape, chain, at[k])
        BY <2>2, <4>0 DEF Rewritten
      <4>2. full[k].id = tape[at[k]].id
        BY <1>1, <4>1 DEF Merged, Rows
      <4>3. tape[at[k]].id \notin DOMAIN chain
        BY <1>8, <2>3, <2>4, <3>1, <4>2
      <4>4. full[k] = tape[at[k]]
        BY <4>1, <4>3 DEF Merged, Claims
      <4> QED  BY <1>3, <1>8, <2>4, <3>1, <4>1, <4>4
    <3> QED  BY <3>2, <3>3
  <2> QED  BY <1>4, <2>4
<1>9. ASSUME NEW o \in Orders, NEW status \in Statuses, tape' = SetStatus(tape, o, status),
             UNCHANGED tx,
             \A p \in Orders : p # o => \A s \in {"settling", "settled"} :
                 <<p, s>> \in timers' <=> <<p, s>> \in timers,
             tx[o] = "none" =>
                 /\ <<o, "settling">> \in timers' => status = "matched"
                 /\ <<o, "settled">> \in timers' /\ <<o, "settling">> \notin timers' => status = "settling"
      PROVE  TimersInStep'
  <2>1. ASSUME NEW k \in DOMAIN tape', tx'[tape'[k].id] = "none" PROVE Fits(tape'[k], timers')
    <3>1. /\ k \in 1..Len(tape) /\ tape'[k].id = tape[k].id
          /\ tape'[k].status = IF tape[k].id = o THEN status ELSE tape[k].status
          /\ tape[k].id # o => tape'[k] = tape[k]
      BY <1>1, <1>9, StatusSet
    <3>2. CASE tape[k].id = o
      BY <1>9, <2>1, <3>1, <3>2 DEF Fits
    <3>3. CASE tape[k].id # o
      <4>1. Fits(tape[k], timers) /\ tape[k].id \in Orders
        BY <1>1, <1>3, <1>9, <2>1, <3>1
      <4> QED  BY <1>9, <3>1, <3>3, <4>1 DEF Fits
    <3> QED  BY <3>2, <3>3
  <2> QED  BY <1>4, <2>1
<1>10. ASSUME NEW o \in Orders, StartMatch(o), UNCHANGED tx PROVE TimersInStep'
  <2>1. /\ tape' = SetStatus(tape, o, "matched")
        /\ timers' = timers \cup {<<o, "settling">>, <<o, "settled">>}
    BY <1>10 DEF StartMatch, Schedule
  <2>2. "matched" \in Statuses
    BY DEF Statuses
  <2>3. \A p \in Orders : p # o => \A s \in {"settling", "settled"} :
                 <<p, s>> \in timers' <=> <<p, s>> \in timers
    BY <2>1
  <2>4. <<o, "settling">> \in timers'
    BY <2>1
  <2> QED  BY <1>9, <1>10, <2>1, <2>2, <2>3, <2>4
<1>11. ASSUME NEW o \in Orders, Cancel(o) PROVE TimersInStep'
  <2>1. PICK i \in DOMAIN tape : tape[i].id = o /\ tape[i].status = "sealed"
    BY <1>11 DEF Cancel, Visible, Cancellable
  <2>2. tx[o] = "none" => <<o, "settling">> \notin timers /\ <<o, "settled">> \notin timers
    BY <1>3, <2>1 DEF Fits
  <2>3. /\ tape' = SetStatus(tape, o, "cancelled") /\ UNCHANGED <<tx, timers>>
        /\ "cancelled" \in Statuses
    BY <1>11 DEF Cancel, Statuses
  <2> QED  BY <1>9, <2>2, <2>3
<1>12. ASSUME NEW o \in Orders, NEW status \in {"settling", "settled"}, Fire(o, status)
       PROVE  TimersInStep'
  <2>1. /\ tape' = SetStatus(tape, o, status) /\ UNCHANGED tx /\ status \in Statuses
        /\ timers' = timers \ {<<o, status>>}
        /\ status = "settled" => <<o, "settling">> \notin timers
    BY <1>12 DEF Fire, Statuses
  <2>2. \A p \in Orders : p # o => \A s \in {"settling", "settled"} :
                 <<p, s>> \in timers' <=> <<p, s>> \in timers
    BY <2>1
  <2>3. /\ <<o, "settling">> \notin timers'
        /\ <<o, "settled">> \in timers' => status = "settling"
    BY <2>1
  <2> QED  BY <1>9, <2>1, <2>2, <2>3
<1>13. CASE TryMatch \/ MatchAll
  <2>1. DemoCandidates \in Seq(Rows) /\ DemoCandidates # <<>>
    BY <1>0, <1>13, CandidateRows DEF TryMatch, MatchAll
  <2>2. DemoCandidates[1].id \in Orders
    <3>1. DemoCandidates[1] \in Rows
      BY <2>1, FirstOf
    <3> QED  BY <3>1 DEF Rows
  <2> QED  BY <1>10, <1>13, <2>2 DEF TryMatch, MatchAll
<1>14. CASE StartPending
  <2>1. pend \in Orders /\ StartMatch(pend) /\ UNCHANGED tx
    BY <1>0, <1>14 DEF StartPending, TapeTypeOK
  <2> QED  BY <1>10, <2>1
<1>15. CASE SubmitStub \/ Confirm \/ ConfirmThrows
  <2>1. UNCHANGED <<tx, timers>>
    BY <1>15 DEF SubmitStub, Confirm, ConfirmThrows
  <2>2. \E o \in Orders, sent \in BOOLEAN :
          /\ tape' = Keep(<<Row(o, sent)>> \o tape)
          /\ IF sent THEN o = form /\ form # None ELSE ~ Drawn(o)
    <3>1. CASE Confirm
      <4>1. tape' = Keep(<<Row(form, TRUE)>> \o tape) /\ form # None /\ form \in Orders
        BY <1>0, <3>1 DEF Confirm, PushOrder, TapeTypeOK
      <4> QED  BY <4>1
    <3>2. CASE SubmitStub \/ ConfirmThrows
      <4>1. tape' = Keep(<<Row(Fresh, FALSE)>> \o tape) /\ Mint
        BY <3>2 DEF SubmitStub, ConfirmThrows, SubmitLocal, PushOrder
      <4>2. Fresh \in Orders /\ ~ Drawn(Fresh)
        BY <1>0, <4>1, FreshOrder
      <4> QED  BY <4>1, <4>2
    <3> QED  BY <1>15, <3>1, <3>2
  <2> QED  BY <1>7, <2>1, <2>2
<1>16. ASSUME NEW i \in Polls, Hydrate(i) PROVE TimersInStep'
  <2>1. CASE reads[i].live
    BY <1>8, <1>16, <2>1 DEF Hydrate, Current
  <2>2. CASE ~ reads[i].live
    BY <1>5, <1>16, <2>2 DEF Hydrate, Current
  <2> QED  BY <2>1, <2>2
<1>17. \/ UNCHANGED tape /\ (UNCHANGED timers \/ timers' = {})
       \/ tape' = <<>>
       \/ SubmitStub \/ Confirm \/ ConfirmThrows \/ \E i \in Polls : Hydrate(i)
       \/ \E o \in Orders : Cancel(o)
       \/ \E o \in Orders, status \in {"settling", "settled"} : Fire(o, status)
       \/ StartPending \/ TryMatch \/ MatchAll
  BY DEF Next, tapeVars, TimerStep, Tick, Connect, Send, MatchComplete, Reload, Reset, Land, Refuse,
         Withdraw, Elsewhere, Match
<1> QED
  BY <1>5, <1>6, <1>11, <1>12, <1>13, <1>14, <1>15, <1>16, <1>17

-----------------------------------------------------------------------------
(* The theorems *)

\* The invariant that carries all others.
THEOREM TapeInvariant == Spec => []TapeInv
<1>1. TapeInv /\ [Next]_tapeVars => TapeInv'
  BY TypeStep, ReadsStep, OriginsStep, FormStep, TwinStep, DrawnStep, TimersStep DEF TapeInv
<1> QED  BY TapeInvInit, <1>1, PTL DEF Spec

\* Types, and the tape never holds more rows than it keeps.
THEOREM TapeTyped == Spec => []TapeTypeOK
BY TapeInvariant, PTL DEF TapeInv

\* However often hydrations, confirmations and the demo overlap, an order has
\* a second row only while that row is a placeholder under its own plaintext.
THEOREM TwinsArePlaceholders == Spec => []TwinIsPlaceholder
BY TapeInvariant, PTL DEF TapeInv

-----------------------------------------------------------------------------
(* What a step may never do *)

LEMMA OwnsStep == TapeInv => \A i \in Polls : Hydrate(i) /\ tape' # tape =>
    /\ \A k \in DOMAIN tape' : tape'[k].sent \/ tape'[k].encrypted =>
         owner[tape'[k].id] = wallet /\ book[tape'[k].id] # "Absent"
    /\ \A o \in BookView' : tx[o] # "none" =>
         o \in DOMAIN reads[i].rows /\ reads[i].rows[o] # "Cancelled"
<1> SUFFICES ASSUME TapeInv, NEW i \in Polls, Hydrate(i), tape' # tape
             PROVE  /\ \A k \in DOMAIN tape' : tape'[k].sent \/ tape'[k].encrypted =>
                         owner[tape'[k].id] = wallet /\ book[tape'[k].id] # "Absent"
                    /\ \A o \in BookView' : tx[o] # "none" =>
                         o \in DOMAIN reads[i].rows /\ reads[i].rows[o] # "Cancelled"
  OBVIOUS
<1> DEFINE chain == reads[i].rows
<1>1. reads[i].live /\ tape' = HydrateFromChain(tape, chain)
  BY DEF Hydrate, Current
<1>2. /\ TapeTypeOK /\ ReadsTyped /\ ReadsOwn /\ Origins
      /\ tape \in Seq(Rows) /\ DOMAIN tape = 1..Len(tape)
  BY DEF TapeInv, TapeTypeOK
<1>3. DOMAIN chain \subseteq Orders
  BY <1>2 DEF ReadsTyped, ReadRec
<1>4. PICK full \in Seq(Rows), n \in Nat, at \in [Nat -> Nat] :
        tape' = Keep(full) /\ n <= Len(full) /\ Rewritten(tape, chain, full, n, at)
  BY <1>1, <1>2, <1>3, Hydrated
<1>5. /\ tape' \in Seq(Rows) /\ DOMAIN tape' = 1..Len(tape')
      /\ \A k \in 1..Len(tape') : k \in 1..Len(full) /\ tape'[k] = full[k]
  <2>1. /\ Keep(full) \in Seq(Rows)
        /\ \A k \in 1..Len(Keep(full)) : k \in 1..Len(full) /\ Keep(full)[k] = full[k]
    BY Kept
  <2>2. DOMAIN Keep(full) = 1..Len(Keep(full))
    BY <2>1
  <2> QED  BY <1>4, <2>1, <2>2
<1>6. \A o \in DOMAIN chain : owner[o] = wallet /\ book[o] # "Absent"
  BY <1>1, <1>2 DEF ReadsOwn
\* A row is a placeholder of a chain row, or claims one, or is a stub.
<1>7. ASSUME NEW k \in DOMAIN tape'
      PROVE  \/ /\ tape'[k].id \in DOMAIN chain /\ tape'[k].encrypted
             \/ \E p \in DOMAIN tape :
                  /\ tape[p].id = tape'[k].id /\ tape[p].id \in DOMAIN chain
                  /\ tape'[k].status = MergeStatus(tape[p].status, chain[tape'[k].id])
             \/ /\ ~ tape'[k].sent /\ ~ tape'[k].encrypted /\ tx[tape'[k].id] = "none"
  <2>1. CASE k \in 1..n
    <3>1. PICK o \in DOMAIN chain : full[k] = Placeholder(o, chain)
      BY <1>4, <2>1 DEF Rewritten
    <3>2. full[k].id = o /\ full[k].encrypted
      BY <3>1 DEF Placeholder
    <3> QED  BY <1>5, <3>2
  <2>2. CASE k \notin 1..n
    <3>0. k \in (n + 1)..Len(full)
      BY <1>5, <2>2
    <3> DEFINE p == at[k]
    <3>1. p \in DOMAIN tape /\ Stays(tape, chain, p) /\ full[k] = Merged(tape, chain, p)
      BY <1>4, <3>0 DEF Rewritten
    <3>2. tape[p] \in Rows
      <4> HIDE DEF p
      <4> QED  BY <1>2, <3>1
    <3> HIDE DEF p
    <3>3. CASE Claims(tape, chain, p)
      <4>1. full[k] = [tape[p] EXCEPT !.status = MergeStatus(tape[p].status, chain[tape[p].id])]
        BY <3>1, <3>3 DEF Merged
      <4>2. full[k].id = tape[p].id /\ full[k].status = MergeStatus(tape[p].status, chain[tape[p].id])
        BY <3>2, <4>1 DEF Rows
      <4>3. tape[p].id \in DOMAIN chain
        BY <3>3 DEF Claims
      <4> QED  BY <1>5, <3>1, <4>2, <4>3
    <3>4. CASE ~ Claims(tape, chain, p)
      <4>1. full[k] = tape[p] /\ ~ tape[p].sent /\ ~ tape[p].encrypted
        BY <3>1, <3>4 DEF Merged, Stays
      <4> QED  BY <1>2, <1>5, <3>1, <4>1 DEF Origins
    <3> QED  BY <3>3, <3>4
  <2> QED  BY <2>1, <2>2
<1>8. ASSUME NEW k \in DOMAIN tape', tape'[k].sent \/ tape'[k].encrypted
      PROVE  owner[tape'[k].id] = wallet /\ book[tape'[k].id] # "Absent"
  BY <1>6, <1>7, <1>8
<1>9. ASSUME NEW o \in BookView', tx[o] # "none"
      PROVE  o \in DOMAIN chain /\ chain[o] # "Cancelled"
  <2>1. PICK k \in DOMAIN tape' : /\ tape'[k].id = o /\ ~ tape'[k].encrypted
                                 /\ tape'[k].status \in {"sealed", "matched"}
    <3>1. PICK k \in DOMAIN Visible' : /\ Visible'[k].id = o /\ ~ Visible'[k].encrypted
                                      /\ Visible'[k].status \in {"sealed", "matched"}
      BY <1>9 DEF BookView
    <3>2. Visible' = <<>> \/ Visible' = tape'
      BY DEF Visible
    <3> QED  BY <3>1, <3>2
  <2>2. o \in DOMAIN chain /\ \E p \in DOMAIN tape : tape'[k].status = MergeStatus(tape[p].status, chain[o])
    BY <1>7, <1>9, <2>1
  <2>3. chain[o] # "Cancelled"
    BY <2>1, <2>2 DEF MergeStatus
  <2> QED  BY <2>2, <2>3
<1> QED  BY <1>8, <1>9

\* A hydration never shows one wallet's orders to another.
THEOREM HydrationOwned == Spec => HydrationOwns
<1>1. TapeInv /\ [Next]_tapeVars =>
        [\A i \in Polls : Hydrate(i) /\ tape' # tape =>
          /\ \A k \in DOMAIN tape' : tape'[k].sent \/ tape'[k].encrypted =>
               owner[tape'[k].id] = wallet /\ book[tape'[k].id] # "Absent"
          /\ \A o \in BookView' : tx[o] # "none" =>
               o \in DOMAIN reads[i].rows /\ reads[i].rows[o] # "Cancelled"]_tapeVars
  BY OwnsStep
<1> QED  BY TapeInvariant, <1>1, PTL DEF Spec, HydrationOwns

LEMMA PushedTape ==
    ASSUME tape \in Seq(Rows), NEW q \in Orders, NEW sent \in BOOLEAN, tape' = Keep(<<Row(q, sent)>> \o tape)
    PROVE  /\ Len(tape') = TapeSize \/ Len(tape') = Len(tape) + 1
           /\ \A k \in 1..Len(tape') :
                IF k = 1 THEN tape'[k] = Row(q, sent) ELSE k - 1 \in 1..Len(tape) /\ tape'[k] = tape[k - 1]
<1>1. Row(q, sent) \in Rows
  BY RowTyped
<1>2. Len(tape') = TapeSize \/ Len(tape') = Len(tape) + 1
  BY <1>1, Pushed
<1>3. \A k \in 1..Len(tape') :
        IF k = 1 THEN tape'[k] = Row(q, sent) ELSE k - 1 \in 1..Len(tape) /\ tape'[k] = tape[k - 1]
  BY <1>1, Pushed
<1> QED  BY <1>2, <1>3

LEMMA StatusSetTape ==
    ASSUME tape \in Seq(Rows), NEW q \in Orders, NEW status \in Statuses, tape' = SetStatus(tape, q, status)
    PROVE  /\ Len(tape') = Len(tape)
           /\ \A k \in 1..Len(tape) : tape'[k].id = tape[k].id /\ tape'[k].encrypted = tape[k].encrypted
BY StatusSet

LEMMA PlaintextStep ==
    ASSUME TapeInv, [Next]_tapeVars, NEW o \in Orders,
           HasPlaintext(tape, o), ~ HasPlaintext(tape', o)
    PROVE  \/ tape' = <<>> /\ changes' > changes
           \/ Len(tape') = TapeSize
           \/ tx[o] # "none" /\ \E i \in Polls : Hydrate(i) /\ o \notin DOMAIN reads[i].rows
<1>0. /\ TapeTypeOK /\ ReadsTyped /\ Origins /\ TwinIsPlaceholder /\ TapeMove
      /\ tape \in Seq(Rows) /\ DOMAIN tape = 1..Len(tape) /\ Len(tape) \in Nat
      /\ tape' \in Seq(Rows) /\ DOMAIN tape' = 1..Len(tape') /\ Len(tape') \in Nat
  <2>1. /\ TapeTypeOK /\ ReadsTyped /\ Origins /\ TwinIsPlaceholder /\ TapeMove
    BY TapeMoves DEF TapeInv
  <2>2. tape \in Seq(Rows) /\ tape' \in Seq(Rows)
    BY <2>1, TapeRowsTyped DEF TapeTypeOK
  <2> QED  BY <2>1, <2>2
<1>1. PICK p \in 1..Len(tape) : tape[p].id = o /\ ~ tape[p].encrypted
  BY <1>0 DEF HasPlaintext
<1>2. \A k \in 1..Len(tape') : tape'[k].id = o => tape'[k].encrypted
  BY <1>0 DEF HasPlaintext
<1>3. CASE UNCHANGED tape
  BY <1>1, <1>2, <1>3
<1>4. ASSUME NEW q \in Orders, NEW sent \in BOOLEAN, tape' = Keep(<<Row(q, sent)>> \o tape)
      PROVE  Len(tape') = TapeSize
  <2>1. /\ Len(tape') = TapeSize \/ Len(tape') = Len(tape) + 1
        /\ \A k \in 1..Len(tape') :
             IF k = 1 THEN tape'[k] = Row(q, sent) ELSE k - 1 \in 1..Len(tape) /\ tape'[k] = tape[k - 1]
    BY <1>0, <1>4, PushedTape
  <2>2. SUFFICES ASSUME Len(tape') = Len(tape) + 1 PROVE FALSE
    BY <2>1
  <2>3. p + 1 \in 1..Len(tape') /\ p + 1 # 1 /\ (p + 1) - 1 = p
    BY <1>0, <2>2
  <2>4. tape'[p + 1] = tape[p]
    BY <2>1, <2>3
  <2> QED  BY <1>1, <1>2, <2>3, <2>4
<1>5. ASSUME NEW q \in Orders, NEW status \in Statuses, tape' = SetStatus(tape, q, status)
      PROVE  FALSE
  <2>1. /\ Len(tape') = Len(tape) /\ tape'[p].id = tape[p].id
        /\ tape'[p].encrypted = tape[p].encrypted
    BY <1>0, <1>5, StatusSetTape
  <2> QED  BY <1>1, <1>2, <2>1
<1>6. ASSUME NEW i \in Polls, Hydrate(i), tape' = HydrateFromChain(tape, reads[i].rows)
      PROVE  \/ Len(tape') = TapeSize
             \/ tx[o] # "none" /\ o \notin DOMAIN reads[i].rows
  <2> DEFINE chain == reads[i].rows
  <2>1. DOMAIN chain \subseteq Orders
    BY <1>0 DEF ReadsTyped, ReadRec
  <2>2. PICK full \in Seq(Rows), n \in Nat, at \in [Nat -> Nat] :
          tape' = Keep(full) /\ n <= Len(full) /\ Rewritten(tape, chain, full, n, at)
    BY <1>0, <1>6, <2>1, Hydrated
  <2>3. /\ Len(tape') = TapeSize \/ Len(tape') = Len(full)
        /\ \A k \in 1..Len(tape') : tape'[k] = full[k]
    <3>1. /\ Len(Keep(full)) = TapeSize \/ Len(Keep(full)) = Len(full)
          /\ \A k \in 1..Len(Keep(full)) : Keep(full)[k] = full[k]
      BY Kept
    <3> QED  BY <2>2, <3>1
  <2>4. CASE Stays(tape, chain, p)
    <3>1. PICK k \in (n + 1)..Len(full) : at[k] = p
      BY <1>0, <2>2, <2>4 DEF Rewritten
    <3>2. full[k] = Merged(tape, chain, p)
      BY <2>2, <3>1 DEF Rewritten
    <3>3. tape[p] \in Rows
      BY <1>0
    <3>4. full[k].id = o /\ ~ full[k].encrypted
      BY <1>1, <3>2, <3>3 DEF Merged, Rows
    <3>5. Len(full) \in Nat /\ k \in 1..Len(full)
      BY <3>1
    <3> QED  BY <1>2, <2>3, <3>4, <3>5
  <2>5. CASE ~ Stays(tape, chain, p)
    <3>1. ~ Claims(tape, chain, p) /\ tape[p].sent
      BY <1>1, <2>5 DEF Stays
    <3>2. tx[o] # "none"
      BY <1>0, <1>1, <3>1 DEF Origins
    <3>3. ASSUME o \in DOMAIN chain PROVE FALSE
      <4>1. PICK j \in 1..(p - 1) : tape[j].id = o
        BY <1>1, <3>1, <3>3 DEF Claims
      <4>2. j \in DOMAIN tape /\ p \in DOMAIN tape /\ j < p
        BY <1>0
      <4> QED  BY <1>0, <1>1, <4>1, <4>2 DEF TwinIsPlaceholder
    <3> QED  BY <3>2, <3>3
  <2> QED  BY <2>4, <2>5
<1> QED  BY <1>0, <1>3, <1>4, <1>5, <1>6 DEF TapeMove

\* What the user typed is only lost in the ways that PlaintextKept names.
THEOREM PlaintextSurvives == Spec => PlaintextKept
<1>1. TapeInv /\ [Next]_tapeVars =>
        [\A o \in Orders : HasPlaintext(tape, o) /\ ~ HasPlaintext(tape', o) =>
          \/ tape' = <<>> /\ changes' > changes
          \/ Len(tape') = TapeSize
          \/ tx[o] # "none" /\ \E i \in Polls : Hydrate(i) /\ o \notin DOMAIN reads[i].rows]_tapeVars
  BY PlaintextStep
<1> QED  BY TapeInvariant, <1>1, PTL DEF Spec, PlaintextKept

\* The status of the only row of an order.
LEMMA StatusOfSole ==
    ASSUME NEW rows, NEW i \in DOMAIN rows, NEW o, rows[i].id = o,
           DOMAIN rows = 1..Len(rows), Len(rows) \in Nat,
           \A j \in DOMAIN rows : rows[j].id = o => j = i
    PROVE  StatusOf(rows, o) = rows[i].status
<1> DEFINE IsFirst(k) == rows[k].id = o /\ \A j \in 1..(k - 1) : rows[j].id # o
<1>1. IsFirst(i)
  OBVIOUS
<1>2. \A k \in DOMAIN rows : IsFirst(k) => k = i
  OBVIOUS
<1> HIDE DEF IsFirst
<1>3. (CHOOSE k \in DOMAIN rows : IsFirst(k)) = i
  BY <1>1, <1>2
<1>4. First(rows, o) = i
  BY <1>3 DEF First, IsFirst
<1>5. o \in Ids(rows)
  BY DEF Ids
<1> QED  BY <1>4, <1>5 DEF StatusOf

\* An order that was never sent has at most one row.
LEMMA SoleStub ==
    ASSUME TapeTypeOK, Origins, TwinIsPlaceholder, NEW o, tx[o] = "none",
           NEW i \in DOMAIN tape, tape[i].id = o
    PROVE  /\ \A j \in DOMAIN tape : tape[j].id = o => j = i
           /\ StatusOf(tape, o) = tape[i].status
<1>1. DOMAIN tape = 1..Len(tape) /\ Len(tape) \in Nat
  BY DEF TapeTypeOK
<1>2. ASSUME NEW j \in DOMAIN tape, tape[j].id = o, j # i PROVE FALSE
  <2>1. ~ tape[i].encrypted /\ ~ tape[j].encrypted
    BY <1>2 DEF Origins
  <2>2. i < j \/ j < i
    BY <1>1, <1>2
  <2> QED  BY <1>2, <2>1, <2>2 DEF TwinIsPlaceholder
<1>3. \A j \in DOMAIN tape : tape[j].id = o => j = i
  BY <1>2
<1> QED  BY <1>1, <1>3, StatusOfSole

LEMMA SoleStubNext ==
    ASSUME TapeTypeOK', Origins', TwinIsPlaceholder', NEW o, tx'[o] = "none",
           NEW k \in DOMAIN tape', tape'[k].id = o
    PROVE  StatusOf(tape', o) = tape'[k].status
<1>1. DOMAIN tape' = 1..Len(tape') /\ Len(tape') \in Nat
  BY DEF TapeTypeOK
<1>2. ASSUME NEW j \in DOMAIN tape', tape'[j].id = o, j # k PROVE FALSE
  <2>1. ~ tape'[k].encrypted /\ ~ tape'[j].encrypted
    BY <1>2 DEF Origins
  <2>2. k < j \/ j < k
    BY <1>1, <1>2
  <2> QED  BY <1>2, <2>1, <2>2 DEF TwinIsPlaceholder
<1>3. \A j \in DOMAIN tape' : tape'[j].id = o => j = k
  BY <1>2
<1> QED  BY <1>1, <1>3, StatusOfSole

LEMMA ForwardStep ==
    ASSUME TapeInv, TapeInv', [Next]_tapeVars, NEW o \in Orders, tx[o] = "none",
           StatusOf(tape, o) # None, StatusOf(tape', o) # None
    PROVE  \/ StatusOf(tape', o) = StatusOf(tape, o)
           \/ Rank(StatusOf(tape', o)) > Rank(StatusOf(tape, o))
           \/ pend = o
<1> USE DEF poolVars, demoVars
<1>0. /\ TapeTypeOK /\ ReadsTyped /\ ReadsOwn /\ OnlyDrawn /\ OnChain /\ FormOnce
      /\ Origins /\ TwinIsPlaceholder /\ TimersInStep /\ TapeMove
      /\ TapeTypeOK' /\ Origins' /\ TwinIsPlaceholder'
  BY TapeMoves DEF TapeInv
<1>1. CASE tape' = tape
  BY <1>1
<1>2. CASE tape' # tape
  <2>1. tx' = tx
    BY <1>0, <1>2 DEF TapeMove, Hydrate
  <2>2. PICK p \in DOMAIN tape : tape[p].id = o
    BY DEF StatusOf, Ids
  <2>3. PICK k \in DOMAIN tape' : tape'[k].id = o
    BY DEF StatusOf, Ids
  <2>4. StatusOf(tape, o) = tape[p].status /\ \A j \in DOMAIN tape : tape[j].id = o => j = p
    BY <1>0, <2>2, SoleStub
  <2>5. StatusOf(tape', o) = tape'[k].status
    BY <1>0, <2>1, <2>3, SoleStubNext
  <2>6. /\ tape \in Seq(Rows) /\ DOMAIN tape = 1..Len(tape) /\ Len(tape) \in Nat
        /\ DOMAIN tape' = 1..Len(tape') /\ Len(tape') \in Nat
        /\ tape[p] \in Rows
    BY <1>0 DEF TapeTypeOK
  <2>7. ASSUME NEW q \in Orders, NEW sent \in BOOLEAN, tape' = Keep(<<Row(q, sent)>> \o tape),
               IF sent THEN q = form /\ form # None ELSE ~ Drawn(q)
        PROVE  tape'[k].status = tape[p].status
    <3>1. IF k = 1 THEN tape'[k] = Row(q, sent) ELSE k - 1 \in 1..Len(tape) /\ tape'[k] = tape[k - 1]
      BY <2>6, <2>7, PushedTape
    <3>2. CASE k = 1
      <4>1. q = o
        BY <2>3, <3>1, <3>2 DEF Row
      <4> QED  BY <1>0, <2>2, <2>7, <4>1 DEF FormOnce, OnlyDrawn
    <3>3. CASE k # 1
      BY <2>3, <2>4, <2>6, <3>1, <3>3
    <3> QED  BY <3>2, <3>3
  <2>8. ASSUME NEW i \in Polls, reads[i].live, tape' = HydrateFromChain(tape, reads[i].rows)
        PROVE  tape'[k].status = tape[p].status
    <3> DEFINE chain == reads[i].rows
    <3>1. DOMAIN chain \subseteq Orders
      BY <1>0 DEF ReadsTyped, ReadRec
    <3>2. PICK full \in Seq(Rows), n \in Nat, at \in [Nat -> Nat] :
            tape' = Keep(full) /\ n <= Len(full) /\ Rewritten(tape, chain, full, n, at)
      BY <2>6, <2>8, <3>1, Hydrated
    <3>3. o \notin DOMAIN chain
      BY <1>0, <2>8 DEF ReadsOwn, OnChain
    <3>4. k \in 1..Len(full) /\ tape'[k] = full[k]
      BY <2>6, <3>2, Kept
    <3>5. CASE k \in 1..n
      <4>1. PICK x \in DOMAIN chain : full[k] = Placeholder(x, chain)
        BY <3>2, <3>5 DEF Rewritten
      <4>2. full[k].id = x
        BY <4>1 DEF Placeholder
      <4> QED  BY <2>3, <3>3, <3>4, <4>2
    <3>6. CASE k \notin 1..n
      <4>0. k \in (n + 1)..Len(full)
        BY <3>4, <3>6
      <4>1. at[k] \in DOMAIN tape /\ full[k] = Merged(tape, chain, at[k])
        BY <3>2, <4>0 DEF Rewritten
      <4>2. tape[at[k]] \in Rows
        BY <2>6, <4>1
      <4>3. full[k].id = tape[at[k]].id
        BY <4>1, <4>2 DEF Merged, Rows
      <4>4. at[k] = p
        BY <2>3, <2>4, <3>4, <4>1, <4>3
      <4>5. full[k] = tape[p]
        BY <2>2, <3>3, <4>1, <4>4 DEF Merged, Claims
      <4> QED  BY <3>4, <4>5
    <3> QED  BY <3>5, <3>6
  <2>9. ASSUME NEW q, NEW status \in Statuses, tape' = SetStatus(tape, q, status)
        PROVE  tape'[k].status = IF q = o THEN status ELSE tape[p].status
    <3>1. /\ k \in 1..Len(tape) /\ tape'[k].id = tape[k].id
          /\ tape'[k].status = IF tape[k].id = q THEN status ELSE tape[k].status
      BY <2>6, <2>9, StatusSet
    <3>2. k = p
      BY <2>3, <2>4, <2>6, <3>1
    <3> QED  BY <2>2, <3>1, <3>2
  <2>10. ASSUME NEW q \in Orders, Cancel(q)
         PROVE  tape'[k].status = tape[p].status \/ Rank(tape'[k].status) > Rank(tape[p].status)
    <3>1. PICK i \in DOMAIN tape : tape[i].id = q /\ tape[i].status = "sealed"
      BY <2>10 DEF Cancel, Visible, Cancellable
    <3>2. tape' = SetStatus(tape, q, "cancelled") /\ "cancelled" \in Statuses
      BY <2>10 DEF Cancel, Statuses
    <3>3. tape'[k].status = IF q = o THEN "cancelled" ELSE tape[p].status
      BY <2>9, <3>2
    <3>4. q = o => tape[p].status = "sealed"
      BY <2>4, <3>1
    <3> QED  BY <3>3, <3>4 DEF Rank
  <2>11. ASSUME NEW q \in Orders, StartMatch(q), MayStart(q)
         PROVE  tape'[k].status = tape[p].status \/ Rank(tape'[k].status) > Rank(tape[p].status)
    <3>1. tape' = SetStatus(tape, q, "matched") /\ "matched" \in Statuses
      BY <2>11 DEF StartMatch, Statuses
    <3>2. tape'[k].status = IF q = o THEN "matched" ELSE tape[p].status
      BY <2>9, <3>1
    <3>3. q = o => tape[p].status = "sealed"
      BY <2>4, <2>11 DEF MayStart
    <3> QED  BY <3>2, <3>3 DEF Rank
  <2>12. ASSUME NEW q \in Orders, NEW status \in {"settling", "settled"}, Fire(q, status)
         PROVE  tape'[k].status = tape[p].status \/ Rank(tape'[k].status) > Rank(tape[p].status)
    <3>1. /\ tape' = SetStatus(tape, q, status) /\ status \in Statuses
          /\ <<q, status>> \in timers
          /\ status = "settled" => <<q, "settling">> \notin timers
      BY <2>12 DEF Fire, Statuses
    <3>2. tape'[k].status = IF q = o THEN status ELSE tape[p].status
      BY <2>9, <3>1
    <3>3. q = o => tape[p].status = IF status = "settling" THEN "matched" ELSE "settling"
      BY <1>0, <2>2, <3>1 DEF TimersInStep
    <3>4. CASE status = "settling"
      BY <3>2, <3>3, <3>4 DEF Rank
    <3>5. CASE status = "settled"
      BY <3>2, <3>3, <3>5 DEF Rank
    <3> QED  BY <3>4, <3>5
  <2>13. CASE TryMatch \/ MatchAll
    <3>1. DemoCandidates \in Seq(Rows) /\ DemoCandidates # <<>>
      BY <1>0, <2>13, CandidateRows DEF TryMatch, MatchAll
    <3>2. DemoCandidates[1].id \in Orders
      <4>1. DemoCandidates[1] \in Rows
        BY <3>1, FirstOf
      <4> QED  BY <4>1 DEF Rows
    <3> QED  BY <2>4, <2>5, <2>11, <2>13, <3>2 DEF TryMatch, MatchAll
  <2>14. CASE StartPending
    <3>1. tape' = SetStatus(tape, pend, "matched") /\ "matched" \in Statuses
      BY <2>14 DEF StartPending, StartMatch, Statuses
    <3>2. tape'[k].status = IF pend = o THEN "matched" ELSE tape[p].status
      BY <2>9, <3>1
    <3> QED  BY <2>4, <2>5, <3>2
  <2>15. \/ \E q \in Orders : Cancel(q)
         \/ TryMatch \/ MatchAll \/ StartPending
         \/ \E q \in Orders, status \in {"settling", "settled"} : Fire(q, status)
         \/ SubmitStub \/ Confirm \/ ConfirmThrows
         \/ Reset
         \/ \E i \in Polls : Hydrate(i)
    BY <1>2 DEF Next, tapeVars, TimerStep, Tick, Connect, Send, MatchComplete, Reload, Land, Refuse,
       Withdraw, Elsewhere, Match, browserVars
  <2>16. CASE SubmitStub \/ Confirm \/ ConfirmThrows
    <3>1. \E q \in Orders, sent \in BOOLEAN :
            /\ tape' = Keep(<<Row(q, sent)>> \o tape)
            /\ IF sent THEN q = form /\ form # None ELSE ~ Drawn(q)
      <4>1. CASE Confirm
        <5>1. tape' = Keep(<<Row(form, TRUE)>> \o tape) /\ form # None /\ form \in Orders
          BY <1>0, <4>1 DEF Confirm, PushOrder, TapeTypeOK
        <5> QED  BY <5>1
      <4>2. CASE SubmitStub \/ ConfirmThrows
        <5>1. tape' = Keep(<<Row(Fresh, FALSE)>> \o tape) /\ Mint
          BY <4>2 DEF SubmitStub, ConfirmThrows, SubmitLocal, PushOrder
        <5>2. Fresh \in Orders /\ ~ Drawn(Fresh)
          BY <1>0, <5>1, FreshOrder
        <5> QED  BY <5>1, <5>2
      <4> QED  BY <2>16, <4>1, <4>2
    <3> QED  BY <2>4, <2>5, <2>7, <3>1
  <2>17. CASE Reset
    BY <2>3, <2>17 DEF Reset
  <2>18. ASSUME NEW i \in Polls, Hydrate(i) PROVE tape'[k].status = tape[p].status
    BY <1>2, <2>8, <2>18 DEF Hydrate, Current
  <2> QED
    BY <2>4, <2>5, <2>10, <2>12, <2>13, <2>14, <2>15, <2>16, <2>17, <2>18
<1> QED  BY <1>1, <1>2

\* What was cancelled or settled on the tape of a stub stays so, and no
\* hydration, timer or button takes a stub back.
THEOREM StubsForward == Spec => StubForward
<1>1. TapeInv /\ TapeInv' /\ [Next]_tapeVars =>
        [\A o \in Orders : tx[o] = "none" /\ StatusOf(tape, o) # None /\ StatusOf(tape', o) # None =>
          \/ StatusOf(tape', o) = StatusOf(tape, o)
          \/ Rank(StatusOf(tape', o)) > Rank(StatusOf(tape, o))
          \/ pend = o]_tapeVars
  BY ForwardStep
<1> QED  BY TapeInvariant, <1>1, PTL DEF Spec, StubForward

-----------------------------------------------------------------------------
(* Views: the positions page and the feed it is joined with *)

LEMMA ShuffleOnto ==
    ASSUME NEW n \in Nat, NEW f \in Shuffles(n)
    PROVE  \A k \in 1..n : \E i \in 1..n : f[i] = k
<1> DEFINE S == 1..n
<1>1. f \in Injection(S, S)
  BY DEF Shuffles, Injection, IsInjective
<1>2. IsFiniteSet(S)
  BY FS_Interval
<1> HIDE DEF S
<1>3. f \in Surjection(S, S)
  BY <1>1, <1>2, FS_Injection
<1> QED  BY <1>3 DEF Surjection, S

\* The page shows the records of the chain, each once: settled ones on top,
\* and in both parts the newest match first.
THEOREM PageShowsAll ==
    ASSUME NEW rows, NEW records, NEW answer, Len(records) \in Nat,
           \A i \in 1..Len(records) : records[i].matchId \in Nat,
           ListMatches(rows, records, answer)
    PROVE  /\ \A k \in 1..Len(records) : \E i \in DOMAIN rows : rows[i].id = records[k].id
           /\ \A i \in DOMAIN rows : \E k \in 1..Len(records) : rows[i].id = records[k].id
           /\ \A i, j \in DOMAIN rows : i < j =>
                /\ rows[j].status = "settled" => rows[i].status = "settled"
                /\ (rows[i].status = "settled" <=> rows[j].status = "settled")
                     => rows[i].matchId >= rows[j].matchId
<1> DEFINE n == Len(records)
           unsorted == Unsorted(records, answer)
<1>1. PICK from \in Shuffles(n) : SortedFrom(rows, unsorted, from)
  BY DEF ListMatches
<1>2. DOMAIN rows = 1..n /\ n \in Nat
  BY DEF ListMatches
<1>3. \A k \in 1..n : unsorted[k].id = records[k].id /\ unsorted[k].matchId = records[k].matchId
  BY DEF Unsorted, ViewOf
<1> HIDE DEF unsorted
<1>4. \A i \in 1..n : from[i] \in 1..n /\ rows[i] = unsorted[from[i]]
  BY <1>1, <1>2 DEF Shuffles, SortedFrom
<1>5. \A k \in 1..n : \E i \in 1..n : from[i] = k
  <2> HIDE DEF n
  <2> QED  BY <1>1, <1>2, ShuffleOnto
<1>6. ASSUME NEW k \in 1..n PROVE \E i \in DOMAIN rows : rows[i].id = records[k].id
  <2>1. PICK i \in 1..n : from[i] = k
    BY <1>5
  <2>2. rows[i] = unsorted[k] /\ unsorted[k].id = records[k].id
    BY <1>3, <1>4, <2>1
  <2> QED  BY <1>2, <2>2
<1>7. \A i \in DOMAIN rows : \E k \in 1..n : rows[i].id = records[k].id
  BY <1>2, <1>3, <1>4
<1>8. ASSUME NEW i \in 1..n PROVE rows[i].matchId \in Nat
  <2>1. rows[i] = unsorted[from[i]] /\ from[i] \in 1..n
    BY <1>4
  <2>2. unsorted[from[i]].matchId \in Nat
    BY <1>3, <2>1
  <2> QED  BY <2>1, <2>2
<1>9. ASSUME NEW i \in 1..n, NEW j \in 1..n, i < j
      PROVE  /\ rows[j].status = "settled" => rows[i].status = "settled"
             /\ (rows[i].status = "settled" <=> rows[j].status = "settled")
                  => rows[i].matchId >= rows[j].matchId
  <2>1. ~ Before(rows[j], rows[i])
    BY <1>1, <1>2, <1>9 DEF SortedFrom
  <2> DEFINE si == rows[i].status = "settled"
             sj == rows[j].status = "settled"
  <2>2. ~ (IF sj = si THEN rows[j].matchId > rows[i].matchId ELSE sj)
    BY <2>1 DEF Before
  <2>3. si \in BOOLEAN /\ sj \in BOOLEAN
    OBVIOUS
  <2> HIDE DEF si, sj
  <2>4. sj => si
    BY <2>2, <2>3
  <2>5. (si <=> sj) => ~ (rows[j].matchId > rows[i].matchId)
    BY <2>2, <2>3
  <2>6. rows[i].matchId \in Nat /\ rows[j].matchId \in Nat
    BY <1>8
  <2> QED  BY <2>4, <2>5, <2>6 DEF si, sj
<1> QED  BY <1>2, <1>6, <1>7, <1>9

\* The three numbers under the table add up to its rows.
THEOREM CountsAddUp ==
    ASSUME NEW rows, NEW records, NEW answer, Len(records) \in Nat,
           ListMatches(rows, records, answer)
    PROVE  Count(rows, "settled") + Count(rows, "pending") + Count(rows, "failed")
             = Len(records)
<1> DEFINE n == Len(records)
           R(status) == {i \in DOMAIN rows : rows[i].status = status}
           A == R("settled")
           B == R("pending")
           C == R("failed")
<1>1. PICK from \in Shuffles(n) : SortedFrom(rows, Unsorted(records, answer), from)
  BY DEF ListMatches
<1>2. DOMAIN rows = 1..n /\ n \in Nat
  BY DEF ListMatches
<1>3. \A i \in 1..n : rows[i].status \in {"settled", "pending", "failed"}
  <2>1. \A k \in 1..n : Unsorted(records, answer)[k].status \in {"settled", "pending", "failed"}
    BY DEF Unsorted, ViewOf, RowStatus
  <2>2. \A i \in 1..n : from[i] \in 1..n /\ rows[i] = Unsorted(records, answer)[from[i]]
    BY <1>1, <1>2 DEF Shuffles, SortedFrom
  <2> QED  BY <2>1, <2>2
<1>4. IsFiniteSet(1..n) /\ Cardinality(1..n) = n
  BY <1>2, FS_Interval
<1>5. A \subseteq 1..n /\ B \subseteq 1..n /\ C \subseteq 1..n
  BY <1>2
<1>6. A \cup B \cup C = 1..n /\ A \cap B = {} /\ (A \cup B) \cap C = {}
  BY <1>2, <1>3
<1>7. Count(rows, "settled") = Cardinality(A) /\ Count(rows, "pending") = Cardinality(B)
      /\ Count(rows, "failed") = Cardinality(C)
  BY DEF Count
<1> HIDE DEF n, A, B, C
<1>8. IsFiniteSet(A) /\ IsFiniteSet(B) /\ IsFiniteSet(C)
  BY <1>4, <1>5, FS_Subset
<1>9. /\ IsFiniteSet(A \cup B)
      /\ Cardinality(A \cup B) = Cardinality(A) + Cardinality(B) - Cardinality(A \cap B)
  BY <1>8, FS_Union
<1>10. Cardinality((A \cup B) \cup C)
         = Cardinality(A \cup B) + Cardinality(C) - Cardinality((A \cup B) \cap C)
  BY <1>8, <1>9, FS_Union
<1>11. Cardinality({}) = 0
  BY FS_EmptySet
<1>12. Cardinality(A) \in Nat /\ Cardinality(B) \in Nat /\ Cardinality(C) \in Nat
  BY <1>8, FS_CardinalityType
<1>13. Cardinality(A \cap B) = 0 /\ Cardinality((A \cup B) \cap C) = 0
  BY <1>6, <1>11
<1>14. n = Cardinality(A) + Cardinality(B) + Cardinality(C)
  <2>1. Cardinality((A \cup B) \cup C) = n
    BY <1>4, <1>6
  <2> QED  BY <2>1, <1>9, <1>10, <1>12, <1>13
<1> QED  BY <1>7, <1>12, <1>14 DEF n

\* The badge of a match number is that of the oldest entry with it.
LEMMA BadgeIsOldest ==
    ASSUME NEW feed, NEW i \in DOMAIN feed, DOMAIN feed \subseteq Int,
           \A j \in DOMAIN feed : feed[j].matchId = feed[i].matchId => j <= i
    PROVE  Badge(feed, feed[i].matchId) = feed[i].mode
<1> DEFINE m == feed[i].matchId
<1>1. feed[i].matchId = m /\ \A j \in DOMAIN feed : feed[j].matchId = m => j <= i
  OBVIOUS
<1>2. /\ Entry(feed, m) \in DOMAIN feed
      /\ feed[Entry(feed, m)].matchId = m
      /\ \A j \in DOMAIN feed : feed[j].matchId = m => j <= Entry(feed, m)
  BY <1>1 DEF Entry
<1>3. Entry(feed, m) = i
  BY <1>1, <1>2
<1> QED  BY <1>3 DEF Badge

LEMMA FeedPlaces ==
    ASSUME NEW S, NEW recent \in Seq(S), NEW settled \in Seq(S), Len(settled) <= RecentWindow
    PROVE  /\ Recent(recent, settled) \in Seq(S)
           /\ Len(Recent(recent, settled)) <= RecentWindow
           /\ \A k \in 1..Len(settled) :
                 /\ Len(settled) + 1 - k \in DOMAIN Recent(recent, settled)
                 /\ Recent(recent, settled)[Len(settled) + 1 - k] = settled[k]
<1> DEFINE r == Reversed(settled)
           all == r \o recent
           feed == Recent(recent, settled)
<1>1. r \in Seq(S) /\ Len(r) = Len(settled)
  BY DEF Reversed
<1>2. \A i \in 1..Len(settled) : r[i] = settled[Len(settled) + 1 - i]
  BY DEF Reversed
<1> HIDE DEF r
<1>3. /\ all \in Seq(S) /\ Len(all) = Len(settled) + Len(recent)
      /\ \A i \in 1..Len(r) : all[i] = r[i]
  BY <1>1
<1>4. Len(settled) \in Nat /\ Len(recent) \in Nat /\ RecentWindow \in Nat
  BY ViewsAssumption
<1> HIDE DEF all
<1>5. /\ feed \in Seq(S) /\ Len(feed) <= RecentWindow /\ Len(feed) >= Len(settled)
      /\ \A i \in 1..Len(feed) : feed[i] = all[i]
  <2>1. feed = IF Len(all) > RecentWindow THEN SubSeq(all, 1, RecentWindow) ELSE all
    BY DEF Recent, Newest, all, r
  <2>2. CASE Len(all) > RecentWindow
    <3>1. feed = SubSeq(all, 1, RecentWindow)
      BY <2>1, <2>2
    <3> QED  BY <1>3, <1>4, <2>2, <3>1
  <2>3. CASE ~ (Len(all) > RecentWindow)
    BY <1>3, <1>4, <2>1, <2>3
  <2> QED  BY <2>2, <2>3
<1> HIDE DEF feed
<1>6. ASSUME NEW k \in 1..Len(settled)
      PROVE  Len(settled) + 1 - k \in DOMAIN feed /\ feed[Len(settled) + 1 - k] = settled[k]
  <2> DEFINE i == Len(settled) + 1 - k
  <2>1. i \in 1..Len(settled) /\ Len(settled) + 1 - i = k
    BY <1>4
  <2>2. i \in 1..Len(feed) /\ DOMAIN feed = 1..Len(feed) /\ i \in 1..Len(r)
    BY <1>1, <1>4, <1>5, <2>1
  <2> HIDE DEF i
  <2>3. feed[i] = settled[k]
    BY <1>2, <1>3, <1>5, <2>1, <2>2
  <2> QED  BY <2>2, <2>3 DEF i
<1> QED  BY <1>5, <1>6 DEF feed

\* After a poll, each of the matches it settled has the badge of its own
\* settlement, as long as no other entry of the feed has its number.
THEOREM SettlementBadged ==
    ASSUME NEW S, NEW recent \in Seq(S), NEW settled \in Seq(S),
           Len(settled) <= RecentWindow, NEW k \in 1..Len(settled),
           LET feed == Recent(recent, settled)
           IN  \A j \in DOMAIN feed :
                  feed[j].matchId = settled[k].matchId => j = Len(settled) + 1 - k
    PROVE  Badge(Recent(recent, settled), settled[k].matchId) = settled[k].mode
<1> DEFINE feed == Recent(recent, settled)
           i == Len(settled) + 1 - k
<1>1. feed \in Seq(S) /\ i \in DOMAIN feed /\ feed[i] = settled[k]
  BY FeedPlaces
<1>2. DOMAIN feed \subseteq Int
  BY <1>1
<1>3. i \in Int
  OBVIOUS
<1>4. \A j \in DOMAIN feed : feed[j].matchId = settled[k].matchId => j = i
  OBVIOUS
<1> HIDE DEF feed, i
<1>5. \A j \in DOMAIN feed : feed[j].matchId = feed[i].matchId => j <= i
  BY <1>1, <1>3, <1>4
<1>6. Badge(feed, feed[i].matchId) = feed[i].mode
  BY <1>1, <1>2, <1>5, BadgeIsOldest
<1> QED  BY <1>1, <1>6 DEF feed
====
