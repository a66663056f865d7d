---- MODULE DepositProofs ----
(***************************************************************************)
(* Proofs about DepositWizard: for any number of processes, dWallets,      *)
(* wallets, deposits and failures, from DepositAssumption alone.           *)
(***************************************************************************)
EXTENDS DepositWizard, TLAPS

-----------------------------------------------------------------------------
(* The inductive invariant *)

Amounts == [confirmed : Nat, total : Nat]
\* Nothing is spent twice, and a block takes in what came before it.
Addresses == {a \in [funded : Nat, spent : Nat, poolFunded : Nat, poolSpent : Nat] :
                 a.spent <= a.funded /\ a.spent + a.poolSpent <= a.funded + a.poolFunded}
Files   == [DWallets -> Entries \cup {None}]
Places  == {"idle", "asked", "served", "answered", "failed"}

CallTypeOK  == call \in [Kinds -> [by : Wallets \cup {None}, id : 0..MaxDwallets, max : Nat, at : Places]]
ProcRecs    == [busy : BOOLEAN, for : Kinds \cup {None}, id : 0..MaxDwallets,
                entry : Entries \cup {None}, read : Files \cup {<<>>}]
StoreTypeOK == /\ file \in Files
               /\ proc \in [Procs -> ProcRecs]
               /\ created \in 0..MaxDwallets
               /\ clobbered \in BOOLEAN
PageTypeOK  == /\ chain \in [DWallets -> Addresses]
               /\ wallet \in Wallets \cup {None}
               /\ dwallet \in [id : DWallets, creator : Wallets] \cup {NoDwallet}
               /\ balance \in Amounts
               /\ locked \in BOOLEAN
               /\ step \in {"create", "fund", "lock", "done"}
               /\ poll \in [id : 0..MaxDwallets, live : BOOLEAN, answer : Amounts]
               /\ crossed \in BOOLEAN
               /\ faults \in 0..MaxFaults /\ changes \in 0..MaxChanges

\* Nothing is in the file of a dWallet that was not created.
Fresh(contents) == \A d \in DWallets : d > created => contents[d] = None

\* What a process in set() is about to write.
Writes(p) ==
    LET r == proc[p] IN
    IF r.busy
    THEN /\ r.id \in 1..created /\ r.entry \in Entries /\ r.read \in Files /\ Fresh(r.read)
         /\ r.read[r.id] # None => r.entry.creator = r.read[r.id].creator /\ r.entry.policy > 0
         /\ r.for = "create" => r.entry.creator = call["create"].by
         /\ r.for = "lock" => r.entry.policy > 0
         /\ \A k \in Kinds : r.for = k => call[k].at = "served" /\ call[k].id = r.id
    ELSE r.for = None

OneServer == \A p, q \in Procs, k \in Kinds : proc[p].for = k /\ proc[q].for = k => p = q

FileInv == Fresh(file) /\ (\A p \in Procs : Writes(p)) /\ OneServer

Has(d, w) == file[d] # None /\ file[d].creator = w

CallsBy == \A k \in Kinds : IF call[k].at = "idle" THEN call[k] = NoCall ELSE call[k].by \in Wallets

CreateSound ==
    call["create"].at = "answered" =>
        /\ call["create"].id \in 1..created
        /\ ~ clobbered => Has(call["create"].id, call["create"].by)

LockSound ==
    /\ call["lock"].at # "idle" =>
         /\ call["lock"].id \in 1..created /\ call["lock"].max > 0
         /\ ~ clobbered => Has(call["lock"].id, call["lock"].by)
    /\ call["lock"].at = "answered" /\ ~ clobbered => file[call["lock"].id].policy > 0

CallInv == CallsBy /\ CreateSound /\ LockSound

PageInv ==
    /\ dwallet # NoDwallet =>
         /\ dwallet.id \in 1..created
         /\ ~ clobbered => Has(dwallet.id, dwallet.creator)
         /\ locked /\ ~ crossed /\ ~ clobbered => file[dwallet.id].policy > 0
    /\ poll.live => poll.id = dwallet.id

Typing == CallTypeOK /\ StoreTypeOK /\ PageTypeOK
IInv   == Typing /\ FileInv /\ CallInv /\ PageInv

\* What a step of the server may do to the file, as long as no write was
\* lost: entries stay, with their creators, and a policy is never taken back.
Kept ==
    /\ created <= created'
    /\ ~ clobbered' =>
         /\ ~ clobbered
         /\ \A d \in DWallets : file[d] # None =>
              /\ file'[d] # None /\ file'[d].creator = file[d].creator
              /\ file[d].policy > 0 => file'[d].policy > 0

-----------------------------------------------------------------------------
(* The server *)

LEMMA KindsAre == Kinds = {"create", "lock"} /\ None \notin Kinds
BY DepositAssumption DEF Kinds

\* The page's part of the invariant depends on the server only through Kept.
LEMMA PageKept ==
    ASSUME Typing, PageInv, Kept, created' \in 0..MaxDwallets,
           UNCHANGED <<dwallet, locked, crossed, poll>>
    PROVE  PageInv'
<1>1. dwallet # NoDwallet => dwallet.id \in DWallets
  BY DEF Typing, PageTypeOK
<1>2. created \in Nat /\ created' \in Nat /\ MaxDwallets \in Nat
  BY DepositAssumption DEF Typing, StoreTypeOK
<1> QED BY <1>1, <1>2 DEF PageInv, Kept, Has, DWallets, NoDwallet

LEMMA CreateStep ==
    ASSUME IInv, NEW p \in Procs, NEW for \in Kinds \cup {None},
           NEW w \in Wallets \cup {Stranger},
           ~ proc[p].busy, NewDwallet(p, for, w)
    PROVE  /\ StoreTypeOK' /\ Kept /\ Fresh(file)'
           /\ created' = created + 1 /\ created' \in DWallets
           /\ proc'[p] = [busy |-> TRUE, for |-> for, id |-> created', read |-> file,
                          entry |-> [creator |-> w, policy |-> 0]]
           /\ \A q \in Procs \ {p} : proc'[q] = proc[q]
           /\ file[created'] = None
<1>1. Typing /\ created \in Nat /\ MaxDwallets \in Nat
  BY DepositAssumption DEF IInv, Typing, StoreTypeOK
<1>2. created' = created + 1 /\ created' \in DWallets /\ UNCHANGED <<file, clobbered>>
  BY <1>1 DEF NewDwallet, DWallets
<1>3. proc' = [proc EXCEPT ![p] = [busy |-> TRUE, for |-> for, id |-> created', read |-> file,
                                   entry |-> [creator |-> w, policy |-> 0]]]
  BY <1>2 DEF NewDwallet, Setting
<1>4. [busy |-> TRUE, for |-> for, id |-> created', read |-> file,
       entry |-> [creator |-> w, policy |-> 0]] \in ProcRecs
  BY <1>1, <1>2 DEF ProcRecs, Typing, StoreTypeOK, Entries, DWallets
<1>5. StoreTypeOK'
  BY <1>1, <1>2, <1>3, <1>4 DEF Typing, StoreTypeOK, DWallets
<1>6. Kept
  BY <1>1, <1>2 DEF Kept
<1>7. Fresh(file) /\ file[created'] = None
  BY <1>1, <1>2 DEF IInv, FileInv, Fresh
<1>8. Fresh(file)'
  BY <1>1, <1>2, <1>7 DEF Fresh, DWallets
<1> QED BY <1>1, <1>2, <1>3, <1>5, <1>6, <1>7, <1>8 DEF Typing, StoreTypeOK

\* A process that was in set() stays in it when another starts.
LEMMA WritesKept ==
    ASSUME IInv, StoreTypeOK', NEW q \in Procs, proc'[q] = proc[q], created <= created',
           \A k \in Kinds : proc[q].for = k => call'[k] = call[k]
    PROVE  Writes(q)'
<1>1. Typing /\ Writes(q) /\ created \in Nat /\ created' \in Nat
  BY DepositAssumption DEF IInv, Typing, StoreTypeOK, FileInv
<1>2. ASSUME proc[q].busy PROVE Fresh(proc[q].read)'
  BY <1>1, <1>2, DepositAssumption DEF Writes, Fresh, DWallets
<1>3. CASE ~ proc[q].busy
  BY <1>1, <1>3 DEF Writes
<1>4. CASE proc[q].busy
  <2> DEFINE r == proc[q]
  <2>1. /\ r.id \in 1..created' /\ r.entry \in Entries /\ r.read \in Files
        /\ r.read[r.id] # None => r.entry.creator = r.read[r.id].creator /\ r.entry.policy > 0
        /\ r.for = "lock" => r.entry.policy > 0
    BY <1>1, <1>4 DEF Writes
  <2>2. r.for = "create" => r.entry.creator = call'["create"].by
    BY <1>1, <1>4, KindsAre DEF Writes
  <2>3. \A k \in Kinds : r.for = k => call'[k].at = "served" /\ call'[k].id = r.id
    BY <1>1, <1>4 DEF Writes
  <2> QED BY <1>2, <1>4, <2>1, <2>2, <2>3 DEF Writes
<1> QED BY <1>3, <1>4

LEMMA CreateDWalletStep ==
    ASSUME IInv, NEW p \in Procs, CreateDWallet(p)
    PROVE  CallTypeOK' /\ StoreTypeOK' /\ Kept /\ FileInv' /\ CallInv'
<1> DEFINE c == call["create"]
<1>1. Typing /\ Kinds = {"create", "lock"} /\ created \in Nat
  BY KindsAre DEF IInv, Typing, StoreTypeOK
<1>2. /\ c.at = "asked" /\ ~ proc[p].busy /\ NewDwallet(p, "create", c.by)
      /\ call' = [call EXCEPT !["create"].id = created + 1, !["create"].at = "served"]
  BY DEF CreateDWallet, Done
<1>3. c.by \in Wallets
  BY <1>1, <1>2 DEF IInv, CallInv, CallsBy, CreateSound, LockSound
<1>4. /\ StoreTypeOK' /\ Kept /\ Fresh(file)'
      /\ created' = created + 1 /\ created' \in DWallets
      /\ proc'[p] = [busy |-> TRUE, for |-> "create", id |-> created', read |-> file,
                     entry |-> [creator |-> c.by, policy |-> 0]]
      /\ \A q \in Procs \ {p} : proc'[q] = proc[q]
      /\ file[created'] = None
  BY <1>1, <1>2, <1>3, CreateStep
<1>5. /\ call'["create"] = [c EXCEPT !.id = created', !.at = "served"]
      /\ call'["lock"] = call["lock"]
  BY <1>1, <1>2, <1>4 DEF Typing, CallTypeOK
<1>6. CallTypeOK'
  BY <1>1, <1>2, <1>4 DEF Typing, CallTypeOK, Places, DWallets
\* Nobody else serves the call: it had only been asked.
<1>7. \A q \in Procs : proc[q].for # "create"
  BY <1>1, <1>2, KindsAre DEF IInv, FileInv, Writes
<1>8. ASSUME NEW q \in Procs PROVE Writes(q)'
  <2>1. CASE q = p
    <3>1. file \in Files /\ [creator |-> c.by, policy |-> 0] \in Entries
      BY <1>1, <1>3 DEF Typing, StoreTypeOK, Entries
    <3>2. c \in [by : Wallets \cup {None}, id : 0..MaxDwallets, max : Nat, at : Places]
      BY <1>1 DEF Typing, CallTypeOK
    <3>3. call'["create"].at = "served" /\ call'["create"].id = created' /\ call'["create"].by = c.by
      BY <1>5, <3>2
    <3>4. Fresh(file)'
      BY <1>4
    <3>5. UNCHANGED file
      BY <1>2 DEF NewDwallet
    <3>6. proc[p].read' = file /\ Fresh(proc[p].read)'
      BY <1>4, <3>4, <3>5 DEF Fresh
    <3> QED BY <1>1, <1>4, <2>1, <3>1, <3>3, <3>6 DEF Writes, DWallets
  <2>2. CASE q # p
    BY <1>1, <1>4, <1>5, <1>7, <2>2, WritesKept
  <2> QED BY <2>1, <2>2
<1>9. OneServer'
  BY <1>1, <1>4, <1>7 DEF IInv, FileInv, OneServer
<1>10. CallInv'
  <2>1. UNCHANGED <<file, clobbered>>
    BY <1>2 DEF NewDwallet
  <2>2. call'["create"].at = "served" /\ call'["create"].by \in Wallets
    BY <1>1, <1>3, <1>5 DEF Typing, CallTypeOK
  <2>3. call'["lock"] = call["lock"] /\ (call["lock"].at # "idle" => call["lock"].id \in 1..created')
    BY <1>1, <1>4, <1>5 DEF IInv, CallInv, CallsBy, CreateSound, LockSound
  <2>4. CallsBy'
    BY <1>1, <2>2, <2>3 DEF IInv, CallInv, CallsBy, CreateSound, LockSound
  <2> QED BY <2>1, <2>2, <2>3, <2>4 DEF IInv, CallInv, CallsBy, CreateSound, LockSound, Has
<1> QED BY <1>4, <1>6, <1>8, <1>9, <1>10 DEF FileInv

LEMMA OtherCreatesStep ==
    ASSUME IInv, NEW p \in Procs, OtherCreates(p)
    PROVE  CallTypeOK' /\ StoreTypeOK' /\ Kept /\ FileInv' /\ CallInv'
<1>1. Typing /\ created \in Nat /\ ~ proc[p].busy /\ UNCHANGED <<call, file, clobbered>>
  BY DEF IInv, Typing, StoreTypeOK, OtherCreates, NewDwallet
<1>2. /\ StoreTypeOK' /\ Kept /\ Fresh(file)'
      /\ created' = created + 1 /\ created' \in DWallets
      /\ proc'[p] = [busy |-> TRUE, for |-> None, id |-> created', read |-> file,
                     entry |-> [creator |-> Stranger, policy |-> 0]]
      /\ \A q \in Procs \ {p} : proc'[q] = proc[q]
      /\ file[created'] = None
  BY <1>1, CreateStep DEF OtherCreates
<1>3. ASSUME NEW q \in Procs PROVE Writes(q)'
  <2>1. CASE q = p
    <3>1. file \in Files /\ [creator |-> Stranger, policy |-> 0] \in Entries
      BY <1>1 DEF Typing, StoreTypeOK, Entries
    <3>2. proc[p].read' = file /\ Fresh(proc[p].read)'
      BY <1>1, <1>2 DEF Fresh
    <3> QED BY KindsAre, <1>1, <1>2, <2>1, <3>1, <3>2 DEF Writes, DWallets
  <2>2. CASE q # p
    BY <1>1, <1>2, <2>2, WritesKept
  <2> QED BY <2>1, <2>2
<1>4. OneServer'
  BY <1>1, <1>2, KindsAre DEF IInv, FileInv, OneServer
<1>5. CallTypeOK' /\ CallInv'
  BY <1>1, <1>2 DEF Typing, CallTypeOK, IInv, CallInv, CallsBy, CreateSound, LockSound, Has
<1> QED BY <1>2, <1>3, <1>4, <1>5 DEF FileInv

LEMMA LockPolicyStep ==
    ASSUME IInv, NEW p \in Procs, LockPolicy(p)
    PROVE  CallTypeOK' /\ StoreTypeOK' /\ Kept /\ FileInv' /\ CallInv'
<1> DEFINE c == call["lock"]
<1>1. /\ Typing /\ created \in Nat /\ UNCHANGED <<file, created, clobbered>>
      /\ ~ proc[p].busy /\ c.at = "asked"
      /\ c \in [by : Wallets \cup {None}, id : 0..MaxDwallets, max : Nat, at : Places]
  BY KindsAre DEF IInv, Typing, StoreTypeOK, CallTypeOK, LockPolicy
<1>2. c.id \in 1..created /\ c.id \in DWallets /\ c.max > 0
  BY <1>1 DEF IInv, CallInv, LockSound, Typing, StoreTypeOK, DWallets
<1>3. Kept
  BY <1>1 DEF Kept
<1>4. \A q \in Procs : proc[q].for # "lock"
  BY <1>1, KindsAre DEF IInv, FileInv, Writes
<1>5. Fresh(file)'
  BY <1>1 DEF IInv, FileInv, Fresh
<1>6. PICK at \in {"served", "failed"} : call' = [call EXCEPT !["lock"].id = c.id, !["lock"].at = at]
  BY DEF LockPolicy, Done
<1>7. CallTypeOK'
  BY <1>1, <1>6, KindsAre DEF Typing, CallTypeOK, Places
<1>8. /\ call'["create"] = call["create"]
      /\ call'["lock"] = [c EXCEPT !.id = c.id, !.at = at]
  BY <1>1, <1>6, KindsAre DEF Typing, CallTypeOK
<1>9. CallInv'
  <2>1. call'["lock"].by = c.by /\ call'["lock"].max = c.max /\ call'["lock"].id = c.id /\ call'["lock"].at = at
    BY <1>1, <1>8
  <2> QED BY <1>1, <1>2, <1>8, <2>1, KindsAre DEF IInv, CallInv, CallsBy, CreateSound, LockSound, Has
<1>10. CASE MayLock(c)
  <2> DEFINE e == [file[c.id] EXCEPT !.policy = c.max]
             r == [busy |-> TRUE, for |-> "lock", id |-> c.id, entry |-> e, read |-> file]
  <2>1. proc' = [proc EXCEPT ![p] = r]
    BY <1>1, <1>10 DEF LockPolicy, Setting
  <2>2. file[c.id] \in Entries /\ file \in Files
    BY <1>1, <1>2, <1>10 DEF Typing, StoreTypeOK, Files, MayLock
  <2>3. e \in Entries /\ e.creator = file[c.id].creator /\ e.policy = c.max
    BY <1>1, <2>2 DEF Entries
  <2>4. r \in ProcRecs
    BY <1>1, <2>2, <2>3, KindsAre DEF ProcRecs
  <2>5. StoreTypeOK'
    BY <1>1, <2>1, <2>4 DEF Typing, StoreTypeOK
  <2>6. proc'[p] = r /\ \A q \in Procs \ {p} : proc'[q] = proc[q]
    BY <1>1, <2>1 DEF Typing, StoreTypeOK
  <2>7. at = "served"
    BY <1>1, <1>6, <1>7, <1>10, KindsAre DEF LockPolicy, Done, Typing, CallTypeOK
  <2>8. ASSUME NEW q \in Procs PROVE Writes(q)'
    <3>1. CASE q = p
      <4> HIDE DEF e
      <4>1. Fresh(file)' /\ UNCHANGED file
        BY <1>1, <1>5
      <4>2. Fresh(proc[p].read)'
        BY <2>6, <4>1 DEF Fresh
      <4>3. call'["lock"].at = "served" /\ call'["lock"].id = c.id
        BY <1>1, <1>8, <2>7
      <4> QED BY <1>1, <1>2, <2>2, <2>3, <2>6, <3>1, <4>2, <4>3, KindsAre DEF Writes
    <3>2. CASE q # p
      BY <1>1, <1>4, <1>8, <2>5, <2>6, <3>2, WritesKept, KindsAre
    <3> QED BY <3>1, <3>2
  <2>9. OneServer'
    BY <1>4, <2>6, KindsAre DEF IInv, FileInv, OneServer
  <2> QED BY <1>3, <1>5, <1>7, <1>9, <2>5, <2>8, <2>9 DEF FileInv
<1>11. CASE ~ MayLock(c)
  <2>1. UNCHANGED proc
    BY <1>11 DEF LockPolicy
  <2>2. StoreTypeOK' /\ OneServer'
    BY <1>1, <2>1 DEF IInv, Typing, StoreTypeOK, FileInv, OneServer
  <2>3. \A q \in Procs : Writes(q)'
    BY <1>1, <1>4, <1>8, <2>1, <2>2, WritesKept, KindsAre
  <2> QED BY <1>3, <1>5, <1>7, <1>9, <2>2, <2>3 DEF FileInv
<1> QED BY <1>10, <1>11

\* The calls' part of the invariant, for calls that a step leaves alone.
LEMMA LockKept ==
    ASSUME IInv, Kept, call'["lock"] = call["lock"], created' \in Nat
    PROVE  LockSound'
<1>1. created \in 0..MaxDwallets /\ MaxDwallets \in Nat
  BY DepositAssumption DEF IInv, Typing, StoreTypeOK
<1>2. \A d \in 1..created : d \in DWallets /\ d \in 1..created'
  BY <1>1 DEF DWallets, Kept
<1> QED BY <1>2 DEF IInv, CallInv, CreateSound, LockSound, Kept, Has

LEMMA CreateKept ==
    ASSUME IInv, Kept, call'["create"] = call["create"], created' \in Nat
    PROVE  CreateSound'
<1>1. created \in 0..MaxDwallets /\ MaxDwallets \in Nat
  BY DepositAssumption DEF IInv, Typing, StoreTypeOK
<1>2. \A d \in 1..created : d \in DWallets /\ d \in 1..created'
  BY <1>1 DEF DWallets, Kept
<1> QED BY <1>2 DEF IInv, CallInv, CreateSound, LockSound, Kept, Has

LEMMA RenameStep ==
    ASSUME IInv, NEW p \in Procs, Rename(p)
    PROVE  CallTypeOK' /\ StoreTypeOK' /\ Kept /\ FileInv' /\ CallInv'
<1> DEFINE r == proc[p]
<1>1. /\ Typing /\ created \in 0..MaxDwallets /\ MaxDwallets \in Nat /\ UNCHANGED created
      /\ r.busy /\ file \in Files /\ r \in ProcRecs
  BY DepositAssumption DEF IInv, Typing, StoreTypeOK, Rename
<1>2. /\ r.id \in 1..created /\ r.id \in DWallets /\ r.entry \in Entries /\ r.read \in Files
      /\ Fresh(r.read)
      /\ r.read[r.id] # None => r.entry.creator = r.read[r.id].creator /\ r.entry.policy > 0
      /\ r.for = "create" => r.entry.creator = call["create"].by
      /\ r.for = "lock" => r.entry.policy > 0
      /\ \A k \in Kinds : r.for = k => call[k].at = "served" /\ call[k].id = r.id
  BY <1>1 DEF IInv, FileInv, Writes, DWallets
<1>3. file' = [r.read EXCEPT ![r.id] = r.entry]
  BY DEF Rename
<1>4. file' \in Files /\ file'[r.id] = r.entry /\ \A d \in DWallets \ {r.id} : file'[d] = r.read[d]
  BY <1>2, <1>3 DEF Files
<1>5. /\ proc' = [proc EXCEPT ![p] = NotSetting]
      /\ proc'[p] = NotSetting /\ \A q \in Procs \ {p} : proc'[q] = proc[q]
  BY <1>1 DEF Rename, Typing, StoreTypeOK
<1>6. clobbered' = (clobbered \/ r.read # file)
  BY DEF Rename
<1>7. StoreTypeOK'
  BY <1>1, <1>4, <1>5, <1>6 DEF Typing, StoreTypeOK, ProcRecs, NotSetting
<1>8. Kept
  <2>0. ~ clobbered' => ~ clobbered /\ r.read = file
    BY <1>6, Zenon
  <2> SUFFICES ASSUME ~ clobbered', NEW d \in DWallets, file[d] # None
               PROVE  /\ file'[d] # None /\ file'[d].creator = file[d].creator
                      /\ file[d].policy > 0 => file'[d].policy > 0
    BY <1>1, <2>0 DEF Kept
  <2>1. r.read = file
    BY <2>0
  <2>2. CASE d = r.id
    BY <1>2, <1>4, <2>1, <2>2, DepositAssumption
  <2>3. CASE d # r.id
    BY <1>4, <2>1, <2>3
  <2> QED BY <2>2, <2>3
<1>9. Fresh(file)'
  BY <1>1, <1>2, <1>4 DEF Fresh, DWallets
<1>10. \A k \in Kinds : r.for # k => call'[k] = call[k]
  BY <1>1, KindsAre DEF Rename, Done, Typing, CallTypeOK
<1>11. ASSUME NEW k \in Kinds, r.for = k
       PROVE  call'[k] = [call[k] EXCEPT !.id = r.id, !.at = "answered"]
  BY <1>1, <1>11, KindsAre DEF Rename, Done, Typing, CallTypeOK
<1>12. ASSUME NEW k \in Kinds, r.for = k
       PROVE  /\ call'[k].id = r.id /\ call[k].id = r.id /\ call'[k].at = "answered"
              /\ call'[k].by = call[k].by /\ call'[k].max = call[k].max
              /\ call[k].at = "served"
  BY <1>1, <1>2, <1>11, <1>12 DEF Typing, CallTypeOK
<1>13. CallTypeOK'
  <2>1. CASE r.for = None
    BY <1>1, <2>1 DEF Rename, Typing, CallTypeOK
  <2>2. CASE r.for # None
    <3>1. r.for \in Kinds /\ r.id \in 0..MaxDwallets
      BY <1>1, <2>2 DEF ProcRecs
    <3>2. call' = [call EXCEPT ![r.for].id = r.id, ![r.for].at = "answered"]
      BY <2>2 DEF Rename, Done
    <3> QED BY <1>1, <3>1, <3>2 DEF Typing, CallTypeOK, Places
  <2> QED BY <2>1, <2>2
<1>14. ASSUME NEW q \in Procs PROVE Writes(q)'
  <2>1. CASE q = p
    BY <1>5, <2>1 DEF Writes, NotSetting
  <2>2. CASE q # p
    <3>1. \A k \in Kinds : proc[q].for = k => call'[k] = call[k]
      BY <1>10, <2>2 DEF IInv, FileInv, OneServer
    <3> QED BY <1>1, <1>5, <1>7, <2>2, <3>1, WritesKept
  <2> QED BY <2>1, <2>2
<1>15. OneServer'
  BY <1>5, KindsAre DEF IInv, FileInv, OneServer, NotSetting
<1>16. CallInv'
  <2>1. CallsBy'
    BY <1>10, <1>12 DEF IInv, CallInv, CallsBy, CreateSound, LockSound
  <2>2. CreateSound'
    <3>1. CASE r.for = "create"
      BY <1>1, <1>2, <1>4, <1>12, <3>1, KindsAre, DepositAssumption DEF Has, CreateSound
    <3>2. CASE r.for # "create"
      BY <1>1, <1>8, <1>10, <3>2, KindsAre, CreateKept
    <3> QED BY <3>1, <3>2
  <2>3. LockSound'
    <3>1. CASE r.for = "lock"
      <4>1. call["lock"].max > 0 /\ (~ clobbered => Has(call["lock"].id, call["lock"].by))
        BY <1>12, <3>1, KindsAre DEF IInv, CallInv, CallsBy, CreateSound, LockSound
      <4>2. ~ clobbered' => file'[r.id] # None /\ file'[r.id].creator = call["lock"].by
        BY <1>2, <1>8, <1>12, <3>1, <4>1, KindsAre DEF Has, Kept
      <4>3. /\ call'["lock"].id = r.id /\ call'["lock"].by = call["lock"].by
            /\ call'["lock"].max = call["lock"].max
        BY <1>12, <3>1, KindsAre
      <4>4. file'[r.id].policy > 0
        BY <1>2, <1>4, <3>1
      <4> QED BY <1>1, <1>2, <4>1, <4>2, <4>3, <4>4 DEF Has, LockSound
    <3>2. CASE r.for # "lock"
      BY <1>1, <1>8, <1>10, <3>2, KindsAre, LockKept
    <3> QED BY <3>1, <3>2
  <2> QED BY <2>1, <2>2, <2>3 DEF CallInv
<1> QED BY <1>7, <1>8, <1>9, <1>13, <1>14, <1>15, <1>16 DEF FileInv

\* A page that goes away, or hears that its call failed, forgets the call.
LEMMA AbandonStep ==
    ASSUME IInv, NEW calls \in SUBSET Kinds, Abandon(calls)
    PROVE  CallTypeOK' /\ StoreTypeOK' /\ Kept /\ FileInv' /\ CallInv'
<1>1. /\ Typing /\ created \in 0..MaxDwallets /\ MaxDwallets \in Nat
      /\ UNCHANGED <<file, created, clobbered>>
  BY DepositAssumption DEF IInv, Typing, StoreTypeOK, Abandon
<1>2. \A k \in Kinds : call'[k] = IF k \in calls THEN NoCall ELSE call[k]
  BY DEF Abandon
<1>3. NoCall \in [by : Wallets \cup {None}, id : 0..MaxDwallets, max : Nat, at : Places]
  BY <1>1 DEF NoCall, Places
<1>4. CallTypeOK'
  BY <1>1, <1>3 DEF Typing, CallTypeOK, Abandon
<1>5. \A p \in Procs : /\ proc[p].for \notin calls => proc'[p] = proc[p]
                       /\ proc[p].for \in calls => proc'[p] = [proc[p] EXCEPT !.for = None]
  BY DEF Abandon
<1>6. StoreTypeOK'
  BY <1>1 DEF Typing, StoreTypeOK, ProcRecs, Abandon
<1>7. Kept
  BY <1>1 DEF Kept
<1>8. \A p \in Procs : proc'[p].for \in {None, proc[p].for} /\ proc'[p].for \notin calls
  BY <1>1, <1>5, KindsAre DEF Typing, StoreTypeOK, ProcRecs
<1>9. ASSUME NEW p \in Procs PROVE Writes(p)'
  <2>1. CASE proc[p].for \notin calls
    <3>1. proc'[p] = proc[p]
      BY <1>5, <2>1
    <3>2. created <= created'
      BY <1>1
    <3>3. \A k \in Kinds : proc[p].for = k => call'[k] = call[k]
      BY <1>2, <2>1
    <3> QED BY <1>6, <3>1, <3>2, <3>3, WritesKept
  <2>2. CASE proc[p].for \in calls
    <3>1. /\ proc[p] \in ProcRecs /\ Writes(p) /\ proc[p].busy
      BY <1>1, <2>2, KindsAre DEF IInv, FileInv, Writes, Typing, StoreTypeOK
    <3>2. /\ proc'[p].busy /\ proc'[p].for = None /\ proc'[p].id = proc[p].id
          /\ proc'[p].entry = proc[p].entry /\ proc'[p].read = proc[p].read
      BY <1>5, <2>2, <3>1 DEF ProcRecs
    <3>3. Fresh(proc[p].read)'
      BY <1>1, <3>1, <3>2 DEF Writes, Fresh
    <3>4. /\ proc[p].id \in 1..created /\ proc[p].entry \in Entries /\ proc[p].read \in Files
          /\ proc[p].read[proc[p].id] # None =>
               /\ proc[p].entry.creator = proc[p].read[proc[p].id].creator
               /\ proc[p].entry.policy > 0
      BY <3>1 DEF Writes
    <3>5. \A k \in Kinds : proc'[p].for # k
      BY <3>2, KindsAre
    <3> QED BY <1>1, <3>2, <3>3, <3>4, <3>5, KindsAre DEF Writes
  <2> QED BY <2>1, <2>2
<1>10. OneServer' /\ Fresh(file)'
  BY <1>1, <1>8, KindsAre DEF IInv, FileInv, OneServer, Fresh
<1>11. CallInv'
  BY <1>1, <1>2, KindsAre DEF IInv, CallInv, CallsBy, CreateSound, LockSound, NoCall, Has
<1> QED BY <1>4, <1>6, <1>7, <1>9, <1>10, <1>11 DEF FileInv

-----------------------------------------------------------------------------
(* The page *)

\* What the server sees of a step of the page is the calls.
LEMMA FileKept ==
    ASSUME IInv, UNCHANGED storeVars,
           \A k \in Kinds : call[k].at = "served" => call'[k] = call[k]
    PROVE  StoreTypeOK' /\ Kept /\ FileInv'
<1>1. /\ Typing /\ created \in 0..MaxDwallets /\ MaxDwallets \in Nat
      /\ UNCHANGED <<file, proc, created, clobbered>>
  BY DepositAssumption DEF IInv, Typing, StoreTypeOK, storeVars
<1>2. StoreTypeOK' /\ Kept /\ Fresh(file)' /\ OneServer'
  BY <1>1 DEF IInv, FileInv, Typing, StoreTypeOK, Kept, Fresh, OneServer
<1>3. ASSUME NEW p \in Procs PROVE Writes(p)'
  <2>1. \A k \in Kinds : proc[p].for = k => call'[k] = call[k]
    BY KindsAre DEF IInv, FileInv, Writes
  <2>2. proc'[p] = proc[p] /\ created <= created'
    BY <1>1
  <2> QED BY <1>2, <2>1, <2>2, WritesKept
<1> QED BY <1>2, <1>3 DEF FileInv

LEMMA CallsKept ==
    ASSUME IInv, UNCHANGED <<storeVars, call>>
    PROVE  CallTypeOK' /\ StoreTypeOK' /\ Kept /\ FileInv' /\ CallInv'
<1>1. StoreTypeOK' /\ Kept /\ FileInv'
  BY FileKept
<1>2. created' \in Nat
  BY DepositAssumption DEF IInv, Typing, StoreTypeOK, storeVars
<1>3. CreateSound' /\ LockSound'
  BY <1>1, <1>2, CreateKept, LockKept
<1> QED BY <1>1, <1>3 DEF IInv, Typing, CallTypeOK, CallInv, CallsBy

\* A step that only moves the cursor, the wallet or the chain.
LEMMA PlainStep ==
    ASSUME IInv, UNCHANGED <<storeVars, call, dwallet, locked, crossed, poll>>, PageTypeOK'
    PROVE  IInv'
<1>1. CallTypeOK' /\ StoreTypeOK' /\ Kept /\ FileInv' /\ CallInv'
  BY CallsKept
<1>2. created' \in 0..MaxDwallets
  BY <1>1 DEF StoreTypeOK
<1> QED BY <1>1, <1>2, PageKept DEF IInv, Typing

LEMMA SetStepStep ==
    ASSUME IInv, NEW to \in {"create", "fund", "lock", "done"}, SetStep(to)
    PROVE  IInv'
<1>1. PageTypeOK'
  BY DEF IInv, Typing, PageTypeOK, SetStep, boundVars
<1> QED BY <1>1, PlainStep DEF SetStep

\* The wizard is open to whoever owns the dWallet, or to nobody.
LEMMA WizardOwner ==
    ASSUME Page = "wizard", dwallet # NoDwallet, wallet # None
    PROVE  dwallet.creator = wallet
BY DEF Page, Ownership

LEMMA MaxAmountPositive == ASSUME Typing PROVE MaxAmount \in Nat /\ MaxAmount > 0
BY DepositAssumption DEF Typing, PageTypeOK, Amounts, MaxAmount

LEMMA AskStep ==
    ASSUME IInv, NEW kind \in Kinds, NEW id \in 0..MaxDwallets, NEW max \in Nat,
           Ask(kind, id, max),
           kind = "lock" => /\ id \in 1..created /\ max > 0
                            /\ ~ clobbered => Has(id, wallet)
    PROVE  IInv'
<1> DEFINE r == [by |-> wallet, id |-> id, max |-> max, at |-> "asked"]
<1>1. /\ call' = [call EXCEPT ![kind] = r] /\ call[kind] = NoCall
      /\ wallet \in Wallets /\ UNCHANGED storeVars /\ created \in 0..MaxDwallets /\ MaxDwallets \in Nat
      /\ UNCHANGED <<storeVars, dwallet, locked, crossed, poll>>
  BY DepositAssumption DEF Ask, IInv, Typing, PageTypeOK, StoreTypeOK, browserVars
<1>2. CallTypeOK'
  BY <1>1 DEF IInv, Typing, CallTypeOK, Places
<1>3. call'[kind] = r /\ \A k \in Kinds : k # kind => call'[k] = call[k]
  BY <1>1 DEF IInv, Typing, CallTypeOK
<1>4. StoreTypeOK' /\ Kept /\ FileInv'
  BY <1>1, <1>3, FileKept DEF NoCall
<1>5. UNCHANGED <<file, created, clobbered>>
  BY <1>1 DEF storeVars
<1>6. CreateSound'
  BY <1>1, <1>3, <1>4, <1>5, CreateKept, KindsAre DEF CreateSound
<1>7. LockSound'
  <2>1. CASE kind = "lock"
    BY <1>1, <1>3, <1>5, <2>1 DEF LockSound, Has
  <2>2. CASE kind # "lock"
    BY <1>1, <1>3, <1>4, <1>5, <2>2, LockKept, KindsAre
  <2> QED BY <2>1, <2>2
<1>8. CallsBy'
  BY <1>1, <1>3 DEF IInv, CallInv, CallsBy
<1>9. PageTypeOK'
  BY DEF IInv, Typing, PageTypeOK, Ask, browserVars, boundVars
<1>10. PageInv'
  BY <1>1, <1>4, <1>5, PageKept DEF IInv
<1> QED BY <1>2, <1>4, <1>6, <1>7, <1>8, <1>9, <1>10 DEF IInv, Typing, CallInv

LEMMA GenerateStep == ASSUME IInv, Generate PROVE IInv'
BY AskStep, KindsAre, DepositAssumption DEF Generate

LEMMA LockStep == ASSUME IInv, Lock PROVE IInv'
<1>1. dwallet.id \in 1..created /\ dwallet.id \in 0..MaxDwallets
  BY DepositAssumption DEF Lock, IInv, PageInv, Typing, StoreTypeOK
<1>2. dwallet.creator = wallet
  BY WizardOwner DEF Lock, LockOpen, Ask
<1>3. ~ clobbered => Has(dwallet.id, wallet)
  BY <1>2 DEF Lock, IInv, PageInv
<1>4. MaxAmount \in Nat /\ MaxAmount > 0
  BY MaxAmountPositive DEF IInv
<1> HIDE DEF MaxAmount
<1> QED BY <1>1, <1>3, <1>4, AskStep, KindsAre DEF Lock

\* What an answer does to the calls.
LEMMA AnsweredStep ==
    ASSUME IInv, NEW kind \in Kinds, Answered(kind), UNCHANGED storeVars
    PROVE  CallTypeOK' /\ StoreTypeOK' /\ Kept /\ FileInv' /\ CallInv'
<1>1. /\ call' = [call EXCEPT ![kind] = NoCall] /\ call[kind].at = "answered"
      /\ UNCHANGED <<file, created, clobbered>> /\ created \in 0..MaxDwallets /\ MaxDwallets \in Nat
  BY DepositAssumption DEF Answered, storeVars, IInv, Typing, StoreTypeOK
<1>2. NoCall \in [by : Wallets \cup {None}, id : 0..MaxDwallets, max : Nat, at : Places]
  BY <1>1 DEF NoCall, Places
<1>3. CallTypeOK' /\ call'[kind] = NoCall /\ \A k \in Kinds : k # kind => call'[k] = call[k]
  BY <1>1, <1>2 DEF IInv, Typing, CallTypeOK
<1>4. StoreTypeOK' /\ Kept /\ FileInv'
  BY <1>1, <1>3, FileKept
<1>5. CreateSound' /\ LockSound' /\ CallsBy'
  BY <1>1, <1>3, KindsAre DEF IInv, CallInv, CallsBy, CreateSound, LockSound, NoCall, Has
<1> QED BY <1>3, <1>4, <1>5 DEF CallInv
\* The answer's dWallet is in the file, under the wallet that asked.
LEMMA SetDwalletStep == ASSUME IInv, SetDwallet PROVE IInv'
<1> DEFINE c == call["create"]
<1>1. /\ CallTypeOK' /\ StoreTypeOK' /\ FileInv' /\ CallInv'
  BY AnsweredStep, KindsAre DEF SetDwallet
<1>2. /\ c.at = "answered" /\ c.id \in 1..created /\ c.by \in Wallets
      /\ ~ clobbered => Has(c.id, c.by)
  BY KindsAre DEF SetDwallet, Answered, IInv, CallInv, CreateSound, CallsBy
<1>3. /\ dwallet' = [id |-> c.id, creator |-> c.by] /\ locked' = FALSE
      /\ poll' = [poll EXCEPT !.live = FALSE]
      /\ UNCHANGED <<file, created, clobbered>>
  BY DEF SetDwallet, BoundTo, Unlock, Unpoll, storeVars
<1>4. c.id \in DWallets
  BY <1>2, DepositAssumption DEF IInv, Typing, StoreTypeOK, DWallets
<1>5. PageTypeOK'
  <2>1. dwallet' \in [id : DWallets, creator : Wallets]
    BY <1>2, <1>3, <1>4
  <2>2. poll' \in [id : 0..MaxDwallets, live : BOOLEAN, answer : Amounts]
    BY <1>3 DEF IInv, Typing, PageTypeOK
  <2>3. UNCHANGED <<chain, wallet, balance, crossed, faults, changes>> /\ step' = "fund"
    BY DEF SetDwallet, boundVars
  <2> QED BY <1>3, <2>1, <2>2, <2>3 DEF IInv, Typing, PageTypeOK
<1>6. dwallet'.id = c.id /\ dwallet'.creator = c.by /\ ~ poll'.live
  BY <1>3 DEF IInv, Typing, PageTypeOK
<1>7. PageInv'
  BY <1>2, <1>3, <1>6 DEF PageInv, Has
<1> QED BY <1>1, <1>5, <1>7 DEF IInv, Typing

\* If it is the answer for the stored dWallet, that one has a policy now.
LEMMA SetPolicyStep == ASSUME IInv, SetPolicy PROVE IInv'
<1> DEFINE c == call["lock"]
<1>1. /\ CallTypeOK' /\ StoreTypeOK' /\ FileInv' /\ CallInv'
  BY AnsweredStep, KindsAre DEF SetPolicy
<1>2. ~ clobbered => file[c.id].policy > 0
  BY DEF SetPolicy, Answered, IInv, CallInv, LockSound
<1>3. /\ UNCHANGED <<file, created, clobbered, dwallet, poll>>
      /\ crossed' = (crossed \/ dwallet.id # c.id)
  BY DEF SetPolicy, storeVars
<1>4. ~ crossed' => ~ crossed /\ dwallet.id = c.id
  BY <1>3, Zenon
<1>5. PageTypeOK'
  BY <1>3 DEF IInv, Typing, PageTypeOK, SetPolicy, boundVars
<1>6. PageInv'
  BY <1>2, <1>3, <1>4 DEF IInv, PageInv, Has
<1> QED BY <1>1, <1>5, <1>6 DEF IInv, Typing

\* Steps in which the page forgets calls.
LEMMA ForgetStep ==
    ASSUME IInv, NEW calls \in SUBSET Kinds, Abandon(calls), UNCHANGED <<dwallet, locked, crossed>>,
           PageTypeOK', poll' \in {poll, NoPoll}
    PROVE  IInv'
<1>1. CallTypeOK' /\ StoreTypeOK' /\ Kept /\ FileInv' /\ CallInv'
  BY AbandonStep
<1>2. UNCHANGED <<file, created, clobbered>>
  BY DEF Abandon
<1>3. PageInv'
  BY <1>2 DEF IInv, PageInv, Has, NoPoll
<1> QED BY <1>1, <1>3 DEF IInv, Typing

LEMMA FailsStep == ASSUME IInv, NEW kind \in Kinds, Fails(kind) PROVE IInv'
<1>1. PageTypeOK'
  BY DepositAssumption DEF IInv, Typing, PageTypeOK, Fails, Fault, browserVars
<1> QED BY <1>1, ForgetStep DEF Fails, browserVars

LEMMA ZeroAmount == Zero \in Amounts /\ NoPoll.live = FALSE /\ NoPoll.id = 0 /\ NoPoll.answer = Zero
BY DEF Zero, Amounts, NoPoll

LEMMA BalanceAmount == ASSUME Typing, NEW d \in DWallets PROVE Balance(d) \in Amounts
<1>1. chain[d] \in Addresses
  BY DEF Typing, PageTypeOK
<1>2. /\ chain[d].funded - chain[d].spent \in Nat
      /\ (chain[d].funded - chain[d].spent) + (chain[d].poolFunded - chain[d].poolSpent) \in Nat
  BY <1>1 DEF Addresses
<1> QED BY <1>2 DEF Balance, Amounts

LEMMA ReloadStep == ASSUME IInv, Reload PROVE IInv'
<1>1. PageTypeOK'
  BY ZeroAmount, DepositAssumption DEF IInv, Typing, PageTypeOK, Reload, Change, browserVars, NoPoll
<1> QED BY <1>1, ForgetStep DEF Reload, browserVars

LEMMA TickStep == ASSUME IInv, Tick PROVE IInv'
<1>1. CallTypeOK' /\ StoreTypeOK' /\ Kept /\ FileInv' /\ CallInv'
  BY CallsKept DEF Tick
<1>2. dwallet \in [id : DWallets, creator : Wallets] /\ dwallet.id \in DWallets /\ dwallet.id \in 0..MaxDwallets
  BY DepositAssumption DEF IInv, Typing, PageTypeOK, Tick, DWallets
<1>3. PICK answer \in Amounts : poll' = [id |-> dwallet.id, live |-> TRUE, answer |-> answer]
  BY <1>2, ZeroAmount, BalanceAmount DEF IInv, Tick
<1>4. PageTypeOK'
  BY <1>2, <1>3, DepositAssumption DEF IInv, Typing, PageTypeOK, Tick, Fault, browserVars
<1>5. UNCHANGED <<file, created, clobbered, dwallet, locked, crossed>> /\ poll'.id = dwallet.id
  BY <1>3 DEF Tick, storeVars, browserVars
<1>6. PageInv'
  BY <1>5 DEF IInv, PageInv, Has
<1> QED BY <1>1, <1>4, <1>6 DEF IInv, Typing

LEMMA SetBalanceStep == ASSUME IInv, SetBalance PROVE IInv'
<1>1. CallTypeOK' /\ StoreTypeOK' /\ Kept /\ FileInv' /\ CallInv'
  BY CallsKept DEF SetBalance
<1>2. PageTypeOK'
  BY ZeroAmount, DepositAssumption DEF IInv, Typing, PageTypeOK, SetBalance, NoPoll, boundVars
<1>3. UNCHANGED <<file, created, clobbered, dwallet, locked, crossed>> /\ ~ poll'.live
  BY ZeroAmount DEF SetBalance, storeVars
<1>4. PageInv'
  BY <1>3 DEF IInv, PageInv, Has
<1> QED BY <1>1, <1>2, <1>4 DEF IInv, Typing

LEMMA ResetStep == ASSUME IInv, Reset PROVE IInv'
<1>1. CallTypeOK' /\ StoreTypeOK' /\ Kept /\ FileInv' /\ CallInv'
  BY CallsKept DEF Reset
<1>2. dwallet' = NoDwallet /\ poll' = [poll EXCEPT !.live = FALSE]
  BY DEF Reset, Unpoll
<1>3. PageTypeOK'
  <2>1. poll' \in [id : 0..MaxDwallets, live : BOOLEAN, answer : Amounts]
    BY <1>2 DEF IInv, Typing, PageTypeOK
  <2>2. faults' \in 0..MaxFaults /\ changes' \in 0..MaxChanges
    BY DepositAssumption DEF IInv, Typing, PageTypeOK, Reset, Change
  <2>3. balance' \in Amounts /\ locked' = FALSE /\ step' = "create"
        /\ UNCHANGED <<chain, wallet, crossed>>
    BY ZeroAmount DEF Reset
  <2> QED BY <1>2, <2>1, <2>2, <2>3 DEF IInv, Typing, PageTypeOK
<1>4. ~ poll'.live
  BY <1>2 DEF IInv, Typing, PageTypeOK
<1>5. PageInv'
  BY <1>2, <1>4 DEF PageInv
<1> QED BY <1>1, <1>3, <1>5 DEF IInv, Typing

LEMMA ConnectStep == ASSUME IInv, NEW w \in Wallets \cup {None}, Connect(w) PROVE IInv'
<1>1. PageTypeOK'
  BY DepositAssumption DEF IInv, Typing, PageTypeOK, Connect, Change
<1> QED BY <1>1, PlainStep DEF Connect

LEMMA ChainStep ==
    ASSUME IInv, NEW d \in DWallets, NEW address \in Addresses, Chain(d, address)
    PROVE  IInv'
<1>1. chain' \in [DWallets -> Addresses]
  BY DEF IInv, Typing, PageTypeOK, Chain
<1>2. PageTypeOK'
  BY <1>1 DEF IInv, Typing, PageTypeOK, Chain, browserVars, boundVars
<1> QED BY <1>2, PlainStep DEF Chain, browserVars

LEMMA DepositStep == ASSUME IInv, NEW d \in DWallets, Deposit(d) PROVE IInv'
<1>1. chain[d] \in Addresses
  BY DEF IInv, Typing, PageTypeOK
<1>2. [chain[d] EXCEPT !.poolFunded = @ + 1] \in Addresses
  BY <1>1 DEF Addresses
<1> QED BY <1>2, ChainStep DEF Deposit

LEMMA SpendStep == ASSUME IInv, NEW d \in DWallets, Spend(d) PROVE IInv'
<1>1. chain[d] \in Addresses
  BY DEF IInv, Typing, PageTypeOK
<1>2. [chain[d] EXCEPT !.poolSpent = @ + 1] \in Addresses
  BY <1>1 DEF Addresses, Spend, Balance
<1> QED BY <1>2, ChainStep DEF Spend

LEMMA MineStep == ASSUME IInv, NEW d \in DWallets, Mine(d) PROVE IInv'
<1>1. chain[d] \in Addresses
  BY DEF IInv, Typing, PageTypeOK
<1>2. /\ chain[d].funded \in Nat /\ chain[d].spent \in Nat /\ chain[d].poolFunded \in Nat
      /\ chain[d].poolSpent \in Nat /\ chain[d].spent <= chain[d].funded
      /\ chain[d].spent + chain[d].poolSpent <= chain[d].funded + chain[d].poolFunded
  BY <1>1 DEF Addresses
<1>3. CASE /\ chain[d].poolFunded > 0
           /\ Chain(d, [chain[d] EXCEPT !.poolFunded = @ - 1, !.funded = @ + 1])
  <2> DEFINE next == [chain[d] EXCEPT !.poolFunded = @ - 1, !.funded = @ + 1]
  <2>1. chain[d].poolFunded - 1 \in Nat /\ chain[d].funded + 1 \in Nat
    BY <1>1, <1>3 DEF Addresses
  <2>2. next \in [funded : Nat, spent : Nat, poolFunded : Nat, poolSpent : Nat]
    BY <1>1, <2>1 DEF Addresses
  <2>3. /\ next.funded = chain[d].funded + 1 /\ next.spent = chain[d].spent
        /\ next.poolFunded = chain[d].poolFunded - 1 /\ next.poolSpent = chain[d].poolSpent
    BY <1>1 DEF Addresses
  <2>4. Chain(d, next)
    BY <1>3
  <2> HIDE DEF next
  <2>5. next \in Addresses
    BY <1>2, <2>1, <2>2, <2>3 DEF Addresses
  <2> QED BY <2>4, <2>5, ChainStep
<1>4. CASE /\ chain[d].poolSpent > 0 /\ Balance(d).confirmed > 0
           /\ Chain(d, [chain[d] EXCEPT !.poolSpent = @ - 1, !.spent = @ + 1])
  <2> DEFINE next == [chain[d] EXCEPT !.poolSpent = @ - 1, !.spent = @ + 1]
  <2>1. chain[d].poolSpent - 1 \in Nat /\ chain[d].spent + 1 \in Nat /\ chain[d].spent + 1 <= chain[d].funded
    BY <1>1, <1>4 DEF Addresses, Balance
  <2>2. next \in [funded : Nat, spent : Nat, poolFunded : Nat, poolSpent : Nat]
    BY <1>1, <2>1 DEF Addresses
  <2>3. /\ next.funded = chain[d].funded /\ next.spent = chain[d].spent + 1
        /\ next.poolFunded = chain[d].poolFunded /\ next.poolSpent = chain[d].poolSpent - 1
    BY <1>1 DEF Addresses
  <2>4. Chain(d, next)
    BY <1>4
  <2> HIDE DEF next
  <2>5. next \in Addresses
    BY <1>2, <2>1, <2>2, <2>3 DEF Addresses
  <2> QED BY <2>4, <2>5, ChainStep
<1> QED BY <1>3, <1>4 DEF Mine

LEMMA ServerStep == ASSUME IInv, Server PROVE IInv'
<1>1. CallTypeOK' /\ StoreTypeOK' /\ Kept /\ FileInv' /\ CallInv'
  BY CreateDWalletStep, LockPolicyStep, OtherCreatesStep, RenameStep DEF Server, StoreStep
<1>2. PageTypeOK'
  BY DEF IInv, Typing, PageTypeOK, Server, browserVars, boundVars
<1>3. created' \in 0..MaxDwallets
  BY <1>1 DEF StoreTypeOK
<1> QED BY <1>1, <1>2, <1>3, PageKept DEF IInv, Typing, Server, browserVars

-----------------------------------------------------------------------------
(* The theorems *)

LEMMA InitInv == Init => IInv
<1> SUFFICES ASSUME Init PROVE IInv
  OBVIOUS
<1>1. (CHOOSE w \in Wallets : TRUE) \in Wallets
  BY DepositAssumption
<1>2. CallTypeOK /\ CallInv
  BY DepositAssumption, KindsAre
  DEF Init, CallTypeOK, NoCall, Places, CallInv, CallsBy, CreateSound, LockSound
<1>3. StoreTypeOK /\ FileInv
  <2>1. file = [d \in DWallets |-> None] /\ proc = [p \in Procs |-> NotSetting]
        /\ created = 0 /\ clobbered = FALSE
    BY DEF Init, StoreInit
  <2>2. NotSetting \in ProcRecs /\ NotSetting.busy = FALSE /\ NotSetting.for = None
    BY DepositAssumption DEF NotSetting, ProcRecs
  <2>3. StoreTypeOK
    <3>1. file \in Files
      BY <2>1 DEF Files
    <3>2. proc \in [Procs -> ProcRecs]
      BY <2>1, <2>2
    <3>3. created \in 0..MaxDwallets
      BY <2>1, DepositAssumption
    <3>4. clobbered \in BOOLEAN
      BY <2>1
    <3> QED BY <3>1, <3>2, <3>3, <3>4 DEF StoreTypeOK
  <2>4. Fresh(file) /\ OneServer
    BY <2>1, <2>2, KindsAre DEF Fresh, OneServer
  <2>5. \A p \in Procs : Writes(p)
    BY <2>1, <2>2 DEF Writes
  <2> QED BY <2>3, <2>4, <2>5 DEF FileInv
<1>4. PageTypeOK
  <2>1. chain \in [DWallets -> Addresses] /\ balance \in Amounts
    BY ZeroAmount DEF Init, Unused, Addresses
  <2>2. poll \in [id : 0..MaxDwallets, live : BOOLEAN, answer : Amounts]
    BY ZeroAmount, DepositAssumption DEF Init, NoPoll
  <2>3. wallet \in Wallets
    BY <1>1 DEF Init
  <2>4. faults \in 0..MaxFaults /\ changes \in 0..MaxChanges
    BY DepositAssumption DEF Init
  <2>5. dwallet = NoDwallet /\ locked = FALSE /\ crossed = FALSE /\ step = "create"
    BY DEF Init
  <2> QED BY <2>1, <2>2, <2>3, <2>4, <2>5 DEF PageTypeOK
<1>5. PageInv
  BY ZeroAmount DEF Init, PageInv
<1> QED BY <1>2, <1>3, <1>4, <1>5 DEF IInv, Typing

LEMMA StepInv == IInv /\ [Next]_wizardVars => IInv'
<1> SUFFICES ASSUME IInv, [Next]_wizardVars PROVE IInv'
  OBVIOUS
<1>1. CASE Proceed \/ Back
  BY <1>1, SetStepStep DEF Proceed, Back
<1>2. CASE UNCHANGED wizardVars
  <2>1. UNCHANGED <<storeVars, call, dwallet, locked, crossed, poll>> /\ PageTypeOK'
    BY <1>2 DEF IInv, Typing, PageTypeOK, wizardVars, browserVars, boundVars
  <2> QED BY <2>1, PlainStep
<1> QED BY <1>1, <1>2, GenerateStep, LockStep, SetDwalletStep, SetPolicyStep, FailsStep, TickStep,
           SetBalanceStep, ResetStep, ReloadStep, ConnectStep, DepositStep, SpendStep, MineStep, ServerStep DEF Next

\* The inductive invariant: what is in the file, what each process is about
\* to write there, what the page waits for and what it holds.
THEOREM Invariance == Spec => []IInv
BY InitInv, StepInv, PTL DEF Spec

\* Every part of the browser's and the server's state keeps its type, whatever
\* settlements spend in between, and a lock under way has an amount and a
\* dWallet that was created.
THEOREM DepositTypeCorrect == Spec => []DepositTypeOK
<1>1. IInv => DepositTypeOK
  <2> SUFFICES ASSUME IInv PROVE DepositTypeOK
    OBVIOUS
  <2>1. balance \in [confirmed : Nat, total : Nat]
    BY DEF IInv, Typing, PageTypeOK, Amounts
  <2>2. call["lock"] # NoCall => call["lock"].id \in 1..created /\ call["lock"].max > 0
    BY KindsAre DEF IInv, CallInv, CallsBy, LockSound
  <2> QED BY <2>1, <2>2 DEF IInv, Typing, StoreTypeOK, PageTypeOK, Files, DepositTypeOK
<1> QED BY <1>1, Invariance, PTL

\* generate, dwalletOwnership: the stored dWallet is the one the server made
\* for the wallet that asked, and is shown to that wallet only.
THEOREM ShownToItsCreator == Spec => []ShownToCreator
<1>1. IInv => ShownToCreator
  <2> SUFFICES ASSUME IInv, dwallet # NoDwallet, ~ clobbered
               PROVE  /\ Has(dwallet.id, dwallet.creator)
                      /\ AddressShown /\ wallet # None => dwallet.creator = wallet
    BY DEF ShownToCreator, Has
  <2>1. Has(dwallet.id, dwallet.creator)
    BY DEF IInv, PageInv
  <2>2. ASSUME AddressShown, wallet # None PROVE dwallet.creator = wallet
    <3>1. CASE Ownership = "mine"
      BY <2>2, <3>1 DEF Ownership
    <3>2. CASE Page # "banner"
      <4>1. ASSUME dwallet.creator # wallet PROVE Ownership = "foreign"
        BY <2>2, <4>1 DEF Ownership
      <4>2. ASSUME Ownership = "foreign" PROVE Page = "banner"
        BY <4>2 DEF Page
      <4> QED BY <3>2, <4>1, <4>2
    <3> QED BY <2>2, <3>1, <3>2 DEF AddressShown, Chip, Balances
  <2> QED BY <2>1, <2>2
<1> QED BY <1>1, Invariance, PTL

\* setDwallet, setPolicy: a dWallet shown as ready has a policy.
THEOREM ReadyHasPolicy == Spec => []ReadyMeansPolicy
<1>1. IInv => ReadyMeansPolicy
  BY DEF IInv, PageInv, ReadyMeansPolicy, Page, Ownership, Has
<1> QED BY <1>1, Invariance, PTL

\* lockPolicy: the wizard never asks for what the server refuses its caller.
THEOREM LocksByCreator == Spec => []LockByCreator
<1>1. IInv => LockByCreator
  BY KindsAre DEF IInv, CallInv, CallsBy, LockSound, LockByCreator, MayLock, Has
<1> QED BY <1>1, Invariance, PTL

\* The poller's effect: no other dWallet's balance is ever written.
THEOREM BalancesOwn == Spec => BalanceIsOwn
<1>1. IInv /\ [Next]_wizardVars => [SetBalance /\ balance' # balance => poll.id = dwallet.id]_wizardVars
  BY DEF IInv, PageInv, SetBalance, PollCurrent
<1> QED BY <1>1, Invariance, PTL DEF Spec, BalanceIsOwn
====
