---- MODULE MockStore ----
(***************************************************************************)
(* The key file of the mock SDK (sdk/src/mock-store.ts) and the two calls  *)
(* that write it, createDWallet and lockPolicy (sdk/src/ika.ts).  Every    *)
(* process of the application server and every script has the same file:   *)
(* set() reads all of it, changes one entry and renames a new file over    *)
(* it.  A process runs set() without an await; other processes run between *)
(* its read and its rename.                                                *)
(*                                                                         *)
(* dWallets are numbered as they are created.  A key held by the MPC       *)
(* network and one held in the file differ in nothing here: module         *)
(* IkaClient tells them apart.  What a key generation nobody waits for any *)
(* more leaves in the file is an entry that nobody asks for, like those of *)
(* other users.                                                            *)
(*                                                                         *)
(* Bounds: MaxDwallets.                                                    *)
(***************************************************************************)
EXTENDS Naturals

CONSTANTS
    Procs,        \* processes that share the file
    Stranger,     \* another user's wallet
    Wallets,      \* Solana wallets, as creators and callers
    None,
    MaxDwallets

VARIABLES
    file,       \* dWallet -> its entry
    proc,       \* process -> the set() it is in
    created,    \* ids drawn so far
    clobbered,  \* some set() wrote over what another had written (history)
    call        \* the server actions the browser waits for, one of each kind

DWallets == 1..MaxDwallets
storeVars == <<file, proc, created, clobbered>>

Kinds  == {"create", "lock"}
NoCall == [by |-> None, id |-> 0, max |-> 0, at |-> "idle"]
Done(kind, id, at) == call' = [call EXCEPT ![kind].id = id, ![kind].at = at]

\* The process is through with everything but the rename.
Setting(p, for, id, entry) ==
    proc' = [proc EXCEPT ![p] = [busy |-> TRUE, for |-> for, id |-> id, entry |-> entry, read |-> file]]

NotSetting == [busy |-> FALSE, for |-> None, id |-> 0, entry |-> None, read |-> <<>>]

StoreInit ==
    /\ file = [d \in DWallets |-> None]
    /\ proc = [p \in Procs |-> NotSetting]
    /\ created = 0
    /\ clobbered = FALSE

NewDwallet(p, for, creator) ==
    /\ created < MaxDwallets
    /\ created' = created + 1
    /\ Setting(p, for, created + 1, [creator |-> creator, policy |-> 0])
    /\ UNCHANGED <<file, clobbered>>

CreateDWallet(p) ==
    /\ ~ proc[p].busy /\ call["create"].at = "asked"
    /\ NewDwallet(p, "create", call["create"].by)
    /\ Done("create", created + 1, "served")

\* Another user's, or a script's.
OtherCreates(p) ==
    /\ ~ proc[p].busy
    /\ NewDwallet(p, None, Stranger)
    /\ UNCHANGED call

\* The caller must be the wallet the entry was created for.
MayLock(c) == file[c.id] # None /\ file[c.id].creator = c.by

LockPolicy(p) ==
    LET c == call["lock"] IN
    /\ ~ proc[p].busy /\ c.at = "asked"
    /\ IF MayLock(c)
       THEN /\ Setting(p, "lock", c.id, [file[c.id] EXCEPT !.policy = c.max])
            /\ Done("lock", c.id, "served")
       ELSE /\ Done("lock", c.id, "failed")
            /\ UNCHANGED proc
    /\ UNCHANGED <<file, created, clobbered>>

\* Nobody waits for these calls any more; the processes go on with them.
Abandon(calls) ==
    /\ call' = [k \in Kinds |-> IF k \in calls THEN NoCall ELSE call[k]]
    /\ proc' = [p \in Procs |-> IF proc[p].for \in calls THEN [proc[p] EXCEPT !.for = None] ELSE proc[p]]
    /\ UNCHANGED <<file, created, clobbered>>

\* The rename.  The call that asked for it, if it still waits, is answered.
Rename(p) ==
    /\ proc[p].busy
    /\ file' = [proc[p].read EXCEPT ![proc[p].id] = proc[p].entry]
    /\ clobbered' = (clobbered \/ proc[p].read # file)
    /\ proc' = [proc EXCEPT ![p] = NotSetting]
    /\ IF proc[p].for = None THEN UNCHANGED call
       ELSE Done(proc[p].for, proc[p].id, "answered")
    /\ UNCHANGED created

StoreStep ==
    \E p \in Procs : CreateDWallet(p) \/ LockPolicy(p) \/ OtherCreates(p) \/ Rename(p)
====
