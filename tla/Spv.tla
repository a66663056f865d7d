---- MODULE Spv ----
(***************************************************************************)
(* A proof that a payment is in a Bitcoin block: fetchSpvProof             *)
(* (sdk/src/btc.ts) builds it from three answers of the esplora relay, and *)
(* verify_merkle_inclusion (programs/obsidian-core/src/spv.rs) walks it    *)
(* inside finalize_settlement.                                             *)
(*                                                                         *)
(* sha256d is a constructor: nodes are terms, so that two nodes are equal  *)
(* only if they were built from the same transactions.  Of a header only   *)
(* its merkle root is kept.  Of the bytes after the header the length      *)
(* prefix is kept byte by byte, and a step of the path (32 bytes of        *)
(* sibling, one of direction) is one element.                              *)
(*                                                                         *)
(* What the code computes in a loop over the levels of the tree is a       *)
(* function of the level here: f[k] is the value after k iterations.       *)
(*                                                                         *)
(* Bounds: blocks of at most MaxTxs transactions, MaxReorgs replacements   *)
(* of the block.                                                           *)
(***************************************************************************)
EXTENDS Integers, Sequences

CONSTANTS
    Txids,      \* transactions
    Payment,    \* the one whose inclusion is proved
    MaxTxs, MaxReorgs, None

TwoBytes == 65535

\* No block has as many transactions as a two-byte number counts: its limit
\* of four million weight units leaves room for less than 17 000.
ASSUME SpvAssumption ==
    /\ Payment \in Txids /\ None \notin Txids
    /\ None \notin {"bare", "verified", "refused"}
    /\ MaxTxs \in Nat \ {0} /\ MaxTxs <= TwoBytes
    /\ MaxReorgs \in Nat

VARIABLES
    block,    \* the block of the chain at the payment's height
    pc,       \* the keeper's next step
    answer,   \* the relay's position and siblings
    header,   \* the block whose header the relay gave
    proof,    \* btc_tx_proof: the blob after the txid, None if the txid is bare
    verdict,  \* what finalize_settlement did
    reorgs

vars == <<block, pc, answer, header, proof, verdict, reorgs>>

Blocks == {b \in UNION {[1..n -> Txids] : n \in 1..MaxTxs} :
              \A i, j \in DOMAIN b : b[i] = b[j] => i = j}

-----------------------------------------------------------------------------
(* Bitcoin's merkle tree *)

Leaf(t)    == <<t>>
Hash(l, r) == <<l, r>>

\* The level above: the last node of an odd level is its own sibling.
Paired(level) ==
    [i \in 1..((Len(level) + 1) \div 2) |->
        Hash(level[2 * i - 1], level[IF 2 * i <= Len(level) THEN 2 * i ELSE 2 * i - 1])]
Levels(b) ==
    LET level[k \in 0..Len(b)] ==
            IF k = 0 THEN [i \in 1..Len(b) |-> Leaf(b[i])] ELSE Paired(level[k - 1])
    IN  level
Depth(b) == CHOOSE k \in 0..Len(b) : Len(Levels(b)[k]) = 1
                 /\ \A j \in 0..(k - 1) : Len(Levels(b)[j]) # 1
Root(b)  == Levels(b)[Depth(b)][1]

Position(b, t) == CHOOSE i \in 0..(Len(b) - 1) : b[i + 1] = t
\* The position in each of the levels 0..n.
Shifted(pos, n) == LET at[k \in 0..n] == IF k = 0 THEN pos ELSE at[k - 1] \div 2 IN at

SiblingOf(level, i) ==
    LET s == IF i % 2 = 0 THEN i + 1 ELSE i - 1
    IN  level[1 + IF s < Len(level) THEN s ELSE i]
\* GET /tx/<txid>/merkle-proof: one sibling for each level below the root.
Siblings(b, t) ==
    [k \in 1..Depth(b) |->
        SiblingOf(Levels(b)[k - 1], Shifted(Position(b, t), Depth(b))[k - 1])]

-----------------------------------------------------------------------------
(* The blob, as the keeper writes it *)

\* MUTANT: the position is shifted but not masked.
MutDirection(i) == i
\* 0 if the sibling is on the right.
Direction(i) == i % 2

\* The keeper shifts the position as it goes.
Path(pos, siblings) ==
    [k \in 1..Len(siblings) |->
        [sibling |-> siblings[k], dir |-> Direction(Shifted(pos, Len(siblings))[k - 1])]]

\* Bitcoin's variable-length integer, up to two bytes.
WriteVarint(n) == IF n < 253 THEN <<n>> ELSE <<253, n % 256, n \div 256>>

Blob(root, pos, siblings) ==
    [root |-> root,
     rest |-> WriteVarint(Len(siblings)) \o Path(pos, siblings)]

-----------------------------------------------------------------------------
(* The blob, as the program reads it *)

\* The value and how many bytes it took; the 5 and 9 byte forms are not in
\* any blob the keeper writes.
ReadVarint(bytes) ==
    IF bytes[1] < 253 THEN [value |-> bytes[1], size |-> 1]
    ELSE [value |-> bytes[2] + 256 * bytes[3], size |-> 3]

\* MUTANT: the root is not compared.
MutReaches(node, root) == TRUE
Reaches(node, root) == node = root

Joined(node, step) == IF step.dir = 0 THEN Hash(node, step.sibling)
                      ELSE Hash(step.sibling, node)
Walk(txid, path) ==
    LET node[k \in 0..Len(path)] ==
            IF k = 0 THEN Leaf(txid) ELSE Joined(node[k - 1], path[k])
    IN  node

VerifyMerkleInclusion(txid, blob) ==
    LET n == ReadVarint(blob.rest)
        path == SubSeq(blob.rest, n.size + 1, Len(blob.rest))
    IN  /\ n.value >= 1
        /\ Len(blob.rest) = n.size + n.value
        /\ \A k \in 1..n.value : path[k].dir \in {0, 1}
        /\ Reaches(Walk(txid, path)[n.value], blob.root)

-----------------------------------------------------------------------------
Init ==
    /\ block \in Blocks
    /\ pc = "path"
    /\ answer = None /\ header = None /\ proof = None /\ verdict = None
    /\ reorgs = 0

\* null at any step: the bare txid is recorded.
GiveUp == pc' = "finalize" /\ UNCHANGED <<block, answer, header, proof, verdict, reorgs>>

\* MUTANT: a block of one transaction is given a path too.
MutHasPath(b, t) == \E i \in DOMAIN b : b[i] = t
\* An unconfirmed payment has no proof, and the path of the only transaction
\* of its block is empty.
HasPath(b, t) == Depth(b) > 0 /\ \E i \in DOMAIN b : b[i] = t

FetchPath ==
    /\ pc = "path"
    /\ \/ /\ HasPath(block, Payment)
          /\ answer' = [pos |-> Position(block, Payment), siblings |-> Siblings(block, Payment)]
          /\ pc' = "header"
          /\ UNCHANGED <<block, header, proof, verdict, reorgs>>
       \/ GiveUp

\* /block-height and /block/<hash>/header: a hash names its block for ever,
\* so the block is fixed when its height is asked for.
FetchHeader ==
    /\ pc = "header"
    /\ \/ /\ header' = block
          /\ pc' = "build"
          /\ UNCHANGED <<block, answer, proof, verdict, reorgs>>
       \/ GiveUp

BuildBlob ==
    /\ pc = "build"
    /\ proof' = Blob(Root(header), answer.pos, answer.siblings)
    /\ pc' = "finalize"
    /\ UNCHANGED <<block, answer, header, verdict, reorgs>>

FinalizeSettlement ==
    /\ pc = "finalize"
    /\ verdict' = IF proof = None THEN "bare"
                  ELSE IF VerifyMerkleInclusion(Payment, proof) THEN "verified" ELSE "refused"
    /\ pc' = "done"
    /\ UNCHANGED <<block, answer, header, proof, reorgs>>

Reorg ==
    /\ pc \in {"path", "header"}
    /\ reorgs < MaxReorgs
    /\ reorgs' = reorgs + 1
    /\ block' \in Blocks \ {block}
    /\ UNCHANGED <<pc, answer, header, proof, verdict>>

Next == FetchPath \/ FetchHeader \/ BuildBlob \/ FinalizeSettlement \/ Reorg

Spec == Init /\ [][Next]_vars

-----------------------------------------------------------------------------
SpvTypeOK ==
    /\ block \in Blocks
    /\ pc \in {"path", "header", "build", "finalize", "done"}
    /\ header \in Blocks \cup {None}
    /\ verdict \in {None, "bare", "verified", "refused"}
    /\ reorgs \in 0..MaxReorgs
    /\ proof # None => LET n == ReadVarint(proof.rest) IN
        /\ Len(proof.rest) = n.size + n.value
        /\ n.value >= 1 /\ 2^(n.value - 1) < MaxTxs
        /\ \A k \in (n.size + 1)..Len(proof.rest) : proof.rest[k].dir \in {0, 1}

\* spv_verified is never wrong: a proof that the program accepts shows that
\* the payment is in the block whose header it carries, even if the chain
\* was reorganised between the keeper's reads.
VerifiedIncluded ==
    verdict = "verified" => \E i \in DOMAIN header : header[i] = Payment

\* Whenever the three answers are of one block, the walk of the program
\* undoes what the keeper wrote, for every block size and position: a paid
\* match is not refused, and so SettleFailed, for its proof.
RefusedOnlyAfterReorg == verdict = "refused" => reorgs > 0
====
