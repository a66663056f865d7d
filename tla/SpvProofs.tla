---- MODULE SpvProofs ----
(***************************************************************************)
(* Theorems about the inclusion proof, for blocks of any transactions and  *)
(* of any size a block can have: the program reads what the keeper wrote,  *)
(* its walk climbs the tree that the relay's siblings were taken from, and *)
(* a walk that reaches a root has started at a leaf of that root's block.  *)
(***************************************************************************)
EXTENDS Spv, Induction, SequenceTheorems

-----------------------------------------------------------------------------
(* What the loops compute *)

LEMMA ListLength ==
    ASSUME NEW n \in Nat, NEW f, f = [i \in 1..n |-> f[i]]
    PROVE  Len(f) = n /\ f \in Seq({f[i] : i \in 1..n})
<1> DEFINE S == {f[i] : i \in 1..n}
<1>1. f \in [1..n -> S]
  OBVIOUS
<1> HIDE DEF S
<1>2. f \in Seq(S)
  BY <1>1
<1>3. DOMAIN f = 1..Len(f) /\ Len(f) \in Nat
  BY <1>2, LenProperties
<1>4. DOMAIN f = 1..n
  BY <1>1
<1>5. Len(f) = n
  BY <1>3, <1>4
<1> QED  BY <1>2, <1>5 DEF S

Leaves(b) == [i \in 1..Len(b) |-> Leaf(b[i])]

LEMMA LevelsStep ==
    ASSUME NEW b, Len(b) \in Nat
    PROVE  /\ Levels(b)[0] = Leaves(b)
           /\ \A k \in 1..Len(b) : Levels(b)[k] = Paired(Levels(b)[k - 1])
<1> DEFINE L == Leaves(b)
           Step(f, n) == [k \in 0..n |-> IF k = 0 THEN L ELSE Paired(f[k - 1])]
           Upto == {n \in Nat : \E f : f = Step(f, n)}
<1> HIDE DEF L
<1>1. 0 \in Upto
  <2>1. [k \in 0..0 |-> L] = Step([k \in 0..0 |-> L], 0)
    OBVIOUS
  <2> QED  BY <2>1
<1>2. ASSUME NEW n \in Nat, n \in Upto PROVE n + 1 \in Upto
  <2>1. PICK f : f = Step(f, n)
    BY <1>2
  <2> DEFINE g == [k \in 0..(n + 1) |-> IF k <= n THEN f[k] ELSE Paired(f[n])]
  <2>2. \A k \in 0..n : g[k] = IF k = 0 THEN L ELSE Paired(f[k - 1])
    BY <2>1
  <2>3. \A k \in 0..n : g[k] = f[k]
    BY <2>1
  <2>4. \A k \in 0..(n + 1) : g[k] = IF k = 0 THEN L ELSE Paired(g[k - 1])
    <3> SUFFICES ASSUME NEW k \in 0..(n + 1)
                 PROVE  g[k] = IF k = 0 THEN L ELSE Paired(g[k - 1])
      OBVIOUS
    <3>1. CASE k \in 0..n
      <4>1. k # 0 => k - 1 \in 0..n
        BY <3>1
      <4>2. g[k] = IF k = 0 THEN L ELSE Paired(f[k - 1])
        BY <2>2, <3>1
      <4>3. k # 0 => g[k - 1] = f[k - 1]
        BY <2>3, <4>1
      <4> HIDE DEF g
      <4> QED  BY <4>2, <4>3
    <3>2. CASE k = n + 1
      <4>1. g[k] = Paired(f[n]) /\ g[k - 1] = f[n] /\ k # 0
        <5>1. ~(n + 1 <= n) /\ (n + 1) - 1 = n /\ n \in 0..n /\ n + 1 # 0
          OBVIOUS
        <5>2. g[n + 1] = Paired(f[n])
          BY <5>1
        <5> QED  BY <2>3, <3>2, <5>1, <5>2
      <4> HIDE DEF g
      <4> QED  BY <4>1
    <3> QED  BY <3>1, <3>2
  <2>5. g = Step(g, n + 1)
    <3>1. DOMAIN g = 0..(n + 1)
      OBVIOUS
    <3>2. g = [k \in 0..(n + 1) |-> g[k]]
      OBVIOUS
    <3> HIDE DEF g
    <3> QED  BY <2>4, <3>2
  <2> HIDE DEF g
  <2> QED  BY <2>5
<1>3. Nat \subseteq Upto
  <2> HIDE DEF Upto
  <2> QED  BY <1>1, <1>2, SetInduction
<1>4. PICK f : f = Step(f, Len(b))
  BY <1>3
<1>5. Levels(b) = CHOOSE h : h = Step(h, Len(b))
  BY DEF Levels, L, Leaves
<1>6. Levels(b) = Step(Levels(b), Len(b))
  <2> HIDE DEF Step
  <2> QED  BY <1>4, <1>5
<1> QED  BY <1>6 DEF L

LEMMA ShiftedStep ==
    ASSUME NEW pos, NEW N \in Nat
    PROVE  /\ Shifted(pos, N)[0] = pos
           /\ \A k \in 1..N : Shifted(pos, N)[k] = Shifted(pos, N)[k - 1] \div 2
<1> DEFINE Step(f, n) == [k \in 0..n |-> IF k = 0 THEN pos ELSE f[k - 1] \div 2]
           Upto == {n \in Nat : \E f : f = Step(f, n)}
<1>1. 0 \in Upto
  <2>1. [k \in 0..0 |-> pos] = Step([k \in 0..0 |-> pos], 0)
    OBVIOUS
  <2> QED  BY <2>1
<1>2. ASSUME NEW n \in Nat, n \in Upto PROVE n + 1 \in Upto
  <2>1. PICK f : f = Step(f, n)
    BY <1>2
  <2> DEFINE g == [k \in 0..(n + 1) |-> IF k <= n THEN f[k] ELSE f[n] \div 2]
  <2>2. \A k \in 0..n : g[k] = IF k = 0 THEN pos ELSE f[k - 1] \div 2
    BY <2>1
  <2>3. \A k \in 0..n : g[k] = f[k]
    BY <2>1
  <2>4. \A k \in 0..(n + 1) : g[k] = IF k = 0 THEN pos ELSE g[k - 1] \div 2
    <3> SUFFICES ASSUME NEW k \in 0..(n + 1)
                 PROVE  g[k] = IF k = 0 THEN pos ELSE g[k - 1] \div 2
      OBVIOUS
    <3>1. CASE k \in 0..n
      <4>1. k # 0 => k - 1 \in 0..n
        BY <3>1
      <4>2. g[k] = IF k = 0 THEN pos ELSE f[k - 1] \div 2
        BY <2>2, <3>1
      <4>3. k # 0 => g[k - 1] = f[k - 1]
        BY <2>3, <4>1
      <4> HIDE DEF g
      <4> QED  BY <4>2, <4>3
    <3>2. CASE k = n + 1
      <4>1. ~(n + 1 <= n) /\ (n + 1) - 1 = n /\ n \in 0..n /\ n + 1 # 0
        OBVIOUS
      <4>2. g[n + 1] = f[n] \div 2
        BY <4>1
      <4>3. g[k] = f[n] \div 2 /\ g[k - 1] = f[n] /\ k # 0 /\ k - 1 = n /\ k = n + 1
        BY <2>3, <3>2, <4>1, <4>2
      <4> HIDE DEF g
      <4> QED  BY <4>3
    <3> QED  BY <3>1, <3>2
  <2>5. g = Step(g, n + 1)
    <3>1. g = [k \in 0..(n + 1) |-> g[k]]
      OBVIOUS
    <3> HIDE DEF g
    <3> QED  BY <2>4, <3>1
  <2> HIDE DEF g
  <2> QED  BY <2>5
<1>3. Nat \subseteq Upto
  <2> HIDE DEF Upto
  <2> QED  BY <1>1, <1>2, SetInduction
<1>4. PICK f : f = Step(f, N)
  BY <1>3
<1>5. Shifted(pos, N) = CHOOSE h : h = Step(h, N)
  BY DEF Shifted
<1>6. Shifted(pos, N) = Step(Shifted(pos, N), N)
  <2> HIDE DEF Step
  <2> QED  BY <1>4, <1>5
<1> QED  BY <1>6

LEMMA WalkStep ==
    ASSUME NEW txid, NEW path, Len(path) \in Nat
    PROVE  /\ Walk(txid, path)[0] = Leaf(txid)
           /\ \A k \in 1..Len(path) : Walk(txid, path)[k] = Joined(Walk(txid, path)[k - 1], path[k])
<1> DEFINE Step(f, n) == [k \in 0..n |-> IF k = 0 THEN Leaf(txid) ELSE Joined(f[k - 1], path[k])]
           Upto == {n \in Nat : \E f : f = Step(f, n)}
<1>1. 0 \in Upto
  <2>1. [k \in 0..0 |-> Leaf(txid)] = Step([k \in 0..0 |-> Leaf(txid)], 0)
    OBVIOUS
  <2> QED  BY <2>1
<1>2. ASSUME NEW n \in Nat, n \in Upto PROVE n + 1 \in Upto
  <2>1. PICK f : f = Step(f, n)
    BY <1>2
  <2> DEFINE g == [k \in 0..(n + 1) |-> IF k <= n THEN f[k] ELSE Joined(f[n], path[(n + 1)])]
  <2>2. \A k \in 0..n : g[k] = IF k = 0 THEN Leaf(txid) ELSE Joined(f[k - 1], path[k])
    BY <2>1
  <2>3. \A k \in 0..n : g[k] = f[k]
    BY <2>1
  <2>4. \A k \in 0..(n + 1) : g[k] = IF k = 0 THEN Leaf(txid) ELSE Joined(g[k - 1], path[k])
    <3> SUFFICES ASSUME NEW k \in 0..(n + 1)
                 PROVE  g[k] = IF k = 0 THEN Leaf(txid) ELSE Joined(g[k - 1], path[k])
      OBVIOUS
    <3>1. CASE k \in 0..n
      <4>1. k # 0 => k - 1 \in 0..n
        BY <3>1
      <4>2. g[k] = IF k = 0 THEN Leaf(txid) ELSE Joined(f[k - 1], path[k])
        BY <2>2, <3>1
      <4>3. k # 0 => g[k - 1] = f[k - 1]
        BY <2>3, <4>1
      <4> HIDE DEF g
      <4> QED  BY <4>2, <4>3
    <3>2. CASE k = n + 1
      <4>1. ~(n + 1 <= n) /\ (n + 1) - 1 = n /\ n \in 0..n /\ n + 1 # 0
        OBVIOUS
      <4>2. g[n + 1] = Joined(f[n], path[(n + 1)])
        BY <4>1
      <4>3. g[k] = Joined(f[n], path[(n + 1)]) /\ g[k - 1] = f[n] /\ k # 0 /\ k - 1 = n /\ k = n + 1
        BY <2>3, <3>2, <4>1, <4>2
      <4> HIDE DEF g
      <4> QED  BY <4>3
    <3> QED  BY <3>1, <3>2
  <2>5. g = Step(g, n + 1)
    <3>1. g = [k \in 0..(n + 1) |-> g[k]]
      OBVIOUS
    <3> HIDE DEF g
    <3> QED  BY <2>4, <3>1
  <2> HIDE DEF g
  <2> QED  BY <2>5
<1>3. Nat \subseteq Upto
  <2> HIDE DEF Upto
  <2> QED  BY <1>1, <1>2, SetInduction
<1>4. PICK f : f = Step(f, Len(path))
  BY <1>3
<1>5. Walk(txid, path) = CHOOSE h : h = Step(h, Len(path))
  BY DEF Walk
<1>6. Walk(txid, path) = Step(Walk(txid, path), Len(path))
  <2> HIDE DEF Step
  <2> QED  BY <1>4, <1>5
<1> QED  BY <1>6

-----------------------------------------------------------------------------
(* The tree *)

LEMMA PairedLength ==
    ASSUME NEW level, Len(level) \in Nat
    PROVE  /\ Len(Paired(level)) = (Len(level) + 1) \div 2
           /\ \A i \in 1..((Len(level) + 1) \div 2) : Paired(level)[i] =
                  Hash(level[2 * i - 1],
                       level[IF 2 * i <= Len(level) THEN 2 * i ELSE 2 * i - 1])
<1> DEFINE n == (Len(level) + 1) \div 2
<1>1. n \in Nat
  OBVIOUS
<1>2. Paired(level) = [i \in 1..n |-> Paired(level)[i]]
  BY DEF Paired
<1>3. Len(Paired(level)) = n
  <2> HIDE DEF n
  <2> QED  BY <1>1, <1>2, ListLength
<1>4. \A i \in 1..n : Paired(level)[i] =
          Hash(level[2 * i - 1],
               level[IF 2 * i <= Len(level) THEN 2 * i ELSE 2 * i - 1])
  BY DEF Paired
<1> QED  BY <1>3, <1>4

LEMMA BlockLength ==
    ASSUME NEW b \in Blocks
    PROVE  Len(b) \in 1..MaxTxs /\ DOMAIN b = 1..Len(b) /\ Len(b) \in Nat
<1>1. PICK n \in 1..MaxTxs : b \in [1..n -> Txids]
  BY DEF Blocks
<1>2. n \in Nat
  BY SpvAssumption
<1>3. b = [i \in 1..n |-> b[i]] /\ DOMAIN b = 1..n
  BY <1>1
<1>4. Len(b) = n
  BY <1>2, <1>3, ListLength
<1> QED  BY <1>1, <1>2, <1>3, <1>4

\* The provers know no exponentials; the number of subsets is one.
LEMMA Doubling ==
    /\ 2^0 = 1
    /\ \A k \in Nat : 2^k \in Nat \ {0} /\ 2^(k + 1) = 2 * 2^k
<1>1. \A k \in Nat : /\ IsFiniteSet(SUBSET (1..k))
                     /\ Cardinality(SUBSET (1..k)) = 2^k /\ 2^k \in Nat
  <2> SUFFICES ASSUME NEW k \in Nat
               PROVE  /\ IsFiniteSet(SUBSET (1..k))
                      /\ Cardinality(SUBSET (1..k)) = 2^k /\ 2^k \in Nat
    OBVIOUS
  <2>1. IsFiniteSet(1..k) /\ Cardinality(1..k) = k
    BY FS_Interval
  <2> QED  BY <2>1, FS_SUBSET, FS_CardinalityType
<1>2. 2^0 = 1
  <2>1. SUBSET (1..0) = {{}}
    OBVIOUS
  <2>2. Cardinality({{}}) = 1
    BY FS_Singleton
  <2> QED  BY <1>1, <2>1, <2>2
<1>3. ASSUME NEW k \in Nat PROVE 2^(k + 1) = 2 * 2^k
  <2> DEFINE Without == SUBSET (1..k)
             With == {A \cup {k + 1} : A \in Without}
  <2>1. SUBSET (1..(k + 1)) = Without \cup With
    <3>1. ASSUME NEW A \in SUBSET (1..(k + 1)), A \notin Without PROVE A \in With
      <4>1. k + 1 \in A
        BY <3>1
      <4>2. A \ {k + 1} \in Without /\ A = (A \ {k + 1}) \cup {k + 1}
        BY <4>1
      <4> QED  BY <4>2
    <3>2. Without \cup With \subseteq SUBSET (1..(k + 1))
      <4>1. 1..k \subseteq 1..(k + 1) /\ k + 1 \in 1..(k + 1)
        OBVIOUS
      <4>2. \A A \in Without : A \subseteq 1..(k + 1) /\ A \cup {k + 1} \subseteq 1..(k + 1)
        BY <4>1
      <4> QED  BY <4>2
    <3>3. SUBSET (1..(k + 1)) \subseteq Without \cup With
      BY <3>1
    <3> HIDE DEF Without, With
    <3> QED  BY <3>2, <3>3
  <2>2. Without \cap With = {}
    <3>1. \A A \in With : k + 1 \in A
      OBVIOUS
    <3>2. \A A \in Without : k + 1 \notin A
      OBVIOUS
    <3> HIDE DEF Without, With
    <3> QED  BY <3>1, <3>2
  <2>3. Cardinality(With) = Cardinality(Without) /\ IsFiniteSet(With)
    <3> DEFINE f == [A \in Without |-> A \cup {k + 1}]
    <3>1. f \in Bijection(Without, With)
      <4>1. f \in Surjection(Without, With)
        BY DEF Surjection
      <4>2. f \in Injection(Without, With)
        <5>1. ASSUME NEW A \in Without, NEW B \in Without, f[A] = f[B] PROVE A = B
          <6>1. A \cup {k + 1} = B \cup {k + 1} /\ k + 1 \notin A /\ k + 1 \notin B
            BY <5>1
          <6> QED  BY <6>1
        <5>2. f \in [Without -> With]
          OBVIOUS
        <5> HIDE DEF f, Without, With
        <5> QED  BY <5>1, <5>2 DEF Injection, IsInjective
      <4> QED  BY <4>1, <4>2 DEF Bijection
    <3>2. ExistsBijection(Without, With)
      BY <3>1 DEF ExistsBijection
    <3>3. IsFiniteSet(Without)
      BY <1>1
    <3> HIDE DEF Without, With
    <3> QED  BY <3>2, <3>3, FS_Bijection
  <2>4. Cardinality(Without \cup With) = Cardinality(Without) + Cardinality(With)
    <3>1. IsFiniteSet(Without)
      BY <1>1
    <3> HIDE DEF Without, With
    <3>2. Cardinality(Without \cup With) =
              Cardinality(Without) + Cardinality(With) - Cardinality(Without \cap With)
      BY <3>1, <2>3, FS_Union
    <3>3. Cardinality(Without \cap With) = 0
      BY <2>2, FS_EmptySet
    <3>4. Cardinality(Without) \in Nat /\ Cardinality(With) \in Nat
      BY <3>1, <2>3, FS_CardinalityType
    <3> QED  BY <3>2, <3>3, <3>4
  <2>5. Cardinality(Without) = 2^k /\ Cardinality(SUBSET (1..(k + 1))) = 2^(k + 1)
    <3>1. k + 1 \in Nat
      OBVIOUS
    <3> QED  BY <1>1, <3>1, Zenon
  <2> HIDE DEF Without, With
  <2>6. 2^k \in Nat
    BY <1>1
  <2>7. 2^(k + 1) = 2^k + 2^k
    BY <2>1, <2>3, <2>4, <2>5, Zenon
  <2> QED  BY <2>6, <2>7
<1>4. \A k \in Nat : 2^k # 0
  <2> SUFFICES ASSUME NEW k \in Nat PROVE Cardinality(SUBSET (1..k)) # 0
    BY <1>1
  <2>1. {} \in SUBSET (1..k)
    OBVIOUS
  <2> QED  BY <1>1, <2>1, FS_EmptySet
<1> QED  BY <1>1, <1>2, <1>3, <1>4

\* Each level has half the nodes of the one below it, rounded up.
LEMMA LevelWidths ==
    ASSUME NEW b \in Blocks
    PROVE  \A k \in 0..Len(b) :
               LET w == Len(Levels(b)[k]) IN
               /\ w \in Nat \ {0}
               /\ w = 1 \/ w <= Len(b) - k
               /\ 2^k * (w - 1) <= Len(b) - 1
<1> DEFINE n == Len(b)
           W == [k \in 0..n |-> Len(Levels(b)[k])]
           Fine == {k \in Nat : k <= n => /\ W[k] \in Nat \ {0}
                                          /\ W[k] = 1 \/ W[k] <= n - k
                                          /\ 2^k * (W[k] - 1) <= n - 1}
<1>0. n \in Nat /\ n >= 1
  BY BlockLength, SpvAssumption
<1>1. W[0] = n
  <2>1. Levels(b)[0] = Leaves(b)
    BY BlockLength, LevelsStep
  <2>2. Leaves(b) = [i \in 1..n |-> Leaves(b)[i]]
    BY DEF Leaves
  <2> QED  BY <1>0, <2>1, <2>2, ListLength
<1>2. \A k \in 0..(n - 1) : W[k] \in Nat => W[k + 1] = (W[k] + 1) \div 2
  <2> SUFFICES ASSUME NEW k \in 0..(n - 1), W[k] \in Nat
               PROVE  W[k + 1] = (W[k] + 1) \div 2
    OBVIOUS
  <2>1. k + 1 \in 1..n /\ k + 1 \in 0..n /\ k \in 0..n /\ (k + 1) - 1 = k
    BY <1>0
  <2>2. Levels(b)[k + 1] = Paired(Levels(b)[k])
    BY <1>0, <2>1, LevelsStep
  <2>3. W[k] = Len(Levels(b)[k]) /\ W[k + 1] = Len(Levels(b)[k + 1])
    BY <2>1
  <2> QED  BY <2>2, <2>3, PairedLength
<1> HIDE DEF n, W
<1>3. 0 \in Fine
  BY <1>0, <1>1, Doubling
<1>4. ASSUME NEW k \in Nat, k \in Fine PROVE k + 1 \in Fine
  <2> SUFFICES ASSUME k + 1 <= n
               PROVE  /\ W[k + 1] \in Nat \ {0}
                      /\ W[k + 1] = 1 \/ W[k + 1] <= n - (k + 1)
                      /\ 2^(k + 1) * (W[k + 1] - 1) <= n - 1
    OBVIOUS
  <2>0. W[k] \in Nat \ {0} /\ (W[k] = 1 \/ W[k] <= n - k)
    BY <1>0, <1>4
  <2>1. 2^k * (W[k] - 1) <= n - 1
    BY <1>0, <1>4
  <2>2. k \in 0..(n - 1)
    BY <1>0
  <2> DEFINE v == W[k]
             w == W[k + 1]
  <2>a. v \in Nat /\ v >= 1 /\ (v = 1 \/ v <= n - k)
    BY <1>0, <2>0
  <2>3. w = (v + 1) \div 2
    BY <1>2, <2>2, <2>a
  <2>4. 2^k \in Nat /\ 2^(k + 1) = 2 * 2^k
    BY Doubling
  <2> HIDE DEF v, w
  <2>b. w \in Nat \ {0}
    BY <2>3, <2>a
  <2>c. w = 1 \/ w <= n - (k + 1)
    BY <1>0, <2>3, <2>a
  <2>d. 2 * (w - 1) <= v - 1
    BY <2>3, <2>a
  <2>5. W[k + 1] \in Nat \ {0}
    BY <2>b DEF w
  <2>6. W[k + 1] = 1 \/ W[k + 1] <= n - (k + 1)
    BY <2>c DEF w
  <2>8. 2^(k + 1) * (W[k + 1] - 1) <= n - 1
    <3> DEFINE x == 2^k
               y == w - 1
               z == v - 1
    <3>1. x \in Nat /\ y \in Nat /\ z \in Nat /\ 2 * y <= z /\ x * z <= n - 1
      <4>1. 2^k * (v - 1) <= n - 1
        BY <2>1 DEF v
      <4> QED  BY <4>1, <2>4, <2>a, <2>b, <2>d
    <3>2. 2^(k + 1) = 2 * x
      BY <2>4
    <3> HIDE DEF x, y, z
    <3>3. x * (z - 2 * y) \in Nat
      BY <3>1
    <3>4. (2 * x) * y <= x * z
      BY <3>1, <3>3
    <3>5. (2 * x) * y \in Nat /\ x * z \in Nat
      BY <3>1
    <3>6. (2 * x) * y <= n - 1
      BY <1>0, <3>1, <3>4, <3>5
    <3> QED  BY <3>2, <3>6 DEF y, w
  <2> QED  BY <2>5, <2>6, <2>8
<1>5. Nat \subseteq Fine
  <2> HIDE DEF Fine
  <2> QED  BY <1>3, <1>4, SetInduction
<1>6. \A k \in 0..n : /\ W[k] \in Nat \ {0}
                      /\ W[k] = 1 \/ W[k] <= n - k
                      /\ 2^k * (W[k] - 1) <= n - 1
  BY <1>0, <1>5
<1> HIDE DEF Fine
<1> QED  BY <1>6 DEF n, W

\* The root is at most as high as the block is wide, and the path to it is
\* logarithmic.
LEMMA DepthFound ==
    ASSUME NEW b \in Blocks
    PROVE  /\ Depth(b) \in 0..Len(b) /\ Len(Levels(b)[Depth(b)]) = 1
           /\ Depth(b) > 0 => 2^(Depth(b) - 1) < MaxTxs
<1> DEFINE n == Len(b)
           W(k) == Len(Levels(b)[k])
           Tops == {k \in 0..n : W(k) = 1}
<1>0. n \in Nat /\ n >= 1 /\ n <= MaxTxs /\ MaxTxs \in Nat
  BY BlockLength, SpvAssumption
<1>1. n - 1 \in Tops
  <2>1. n - 1 \in 0..n /\ n - (n - 1) = 1
    BY <1>0
  <2>2. W(n - 1) \in Nat \ {0} /\ (W(n - 1) = 1 \/ W(n - 1) <= n - (n - 1))
    BY <2>1, LevelWidths
  <2>3. W(n - 1) = 1
    <3> HIDE DEF W
    <3> QED  BY <2>1, <2>2
  <2> QED  BY <2>1, <2>3
<1>2. PICK k \in Tops : \A j \in Tops : k <= j
  <2>1. Tops \subseteq Nat /\ Tops # {}
    BY <1>0, <1>1
  <2> HIDE DEF Tops
  <2> QED  BY <2>1, NatLeast
<1>3. k \in 0..n /\ W(k) = 1 /\ \A j \in 0..(k - 1) : W(j) # 1
  BY <1>0, <1>2
<1>4. /\ Depth(b) \in 0..n /\ W(Depth(b)) = 1
      /\ \A j \in 0..(Depth(b) - 1) : W(j) # 1
  BY <1>3 DEF Depth
<1>5. ASSUME Depth(b) > 0 PROVE 2^(Depth(b) - 1) < MaxTxs
  <2> DEFINE j == Depth(b) - 1
  <2>1. j \in 0..n /\ j \in 0..(Depth(b) - 1) /\ j \in Nat
    BY <1>0, <1>4, <1>5
  <2>2. W(j) \in Nat \ {0} /\ W(j) # 1 /\ 2^j * (W(j) - 1) <= n - 1
    BY <1>4, <2>1, LevelWidths
  <2>3. 2^j \in Nat
    BY <2>1, Doubling
  <2> HIDE DEF j, W, n
  <2> DEFINE x == 2^j
             y == W(j) - 2
  <2>4. x \in Nat /\ y \in Nat /\ x * (y + 1) <= n - 1
    BY <2>2, <2>3
  <2> HIDE DEF x, y
  <2>5. x * (y + 1) = x * y + x /\ x * y \in Nat
    BY <2>4
  <2>6. x < MaxTxs
    BY <1>0, <2>4, <2>5
  <2> QED  BY <2>6 DEF x, j
<1> QED  BY <1>4, <1>5

LEMMA PositionFound ==
    ASSUME NEW b \in Blocks, NEW t, \E i \in DOMAIN b : b[i] = t
    PROVE  Position(b, t) \in 0..(Len(b) - 1) /\ b[Position(b, t) + 1] = t
<1>1. PICK i \in 1..Len(b) : b[i] = t
  BY BlockLength
<1>2. i - 1 \in 0..(Len(b) - 1) /\ (i - 1) + 1 = i
  BY BlockLength
<1>3. \E j \in 0..(Len(b) - 1) : b[j + 1] = t
  BY <1>1, <1>2
<1> QED  BY <1>3 DEF Position

\* The shifted position stays inside its level.
LEMMA ShiftedInLevel ==
    ASSUME NEW b \in Blocks, NEW pos \in 0..(Len(b) - 1), NEW N \in 0..Len(b)
    PROVE  \A k \in 0..N : /\ Shifted(pos, N)[k] \in Nat
                           /\ Shifted(pos, N)[k] < Len(Levels(b)[k])
<1> DEFINE at == Shifted(pos, N)
           W(k) == Len(Levels(b)[k])
           In == {k \in Nat : k <= N => at[k] \in Nat /\ at[k] < W(k)}
<1>0. Len(b) \in Nat /\ N \in Nat /\ pos \in Nat /\ pos < Len(b) /\ N <= Len(b)
  BY BlockLength
<1>1. at[0] = pos /\ \A k \in 1..N : at[k] = at[k - 1] \div 2
  BY <1>0, ShiftedStep
<1>2. W(0) = Len(b)
  <2>1. Levels(b)[0] = Leaves(b)
    BY <1>0, LevelsStep
  <2>2. Leaves(b) = [i \in 1..Len(b) |-> Leaves(b)[i]]
    BY DEF Leaves
  <2> QED  BY <1>0, <2>1, <2>2, ListLength
<1>3. \A k \in 1..N : W(k - 1) \in Nat /\ W(k) = (W(k - 1) + 1) \div 2
  <2> SUFFICES ASSUME NEW k \in 1..N
               PROVE  W(k - 1) \in Nat /\ W(k) = (W(k - 1) + 1) \div 2
    OBVIOUS
  <2>1. k \in 1..Len(b) /\ k - 1 \in 0..Len(b)
    BY <1>0
  <2>2. Levels(b)[k] = Paired(Levels(b)[k - 1]) /\ W(k - 1) \in Nat
    BY <1>0, <2>1, LevelsStep, LevelWidths
  <2> QED  BY <2>2, PairedLength
<1> HIDE DEF at, W
<1>4. 0 \in In
  BY <1>0, <1>1, <1>2
<1>5. ASSUME NEW k \in Nat, k \in In PROVE k + 1 \in In
  <2> SUFFICES ASSUME k + 1 <= N PROVE at[k + 1] \in Nat /\ at[k + 1] < W(k + 1)
    OBVIOUS
  <2>1. k + 1 \in 1..N /\ (k + 1) - 1 = k
    BY <1>0
  <2>2. at[k] \in Nat /\ at[k] < W(k)
    BY <1>0, <1>5
  <2>3. at[k + 1] = at[k] \div 2 /\ W(k) \in Nat /\ W(k + 1) = (W(k) + 1) \div 2
    BY <1>1, <1>3, <2>1
  <2> QED  BY <2>2, <2>3
<1>6. Nat \subseteq In
  <2> HIDE DEF In
  <2> QED  BY <1>4, <1>5, SetInduction
<1> QED  BY <1>0, <1>6 DEF at, W

-----------------------------------------------------------------------------
(* What the program reads *)

\* A length of at most two bytes is read back as it was written, whatever
\* follows it, and exactly its own bytes are consumed: so the program finds
\* the path where the keeper put it.  TLC's blocks only reach lengths of 3.
THEOREM VarintRoundTrip ==
    ASSUME NEW n \in Nat, n <= TwoBytes, NEW S, NEW path \in Seq(S)
    PROVE  ReadVarint(WriteVarint(n) \o path) =
               [value |-> n, size |-> Len(WriteVarint(n))]
<1>1. CASE n < 253
  <2>1. WriteVarint(n) = <<n>>
    BY <1>1 DEF WriteVarint
  <2>2. (<<n>> \o path)[1] = n
    OBVIOUS
  <2> QED  BY <1>1, <2>1, <2>2 DEF ReadVarint
<1>2. CASE n >= 253
  <2> DEFINE bytes == <<253, n % 256, n \div 256>>
  <2>1. WriteVarint(n) = bytes
    BY <1>2 DEF WriteVarint
  <2>2. /\ (bytes \o path)[1] = 253
        /\ (bytes \o path)[2] = n % 256
        /\ (bytes \o path)[3] = n \div 256
    OBVIOUS
  <2>3. (n % 256) + 256 * (n \div 256) = n
    OBVIOUS
  <2> QED  BY <2>1, <2>2, <2>3 DEF ReadVarint
<1> QED  BY <1>1, <1>2

LEMMA ShiftedNat ==
    ASSUME NEW pos \in Nat, NEW N \in Nat
    PROVE  \A k \in 0..N : Shifted(pos, N)[k] \in Nat
<1> DEFINE at == Shifted(pos, N)
           In == {k \in Nat : k <= N => at[k] \in Nat}
<1>1. at[0] = pos /\ \A k \in 1..N : at[k] = at[k - 1] \div 2
  BY ShiftedStep
<1> HIDE DEF at
<1>2. 0 \in In
  BY <1>1
<1>3. ASSUME NEW k \in Nat, k \in In PROVE k + 1 \in In
  <2> SUFFICES ASSUME k + 1 <= N PROVE at[k + 1] \in Nat
    OBVIOUS
  <2>1. k + 1 \in 1..N /\ (k + 1) - 1 = k /\ at[k] \in Nat
    BY <1>3
  <2>2. at[k + 1] = at[k] \div 2
    BY <1>1, <2>1
  <2> QED  BY <2>1, <2>2
<1>4. Nat \subseteq In
  <2> HIDE DEF In
  <2> QED  BY <1>2, <1>3, SetInduction
<1> QED  BY <1>4 DEF at

LEMMA PathIsSeq ==
    ASSUME NEW T, NEW siblings \in Seq(T), NEW pos \in Nat
    PROVE  /\ Path(pos, siblings) \in Seq([sibling : T, dir : {0, 1}])
           /\ Len(Path(pos, siblings)) = Len(siblings)
<1> DEFINE n == Len(siblings)
           at == Shifted(pos, n)
           step(k) == [sibling |-> siblings[k], dir |-> Direction(at[k - 1])]
<1>0. n \in Nat
  OBVIOUS
<1>1. \A k \in 1..n : step(k) \in [sibling : T, dir : {0, 1}]
  <2> SUFFICES ASSUME NEW k \in 1..n PROVE step(k) \in [sibling : T, dir : {0, 1}]
    OBVIOUS
  <2>1. k - 1 \in 0..n
    BY <1>0
  <2>2. at[k - 1] \in Nat
    <3> HIDE DEF n
    <3> QED  BY <1>0, <2>1, ShiftedNat
  <2> HIDE DEF at
  <2>3. Direction(at[k - 1]) \in {0, 1}
    BY <2>2 DEF Direction
  <2>4. siblings[k] \in T
    OBVIOUS
  <2> QED  BY <2>3, <2>4
<1>2. Path(pos, siblings) = [k \in 1..n |-> step(k)]
  BY DEF Path
<1> HIDE DEF step
<1> QED  BY <1>0, <1>1, <1>2

\* If the prefix, the length and the directions are in order, what is left
\* for the program to check is the walk.
LEMMA OnlyTheWalk ==
    ASSUME NEW txid, NEW rest, NEW n, NEW size, NEW path, NEW root,
           n >= 1, Len(rest) = size + n, \A k \in 1..n : path[k].dir \in {0, 1},
           ReadVarint(rest).value = n, ReadVarint(rest).size = size,
           SubSeq(rest, size + 1, Len(rest)) = path
    PROVE  VerifyMerkleInclusion(txid, [root |-> root, rest |-> rest])
               <=> Reaches(Walk(txid, path)[n], root)
<1> DEFINE blob == [root |-> root, rest |-> rest]
<1>1. blob.root = root /\ blob.rest = rest
  OBVIOUS
<1> HIDE DEF blob
<1>2. VerifyMerkleInclusion(txid, blob) <=> Reaches(Walk(txid, path)[n], root)
  BY <1>1, Zenon DEF VerifyMerkleInclusion
<1> USE DEF blob
<1> QED  BY ONLY <1>2

\* The blob's parts, as the program splits it.
LEMMA BlobShape ==
    ASSUME NEW T, NEW siblings \in Seq(T), Len(siblings) >= 1, Len(siblings) <= TwoBytes,
           NEW root, NEW pos \in Nat,
           NEW rest, rest = Blob(root, pos, siblings).rest,
           NEW size, size = ReadVarint(rest).size
    PROVE  /\ ReadVarint(rest).value = Len(siblings)
           /\ size \in Nat /\ Len(rest) = size + Len(siblings)
           /\ SubSeq(rest, size + 1, Len(rest)) = Path(pos, siblings)
           /\ \A k \in 1..Len(siblings) : rest[size + k] = Path(pos, siblings)[k]
           /\ \A k \in 1..Len(siblings) : Path(pos, siblings)[k].dir \in {0, 1}
<1> DEFINE n == Len(siblings)
           S == [sibling : T, dir : {0, 1}]
           path == Path(pos, siblings)
           bytes == WriteVarint(n)
<1>0. n \in Nat /\ n >= 1 /\ n <= TwoBytes
  BY LenProperties
<1>1. path \in Seq(S) /\ Len(path) = n
  BY PathIsSeq
<1>2. rest = bytes \o path
  BY DEF Blob
<1>3. ReadVarint(rest) = [value |-> n, size |-> Len(bytes)]
  <2> HIDE DEF n, path, S
  <2> QED  BY <1>0, <1>1, <1>2, VarintRoundTrip
<1>4. ReadVarint(rest).value = n /\ size = Len(bytes)
  BY <1>3
<1>5. bytes \in Seq(Nat) /\ Len(bytes) \in Nat
  BY DEF WriteVarint
<1> HIDE DEF bytes, path, S, n
<1>6. Len(rest) = Len(bytes) + n
  <2>1. Len(bytes \o path) = Len(bytes) + Len(path)
    BY <1>0, <1>1, <1>5, SMTT(20)
  <2> QED  BY <1>1, <1>2, <2>1
<1>7. SubSeq(rest, Len(bytes) + 1, Len(rest)) = path
  BY <1>0, <1>1, <1>2, <1>5, <1>6
<1>8. \A k \in 1..n : rest[Len(bytes) + k] = path[k]
  BY <1>0, <1>1, <1>2, <1>5
<1>9. \A k \in 1..n : path[k].dir \in {0, 1}
  <2> SUFFICES ASSUME NEW k \in 1..n PROVE path[k].dir \in {0, 1}
    OBVIOUS
  <2>1. path[k] \in S
    BY <1>1, ElementOfSeq
  <2> QED  BY <2>1 DEF S
<1> QED  BY <1>4, <1>5, <1>6, <1>7, <1>8, <1>9 DEF n, path

\* Of a blob the keeper built from any answer of the relay with a path of at
\* least one and at most 65535 steps, the program checks nothing but the
\* walk to the root: length prefix, total length and the split into steps
\* are in order.
THEOREM BlobParsed ==
    ASSUME NEW T, NEW siblings \in Seq(T), Len(siblings) >= 1, Len(siblings) <= TwoBytes,
           NEW root, NEW txid, NEW pos \in Nat
    PROVE  VerifyMerkleInclusion(txid, Blob(root, pos, siblings))
               <=> Reaches(Walk(txid, Path(pos, siblings))[Len(siblings)], root)
<1> DEFINE n == Len(siblings)
           path == Path(pos, siblings)
           rest == Blob(root, pos, siblings).rest
           size == ReadVarint(rest).size
<1>1. Blob(root, pos, siblings) = [root |-> root, rest |-> rest]
  BY DEF Blob
<1>2. /\ ReadVarint(rest).value = n /\ Len(rest) = size + n
      /\ SubSeq(rest, size + 1, Len(rest)) = path
      /\ \A k \in 1..n : path[k].dir \in {0, 1}
  <2>1. ReadVarint(rest).value = Len(siblings)
    BY BlobShape
  <2>2. Len(rest) = size + Len(siblings)
    BY BlobShape
  <2>3. SubSeq(rest, size + 1, Len(rest)) = Path(pos, siblings)
    BY BlobShape
  <2>4. \A k \in 1..Len(siblings) : Path(pos, siblings)[k].dir \in {0, 1}
    BY BlobShape
  <2> QED  BY <2>1, <2>2, <2>3, <2>4
<1>3. ReadVarint(rest).size = size
  OBVIOUS
<1> HIDE DEF n, path, rest, size
<1>4. n >= 1
  BY DEF n
<1>5. VerifyMerkleInclusion(txid, [root |-> root, rest |-> rest])
          <=> Reaches(Walk(txid, path)[n], root)
  BY ONLY <1>2, <1>3, <1>4, OnlyTheWalk, Zenon
<1> QED  BY <1>1, <1>5 DEF n, path

-----------------------------------------------------------------------------
(* The walk climbs the tree, and only a leaf of the tree climbs it *)

LEMMA SiblingsList ==
    ASSUME NEW b \in Blocks, NEW t
    PROVE  /\ Len(Siblings(b, t)) = Depth(b)
           /\ \E T : Siblings(b, t) \in Seq(T)
<1> DEFINE S == Siblings(b, t)
<1>1. Depth(b) \in Nat
  BY DepthFound, BlockLength
<1>2. S = [k \in 1..Depth(b) |-> S[k]]
  BY DEF Siblings
<1> HIDE DEF S
<1>3. Len(S) = Depth(b) /\ S \in Seq({S[i] : i \in 1..Depth(b)})
  BY <1>1, <1>2, ListLength
<1> QED  BY <1>3 DEF S

\* One step of the walk: the node at an index joined with its sibling is the
\* node at half that index of the level above.
LEMMA ClimbStep ==
    ASSUME NEW level, Len(level) \in Nat, NEW i \in Nat, i < Len(level)
    PROVE  Joined(level[i + 1], [sibling |-> SiblingOf(level, i), dir |-> Direction(i)])
               = Paired(level)[i \div 2 + 1]
<1> DEFINE n == Len(level)
           j == i \div 2 + 1
           step == [sibling |-> SiblingOf(level, i), dir |-> Direction(i)]
<1>0. j \in 1..((n + 1) \div 2) /\ n \in Nat
  OBVIOUS
<1>1. Paired(level)[j] = Hash(level[2 * j - 1], level[IF 2 * j <= n THEN 2 * j ELSE 2 * j - 1])
  BY <1>0, PairedLength
<1>2. step.sibling = SiblingOf(level, i) /\ step.dir = i % 2
  BY DEF Direction
<1> HIDE DEF step
<1>3. CASE i % 2 = 0
  <2>1. 2 * j - 1 = i + 1 /\ 2 * j = i + 2
    BY <1>3
  <2>2. SiblingOf(level, i) = level[IF i + 1 < n THEN i + 2 ELSE i + 1]
    <3>1. 1 + (i + 1) = i + 2 /\ 1 + i = i + 1
      OBVIOUS
    <3>2. SiblingOf(level, i) = level[1 + IF i + 1 < n THEN i + 1 ELSE i]
      BY <1>3 DEF SiblingOf
    <3>3. (1 + IF i + 1 < n THEN i + 1 ELSE i) = IF i + 1 < n THEN i + 2 ELSE i + 1
      BY <3>1
    <3> QED  BY <3>2, <3>3
  <2>3. (i + 1 < n) <=> (i + 2 <= n)
    BY <1>0
  <2>4. Joined(level[i + 1], step) = Hash(level[i + 1], SiblingOf(level, i))
    BY <1>2, <1>3 DEF Joined
  <2> HIDE DEF j, n
  <2>5. (IF 2 * j <= n THEN 2 * j ELSE 2 * j - 1) = IF i + 1 < n THEN i + 2 ELSE i + 1
    BY <2>1, <2>3
  <2>6. Paired(level)[j] = Hash(level[i + 1], SiblingOf(level, i))
    BY <1>1, <2>1, <2>2, <2>5
  <2> QED  BY <2>4, <2>6 DEF j, step
<1>4. CASE i % 2 # 0
  <2>1. 2 * j - 1 = i /\ 2 * j = i + 1 /\ i - 1 < n /\ i + 1 <= n /\ 1 + (i - 1) = i
    BY <1>4
  <2>2. SiblingOf(level, i) = level[i]
    <3>1. (1 + IF i - 1 < n THEN i - 1 ELSE i) = i
      BY <2>1
    <3> QED  BY <1>4, <3>1 DEF SiblingOf
  <2>3. Joined(level[i + 1], step) = Hash(SiblingOf(level, i), level[i + 1])
    BY <1>2, <1>4 DEF Joined
  <2> HIDE DEF j, n
  <2>4. (IF 2 * j <= n THEN 2 * j ELSE 2 * j - 1) = i + 1
    BY <2>1
  <2>5. Paired(level)[j] = Hash(level[i], level[i + 1])
    BY <1>1, <2>1, <2>4
  <2> QED  BY <2>2, <2>3, <2>5 DEF j, step
<1> QED  BY <1>3, <1>4

\* Whenever the relay's path and the header are of one block, the program
\* accepts what the keeper builds of them: for every block, every position in
\* it and every width of its levels, odd ones included.
THEOREM PathAccepted ==
    ASSUME NEW b \in Blocks, NEW t, HasPath(b, t)
    PROVE  VerifyMerkleInclusion(t, Blob(Root(b), Position(b, t), Siblings(b, t)))
<1> DEFINE D == Depth(b)
           pos == Position(b, t)
           sib == Siblings(b, t)
           at == Shifted(pos, D)
           path == Path(pos, sib)
           node == Walk(t, path)
           L == Levels(b)
<1>0. /\ Len(b) \in Nat /\ Len(b) <= TwoBytes
      /\ D \in 0..Len(b) /\ D \in Nat /\ D >= 1 /\ D <= TwoBytes /\ Len(L[D]) = 1
  <2>1. Depth(b) > 0
    BY DEF HasPath
  <2>2. Len(b) \in 1..MaxTxs /\ Len(b) \in Nat
    BY BlockLength
  <2>3a. MaxTxs <= TwoBytes /\ MaxTxs \in Nat
    BY SpvAssumption
  <2>3. Depth(b) \in 0..Len(b) /\ Len(L[Depth(b)]) = 1
    BY DepthFound
  <2> HIDE DEF D, L
  <2>4. TwoBytes \in Nat
    BY DEF TwoBytes
  <2>5. D \in 0..Len(b) /\ D > 0 /\ Len(L[D]) = 1
    BY <2>1, <2>3 DEF D
  <2> QED  BY <2>2, <2>3a, <2>4, <2>5
<1>1. pos \in 0..(Len(b) - 1) /\ b[pos + 1] = t /\ pos \in Nat
  BY PositionFound, BlockLength DEF HasPath
<1>2. Len(sib) = D /\ Len(path) = D
  <2>1. PICK T : sib \in Seq(T)
    BY SiblingsList
  <2> QED  BY <1>1, <2>1, SiblingsList, PathIsSeq
<1>3. /\ node[0] = Leaf(t)
      /\ \A k \in 1..D : node[k] = Joined(node[k - 1], path[k])
  <2> HIDE DEF path
  <2> QED  BY <1>0, <1>2, WalkStep
<1>4. L[0] = Leaves(b) /\ \A k \in 1..D : L[k] = Paired(L[k - 1])
  BY <1>0, LevelsStep
<1>5. \A k \in 0..D : Len(L[k]) \in Nat /\ at[k] \in Nat /\ at[k] < Len(L[k])
  <2>1. D \in 0..Len(b)
    BY <1>0
  <2>2. \A k \in 0..D : at[k] \in Nat /\ at[k] < Len(L[k])
    <3> HIDE DEF D, pos
    <3> QED  BY <1>1, <2>1, ShiftedInLevel
  <2>3. \A k \in 0..D : Len(L[k]) \in Nat
    BY <1>0, LevelWidths
  <2> QED  BY <2>2, <2>3
<1>6. at[0] = pos /\ \A k \in 1..D : at[k] = at[k - 1] \div 2
  <2> HIDE DEF D
  <2> QED  BY <1>0, ShiftedStep
<1>7. \A k \in 1..D : path[k] = [sibling |-> SiblingOf(L[k - 1], at[k - 1]),
                                dir |-> Direction(at[k - 1])]
  <2>1. \A k \in 1..D : sib[k] = SiblingOf(L[k - 1], at[k - 1])
    BY DEF Siblings
  <2>2. \A k \in 1..D : path[k] = [sibling |-> sib[k], dir |-> Direction(at[k - 1])]
    <3> HIDE DEF sib, D
    <3> QED  BY <1>2 DEF Path
  <2> QED  BY <2>1, <2>2
<1> HIDE DEF D, pos, sib, at, path, node, L
<1> DEFINE On == {k \in Nat : k <= D => node[k] = L[k][at[k] + 1]}
<1>8. 0 \in On
  <2>1. pos + 1 \in 1..Len(b)
    BY <1>0, <1>1
  <2>2. L[0][pos + 1] = Leaf(t)
    BY <1>1, <1>4, <2>1 DEF Leaves
  <2> QED  BY <1>3, <1>6, <2>2
<1>9. ASSUME NEW k \in Nat, k \in On PROVE k + 1 \in On
  <2> SUFFICES ASSUME k + 1 <= D PROVE node[k + 1] = L[k + 1][at[k + 1] + 1]
    OBVIOUS
  <2>1. k + 1 \in 1..D /\ (k + 1) - 1 = k /\ k \in 0..D /\ k <= D
    BY <1>0
  <2>2. node[k] = L[k][at[k] + 1]
    BY <1>9, <2>1
  <2>3. node[k + 1] = Joined(node[k], path[k + 1]) /\ L[k + 1] = Paired(L[k])
    BY <1>3, <1>4, <2>1
  <2>4. path[k + 1] = [sibling |-> SiblingOf(L[k], at[k]), dir |-> Direction(at[k])]
    BY <1>7, <2>1
  <2>5. Joined(L[k][at[k] + 1], [sibling |-> SiblingOf(L[k], at[k]), dir |-> Direction(at[k])])
            = Paired(L[k])[at[k] \div 2 + 1]
    BY <1>5, <2>1, ClimbStep
  <2>6. at[k + 1] = at[k] \div 2
    BY <1>6, <2>1
  <2> QED  BY <2>2, <2>3, <2>4, <2>5, <2>6
<1>10. Nat \subseteq On
  <2> HIDE DEF On
  <2> QED  BY <1>8, <1>9, SetInduction
<1>11. node[D] = L[D][1]
  <2>1. D \in 0..D
    BY <1>0
  <2>2. at[D] \in Nat /\ at[D] < Len(L[D])
    BY <1>5, <2>1
  <2>3. at[D] = 0
    BY <1>0, <2>2
  <2>4. node[D] = L[D][at[D] + 1]
    BY <1>0, <1>10
  <2> QED  BY <2>3, <2>4
<1>12. Reaches(Walk(t, Path(pos, sib))[Len(sib)], Root(b))
  BY <1>2, <1>11 DEF Reaches, Root, D, L, node, path
<1>13. PICK T : sib \in Seq(T)
  BY SiblingsList DEF sib
<1>14. Len(sib) >= 1 /\ Len(sib) <= TwoBytes
  BY <1>0, <1>2
<1>15. VerifyMerkleInclusion(t, Blob(Root(b), pos, sib))
  BY <1>1, <1>12, <1>13, <1>14, BlobParsed
<1> QED  BY <1>15 DEF pos, sib

\* A walk, along any siblings and directions, that ends at the root of a
\* block began at one of its transactions.
LEMMA WalkFromLeaf ==
    ASSUME NEW h \in Blocks, NEW t, NEW path, Len(path) \in Nat,
           Walk(t, path)[Len(path)] = Root(h)
    PROVE  \E i \in DOMAIN h : h[i] = t
<1> DEFINE n == Len(path)
           D == Depth(h)
           L == Levels(h)
           node == Walk(t, path)
<1>0. Len(h) \in Nat /\ D \in 0..Len(h) /\ D \in Nat /\ n \in Nat /\ Len(L[D]) = 1
  BY DepthFound, BlockLength
<1>1. node[0] = Leaf(t) /\ \A k \in 1..n : node[k] = Joined(node[k - 1], path[k])
  BY WalkStep
<1>2. L[0] = Leaves(h) /\ \A k \in 1..D : L[k] = Paired(L[k - 1])
  BY <1>0, LevelsStep
<1>3. \A k \in 0..D : Len(L[k]) \in Nat
  BY <1>0, LevelWidths
<1>4. \A k \in 1..D : Len(L[k]) = (Len(L[k - 1]) + 1) \div 2
  <2> SUFFICES ASSUME NEW k \in 1..D PROVE Len(L[k]) = (Len(L[k - 1]) + 1) \div 2
    OBVIOUS
  <2>1. k - 1 \in 0..D
    BY <1>0
  <2> QED  BY <1>2, <1>3, <2>1, PairedLength
<1>5. node[n] = L[D][1]
  BY DEF Root
<1>6. DOMAIN h = 1..Len(h)
  BY BlockLength
<1> HIDE DEF n, D, L, node
\* What an inner node is.
<1>7. ASSUME NEW k \in 1..D, NEW i \in 1..Len(L[k])
      PROVE  \E l, r \in 1..Len(L[k - 1]) : L[k][i] = Hash(L[k - 1][l], L[k - 1][r])
  <2> DEFINE m == Len(L[k - 1])
             l == 2 * i - 1
             r == IF 2 * i <= m THEN 2 * i ELSE 2 * i - 1
  <2>a. k - 1 \in 0..D
    BY <1>0
  <2>b. m \in Nat
    BY <1>3, <2>a
  <2>c. Len(L[k]) = (m + 1) \div 2
    BY <1>4
  <2>1. k - 1 \in 0..D /\ m \in Nat /\ i \in 1..((m + 1) \div 2)
    BY <2>a, <2>b, <2>c
  <2>2. l \in 1..m /\ r \in 1..m
    <3> HIDE DEF m
    <3> QED  BY <2>1
  <2>3. L[k][i] = Hash(L[k - 1][l], L[k - 1][r])
    BY <1>2, <2>1, PairedLength
  <2> HIDE DEF l, r
  <2> QED  BY <2>2, <2>3
<1>8. \A k \in 1..n : \E x : node[k] = Hash(node[k - 1], x) \/ node[k] = Hash(x, node[k - 1])
  BY <1>1 DEF Joined
<1>9. \A l, r, x, y : Hash(l, r) = Hash(x, y) => l = x /\ r = y
  BY DEF Hash
<1>10. \A x, l, r : Leaf(x) # Hash(l, r)
  <2> SUFFICES ASSUME NEW x, NEW l, NEW r, <<x>> = <<l, r>> PROVE FALSE
    BY DEF Leaf, Hash
  <2>1. Len(<<x>>) = 1 /\ Len(<<l, r>>) = 2
    OBVIOUS
  <2> QED  BY <2>1
<1> DEFINE Down == {j \in Nat : j <= n /\ j <= D =>
                        \E i \in 1..Len(L[D - j]) : node[n - j] = L[D - j][i]}
<1>11. 0 \in Down
  <2>1. n - 0 = n /\ D - 0 = D /\ 1 \in 1..Len(L[D])
    BY <1>0
  <2> QED  BY <1>5, <2>1
<1>12. ASSUME NEW j \in Nat, j \in Down PROVE j + 1 \in Down
  <2> SUFFICES ASSUME j + 1 <= n, j + 1 <= D
               PROVE  \E i \in 1..Len(L[D - (j + 1)]) : node[n - (j + 1)] = L[D - (j + 1)][i]
    OBVIOUS
  <2>1. /\ n - j \in 1..n /\ (n - j) - 1 = n - (j + 1)
        /\ D - j \in 1..D /\ (D - j) - 1 = D - (j + 1)
        /\ j <= n /\ j <= D
    BY <1>0
  <2>2. PICK i \in 1..Len(L[D - j]) : node[n - j] = L[D - j][i]
    BY <1>12, <2>1
  <2>3. PICK l \in 1..Len(L[D - (j + 1)]), r \in 1..Len(L[D - (j + 1)]) :
            L[D - j][i] = Hash(L[D - (j + 1)][l], L[D - (j + 1)][r])
    <3>1. \E l, r \in 1..Len(L[(D - j) - 1]) :
              L[D - j][i] = Hash(L[(D - j) - 1][l], L[(D - j) - 1][r])
      BY <1>7, <2>1
    <3> QED  BY <2>1, <3>1
  <2>4. PICK x : \/ node[n - j] = Hash(node[n - (j + 1)], x)
                 \/ node[n - j] = Hash(x, node[n - (j + 1)])
    BY <1>8, <2>1
  <2>5. CASE node[n - j] = Hash(node[n - (j + 1)], x)
    BY <1>9, <2>2, <2>3, <2>5
  <2>6. CASE node[n - j] = Hash(x, node[n - (j + 1)])
    BY <1>9, <2>2, <2>3, <2>6
  <2> QED  BY <2>4, <2>5, <2>6
<1>13. Nat \subseteq Down
  <2> HIDE DEF Down
  <2> QED  BY <1>11, <1>12, SetInduction
<1>14. \A j \in Nat : j <= n /\ j <= D =>
           \E i \in 1..Len(L[D - j]) : node[n - j] = L[D - j][i]
  BY <1>13
<1> HIDE DEF Down
<1>15. \A i \in 1..Len(L[0]) : i \in DOMAIN h /\ L[0][i] = Leaf(h[i])
  <2>1. Leaves(h) = [i \in 1..Len(h) |-> Leaves(h)[i]]
    BY DEF Leaves
  <2>2. Len(L[0]) = Len(h)
    BY <1>0, <1>2, <2>1, ListLength
  <2> QED  BY <1>2, <1>6, <2>2 DEF Leaves
<1>16. CASE n = D
  <2>1. n - n = 0 /\ D - n = 0 /\ n <= n /\ n <= D
    BY <1>0, <1>16
  <2>2. PICK i \in 1..Len(L[0]) : node[0] = L[0][i]
    BY <1>0, <1>14, <2>1
  <2>3. Leaf(t) = Leaf(h[i])
    BY <1>1, <1>15, <2>2
  <2>4. t = h[i]
    BY <2>3 DEF Leaf
  <2> QED  BY <1>15, <2>4
<1>17. CASE n < D
  <2>1. n - n = 0 /\ D - n \in 1..D /\ n <= n /\ n <= D
    BY <1>0, <1>17
  <2>2. PICK i \in 1..Len(L[D - n]) : node[0] = L[D - n][i]
    BY <1>0, <1>14, <2>1
  <2>3. \E l, r : L[D - n][i] = Hash(l, r)
    BY <1>7, <2>1
  <2> QED  BY <1>1, <1>10, <2>2, <2>3
<1>18. CASE n > D
  <2>1. D - D = 0 /\ n - D \in 1..n /\ D <= n /\ D <= D
    BY <1>0, <1>18
  <2>2. PICK i \in 1..Len(L[0]) : node[n - D] = L[0][i]
    BY <1>0, <1>14, <2>1
  <2>3. \E l, r : node[n - D] = Hash(l, r)
    BY <1>8, <2>1
  <2> QED  BY <1>10, <1>15, <2>2, <2>3
<1> QED  BY <1>0, <1>16, <1>17, <1>18

\* The program accepts no blob for a transaction that is not in the block
\* whose header the blob carries, whatever siblings and position it was built
\* from.
THEOREM AcceptedIncluded ==
    ASSUME NEW h \in Blocks, NEW T, NEW siblings \in Seq(T), Len(siblings) >= 1,
           Len(siblings) <= TwoBytes, NEW pos \in Nat, NEW t,
           VerifyMerkleInclusion(t, Blob(Root(h), pos, siblings))
    PROVE  \E i \in DOMAIN h : h[i] = t
<1> DEFINE path == Path(pos, siblings)
<1>1. Len(path) = Len(siblings) /\ Len(siblings) \in Nat
  <2>1. Len(siblings) \in Nat
    OBVIOUS
  <2>2. Len(path) = Len(siblings)
    BY PathIsSeq
  <2> QED  BY <2>1, <2>2
<1>2. Reaches(Walk(t, path)[Len(siblings)], Root(h))
  BY BlobParsed
<1>3. Walk(t, path)[Len(path)] = Root(h)
  BY <1>1, <1>2 DEF Reaches
<1> HIDE DEF path
<1> QED  BY <1>1, <1>3, WalkFromLeaf

-----------------------------------------------------------------------------
(* The keeper's reads, the blob and the verdict *)

\* What the relay said of the payment while b was the block.
Answered(b) ==
    /\ HasPath(b, Payment)
    /\ answer = [pos |-> Position(b, Payment), siblings |-> Siblings(b, Payment)]
\* The blob puts the path of b under the header that was read later.
BuiltFrom(b) ==
    /\ HasPath(b, Payment)
    /\ proof = Blob(Root(header), Position(b, Payment), Siblings(b, Payment))

Typed ==
    /\ block \in Blocks
    /\ pc \in {"path", "header", "build", "finalize", "done"}
    /\ header \in Blocks \cup {None}
    /\ verdict \in {None, "bare", "verified", "refused"}
    /\ reorgs \in 0..MaxReorgs
SpvInv ==
    /\ Typed
    /\ pc \in {"header", "build"} =>
           \E b \in Blocks : Answered(b) /\ (reorgs = 0 => b = block)
    /\ pc = "build" => header \in Blocks /\ (reorgs = 0 => header = block)
    /\ pc \in {"path", "header", "build"} => proof = None
    /\ proof # None => header \in Blocks
                    /\ \E b \in Blocks : BuiltFrom(b) /\ (reorgs = 0 => b = header)
    /\ verdict = "verified" =>
           pc = "done" /\ proof # None /\ VerifyMerkleInclusion(Payment, proof)
    /\ verdict = "refused" =>
           pc = "done" /\ proof # None /\ ~ VerifyMerkleInclusion(Payment, proof)

LEMMA SpvInit == Init => SpvInv
<1> SUFFICES ASSUME Init PROVE SpvInv
  OBVIOUS
<1>1. Typed
  BY SpvAssumption DEF Init, Typed
<1> QED  BY <1>1, SpvAssumption DEF Init, SpvInv

LEMMA SpvStep == SpvInv /\ [Next]_vars => SpvInv'
<1> SUFFICES ASSUME SpvInv, [Next]_vars PROVE SpvInv'
  OBVIOUS
<1>1. CASE GiveUp /\ pc \in {"path", "header"}
  BY <1>1 DEF GiveUp, SpvInv, Typed, BuiltFrom, Answered
<1>2. CASE FetchPath /\ ~ GiveUp
  <2>1. /\ pc = "path" /\ pc' = "header" /\ HasPath(block, Payment)
        /\ answer' = [pos |-> Position(block, Payment), siblings |-> Siblings(block, Payment)]
        /\ UNCHANGED <<block, header, proof, verdict, reorgs>>
    BY <1>2 DEF FetchPath
  <2>2. Answered(block)'
    BY <2>1 DEF Answered
  <2> QED  BY <2>1, <2>2 DEF SpvInv, Typed, BuiltFrom
<1>3. CASE FetchHeader /\ ~ GiveUp
  <2>1. /\ pc = "header" /\ pc' = "build" /\ header' = block
        /\ UNCHANGED <<block, answer, proof, verdict, reorgs>>
    BY <1>3 DEF FetchHeader
  <2> QED  BY <2>1 DEF SpvInv, Typed, Answered
<1>4. CASE BuildBlob
  <2>1. /\ pc = "build" /\ pc' = "finalize"
        /\ proof' = Blob(Root(header), answer.pos, answer.siblings)
        /\ UNCHANGED <<block, answer, header, verdict, reorgs>>
    BY <1>4 DEF BuildBlob
  <2>2. PICK b \in Blocks : Answered(b) /\ (reorgs = 0 => b = block)
    BY <2>1 DEF SpvInv
  <2>3. BuiltFrom(b)'
    BY <2>1, <2>2 DEF Answered, BuiltFrom
  <2>4. header \in Blocks /\ (reorgs = 0 => b = header)
    BY <2>1, <2>2 DEF SpvInv
  <2> QED  BY <2>1, <2>3, <2>4 DEF SpvInv, Typed
<1>5. CASE FinalizeSettlement
  BY <1>5 DEF FinalizeSettlement, SpvInv, Typed, BuiltFrom
<1>6. CASE Reorg
  <2>1. /\ pc \in {"path", "header"} /\ block' \in Blocks
        /\ reorgs' \in 0..MaxReorgs /\ reorgs' # 0
        /\ UNCHANGED <<pc, answer, header, proof, verdict>>
    BY <1>6, SpvAssumption DEF Reorg, SpvInv, Typed
  <2> QED  BY <2>1 DEF SpvInv, Typed, Answered, BuiltFrom
<1>7. CASE UNCHANGED vars
  BY <1>7 DEF vars, SpvInv, Typed, Answered, BuiltFrom
<1> QED
  BY <1>1, <1>2, <1>3, <1>4, <1>5, <1>6, <1>7 DEF Next, FetchPath, FetchHeader

\* The blob of a keeper's answers: nonempty, logarithmic in the size of the
\* block, and of directions 0 and 1.
LEMMA BlobTyped ==
    ASSUME NEW b \in Blocks, HasPath(b, Payment), NEW root,
           NEW rest, rest = Blob(root, Position(b, Payment), Siblings(b, Payment)).rest
    PROVE  LET n == ReadVarint(rest) IN
               /\ Len(rest) = n.size + n.value
               /\ n.value >= 1 /\ 2^(n.value - 1) < MaxTxs
               /\ \A k \in (n.size + 1)..Len(rest) : rest[k].dir \in {0, 1}
<1> DEFINE D == Depth(b)
           pos == Position(b, Payment)
           sib == Siblings(b, Payment)
           size == ReadVarint(rest).size
<1>1. PICK T : sib \in Seq(T)
  BY SiblingsList
<1>2. Len(sib) = D /\ pos \in Nat
  BY SiblingsList, PositionFound, BlockLength DEF HasPath
<1>3. D \in Nat /\ D >= 1 /\ D <= TwoBytes /\ 2^(D - 1) < MaxTxs
  <2>1. Depth(b) > 0
    BY DEF HasPath
  <2>2. Len(b) \in 1..MaxTxs /\ Len(b) \in Nat
    BY BlockLength
  <2>3. MaxTxs <= TwoBytes /\ MaxTxs \in Nat
    BY SpvAssumption
  <2>4. Depth(b) \in 0..Len(b)
    BY DepthFound
  <2>5. 2^(D - 1) < MaxTxs
    BY <2>1, DepthFound
  <2>6. TwoBytes \in Nat
    BY DEF TwoBytes
  <2> HIDE DEF D
  <2>7. D \in 0..Len(b) /\ D > 0
    BY <2>1, <2>4 DEF D
  <2> QED  BY <2>2, <2>3, <2>5, <2>6, <2>7
<1>4. ReadVarint(rest).value = D
  BY <1>1, <1>2, <1>3, BlobShape
<1>5. size \in Nat /\ Len(rest) = size + D
  BY <1>1, <1>2, <1>3, BlobShape
<1>6. \A k \in 1..D : rest[size + k] = Path(pos, sib)[k]
  BY <1>1, <1>2, <1>3, BlobShape
<1>7. \A k \in 1..D : Path(pos, sib)[k].dir \in {0, 1}
  BY <1>1, <1>2, <1>3, BlobShape
<1> HIDE DEF D, pos, sib, size
<1>8. \A k \in (size + 1)..Len(rest) : rest[k].dir \in {0, 1}
  <2> SUFFICES ASSUME NEW k \in (size + 1)..Len(rest) PROVE rest[k].dir \in {0, 1}
    OBVIOUS
  <2>1. k - size \in 1..D /\ size + (k - size) = k
    BY <1>3, <1>5
  <2>2. rest[k] = Path(pos, sib)[k - size]
    BY <1>6, <2>1
  <2> QED  BY <1>7, <2>1, <2>2
<1>9. ReadVarint(rest).size = size
  BY DEF size
<1> QED  BY <1>3, <1>4, <1>5, <1>8, <1>9

\* The invariant of the keeper's reads: what it holds at each place is what
\* the relay answered, for the block of then.
THEOREM SpvInvariant == Spec => []SpvInv
BY SpvInit, SpvStep, PTL DEF Spec

\* A blob that the keeper built has one step for each level of a tree of at
\* most MaxTxs leaves, and is as long as its prefix says.
THEOREM SpvTyped == Spec => []SpvTypeOK
<1>1. SpvInv => SpvTypeOK
  <2> SUFFICES ASSUME SpvInv PROVE SpvTypeOK
    OBVIOUS
  <2>1. ASSUME proof # None
        PROVE  LET n == ReadVarint(proof.rest) IN
                   /\ Len(proof.rest) = n.size + n.value
                   /\ n.value >= 1 /\ 2^(n.value - 1) < MaxTxs
                   /\ \A k \in (n.size + 1)..Len(proof.rest) : proof.rest[k].dir \in {0, 1}
    <3>1. PICK b \in Blocks : BuiltFrom(b)
      BY <2>1 DEF SpvInv
    <3>2. /\ HasPath(b, Payment)
          /\ proof.rest = Blob(Root(header), Position(b, Payment), Siblings(b, Payment)).rest
      BY <3>1 DEF BuiltFrom
    <3> QED  BY <3>2, BlobTyped
  <2> QED  BY <2>1 DEF SpvInv, Typed, SpvTypeOK
<1> QED  BY <1>1, SpvInvariant, PTL

\* spv_verified is true only of a payment that is in the block whose header
\* was recorded, for blocks of any size, reorganised any number of times.
THEOREM SpvIncluded == Spec => []VerifiedIncluded
<1>1. SpvInv => VerifiedIncluded
  <2> SUFFICES ASSUME SpvInv, verdict = "verified"
               PROVE  \E i \in DOMAIN header : header[i] = Payment
    BY DEF VerifiedIncluded
  <2>1. /\ proof # None /\ VerifyMerkleInclusion(Payment, proof)
        /\ header \in Blocks
    BY DEF SpvInv
  <2>2. PICK b \in Blocks : BuiltFrom(b)
    BY <2>1 DEF SpvInv
  <2> DEFINE pos == Position(b, Payment)
             sib == Siblings(b, Payment)
  <2>3. HasPath(b, Payment) /\ proof = Blob(Root(header), pos, sib)
    BY <2>2 DEF BuiltFrom
  <2>4. pos \in Nat
    BY <2>3, PositionFound, BlockLength DEF HasPath
  <2>5. PICK T : sib \in Seq(T)
    BY SiblingsList
  <2>6. Len(sib) = Depth(b)
    BY SiblingsList
  <2>7. Depth(b) >= 1 /\ Depth(b) <= TwoBytes
    <3>1. Depth(b) > 0
      BY <2>3 DEF HasPath
    <3>2. Len(b) \in 1..MaxTxs /\ Len(b) \in Nat /\ Depth(b) \in 0..Len(b)
      BY BlockLength, DepthFound
    <3>3. MaxTxs <= TwoBytes /\ MaxTxs \in Nat
      BY SpvAssumption
    <3>4. TwoBytes \in Nat
      BY DEF TwoBytes
    <3> QED  BY <3>1, <3>2, <3>3, <3>4
  <2> HIDE DEF pos, sib
  <2> QED  BY <2>1, <2>3, <2>4, <2>5, <2>6, <2>7, AcceptedIncluded
<1> QED  BY <1>1, SpvInvariant, PTL

\* As long as the block stays, a paid match is never refused for its proof.
THEOREM SpvAccepted == Spec => []RefusedOnlyAfterReorg
<1>1. SpvInv => RefusedOnlyAfterReorg
  <2> SUFFICES ASSUME SpvInv, verdict = "refused", reorgs = 0 PROVE FALSE
    BY DEF RefusedOnlyAfterReorg, SpvInv, Typed
  <2>1. proof # None /\ ~ VerifyMerkleInclusion(Payment, proof) /\ header \in Blocks
    BY DEF SpvInv
  <2>2. BuiltFrom(header)
    BY <2>1 DEF SpvInv
  <2>3. VerifyMerkleInclusion(Payment, proof)
    BY <2>1, <2>2, PathAccepted DEF BuiltFrom
  <2> QED  BY <2>1, <2>3
<1> QED  BY <1>1, SpvInvariant, PTL
====
