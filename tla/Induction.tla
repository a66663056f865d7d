---- MODULE Induction ----
(***************************************************************************)
(* Induction over the naturals, stated with a set in place of a predicate, *)
(* and what the other proofs need of it: the sequence that lists a set of  *)
(* naturals, and functions defined by recursion on a natural.              *)
(***************************************************************************)
EXTENDS Integers, FiniteSetTheorems, WellFoundedInduction, TLAPS

\* A set of naturals that is not empty has a least element.
LEMMA NatLeast ==
    ASSUME NEW T, T \subseteq Nat, T # {}
    PROVE  \E x \in T : \A y \in T : x <= y
<1>1. IsWellFoundedOn(OpToRel(<, Nat), Nat)
  BY NatLessThanWellFounded
<1> DEFINE R == {ss \in Nat \X Nat : ss[1] < ss[2]}
<1>2. IsWellFoundedOn(R, Nat)
  BY <1>1 DEF OpToRel
<1> HIDE DEF R
<1>3. PICK x \in T : \A y \in T : ~ (<<y, x>> \in R)
  BY <1>2, WFMin
<1>4. \A y \in Nat, z \in Nat : y < z => <<y, z>> \in R
  BY DEF R
<1>5. \A y \in T : ~ (y < x)
  BY <1>3, <1>4
<1> QED  BY <1>5

\* A set with 0 that has with each natural the next one has all of them.
LEMMA SetInduction ==
    ASSUME NEW S, 0 \in S, \A n \in Nat : n \in S => n + 1 \in S
    PROVE  Nat \subseteq S
<1> SUFFICES ASSUME Nat \ S # {} PROVE FALSE
  OBVIOUS
<1>1. PICK x \in Nat \ S : \A y \in Nat \ S : x <= y
  BY NatLeast
<1>2. x # 0 /\ x - 1 \in Nat
  BY <1>1
<1>3. x - 1 \in S
  BY <1>1, <1>2
<1>4. (x - 1) + 1 \in S
  BY <1>2, <1>3
<1> QED  BY <1>1, <1>4

-----------------------------------------------------------------------------
(* The sequence that lists a finite set of naturals *)

Lists(f, S) ==
    /\ \A i, j \in DOMAIN f : i < j => f[i] < f[j]
    /\ \A x \in S : \E i \in DOMAIN f : f[i] = x

\* Every finite set of naturals has such a sequence.
LEMMA ListExists ==
    ASSUME NEW S, S \subseteq Nat, IsFiniteSet(S)
    PROVE  \E f \in [1..Cardinality(S) -> S] : Lists(f, S)
<1> DEFINE Listed == {n \in Nat : \A A \in SUBSET Nat :
               IsFiniteSet(A) /\ Cardinality(A) = n => \E f \in [1..n -> A] : Lists(f, A)}
<1>1. 0 \in Listed
  <2> SUFFICES ASSUME NEW A \in SUBSET Nat, IsFiniteSet(A), Cardinality(A) = 0
               PROVE  \E f \in [1..0 -> A] : Lists(f, A)
    OBVIOUS
  <2>1. A = {}
    BY FS_EmptySet
  <2>2. 1..0 = {}
    OBVIOUS
  <2>3. [x \in {} |-> x] \in [1..0 -> A] /\ Lists([x \in {} |-> x], A)
    BY <2>1, <2>2 DEF Lists
  <2> QED  BY <2>3
<1>2. ASSUME NEW n \in Nat, n \in Listed PROVE n + 1 \in Listed
  <2> SUFFICES ASSUME NEW A \in SUBSET Nat, IsFiniteSet(A), Cardinality(A) = n + 1
               PROVE  \E f \in [1..(n + 1) -> A] : Lists(f, A)
    OBVIOUS
  <2>1. A # {}
    BY FS_EmptySet
  <2>2. PICK m \in A : \A y \in A : m <= y
    BY <2>1, NatLeast
  <2>3. IsFiniteSet(A \ {m}) /\ Cardinality(A \ {m}) = n
    <3>1. IsFiniteSet(A) /\ m \in A
      OBVIOUS
    <3>2. Cardinality(A \ {m}) = Cardinality(A) - 1
      BY <3>1, FS_RemoveElement
    <3> QED  BY <3>1, <3>2, FS_RemoveElement
  <2>4. PICK g \in [1..n -> A \ {m}] : Lists(g, A \ {m})
    BY <1>2, <2>3
  <2> DEFINE f == [i \in 1..(n + 1) |-> IF i = 1 THEN m ELSE g[i - 1]]
  <2>5. f[1] = m /\ \A i \in 1..n : i + 1 \in 1..(n + 1) /\ f[i + 1] = g[i]
    OBVIOUS
  <2>6. f \in [1..(n + 1) -> A]
    BY <2>4
  <2>7. ASSUME NEW i \in 1..(n + 1), NEW j \in 1..(n + 1), i < j PROVE f[i] < f[j]
    <3>1. j - 1 \in 1..n /\ f[j] = g[j - 1]
      BY <2>7
    <3>2. CASE i = 1
      <4>1. g[j - 1] \in A \ {m}
        BY <3>1, <2>4
      <4>2. g[j - 1] \in Nat /\ m \in Nat /\ m # g[j - 1] /\ m <= g[j - 1]
        <5> HIDE DEF f
        <5> QED  BY <4>1, <2>2
      <4> HIDE DEF f
      <4> QED  BY <3>1, <3>2, <4>2, <2>5
    <3>3. CASE i # 1
      <4>1. i - 1 \in 1..n /\ f[i] = g[i - 1] /\ i - 1 < j - 1
        BY <2>7, <3>3
      <4>2. DOMAIN g = 1..n
        OBVIOUS
      <4> HIDE DEF f
      <4> QED  BY <3>1, <4>1, <4>2, <2>4 DEF Lists
    <3> QED  BY <3>2, <3>3
  <2>8. ASSUME NEW x \in A PROVE \E i \in 1..(n + 1) : f[i] = x
    <3>1. CASE x = m
      BY <2>5, <3>1
    <3>2. CASE x # m
      <4>1. PICK i \in 1..n : g[i] = x
        BY <2>4, <3>2 DEF Lists
      <4> QED  BY <4>1, <2>5
    <3> QED  BY <3>1, <3>2
  <2>9. DOMAIN f = 1..(n + 1)
    OBVIOUS
  <2> HIDE DEF f
  <2> QED  BY <2>6, <2>7, <2>8, <2>9 DEF Lists
<1> HIDE DEF Listed
<1>3. Nat \subseteq Listed
  BY <1>1, <1>2, SetInduction
<1>4. Cardinality(S) \in Listed
  BY <1>3, FS_CardinalityType
<1> QED  BY <1>4 DEF Listed

-----------------------------------------------------------------------------
(* Functions defined by recursion on a natural: the definition of one, in  *)
(* the modules these are about, only says what holds if there is one.      *)

Iterates(f, N, d, G) ==
    /\ f[0] = d
    /\ \A k \in 1..N : f[k] = G[<<k, f[k - 1]>>]

\* A function of 0..N that starts with d and goes on by G exists.
LEMMA Iterated ==
    ASSUME NEW N, N \in Nat, NEW D, NEW d, d \in D, NEW G, G \in [(1..N) \X D -> D]
    PROVE  \E f \in [0..N -> D] : Iterates(f, N, d, G)
<1> DEFINE Upto(n, f) == f[0] = d /\ \A k \in 1..n : f[k] = G[<<k, f[k - 1]>>]
           S == {n \in Nat : n <= N => \E f \in [0..n -> D] : Upto(n, f)}
<1>1. 0 \in S
  <2> DEFINE f == [i \in 0..0 |-> d]
  <2>1. f \in [0..0 -> D] /\ f[0] = d /\ 1..0 = {}
    OBVIOUS
  <2> HIDE DEF f
  <2> QED  BY <2>1
<1>2. ASSUME NEW n \in Nat, n \in S PROVE n + 1 \in S
  <2> SUFFICES ASSUME n + 1 <= N PROVE \E f \in [0..(n + 1) -> D] : Upto(n + 1, f)
    OBVIOUS
  <2>1. PICK f \in [0..n -> D] : Upto(n, f)
    BY <1>2
  <2> DEFINE g == [i \in 0..(n + 1) |-> IF i <= n THEN f[i] ELSE G[<<n + 1, f[n]>>]]
  <2>2. G[<<n + 1, f[n]>>] \in D
    <3>1. n + 1 \in 1..N /\ f[n] \in D
      BY <2>1
    <3> QED  BY <3>1
  <2>3. g \in [0..(n + 1) -> D]
    BY <2>1, <2>2
  <2>4. \A i \in 0..n : g[i] = f[i]
    OBVIOUS
  <2>5. g[n + 1] = G[<<n + 1, f[n]>>]
    OBVIOUS
  <2> HIDE DEF g
  <2>6. g[0] = d
    BY <2>1, <2>4
  <2>7. ASSUME NEW k \in 1..(n + 1) PROVE g[k] = G[<<k, g[k - 1]>>]
    <3>1. k - 1 \in 0..n /\ g[k - 1] = f[k - 1]
      BY <2>4
    <3>2. CASE k = n + 1
      BY <3>1, <3>2, <2>5
    <3>3. CASE k \in 1..n
      BY <3>1, <3>3, <2>1, <2>4
    <3> QED  BY <3>2, <3>3
  <2> QED  BY <2>3, <2>6, <2>7
<1>3. Nat \subseteq S
  <2> HIDE DEF S
  <2> QED  BY <1>1, <1>2, SetInduction
<1> QED  BY <1>3 DEF Iterates

\* One that stays in D step by step is a function into D.
LEMMA StepwiseIn ==
    ASSUME NEW N, N \in Nat, NEW D, NEW h, h = [i \in 0..N |-> h[i]], h[0] \in D,
           \A k \in 1..N : h[k - 1] \in D => h[k] \in D
    PROVE  h \in [0..N -> D]
<1> DEFINE S == {n \in Nat : n <= N => h[n] \in D}
<1>1. 0 \in S
  OBVIOUS
<1>2. ASSUME NEW n \in Nat, n \in S PROVE n + 1 \in S
  <2> SUFFICES ASSUME n + 1 <= N PROVE h[n + 1] \in D
    OBVIOUS
  <2>1. n + 1 \in 1..N /\ (n + 1) - 1 = n /\ h[n] \in D
    BY <1>2
  <2>2. h[(n + 1) - 1] \in D
    BY <2>1
  <2> QED  BY <2>1, <2>2
<1>3. Nat \subseteq S
  <2> HIDE DEF S
  <2> QED  BY <1>1, <1>2, SetInduction
<1>4. \A n \in 0..N : h[n] \in D
  BY <1>3
<1> QED  BY <1>4
====
