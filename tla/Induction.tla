------------------------------ MODULE Induction -----------------------------
(* Induction for the proof modules. The library's induction theorems take   *)
(* the statement to be proved as a parameter, which no prover here can      *)
(* instantiate. A least element of a set of naturals says the same: a proof *)
(* takes the set of counterexamples, assumes it is not empty, and refutes   *)
(* its least element. From it follow that recursively defined functions     *)
(* exist, and that an increasing iteration over a finite set comes to rest. *)
EXTENDS Integers, FiniteSetTheorems, WellFoundedInduction, TLAPS

(* A nonempty set of naturals has a least element: the form in which the    *)
(* proofs below do induction.                                               *)
LEMMA LeastOf ==
  ASSUME NEW S \in SUBSET Nat, S # {}
  PROVE  \E n \in S : \A m \in S : n <= m
<1>1. PICK z \in S : TRUE
  OBVIOUS
<1>. DEFINE T == {0 .. m : m \in {k \in S : k <= z}}
<1>2. IsFiniteSet(0 .. z)
  BY FS_Interval
<1>3. IsWellFoundedOn(StrictSubsetOrdering(0 .. z), SUBSET (0 .. z))
  BY <1>2, FS_StrictSubsetOrderingWellFounded, FS_FiniteSubsetsOfFinite, Zenon
<1>4. T \subseteq SUBSET (0 .. z) /\ T # {}
  OBVIOUS
<1>. HIDE DEF T
<1>5. PICK x \in T : \A y \in T : <<y, x>> \notin StrictSubsetOrdering(0 .. z)
  BY <1>3, <1>4, WFMin
<1>6. PICK n \in S : n <= z /\ x = 0 .. n
  BY <1>5 DEF T
<1>7. SUFFICES ASSUME NEW m \in S, m < n PROVE FALSE
  BY <1>6
<1>8. 0 .. m \in T
  BY <1>6, <1>7 DEF T
<1>9. 0 .. m \subseteq 0 .. n /\ 0 .. m # 0 .. n /\ 0 .. n \in T
  BY <1>5, <1>6, <1>7
<1>10. <<0 .. m, 0 .. n>> \in StrictSubsetOrdering(0 .. z)
  BY <1>4, <1>8, <1>9 DEF StrictSubsetOrdering
<1>. QED  BY <1>5, <1>6, <1>8, <1>10

\* f is defined on 0 .. N from its value at the argument before
Iterates(f, N, T, a, G) ==
  /\ f \in [0 .. N -> T]
  /\ \A n \in 0 .. N : f[n] = IF n = 0 THEN a ELSE G[f[n - 1]]

(* Such a function exists.                                                  *)
LEMMA RecursionExists ==
  ASSUME NEW N \in Nat, NEW T, NEW a \in T, NEW G \in [T -> T]
  PROVE  \E f : Iterates(f, N, T, a, G)
<1>. DEFINE Good(m, f) == \A n \in 0 .. m : f[n] = IF n = 0 THEN a ELSE G[f[n - 1]]
<1>. DEFINE Bad == {m \in Nat : \A f \in [0 .. m -> T] : ~Good(m, f)}
<1>1. ASSUME Bad # {} PROVE FALSE
  <2>1. PICK m \in Bad : \A k \in Bad : m <= k
    <3>. HIDE DEF Bad
    <3>1. Bad \in SUBSET Nat
      BY DEF Bad
    <3>. QED  BY <1>1, <3>1, LeastOf
  <2>2. CASE m = 0
    <3>. DEFINE g == [n \in 0 .. 0 |-> a]
    <3>1. g \in [0 .. 0 -> T] /\ Good(0, g)
      OBVIOUS
    <3>. QED  BY <2>1, <2>2, <3>1
  <2>3. CASE m # 0
    <3>1. m - 1 \in Nat /\ m - 1 \notin Bad
      <4>1. m \in Nat /\ m - 1 \in Nat /\ ~(m <= m - 1)
        BY <2>3
      <4>. HIDE DEF Bad
      <4>. QED  BY <2>1, <4>1
    <3>2. PICK f \in [0 .. m - 1 -> T] : Good(m - 1, f)
      BY <3>1
    <3>. DEFINE g == [n \in 0 .. m |-> IF n = m THEN G[f[m - 1]] ELSE f[n]]
    <3>3. g \in [0 .. m -> T]
      BY <3>1, <2>1
    <3>4. ASSUME NEW n \in 0 .. m PROVE g[n] = IF n = 0 THEN a ELSE G[g[n - 1]]
      <4>1. CASE n = m
        <5>1. g[n] = G[f[m - 1]] /\ g[m - 1] = f[m - 1]
          BY <3>1, <4>1
        <5>. QED  BY <2>3, <4>1, <5>1
      <4>2. CASE n # m
        <5>1. n \in 0 .. m - 1 /\ g[n] = f[n] /\ (n # 0 => g[n - 1] = f[n - 1])
          BY <3>1, <4>2
        <5>. QED  BY <3>2, <5>1
      <4>. QED  BY <4>1, <4>2
    <3>. QED  BY <2>1, <3>3, <3>4
  <2>. QED  BY <2>2, <2>3
<1>2. PICK f \in [0 .. N -> T] : Good(N, f)
  BY <1>1
<1>. QED  BY <1>2 DEF Iterates

\* a function of sets that keeps their order
Grows(U, G) ==
  /\ G \in [SUBSET U -> SUBSET U]
  /\ \A S, V \in SUBSET U : S \subseteq V => G[S] \subseteq G[V]

(* A growing chain of subsets of U, each made from the one before, has      *)
(* stopped growing after as many steps as U has elements.                   *)
LEMMA ChainStops ==
  ASSUME NEW U, IsFiniteSet(U), NEW N \in Nat, Cardinality(U) <= N,
         NEW G, Grows(U, G), NEW a \in SUBSET U, a \subseteq G[a],
         NEW A, Iterates(A, N, SUBSET U, a, G)
  PROVE  G[A[N]] = A[N]
<1>. /\ G \in [SUBSET U -> SUBSET U] /\ A \in [0 .. N -> SUBSET U]
     /\ \A S, V \in SUBSET U : S \subseteq V => G[S] \subseteq G[V]
     /\ A[0] \subseteq G[A[0]]
     /\ \A n \in 1 .. N : A[n] = G[A[n - 1]]
  BY DEF Grows, Iterates
<1>. DEFINE Shrinks == {n \in 0 .. N : ~(A[n] \subseteq G[A[n]])}
<1>1. \A n \in 0 .. N : A[n] \subseteq G[A[n]]
  <2>1. ASSUME Shrinks # {} PROVE FALSE
    <3>1. PICK n \in Shrinks : \A k \in Shrinks : n <= k
      <4>1. Shrinks \in SUBSET Nat
        OBVIOUS
      <4>. HIDE DEF Shrinks
      <4>. QED  BY <2>1, <4>1, LeastOf
    <3>2. n # 0 /\ n - 1 \in 0 .. N /\ n - 1 \notin Shrinks
      BY <3>1
    <3>3. A[n] = G[A[n - 1]] /\ A[n - 1] \subseteq A[n]
      BY <3>1, <3>2
    <3>4. G[A[n - 1]] \subseteq G[A[n]]
      BY <3>2, <3>3
    <3>. QED  BY <3>1, <3>3, <3>4
  <2>. QED  BY <2>1
<1>2. \A n \in 0 .. N : IsFiniteSet(A[n]) /\ Cardinality(A[n]) \in Nat
  BY FS_Subset, FS_CardinalityType
<1>3. \E m \in 0 .. N : G[A[m]] = A[m]
  <2>. SUFFICES ASSUME \A m \in 0 .. N : G[A[m]] # A[m] PROVE FALSE
    OBVIOUS
  <2>. DEFINE Small == {n \in 0 .. N : Cardinality(A[n]) < n}
  <2>1. \A n \in 0 .. N : Cardinality(A[n]) >= n
    <3>1. ASSUME Small # {} PROVE FALSE
      <4>1. PICK n \in Small : \A k \in Small : n <= k
        <5>1. Small \in SUBSET Nat
          OBVIOUS
        <5>. HIDE DEF Small
        <5>. QED  BY <3>1, <5>1, LeastOf
      <4>2. n # 0 /\ n - 1 \in 0 .. N /\ n - 1 \notin Small
        BY <1>2, <4>1
      <4>3. A[n - 1] \subseteq A[n] /\ A[n - 1] # A[n]
        BY <1>1, <4>1, <4>2
      <4>. DEFINE B == A[n - 1]
      <4>. DEFINE C == A[n]
      <4>4. /\ IsFiniteSet(C) /\ B \in SUBSET C /\ B # C
          /\ Cardinality(B) \in Nat /\ Cardinality(C) \in Nat
        BY <1>2, <4>1, <4>2, <4>3
      <4>. HIDE DEF B, C
      <4>5. Cardinality(B) <= Cardinality(C) /\ Cardinality(B) # Cardinality(C)
        BY <4>4, FS_Subset
      <4>. QED  BY <1>2, <4>1, <4>2, <4>5 DEF B, C
    <3>. QED  BY <1>2, <3>1
  <2>2. Cardinality(A[N]) = Cardinality(U)
    BY <1>2, <2>1, FS_Subset, FS_CardinalityType
  <2>3. A[N] = U
    BY <2>2, FS_Subset
  <2>. QED
    <3>1. A[N] \in SUBSET U /\ G[A[N]] \in SUBSET U /\ A[N] \subseteq G[A[N]] /\ N \in 0 .. N
      BY <1>1
    <3>2. U \subseteq A[N]
      BY <2>3
    <3>3. G[A[N]] = A[N]
      BY <3>1, <3>2
    <3>. QED  BY <3>3
<1>4. PICK m \in 0 .. N : G[A[m]] = A[m]
  BY <1>3
<1>. DEFINE Moved == {n \in m .. N : A[n] # A[m]}
<1>5. ASSUME Moved # {} PROVE FALSE
  <2>1. PICK n \in Moved : \A k \in Moved : n <= k
    <3>1. Moved \in SUBSET Nat
      OBVIOUS
    <3>. HIDE DEF Moved
    <3>. QED  BY <1>5, <3>1, LeastOf
  <2>2. n # m /\ n - 1 \in m .. N /\ n - 1 \notin Moved /\ n \in 1 .. N
    BY <2>1
  <2>3. A[n] = G[A[n - 1]] /\ A[n - 1] = A[m]
    BY <2>2
  <2>. QED  BY <1>4, <2>1, <2>3
<1>6. A[N] = A[m]
  BY <1>5
<1>. QED  BY <1>4, <1>6
=============================================================================
