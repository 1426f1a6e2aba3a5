------------------------------ MODULE Recursion -------------------------------
(* What the proofs about recursive functions rest on.  The theorems of the  *)
(* library that state induction take an operator; here they are stated of   *)
(* sets and functions, and derived from the order of finite sets by         *)
(* inclusion.                                                               *)
EXTENDS Integers, FiniteSetTheorems, WellFoundedInduction, TLAPS

(* A set of numbers that is not empty has a least one: of the intervals up  *)
(* to its elements one contains no other.                                   *)
LEMMA LeastNumber ==
  ASSUME NEW S, S \subseteq Nat, S # {}
  PROVE  \E m \in S : \A k \in S : m <= k
<1> DEFINE intervals == {0..k : k \in S}
<1>1. intervals \subseteq FiniteSubsetsOf(Nat)
  <2> SUFFICES ASSUME NEW k \in S PROVE 0..k \in FiniteSubsetsOf(Nat)
    OBVIOUS
  <2> QED
    BY FS_Interval DEF FiniteSubsetsOf
<1>2. \E x \in intervals : \A y \in intervals : <<y, x>> \notin StrictSubsetOrdering(Nat)
  <2>1. intervals # {}
    OBVIOUS
  <2> HIDE DEF intervals
  <2> QED
    BY <1>1, <2>1, WFMin, FS_StrictSubsetOrderingWellFounded
<1>3. PICK m \in S : \A k \in S : <<0..k, 0..m>> \notin StrictSubsetOrdering(Nat)
  BY <1>2
<1>4. ASSUME NEW k \in S PROVE m <= k
  <2>1. 0..k \in SUBSET Nat /\ 0..m \in SUBSET Nat
    OBVIOUS
  <2>2. ~(0..k \subseteq 0..m /\ 0..k # 0..m)
    BY <1>3, <2>1 DEF StrictSubsetOrdering
  <2>3. k < m => 0..k \subseteq 0..m /\ m \in 0..m /\ m \notin 0..k
    OBVIOUS
  <2> QED
    BY <2>2, <2>3
<1> QED
  BY <1>4

(* Induction up to a number.                                                *)
LEMMA UpTo ==
  ASSUME NEW N \in Nat, NEW S, 0 \in S, \A n \in 1..N : n - 1 \in S => n \in S
  PROVE  0..N \subseteq S
<1> DEFINE missing == (0..N) \ S
<1> SUFFICES ASSUME missing # {} PROVE FALSE
  OBVIOUS
<1>1. \E m \in missing : \A k \in missing : m <= k
  <2>1. missing \subseteq Nat
    OBVIOUS
  <2> HIDE DEF missing
  <2> QED
    BY <2>1, LeastNumber
<1>2. PICK m \in missing : \A k \in missing : m <= k
  BY <1>1
<1>3. m \in 1..N /\ m - 1 \in 0..N /\ m - 1 \notin missing
  BY <1>2
<1> QED
  BY <1>2, <1>3

(* f iterates a step function from a: step takes the number of the step and *)
(* what the one before it has led to.                                       *)
Iterates(f, V, a, N, step) ==
  /\ f \in [0..N -> V]
  /\ f[0] = a
  /\ \A n \in 1..N : f[n] = step[<<n, f[n - 1]>>]

(* Any step function can be iterated.                                       *)
LEMMA Iteration ==
  ASSUME NEW V, NEW a \in V, NEW N \in Nat, NEW step, step \in [(1..N) \X V -> V]
  PROVE  \E f : Iterates(f, V, a, N, step)
<1> DEFINE good == {k \in 0..N : \E f : Iterates(f, V, a, k, step)}
<1>1. 0 \in good
  <2> DEFINE g == [i \in 0..0 |-> a]
  <2>1. g \in [0..0 -> V] /\ g[0] = a /\ \A n \in 1..0 : g[n] = step[<<n, g[n - 1]>>]
    OBVIOUS
  <2>2. 0 \in 0..N
    OBVIOUS
  <2> HIDE DEF g
  <2> QED
    BY <2>1, <2>2 DEF Iterates
<1>2. ASSUME NEW k \in 1..N, k - 1 \in good PROVE k \in good
  <2>1. PICK f : Iterates(f, V, a, k - 1, step)
    BY <1>2
  <2> DEFINE g == [i \in 0..k |-> IF i = k THEN step[<<k, f[k - 1]>>] ELSE f[i]]
  <2>2. g \in [0..k -> V]
    <3>1. f \in [0..(k - 1) -> V] /\ f[k - 1] \in V
      BY <2>1 DEF Iterates
    <3>2. <<k, f[k - 1]>> \in (1..N) \X V
      BY <3>1
    <3>3. step[<<k, f[k - 1]>>] \in V
      BY <3>2
    <3>4. \A i \in 0..k : i # k => f[i] \in V
      BY <3>1
    <3> QED
      BY <3>3, <3>4
  <2>3. g[0] = a
    BY <2>1 DEF Iterates
  <2>4. ASSUME NEW n \in 1..k PROVE g[n] = step[<<n, g[n - 1]>>]
    <3>1. n - 1 \in 0..k /\ n - 1 # k /\ g[n - 1] = f[n - 1]
      OBVIOUS
    <3>2. CASE n = k
      BY <3>1, <3>2
    <3>3. CASE n # k
      <4>1. n \in 1..(k - 1) /\ g[n] = f[n]
        BY <3>3
      <4> QED
        BY <4>1, <3>1, <2>1 DEF Iterates
    <3> QED
      BY <3>2, <3>3
  <2> HIDE DEF g
  <2> QED
    BY <2>2, <2>3, <2>4 DEF Iterates
<1>3. 0..N \subseteq good
  <2> HIDE DEF good
  <2> QED
    BY <1>1, <1>2, UpTo
<1> QED
  BY <1>3
=============================================================================
