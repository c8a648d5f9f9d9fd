----------------------------- MODULE Induction -----------------------------
(***************************************************************************)
(* Induction over the natural numbers, stated with a set in place of a     *)
(* predicate: the step of a loop is proved for the set of the numbers that *)
(* satisfy it.  It follows from the pigeon hole principle: if k is the     *)
(* number left out, adding one maps what is in the set below k into itself *)
(* without 0.                                                              *)
(***************************************************************************)
EXTENDS Integers, FiniteSetTheorems, TLAPS

\* Induction for a set of natural numbers: the loops of the code (revert block
\* by block, keep the order of a sorted Vec) are reasoned about with it.
LEMMA SetInduction ==
  ASSUME NEW S, 0 \in S, \A n \in Nat : n \in S => n + 1 \in S
  PROVE  \A n \in Nat : n \in S
<1> SUFFICES ASSUME NEW k \in Nat, k \notin S PROVE FALSE
  OBVIOUS
<1> DEFINE T == { n \in 0..k : n \in S }
           up == [n \in T |-> n + 1]
<1>1. IsFiniteSet(T) /\ 0 \in T
  <2>1. IsFiniteSet(0..k)
    BY FS_Interval
  <2>2. T \in SUBSET (0..k)
    OBVIOUS
  <2> QED
    BY <2>1, <2>2, FS_Subset
<1>2. ASSUME NEW n \in T PROVE n + 1 \in T \ {0}
  BY n # k
<1>3. up \in [T -> T \ {0}]
  BY <1>2
<1>4. IsFiniteSet(T \ {0}) /\ Cardinality(T \ {0}) < Cardinality(T)
  <2> HIDE DEF T
  <2>1. Cardinality(T) \in Nat
    BY <1>1, FS_CardinalityType
  <2>2. /\ IsFiniteSet(T \ {0})
        /\ Cardinality(T \ {0}) = IF 0 \in T THEN Cardinality(T) - 1 ELSE Cardinality(T)
    BY <1>1, FS_RemoveElement
  <2>3. Cardinality(T \ {0}) = Cardinality(T) - 1
    BY <1>1, <2>2
  <2> QED
    BY <2>1, <2>2, <2>3
<1>5. \E x, y \in T : x # y /\ up[x] = up[y]
  <2> HIDE DEF T, up
  <2> QED
    BY <1>1, <1>3, <1>4, FS_PigeonHole
<1> QED
  BY <1>5

\* f is what a loop with n rounds goes through, from c, with round i as G.
IteratesTo(f, c, n, G) == f[0] = c /\ \A i \in 1..n : f[i] = G[<<f[i - 1], i>>]

\* A loop over 1..n goes through some values: this is what makes a recursive
\* function over 0..n, as which the loops of the code are written, have a value.
LEMMA Iterates ==
  ASSUME NEW D, NEW c \in D, NEW n \in Nat, NEW G \in [D \X (1..n) -> D]
  PROVE  \E f \in [0..n -> D] : IteratesTo(f, c, n, G)
<1> USE DEF IteratesTo
<1> DEFINE S == { k \in Nat : k <= n =>
             \E f \in [0..k -> D] : f[0] = c /\ \A i \in 1..k : f[i] = G[<<f[i - 1], i>>] }
<1>1. 0 \in S
  <2> DEFINE f == [i \in 0..0 |-> c]
  <2>1. f \in [0..0 -> D] /\ f[0] = c /\ 1..0 = {}
    OBVIOUS
  <2> HIDE DEF f
  <2> QED
    BY <2>1
<1>2. ASSUME NEW k \in Nat, k \in S PROVE k + 1 \in S
  <2> SUFFICES ASSUME k + 1 <= n
               PROVE  \E f \in [0..k + 1 -> D] :
                        f[0] = c /\ \A i \in 1..k + 1 : f[i] = G[<<f[i - 1], i>>]
    OBVIOUS
  <2>1. PICK g \in [0..k -> D] : g[0] = c /\ \A i \in 1..k : g[i] = G[<<g[i - 1], i>>]
    BY <1>2
  <2> DEFINE f == [i \in 0..k + 1 |-> IF i = k + 1 THEN G[<<g[k], k + 1>>] ELSE g[i]]
  <2>2. G[<<g[k], k + 1>>] \in D
    <3>1. g[k] \in D /\ k + 1 \in 1..n
      OBVIOUS
    <3>2. <<g[k], k + 1>> \in D \X (1..n)
      BY <3>1
    <3> QED
      BY <3>2
  <2>3. f \in [0..k + 1 -> D] /\ f[0] = c
    BY <2>1, <2>2
  <2>4. ASSUME NEW i \in 1..k + 1 PROVE f[i] = G[<<f[i - 1], i>>]
    <3>1. CASE i = k + 1
      <4>1. f[i - 1] = g[k] /\ f[i] = G[<<g[k], k + 1>>]
        BY <3>1
      <4> QED
        BY <4>1, <3>1
    <3>2. CASE i # k + 1
      <4>1. f[i] = g[i] /\ f[i - 1] = g[i - 1] /\ i \in 1..k
        BY <3>2
      <4> QED
        BY <4>1, <2>1
    <3> QED
      BY <3>1, <3>2
  <2> HIDE DEF f
  <2> QED
    BY <2>3, <2>4
<1>3. n \in S
  <2> HIDE DEF S
  <2> QED
    BY <1>1, <1>2, SetInduction
<1> QED
  BY <1>3
=============================================================================
