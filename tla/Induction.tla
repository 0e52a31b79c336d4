----------------------------- MODULE Induction -----------------------------
(***************************************************************************)
(* Induction over the naturals with sets: the theorems of the library take *)
(* an operator as a parameter, which the provers cannot instantiate.       *)
(***************************************************************************)
EXTENDS Integers, WellFoundedInduction, TLAPS

LessThan == {p \in Nat \X Nat : p[1] < p[2]}

LEMMA LessThanWF == IsWellFoundedOn(LessThan, Nat)
<1>1. IsWellFoundedOn(OpToRel(<, Nat), Nat)
  BY NatLessThanWellFounded
<1>2. OpToRel(<, Nat) = LessThan
  BY DEF OpToRel, LessThan
<1> QED
  BY <1>1, <1>2

LEMMA Least ==
    ASSUME NEW T \in SUBSET Nat, T # {}
    PROVE  \E m \in T : \A k \in T : m <= k
<1>1. \E m \in T : \A k \in T : ~(<<k, m>> \in LessThan)
  BY LessThanWF, WFMin, Zenon
<1>2. \A k, m \in Nat : k < m => <<k, m>> \in LessThan
  BY DEF LessThan
<1>3. PICK m \in T : \A k \in T : ~(<<k, m>> \in LessThan)
  BY <1>1
<1>4. \A k \in T : ~(k < m)
  BY <1>2, <1>3
<1> QED
  BY <1>3, <1>4

\* Induction: a set that has 0 and with every number its successor.
LEMMA Induction ==
    ASSUME NEW S, 0 \in S, \A n \in Nat : n \in S => n + 1 \in S
    PROVE  Nat \subseteq S
<1> DEFINE T == Nat \ S
<1> SUFFICES ASSUME T # {} PROVE FALSE
  OBVIOUS
<1>1. PICK m \in T : \A k \in T : m <= k
  BY Least
<1>2. m # 0 /\ m - 1 \in Nat
  BY <1>1
<1>3. m - 1 \in S
  BY <1>1, <1>2
<1> QED
  BY <1>1, <1>2, <1>3

LEMMA InductionTo ==
    ASSUME NEW N \in Nat, NEW S, 0 \in S, \A n \in 1 .. N : n - 1 \in S => n \in S
    PROVE  \A n \in 0 .. N : n \in S
<1> DEFINE T == {n \in Nat : n <= N => n \in S}
<1>1. 0 \in T
  OBVIOUS
<1>2. ASSUME NEW n \in Nat, n \in T
      PROVE  n + 1 \in T
  <2> SUFFICES ASSUME n + 1 <= N PROVE n + 1 \in S
    OBVIOUS
  <2>1. PICK m \in 1 .. N : m = n + 1
    OBVIOUS
  <2>2. m - 1 = n /\ n \in S
    BY <1>2, <2>1
  <2> QED
    BY <2>1, <2>2
<1> HIDE DEF T
<1>3. Nat \subseteq T
  BY <1>1, <1>2, Induction
<1> QED
  BY <1>3 DEF T

\* A loop of N turns from b on has a value before every turn and behind the
\* last.
IsLoop(f, N, b, G) == f = [n \in 0 .. N |-> IF n = 0 THEN b ELSE G[<<n, f[n - 1]>>]]

LEMMA Loop ==
    ASSUME NEW D, NEW b \in D, NEW N \in Nat, NEW G \in [(1 .. N) \X D -> D]
    PROVE  \E f \in [0 .. N -> D] : IsLoop(f, N, b, G)
<1> DEFINE P(m) == \E f \in [0 .. m -> D] :
                       f[0] = b /\ \A n \in 1 .. m : f[n] = G[<<n, f[n - 1]>>]
<1> DEFINE S == {m \in Nat : m <= N => P(m)}
<1>1. 0 \in S
  <2>1. [n \in 0 .. 0 |-> b] \in [0 .. 0 -> D] /\ [n \in 0 .. 0 |-> b][0] = b
    OBVIOUS
  <2>2. \A n \in 1 .. 0 : FALSE
    OBVIOUS
  <2>3. P(0)
    BY <2>1, <2>2
  <2> QED
    BY <2>3
<1>2. ASSUME NEW m \in Nat, m \in S
      PROVE  m + 1 \in S
  <2> SUFFICES ASSUME m + 1 <= N PROVE P(m + 1)
    OBVIOUS
  <2>1. PICK f \in [0 .. m -> D] :
            f[0] = b /\ \A n \in 1 .. m : f[n] = G[<<n, f[n - 1]>>]
    BY <1>2
  <2>2. f[m] \in D /\ <<m + 1, f[m]>> \in (1 .. N) \X D
    OBVIOUS
  <2>3. PICK d \in D : d = G[<<m + 1, f[m]>>]
    BY <2>2
  <2> DEFINE g == [n \in 0 .. m + 1 |-> IF n <= m THEN f[n] ELSE d]
  <2>4. g \in [0 .. m + 1 -> D]
    OBVIOUS
  <2>5. g[0] = b
    BY <2>1
  <2>6. ASSUME NEW n \in 1 .. m + 1
        PROVE  g[n] = G[<<n, g[n - 1]>>]
    <3>1. g[n - 1] = f[n - 1]
      OBVIOUS
    <3>2. CASE n <= m
      <4>1. n \in 1 .. m /\ g[n] = f[n]
        BY <3>2
      <4> QED
        BY <2>1, <3>1, <4>1, Zenon
    <3>3. CASE n = m + 1
      <4>1. g[n] = d /\ n - 1 = m
        BY <3>3
      <4> QED
        BY <2>3, <3>1, <3>3, <4>1, Zenon
    <3> QED
      BY <3>2, <3>3
  <2> HIDE DEF g
  <2> QED
    BY <2>4, <2>5, <2>6
<1> HIDE DEF S
<1>3. N \in S
  BY <1>1, <1>2, Induction
<1>4. PICK f \in [0 .. N -> D] :
          f[0] = b /\ \A n \in 1 .. N : f[n] = G[<<n, f[n - 1]>>]
  BY <1>3 DEF S
<1>5. \A n \in 0 .. N : f[n] = IF n = 0 THEN b ELSE G[<<n, f[n - 1]>>]
  BY <1>4
<1> QED
  BY <1>5 DEF IsLoop
=============================================================================
